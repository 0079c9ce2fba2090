-------------------------- MODULE LoadEngineProofs ---------------------------
(***************************************************************************)
(* Proofs about LoadEngine, for any number of loads with batches of any    *)
(* length: what a load may do to the versions that other loads have found. *)
(***************************************************************************)
EXTENDS LoadEngine, FiniteSetTheorems, TLAPS

\* Only a load that was begun has expired anything, and only an open one is
\* in the middle of an UPDATE.
OnlyWhenOpen ==
  \A l \in Loads :
    /\ found[l] # {} => Open(l) /\ loadType = "SCD2"
    /\ \A v \in Versions : <<v, l>> \in expired => phase[l] # "idle"

\* An upsert that has replaced a row has written one of the same key, whose
\* index entry holds the others off until the transaction ends.
ReplacedByKey ==
  loadType = "UPSERT" =>
    \A v \in Versions, l \in Loads :
      <<v, l>> \in expired => \E w \in Written(l) : KeyOf(w) = KeyOf(v)

\* Of two loads that have set the expiry of a version one was rolled back.
OneStands ==
  \A v \in Versions, l, m \in Loads :
    <<v, l>> \in expired /\ <<v, m>> \in expired /\ l # m
      => phase[l] = "aborted" \/ phase[m] = "aborted"

IInv == TypeOK /\ OnlyWhenOpen /\ ReplacedByKey /\ OneStands

\* The rank that Begin gives a load is a number: there are finitely many.
LEMMA RankTyped == Cardinality({m \in Loads : began[m] # 0}) \in Nat
  <1>1. IsFiniteSet({m \in Loads : began[m] # 0})
    BY ConstantsAssumption, FS_Subset
  <1>. QED  BY <1>1, FS_CardinalityType

\* What has been written are versions.
LEMMA WrittenTyped ==
  ASSUME TypeOK
  PROVE  /\ AllWritten \subseteq Versions
         /\ \A l \in Loads : Written(l) \subseteq Versions
  <1>1. \A l \in Loads : 1 .. pos[l] \subseteq Nat \ {0}
    BY DEF TypeOK
  <1>. QED  BY <1>1 DEF AllWritten, Written, Versions

\* No table starts with anything written or expired.
LEMMA InitIInv == Init => IInv
  BY ConstantsAssumption
     DEF Init, IInv, TypeOK, OnlyWhenOpen, ReplacedByKey, OneStands

\* Type correctness over one step.
LEMMA StepTypeOK == ASSUME TypeOK, [Next]_vars PROVE TypeOK'
  <1>. USE DEF TypeOK
  <1>1. ASSUME NEW l \in Loads, Begin(l) PROVE TypeOK'
    <2>1. began' \in [Loads -> Nat]
      BY <1>1, RankTyped DEF Begin
    <2>2. met' \subseteq Loads \X Loads
      BY <1>1 DEF Begin
    <2>. QED  BY <1>1, <2>1, <2>2 DEF Begin
  <1>2. ASSUME NEW l \in Loads, AppendRecord(l) PROVE TypeOK'
    BY <1>2 DEF AppendRecord
  <1>3. ASSUME NEW l \in Loads, Upsert(l) PROVE TypeOK'
    <2>1. expired' \subseteq Versions \X Loads
      BY <1>3, WrittenTyped DEF Upsert
    <2>. QED  BY <1>3, <2>1 DEF Upsert
  <1>4. ASSUME NEW l \in Loads, FindCurrent(l) PROVE TypeOK'
    <2>1. Matches(l) \subseteq Versions
      BY WrittenTyped DEF Matches
    <2>. QED  BY <1>4, <2>1 DEF FindCurrent
  <1>5. ASSUME NEW l \in Loads, NEW v \in found[l], ExpireRow(l, v) PROVE TypeOK'
    <2>1. v \in Versions
      OBVIOUS
    <2>. QED  BY <1>5, <2>1 DEF ExpireRow
  <1>6. ASSUME NEW l \in Loads, NEW v \in found[l], PassRow(l, v) PROVE TypeOK'
    BY <1>6 DEF PassRow
  <1>7. ASSUME NEW l \in Loads, InsertVersion(l) PROVE TypeOK'
    BY <1>7 DEF InsertVersion
  <1>8. ASSUME NEW l \in Loads, NEW how \in {"committed", "aborted"}, Close(l, how)
        PROVE  TypeOK'
    BY <1>8 DEF Close
  <1>9. CASE UNCHANGED vars
    BY <1>9 DEF vars
  <1>. QED
    BY <1>1, <1>2, <1>3, <1>4, <1>5, <1>6, <1>7, <1>8, <1>9
       DEF Next, Write, Commit, Fail, BreakDeadlock

\* The inductive step: no action of any load disturbs IInv.
LEMMA StepIInv == ASSUME IInv, [Next]_vars PROVE IInv'
  <1>. USE DEF IInv
  <1>0. TypeOK'
    BY StepTypeOK
  <1>. DEFINE Rest == OnlyWhenOpen /\ ReplacedByKey /\ OneStands
  <1>1. ASSUME NEW l \in Loads, Begin(l) PROVE Rest'
    <2>1. OnlyWhenOpen'
      BY <1>1 DEF Begin, TypeOK, OnlyWhenOpen, Open
    <2>2. ReplacedByKey'
      BY <1>1 DEF Begin, ReplacedByKey, Written, KeyOf
    <2>3. OneStands'
      BY <1>1 DEF Begin, TypeOK, OnlyWhenOpen, OneStands
    <2>. QED  BY <2>1, <2>2, <2>3
  <1>2. ASSUME NEW l \in Loads, AppendRecord(l) PROVE Rest'
    <2>1. OnlyWhenOpen' /\ OneStands'
      BY <1>2 DEF AppendRecord, OnlyWhenOpen, OneStands, Open
    <2>2. ReplacedByKey'
      BY <1>2 DEF AppendRecord, ReplacedByKey
    <2>. QED  BY <2>1, <2>2
  <1>3. ASSUME NEW l \in Loads, Upsert(l) PROVE Rest'
    <2>1. Open(l) /\ loadType = "UPSERT"
      BY <1>3 DEF Upsert, HasNext
    <2>2. OnlyWhenOpen'
      BY <1>3, <2>1 DEF Upsert, OnlyWhenOpen, Open
    <2>3. ReplacedByKey'
      <3>1. \A m \in Loads : Written(m) \subseteq Written(m)'
        BY <1>3 DEF Upsert, Written, TypeOK
      <3>2. /\ <<l, pos[l] + 1>> \in Written(l)'
            /\ KeyOf(<<l, pos[l] + 1>>) = NextKey(l)
        BY <1>3 DEF Upsert, Written, KeyOf, NextKey, TypeOK
      <3>3. ASSUME NEW v \in Versions, NEW m \in Loads, <<v, m>> \in expired'
            PROVE  \E w \in Written(m)' : KeyOf(w) = KeyOf(v)
        <4>1. CASE <<v, m>> \in expired
          BY <4>1, <3>1, <2>1 DEF ReplacedByKey
        <4>2. CASE <<v, m>> \notin expired
          <5>1. m = l /\ KeyOf(v) = NextKey(l)
            BY <1>3, <3>3, <4>2 DEF Upsert
          <5>. QED  BY <5>1, <3>2
        <4>. QED  BY <4>1, <4>2
      <3>. QED  BY <3>3 DEF ReplacedByKey, KeyOf
    <2>4. OneStands'
      <3>1. ASSUME NEW v \in Versions, NEW m \in Loads, m # l,
                   <<v, l>> \in expired', <<v, l>> \notin expired, <<v, m>> \in expired
            PROVE  phase[m] = "aborted"
        <4>1. KeyOf(v) = NextKey(l) /\ ~Ended(v)
          BY <1>3, <3>1 DEF Upsert, SeesCurrent
        <4>2. \E w \in Written(m) : KeyOf(w) = NextKey(l)
          BY <2>1, <3>1, <4>1 DEF ReplacedByKey
        <4>3. phase[m] # "open"
          BY <1>3, <3>1, <4>2 DEF Upsert, LocksKey, Open
        <4>4. phase[m] # "committed"
          BY <3>1, <4>1 DEF Ended, Committed
        <4>5. phase[m] # "idle"
          BY <3>1 DEF OnlyWhenOpen
        <4>. QED  BY <4>3, <4>4, <4>5 DEF TypeOK
      <3>2. \A v \in Versions, m \in Loads : m # l =>
              (<<v, m>> \in expired' <=> <<v, m>> \in expired)
        BY <1>3 DEF Upsert
      <3>3. phase' = phase
        BY <1>3 DEF Upsert
      <3>4. ASSUME NEW v \in Versions, NEW a \in Loads, NEW b \in Loads, a # b,
                   <<v, a>> \in expired', <<v, b>> \in expired'
            PROVE  phase[a] = "aborted" \/ phase[b] = "aborted"
        <4>1. CASE <<v, a>> \in expired /\ <<v, b>> \in expired
          BY <4>1, <3>4 DEF OneStands
        <4>2. CASE <<v, a>> \notin expired
          BY <4>2, <3>1, <3>2, <3>4
        <4>3. CASE <<v, b>> \notin expired
          BY <4>3, <3>1, <3>2, <3>4
        <4>. QED  BY <4>1, <4>2, <4>3
      <3>. QED  BY <3>3, <3>4 DEF OneStands
    <2>. QED  BY <2>2, <2>3, <2>4
  <1>4. ASSUME NEW l \in Loads, FindCurrent(l) PROVE Rest'
    <2>1. OnlyWhenOpen'
      BY <1>4 DEF FindCurrent, HasNext, OnlyWhenOpen, Open, TypeOK
    <2>2. ReplacedByKey' /\ OneStands'
      BY <1>4 DEF FindCurrent, ReplacedByKey, OneStands, Written, KeyOf
    <2>. QED  BY <2>1, <2>2
  <1>5. ASSUME NEW l \in Loads, NEW v \in found[l], ExpireRow(l, v) PROVE Rest'
    <2>1. v \in Versions /\ phase[l] = "open" /\ loadType = "SCD2"
      BY DEF TypeOK, OnlyWhenOpen, Open
    <2>2. OnlyWhenOpen'
      BY <1>5, <2>1 DEF ExpireRow, OnlyWhenOpen, Open, TypeOK
    <2>3. ReplacedByKey'
      BY <1>5, <2>1 DEF ExpireRow, ReplacedByKey
    <2>4. \A m \in Loads \ {l} : <<v, m>> \in expired => phase[m] = "aborted"
      BY <1>5, <2>1
         DEF ExpireRow, RowLocked, StillMatches, Ended, Committed, Open,
             OnlyWhenOpen, TypeOK
    <2>5. OneStands'
      BY <1>5, <2>1, <2>4 DEF ExpireRow, OneStands
    <2>. QED  BY <2>2, <2>3, <2>5
  <1>6. ASSUME NEW l \in Loads, NEW v \in found[l], PassRow(l, v) PROVE Rest'
    <2>1. OnlyWhenOpen'
      BY <1>6 DEF PassRow, OnlyWhenOpen, Open, TypeOK
    <2>2. ReplacedByKey' /\ OneStands'
      BY <1>6 DEF PassRow, ReplacedByKey, OneStands, Written, KeyOf
    <2>. QED  BY <2>1, <2>2
  <1>7. ASSUME NEW l \in Loads, InsertVersion(l) PROVE Rest'
    <2>1. OnlyWhenOpen' /\ OneStands'
      BY <1>7 DEF InsertVersion, OnlyWhenOpen, OneStands, Open
    <2>2. \A m \in Loads : Written(m) \subseteq Written(m)'
      BY <1>7 DEF InsertVersion, Written, TypeOK
    <2>3. ReplacedByKey'
      BY <1>7, <2>2 DEF InsertVersion, ReplacedByKey, KeyOf
    <2>. QED  BY <2>1, <2>3
  <1>8. ASSUME NEW l \in Loads, NEW how \in {"committed", "aborted"},
               Close(l, how), how = "aborted" \/ Open(l)
        PROVE  Rest'
    <2>1. OnlyWhenOpen'
      BY <1>8 DEF Close, OnlyWhenOpen, Open, TypeOK
    <2>2. ReplacedByKey'
      BY <1>8 DEF Close, ReplacedByKey, Written, KeyOf
    <2>3. OneStands'
      BY <1>8 DEF Close, OneStands, Open, TypeOK
    <2>. QED  BY <2>1, <2>2, <2>3
  <1>9. CASE UNCHANGED vars
    <2>1. OnlyWhenOpen' /\ OneStands'
      BY <1>9 DEF vars, OnlyWhenOpen, OneStands, Open
    <2>2. ReplacedByKey'
      BY <1>9 DEF vars, ReplacedByKey, Written, KeyOf
    <2>. QED  BY <1>0, <2>1, <2>2
  <1>10. Rest'
    BY <1>1, <1>2, <1>3, <1>4, <1>5, <1>6, <1>7, <1>8, <1>9
       DEF Next, Write, Commit, Fail, BreakDeadlock
  <1>. QED  BY <1>0, <1>10

\* Every state of the load engine satisfies the inductive invariant.
LEMMA Invariance == Spec => []IInv
  <1>1. Init => IInv
    BY InitIInv
  <1>2. IInv /\ [Next]_vars => IInv'
    BY StepIInv
  <1>. QED  BY <1>1, <1>2, PTL DEF Spec

\* Type correctness, for any finite set of loads and batches of any length.
THEOREM TypeCorrect == Spec => []TypeOK
  <1>1. IInv => TypeOK
    BY DEF IInv
  <1>. QED  BY <1>1, Invariance, PTL

\* ClosedOnce, for any loads: LoadEngine relies on the database to evaluate
\* the WHERE of _scd2's UPDATE again after a wait, and on the unique index
\* of _upsert; no version is closed by two committed loads.
THEOREM VersionsClosedOnce == Spec => []ClosedOnce
  <1>1. IInv => ClosedOnce
    <2>. SUFFICES ASSUME IInv, NEW v \in AllWritten, NEW l \in Loads, NEW m \in Loads,
                         Committed(l), <<v, l>> \in expired,
                         Committed(m), <<v, m>> \in expired
                  PROVE  l = m
      BY DEF ClosedOnce
    <2>1. v \in Versions
      BY WrittenTyped DEF IInv
    <2>. QED  BY <2>1 DEF IInv, OneStands, Committed
  <1>. QED  BY <1>1, Invariance, PTL

=============================================================================
