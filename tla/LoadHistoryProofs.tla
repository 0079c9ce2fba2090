-------------------------- MODULE LoadHistoryProofs --------------------------
(***************************************************************************)
(* More proofs about LoadEngine, for any finite set of loads and batches   *)
(* of any length: the history of a key, and the refinement of TargetTable. *)
(***************************************************************************)
EXTENDS LoadEngineProofs, WellFoundedInduction

-----------------------------------------------------------------------------
(* The order of the loads                                                  *)

IsWritten(v) == v[2] <= pos[v[1]]
Begun        == {m \in Loads : began[m] # 0}

\* Ranks are given out one by one, and a load never meets itself.
Ranks ==
  /\ \A l \in Loads : /\ began[l] # 0 <=> phase[l] # "idle"
                      /\ began[l] <= Cardinality(Begun)
                      /\ phase[l] = "idle" => pos[l] = 0
                      /\ <<l, l>> \notin met
  /\ \A l, m \in Loads : began[l] # 0 /\ began[l] = began[m] => l = m
  /\ \A l, m \in Loads : <<l, m>> \in met => <<m, l>> \in met

\* l began first, and the two have not met.
Earlier(l, m) == began[l] # 0 /\ began[l] < began[m] /\ <<l, m>> \notin met

\* Of two loads that have not met the earlier was over when the later began.
Sequential == \A l, m \in Loads : Earlier(l, m) => ~Open(l)

\* What an UPDATE finds and what is expired has been written, and is the
\* load's own or committed.
Reach ==
  /\ \A l \in Loads : updating[l] => HasNext(l) /\ loadType = "SCD2"
  /\ \A l \in Loads : \A v \in found[l] :
       /\ updating[l] /\ IsWritten(v) /\ KeyOf(v) = NextKey(l)
       /\ v[1] = l \/ Committed(v[1])
  /\ \A v \in Versions, l \in Loads : <<v, l>> \in expired =>
       /\ IsWritten(v) /\ loadType # "APPEND"
       /\ v[1] = l \/ Committed(v[1])

\* Who expires a version writes a later one of its key, at once or with the
\* INSERT that follows.
Expirer(v, l) ==
  \/ \E w \in Versions : /\ w[1] = l /\ IsWritten(w) /\ KeyOf(w) = KeyOf(v)
                         /\ v[1] = l => v[2] < w[2]
  \/ updating[l] /\ KeyOf(v) = NextKey(l)

Expirers ==
  \A v \in Versions, l \in Loads :
    <<v, l>> \in expired /\ phase[l] # "aborted" => Expirer(v, l)

\* A version is expired by its own load, by a later one, or by one it met.
Late ==
  \A v \in Versions, l \in Loads :
    <<v, l>> \in expired => v[1] = l \/ <<v[1], l>> \in met \/ Earlier(v[1], l)

-----------------------------------------------------------------------------
(* What a load leaves in force                                             *)

\* v is over for l: l has expired it, or a load that was committed by then.
Over(v, l) ==
  \/ <<v, l>> \in expired
  \/ \E x \in Loads : /\ Committed(x) /\ <<v, x>> \in expired
                      /\ <<x, l>> \in met \/ Earlier(x, l)

\* A load that has written a key has put an end to the versions of it that
\* earlier loads left, and to its own.
Replaces ==
  loadType # "APPEND" =>
    \A v, w \in Versions :
      IsWritten(v) /\ IsWritten(w) /\ KeyOf(v) = KeyOf(w) /\ phase[w[1]] # "aborted" =>
        /\ Committed(v[1]) /\ Earlier(v[1], w[1]) => Over(v, w[1])
        /\ v[1] = w[1] /\ v[2] < w[2] => <<v, w[1]>> \in expired

\* Inside an UPDATE the rest of them has been found.
UpdatesOf(l) ==
  updating[l] =>
    \A v \in Versions : IsWritten(v) /\ KeyOf(v) = NextKey(l) =>
      /\ Committed(v[1]) /\ Earlier(v[1], l) => v \in found[l] \/ Over(v, l)
      /\ v[1] = l => v \in found[l] \/ <<v, l>> \in expired

Updates == \A l \in Loads : UpdatesOf(l)

\* An upsert is alone with the keys it has written until it ends.
Exclusive ==
  loadType = "UPSERT" =>
    \A v, w \in Versions :
      IsWritten(v) /\ IsWritten(w) /\ KeyOf(v) = KeyOf(w) /\ v[1] # w[1] /\ Open(w[1]) =>
        /\ ~Open(v[1])
        /\ Committed(v[1]) => <<v, w[1]>> \in expired \/ Ended(v)

HInv ==
  /\ IInv
  /\ Ranks /\ Sequential /\ Reach
  /\ Expirers /\ Late /\ Replaces /\ Updates /\ Exclusive

\* Membership in the sets of written versions.
LEMMA WrittenIs ==
  ASSUME TypeOK
  PROVE  /\ \A v : v \in AllWritten <=> v \in Versions /\ IsWritten(v)
         /\ \A v : \A l \in Loads : v \in Written(l) <=> v \in Versions /\ v[1] = l /\ IsWritten(v)
  <1>1. \A l \in Loads : pos[l] \in Nat
    BY DEF TypeOK
  <1>. QED  BY <1>1 DEF AllWritten, Written, Versions, IsWritten

\* Nothing is begun, written or expired.
LEMMA HInit == Init => HInv
  <1>. SUFFICES ASSUME Init PROVE HInv
    OBVIOUS
  <1>1. IInv  BY InitIInv
  <1>2. Begun = {} /\ Cardinality(Begun) = 0
    BY FS_EmptySet DEF Init, Begun
  <1>3. Ranks /\ Sequential
    BY <1>2 DEF Init, Ranks, Sequential, Earlier
  <1>4. \A v \in Versions : ~IsWritten(v)
    BY DEF Init, Versions, IsWritten
  <1>5. Reach /\ Expirers /\ Late /\ Replaces /\ Updates /\ Exclusive
    BY <1>4 DEF Init, Reach, Expirers, Late, Replaces, Updates, UpdatesOf, Exclusive
  <1>. QED  BY <1>1, <1>3, <1>5 DEF HInv

-----------------------------------------------------------------------------
(* A step of an open load                                                  *)

\* What every action of an open load has in common.
Working(l) ==
  /\ Open(l)
  /\ UNCHANGED <<loadType, began, met>>
  /\ expired \subseteq expired'
  /\ \A v \in Versions, m \in Loads \ {l} : <<v, m>> \in expired' => <<v, m>> \in expired
  /\ \A m \in Loads \ {l} : UNCHANGED <<phase[m], pos[m], found[m], updating[m]>>
  /\ phase'[l] \in {"open", "committed", "aborted"}
  /\ pos'[l] \in {pos[l], pos[l] + 1}

LEMMA WorkingStep ==
  ASSUME IInv, Reach, NEW l \in Loads, Write(l) \/ Fail(l) \/ BreakDeadlock(l)
  PROVE  Working(l)
  <1>. USE DEF IInv, TypeOK, Working
  <1>1. CASE AppendRecord(l)
    BY <1>1 DEF AppendRecord, HasNext, Open
  <1>2. CASE Upsert(l)
    BY <1>2 DEF Upsert, HasNext, Open
  <1>3. CASE FindCurrent(l)
    BY <1>3 DEF FindCurrent, HasNext, Open
  <1>4. ASSUME NEW v \in found[l], ExpireRow(l, v) \/ PassRow(l, v) PROVE Working(l)
    <2>1. Open(l)
      BY DEF Reach, HasNext
    <2>. QED  BY <1>4, <2>1 DEF ExpireRow, PassRow, Open
  <1>5. CASE InsertVersion(l)
    BY <1>5 DEF InsertVersion, HasNext, Open
  <1>6. ASSUME NEW how \in {"committed", "aborted"}, Close(l, how), Open(l) PROVE Working(l)
    BY <1>6 DEF Close
  <1>7. BreakDeadlock(l) => Open(l)
    BY DEF BreakDeadlock, Deadlocked, Circle, WaitsFor, HasNext
  <1>. QED  BY <1>1, <1>2, <1>3, <1>4, <1>5, <1>6, <1>7 DEF Write, Commit, Fail, BreakDeadlock

\* A committed load and an open one have met, or the committed one is earlier.
LEMMA CommittedFirst ==
  ASSUME IInv, Ranks, Sequential, NEW l \in Loads, NEW m \in Loads, Committed(l), Open(m)
  PROVE  <<l, m>> \in met \/ Earlier(l, m)
  <1>1. began[l] \in Nat /\ began[m] \in Nat /\ began[l] # 0 /\ began[m] # 0 /\ l # m
    BY DEF IInv, TypeOK, Ranks, Committed, Open
  <1>2. began[l] # began[m]
    BY <1>1 DEF Ranks
  <1>3. ~Earlier(m, l)
    BY DEF Sequential
  <1>4. <<l, m>> \notin met => <<m, l>> \notin met
    BY DEF Ranks
  <1>. QED  BY <1>1, <1>2, <1>3, <1>4 DEF Earlier

\* The work of an open load leaves the order of the loads as it is.
LEMMA OrderKept ==
  ASSUME IInv, Ranks, Sequential, NEW l \in Loads, Working(l)
  PROVE  Ranks' /\ Sequential'
  <1>1. Begun' = Begun
    BY DEF Working, Begun
  <1>2. Ranks'
    BY <1>1 DEF Working, Ranks, Open
  <1>3. Sequential'
    BY DEF Working, Sequential, Earlier, Open
  <1>. QED  BY <1>2, <1>3

\* What earlier loads have committed is settled, and what is over stays so.
LEMMA Settled ==
  ASSUME IInv, Ranks, Sequential, NEW l \in Loads, Working(l), NEW v \in Versions, NEW m \in Loads
  PROVE  /\ Earlier(v[1], m)' <=> Earlier(v[1], m)
         /\ Committed(v[1])' /\ Earlier(v[1], m) => /\ Committed(v[1]) /\ v[1] # l
                                                    /\ IsWritten(v)' <=> IsWritten(v)
         /\ Over(v, m) => Over(v, m)'
         /\ Ended(v) => Ended(v)'
         /\ v[1] # l => /\ IsWritten(v)' <=> IsWritten(v)
                        /\ Committed(v[1])' <=> Committed(v[1])
         /\ IsWritten(v) => IsWritten(v)'
  <1>1. v[1] \in Loads /\ v[2] \in Nat
    BY DEF Versions
  <1>2. Earlier(v[1], m)' <=> Earlier(v[1], m)
    BY DEF Working, Earlier
  <1>3. v[1] # l => /\ IsWritten(v)' <=> IsWritten(v)
                    /\ Committed(v[1])' <=> Committed(v[1])
    BY <1>1 DEF Working, IsWritten, Committed
  <1>4. Earlier(v[1], m) => v[1] # l
    BY <1>1 DEF Sequential, Working
  <1>5. \A x \in Loads : /\ Committed(x) => Committed(x)'
                         /\ Earlier(x, m)' <=> Earlier(x, m)
    BY DEF Working, Committed, Open, Earlier
  <1>6. (Over(v, m) => Over(v, m)') /\ (Ended(v) => Ended(v)')
    BY <1>5 DEF Working, Over, Ended
  <1>7. IsWritten(v) => IsWritten(v)'
    BY <1>1 DEF Working, IsWritten, IInv, TypeOK
  <1>. QED  BY <1>2, <1>3, <1>4, <1>6, <1>7

\* The record that l writes next.
LEMMA NextWritten ==
  ASSUME IInv, NEW l \in Loads, Working(l)
  PROVE  /\ <<l, pos[l] + 1>> \in Versions
         /\ KeyOf(<<l, pos[l] + 1>>) = NextKey(l)
         /\ \A w \in Versions : IsWritten(w)' /\ ~IsWritten(w) =>
              w = <<l, pos[l] + 1>> /\ pos'[l] = pos[l] + 1
  <1>1. \A m \in Loads : pos[m] \in Nat
    BY DEF IInv, TypeOK
  <1>2. ASSUME NEW w \in Versions, IsWritten(w)', ~IsWritten(w)
        PROVE  w = <<l, pos[l] + 1>> /\ pos'[l] = pos[l] + 1
    <2>1. w[1] \in Loads /\ w[2] \in Nat /\ w = <<w[1], w[2]>>
      BY DEF Versions
    <2>2. w[1] = l
      BY <1>2, <2>1 DEF Working, IsWritten
    <2>. QED  BY <1>1, <1>2, <2>1, <2>2 DEF Working, IsWritten
  <1>. QED  BY <1>1, <1>2 DEF Versions, KeyOf, NextKey

-----------------------------------------------------------------------------
(* What a step must show of itself                                         *)

\* The loads other than l keep what they have replaced; l must account for
\* the record it has written, if it has.
WritesWell(l) ==
  pos'[l] = pos[l] + 1 =>
    \A v \in Versions : IsWritten(v) /\ KeyOf(v) = NextKey(l) =>
      /\ Committed(v[1]) /\ Earlier(v[1], l) => Over(v, l)'
      /\ v[1] = l => <<v, l>> \in expired'

LEMMA ReplacesKept ==
  ASSUME HInv, NEW l \in Loads, Working(l), loadType # "APPEND" => WritesWell(l)
  PROVE  Replaces'
  <1>. SUFFICES ASSUME loadType # "APPEND", NEW v \in Versions, NEW w \in Versions,
                       IsWritten(v)', IsWritten(w)', KeyOf(v) = KeyOf(w), phase'[w[1]] # "aborted"
                PROVE  /\ Committed(v[1])' /\ Earlier(v[1], w[1])' => Over(v, w[1])'
                       /\ v[1] = w[1] /\ v[2] < w[2] => <<v, w[1]>> \in expired'
    BY DEF Replaces, Versions, KeyOf, Working
  <1>. USE DEF HInv
  <1>1. v[1] \in Loads /\ w[1] \in Loads /\ v[2] \in Nat /\ w[2] \in Nat
    BY DEF Versions
  <1>2. phase[w[1]] # "aborted"
    BY <1>1 DEF Working, Open
  <1>3. CASE IsWritten(w)
    <2>1. Committed(v[1])' /\ Earlier(v[1], w[1])' => Over(v, w[1])'
      BY <1>1, <1>2, <1>3, Settled DEF Replaces
    <2>2. v[1] = w[1] /\ v[2] < w[2] => IsWritten(v)
      BY <1>1, <1>3 DEF IsWritten, IInv, TypeOK
    <2>. QED  BY <1>2, <1>3, <2>1, <2>2 DEF Replaces, Working
  <1>4. CASE ~IsWritten(w)
    <2>1. w = <<l, pos[l] + 1>> /\ pos'[l] = pos[l] + 1 /\ KeyOf(w) = NextKey(l)
      BY <1>4, NextWritten
    <2>2. w[1] = l /\ w[2] = pos[l] + 1
      BY <2>1
    <2>3. Committed(v[1])' /\ Earlier(v[1], l)' => Over(v, l)'
      BY <2>1, Settled DEF WritesWell
    <2>4. v[1] = l /\ v[2] < w[2] => IsWritten(v)
      BY <1>1, <2>2 DEF IsWritten, IInv, TypeOK
    <2>5. v[1] = l /\ v[2] < w[2] => <<v, l>> \in expired'
      BY <2>1, <2>4 DEF WritesWell
    <2>. QED  BY <2>2, <2>3, <2>5
  <1>. QED  BY <1>3, <1>4

\* The same of the UPDATEs that are going on.
LEMMA UpdatesKept ==
  ASSUME HInv, NEW l \in Loads, Working(l), UpdatesOf(l)'
  PROVE  Updates'
  <1>. SUFFICES ASSUME NEW m \in Loads, m # l PROVE UpdatesOf(m)'
    BY DEF Updates
  <1>. USE DEF HInv
  <1>1. /\ UNCHANGED <<found[m], updating[m], pos[m]>>
        /\ NextKey(m)' = NextKey(m)
    BY DEF Working, NextKey
  <1>. SUFFICES ASSUME updating[m], NEW v \in Versions, IsWritten(v)', KeyOf(v) = NextKey(m)
                PROVE  /\ Committed(v[1])' /\ Earlier(v[1], m)' => v \in found[m] \/ Over(v, m)'
                       /\ v[1] = m => v \in found[m] \/ <<v, m>> \in expired'
    BY <1>1 DEF UpdatesOf, KeyOf
  <1>2. Committed(v[1])' /\ Earlier(v[1], m)' => v \in found[m] \/ Over(v, m)'
    BY Settled DEF Updates, UpdatesOf
  <1>3. v[1] = m => IsWritten(v)
    BY Settled
  <1>. QED  BY <1>2, <1>3 DEF Updates, UpdatesOf, Working

\* The same of the keys that upserts hold.
HoldsKey(l) ==
  pos'[l] = pos[l] + 1 =>
    \A v \in Versions : IsWritten(v) /\ KeyOf(v) = NextKey(l) /\ v[1] # l =>
      /\ ~Open(v[1])
      /\ Committed(v[1]) => <<v, l>> \in expired' \/ Ended(v)

LEMMA ExclusiveKept ==
  ASSUME HInv, NEW l \in Loads, Working(l), loadType = "UPSERT" => HoldsKey(l)
  PROVE  Exclusive'
  <1>. SUFFICES ASSUME loadType = "UPSERT", NEW v \in Versions, NEW w \in Versions,
                       IsWritten(v)', IsWritten(w)', KeyOf(v) = KeyOf(w), v[1] # w[1], Open(w[1])'
                PROVE  /\ ~Open(v[1])'
                       /\ Committed(v[1])' => <<v, w[1]>> \in expired' \/ Ended(v)'
    BY DEF Exclusive, Versions, KeyOf, Working
  <1>. USE DEF HInv
  <1>1. v[1] \in Loads /\ w[1] \in Loads
    BY DEF Versions
  <1>2. Open(w[1])
    BY <1>1 DEF Working, Open
  <1>3. CASE v[1] # l
    <2>1. /\ IsWritten(v) /\ (Open(v[1])' <=> Open(v[1]))
          /\ Committed(v[1])' <=> Committed(v[1])
          /\ Ended(v) => Ended(v)'
      BY <1>1, <1>3, Settled DEF Working, Open
    <2>2. CASE IsWritten(w)
      BY <1>2, <2>1, <2>2 DEF Exclusive, Working
    <2>3. CASE ~IsWritten(w)
      <3>1. w = <<l, pos[l] + 1>> /\ pos'[l] = pos[l] + 1 /\ KeyOf(w) = NextKey(l)
        BY <2>3, NextWritten
      <3>2. w[1] = l
        BY <3>1
      <3>. QED  BY <1>3, <2>1, <3>1, <3>2 DEF HoldsKey
    <2>. QED  BY <2>2, <2>3
  <1>4. CASE v[1] = l
    <2>1. IsWritten(w)
      BY <1>4, Settled
    <2>2. ~IsWritten(v)
      BY <1>2, <1>4, <2>1 DEF Exclusive, Working
    <2>3. v = <<l, pos[l] + 1>> /\ pos'[l] = pos[l] + 1 /\ KeyOf(v) = NextKey(l)
      BY <2>2, NextWritten
    <2>. QED  BY <1>2, <1>4, <2>1, <2>3 DEF HoldsKey
  <1>. QED  BY <1>3, <1>4

\* The same of what has been expired.
ExpiresWell(l) ==
  /\ \A v \in Versions, m \in Loads : <<v, m>> \in expired' /\ <<v, m>> \notin expired =>
       /\ m = l /\ IsWritten(v) /\ loadType # "APPEND"
       /\ v[1] = l \/ Committed(v[1])
  /\ \A v \in Versions : <<v, l>> \in expired' /\ phase'[l] # "aborted" => Expirer(v, l)'

LEMMA ExpiredKept ==
  ASSUME HInv, NEW l \in Loads, Working(l), ExpiresWell(l)
  PROVE  Expirers' /\ Late'
  <1>. USE DEF HInv
  <1>1. Expirers'
    <2>. SUFFICES ASSUME NEW v \in Versions, NEW m \in Loads, m # l, <<v, m>> \in expired',
                         phase'[m] # "aborted"
                  PROVE  Expirer(v, m)'
      BY DEF Expirers, ExpiresWell, Versions
    <2>1. Expirer(v, m)
      BY DEF Expirers, ExpiresWell, Working
    <2>2. CASE updating[m] /\ KeyOf(v) = NextKey(m)
      BY <2>2 DEF Expirer, Working, NextKey, KeyOf
    <2>3. ASSUME NEW w \in Versions, w[1] = m, IsWritten(w), KeyOf(w) = KeyOf(v),
                 v[1] = m => v[2] < w[2]
          PROVE  Expirer(v, m)'
      <3>1. IsWritten(w)'
        BY <2>3, Settled
      <3>. QED  BY <2>3, <3>1 DEF Expirer, KeyOf, Versions
    <2>. QED  BY <2>1, <2>2, <2>3 DEF Expirer
  <1>2. Late'
    <2>. SUFFICES ASSUME NEW v \in Versions, NEW m \in Loads, <<v, m>> \in expired', v[1] # m
                  PROVE  <<v[1], m>> \in met \/ Earlier(v[1], m)
      BY DEF Late, Working, Earlier, Versions
    <2>1. CASE <<v, m>> \in expired
      BY <2>1 DEF Late
    <2>2. CASE <<v, m>> \notin expired
      <3>1. m = l /\ Committed(v[1]) /\ v[1] \in Loads
        BY <2>2 DEF ExpiresWell, Versions
      <3>. QED  BY <3>1, CommittedFirst DEF Working
    <2>. QED  BY <2>1, <2>2
  <1>. QED  BY <1>1, <1>2

\* The same of what has been found.
FindsWell(l) ==
  /\ updating'[l] => HasNext(l)' /\ loadType = "SCD2"
  /\ \A v \in found'[l] : /\ updating'[l] /\ IsWritten(v) /\ KeyOf(v) = NextKey(l)'
                          /\ v[1] = l \/ Committed(v[1])

LEMMA ReachKept ==
  ASSUME HInv, NEW l \in Loads, Working(l), FindsWell(l), ExpiresWell(l), TypeOK'
  PROVE  Reach'
  <1>. USE DEF HInv
  <1>0. \A x \in Loads : Committed(x) => Committed(x)'
    BY DEF Working, Committed, Open
  <1>1. ASSUME NEW m \in Loads, updating'[m] PROVE HasNext(m)' /\ loadType' = "SCD2"
    BY <1>1 DEF FindsWell, Reach, Working, HasNext, Open
  <1>2. ASSUME NEW m \in Loads, NEW v \in found'[m]
        PROVE  /\ updating'[m] /\ IsWritten(v)' /\ KeyOf(v) = NextKey(m)'
               /\ v[1] = m \/ Committed(v[1])'
    <2>1. v \in Versions
      BY DEF TypeOK
    <2>2. v[1] \in Loads
      BY <2>1 DEF Versions
    <2>3. CASE m = l
      BY <1>0, <2>1, <2>2, <2>3, Settled DEF FindsWell
    <2>4. CASE m # l
      BY <1>0, <2>1, <2>2, <2>4, Settled DEF Reach, Working, NextKey
    <2>. QED  BY <2>3, <2>4
  <1>3. ASSUME NEW v \in Versions, NEW m \in Loads, <<v, m>> \in expired'
        PROVE  /\ IsWritten(v)' /\ loadType' # "APPEND"
               /\ v[1] = m \/ Committed(v[1])'
    <2>1. IsWritten(v) /\ loadType # "APPEND" /\ (v[1] = m \/ Committed(v[1]))
      BY <1>3 DEF Reach, ExpiresWell
    <2>2. v[1] \in Loads
      BY DEF Versions
    <2>. QED  BY <1>0, <2>1, <2>2, Settled DEF Working
  <1>. QED  BY <1>1, <1>2, <1>3 DEF Reach, KeyOf, Versions

\* Together they carry the invariant over a step of an open load.
LEMMA WorkingKeeps ==
  ASSUME HInv, NEW l \in Loads, Working(l), IInv',
         loadType # "APPEND" => WritesWell(l), UpdatesOf(l)',
         loadType = "UPSERT" => HoldsKey(l), ExpiresWell(l), FindsWell(l)
  PROVE  HInv'
  <1>1. Ranks' /\ Sequential'
    BY OrderKept DEF HInv
  <1>2. Reach'
    BY ReachKept DEF IInv
  <1>3. Expirers' /\ Late'
    BY ExpiredKept
  <1>4. Replaces' /\ Updates' /\ Exclusive'
    BY ReplacesKept, UpdatesKept, ExclusiveKept
  <1>. QED  BY <1>1, <1>2, <1>3, <1>4 DEF HInv

-----------------------------------------------------------------------------
(* The actions                                                             *)

\* What has ended is over for an open load, and its own versions have not.
LEMMA EndedOver ==
  ASSUME HInv, NEW l \in Loads, Open(l), NEW v \in Versions, Ended(v)
  PROVE  Over(v, l) /\ v[1] # l
  <1>. USE DEF HInv
  <1>1. PICK x \in Loads : Committed(x) /\ <<v, x>> \in expired
    BY DEF Ended
  <1>2. <<x, l>> \in met \/ Earlier(x, l)
    BY <1>1, CommittedFirst
  <1>3. v[1] = x \/ Committed(v[1])
    BY <1>1 DEF Reach
  <1>. QED  BY <1>1, <1>2, <1>3 DEF Over, Committed, Open

\* A step that expires nothing and writes nothing has nothing to show of it.
LEMMA Quiet ==
  ASSUME HInv, NEW l \in Loads, Working(l), pos' = pos, expired' = expired,
         phase'[l] = "aborted" \/ updating'[l] = updating[l] \/ ~updating[l]
  PROVE  WritesWell(l) /\ HoldsKey(l) /\ ExpiresWell(l)
  <1>. USE DEF HInv
  <1>1. pos'[l] # pos[l] + 1
    BY DEF IInv, TypeOK
  <1>2. ASSUME NEW v \in Versions, <<v, l>> \in expired, phase'[l] # "aborted"
        PROVE  Expirer(v, l)'
    <2>1. Expirer(v, l)
      BY <1>2 DEF Expirers, Working, Open
    <2>. QED  BY <1>2, <2>1 DEF Expirer, IsWritten, KeyOf, NextKey, Versions
  <1>. QED  BY <1>1, <1>2 DEF WritesWell, HoldsKey, ExpiresWell

\* Plain inserts.
LEMMA AppendKeeps ==
  ASSUME HInv, IInv', NEW l \in Loads, AppendRecord(l)
  PROVE  HInv'
  <1>. USE DEF HInv
  <1>1. Working(l)
    BY WorkingStep DEF Write
  <1>2. loadType = "APPEND" /\ UNCHANGED <<expired, updating, found>>
    BY DEF AppendRecord
  <1>3. ~updating[l] /\ found[l] = {}
    BY <1>2 DEF Reach
  <1>4. ExpiresWell(l) /\ FindsWell(l) /\ UpdatesOf(l)'
    BY <1>2, <1>3 DEF ExpiresWell, FindsWell, UpdatesOf, Reach
  <1>. QED  BY <1>1, <1>2, <1>4, WorkingKeeps

\* The row in force is replaced in the same statement.
LEMMA UpsertKeeps ==
  ASSUME HInv, IInv', NEW l \in Loads, Upsert(l)
  PROVE  HInv'
  <1>. USE DEF HInv
  <1>0. TypeOK  BY DEF IInv
  <1>1. Working(l)
    BY WorkingStep DEF Write
  <1>2. /\ loadType = "UPSERT" /\ Open(l) /\ pos'[l] = pos[l] + 1
        /\ UNCHANGED <<updating, found>>
        /\ \A m \in Loads \ {l} : ~LocksKey(m, NextKey(l))
        /\ \A v \in Versions, m \in Loads : <<v, m>> \in expired' <=>
             \/ <<v, m>> \in expired
             \/ m = l /\ IsWritten(v) /\ KeyOf(v) = NextKey(l) /\ SeesCurrent(l, v)
    BY <1>0, WrittenIs DEF Upsert, HasNext, TypeOK
  <1>3. ~updating[l] /\ found[l] = {}
    BY <1>2 DEF Reach
  <1>4. \A v \in Versions : IsWritten(v) /\ KeyOf(v) = NextKey(l) /\ (v[1] = l \/ Committed(v[1]))
                              => <<v, l>> \in expired' \/ Ended(v)
    BY <1>2 DEF SeesCurrent
  <1>5. WritesWell(l)
    <2>. SUFFICES ASSUME NEW v \in Versions, IsWritten(v), KeyOf(v) = NextKey(l)
                  PROVE  /\ Committed(v[1]) /\ Earlier(v[1], l) => Over(v, l)'
                         /\ v[1] = l => <<v, l>> \in expired'
      BY DEF WritesWell
    <2>1. <<v, l>> \in expired' => Over(v, l)'
      BY DEF Over
    <2>. QED  BY <1>1, <1>2, <1>4, <2>1, EndedOver, Settled
  <1>6. HoldsKey(l)
    <2>1. \A v \in Versions : IsWritten(v) /\ KeyOf(v) = NextKey(l) /\ v[1] # l => ~Open(v[1])
      <3>. SUFFICES ASSUME NEW v \in Versions, IsWritten(v), KeyOf(v) = NextKey(l), v[1] # l
                    PROVE  ~Open(v[1])
        OBVIOUS
      <3>1. v[1] \in Loads /\ v \in Written(v[1])
        BY <1>0, WrittenIs DEF Versions
      <3>. QED  BY <1>2, <3>1 DEF LocksKey
    <2>2. \A v \in Versions : Ended(v) => Ended(v)'
      BY <1>1, Settled
    <2>. QED  BY <1>4, <2>1, <2>2 DEF HoldsKey
  <1>7. ExpiresWell(l)
    <2>1. \A v \in Versions, m \in Loads : <<v, m>> \in expired' /\ <<v, m>> \notin expired =>
            m = l /\ IsWritten(v) /\ KeyOf(v) = NextKey(l) /\ (v[1] = l \/ Committed(v[1]))
      BY <1>2 DEF SeesCurrent
    <2>2. ASSUME NEW v \in Versions, <<v, l>> \in expired' PROVE Expirer(v, l)'
      <3>1. CASE <<v, l>> \in expired
        <4>1. Expirer(v, l)
          BY <1>2, <3>1 DEF Expirers, Open
        <4>2. PICK w \in Versions : /\ w[1] = l /\ IsWritten(w) /\ KeyOf(w) = KeyOf(v)
                                    /\ v[1] = l => v[2] < w[2]
          BY <1>3, <4>1 DEF Expirer
        <4>3. IsWritten(w)'
          BY <1>1, <4>2, Settled
        <4>. QED  BY <4>2, <4>3 DEF Expirer, KeyOf, Versions
      <3>2. CASE <<v, l>> \notin expired
        <4>0. PICK w \in Versions : w = <<l, pos[l] + 1>> /\ KeyOf(w) = NextKey(l)
          BY <1>1, NextWritten
        <4>1. KeyOf(w) = KeyOf(v) /\ IsWritten(v)
          BY <2>1, <2>2, <3>2, <4>0
        <4>2. w[1] = l /\ w[2] = pos[l] + 1 /\ IsWritten(w)'
          BY <1>0, <1>2, <4>0 DEF IsWritten, TypeOK
        <4>3. v[1] = l => v[2] < w[2]
          BY <1>0, <4>1, <4>2 DEF IsWritten, TypeOK, Versions
        <4>. QED  BY <4>1, <4>2, <4>3 DEF Expirer, KeyOf, Versions
      <3>. QED  BY <3>1, <3>2
    <2>. QED  BY <1>2, <2>1, <2>2 DEF ExpiresWell
  <1>8. FindsWell(l) /\ UpdatesOf(l)'
    BY <1>2, <1>3 DEF FindsWell, UpdatesOf
  <1>. QED  BY <1>1, <1>5, <1>6, <1>7, <1>8, WorkingKeeps

\* An UPDATE finds all there is.
LEMMA FindKeeps ==
  ASSUME HInv, IInv', NEW l \in Loads, FindCurrent(l)
  PROVE  HInv'
  <1>. USE DEF HInv
  <1>0. TypeOK  BY DEF IInv
  <1>1. Working(l)
    BY WorkingStep DEF Write
  <1>2. /\ loadType = "SCD2" /\ HasNext(l) /\ Open(l) /\ ~updating[l] /\ updating'[l]
        /\ UNCHANGED <<phase, pos, expired>>
        /\ \A v : v \in found'[l] <=> /\ v \in Versions /\ IsWritten(v) /\ KeyOf(v) = NextKey(l)
                                      /\ SeesCurrent(l, v)
    BY <1>0, WrittenIs DEF FindCurrent, HasNext, Matches, TypeOK
  <1>3. WritesWell(l) /\ HoldsKey(l) /\ ExpiresWell(l)
    BY <1>1, <1>2, Quiet
  <1>4. FindsWell(l)
    BY <1>2 DEF FindsWell, HasNext, Open, NextKey, SeesCurrent
  <1>5. UpdatesOf(l)'
    <2>. SUFFICES ASSUME NEW v \in Versions, IsWritten(v), KeyOf(v) = NextKey(l)
                  PROVE  /\ Committed(v[1]) /\ Earlier(v[1], l) => v \in found'[l] \/ Over(v, l)'
                         /\ v[1] = l => v \in found'[l] \/ <<v, l>> \in expired
      BY <1>1, <1>2 DEF UpdatesOf, IsWritten, KeyOf, NextKey, Committed, Earlier, Working, Versions
    <2>1. Over(v, l) => Over(v, l)'
      BY <1>1, Settled
    <2>2. <<v, l>> \in expired => Over(v, l)
      BY DEF Over
    <2>. QED  BY <1>2, <2>1, <2>2, EndedOver DEF SeesCurrent
  <1>. QED  BY <1>1, <1>3, <1>4, <1>5, WorkingKeeps

\* A row found is expired, or passed over because it has ended.
LEMMA RowKeeps ==
  ASSUME HInv, IInv', NEW l \in Loads, NEW r \in found[l], ExpireRow(l, r) \/ PassRow(l, r)
  PROVE  HInv'
  <1>. USE DEF HInv
  <1>0. TypeOK /\ r \in Versions  BY DEF IInv, TypeOK
  <1>1. Working(l)
    BY WorkingStep DEF Write
  <1>2. /\ updating[l] /\ HasNext(l) /\ loadType = "SCD2" /\ IsWritten(r) /\ KeyOf(r) = NextKey(l)
        /\ r[1] = l \/ Committed(r[1])
        /\ Open(l)
    BY DEF Reach, HasNext
  <1>3. UNCHANGED <<phase, pos, updating>> /\ found'[l] = found[l] \ {r}
    BY <1>0 DEF ExpireRow, PassRow, TypeOK
  <1>4. \/ expired' = expired \cup {<<r, l>>}
        \/ expired' = expired /\ Ended(r)
    BY DEF ExpireRow, PassRow, StillMatches
  <1>5. WritesWell(l) /\ HoldsKey(l)
    BY <1>0, <1>3 DEF WritesWell, HoldsKey, TypeOK
  <1>6. ExpiresWell(l)
    <2>1. ASSUME NEW v \in Versions, <<v, l>> \in expired' PROVE Expirer(v, l)'
      <3>1. Expirer(v, l)
        BY <1>2, <1>4, <2>1 DEF Expirers, Open, Expirer
      <3>. QED  BY <1>3, <3>1 DEF Expirer, IsWritten, KeyOf, NextKey, Versions
    <2>. QED  BY <1>2, <1>4, <2>1 DEF ExpiresWell
  <1>7. FindsWell(l)
    BY <1>2, <1>3 DEF FindsWell, HasNext, Open, NextKey, Reach
  <1>8. UpdatesOf(l)'
    <2>. SUFFICES ASSUME NEW v \in Versions, IsWritten(v), KeyOf(v) = NextKey(l)
                  PROVE  /\ Committed(v[1]) /\ Earlier(v[1], l) => v \in found'[l] \/ Over(v, l)'
                         /\ v[1] = l => v \in found'[l] \/ <<v, l>> \in expired'
      BY <1>1, <1>3 DEF UpdatesOf, IsWritten, KeyOf, NextKey, Committed, Earlier, Working, Versions
    <2>1. (Over(v, l) => Over(v, l)') /\ (<<v, l>> \in expired' => Over(v, l)')
      BY <1>1, Settled DEF Over
    <2>2. /\ Committed(v[1]) /\ Earlier(v[1], l) => v \in found[l] \/ Over(v, l)
          /\ v[1] = l => v \in found[l] \/ <<v, l>> \in expired
      BY <1>2 DEF Updates, UpdatesOf
    <2>3. CASE v = r
      BY <1>2, <1>4, <2>1, <2>3, EndedOver
    <2>4. CASE v # r
      BY <1>3, <1>4, <2>1, <2>2, <2>4
    <2>. QED  BY <2>3, <2>4
  <1>. QED  BY <1>1, <1>5, <1>6, <1>7, <1>8, WorkingKeeps

\* The new version follows an UPDATE that has left nothing behind.
LEMMA InsertKeeps ==
  ASSUME HInv, IInv', NEW l \in Loads, InsertVersion(l)
  PROVE  HInv'
  <1>. USE DEF HInv
  <1>0. TypeOK  BY DEF IInv
  <1>1. Working(l)
    BY WorkingStep DEF Write
  <1>2. /\ updating[l] /\ found[l] = {} /\ Open(l) /\ pos'[l] = pos[l] + 1
        /\ ~updating'[l] /\ UNCHANGED <<phase, expired, found>>
    BY <1>0 DEF InsertVersion, HasNext, TypeOK
  <1>3. loadType = "SCD2"
    BY <1>2 DEF Reach
  <1>4. WritesWell(l)
    BY <1>1, <1>2, Settled DEF WritesWell, Updates, UpdatesOf
  <1>5. ExpiresWell(l)
    <2>1. ASSUME NEW v \in Versions, <<v, l>> \in expired PROVE Expirer(v, l)'
      <3>1. Expirer(v, l)
        BY <1>2, <2>1 DEF Expirers, Open
      <3>2. ASSUME NEW w \in Versions, w[1] = l, IsWritten(w), KeyOf(w) = KeyOf(v),
                   v[1] = l => v[2] < w[2]
            PROVE  Expirer(v, l)'
        <4>1. IsWritten(w)'
          BY <1>1, <3>2, Settled
        <4>. QED  BY <3>2, <4>1 DEF Expirer, KeyOf, Versions
      <3>3. CASE KeyOf(v) = NextKey(l)
        <4>0. PICK w \in Versions : w = <<l, pos[l] + 1>> /\ KeyOf(w) = NextKey(l)
          BY <1>1, NextWritten
        <4>1. KeyOf(w) = KeyOf(v) /\ IsWritten(v)
          BY <2>1, <3>3, <4>0 DEF Reach
        <4>2. w[1] = l /\ w[2] = pos[l] + 1 /\ IsWritten(w)'
          BY <1>0, <1>2, <4>0 DEF IsWritten, TypeOK
        <4>3. v[1] = l => v[2] < w[2]
          BY <1>0, <4>1, <4>2 DEF IsWritten, TypeOK, Versions
        <4>. QED  BY <4>1, <4>2, <4>3 DEF Expirer, KeyOf, Versions
      <3>. QED  BY <3>1, <3>2, <3>3 DEF Expirer
    <2>. QED  BY <1>2, <2>1 DEF ExpiresWell
  <1>6. FindsWell(l) /\ UpdatesOf(l)'
    BY <1>2 DEF FindsWell, UpdatesOf
  <1>. QED  BY <1>1, <1>3, <1>4, <1>5, <1>6, WorkingKeeps

\* The end of a load.
LEMMA CloseKeeps ==
  ASSUME HInv, IInv', NEW l \in Loads, Commit(l) \/ Fail(l) \/ BreakDeadlock(l)
  PROVE  HInv'
  <1>. USE DEF HInv
  <1>0. TypeOK  BY DEF IInv
  <1>1. Working(l)
    BY WorkingStep DEF Write
  <1>2. /\ UNCHANGED <<pos, expired>> /\ found'[l] = {} /\ ~updating'[l]
        /\ phase'[l] = "aborted" \/ WroteAll(l)
    BY <1>0 DEF Commit, Fail, BreakDeadlock, Close, TypeOK
  <1>3. phase'[l] = "aborted" \/ ~updating[l]
    BY <1>0, <1>2 DEF Reach, HasNext, WroteAll, TypeOK
  <1>4. WritesWell(l) /\ HoldsKey(l) /\ ExpiresWell(l)
    BY <1>1, <1>2, <1>3, Quiet
  <1>5. FindsWell(l) /\ UpdatesOf(l)'
    BY <1>2 DEF FindsWell, UpdatesOf
  <1>. QED  BY <1>1, <1>4, <1>5, WorkingKeeps

\* What a load finds and leaves as it begins.
Beginning(l) ==
  /\ phase[l] = "idle" /\ phase'[l] = "open" /\ began[l] = 0 /\ pos[l] = 0
  /\ found[l] = {} /\ ~updating[l] /\ \A v \in Versions : <<v, l>> \notin expired
  /\ UNCHANGED <<loadType, pos, found, updating, expired>>
  /\ \A m \in Loads \ {l} : /\ UNCHANGED <<phase[m], began[m]>>
                            /\ began[m] < began'[l]
  /\ \A m, n \in Loads : <<m, n>> \in met' <=>
       <<m, n>> \in met \/ (m = l /\ Open(n)) \/ (n = l /\ Open(m))

LEMMA BeginStep ==
  ASSUME HInv, NEW l \in Loads, Begin(l)
  PROVE  /\ Beginning(l) /\ began'[l] = Cardinality(Begun) + 1
         /\ \A m \in Loads : began'[m] <= Cardinality(Begun')
  <1>. USE DEF HInv, IInv
  <1>1. IsFiniteSet(Begun) /\ Cardinality(Begun) \in Nat
    BY ConstantsAssumption, FS_Subset, FS_CardinalityType DEF Begun
  <1>2. began'[l] = Cardinality(Begun) + 1 /\ \A m \in Loads \ {l} : UNCHANGED <<phase[m], began[m]>>
    BY DEF Begin, Begun, TypeOK
  <1>3. phase[l] = "idle" /\ phase'[l] = "open" /\ began[l] = 0 /\ pos[l] = 0
    BY DEF Begin, Ranks, TypeOK
  <1>4. found[l] = {} /\ ~updating[l] /\ \A v \in Versions : <<v, l>> \notin expired
    BY <1>3 DEF OnlyWhenOpen, Reach, HasNext, Open
  <1>5. \A m \in Loads : began[m] \in Nat /\ began[m] <= Cardinality(Begun)
    BY DEF Ranks, TypeOK
  <1>6. \A m, n \in Loads : <<m, n>> \in met' <=>
          <<m, n>> \in met \/ (m = l /\ Open(n)) \/ (n = l /\ Open(m))
    BY DEF Begin
  <1>7. Begun' = Begun \cup {l} /\ l \notin Begun
    BY <1>1, <1>2, <1>3 DEF Begun
  <1>8. Cardinality(Begun') = Cardinality(Begun) + 1
    BY <1>1, <1>7, FS_AddElement
  <1>9. Beginning(l)
    <2>1. \A m \in Loads \ {l} : began[m] < began'[l]
      BY <1>1, <1>2, <1>5
    <2>2. UNCHANGED <<loadType, pos, found, updating, expired>>
      BY DEF Begin
    <2>. QED  BY <1>2, <1>3, <1>4, <1>6, <2>1, <2>2 DEF Beginning
  <1>. QED  BY <1>1, <1>2, <1>5, <1>8, <1>9

\* A load that begins is later than all that are over, and meets the others.
LEMMA BeginKeeps ==
  ASSUME HInv, IInv', NEW l \in Loads, Begin(l)
  PROVE  HInv'
  <1>. USE DEF HInv
  <1>0. TypeOK  BY DEF IInv
  <1>1. /\ Beginning(l) /\ began'[l] # 0
        /\ \A m \in Loads : began'[m] <= Cardinality(Begun')
    <2>1. Cardinality(Begun) \in Nat
      BY RankTyped DEF Begun
    <2>. QED  BY <2>1, BeginStep
  <1>. USE <1>0, <1>1
  <1>2. Ranks'
    <2>0. ASSUME NEW m \in Loads PROVE (began'[m] # 0 <=> phase'[m] # "idle") /\ <<m, m>> \notin met'
      BY DEF Ranks, Beginning, Open
    <2>1. ASSUME NEW m \in Loads PROVE phase'[m] = "idle" => pos'[m] = 0
      BY DEF Ranks, Beginning
    <2>2. \A m, n \in Loads : began'[m] # 0 /\ began'[m] = began'[n] => m = n
      BY DEF Ranks, Beginning, TypeOK
    <2>3. \A m, n \in Loads : <<m, n>> \in met' => <<n, m>> \in met'
      BY DEF Ranks, Beginning
    <2>. QED  BY <2>0, <2>1, <2>2, <2>3 DEF Ranks
  <1>3. \A m \in Loads : /\ Committed(m)' <=> Committed(m)
                         /\ m # l => (Open(m)' <=> Open(m))
    BY DEF Beginning, Committed, Open
  <1>4. \A m, n \in Loads : m # l /\ n # l =>
          /\ Earlier(m, n)' <=> Earlier(m, n)
          /\ <<m, n>> \in met' <=> <<m, n>> \in met
    <2>. SUFFICES ASSUME NEW m \in Loads, NEW n \in Loads, m # l, n # l
                  PROVE  /\ Earlier(m, n)' <=> Earlier(m, n)
                         /\ <<m, n>> \in met' <=> <<m, n>> \in met
      OBVIOUS
    <2>1. began'[m] = began[m] /\ began'[n] = began[n]
      BY DEF Beginning
    <2>2. <<m, n>> \in met' <=> <<m, n>> \in met
      BY DEF Beginning
    <2>. QED  BY <2>1, <2>2 DEF Earlier
  <1>5. Sequential'
    <2>. SUFFICES ASSUME NEW m \in Loads, NEW n \in Loads, Earlier(m, n)' PROVE ~Open(m)'
      BY DEF Sequential
    <2>0. began'[m] \in Nat /\ began'[n] \in Nat
      BY DEF IInv, TypeOK
    <2>1. m # l
      BY <2>0 DEF Earlier, Beginning
    <2>2. n = l => ~Open(m)
      BY DEF Earlier, Beginning
    <2>. QED  BY <1>3, <1>4, <2>1, <2>2 DEF Sequential
  <1>6. \A v \in Versions : /\ IsWritten(v)' <=> IsWritten(v)
                            /\ IsWritten(v) => v[1] \in Loads \ {l}
                            /\ Ended(v)' <=> Ended(v)
    BY <1>3 DEF Beginning, IsWritten, Versions, Ended
  <1>7. \A v \in Versions, m \in Loads \ {l} : Over(v, m) => Over(v, m)'
    <2>1. ~Committed(l)
      BY DEF Beginning, Committed
    <2>. QED  BY <1>3, <1>4, <2>1 DEF Over, Beginning
  <1>8. \A m \in Loads : (updating[m] => m # l) /\ NextKey(m)' = NextKey(m)
    BY DEF Beginning, NextKey
  <1>9. Reach'
    <2>1. \A m \in Loads : updating'[m] => HasNext(m)' /\ loadType' = "SCD2"
      BY <1>3, <1>8 DEF Reach, HasNext, Beginning
    <2>2. ASSUME NEW m \in Loads, NEW v \in found'[m]
          PROVE  /\ updating'[m] /\ IsWritten(v)' /\ KeyOf(v) = NextKey(m)'
                 /\ v[1] = m \/ Committed(v[1])'
      <3>1. v \in Versions /\ v \in found[m]
        BY DEF TypeOK, Beginning
      <3>. QED  BY <1>3, <1>6, <1>8, <3>1 DEF Reach, Beginning
    <2>3. ASSUME NEW v \in Versions, NEW m \in Loads, <<v, m>> \in expired'
          PROVE  /\ IsWritten(v)' /\ loadType' # "APPEND"
                 /\ v[1] = m \/ Committed(v[1])'
      BY <1>3, <1>6, <2>3 DEF Reach, Beginning
    <2>. QED  BY <2>1, <2>2, <2>3 DEF Reach, KeyOf, Versions
  <1>10. Expirers'
    <2>. SUFFICES ASSUME NEW v \in Versions, NEW m \in Loads, <<v, m>> \in expired,
                         phase'[m] # "aborted"
                  PROVE  Expirer(v, m)'
      BY DEF Expirers, Beginning, Versions
    <2>1. Expirer(v, m)
      BY DEF Expirers, Beginning
    <2>. QED  BY <1>8, <2>1 DEF Expirer, Beginning, IsWritten, KeyOf, Versions
  <1>11. Late'
    <2>. SUFFICES ASSUME NEW v \in Versions, NEW m \in Loads, <<v, m>> \in expired, v[1] # m
                  PROVE  <<v[1], m>> \in met' \/ Earlier(v[1], m)'
      BY DEF Late, Beginning, Versions
    <2>1. m # l /\ IsWritten(v)
      BY DEF Beginning, Reach
    <2>. QED  BY <1>4, <1>6, <2>1 DEF Late
  <1>12. Replaces'
    <2>. SUFFICES ASSUME loadType # "APPEND", NEW v \in Versions, NEW w \in Versions,
                         IsWritten(v), IsWritten(w), KeyOf(v) = KeyOf(w), phase'[w[1]] # "aborted"
                  PROVE  /\ Committed(v[1])' /\ Earlier(v[1], w[1])' => Over(v, w[1])'
                         /\ v[1] = w[1] /\ v[2] < w[2] => <<v, w[1]>> \in expired
      BY <1>6 DEF Replaces, Versions, KeyOf, Beginning
    <2>1. v[1] \in Loads \ {l} /\ w[1] \in Loads \ {l} /\ phase[w[1]] # "aborted"
      BY <1>6 DEF Beginning
    <2>. QED  BY <1>3, <1>4, <1>7, <2>1 DEF Replaces
  <1>13. Updates'
    <2>. SUFFICES ASSUME NEW m \in Loads, updating[m], NEW v \in Versions, IsWritten(v),
                         KeyOf(v) = NextKey(m)
                  PROVE  /\ Committed(v[1])' /\ Earlier(v[1], m)' => v \in found[m] \/ Over(v, m)'
                         /\ v[1] = m => v \in found[m] \/ <<v, m>> \in expired
      BY <1>6, <1>8 DEF Updates, UpdatesOf, Versions, KeyOf, Beginning
    <2>1. v[1] \in Loads \ {l} /\ m \in Loads \ {l}
      BY <1>6, <1>8
    <2>. QED  BY <1>3, <1>4, <1>7, <2>1 DEF Updates, UpdatesOf
  <1>14. Exclusive'
    <2>. SUFFICES ASSUME loadType = "UPSERT", NEW v \in Versions, NEW w \in Versions,
                         IsWritten(v), IsWritten(w), KeyOf(v) = KeyOf(w), v[1] # w[1], Open(w[1])'
                  PROVE  /\ ~Open(v[1])'
                         /\ Committed(v[1])' => <<v, w[1]>> \in expired \/ Ended(v)'
      BY <1>6 DEF Exclusive, Versions, KeyOf, Beginning
    <2>. QED  BY <1>3, <1>6 DEF Exclusive
  <1>. QED  BY <1>2, <1>5, <1>9, <1>10, <1>11, <1>12, <1>13, <1>14

\* The invariant holds in every state.
LEMMA StepHInv == ASSUME HInv, [Next]_vars PROVE HInv'
  <1>1. IInv'
    BY StepIInv DEF HInv
  <1>2. ASSUME NEW l \in Loads, Begin(l) \/ Write(l) \/ Fail(l) \/ BreakDeadlock(l) PROVE HInv'
    BY <1>1, <1>2, BeginKeeps, AppendKeeps, UpsertKeeps, FindKeeps, RowKeeps, InsertKeeps,
       CloseKeeps DEF Write
  <1>3. CASE UNCHANGED vars
    <2>. USE <1>3 DEF vars, HInv, KeyOf, Versions
    <2>1. Ranks' /\ Sequential'
      BY DEF Ranks, Begun, Sequential, Earlier, Open
    <2>2. Reach' /\ Expirers' /\ Late'
      BY DEF Reach, Expirers, Expirer, Late, Earlier, IsWritten, Committed, HasNext, NextKey, Open
    <2>3. \A v \in Versions, m \in Loads :
            /\ Over(v, m)' <=> Over(v, m)
            /\ (Committed(v[1]) /\ Earlier(v[1], m))' <=> Committed(v[1]) /\ Earlier(v[1], m)
            /\ IsWritten(v)' <=> IsWritten(v)
      BY DEF Over, Earlier, IsWritten, Committed
    <2>4. Replaces' /\ Updates'
      <3>1. \A w \in Versions : w[1] \in Loads
        OBVIOUS
      <3>. QED  BY <2>3, <3>1 DEF Replaces, Updates, UpdatesOf, NextKey
    <2>5. Exclusive'
      BY DEF Exclusive, IsWritten, Open, Committed, Ended
    <2>. QED  BY <1>1, <2>1, <2>2, <2>3, <2>4, <2>5
  <1>. QED  BY <1>2, <1>3 DEF Next

LEMMA HistoryInvariance == Spec => []HInv
  BY HInit, StepHInv, PTL DEF Spec

-----------------------------------------------------------------------------
(* The history of a key                                                    *)

\* A bounded set of numbers has a largest one.
LEMMA Largest ==
  ASSUME NEW S \in SUBSET Nat, S # {}, NEW n \in Nat, \A x \in S : x <= n
  PROVE  \E x \in S : \A y \in S : y <= x
  <1>. DEFINE T == {m \in Nat : \E x \in S : m = n - x}
             Less == OpToRel(<, Nat)
  <1>1. T # {}
    <2>1. PICK x \in S : x \in Nat /\ x <= n
      OBVIOUS
    <2>2. n - x \in T
      BY <2>1
    <2>. QED  BY <2>2
  <1>2. T \subseteq Nat
    OBVIOUS
  <1>3. IsWellFoundedOn(Less, Nat)
    BY NatLessThanWellFounded DEF OpToRel
  <1>4. \A t, u \in Nat : <<u, t>> \notin Less => t <= u
    BY DEF OpToRel
  <1>. HIDE DEF T, Less
  <1>5. PICK t \in T : \A u \in T : <<u, t>> \notin Less
    BY <1>1, <1>2, <1>3, WFMin
  <1>6. \A u \in T : t <= u
    BY <1>2, <1>4, <1>5
  <1>7. PICK x \in S : t = n - x
    BY DEF T
  <1>8. ASSUME NEW y \in S PROVE y <= x
    <2>1. n - y \in T
      BY DEF T
    <2>. QED  BY <1>6, <1>7, <2>1
  <1>. QED  BY <1>8

\* What is stored under a key has been written by a committed load.
LEMMA StoredIs ==
  ASSUME TypeOK, NEW k
  PROVE  \A v : v \in Stored(k) <=> /\ v \in Versions /\ IsWritten(v) /\ v[1] \in Loads
                                    /\ Committed(v[1]) /\ KeyOf(v) = k
  BY WrittenIs DEF Stored, Versions

\* The loads that have written a key one after the other are ordered.
LEMMA Ordered ==
  ASSUME HInv, NEW k, Serial(k), NEW v \in Stored(k), NEW w \in Stored(k)
  PROVE  v[1] = w[1] \/ Earlier(v[1], w[1]) \/ Earlier(w[1], v[1])
  <1>1. /\ v[1] \in Loads /\ Committed(v[1])
        /\ w[1] \in Loads /\ Committed(w[1])
    BY StoredIs DEF HInv, IInv
  <1>2. <<v[1], w[1]>> \notin met /\ <<w[1], v[1]>> \notin met
    BY DEF Serial
  <1>3. began[v[1]] \in Nat /\ began[w[1]] \in Nat /\ began[v[1]] # 0 /\ began[w[1]] # 0
    BY <1>1 DEF HInv, IInv, TypeOK, Ranks, Committed
  <1>4. began[v[1]] = began[w[1]] => v[1] = w[1]
    BY <1>1, <1>3 DEF HInv, Ranks
  <1>. QED  BY <1>2, <1>3, <1>4 DEF Earlier

\* Who has closed a version has written a later one of the key.
LEMMA CloserWrote ==
  ASSUME HInv, NEW k, NEW v \in Stored(k), NEW l \in Loads, Committed(l), <<v, l>> \in expired
  PROVE  \E w \in Stored(k) : w[1] = l /\ (v[1] = l => v[2] < w[2])
  <1>1. v \in Versions /\ KeyOf(v) = k
    BY StoredIs DEF HInv, IInv
  <1>2. ~updating[l]
    BY DEF HInv, Reach, HasNext, Open, Committed
  <1>3. Expirer(v, l)
    BY <1>1 DEF HInv, Expirers, Committed
  <1>4. PICK w \in Versions : /\ w[1] = l /\ IsWritten(w) /\ KeyOf(w) = KeyOf(v)
                              /\ v[1] = l => v[2] < w[2]
    BY <1>2, <1>3 DEF Expirer
  <1>5. w \in Stored(k)
    BY <1>1, <1>4, StoredIs DEF HInv, IInv
  <1>. QED  BY <1>4, <1>5

\* One version of a key is the last: of the load that began last, the one
\* it wrote last.
LEMMA LastStored ==
  ASSUME HInv, NEW k, Serial(k), Stored(k) # {}
  PROVE  \E u \in Stored(k) : \A v \in Stored(k) :
           (v[1] = u[1] /\ v[2] <= u[2]) \/ Earlier(v[1], u[1])
  <1>0. TypeOK  BY DEF HInv, IInv
  <1>1. \A v \in Stored(k) : v \in Versions /\ v[1] \in Loads /\ v[2] \in Nat /\ IsWritten(v)
    BY <1>0, StoredIs DEF Versions
  <1>. DEFINE R == {began[v[1]] : v \in Stored(k)}
  <1>. DEFINE N == Cardinality(Begun)
  <1>2. N \in Nat /\ \A l \in Loads : began[l] \in Nat /\ began[l] <= N
    BY <1>0, RankTyped DEF HInv, Ranks, Begun, TypeOK
  <1>. HIDE DEF N
  <1>3. R \in SUBSET Nat /\ R # {} /\ \A r \in R : r <= N
    BY <1>1, <1>2
  <1>4. \E r \in R : \A q \in R : q <= r
    BY <1>2, <1>3, Largest
  <1>5. PICK w \in Stored(k) : \A v \in Stored(k) : began[v[1]] <= began[w[1]]
    BY <1>4
  <1>. DEFINE I == {v[2] : v \in {x \in Stored(k) : x[1] = w[1]}}
  <1>6. I \in SUBSET Nat /\ I # {} /\ pos[w[1]] \in Nat /\ \A i \in I : i <= pos[w[1]]
    BY <1>0, <1>1 DEF IsWritten, TypeOK
  <1>7. \E i \in I : \A j \in I : j <= i
    BY <1>6, Largest
  <1>8. PICK u \in Stored(k) : /\ u[1] = w[1]
                               /\ \A v \in Stored(k) : v[1] = w[1] => v[2] <= u[2]
    BY <1>7
  <1>9. ASSUME NEW v \in Stored(k), v[1] # u[1] PROVE Earlier(v[1], u[1])
    <2>1. ~Earlier(u[1], v[1])
      BY <1>0, <1>1, <1>5, <1>8 DEF Earlier, TypeOK
    <2>. QED  BY <1>9, <2>1, Ordered
  <1>. QED  BY <1>8, <1>9

\* The last version is in force and no other.
LEMMA LastInForce ==
  ASSUME HInv, loadType # "APPEND", NEW k, Serial(k), NEW u \in Stored(k),
         \A v \in Stored(k) : (v[1] = u[1] /\ v[2] <= u[2]) \/ Earlier(v[1], u[1])
  PROVE  InForce(k) = {u}
  <1>0. TypeOK  BY DEF HInv, IInv
  <1>1. \A v \in Stored(k) : /\ v \in Versions /\ v[1] \in Loads /\ v[2] \in Nat
                             /\ IsWritten(v) /\ Committed(v[1]) /\ KeyOf(v) = k
                             /\ began[v[1]] \in Nat
    BY <1>0, StoredIs DEF Versions, TypeOK
  <1>2. ~Ended(u)
    <2>. SUFFICES ASSUME NEW x \in Loads, Committed(x), <<u, x>> \in expired PROVE FALSE
      BY DEF Ended
    <2>1. PICK w \in Stored(k) : w[1] = x /\ (u[1] = x => u[2] < w[2])
      BY CloserWrote
    <2>2. Earlier(x, u[1])
      BY <1>1, <2>1
    <2>3. u[1] # x /\ <<u[1], x>> \notin met
      BY <1>1, <2>1, <2>2 DEF Earlier, Serial
    <2>4. Earlier(u[1], x)
      BY <1>1, <2>3 DEF HInv, Late
    <2>. QED  BY <1>1, <2>1, <2>2, <2>4 DEF Earlier
  <1>3. ASSUME NEW v \in Stored(k), v # u PROVE Ended(v)
    <2>1. CASE v[1] = u[1] /\ v[2] <= u[2]
      <3>1. v[2] < u[2]
        BY <1>1, <1>3, <2>1 DEF Versions
      <3>. QED  BY <1>1, <2>1, <3>1 DEF HInv, Replaces, Committed, Ended
    <2>2. CASE Earlier(v[1], u[1])
      <3>1. Over(v, u[1])
        BY <1>1, <2>2 DEF HInv, Replaces, Committed
      <3>. QED  BY <1>1, <3>1 DEF Over, Ended
    <2>. QED  BY <2>1, <2>2
  <1>. QED  BY <1>2, <1>3 DEF InForce

\* A version ends when the next one starts.
LEMMA EndsAtNext ==
  ASSUME HInv, loadType # "APPEND", NEW k, Serial(k), NEW v \in Stored(k), NEW l \in Loads,
         Committed(l), <<v, l>> \in expired
  PROVE  /\ began[v[1]] <= began[l]
         /\ \A w \in Stored(k) : began[w[1]] <= began[v[1]] \/ began[w[1]] >= began[l]
  <1>0. TypeOK  BY DEF HInv, IInv
  <1>1. \A w \in Stored(k) : /\ w \in Versions /\ w[1] \in Loads
                             /\ IsWritten(w) /\ Committed(w[1]) /\ KeyOf(w) = k
                             /\ began[w[1]] \in Nat
    BY <1>0, StoredIs DEF TypeOK
  <1>2. PICK c \in Stored(k) : c[1] = l
    BY CloserWrote
  <1>3. began[v[1]] <= began[l]
    <2>1. v[1] = l \/ Earlier(v[1], l)
      BY <1>1, <1>2 DEF HInv, Late, Serial
    <2>. QED  BY <1>1, <1>2, <2>1 DEF Earlier
  <1>4. ASSUME NEW w \in Stored(k), began[v[1]] < began[w[1]], began[w[1]] < began[l] PROVE FALSE
    <2>0. ~Earlier(w[1], v[1]) /\ v[1] # w[1]
      BY <1>1, <1>4 DEF Earlier
    <2>1. Earlier(v[1], w[1])
      BY <2>0, Ordered
    <2>2. Over(v, w[1])
      BY <1>1, <2>1 DEF HInv, Replaces, Committed
    <2>3. \A x \in Loads : Committed(x) /\ <<v, x>> \in expired => x = l
      BY <1>1 DEF HInv, IInv, OneStands, Committed
    <2>4. w[1] # l
      BY <1>1, <1>2, <1>4
    <2>5. <<l, w[1]>> \in met \/ Earlier(l, w[1])
      BY <1>1, <2>2, <2>3, <2>4 DEF Over
    <2>6. Earlier(l, w[1])
      BY <1>2, <2>5 DEF Serial
    <2>. QED  BY <1>1, <1>2, <1>4, <2>6 DEF Earlier
  <1>5. began[l] \in Nat
    BY <1>0 DEF TypeOK
  <1>. QED  BY <1>1, <1>3, <1>4, <1>5

\* A key that is never loaded by two runs at once has a history without gap,
\* overlap or second current row, however many runs load it and however often
\* a batch repeats it: SerialHistory for any number of loads.
THEOREM HistoryIsSerial == Spec => []SerialHistory
  <1>1. HInv => SerialHistory
    <2>. SUFFICES ASSUME HInv, loadType # "APPEND", NEW k \in Keys, Serial(k), Stored(k) # {}
                  PROVE  /\ Cardinality(InForce(k)) = 1
                         /\ \A v \in Stored(k), l \in Loads :
                              Committed(l) /\ <<v, l>> \in expired =>
                              /\ began[v[1]] <= began[l]
                              /\ \A w \in Stored(k) :
                                   began[w[1]] <= began[v[1]] \/ began[w[1]] >= began[l]
      BY DEF SerialHistory
    <2>1. \E u \in Stored(k) : InForce(k) = {u}
      BY LastStored, LastInForce
    <2>2. Cardinality(InForce(k)) = 1
      BY <2>1, FS_Singleton
    <2>. QED  BY <2>2, EndsAtNext
  <1>. QED  BY <1>1, HistoryInvariance, PTL

-----------------------------------------------------------------------------
(* The table seen from outside                                             *)

State == [l \in Loads |-> Effect[phase[l]]]

\* The four fates of a transaction as those of the load.
LEMMA EffectIs ==
  /\ Effect["idle"] = "waiting" /\ Effect["open"] = "open"
  /\ Effect["committed"] = "applied" /\ Effect["aborted"] = "dropped"
  BY DEF Effect

\* A step of one load changes the state of that load.
LEMMA StateStep ==
  ASSUME TypeOK, TypeOK', NEW l \in Loads, \A m \in Loads \ {l} : phase'[m] = phase[m]
  PROVE  /\ State[l] = Effect[phase[l]]
         /\ State' = [State EXCEPT ![l] = Effect[phase'[l]]]
  <1>1. \A m \in Loads \ {l} : Effect[phase'[m]] = Effect[phase[m]]
    OBVIOUS
  <1>. QED  BY <1>1 DEF State

\* A row in force has been written by a committed load.
LEMMA InForceIs ==
  ASSUME TypeOK
  PROVE  \A v : v \in InForceRows <=> /\ v \in Versions /\ v[1] \in Loads /\ IsWritten(v)
                                      /\ Committed(v[1]) /\ ~Ended(v)
  BY WrittenIs DEF InForceRows, Versions

\* The records of a batch are the versions it writes in the end.
LEMMA RecordsAre ==
  ASSUME NEW l \in Loads
  PROVE  /\ \A v : v \in Table!Records(l) <=> v \in Versions /\ v[1] = l /\ v[2] <= Len(Batch[l])
         /\ \A v : Table!KeyOf(v) = KeyOf(v)
         /\ Len(Batch[l]) \in Nat
  <1>1. Batch[l] \in Seq(Keys)
    BY ConstantsAssumption
  <1>2. DOMAIN Batch[l] = 1 .. Len(Batch[l]) /\ Len(Batch[l]) \in Nat
    BY <1>1
  <1>. QED  BY <1>2 DEF Table!Records, Table!KeyOf, KeyOf, Versions

\* The initial states map to the abstract one.
LEMMA TableInit == Init => Table!Init
  <1>. SUFFICES ASSUME Init PROVE Table!Init
    OBVIOUS
  <1>1. InForceRows = {}
    BY DEF Init, InForceRows, Committed, AllWritten, Written
  <1>2. loadType \in {"APPEND", "UPSERT", "SCD2"}
    BY ConstantsAssumption DEF Init, Supported
  <1>3. [l \in Loads |-> Effect[phase[l]]] = [l \in Loads |-> "waiting"]
    BY DEF Init, Effect
  <1>. QED  BY <1>1, <1>2, <1>3 DEF Init, Table!Init

\* Nothing changes in the table while loads are at work or rolled back.
LEMMA RowsKept ==
  ASSUME TypeOK, TypeOK', \A m \in Loads : Committed(m)' <=> Committed(m),
         \A v \in Versions, m \in Loads : Committed(m) =>
           (<<v, m>> \in expired' <=> <<v, m>> \in expired),
         \A m \in Loads : Committed(m) => pos'[m] = pos[m]
  PROVE  InForceRows' = InForceRows
  <1>1. \A v \in Versions : /\ Ended(v)' <=> Ended(v)
                            /\ Committed(v[1]) => (IsWritten(v)' <=> IsWritten(v))
    BY DEF Ended, IsWritten, Versions
  <1>2. \A v : v \in InForceRows' <=> /\ v \in Versions /\ v[1] \in Loads /\ IsWritten(v)'
                                      /\ Committed(v[1])' /\ ~Ended(v)'
    <2>1. \A m \in Loads : pos'[m] \in Nat
      BY DEF TypeOK
    <2>. QED  BY <2>1 DEF InForceRows, AllWritten, Written, Versions, IsWritten
  <1>3. \A v : v \in InForceRows <=> /\ v \in Versions /\ v[1] \in Loads /\ IsWritten(v)
                                     /\ Committed(v[1]) /\ ~Ended(v)
    BY InForceIs
  <1>4. \A v : v \in InForceRows' <=> v \in InForceRows
    BY <1>1, <1>2, <1>3
  <1>. QED  BY <1>4 DEF InForceRows

\* A load that begins opens.
LEMMA BeginOpens ==
  ASSUME HInv, HInv', NEW l \in Loads, Begin(l)
  PROVE  Table!Open(l)
  <1>0. TypeOK /\ TypeOK'  BY DEF HInv, IInv
  <1>1. /\ phase[l] = "idle" /\ phase' = [phase EXCEPT ![l] = "open"]
        /\ UNCHANGED <<loadType, pos, expired>>
    BY DEF Begin
  <1>2. InForceRows' = InForceRows
    BY <1>0, <1>1, RowsKept DEF TypeOK, Committed
  <1>3. State[l] = "waiting" /\ State' = [State EXCEPT ![l] = "open"]
    BY <1>0, <1>1, StateStep, EffectIs DEF TypeOK
  <1>4. \A m \in Loads : State[m] = "open" <=> Open(m)
    BY <1>0, EffectIs DEF State, Open, TypeOK
  <1>5. {n \in Loads : State[n] = "open"} = {n \in Loads : Open(n)}
    BY <1>4
  <1>6. met' = met \cup UNION {{<<l, m>>, <<m, l>>} : m \in {n \in Loads : State[n] = "open"}}
    BY <1>5 DEF Begin
  <1>. QED  BY <1>1, <1>2, <1>3, <1>6 DEF Table!Open, State

\* Writing is not seen, and a rollback drops the load.
LEMMA WorkStutters ==
  ASSUME HInv, HInv', NEW l \in Loads, Working(l), phase'[l] # "committed"
  PROVE  Table!Drop(l) \/ UNCHANGED Table!table
  <1>0. TypeOK /\ TypeOK'  BY DEF HInv, IInv
  <1>1. \A m \in Loads : Committed(m)' <=> Committed(m)
    BY DEF Working, Committed, Open
  <1>2. InForceRows' = InForceRows
    <2>1. \A m \in Loads : Committed(m) => m # l
      BY DEF Working, Committed, Open
    <2>. QED  BY <1>0, <1>1, <2>1, RowsKept DEF Working
  <1>3. CASE phase'[l] = "aborted"
    <2>1. State[l] = "open" /\ State' = [State EXCEPT ![l] = "dropped"]
      BY <1>0, <1>3, StateStep, EffectIs DEF Working, Open
    <2>. QED  BY <1>2, <2>1 DEF Table!Drop, Working, State
  <1>4. CASE phase'[l] = "open"
    <2>1. phase' = phase
      BY <1>0, <1>4 DEF TypeOK, Working, Open
    <2>2. State' = State
      BY <2>1 DEF State, Effect
    <2>. QED  BY <1>2, <2>2 DEF Table!table, Working, State
  <1>. QED  BY <1>3, <1>4 DEF Working

\* What a committing load has expired gave way to a later record of its own.
LEMMA CommitterWrote ==
  ASSUME HInv, NEW l \in Loads, Open(l), ~updating[l], NEW v \in Versions, <<v, l>> \in expired
  PROVE  \E w \in Versions : /\ w[1] = l /\ IsWritten(w) /\ KeyOf(w) = KeyOf(v)
                             /\ v[1] = l => v[2] < w[2]
  BY DEF HInv, Expirers, Expirer, Open

\* A commit brings the whole batch into force at once, in place of what was
\* in force under its keys.
LEMMA CommitApplies ==
  ASSUME HInv, HInv', NEW l \in Loads, Commit(l)
  PROVE  Table!Apply(l)
  <1>0. TypeOK /\ TypeOK'  BY DEF HInv, IInv
  <1>1. /\ Open(l) /\ pos[l] = Len(Batch[l]) /\ phase' = [phase EXCEPT ![l] = "committed"]
        /\ UNCHANGED <<loadType, pos, expired, met>>
    BY DEF Commit, Close, WroteAll
  <1>2. ~updating[l]
    BY <1>0, <1>1, RecordsAre DEF HInv, Reach, HasNext
  <1>3. \A m \in Loads : Committed(m)' <=> Committed(m) \/ m = l
    BY <1>0, <1>1 DEF Committed, TypeOK
  <1>4. ~Committed(l)
    BY <1>1 DEF Open, Committed
  <1>5. \A v \in Versions : Ended(v)' <=> Ended(v) \/ <<v, l>> \in expired
    BY <1>1, <1>3 DEF Ended
  <1>6. \A v : v \in InForceRows <=> /\ v \in Versions /\ v[1] \in Loads /\ IsWritten(v)
                                     /\ Committed(v[1]) /\ ~Ended(v)
    BY <1>0, InForceIs
  <1>7. \A v : v \in InForceRows' <=> /\ v \in Versions /\ v[1] \in Loads /\ IsWritten(v)
                                      /\ Committed(v[1]) \/ v[1] = l
                                      /\ ~Ended(v) /\ <<v, l>> \notin expired
    <2>1. \A v : v \in InForceRows' <=> /\ v \in Versions /\ v[1] \in Loads /\ IsWritten(v)'
                                        /\ Committed(v[1])' /\ ~Ended(v)'
      <3>1. \A m \in Loads : pos'[m] \in Nat
        BY <1>0 DEF TypeOK
      <3>. QED  BY <3>1 DEF InForceRows, AllWritten, Written, Versions, IsWritten
    <2>2. \A v \in Versions : IsWritten(v)' <=> IsWritten(v)
      BY <1>1 DEF IsWritten
    <2>. QED  BY <1>3, <1>5, <2>1, <2>2
  <1>8. \A v : v \in Table!Records(l) <=> v \in Versions /\ v[1] = l /\ IsWritten(v)
    BY <1>1, RecordsAre DEF IsWritten
  <1>9. \A v \in Versions : v[1] = l => ~Ended(v)
    BY <1>1, EndedOver
  <1>10. \A v : v \in Table!LastOf(l) <=>
            /\ v \in Versions /\ v[1] = l /\ IsWritten(v)
            /\ \A w \in Versions : w[1] = l /\ IsWritten(w) /\ KeyOf(w) = KeyOf(v) => w[2] <= v[2]
    BY <1>8, RecordsAre DEF Table!LastOf
  <1>11. \A v \in Versions : v[2] \in Nat
    BY DEF Versions
  <1>12. \A v \in Versions : KeyOf(v) \in Table!KeysOf(l) <=>
            \E w \in Versions : w[1] = l /\ IsWritten(w) /\ KeyOf(w) = KeyOf(v)
    BY <1>8, RecordsAre DEF Table!KeysOf
  <1>13. InForceRows' \subseteq InForceRows \cup Table!Added(l)
    <2>. SUFFICES ASSUME NEW v \in InForceRows', v[1] = l PROVE v \in Table!Added(l)
      BY <1>6, <1>7
    <2>1. v \in Versions /\ IsWritten(v) /\ <<v, l>> \notin expired
      BY <1>7
    <2>2. CASE loadType = "APPEND"
      BY <1>8, <2>1, <2>2 DEF Table!Added
    <2>3. CASE loadType # "APPEND"
      <3>1. \A w \in Versions : w[1] = l /\ IsWritten(w) /\ KeyOf(w) = KeyOf(v) => ~(v[2] < w[2])
        BY <1>1, <2>1, <2>3 DEF HInv, Replaces, Open
      <3>2. v \in Table!LastOf(l)
        BY <1>10, <1>11, <2>1, <3>1
      <3>. QED  BY <2>3, <3>2 DEF Table!Added
    <2>. QED  BY <2>2, <2>3
  <1>14. Table!Added(l) \subseteq InForceRows'
    <2>. SUFFICES ASSUME NEW v \in Table!Added(l) PROVE v \in InForceRows'
      OBVIOUS
    <2>1. v \in Versions /\ v[1] = l /\ IsWritten(v)
      BY <1>8, <1>10 DEF Table!Added
    <2>2. <<v, l>> \notin expired
      <3>. SUFFICES ASSUME <<v, l>> \in expired PROVE FALSE
        OBVIOUS
      <3>1. loadType # "APPEND"
        BY <2>1 DEF HInv, Reach
      <3>2. PICK w \in Versions : w[1] = l /\ IsWritten(w) /\ KeyOf(w) = KeyOf(v) /\ v[2] < w[2]
        BY <1>1, <1>2, <2>1, CommitterWrote
      <3>3. w[2] <= v[2]
        BY <1>10, <3>1, <3>2 DEF Table!Added
      <3>. QED  BY <1>11, <2>1, <3>2, <3>3
    <2>. QED  BY <1>7, <1>9, <2>1, <2>2
  <1>15. InForceRows \ Table!Replaceable(l) \subseteq InForceRows'
    <2>. SUFFICES ASSUME NEW v \in InForceRows, v \notin Table!Replaceable(l),
                         <<v, l>> \in expired
                  PROVE  FALSE
      BY <1>6, <1>7
    <2>1. v \in Versions
      BY <1>6
    <2>2. loadType # "APPEND"
      BY <2>1 DEF HInv, Reach
    <2>3. KeyOf(v) \in Table!KeysOf(l)
      BY <1>1, <1>2, <1>12, <2>1, CommitterWrote
    <2>. QED  BY <2>2, <2>3, RecordsAre DEF Table!Replaceable
  <1>16. InForceRows' \cap Table!Replaced(l) = {}
    <2>. SUFFICES ASSUME NEW v \in InForceRows', v \in Table!Replaced(l) PROVE FALSE
      OBVIOUS
    <2>1. /\ v \in InForceRows /\ loadType # "APPEND" /\ KeyOf(v) \in Table!KeysOf(l)
          /\ loadType = "SCD2" => <<l, v[1]>> \notin met
      BY RecordsAre DEF Table!Replaced, Table!Replaceable
    <2>2. /\ v \in Versions /\ v[1] \in Loads /\ IsWritten(v) /\ Committed(v[1]) /\ v[1] # l
          /\ ~Ended(v) /\ <<v, l>> \notin expired
      BY <1>4, <1>6, <1>7, <2>1
    <2>3. PICK w \in Versions : w[1] = l /\ IsWritten(w) /\ KeyOf(w) = KeyOf(v)
      BY <1>12, <2>1, <2>2
    <2>4. CASE loadType = "SCD2"
      <3>1. <<v[1], l>> \notin met
        BY <2>1, <2>2, <2>4 DEF HInv, Ranks
      <3>2. Earlier(v[1], l)
        BY <1>1, <2>2, <3>1, CommittedFirst DEF HInv
      <3>3. Over(v, l)
        BY <1>1, <2>1, <2>2, <2>3, <3>2 DEF HInv, Replaces, Open
      <3>. QED  BY <2>2, <3>3 DEF Over, Ended
    <2>5. CASE loadType = "UPSERT"
      BY <1>1, <2>2, <2>3, <2>5 DEF HInv, Exclusive
    <2>. QED  BY <1>0, <2>1, <2>4, <2>5 DEF TypeOK, Supported
  <1>17. State[l] = "open" /\ State' = [State EXCEPT ![l] = "applied"]
    BY <1>0, <1>1, StateStep, EffectIs DEF Open, TypeOK
  <1>. QED  BY <1>1, <1>13, <1>14, <1>15, <1>16, <1>17 DEF Table!Apply, State

\* Every step is a step of the table or leaves it as it is.
LEMMA TableStep == ASSUME HInv, HInv', [Next]_vars PROVE [Table!Next]_(Table!table)
  <1>1. ASSUME NEW l \in Loads, Write(l) \/ Fail(l) \/ BreakDeadlock(l), ~Commit(l)
        PROVE  Table!Drop(l) \/ UNCHANGED Table!table
    <2>1. Working(l)
      BY <1>1, WorkingStep DEF HInv
    <2>2. phase'[l] # "committed"
      BY <1>1, <2>1 DEF HInv, IInv, TypeOK, Write, AppendRecord, Upsert, FindCurrent, ExpireRow,
         PassRow, InsertVersion, Fail, BreakDeadlock, Close, Working, Open
    <2>. QED  BY <2>1, <2>2, WorkStutters
  <1>2. ASSUME NEW l \in Loads, Begin(l) \/ Commit(l)
        PROVE  Table!Open(l) \/ Table!Apply(l)
    BY <1>2, BeginOpens, CommitApplies
  <1>3. CASE UNCHANGED vars
    BY <1>3 DEF vars, Table!table, InForceRows, AllWritten, Written, Committed, Ended
  <1>. QED  BY <1>1, <1>2, <1>3 DEF Next, Table!Next

\* Seen through the rows in force a load takes effect at its commit and at
\* once, and only concurrent SCD2 loads leave rows beside each other:
\* LoadEngine implements TargetTable, for any number of loads and batches.
THEOREM RefinesTable == Spec => ImplementsTable
  BY TableInit, TableStep, HistoryInvariance, PTL DEF Spec, ImplementsTable, Table!Spec

-----------------------------------------------------------------------------
(* A loaded key stays in force                                             *)

\* What TargetTable's steps keep: an applied load's keys have rows in force,
\* and under UPSERT a key has one.
RowOfKey ==
  loadType # "APPEND" =>
    /\ \A m \in Loads : Committed(m) =>
         \A k \in Table!KeysOf(m) : \E v \in InForceRows : KeyOf(v) = k
    /\ loadType = "UPSERT" =>
         \A v, w \in InForceRows : KeyOf(v) = KeyOf(w) => v = w

\* A batch has a last record of each of its keys, and only one.
LEMMA LastOfKey ==
  ASSUME NEW l \in Loads
  PROVE  /\ \A k \in Table!KeysOf(l) : \E v \in Table!LastOf(l) : KeyOf(v) = k
         /\ \A v, w \in Table!LastOf(l) : KeyOf(v) = KeyOf(w) => v = w
         /\ \A v \in Table!LastOf(l) : KeyOf(v) \in Table!KeysOf(l)
  <1>1. /\ \A v : v \in Table!Records(l) <=> v \in Versions /\ v[1] = l /\ v[2] <= Len(Batch[l])
        /\ \A v : Table!KeyOf(v) = KeyOf(v)
        /\ Len(Batch[l]) \in Nat
    BY RecordsAre
  <1>2. \A v \in Versions : v = <<v[1], v[2]>> /\ v[2] \in Nat
    BY DEF Versions
  <1>3. ASSUME NEW k \in Table!KeysOf(l)
        PROVE  \E v \in Table!LastOf(l) : KeyOf(v) = k
    <2>. DEFINE S == {v[2] : v \in {w \in Table!Records(l) : KeyOf(w) = k}}
    <2>1. S \in SUBSET Nat /\ S # {} /\ \A x \in S : x <= Len(Batch[l])
      <3>1. PICK v \in Table!Records(l) : KeyOf(v) = k
        BY <1>1 DEF Table!KeysOf
      <3>. QED  BY <1>1, <1>2, <3>1
    <2>2. \E x \in S : \A y \in S : y <= x
      BY <1>1, <2>1, Largest
    <2>3. PICK v \in Table!Records(l) :
            KeyOf(v) = k /\ \A w \in Table!Records(l) : KeyOf(w) = k => w[2] <= v[2]
      BY <2>2
    <2>4. v \in Table!LastOf(l)
      BY <1>1, <2>3 DEF Table!LastOf
    <2>. QED  BY <2>3, <2>4
  <1>4. ASSUME NEW v \in Table!LastOf(l), NEW w \in Table!LastOf(l), KeyOf(v) = KeyOf(w)
        PROVE  v = w
    <2>1. /\ v \in Table!Records(l) /\ w \in Table!Records(l)
          /\ v[2] <= w[2] /\ w[2] <= v[2]
      BY <1>1, <1>4 DEF Table!LastOf
    <2>2. v \in Versions /\ w \in Versions /\ v[1] = w[1]
      BY <1>1, <2>1
    <2>. QED  BY <1>2, <2>1, <2>2
  <1>5. \A v \in Table!LastOf(l) : KeyOf(v) \in Table!KeysOf(l)
    BY <1>1 DEF Table!LastOf, Table!KeysOf
  <1>. QED  BY <1>3, <1>4, <1>5

\* A load that is applied leaves one row of its own for each of its keys, and
\* replaces under them only.
LEMMA ApplyKeeps ==
  ASSUME RowOfKey, NEW l \in Loads, Table!Apply(l),
         \A m \in Loads : Committed(m)' => Committed(m) \/ m = l
  PROVE  RowOfKey'
  <1>. SUFFICES ASSUME loadType # "APPEND" PROVE RowOfKey'
    BY DEF Table!Apply, RowOfKey
  <1>1. /\ loadType' = loadType /\ InForceRows' \subseteq InForceRows \cup Table!LastOf(l)
        /\ Table!LastOf(l) \subseteq InForceRows'
        /\ InForceRows \ Table!Replaceable(l) \subseteq InForceRows'
        /\ loadType = "UPSERT" => InForceRows' \cap Table!Replaceable(l) = {}
        /\ \A v : v \in Table!Replaceable(l) <=> v \in InForceRows /\ KeyOf(v) \in Table!KeysOf(l)
    <2>1. \A v : v \in Table!Replaceable(l) <=> v \in InForceRows /\ KeyOf(v) \in Table!KeysOf(l)
      <3>1. \A v : Table!KeyOf(v) = KeyOf(v)
        BY RecordsAre
      <3>. QED  BY <3>1, Zenon DEF Table!Replaceable
    <2>2. Table!Added(l) = Table!LastOf(l)
      BY DEF Table!Added
    <2>3. loadType = "UPSERT" => Table!Replaced(l) = Table!Replaceable(l)
      BY DEF Table!Replaced
    <2>. HIDE DEF Table!Added, Table!Replaced, Table!Replaceable
    <2>4. /\ loadType' = loadType
          /\ InForceRows' \subseteq InForceRows \cup Table!LastOf(l)
          /\ Table!LastOf(l) \subseteq InForceRows'
          /\ InForceRows \ Table!Replaceable(l) \subseteq InForceRows'
          /\ InForceRows' \cap Table!Replaced(l) = {}
      BY <2>2, Zenon DEF Table!Apply
    <2>. QED  BY <2>1, <2>3, <2>4, Zenon
  <1>2. ASSUME NEW m \in Loads, Committed(m)', NEW k \in Table!KeysOf(m)
        PROVE  \E v \in InForceRows' : KeyOf(v) = k
    <2>1. CASE k \in Table!KeysOf(l)
      BY <1>1, <2>1, LastOfKey
    <2>2. CASE k \notin Table!KeysOf(l)
      <3>1. Committed(m)
        BY <1>2, <2>2
      <3>2. PICK v \in InForceRows : KeyOf(v) = k
        BY <3>1 DEF RowOfKey
      <3>. QED  BY <1>1, <2>2, <3>2
    <2>. QED  BY <2>1, <2>2
  <1>3. ASSUME loadType = "UPSERT", NEW v \in InForceRows', NEW w \in InForceRows',
               KeyOf(v) = KeyOf(w)
        PROVE  v = w
    <2>1. \A x \in InForceRows' :
            x \in Table!LastOf(l) \/ (x \in InForceRows /\ KeyOf(x) \notin Table!KeysOf(l))
      BY <1>1, <1>3
    <2>2. CASE v \in Table!LastOf(l) /\ w \in Table!LastOf(l)
      BY <1>3, <2>2, LastOfKey
    <2>3. CASE v \in InForceRows /\ w \in InForceRows
      BY <1>3, <2>3 DEF RowOfKey
    <2>. QED  BY <1>3, <2>1, <2>2, <2>3, LastOfKey
  <1>4. \A v : KeyOf(v)' = KeyOf(v) /\ \A m \in Loads : Table!KeysOf(m)' = Table!KeysOf(m)
    BY DEF KeyOf, Table!KeysOf, Table!KeyOf, Table!Records
  <1>. QED  BY <1>1, <1>2, <1>3, <1>4 DEF RowOfKey

\* Every step of the table keeps it.
LEMMA RowOfKeyStep ==
  ASSUME HInv, HInv', RowOfKey, [Table!Next]_(Table!table)
  PROVE  RowOfKey'
  <1>0. TypeOK /\ TypeOK'  BY DEF HInv, IInv
  <1>1. \A m \in Loads : /\ Committed(m) <=> State[m] = "applied"
                         /\ Committed(m)' <=> State'[m] = "applied"
    BY <1>0, EffectIs DEF Committed, State, TypeOK
  <1>2. ASSUME \A m \in Loads : Committed(m)' => Committed(m),
               loadType' = loadType, InForceRows' = InForceRows
        PROVE  RowOfKey'
    BY <1>2 DEF RowOfKey, KeyOf, Table!KeysOf, Table!KeyOf, Table!Records
  <1>3. ASSUME NEW l \in Loads, Table!Open(l) \/ Table!Drop(l)
        PROVE  RowOfKey'
    <2>1. /\ loadType' = loadType /\ InForceRows' = InForceRows
          /\ State' = [State EXCEPT ![l] = "open"] \/ State' = [State EXCEPT ![l] = "dropped"]
      BY <1>3 DEF Table!Open, Table!Drop, State
    <2>2. \A m \in Loads : State'[m] = "applied" => State[m] = "applied"
      BY <2>1 DEF State
    <2>. QED  BY <1>1, <1>2, <2>1, <2>2
  <1>4. ASSUME NEW l \in Loads, Table!Apply(l)
        PROVE  RowOfKey'
    <2>1. State' = [State EXCEPT ![l] = "applied"]
      BY <1>4 DEF Table!Apply, State
    <2>2. \A m \in Loads : State'[m] = "applied" => State[m] = "applied" \/ m = l
      BY <2>1 DEF State
    <2>. QED  BY <1>1, <1>4, <2>2, ApplyKeeps
  <1>5. CASE UNCHANGED Table!table
    <2>1. loadType' = loadType /\ InForceRows' = InForceRows /\ State' = State
      BY <1>5 DEF Table!table, State
    <2>. QED  BY <1>1, <1>2, <2>1
  <1>. QED  BY <1>3, <1>4, <1>5 DEF Table!Next

\* A load writes no more records than its batch has.
Within == \A l \in Loads : pos[l] <= Len(Batch[l])

\* Every step keeps a load within its batch.
LEMMA WithinStep == ASSUME TypeOK, Within, [Next]_vars PROVE Within'
  <1>0. \A l \in Loads : Len(Batch[l]) \in Nat /\ pos[l] \in Nat /\ pos[l] <= Len(Batch[l])
    BY RecordsAre DEF TypeOK, Within
  <1>1. ASSUME pos' = pos PROVE Within'
    BY <1>1 DEF Within
  <1>2. ASSUME NEW l \in Loads, HasNext(l), pos' = [pos EXCEPT ![l] = @ + 1]
        PROVE  Within'
    <2>1. ASSUME NEW m \in Loads PROVE pos'[m] <= Len(Batch[m])
      <3>1. pos'[m] = IF m = l THEN pos[m] + 1 ELSE pos[m]
        BY <1>2 DEF TypeOK
      <3>2. pos[l] < Len(Batch[l])
        BY <1>2 DEF HasNext
      <3>. QED  BY <1>0, <3>1, <3>2
    <2>. QED  BY <2>1 DEF Within
  <1>3. CASE UNCHANGED vars
    BY <1>1, <1>3 DEF vars
  <1>4. ASSUME NEW l \in Loads, Begin(l) \/ Write(l) \/ Fail(l) \/ BreakDeadlock(l)
        PROVE  Within'
    <2>1. pos' = pos \/ (HasNext(l) /\ pos' = [pos EXCEPT ![l] = @ + 1])
      BY <1>4 DEF Begin, Write, AppendRecord, Upsert, FindCurrent, ExpireRow, PassRow,
                  InsertVersion, Commit, Fail, BreakDeadlock, Close
    <2>. QED  BY <1>1, <1>2, <2>1
  <1>. QED  BY <1>3, <1>4 DEF Next

\* Whatever loads overlap or fail, a key that has been loaded never ends up
\* without a row in force, and an upsert never leaves two of it.
THEOREM KeysInForce == Spec => []LoadedKeyInForce
  <1>1. Init => RowOfKey /\ Within
    BY RecordsAre DEF Init, RowOfKey, Within, Committed, InForceRows, AllWritten, Written
  <1>2. HInv /\ HInv' /\ RowOfKey /\ Within /\ [Next]_vars => RowOfKey' /\ Within'
    BY TableStep, RowOfKeyStep, WithinStep DEF HInv, IInv
  <1>3. HInv /\ RowOfKey /\ Within => LoadedKeyInForce
    <2>. SUFFICES ASSUME HInv, RowOfKey, Within, loadType # "APPEND", NEW k \in Keys, Stored(k) # {}
                  PROVE  /\ InForce(k) # {}
                         /\ loadType = "UPSERT" => Cardinality(InForce(k)) = 1
      BY DEF LoadedKeyInForce
    <2>1. TypeOK  BY DEF HInv, IInv
    <2>2. PICK u \in Stored(k) : u \in Versions /\ IsWritten(u) /\ u[1] \in Loads
                                 /\ Committed(u[1]) /\ KeyOf(u) = k
      BY <2>1, StoredIs
    <2>3. u[2] <= Len(Batch[u[1]])
      <3>1. pos[u[1]] \in Nat /\ pos[u[1]] <= Len(Batch[u[1]])
        BY <2>1, <2>2 DEF TypeOK, Within
      <3>. QED  BY <2>2, <3>1, RecordsAre DEF IsWritten, Versions
    <2>4. k \in Table!KeysOf(u[1])
      BY <2>2, <2>3, RecordsAre DEF Table!KeysOf
    <2>5. \A v : v \in InForce(k) <=> v \in InForceRows /\ KeyOf(v) = k
      BY DEF InForce, InForceRows, Stored
    <2>6. PICK v \in InForceRows : KeyOf(v) = k
      BY <2>2, <2>4 DEF RowOfKey
    <2>7. CASE loadType = "UPSERT"
      <3>1. InForce(k) = {v}
        BY <2>5, <2>6, <2>7 DEF RowOfKey
      <3>. QED  BY <3>1, FS_Singleton
    <2>. QED  BY <2>5, <2>6, <2>7
  <1>. QED  BY <1>1, <1>2, <1>3, HistoryInvariance, PTL DEF Spec

=============================================================================
