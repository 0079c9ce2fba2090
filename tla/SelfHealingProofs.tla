------------------------- MODULE SelfHealingProofs --------------------------
(***************************************************************************)
(* Proofs about SelfHealing.  The first part holds for any number of       *)
(* processes working on the queue, the second for a single one, however    *)
(* often it crashes.                                                       *)
(***************************************************************************)
EXTENDS SelfHealing, FiniteSetTheorems, TLAPS

-----------------------------------------------------------------------------
(* Any number of processes                                                 *)

\* A snapshot is of a queued item as it once was: within its budget, and not
\* ahead of the replays made.  The item in hand has been replayed since.
SnapshotsSound ==
  \A a \in Agents :
    /\ \A s \in todo[a] \cup hand[a] : /\ s.count < MaxRetries
                                       /\ s.count <= attempts[s.item]
                                       /\ status[s.item] # "ABSENT"
    /\ \A s \in hand[a] : /\ s.count + 1 <= attempts[s.item]
                          /\ outcome[a] => s.item \in healed

\* What the table says of an item is backed by the replays made of it.
TableSound ==
  \A q \in Items :
    /\ retryCount[q] <= attempts[q]
    /\ status[q] \in {"ABSENT", "QUEUED"} => retryCount[q] < MaxRetries
    /\ status[q] = "ESCALATED" => attempts[q] >= MaxRetries
    /\ status[q] = "RESOLVED" => q \in healed

IInv == TypeOK /\ SnapshotsSound /\ TableSound

\* The place of an item among the finitely many due ones is a number.
LEMMA RankTyped == ASSUME NEW q PROVE Rank(q) \in Nat
  <1>. DEFINE earlier == {p \in Items : IsDue(p) /\ <<p, q>> \in older}
  <1>1. IsFiniteSet(earlier)
    BY ConstantsAssumption, FS_Subset
  <1>2. Cardinality(earlier) \in Nat
    BY <1>1, FS_CardinalityType
  <1>. QED  BY <1>2 DEF Rank

\* What fetch_due_items reads of an item is a snapshot.
LEMMA SnapshotTyped ==
  ASSUME TypeOK, NEW q \in Items
  PROVE  [item |-> q, count |-> retryCount[q], policy |-> policy[q], rank |-> Rank(q)] \in Snapshot
  BY RankTyped DEF TypeOK, Snapshot

\* updated_at = now() keeps the order an order on items.
LEMMA TouchTyped ==
  ASSUME TypeOK, NEW q \in Items
  PROVE  Touch(q) \subseteq Items \X Items
  BY DEF TypeOK, Touch, Present

\* The empty queue satisfies the invariant.
LEMMA InvInit == Init => IInv
  BY ConstantsAssumption DEF Init, IInv, TypeOK, SnapshotsSound, TableSound, Policies, Waiting

\* Every action keeps the types.
LEMMA TypeStep == TypeOK /\ [Next]_vars => TypeOK'
  <1>. SUFFICES ASSUME TypeOK, [Next]_vars PROVE TypeOK'
    OBVIOUS
  <1>. USE DEF TypeOK, table, process, history
  <1>1. ASSUME NEW q \in Items, NEW p \in EnqueuedPolicies, Enqueue(q, p) PROVE TypeOK'
    BY <1>1, TouchTyped DEF Enqueue, EnqueuedPolicies, Policies, Waiting
  <1>2. ASSUME NEW q \in Items, NEW p \in Triage, Reassign(q, p) PROVE TypeOK'
    BY <1>2, ConstantsAssumption DEF Reassign
  <1>3. ASSUME NEW a \in Agents, Fetch(a) PROVE TypeOK'
    <2>1. {[item |-> q, count |-> retryCount[q], policy |-> policy[q], rank |-> Rank(q)]
             : q \in Fetched} \subseteq Snapshot
      BY SnapshotTyped DEF Fetched
    <2>. QED  BY <1>3, <2>1 DEF Fetch
  <1>4. ASSUME NEW a \in Agents, NEW s \in todo[a], NEW success \in BOOLEAN, Replay(a, s, success)
        PROVE  TypeOK'
    <2>1. s \in Snapshot /\ s.item \in Items  BY DEF Snapshot
    <2>. QED  BY <1>4, <2>1 DEF Replay
  <1>5. ASSUME NEW a \in Agents, NEW s \in hand[a], Mark(a, s) PROVE TypeOK'
    <2>1. s.item \in Items /\ s.count \in Nat  BY DEF Snapshot
    <2>2. Delay(s.policy) \in Nat  BY DEF Delay
    <2>3. CASE MarkResolved(a, s)
      BY <2>1, <2>3, TouchTyped DEF MarkResolved, Continue
    <2>4. CASE MarkEscalated(a, s)
      BY <2>1, <2>4, TouchTyped DEF MarkEscalated, Continue, Counted
    <2>5. CASE MarkRetried(a, s)
      BY <2>1, <2>2, <2>5, TouchTyped DEF MarkRetried, Continue, Counted
    <2>. QED  BY <1>5, <2>3, <2>4, <2>5 DEF Mark
  <1>6. ASSUME NEW a \in Agents, Crash(a) PROVE TypeOK'
    BY <1>6 DEF Crash
  <1>7. CASE Tick
    BY <1>7 DEF Tick
  <1>8. CASE UNCHANGED vars
    BY <1>8 DEF vars
  <1>. QED  BY <1>1, <1>2, <1>3, <1>4, <1>5, <1>6, <1>7, <1>8 DEF Next, Work

\* Every action keeps snapshots and table sound.
LEMMA SoundStep == IInv /\ [Next]_vars => SnapshotsSound' /\ TableSound'
  <1>. SUFFICES ASSUME IInv, [Next]_vars PROVE SnapshotsSound' /\ TableSound'
    OBVIOUS
  <1>. USE ConstantsAssumption DEF IInv, TypeOK, table, process, history
  <1>1. ASSUME NEW q \in Items, NEW p \in EnqueuedPolicies, Enqueue(q, p)
        PROVE  SnapshotsSound' /\ TableSound'
    BY <1>1 DEF Enqueue, SnapshotsSound, TableSound, Snapshot
  <1>2. ASSUME NEW q \in Items, NEW p \in Triage, Reassign(q, p)
        PROVE  SnapshotsSound' /\ TableSound'
    BY <1>2 DEF Reassign, SnapshotsSound, TableSound
  <1>3. ASSUME NEW a \in Agents, Fetch(a) PROVE SnapshotsSound' /\ TableSound'
    <2>1. \A q \in Fetched : status[q] = "QUEUED" /\ q \in Items
      BY DEF Fetched, IsDue
    <2>2. \A s \in todo'[a] \cup hand'[a] :
            s.count < MaxRetries /\ s.count <= attempts[s.item] /\ status[s.item] # "ABSENT"
      BY <1>3, <2>1 DEF Fetch, TableSound
    <2>3. hand' = hand /\ \A b \in Agents \ {a} : todo'[b] = todo[b]
      BY <1>3 DEF Fetch
    <2>4. SnapshotsSound'
      BY <1>3, <2>2, <2>3 DEF Fetch, SnapshotsSound
    <2>. QED  BY <1>3, <2>4 DEF Fetch, TableSound
  <1>4. ASSUME NEW a \in Agents, NEW s \in todo[a], NEW success \in BOOLEAN, Replay(a, s, success)
        PROVE  SnapshotsSound' /\ TableSound'
    <2>1. s.item \in Items /\ s.count \in Nat  BY DEF Snapshot
    <2>2. \A q \in Items : attempts'[q] \in Nat /\ attempts'[q] >= attempts[q]
      BY <1>4, <2>1 DEF Replay
    <2>3. attempts'[s.item] = attempts[s.item] + 1 /\ healed \subseteq healed'
          /\ (success => s.item \in healed')
      BY <1>4, <2>1 DEF Replay
    <2>4. s.count + 1 <= attempts'[s.item]
      BY <2>1, <2>3 DEF SnapshotsSound
    <2>5. \A b \in Agents : /\ todo'[b] \subseteq todo[b]
                            /\ b # a => hand'[b] = hand[b] /\ outcome'[b] = outcome[b]
      BY <1>4 DEF Replay
    <2>6. hand'[a] = {s} /\ outcome'[a] = success /\ UNCHANGED <<status, retryCount>>
      BY <1>4 DEF Replay
    <2>7. SnapshotsSound'
      <3>. SUFFICES ASSUME NEW b \in Agents
           PROVE  /\ \A t \in todo'[b] \cup hand'[b] : /\ t.count < MaxRetries
                                                       /\ t.count <= attempts'[t.item]
                                                       /\ status'[t.item] # "ABSENT"
                  /\ \A t \in hand'[b] : /\ t.count + 1 <= attempts'[t.item]
                                         /\ outcome'[b] => t.item \in healed'
        BY DEF SnapshotsSound
      <3>1. \A t \in todo'[b] \cup hand'[b] : /\ t \in Snapshot
                                              /\ t \in todo[b] \cup hand[b] \/ (b = a /\ t = s)
        BY <2>5, <2>6
      <3>2. \A t \in todo'[b] \cup hand'[b] : /\ t.count < MaxRetries
                                              /\ t.count <= attempts'[t.item]
                                              /\ status'[t.item] # "ABSENT"
        BY <2>2, <2>6, <3>1 DEF SnapshotsSound, Snapshot
      <3>3. CASE b = a
        BY <2>3, <2>4, <2>6, <3>2, <3>3
      <3>4. CASE b # a
        BY <2>2, <2>3, <2>5, <3>2, <3>4 DEF SnapshotsSound, Snapshot
      <3>. QED  BY <3>3, <3>4
    <2>. QED  BY <2>2, <2>3, <2>6, <2>7 DEF TableSound
  <1>5. ASSUME NEW a \in Agents, NEW s \in hand[a], Mark(a, s)
        PROVE  SnapshotsSound' /\ TableSound'
    <2>1. /\ s.item \in Items /\ s.count \in Nat /\ s.count < MaxRetries
          /\ s.count + 1 <= attempts[s.item] /\ status[s.item] # "ABSENT"
          /\ outcome[a] => s.item \in healed
      BY DEF Snapshot, SnapshotsSound
    <2>2. /\ UNCHANGED <<todo, attempts, healed>>
          /\ hand'[a] = {}
          /\ \A b \in Agents \ {a} : hand'[b] = hand[b] /\ outcome'[b] = outcome[b]
      BY <1>5 DEF Mark, MarkResolved, MarkEscalated, MarkRetried, Continue
    <2>3. \A q \in Items : status[q] # "ABSENT" => status'[q] # "ABSENT"
      BY <1>5 DEF Mark, MarkResolved, MarkEscalated, MarkRetried
    <2>4. SnapshotsSound'
      BY <2>2, <2>3 DEF SnapshotsSound, Snapshot
    <2>5. CASE MarkResolved(a, s)
      BY <2>1, <2>2, <2>4, <2>5 DEF MarkResolved, Resolves, TableSound
    <2>6. CASE MarkEscalated(a, s)
      BY <2>1, <2>2, <2>4, <2>6 DEF MarkEscalated, Escalates, SpendsBudget, Counted, TableSound
    <2>7. CASE MarkRetried(a, s)
      BY <2>1, <2>2, <2>4, <2>7 DEF MarkRetried, Retries, SpendsBudget, Counted, TableSound
    <2>. QED  BY <1>5, <2>5, <2>6, <2>7 DEF Mark
  <1>6. ASSUME NEW a \in Agents, Crash(a) PROVE SnapshotsSound' /\ TableSound'
    BY <1>6 DEF Crash, SnapshotsSound, TableSound
  <1>7. CASE Tick
    BY <1>7 DEF Tick, SnapshotsSound, TableSound
  <1>8. CASE UNCHANGED vars
    BY <1>8 DEF vars, SnapshotsSound, TableSound
  <1>. QED  BY <1>1, <1>2, <1>3, <1>4, <1>5, <1>6, <1>7, <1>8 DEF Next, Work

\* The invariant behind the theorems for any number of processes: what any
\* process has read, however stale, is within the budget and the replays.
THEOREM Invariance == Spec => []IInv
  <1>1. IInv /\ [Next]_vars => IInv'
    BY TypeStep, SoundStep DEF IInv
  <1>. QED  BY <1>1, InvInit, PTL DEF Spec

\* Every variable keeps its type.
THEOREM TypeCorrect == Spec => []TypeOK
  BY Invariance, PTL DEF IInv

\* For any number of processes: no queued item has spent its budget, ...
THEOREM BudgetKept == Spec => []BudgetLeft
  <1>1. IInv => BudgetLeft
    BY DEF IInv, TableSound, BudgetLeft
  <1>. QED  BY <1>1, Invariance, PTL

\* ... none is given up before max_retries replays, ...
THEOREM PatienceKept == Spec => []NeverGivesUpEarly
  <1>1. IInv => NeverGivesUpEarly
    BY DEF IInv, TypeOK, TableSound, NeverGivesUpEarly
  <1>. QED  BY <1>1, Invariance, PTL

\* ... and none is resolved without an accepted replay.
THEOREM ResolutionJustified == Spec => []ResolvedWasHealed
  <1>1. IInv => ResolvedWasHealed
    BY DEF IInv, TableSound, ResolvedWasHealed
  <1>. QED  BY <1>1, Invariance, PTL

-----------------------------------------------------------------------------
(* A single process, with crashes                                          *)

SoleAgent == \A a, b \in Agents : a = b

InHand(q) == \E a \in Agents : \E s \in hand[a] : s.item = q

\* What the process has read still describes the table, and it has read no
\* item twice.
ReadIsCurrent ==
  \A a \in Agents :
    /\ \A s \in todo[a] \cup hand[a] : /\ status[s.item] = "QUEUED"
                                       /\ wait[s.item] = 0
                                       /\ s.count = retryCount[s.item]
    /\ \A s, t \in todo[a] : s.item = t.item => s = t
    /\ \A s \in hand[a], t \in todo[a] : s.item # t.item
    /\ \A s, t \in hand[a] : s = t

Accounted ==
  \A q \in Items :
    attempts[q] = retryCount[q] + (IF status[q] = "RESOLVED" THEN 1 ELSE 0)
                    + (IF InHand(q) THEN 1 ELSE 0) + lost[q]

HealedClosed ==
  \A q \in healed : lost[q] = 0 =>
    \/ status[q] = "RESOLVED"
    \/ \E a \in Agents : outcome[a] /\ \E s \in hand[a] : s.item = q

SInv == TypeOK /\ ReadIsCurrent /\ Accounted /\ HealedClosed

\* The empty queue satisfies the invariant of a sole process.
LEMMA SoleInit == Init => SInv
  BY InvInit DEF IInv, Init, SInv, ReadIsCurrent, Accounted, HealedClosed, InHand

\* Every action of a sole process keeps its invariant.
LEMMA SoleStep ==
  ASSUME SoleAgent
  PROVE  SInv /\ [Next]_vars => SInv'
  <1>. SUFFICES ASSUME SInv, [Next]_vars PROVE ReadIsCurrent' /\ Accounted' /\ HealedClosed'
    BY TypeStep DEF SInv
  <1>. USE DEF SInv, TypeOK, table, process, history
  <1>1. ASSUME NEW q \in Items, NEW p \in EnqueuedPolicies, Enqueue(q, p)
        PROVE  ReadIsCurrent' /\ Accounted' /\ HealedClosed'
    BY <1>1 DEF Enqueue, ReadIsCurrent, Accounted, HealedClosed, InHand, Snapshot
  <1>2. ASSUME NEW q \in Items, NEW p \in Triage, Reassign(q, p)
        PROVE  ReadIsCurrent' /\ Accounted' /\ HealedClosed'
    BY <1>2 DEF Reassign, ReadIsCurrent, Accounted, HealedClosed, InHand
  <1>3. ASSUME NEW a \in Agents, Fetch(a) PROVE ReadIsCurrent' /\ Accounted' /\ HealedClosed'
    <2>1. \A q \in Fetched : status[q] = "QUEUED" /\ wait[q] = 0
      BY DEF Fetched, IsDue
    <2>2. \A b \in Agents : b = a  BY DEF SoleAgent
    <2>3. ReadIsCurrent'
      BY <1>3, <2>1, <2>2 DEF Fetch, ReadIsCurrent
    <2>. QED  BY <1>3, <2>3 DEF Fetch, Accounted, HealedClosed, InHand
  <1>4. ASSUME NEW a \in Agents, NEW s \in todo[a], NEW success \in BOOLEAN, Replay(a, s, success)
        PROVE  ReadIsCurrent' /\ Accounted' /\ HealedClosed'
    <2>1. s.item \in Items  BY DEF Snapshot
    <2>2. \A b \in Agents : b = a  BY DEF SoleAgent
    <2>3. /\ hand[a] = {} /\ hand'[a] = {s} /\ todo'[a] = todo[a] \ {s}
          /\ outcome'[a] = success
          /\ UNCHANGED <<status, retryCount, wait, lost>>
          /\ attempts' = [attempts EXCEPT ![s.item] = @ + 1]
          /\ healed' = IF success THEN healed \cup {s.item} ELSE healed
      BY <1>4 DEF Replay
    <2>4. ReadIsCurrent'
      BY <2>2, <2>3 DEF ReadIsCurrent
    <2>5. \A q \in Items : ~InHand(q) /\ (InHand(q)' <=> q = s.item)
      BY <2>2, <2>3 DEF InHand
    <2>6. status[s.item] = "QUEUED"
      BY DEF ReadIsCurrent
    <2>7. Accounted'
      BY <2>1, <2>3, <2>5, <2>6 DEF Accounted
    <2>8. HealedClosed'
      BY <2>1, <2>2, <2>3, <2>6 DEF HealedClosed
    <2>. QED  BY <2>4, <2>7, <2>8
  <1>5. ASSUME NEW a \in Agents, NEW s \in hand[a], Mark(a, s)
        PROVE  ReadIsCurrent' /\ Accounted' /\ HealedClosed'
    <2>1. s.item \in Items /\ s.count \in Nat  BY DEF Snapshot
    <2>2. \A b \in Agents : b = a  BY DEF SoleAgent
    <2>3. hand[a] = {s}
      BY DEF ReadIsCurrent
    <2>4. /\ UNCHANGED <<todo, attempts, healed, lost>>
          /\ hand'[a] = {} /\ outcome'[a] = FALSE
      BY <1>5 DEF Mark, MarkResolved, MarkEscalated, MarkRetried, Continue
    <2>5. \A q \in Items \ {s.item} : /\ status'[q] = status[q] /\ wait'[q] = wait[q]
                                      /\ retryCount'[q] = retryCount[q]
      BY <1>5 DEF Mark, MarkResolved, MarkEscalated, MarkRetried
    <2>6. ReadIsCurrent'
      BY <2>2, <2>3, <2>4, <2>5 DEF ReadIsCurrent, Snapshot
    <2>7. /\ status[s.item] = "QUEUED" /\ s.count = retryCount[s.item]
          /\ \A q \in Items : InHand(q) <=> q = s.item
          /\ \A q \in Items : ~InHand(q)'
      BY <2>2, <2>3, <2>4 DEF ReadIsCurrent, InHand
    <2>8. CASE MarkResolved(a, s)
      <3>1. /\ status' = [status EXCEPT ![s.item] = "RESOLVED"]
            /\ retryCount' = retryCount
        BY <2>8 DEF MarkResolved
      <3>2. Accounted'
        BY <2>1, <2>4, <2>7, <3>1 DEF Accounted
      <3>3. HealedClosed'
        BY <2>1, <2>2, <2>3, <2>4, <3>1 DEF HealedClosed
      <3>. QED  BY <2>6, <3>2, <3>3
    <2>9. CASE MarkEscalated(a, s) \/ MarkRetried(a, s)
      <3>1. /\ ~outcome[a]
            /\ retryCount' = [retryCount EXCEPT ![s.item] = s.count + 1]
            /\ status'[s.item] \in {"QUEUED", "ESCALATED"}
        BY <2>1, <2>7, <2>9
           DEF MarkEscalated, MarkRetried, Escalates, Retries, Counted
      <3>2. Accounted'
        BY <2>1, <2>4, <2>5, <2>7, <3>1 DEF Accounted
      <3>3. HealedClosed'
        BY <2>1, <2>2, <2>3, <2>4, <2>5, <2>7, <3>1 DEF HealedClosed
      <3>. QED  BY <2>6, <3>2, <3>3
    <2>. QED  BY <1>5, <2>8, <2>9 DEF Mark
  <1>6. ASSUME NEW a \in Agents, Crash(a) PROVE ReadIsCurrent' /\ Accounted' /\ HealedClosed'
    <2>1. \A b \in Agents : b = a  BY DEF SoleAgent
    <2>2. /\ UNCHANGED <<status, retryCount, wait, attempts, healed>>
          /\ todo'[a] = {} /\ hand'[a] = {}
          /\ \A q \in Items : /\ InHand(q) <=> \E s \in hand[a] : s.item = q
                              /\ ~InHand(q)'
                              /\ lost'[q] = IF InHand(q) THEN lost[q] + 1 ELSE lost[q]
      BY <1>6, <2>1 DEF Crash, InHand
    <2>3. ReadIsCurrent'
      BY <2>1, <2>2 DEF ReadIsCurrent
    <2>4. Accounted'
      <3>. SUFFICES ASSUME NEW q \in Items
                    PROVE  attempts[q] = retryCount[q] + (IF status[q] = "RESOLVED" THEN 1 ELSE 0)
                                           + lost'[q]
        BY <2>2 DEF Accounted
      <3>1. attempts[q] = retryCount[q] + (IF status[q] = "RESOLVED" THEN 1 ELSE 0)
                            + (IF InHand(q) THEN 1 ELSE 0) + lost[q]
        BY DEF Accounted
      <3>2. lost'[q] = lost[q] + (IF InHand(q) THEN 1 ELSE 0)
        BY <2>2
      <3>. QED  BY <3>1, <3>2
    <2>5. HealedClosed'
      BY <2>1, <2>2 DEF HealedClosed, InHand
    <2>. QED  BY <2>3, <2>4, <2>5
  <1>7. CASE Tick
    BY <1>7 DEF Tick, ReadIsCurrent, Accounted, HealedClosed, InHand, Snapshot
  <1>8. CASE UNCHANGED vars
    BY <1>8 DEF vars, ReadIsCurrent, Accounted, HealedClosed, InHand
  <1>. QED  BY <1>1, <1>2, <1>3, <1>4, <1>5, <1>6, <1>7, <1>8 DEF Next, Work

\* The invariant behind the theorems for one process: nothing changes the
\* queue between a fetch and the replays and marks that follow it.
THEOREM SoleInvariance ==
  ASSUME SoleAgent
  PROVE  Spec => []SInv
  <1>1. SInv /\ [Next]_vars => SInv'
    BY SoleStep
  <1>. QED  BY <1>1, SoleInit, PTL DEF Spec

\* One process, any crashes: the table accounts for every replay.
THEOREM ReplaysAccounted ==
  ASSUME SoleAgent
  PROVE  Spec => []AttemptsAccounted
  <1>1. SInv => AttemptsAccounted
    <2>. SUFFICES ASSUME SInv, NEW q \in Items
                  PROVE  attempts[q] = retryCount[q] + (IF status[q] = "RESOLVED" THEN 1 ELSE 0)
                                         + Cardinality(InFlight(q)) + lost[q]
      BY DEF AttemptsAccounted
    <2>1. Cardinality(InFlight(q)) = IF InHand(q) THEN 1 ELSE 0
      <3>1. CASE ~InHand(q)
        <4>1. InFlight(q) = {}  BY <3>1 DEF InFlight, InHand
        <4>. QED  BY <3>1, <4>1, FS_EmptySet
      <3>2. CASE InHand(q)
        <4>1. PICK a \in Agents : \E s \in hand[a] : s.item = q
          BY <3>2 DEF InHand
        <4>2. InFlight(q) = {a}
          BY <4>1 DEF InFlight, SoleAgent
        <4>. QED  BY <3>2, <4>2, FS_Singleton
      <3>. QED  BY <3>1, <3>2
    <2>. QED  BY <2>1 DEF SInv, Accounted
  <1>. QED  BY <1>1, SoleInvariance, PTL

\* One process, any crashes: a healed payload is resolved, unless a crash
\* came between its replay and the UPDATE.
THEOREM HealingKept ==
  ASSUME SoleAgent
  PROVE  Spec => []HealedIsResolved
  <1>1. SInv => HealedIsResolved
    BY DEF SInv, HealedClosed, HealedIsResolved, InFlight
  <1>. QED  BY <1>1, SoleInvariance, PTL

\* One process, any crashes: only queued items whose delay is over are
\* replayed.
THEOREM DueOnly ==
  ASSUME SoleAgent
  PROVE  Spec => OnlyDueReplayed
  <1>. DEFINE Due == \A q \in Items : attempts'[q] # attempts[q] =>
                       status[q] = "QUEUED" /\ wait[q] = 0
  <1>1. SInv /\ [Next]_vars => Due
    <2>. SUFFICES ASSUME SInv, [Next]_vars, NEW q \in Items, attempts'[q] # attempts[q]
                  PROVE  status[q] = "QUEUED" /\ wait[q] = 0
      OBVIOUS
    <2>1. \E a \in Agents : \E s \in todo[a], success \in BOOLEAN : Replay(a, s, success)
      BY DEF Next, Work, vars, table, process, history, Enqueue, Reassign, Fetch, Mark,
             MarkResolved, MarkEscalated, MarkRetried, Crash, Tick
    <2>. PICK a \in Agents : \E s \in todo[a], success \in BOOLEAN : Replay(a, s, success)
      BY <2>1
    <2>. PICK s \in todo[a] : \E success \in BOOLEAN : Replay(a, s, success)
      OBVIOUS
    <2>2. s.item = q
      BY DEF Replay, SInv, TypeOK
    <2>. QED  BY <2>2 DEF SInv, ReadIsCurrent
  <1>. QED  BY <1>1, SoleInvariance, PTL DEF Spec, OnlyDueReplayed

-----------------------------------------------------------------------------
(* A single process implements the abstract retry ledger                   *)

StateOf(q) == CASE status[q] = "ABSENT"   -> "absent"
                [] status[q] = "QUEUED"   -> "open"
                [] status[q] = "RESOLVED" -> "healed"
                [] OTHER                  -> "given up"
StateMap == [q \in Items |-> StateOf(q)]

\* Every step of a sole process maps to a step of the abstract ledger or none.
LEMMA LedgerStep ==
  ASSUME IInv, SInv, [Next]_vars
  PROVE  Ledger!Next \/ UNCHANGED Ledger!ledger
  <1>. USE DEF IInv, TypeOK, table, process
  <1>1. ASSUME NEW q \in Items, NEW p \in EnqueuedPolicies, Enqueue(q, p) PROVE Ledger!Open(q)
    <2>1. StateMap[q] = "absent" /\ StateMap' = [StateMap EXCEPT ![q] = "open"]
      BY <1>1 DEF Enqueue, StateMap, StateOf
    <2>2. retryCount' = retryCount
      BY <1>1 DEF Enqueue
    <2>. QED  BY <2>1, <2>2 DEF Ledger!Open, StateMap, StateOf
  <1>2. ASSUME UNCHANGED <<status, retryCount>> PROVE UNCHANGED Ledger!ledger
    BY <1>2 DEF Ledger!ledger
  <1>3. ASSUME NEW a \in Agents, NEW s \in hand[a], Mark(a, s) PROVE Ledger!Next
    <2>. DEFINE q == s.item
    <2>1. /\ q \in Items /\ status[q] = "QUEUED" /\ s.count = retryCount[q]
          /\ retryCount[q] \in Nat /\ retryCount[q] < MaxRetries /\ MaxRetries \in Nat
      BY ConstantsAssumption DEF SInv, ReadIsCurrent, TableSound, Snapshot
    <2>. HIDE DEF q
    <2>2. StateMap[q] = "open"
      BY <2>1 DEF StateMap, StateOf
    <2>3. CASE MarkResolved(a, s)
      <3>1. StateMap' = [StateMap EXCEPT ![q] = "healed"] /\ retryCount' = retryCount
        BY <2>1, <2>3 DEF MarkResolved, StateMap, StateOf, q
      <3>2. Ledger!Heal(q)
        BY <2>2, <3>1 DEF Ledger!Heal, StateMap, StateOf
      <3>. QED  BY <2>1, <3>2 DEF Ledger!Next
    <2>4. CASE MarkEscalated(a, s)
      <3>1. /\ StateMap' = [StateMap EXCEPT ![q] = "given up"]
            /\ retryCount' = [retryCount EXCEPT ![q] = retryCount[q] + 1]
            /\ retryCount[q] + 1 = MaxRetries
        <4>1. /\ status' = [status EXCEPT ![q] = "ESCALATED"]
              /\ retryCount' = [retryCount EXCEPT ![q] = retryCount[q] + 1]
          BY <2>1, <2>4 DEF MarkEscalated, Counted, q
        <4>2. retryCount[q] + 1 = MaxRetries
          BY <2>1, <2>4 DEF MarkEscalated, Escalates, SpendsBudget, q
        <4>3. StateMap' = [StateMap EXCEPT ![q] = "given up"]
          BY <2>1, <4>1 DEF StateMap, StateOf
        <4>. QED  BY <4>1, <4>2, <4>3
      <3>2. Ledger!GiveUp(q)
        BY <2>2, <3>1 DEF Ledger!GiveUp, StateMap, StateOf
      <3>. QED  BY <2>1, <3>2 DEF Ledger!Next
    <2>5. CASE MarkRetried(a, s)
      <3>1. /\ status' = status
            /\ retryCount' = [retryCount EXCEPT ![q] = retryCount[q] + 1]
            /\ retryCount[q] + 1 < MaxRetries
        BY <2>1, <2>5 DEF MarkRetried, Retries, SpendsBudget, Counted, q
      <3>2. Ledger!Fail(q)
        BY <2>2, <3>1 DEF Ledger!Fail, StateMap, StateOf
      <3>. QED  BY <2>1, <3>2 DEF Ledger!Next
    <2>. QED  BY <1>3, <2>3, <2>4, <2>5 DEF Mark
  <1>4. ASSUME NEW a \in Agents, Fetch(a) \/ Crash(a) PROVE UNCHANGED <<status, retryCount>>
    BY <1>4 DEF Fetch, Crash
  <1>5. ASSUME NEW a \in Agents, NEW s \in todo[a], NEW success \in BOOLEAN, Replay(a, s, success)
        PROVE  UNCHANGED <<status, retryCount>>
    BY <1>5 DEF Replay
  <1>6. ASSUME NEW q \in Items, NEW p \in Triage, Reassign(q, p)
        PROVE  UNCHANGED <<status, retryCount>>
    BY <1>6 DEF Reassign
  <1>7. CASE Tick \/ UNCHANGED vars
    BY <1>2, <1>7 DEF Tick, vars
  <1>. QED  BY <1>1, <1>2, <1>3, <1>4, <1>5, <1>6, <1>7 DEF Next, Work, Ledger!Next

\* One process, any crashes: tries are recorded one by one up to the budget,
\* and an item that is resolved or escalated never changes again.
THEOREM Implementation ==
  ASSUME SoleAgent
  PROVE  Spec => ImplementsLedger
  <1>1. Init => Ledger!Init
    BY DEF Init, Ledger!Init
  <1>2. IInv /\ SInv /\ [Next]_vars => [Ledger!Next]_(Ledger!ledger)
    BY LedgerStep
  <1>. QED  BY <1>1, <1>2, Invariance, SoleInvariance, PTL DEF Spec, ImplementsLedger, Ledger!Spec

=============================================================================
