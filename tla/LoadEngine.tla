----------------------------- MODULE LoadEngine ------------------------------
(***************************************************************************)
(* LoadEngine.load on one target table, by several runs of the pipeline at *)
(* once.  A load is one transaction that writes its records one by one, in *)
(* PostgreSQL's READ COMMITTED isolation: each statement sees what was     *)
(* committed when it began and what its own transaction wrote, a row that  *)
(* another open transaction has changed is waited for, and after the wait  *)
(* the WHERE clause is evaluated again on the row's newest version.        *)
(*                                                                         *)
(* A row version is named by the record that wrote it, <<load, index>>;    *)
(* its values are left out.  Nothing is copied on commit or rollback: who  *)
(* wrote and who expired a version, and how those transactions ended, say  *)
(* whether it is in force.                                                 *)
(***************************************************************************)
EXTENDS Naturals, Sequences, FiniteSets

CONSTANTS
  Loads,     \* calls of LoadEngine.load
  Keys,      \* values of the business key
  Batch,     \* Batch[l]: the business keys of the records of l, in order
  LoadTypes  \* the load types the table may be configured for

\* MERGE and SCD1 run the code of UPSERT.
Supported == {"APPEND", "UPSERT", "SCD2"}

ASSUME ConstantsAssumption ==
  /\ IsFiniteSet(Loads)
  /\ Batch \in [Loads -> Seq(Keys)]
  /\ LoadTypes \subseteq Supported

VARIABLES
  loadType,  \* load_config.load_type of the table
  phase,     \* of the transaction of each load
  began,     \* its now(): its rank among the transactions that have begun
  pos,       \* records it has written
  found,     \* row versions its UPDATE has found and not yet expired
  updating,  \* whether it is inside the UPDATE of its next record
  expired,   \* <<v, l>>: l has set the expiry of version v
  met        \* history: <<l, m>> were open at the same time

vars == <<loadType, phase, began, pos, found, updating, expired, met>>

Versions == Loads \X (Nat \ {0})

KeyOf(v)      == Batch[v[1]][v[2]]
Open(l)       == phase[l] = "open"
Committed(l)  == phase[l] = "committed"
Written(l)    == {l} \X (1 .. pos[l])
AllWritten    == UNION {Written(l) : l \in Loads}

\* Writing of the next record.
HasNext(l) == Open(l) /\ pos[l] < Len(Batch[l])
NextKey(l) == Batch[l][pos[l] + 1]

Ended(v) == \E l \in Loads : Committed(l) /\ <<v, l>> \in expired

\* What a statement of l sees as rows in force.
SeesCurrent(l, v) ==
  /\ Committed(v[1]) \/ v[1] = l
  /\ ~Ended(v)
  /\ <<v, l>> \notin expired

-----------------------------------------------------------------------------
Init ==
  /\ loadType \in LoadTypes
  /\ phase    = [l \in Loads |-> "idle"]
  /\ began    = [l \in Loads |-> 0]
  /\ pos      = [l \in Loads |-> 0]
  /\ found    = [l \in Loads |-> {}]
  /\ updating = [l \in Loads |-> FALSE]
  /\ expired  = {}
  /\ met      = {}

Begin(l) ==
  /\ phase[l] = "idle"
  /\ phase' = [phase EXCEPT ![l] = "open"]
  /\ began' = [began EXCEPT ![l] = Cardinality({m \in Loads : began[m] # 0}) + 1]
  /\ met'   = met \cup UNION {{<<l, m>>, <<m, l>>} : m \in {n \in Loads : Open(n)}}
  /\ UNCHANGED <<loadType, pos, found, updating, expired>>

AppendRecord(l) ==
  /\ loadType = "APPEND"
  /\ HasNext(l)
  /\ pos' = [pos EXCEPT ![l] = @ + 1]
  /\ UNCHANGED <<loadType, phase, began, found, updating, expired, met>>

\* External: the unique index holds others off a key with uncommitted rows.
LocksKey(m, k) == Open(m) /\ \E v \in Written(m) : KeyOf(v) = k

\* Mutant: INSERT without ON CONFLICT.
UpsertInserts(l) ==
  /\ loadType = "UPSERT"
  /\ HasNext(l)
  /\ pos' = [pos EXCEPT ![l] = @ + 1]
  /\ UNCHANGED <<loadType, phase, began, found, updating, expired, met>>

\* INSERT ... ON CONFLICT DO UPDATE.
Upsert(l) ==
  /\ loadType = "UPSERT"
  /\ HasNext(l)
  /\ \A m \in Loads \ {l} : ~LocksKey(m, NextKey(l))
  /\ expired' = expired \cup
       {<<v, l>> : v \in {w \in AllWritten : KeyOf(w) = NextKey(l) /\ SeesCurrent(l, w)}}
  /\ pos' = [pos EXCEPT ![l] = @ + 1]
  /\ UNCHANGED <<loadType, phase, began, found, updating, met>>

\* Mutants of the UPDATE: it runs outside the transaction and does not see
\* its rows; rows are named by their key.
MatchesCommitted(l) ==
  {v \in AllWritten : Committed(v[1]) /\ KeyOf(v) = NextKey(l) /\ ~Ended(v)}
MatchesByKey(l) == {NextKey(l)}

Matches(l) ==
  {v \in AllWritten : KeyOf(v) = NextKey(l) /\ SeesCurrent(l, v)}

FindCurrent(l) ==
  /\ loadType = "SCD2"
  /\ HasNext(l)
  /\ ~updating[l]
  /\ found'    = [found EXCEPT ![l] = Matches(l)]
  /\ updating' = [updating EXCEPT ![l] = TRUE]
  /\ UNCHANGED <<loadType, phase, began, pos, expired, met>>

\* Mutant: the WHERE does not look at the current flag.
MatchesEver(v) == TRUE

\* External: the WHERE on the row's newest version, once its lock is free.
StillMatches(v) == ~Ended(v)

RowLocked(l, v) == \E m \in Loads \ {l} : Open(m) /\ <<v, m>> \in expired

ExpireRow(l, v) ==
  /\ v \in found[l]
  /\ ~RowLocked(l, v)
  /\ StillMatches(v)
  /\ found'   = [found EXCEPT ![l] = @ \ {v}]
  /\ expired' = expired \cup {<<v, l>>}
  /\ UNCHANGED <<loadType, phase, began, pos, updating, met>>

\* Another load has expired the row in the meantime.
PassRow(l, v) ==
  /\ v \in found[l]
  /\ ~RowLocked(l, v)
  /\ ~StillMatches(v)
  /\ found' = [found EXCEPT ![l] = @ \ {v}]
  /\ UNCHANGED <<loadType, phase, began, pos, updating, expired, met>>

InsertVersion(l) ==
  /\ HasNext(l)
  /\ updating[l]
  /\ found[l] = {}
  /\ pos'      = [pos EXCEPT ![l] = @ + 1]
  /\ updating' = [updating EXCEPT ![l] = FALSE]
  /\ UNCHANGED <<loadType, phase, began, found, expired, met>>

\* Mutant: without the with block a failed transaction is left as it is.
ClosesIfDone(l, how) ==
  /\ phase'    = [phase EXCEPT ![l] = IF how = "aborted" THEN @ ELSE how]
  /\ found'    = [found EXCEPT ![l] = {}]
  /\ updating' = [updating EXCEPT ![l] = FALSE]
  /\ UNCHANGED <<loadType, began, pos, expired, met>>

Close(l, how) ==
  /\ phase'    = [phase EXCEPT ![l] = how]
  /\ found'    = [found EXCEPT ![l] = {}]
  /\ updating' = [updating EXCEPT ![l] = FALSE]
  /\ UNCHANGED <<loadType, began, pos, expired, met>>

\* Mutant: a transaction for each record instead of one for the batch.
WroteOne(l) == pos[l] > 0

WroteAll(l) == pos[l] = Len(Batch[l])

Commit(l) ==
  /\ Open(l)
  /\ WroteAll(l)
  /\ Close(l, "committed")

\* A record is refused, the connection is lost or the process dies: the
\* transaction is rolled back.
Fail(l) ==
  /\ Open(l)
  /\ Close(l, "aborted")

\* l waits for m: for a key m has written or a row m has expired.
WaitsFor(l, m) ==
  /\ m # l /\ Open(m) /\ HasNext(l)
  /\ \/ loadType = "UPSERT" /\ LocksKey(m, NextKey(l))
     \/ \E v \in found[l] : <<v, m>> \in expired

Circle(S)     == S # {} /\ \A l \in S : \E m \in S : WaitsFor(l, m)
Deadlocked(l) == \E S \in SUBSET Loads :
                   l \in S /\ Circle(S) /\ \A T \in SUBSET S : Circle(T) => T = S

\* External: PostgreSQL aborts one transaction of a circle of waits.
BreakDeadlock(l) ==
  /\ Deadlocked(l)
  /\ Close(l, "aborted")

Write(l) ==
  \/ AppendRecord(l)
  \/ Upsert(l)
  \/ FindCurrent(l)
  \/ \E v \in found[l] : ExpireRow(l, v) \/ PassRow(l, v)
  \/ InsertVersion(l)
  \/ Commit(l)

Next ==
  \E l \in Loads : Begin(l) \/ Write(l) \/ Fail(l) \/ BreakDeadlock(l)

Spec == Init /\ [][Next]_vars

\* A load is sequential code, and PostgreSQL looks for deadlocks.
FairSpec == /\ Spec
            /\ \A l \in Loads : WF_vars(Write(l)) /\ WF_vars(BreakDeadlock(l))

-----------------------------------------------------------------------------
(* What a load is expected to guarantee                                    *)

\* Every variable keeps to the values the code can give it.
TypeOK ==
  /\ loadType \in Supported
  /\ phase    \in [Loads -> {"idle", "open", "committed", "aborted"}]
  /\ began    \in [Loads -> Nat]
  /\ pos      \in [Loads -> Nat]
  /\ found    \in [Loads -> SUBSET Versions]
  /\ updating \in [Loads -> BOOLEAN]
  /\ expired  \subseteq Versions \X Loads
  /\ met      \subseteq Loads \X Loads

Stored(k)  == {v \in AllWritten : Committed(v[1]) /\ KeyOf(v) = k}
InForce(k) == {v \in Stored(k) : ~Ended(v)}

\* No two loads that wrote the key were open at the same time.
Serial(k) == \A v, w \in Stored(k) : <<v[1], w[1]>> \notin met

\* A closed version is closed once and for all: of the loads that ever set
\* its expiry at most one has committed, however many loads found it current.
ClosedOnce ==
  \A v \in AllWritten : \A l, m \in Loads :
    (/\ Committed(l) /\ <<v, l>> \in expired
     /\ Committed(m) /\ <<v, m>> \in expired) => l = m

\* The history of a key whose loads never overlapped has no gap, no overlap
\* and no second current row: one version is in force, and every other one
\* ends when the next one starts (its expiry, the now() of the load that
\* closed it, comes before no later version's start).
SerialHistory ==
  loadType # "APPEND" => \A k \in Keys : Serial(k) /\ Stored(k) # {} =>
    /\ Cardinality(InForce(k)) = 1
    /\ \A v \in Stored(k), l \in Loads : Committed(l) /\ <<v, l>> \in expired =>
         /\ began[v[1]] <= began[l]
         /\ \A w \in Stored(k) : began[w[1]] <= began[v[1]] \/ began[w[1]] >= began[l]

\* A key that has been loaded keeps a row in force, whatever loads overlap,
\* wait for each other or are rolled back between the UPDATE that expires its
\* row and the INSERT of the next one; and an upsert leaves exactly one.
LoadedKeyInForce ==
  loadType # "APPEND" => \A k \in Keys : Stored(k) # {} =>
    /\ InForce(k) # {}
    /\ loadType = "UPSERT" => Cardinality(InForce(k)) = 1

\* Every load that was begun commits or is rolled back: loads that meet on
\* the same keys in different orders do not block each other for ever.
EveryLoadEnds == \A l \in Loads : Open(l) ~> (Committed(l) \/ phase[l] = "aborted")

\* What a transaction's end makes of the load, and the rows in force.
Effect == [idle |-> "waiting", open |-> "open", committed |-> "applied", aborted |-> "dropped"]
InForceRows == {v \in AllWritten : Committed(v[1]) /\ ~Ended(v)}

Table == INSTANCE TargetTable WITH
  mode    <- loadType,
  state   <- [l \in Loads |-> Effect[phase[l]]],
  inForce <- InForceRows

\* Seen through the rows in force, a load happens at its commit and at once:
\* two upserts of the same keys never end with some keys of one and some of
\* the other, and an SCD2 load leaves at most concurrent loads' rows beside
\* its own.
ImplementsTable == Table!Spec

-----------------------------------------------------------------------------
(* What the comments of the code say, and the code does not do             *)

\* load_engine.py: "Expire the current row for this business key, if one
\* exists": there is one current row at most.
OneCurrentRow == loadType = "SCD2" => \A k \in Keys : Cardinality(InForce(k)) <= 1

=============================================================================
