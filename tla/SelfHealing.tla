---------------------------- MODULE SelfHealing -----------------------------
(***************************************************************************)
(* The self-healing queue and the processes that run SelfHealingAgent.run  *)
(* over it.  A run reads the due items once, without a lock and without    *)
(* marking them, and then replays and marks them one by one from what it   *)
(* read.  Each action is one database statement or one replay; runs of     *)
(* different processes interleave, and a process may die anywhere.         *)
(***************************************************************************)
EXTENDS Naturals, FiniteSets

CONSTANTS
  Agents,     \* processes that may execute SelfHealingAgent.run
  Items,      \* queue_ids, each with its own payload
  MaxRetries, \* self_healing_queue.max_retries
  MaxItems,   \* the LIMIT of fetch_due_items
  Triage,     \* the policies an operator may reassign a queued item to
  MaxCrashes  \* bound on the processes that die (or whose UPDATE fails)

Waiting   == {"IMMEDIATE_RETRY", "DELAYED_RETRY", "DEPENDENCY_RETRY"}
Withdrawn == {"MANUAL_REVIEW", "PERMANENT_REJECTION"}
Policies  == Waiting \cup Withdrawn

ASSUME ConstantsAssumption ==
  /\ MaxRetries \in Nat \ {0}
  /\ MaxItems \in Nat \ {0}
  /\ MaxCrashes \in Nat
  /\ IsFiniteSet(Items)
  /\ Triage \subseteq Policies

VARIABLES
  \* metadata.self_healing_queue
  status, retryCount, policy,
  wait,     \* ticks of 300 s until next_retry_at; 0 when NULL or past
  older,    \* <<p, q>> when p.updated_at is before q.updated_at
  \* the processes
  todo,     \* the items read by fetch_due_items and still to be replayed
  hand,     \* the item replayed and still to be marked, if any
  outcome,  \* what reprocess_fn answered for the item in hand
  \* history, read by no action but Crash's bound
  attempts, \* calls of reprocess_fn per item
  healed,   \* items for which it has answered True
  lost,     \* calls per item whose answer was never written back
  crashes

table   == <<status, retryCount, policy, wait, older>>
process == <<todo, hand, outcome>>
history == <<attempts, healed, lost, crashes>>
vars    == <<table, process, history>>

Snapshot == [item : Items, count : Nat, policy : Policies, rank : Nat]

-----------------------------------------------------------------------------
\* RETRY_DELAYS_SECONDS in ticks of 300 s, with get's default.
Delay(p) == CASE p = "IMMEDIATE_RETRY"  -> 0
              [] p = "DEPENDENCY_RETRY" -> 3
              [] OTHER                  -> 1

Present == {q \in Items : status[q] # "ABSENT"}

\* updated_at = now(): the item becomes the youngest.
Touch(q) ==
  {pair \in older : q \notin {pair[1], pair[2]}} \cup ((Present \ {q}) \X {q})

\* Mutant: next_retry_at is not looked at.
IsDueEarly(q) == status[q] = "QUEUED" /\ policy[q] \notin Withdrawn

IsDue(q) ==
  /\ status[q] = "QUEUED"
  /\ wait[q] = 0
  /\ policy[q] \notin Withdrawn

\* Position of an item in ORDER BY updated_at over the due items.
Rank(q) == Cardinality({p \in Items : IsDue(p) /\ <<p, q>> \in older}) + 1

\* Mutant: the LIMIT is off by one.
FetchedBelow == {q \in Items : IsDue(q) /\ Rank(q) < MaxItems}

Fetched == {q \in Items : IsDue(q) /\ Rank(q) <= MaxItems}

\* The loop follows the order of the rows read.
IsNext(a, s) == s \in todo[a] /\ \A t \in todo[a] : s.rank <= t.rank

-----------------------------------------------------------------------------
Init ==
  /\ status     = [q \in Items |-> "ABSENT"]
  /\ retryCount = [q \in Items |-> 0]
  /\ policy     = [q \in Items |-> "DELAYED_RETRY"]
  /\ wait       = [q \in Items |-> 0]
  /\ older      = {}
  /\ todo       = [a \in Agents |-> {}]
  /\ hand       = [a \in Agents |-> {}]
  /\ outcome    = [a \in Agents |-> FALSE]
  /\ attempts   = [q \in Items |-> 0]
  /\ healed     = {}
  /\ lost       = [q \in Items |-> 0]
  /\ crashes    = 0

\* Mutant: the category is stored where the policy belongs.
EnqueuedCategories == {"LOOKUP", "TRANSFORMATION", "LOAD"}

EnqueuedPolicies == {"IMMEDIATE_RETRY", "DELAYED_RETRY"}

\* ErrorHandler._enqueue_self_healing: next_retry_at is left NULL.
Enqueue(q, p) ==
  /\ status[q] = "ABSENT"
  /\ status' = [status EXCEPT ![q] = "QUEUED"]
  /\ policy' = [policy EXCEPT ![q] = p]
  /\ older'  = Touch(q)
  /\ UNCHANGED <<retryCount, wait, process, history>>

\* External: an operator changes the policy of a queued item.
Reassign(q, p) ==
  /\ status[q] = "QUEUED"
  /\ p # policy[q]
  /\ policy' = [policy EXCEPT ![q] = p]
  /\ UNCHANGED <<status, retryCount, wait, older, process, history>>

\* fetch_due_items of a process that finds something to do.
Fetch(a) ==
  /\ todo[a] = {} /\ hand[a] = {}
  /\ Fetched # {}
  /\ todo' = [todo EXCEPT ![a] =
                {[item |-> q, count |-> retryCount[q], policy |-> policy[q], rank |-> Rank(q)]
                   : q \in Fetched}]
  /\ UNCHANGED <<table, hand, outcome, history>>

\* reprocess_fn answers True or False; an exception counts as False.
Replay(a, s, success) ==
  /\ hand[a] = {}
  /\ IsNext(a, s)
  /\ todo'     = [todo EXCEPT ![a] = @ \ {s}]
  /\ hand'     = [hand EXCEPT ![a] = {s}]
  /\ outcome'  = [outcome EXCEPT ![a] = success]
  /\ attempts' = [attempts EXCEPT ![s.item] = @ + 1]
  /\ healed'   = IF success THEN healed \cup {s.item} ELSE healed
  /\ UNCHANGED <<table, lost, crashes>>

\* run goes on to the next item it read, or returns.
Continue(a) ==
  /\ hand'    = [hand EXCEPT ![a] = {}]
  /\ outcome' = [outcome EXCEPT ![a] = FALSE]
  /\ UNCHANGED todo

\* Mutants of the escalation test: one try too few, one too many.
SpendsBudgetEarly(s) == s.count + 2 >= MaxRetries
SpendsBudgetLate(s)  == s.count >= MaxRetries

SpendsBudget(s) == s.count + 1 >= MaxRetries

\* Mutants: any answer resolves; the budget is tested before the answer.
ResolvesAlways(a)    == TRUE
EscalatesFirst(a, s) == SpendsBudget(s)

Resolves(a)     == outcome[a]
Escalates(a, s) == ~outcome[a] /\ SpendsBudget(s)
Retries(a, s)   == ~outcome[a] /\ ~SpendsBudget(s)

\* Mutant: the count is left as it was.
CountedNever(s) == s.count

Counted(s) == s.count + 1

\* mark_result, unconditional on what the row holds by now.
MarkResolved(a, s) ==
  /\ s \in hand[a]
  /\ Resolves(a)
  /\ status' = [status EXCEPT ![s.item] = "RESOLVED"]
  /\ older'  = Touch(s.item)
  /\ Continue(a)
  /\ UNCHANGED <<retryCount, policy, wait, history>>

MarkEscalated(a, s) ==
  /\ s \in hand[a]
  /\ Escalates(a, s)
  /\ status'     = [status EXCEPT ![s.item] = "ESCALATED"]
  /\ retryCount' = [retryCount EXCEPT ![s.item] = Counted(s)]
  /\ older'      = Touch(s.item)
  /\ Continue(a)
  /\ UNCHANGED <<policy, wait, history>>

MarkRetried(a, s) ==
  /\ s \in hand[a]
  /\ Retries(a, s)
  /\ retryCount' = [retryCount EXCEPT ![s.item] = Counted(s)]
  /\ wait'       = [wait EXCEPT ![s.item] = Delay(s.policy)]
  /\ older'      = Touch(s.item)
  /\ Continue(a)
  /\ UNCHANGED <<status, policy, history>>

\* The process dies, or mark_result's transaction fails and the exception
\* ends the run: what it had read is dropped, an answer in hand is lost.
Crash(a) ==
  /\ crashes < MaxCrashes
  /\ todo[a] \cup hand[a] # {}
  /\ todo'    = [todo EXCEPT ![a] = {}]
  /\ hand'    = [hand EXCEPT ![a] = {}]
  /\ outcome' = [outcome EXCEPT ![a] = FALSE]
  /\ crashes' = crashes + 1
  /\ lost'    = [q \in Items |-> IF \E s \in hand[a] : s.item = q THEN lost[q] + 1 ELSE lost[q]]
  /\ UNCHANGED <<table, attempts, healed>>

\* 300 s pass.
Tick ==
  /\ \E q \in Items : wait[q] > 0
  /\ wait' = [q \in Items |-> IF wait[q] > 0 THEN wait[q] - 1 ELSE 0]
  /\ UNCHANGED <<status, retryCount, policy, older, process, history>>

Mark(a, s) == MarkResolved(a, s) \/ MarkEscalated(a, s) \/ MarkRetried(a, s)

Work(a) ==
  \/ Fetch(a)
  \/ \E s \in todo[a], success \in BOOLEAN : Replay(a, s, success)
  \/ \E s \in hand[a] : Mark(a, s)

Next ==
  \/ \E q \in Items, p \in EnqueuedPolicies : Enqueue(q, p)
  \/ \E q \in Items, p \in Triage : Reassign(q, p)
  \/ \E a \in Agents : Work(a) \/ Crash(a)
  \/ Tick

Spec == Init /\ [][Next]_vars

\* Time passes, and somebody keeps calling run as the queue's design expects.
FairSpec == Spec /\ WF_vars(Tick) /\ \A a \in Agents : WF_vars(Work(a))

-----------------------------------------------------------------------------
(* What the queue is expected to guarantee                                 *)

\* Every variable keeps to the values the code can give it.
TypeOK ==
  /\ status     \in [Items -> {"ABSENT", "QUEUED", "RESOLVED", "ESCALATED"}]
  /\ retryCount \in [Items -> Nat]
  /\ policy     \in [Items -> Policies]
  /\ wait       \in [Items -> Nat]
  /\ older      \subseteq Items \X Items
  /\ todo       \in [Agents -> SUBSET Snapshot]
  /\ hand       \in [Agents -> SUBSET Snapshot]
  /\ outcome    \in [Agents -> BOOLEAN]
  /\ attempts   \in [Items -> Nat]
  /\ healed     \subseteq Items
  /\ lost       \in [Items -> Nat]
  /\ crashes    \in Nat

\* Calls of reprocess_fn for q whose answer is still to be written back.
InFlight(q) == {a \in Agents : \E s \in hand[a] : s.item = q}

\* No queued item has used up its budget: it is escalated in the same
\* transaction that records its last failure, however stale the reader.
BudgetLeft == \A q \in Items : status[q] = "QUEUED" => retryCount[q] < MaxRetries

\* No payload is given up early: retry_count never runs ahead of the replays
\* made, and an escalated item has been replayed at least max_retries times.
\* Lost updates of retry_count between processes only ever cost extra tries.
NeverGivesUpEarly ==
  \A q \in Items : /\ attempts[q] >= retryCount[q]
                   /\ status[q] = "ESCALATED" => attempts[q] >= MaxRetries

\* An item is RESOLVED only if reprocess_fn has accepted its payload.
ResolvedWasHealed == \A q \in Items : status[q] = "RESOLVED" => q \in healed

\* With one process, the table accounts for every replay: those it counts,
\* the one that resolved the item, the one in flight, and those a crash
\* between replay and UPDATE has lost.
AttemptsAccounted ==
  \A q \in Items :
    attempts[q] = retryCount[q] + (IF status[q] = "RESOLVED" THEN 1 ELSE 0)
                    + Cardinality(InFlight(q)) + lost[q]

\* With one process, a payload that was healed is never given up and never
\* left to be replayed, unless a crash lost the answer.
HealedIsResolved ==
  \A q \in healed : lost[q] = 0 => status[q] = "RESOLVED" \/ InFlight(q) # {}

\* A replay is only ever made of an item that is still queued and has its
\* delay behind it, at the moment of the replay and not only when the item
\* was read: run "drains due items and retries only those payloads".
OnlyDueReplayed ==
  [][\A q \in Items : attempts'[q] # attempts[q] =>
       status[q] = "QUEUED" /\ wait[q] = 0]_vars

\* As long as the queue is being drained, every queued item is resolved,
\* escalated or withdrawn: no item starves behind the LIMIT, and neither
\* lost updates nor regressions of retry_count keep one in the queue.
Drained ==
  \A q \in Items :
    status[q] = "QUEUED" ~> (status[q] \in {"RESOLVED", "ESCALATED"} \/ policy[q] \in Withdrawn)

Ledger == INSTANCE RetryLedger WITH
  Budget <- MaxRetries,
  tries  <- retryCount,
  state  <- [q \in Items |-> CASE status[q] = "ABSENT"    -> "absent"
                               [] status[q] = "QUEUED"    -> "open"
                               [] status[q] = "RESOLVED"  -> "healed"
                               [] OTHER                   -> "given up"]

\* With one process the queue implements the abstract retry ledger: tries
\* are counted one by one and a closed item never changes again.
ImplementsLedger == Ledger!Spec

=============================================================================
