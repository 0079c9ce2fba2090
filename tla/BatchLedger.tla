----------------------------- MODULE BatchLedger -----------------------------
(***************************************************************************)
(* What a batch promises, whatever order run_batch works in: the items of  *)
(* a batch are split for good when it opens into those to divert to the    *)
(* error repository and those to deliver to the target; every diversion is *)
(* on record before anything is delivered; delivery is all or nothing; and *)
(* a verdict is given only over a batch whose every item is settled.  A    *)
(* batch may be abandoned at any time, and then never gets a verdict.      *)
(***************************************************************************)
CONSTANTS Jobs, Items

VARIABLES phase, toDivert, toDeliver, diverted, delivered, verdict

ledger == <<phase, toDivert, toDeliver, diverted, delivered, verdict>>

Init ==
  /\ phase     = [j \in Jobs |-> "unopened"]
  /\ toDivert  = [j \in Jobs |-> {}]
  /\ toDeliver = [j \in Jobs |-> {}]
  /\ diverted  = [j \in Jobs |-> {}]
  /\ delivered = [j \in Jobs |-> {}]
  /\ verdict   = [j \in Jobs |-> "pending"]

Open(j) ==
  /\ phase[j] = "unopened"
  /\ phase'     = [phase EXCEPT ![j] = "open"]
  /\ toDivert'  = [toDivert EXCEPT ![j] = toDivert'[j]]
  /\ toDeliver' = [toDeliver EXCEPT ![j] = toDeliver'[j]]
  /\ toDivert'[j] \subseteq Items
  /\ toDeliver'[j] \subseteq Items \ toDivert'[j]
  /\ UNCHANGED <<diverted, delivered, verdict>>

Divert(j) ==
  /\ phase[j] = "open"
  /\ delivered[j] = {}
  /\ \E item \in toDivert[j] \ diverted[j] :
       diverted' = [diverted EXCEPT ![j] = @ \cup {item}]
  /\ UNCHANGED <<phase, toDivert, toDeliver, delivered, verdict>>

Deliver(j) ==
  /\ phase[j] = "open"
  /\ diverted[j] = toDivert[j]
  /\ delivered[j] = {}
  /\ delivered' = [delivered EXCEPT ![j] = toDeliver[j]]
  /\ UNCHANGED <<phase, toDivert, toDeliver, diverted, verdict>>

Close(j) ==
  /\ phase[j] = "open"
  /\ diverted[j] = toDivert[j]
  /\ delivered[j] = toDeliver[j]
  /\ phase'   = [phase EXCEPT ![j] = "closed"]
  /\ \E v \in IF toDivert[j] = {} THEN {"SUCCESS"} ELSE {"FAILED", "PARTIAL_SUCCESS"} :
       verdict' = [verdict EXCEPT ![j] = v]
  /\ UNCHANGED <<toDivert, toDeliver, diverted, delivered>>

Abandon(j) ==
  /\ phase[j] = "open"
  /\ phase' = [phase EXCEPT ![j] = "abandoned"]
  /\ UNCHANGED <<toDivert, toDeliver, diverted, delivered, verdict>>

Next == \E j \in Jobs : Open(j) \/ Divert(j) \/ Deliver(j) \/ Close(j) \/ Abandon(j)

Spec == Init /\ [][Next]_ledger

=============================================================================
