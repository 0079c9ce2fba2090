----------------------------- MODULE RetryLedger -----------------------------
(***************************************************************************)
(* What the self-healing queue promises of an item: an open item has had   *)
(* fewer failed tries than its budget; every recorded try adds one, the    *)
(* last one of the budget gives the item up, a successful one heals it;    *)
(* and an item that is healed or given up never changes again.             *)
(***************************************************************************)
EXTENDS Naturals

CONSTANTS Items, Budget

VARIABLES state, tries

ledger == <<state, tries>>

Init ==
  /\ state = [q \in Items |-> "absent"]
  /\ tries = [q \in Items |-> 0]

Open(q) ==
  /\ state[q] = "absent"
  /\ state' = [state EXCEPT ![q] = "open"]
  /\ UNCHANGED tries

Fail(q) ==
  /\ state[q] = "open"
  /\ tries[q] + 1 < Budget
  /\ tries' = [tries EXCEPT ![q] = @ + 1]
  /\ UNCHANGED state

GiveUp(q) ==
  /\ state[q] = "open"
  /\ tries[q] + 1 = Budget
  /\ state' = [state EXCEPT ![q] = "given up"]
  /\ tries' = [tries EXCEPT ![q] = @ + 1]

Heal(q) ==
  /\ state[q] = "open"
  /\ state' = [state EXCEPT ![q] = "healed"]
  /\ UNCHANGED tries

Next == \E q \in Items : Open(q) \/ Fail(q) \/ GiveUp(q) \/ Heal(q)

Spec == Init /\ [][Next]_ledger

=============================================================================
