------------------------- MODULE MCHealingPipeline --------------------------
(***************************************************************************)
(* One run over one document with a row that breaks a rule, a lookup       *)
(* failure, a transformation failure and a valid row, and two healing      *)
(* processes: one item can wait behind the LIMIT, or in a list just read,  *)
(* while the other is retried, both can be replayed before the run has     *)
(* loaded the valid row, and the first row never reaches the queue.        *)
(***************************************************************************)
EXTENDS HealingPipeline

CONSTANTS j1, a1, a2

row(fate, hint) == [fate |-> fate, hint |-> hint]

ThreeFailures ==
  << [schemaOk |-> TRUE, drift |-> FALSE, recordable |-> TRUE,
      rows |-> << row("rejected", "VALIDATION"), row("rejected", "LOOKUP"),
                  row("rejected", "TRANSFORMATION"), row("clean", "UNKNOWN") >>] >>

OneBatch   == {ThreeFailures}
QueueItems == {j1} \X {1} \X {1, 2, 3}

=============================================================================
