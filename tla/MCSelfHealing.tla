--------------------------- MODULE MCSelfHealing ----------------------------
(***************************************************************************)
(* Small instances of SelfHealing: two items, so that one can wait behind  *)
(* the LIMIT, or in the list just read, while the other is retried.        *)
(***************************************************************************)
EXTENDS SelfHealing

CONSTANTS a1, a2, q1, q2

=============================================================================
