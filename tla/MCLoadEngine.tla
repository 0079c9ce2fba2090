---------------------------- MODULE MCLoadEngine ----------------------------
(***************************************************************************)
(* Three loads over two business keys: two that meet on both keys in       *)
(* opposite orders, and one that holds the same key twice.                 *)
(***************************************************************************)
EXTENDS LoadEngine, TLC

CONSTANTS l1, l2, l3, k1, k2

CrossedBatches == l1 :> <<k1, k2>> @@ l2 :> <<k2, k1>> @@ l3 :> <<k1, k1>>

=============================================================================
