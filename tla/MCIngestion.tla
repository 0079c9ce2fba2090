---------------------------- MODULE MCIngestion -----------------------------
(***************************************************************************)
(* Small instances of Ingestion: two executions at once over two           *)
(* basenames.                                                              *)
(***************************************************************************)
EXTENDS Ingestion

CONSTANTS r1, r2, n1, n2

=============================================================================
