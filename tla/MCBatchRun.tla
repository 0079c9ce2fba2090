----------------------------- MODULE MCBatchRun -----------------------------
(***************************************************************************)
(* Small instances of BatchRun.  The batches hold every fate a row can     *)
(* have, every way a category is decided, and the positions that matter:   *)
(* a bad document before and after good ones, several invalid rows in one  *)
(* document, a batch without a loadable row and an empty batch.            *)
(***************************************************************************)
EXTENDS BatchRun

CONSTANTS pipelineA, pipelineB

row(fate, hint) == [fate |-> fate, hint |-> hint]
doc(rows)       == [schemaOk |-> TRUE, drift |-> FALSE, recordable |-> TRUE, rows |-> rows]

clean    == row("clean", "UNKNOWN")
outOfSet == row("rejected", "VALIDATION")
noMatch  == row("rejected", "LOOKUP")
unclear  == row("rejected", "UNKNOWN")
decimal  == row("unrecordable", "LOAD")
refused  == row("unloadable", "UNKNOWN")
textTemp == row("unconvertible", "UNKNOWN")

badSchema == [doc(<<clean>>) EXCEPT !.schemaOk = FALSE]
nulText   == [badSchema EXCEPT !.recordable = FALSE]
drifted   == [doc(<<clean>>) EXCEPT !.drift = TRUE]

\* Batches that only a fault can stop.
SoundBatches ==
  { <<>>,
    <<drifted, doc(<<noMatch, clean, unclear>>), badSchema>>,
    <<badSchema, doc(<<outOfSet, noMatch>>)>>,
    <<doc(<<clean, clean>>), doc(<<noMatch, clean>>)>> }

\* Batches holding a payload that stops the run, early or late.
PoisonedBatches ==
  { <<doc(<<noMatch, decimal, outOfSet, clean>>), drifted>>,
    <<doc(<<clean>>), doc(<<textTemp, clean>>)>>,
    <<doc(<<noMatch, clean>>), nulText, badSchema>>,
    <<badSchema, doc(<<refused, noMatch>>)>> }

AllBatches == SoundBatches \cup PoisonedBatches

\* Documents a batch loads whatever the model says of them.
DriftedBatches == { <<drifted, doc(<<clean>>)>> }

=============================================================================
