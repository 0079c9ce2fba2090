--------------------------- MODULE BatchRunProofs ---------------------------
(***************************************************************************)
(* Proofs about BatchRun, for every set of runs and of batches.            *)
(***************************************************************************)
EXTENDS BatchRun, FiniteSetTheorems, TLAPS

-----------------------------------------------------------------------------
(* Typing                                                                  *)

\* The documents of a run are a sequence of payloads.
LEMMA DocumentsTyped ==
  ASSUME TypeOK, NEW j \in Jobs
  PROVE  documents[j] \in Seq(Payload)
  <1>1. documents[j] \in Batches \cup {<<>>}  BY DEF TypeOK
  <1>2. <<>> \in Seq(Payload)  OBVIOUS
  <1>. QED  BY <1>1, <1>2, ConstantsAssumption

\* Row numbers start at 1, whatever fates are asked for.
LEMMA RowsTyped ==
  ASSUME NEW doc \in Payload, NEW fates
  PROVE  RowsWith(doc, fates) \subseteq Nat \ {0}
  BY DEF RowsWith, Payload

\* The head of the loop stands at a payload of the batch.
LEMMA NextDocumentTyped ==
  ASSUME TypeOK, NEW j \in Jobs, AtNextDocument(j)
  PROVE  /\ processed[j] + 1 \in DOMAIN documents[j]
         /\ NextDocument(j) \in Payload
  <1>1. documents[j] \in Seq(Payload)  BY DocumentsTyped
  <1>2. processed[j] \in Nat  BY DEF TypeOK
  <1>3. processed[j] + 1 \in 1..Len(documents[j])
    BY <1>1, <1>2 DEF AtNextDocument
  <1>. QED  BY <1>1, <1>3 DEF NextDocument

\* Every category gets a policy the queue knows.
LEMMA PolicyTyped ==
  ASSUME NEW category
  PROVE  PolicyFor(category) \in Policies
  BY DEF PolicyFor, Policies

\* No run has started: every variable has its type.
LEMMA TypeInit == Init => TypeOK
  BY DEF Init, TypeOK, Stages, ErrorRow, AuditRow, Causes, Categories

\* Every action keeps the types.
LEMMA TypeStep == TypeOK /\ [Next]_vars => TypeOK'
  <1>. SUFFICES ASSUME TypeOK, [Next]_vars PROVE TypeOK'
    OBVIOUS
  <1>a. CASE UNCHANGED vars
    BY <1>a DEF TypeOK, vars, locals, tables
  <1>b. CASE Next
    <2>. PICK j \in Jobs : \/ \E batch \in Batches : StartBatch(j, batch)
                           \/ Proceed(j)
                           \/ ModelFault(j)
                           \/ Interrupt(j)
      BY <1>b DEF Next
    <2>1. ASSUME NEW why \in Causes, Stop(j, why) PROVE TypeOK'
      BY <2>1 DEF TypeOK, Stop, Stages, locals, tables
    <2>2. ASSUME NEW batch \in Batches, StartBatch(j, batch) PROVE TypeOK'
      BY <2>2 DEF TypeOK, StartBatch, Stages, AuditRow
    <2>3. CASE RejectDocument(j)
      <3>1. recorded'[j] \in ErrorRow
        BY <2>3 DEF RejectDocument, TypeOK, ErrorRow, Categories
      <3>. QED  BY <2>3, <3>1 DEF RejectDocument, TypeOK
    <2>4. CASE ExtractDocument(j)
      <3>. DEFINE doc == NextDocument(j)
      <3>1. /\ ValidRows(doc) \subseteq Nat
            /\ InvalidRows(doc) \subseteq Nat
        BY <2>4, NextDocumentTyped, RowsTyped
           DEF ExtractDocument, ValidRows, InvalidRows
      <3>2. Collected(j, doc) \subseteq Nat \X Nat
        BY <3>1 DEF Collected, TypeOK
      <3>. HIDE DEF doc
      <3>3. /\ processed' = [processed EXCEPT ![j] = @ + 1]
            /\ succeeded' = [succeeded EXCEPT ![j] = IF InvalidRows(doc) = {} THEN @ + 1 ELSE @]
            /\ valid' = [valid EXCEPT ![j] = Collected(j, doc)]
            /\ invalid' = [invalid EXCEPT ![j] = InvalidRows(doc)]
            /\ UNCHANGED <<pc, documents, failed, recorded, tables, cause>>
        BY <2>4 DEF ExtractDocument, doc
      <3>. QED  BY <3>1, <3>2, <3>3 DEF TypeOK, tables
    <2>5. CASE FailDocument(j)
      BY <2>1, <2>5 DEF FailDocument, Causes
    <2>6. ASSUME NEW r \in invalid[j], FailRecording(j, r) PROVE TypeOK'
      BY <2>1, <2>6 DEF FailRecording, Causes
    <2>15. CASE FailRejection(j)
      BY <2>1, <2>15 DEF FailRejection, Causes
    <2>7. ASSUME NEW r \in invalid[j], NEW category \in Categories,
                 RecordInvalid(j, r, category)
          PROVE TypeOK'
      <3>1. recorded'[j] \in ErrorRow
        BY <2>7 DEF RecordInvalid, TypeOK, ErrorRow
      <3>2. AfterRecording(category) \in Stages
        BY DEF AfterRecording, Stages
      <3>. QED  BY <2>7, <3>1, <3>2 DEF RecordInvalid, TypeOK
    <2>8. CASE EnqueueHealing(j)
      <3>1. [doc |-> recorded[j].doc, row |-> recorded[j].row,
             policy |-> PolicyFor(recorded[j].category)] \in QueueRow
        BY PolicyTyped DEF TypeOK, ErrorRow, QueueRow
      <3>. QED  BY <2>8, <3>1 DEF EnqueueHealing, TypeOK, locals, Stages
    <2>9. CASE SkipLoad(j)
      BY <2>9 DEF SkipLoad, TypeOK, locals, tables, Stages
    <2>10. CASE LoadRecords(j)
      BY <2>10 DEF LoadRecords, TypeOK, locals, Stages
    <2>11. CASE FailLoad(j)
      BY <2>1, <2>11 DEF FailLoad, Causes
    <2>12. CASE CompleteBatch(j)
      <3>1. Verdict(succeeded[j], failed[j]) \in Verdicts
        BY DEF Verdict, Verdicts
      <3>. QED  BY <2>12, <3>1 DEF CompleteBatch, TypeOK, AuditRow, locals, Stages
    <2>13. CASE ModelFault(j)
      BY <2>1, <2>13 DEF ModelFault, Causes
    <2>14. CASE Interrupt(j)
      BY <2>1, <2>14 DEF Interrupt, Causes
    <2>. QED  BY <2>2, <2>3, <2>4, <2>5, <2>6, <2>7, <2>8, <2>9, <2>10, <2>11,
                 <2>12, <2>13, <2>14, <2>15 DEF Proceed
  <1>. QED  BY <1>a, <1>b

\* Every variable of every run keeps its type, whatever the runs interleave.
THEOREM TypeCorrect == Spec => []TypeOK
  BY TypeInit, TypeStep, PTL DEF Spec

-----------------------------------------------------------------------------
(* The inductive invariant                                                 *)

\* What the first n documents must leave in the error repository and in
\* all_valid_records.
Due(docs, n) ==
  {item \in Nat \X Nat : item[1] \in 1..n /\ item[2] \in DivertedRows(docs[item[1]])}
Gathered(docs, n) ==
  {item \in Nat \X Nat : item[1] \in 1..n /\ item[2] \in DeliveredRows(docs[item[1]])}

Loaded(j) == IF j \in LoadingJobs THEN valid[j] ELSE {}

\* The documents are taken in order, and the rows still to be recorded are
\* invalid rows of the document taken last.
Progress(j) ==
  /\ processed[j] <= Len(documents[j])
  /\ pc[j] = "idle" => documents[j] = <<>> /\ invalid[j] = {}
  /\ pc[j] \in {"complete", "done"} => processed[j] = Len(documents[j]) /\ invalid[j] = {}
  /\ invalid[j] # {} => /\ processed[j] >= 1
                        /\ documents[j][processed[j]].schemaOk
                        /\ invalid[j] \subseteq InvalidRows(documents[j][processed[j]])

\* What is on record is what is due, less the rows still to be recorded, and
\* what is collected is what was gathered.
Bookkeeping(j) ==
  pc[j] # "stopped" =>
    /\ Diverted(j) = Due(documents[j], processed[j]) \ ({processed[j]} \X invalid[j])
    /\ valid[j] = Gathered(documents[j], processed[j])

\* The target is untouched before the load and holds everything after it.
LoadState(j) ==
  /\ pc[j] \in {"idle", "loop", "enqueue"} => target[j] = {}
  /\ pc[j] \in {"complete", "done"} => target[j] = Loaded(j)
  /\ pc[j] = "stopped" /\ target[j] # {} =>
       /\ Diverted(j) = Due(documents[j], Len(documents[j]))
       /\ target[j] = Gathered(documents[j], Len(documents[j]))
       /\ Orphans(j) = {}

\* The only error that can lack its queue row is the one recorded last.
Enqueueing(j) ==
  /\ pc[j] = "enqueue" => /\ recorded[j] \in errors[j]
                          /\ recorded[j].category \in Recoverable
  /\ Orphans(j) \subseteq {recorded[j]}
  /\ Orphans(j) # {} => \/ pc[j] = "enqueue"
                        \/ pc[j] = "stopped" /\ cause[j] = "infrastructure"

\* The verdict comes with the end of the run, and failures leave records.
VerdictState(j) ==
  /\ HasVerdict(j) <=> pc[j] = "done"
  /\ failed[j] = 0 <=> errors[j] = {}
  /\ pc[j] = "done" => audit[j].status = Verdict(succeeded[j], failed[j])

JobInv(j) ==
  /\ Progress(j)
  /\ Bookkeeping(j)
  /\ LoadState(j)
  /\ Enqueueing(j)
  /\ VerdictState(j)

IInv == TypeOK /\ \A j \in Jobs : JobInv(j)

-----------------------------------------------------------------------------
(* Lemmas on the sets of items                                             *)

\* Rows to divert and rows to deliver are row numbers.
LEMMA DivertedRowsTyped ==
  ASSUME NEW doc \in Payload
  PROVE  DivertedRows(doc) \subseteq Nat /\ DeliveredRows(doc) \subseteq Nat
  BY RowsTyped DEF DivertedRows, DeliveredRows, InvalidRows, ValidRows

\* Taking one more document adds exactly its own items.
LEMMA DueStep ==
  ASSUME NEW docs, NEW n \in Nat,
         DivertedRows(docs[n + 1]) \subseteq Nat
  PROVE  Due(docs, n + 1) = Due(docs, n) \cup ({n + 1} \X DivertedRows(docs[n + 1]))
  BY DEF Due

\* The same of the rows to deliver.
LEMMA GatheredStep ==
  ASSUME NEW docs, NEW n \in Nat,
         DeliveredRows(docs[n + 1]) \subseteq Nat
  PROVE  Gathered(docs, n + 1) = Gathered(docs, n) \cup ({n + 1} \X DeliveredRows(docs[n + 1]))
  BY DEF Gathered

\* Before the first document nothing is due and nothing gathered.
LEMMA NothingDue ==
  ASSUME NEW docs
  PROVE  Due(docs, 0) = {} /\ Gathered(docs, 0) = {}
  BY DEF Due, Gathered

\* At the end of the documents, what is due is all there is to divert.
LEMMA DueIsAll ==
  ASSUME NEW docs \in Seq(Payload)
  PROVE  /\ Due(docs, Len(docs)) = ToDivert(docs)
         /\ Gathered(docs, Len(docs)) = ToDeliver(docs)
  <1>. DOMAIN docs = 1..Len(docs) /\ \A d \in 1..Len(docs) : docs[d] \in Payload
    OBVIOUS
  <1>. \A d \in 1..Len(docs) : /\ DivertedRows(docs[d]) \subseteq Nat
                               /\ DeliveredRows(docs[d]) \subseteq Nat
    BY DivertedRowsTyped
  <1>1. Due(docs, Len(docs)) = ToDivert(docs)
    BY DEF Due, ToDivert
  <1>2. Gathered(docs, Len(docs)) = ToDeliver(docs)
    BY DEF Gathered, ToDeliver
  <1>. QED  BY <1>1, <1>2

-----------------------------------------------------------------------------
(* A step of one run leaves the others as they are                         *)

Untouched(k) ==
  /\ UNCHANGED <<pc[k], documents[k], processed[k], succeeded[k], failed[k]>>
  /\ UNCHANGED <<valid[k], invalid[k], recorded[k], cause[k]>>
  /\ UNCHANGED <<audit[k], errors[k], queue[k], target[k]>>

StepOf(j) ==
  \/ \E batch \in Batches : StartBatch(j, batch)
  \/ Proceed(j)
  \/ ModelFault(j)
  \/ Interrupt(j)

\* A step of one run leaves every other run's part of the tables alone.
LEMMA OthersUntouched ==
  ASSUME TypeOK, NEW j \in Jobs, StepOf(j), NEW k \in Jobs \ {j}
  PROVE  Untouched(k)
  <1>. USE DEF TypeOK, Untouched, locals, tables
  <1>1. ASSUME NEW why, Stop(j, why) PROVE Untouched(k)
    BY <1>1 DEF Stop
  <1>2. ASSUME NEW batch \in Batches, StartBatch(j, batch) PROVE Untouched(k)
    BY <1>2 DEF StartBatch
  <1>3. CASE RejectDocument(j)  BY <1>3 DEF RejectDocument
  <1>4. CASE ExtractDocument(j)  BY <1>4 DEF ExtractDocument
  <1>5. ASSUME NEW r, NEW category, RecordInvalid(j, r, category) PROVE Untouched(k)
    BY <1>5 DEF RecordInvalid
  <1>6. CASE EnqueueHealing(j)  BY <1>6 DEF EnqueueHealing
  <1>7. CASE SkipLoad(j) \/ LoadRecords(j)  BY <1>7 DEF SkipLoad, LoadRecords
  <1>8. CASE CompleteBatch(j)  BY <1>8 DEF CompleteBatch
  <1>9. CASE \/ FailRejection(j) \/ FailDocument(j) \/ FailLoad(j)
             \/ \E r \in invalid[j] : FailRecording(j, r)
             \/ ModelFault(j) \/ Interrupt(j)
    <2>. PICK why : Stop(j, why)
      BY <1>9 DEF FailRejection, FailDocument, FailLoad, FailRecording, ModelFault, Interrupt
    <2>. QED  BY <1>1
  <1>. QED  BY <1>2, <1>3, <1>4, <1>5, <1>6, <1>7, <1>8, <1>9 DEF StepOf, Proceed

\* What a step leaves alone keeps its invariant.
LEMMA UntouchedInv ==
  ASSUME NEW k \in Jobs, JobInv(k), Untouched(k)
  PROVE  JobInv(k)'
  BY DEF JobInv, Untouched, Progress, Bookkeeping, LoadState, Enqueueing, VerdictState,
         Diverted, Orphans, Loaded, HasVerdict

-----------------------------------------------------------------------------
(* The step of a run keeps that run's invariant                            *)

\* A run that is stopped keeps what it has committed: from the head of the
\* loop that is a complete set of errors and queue rows, and only the
\* infrastructure stops it anywhere else.
LEMMA StopInv ==
  ASSUME TypeOK, NEW j \in Jobs, JobInv(j), NEW why \in Causes, Stop(j, why),
         pc[j] \in Active, why # "infrastructure" => pc[j] = "loop"
  PROVE  JobInv(j)'
  <1>. USE DEF Stop, locals, tables, Active
  <1>1. /\ pc'[j] = "stopped"
        /\ cause'[j] = why
    BY DEF TypeOK
  <1>2. Progress(j)'
    BY <1>1 DEF JobInv, Progress
  <1>3. Bookkeeping(j)'
    BY <1>1 DEF Bookkeeping
  <1>4. LoadState(j)'
    <2>1. CASE pc[j] = "complete"
      <3>1. invalid[j] = {} /\ processed[j] = Len(documents[j])
        BY <2>1 DEF JobInv, Progress
      <3>2. Diverted(j) = Due(documents[j], Len(documents[j]))
        BY <2>1, <3>1 DEF JobInv, Bookkeeping
      <3>3. target[j] # {} => target[j] = Gathered(documents[j], Len(documents[j]))
        BY <2>1, <3>1 DEF JobInv, Bookkeeping, LoadState, Loaded
      <3>4. Orphans(j) = {}
        BY <2>1 DEF JobInv, Enqueueing
      <3>. QED  BY <1>1, <3>2, <3>3, <3>4 DEF LoadState, Diverted, Orphans
    <2>2. CASE pc[j] # "complete"
      BY <1>1, <2>2 DEF JobInv, LoadState
    <2>. QED  BY <2>1, <2>2
  <1>5. Enqueueing(j)'
    BY <1>1 DEF JobInv, Enqueueing, Orphans
  <1>6. VerdictState(j)'
    BY <1>1 DEF JobInv, VerdictState, HasVerdict
  <1>. QED  BY <1>2, <1>3, <1>4, <1>5, <1>6 DEF JobInv

\* A batch that starts owes nothing yet.
LEMMA StartBatchInv ==
  ASSUME TypeOK, NEW j \in Jobs, JobInv(j), NEW batch \in Batches, StartBatch(j, batch)
  PROVE  JobInv(j)'
  <1>. USE DEF StartBatch, FreshBatchId
  <1>. documents'[j] = batch /\ pc'[j] = "loop" /\ audit'[j].status = "RUNNING"
    BY DEF TypeOK, AuditRow
  <1>. batch \in Seq(Payload)
    BY ConstantsAssumption
  <1>1. processed[j] = 0
    BY DEF JobInv, Progress, TypeOK
  <1>2. Progress(j)'
    BY <1>1 DEF JobInv, Progress
  <1>3. Bookkeeping(j)'
    BY <1>1, NothingDue DEF JobInv, Progress, Bookkeeping, Diverted
  <1>4. LoadState(j)'
    BY DEF JobInv, LoadState
  <1>5. Enqueueing(j)'
    BY DEF JobInv, Enqueueing, Orphans
  <1>6. VerdictState(j)'
    BY DEF JobInv, VerdictState, HasVerdict, Verdicts
  <1>. QED  BY <1>2, <1>3, <1>4, <1>5, <1>6 DEF JobInv

\* Recording a rejected document settles its one item.
LEMMA RejectDocumentInv ==
  ASSUME TypeOK, NEW j \in Jobs, JobInv(j), RejectDocument(j)
  PROVE  JobInv(j)'
  <1>. DEFINE n == processed[j] + 1
              e == [doc |-> n, row |-> 0, category |-> "SCHEMA"]
  <1>. USE DEF RejectDocument
  <1>1. /\ processed'[j] = n /\ recorded'[j] = e
        /\ errors'[j] = errors[j] \cup {e} /\ failed'[j] = failed[j] + 1
    BY DEF TypeOK
  <1>2. /\ pc[j] = "loop" /\ invalid[j] = {} /\ processed[j] \in Nat
        /\ n <= Len(documents[j]) /\ documents[j] \in Seq(Payload)
    BY DocumentsTyped DEF AtNextDocument, TypeOK
  <1>3. /\ DivertedRows(documents[j][n]) = {0}
        /\ DeliveredRows(documents[j][n]) = {}
    BY DEF NextDocument, DivertedRows, DeliveredRows
  <1>. HIDE DEF n
  <1>4. Progress(j)'
    BY <1>1, <1>2 DEF JobInv, Progress
  <1>5. Bookkeeping(j)'
    <2>1. Diverted(j)' = Diverted(j) \cup {<<n, 0>>}
      BY <1>1 DEF Diverted, Item
    <2>2. Due(documents[j], n) = Due(documents[j], processed[j]) \cup {<<n, 0>>}
      <3>1. DivertedRows(documents[j][processed[j] + 1]) \subseteq Nat
        BY <1>3 DEF n
      <3>2. Due(documents[j], processed[j] + 1) = Due(documents[j], processed[j])
              \cup ({processed[j] + 1} \X DivertedRows(documents[j][processed[j] + 1]))
        BY <1>2, <3>1, DueStep
      <3>. QED  BY <1>3, <3>2 DEF n
    <2>3. Gathered(documents[j], n) = Gathered(documents[j], processed[j])
      <3>1. DeliveredRows(documents[j][processed[j] + 1]) \subseteq Nat
        BY <1>3 DEF n
      <3>2. Gathered(documents[j], processed[j] + 1) = Gathered(documents[j], processed[j])
              \cup ({processed[j] + 1} \X DeliveredRows(documents[j][processed[j] + 1]))
        BY <1>2, <3>1, GatheredStep
      <3>. QED  BY <1>3, <3>2 DEF n
    <2>. QED  BY <1>1, <1>2, <2>1, <2>2, <2>3 DEF JobInv, Bookkeeping
  <1>6. LoadState(j)'
    BY <1>2 DEF JobInv, LoadState
  <1>7. Enqueueing(j)'
    <2>1. e.category \notin Recoverable
      BY DEF Recoverable
    <2>2. Orphans(j) = {}
      BY <1>2 DEF JobInv, Enqueueing
    <2>3. Orphans(j)' = {}
      BY <1>1, <2>1, <2>2 DEF Orphans
    <2>. QED  BY <1>2, <2>3 DEF Enqueueing
  <1>8. VerdictState(j)'
    BY <1>1, <1>2 DEF JobInv, VerdictState, HasVerdict, TypeOK
  <1>. QED  BY <1>4, <1>5, <1>6, <1>7, <1>8 DEF JobInv

\* Taking a document in collects its valid rows and owes its invalid ones.
LEMMA ExtractDocumentInv ==
  ASSUME TypeOK, NEW j \in Jobs, JobInv(j), ExtractDocument(j)
  PROVE  JobInv(j)'
  <1>. DEFINE n == processed[j] + 1
              doc == documents[j][n]
  <1>1. /\ pc[j] = "loop" /\ invalid[j] = {} /\ processed[j] \in Nat
        /\ n <= Len(documents[j]) /\ documents[j] \in Seq(Payload)
    BY DocumentsTyped DEF ExtractDocument, AtNextDocument, TypeOK
  <1>2. doc = NextDocument(j) /\ doc \in Payload /\ doc.schemaOk
    BY NextDocumentTyped DEF ExtractDocument, NextDocument
  <1>3. /\ DivertedRows(doc) = InvalidRows(doc) /\ DivertedRows(doc) \subseteq Nat
        /\ DeliveredRows(doc) = ValidRows(doc) /\ DeliveredRows(doc) \subseteq Nat
    BY <1>2, DivertedRowsTyped DEF DivertedRows, DeliveredRows
  <1>4. /\ processed'[j] = n
        /\ valid'[j] = valid[j] \cup ({n} \X ValidRows(doc))
        /\ invalid'[j] = InvalidRows(doc)
        /\ UNCHANGED <<pc, documents, failed, recorded, audit, errors, queue, target, cause>>
    BY <1>2 DEF ExtractDocument, Collected, TypeOK, tables
  <1>. HIDE DEF doc
  <1>5. Progress(j)'
    BY <1>1, <1>2, <1>4 DEF JobInv, Progress, doc
  <1>6. Bookkeeping(j)'
    <2>1. Diverted(j) = Due(documents[j], processed[j])
      BY <1>1 DEF JobInv, Bookkeeping
    <2>2. Due(documents[j], n) = Due(documents[j], processed[j]) \cup ({n} \X InvalidRows(doc))
      <3>1. Due(documents[j], n) = Due(documents[j], processed[j])
                                     \cup ({n} \X DivertedRows(documents[j][n]))
        BY <1>1, <1>3, DueStep DEF doc
      <3>. QED  BY <1>3, <3>1 DEF doc
    <2>3. \A item \in Due(documents[j], processed[j]) : item[1] # n
      BY <1>1 DEF Due
    <2>4. Due(documents[j], n) \ ({n} \X InvalidRows(doc)) = Due(documents[j], processed[j])
      BY <2>2, <2>3
    <2>5. Gathered(documents[j], n)
            = Gathered(documents[j], processed[j]) \cup ({n} \X ValidRows(doc))
      <3>1. Gathered(documents[j], n) = Gathered(documents[j], processed[j])
                                          \cup ({n} \X DeliveredRows(documents[j][n]))
        BY <1>1, <1>3, GatheredStep DEF doc
      <3>. QED  BY <1>3, <3>1 DEF doc
    <2>. QED  BY <1>1, <1>4, <2>1, <2>4, <2>5 DEF JobInv, Bookkeeping, Diverted
  <1>7. LoadState(j)'
    BY <1>1, <1>4 DEF JobInv, LoadState
  <1>8. Enqueueing(j)'
    BY <1>1, <1>4 DEF JobInv, Enqueueing, Orphans
  <1>9. VerdictState(j)'
    BY <1>1, <1>4 DEF JobInv, VerdictState, HasVerdict
  <1>. QED  BY <1>5, <1>6, <1>7, <1>8, <1>9 DEF JobInv

\* Recording an invalid row settles it, and may leave it without a queue row.
LEMMA RecordInvalidInv ==
  ASSUME TypeOK, NEW j \in Jobs, JobInv(j), NEW r \in invalid[j],
         NEW category \in Categories, RecordInvalid(j, r, category)
  PROVE  JobInv(j)'
  <1>. DEFINE n == processed[j]
              e == [doc |-> n, row |-> r, category |-> category]
  <1>. USE DEF RecordInvalid
  <1>1. /\ pc'[j] = AfterRecording(category) /\ recorded'[j] = e
        /\ errors'[j] = errors[j] \cup {e} /\ failed'[j] = failed[j] + 1
        /\ invalid'[j] = invalid[j] \ {r}
    BY DEF TypeOK
  <1>2. /\ pc[j] = "loop" /\ n \in Nat /\ r \in Nat /\ n >= 1
        /\ documents[j][n].schemaOk /\ r \in InvalidRows(documents[j][n])
        /\ invalid[j] \subseteq InvalidRows(documents[j][n])
    BY DEF TypeOK, JobInv, Progress
  <1>3. AfterRecording(category) \in {"loop", "enqueue"}
    BY DEF AfterRecording
  <1>. HIDE DEF n
  <1>4. Progress(j)'
    BY <1>1, <1>2, <1>3 DEF JobInv, Progress, n
  <1>5. Bookkeeping(j)'
    <2>1. Diverted(j)' = Diverted(j) \cup {<<n, r>>}
      BY <1>1 DEF Diverted, Item
    <2>2. <<n, r>> \in Due(documents[j], n)
      BY <1>2 DEF Due, DivertedRows
    <2>3. Diverted(j) = Due(documents[j], n) \ ({n} \X invalid[j])
      BY <1>2 DEF JobInv, Bookkeeping, n
    <2>4. Diverted(j)' = Due(documents[j], n) \ ({n} \X (invalid[j] \ {r}))
      BY <2>1, <2>2, <2>3
    <2>. QED  BY <1>1, <1>2, <2>4 DEF JobInv, Bookkeeping, n
  <1>6. LoadState(j)'
    BY <1>1, <1>2, <1>3 DEF JobInv, LoadState
  <1>7. Enqueueing(j)'
    <2>1. Orphans(j) = {}
      BY <1>2 DEF JobInv, Enqueueing
    <2>2. Orphans(j)' \subseteq {e}
      BY <1>1, <2>1 DEF Orphans
    <2>3. CASE category \in Recoverable
      BY <1>1, <2>2, <2>3 DEF Enqueueing, AfterRecording
    <2>4. CASE category \notin Recoverable
      <3>1. Orphans(j)' = {}
        BY <2>2, <2>4 DEF Orphans
      <3>. QED  BY <1>1, <2>4, <3>1 DEF Enqueueing, AfterRecording
    <2>. QED  BY <2>3, <2>4
  <1>8. VerdictState(j)'
    BY <1>1, <1>2, <1>3 DEF JobInv, VerdictState, HasVerdict, TypeOK
  <1>. QED  BY <1>4, <1>5, <1>6, <1>7, <1>8 DEF JobInv

\* The queue row settles the error recorded last.
LEMMA EnqueueHealingInv ==
  ASSUME TypeOK, NEW j \in Jobs, JobInv(j), EnqueueHealing(j)
  PROVE  JobInv(j)'
  <1>. DEFINE q == [doc |-> recorded[j].doc, row |-> recorded[j].row,
                    policy |-> PolicyFor(recorded[j].category)]
  <1>1. /\ pc[j] = "enqueue" /\ pc'[j] = "loop"
        /\ queue'[j] = queue[j] \cup {q}
        /\ UNCHANGED <<documents, processed, succeeded, failed, valid, invalid,
                       recorded, audit, errors, target, cause>>
    BY DEF EnqueueHealing, TypeOK, locals
  <1>2. Item(q) = Item(recorded[j])
    BY DEF Item
  <1>. HIDE DEF q
  <1>3. Progress(j)'
    BY <1>1 DEF JobInv, Progress
  <1>4. Bookkeeping(j)'
    BY <1>1 DEF JobInv, Bookkeeping, Diverted
  <1>5. LoadState(j)'
    BY <1>1 DEF JobInv, LoadState
  <1>6. Enqueueing(j)'
    <2>1. Orphans(j)' \subseteq Orphans(j)
      BY <1>1 DEF Orphans
    <2>2. recorded[j] \notin Orphans(j)'
      BY <1>1, <1>2 DEF Orphans
    <2>3. Orphans(j)' = {}
      BY <2>1, <2>2 DEF JobInv, Enqueueing
    <2>. QED  BY <1>1, <2>3 DEF Enqueueing
  <1>7. VerdictState(j)'
    BY <1>1 DEF JobInv, VerdictState, HasVerdict
  <1>. QED  BY <1>3, <1>4, <1>5, <1>6, <1>7 DEF JobInv

\* Loading, or having nothing to load.
LEMMA LoadInv ==
  ASSUME TypeOK, NEW j \in Jobs, JobInv(j), SkipLoad(j) \/ LoadRecords(j)
  PROVE  JobInv(j)'
  <1>1. /\ pc[j] = "loop" /\ invalid[j] = {} /\ processed[j] = Len(documents[j])
        /\ pc'[j] = "complete"
        /\ UNCHANGED <<documents, processed, succeeded, failed, valid, invalid,
                       recorded, audit, errors, queue, cause>>
    BY DEF SkipLoad, LoadRecords, AllProcessed, TypeOK, locals, tables
  <1>2. target[j] = {}
    BY <1>1 DEF JobInv, LoadState
  <1>3. target'[j] = Loaded(j)
    <2>1. CASE SkipLoad(j)
      <3>1. target' = target /\ (valid[j] = {} \/ j \notin LoadingJobs)
        BY <2>1 DEF SkipLoad, tables
      <3>. QED  BY <1>2, <3>1 DEF Loaded
    <2>2. CASE LoadRecords(j)
      <3>1. target'[j] = target[j] \cup valid[j] /\ j \in LoadingJobs
        BY <2>2 DEF LoadRecords, TypeOK
      <3>. QED  BY <1>2, <3>1 DEF Loaded
    <2>. QED  BY <2>1, <2>2
  <1>4. Progress(j)'
    BY <1>1 DEF JobInv, Progress
  <1>5. Bookkeeping(j)'
    BY <1>1 DEF JobInv, Bookkeeping, Diverted
  <1>6. LoadState(j)'
    BY <1>1, <1>3 DEF LoadState, Loaded
  <1>7. Enqueueing(j)'
    BY <1>1 DEF JobInv, Enqueueing, Orphans
  <1>8. VerdictState(j)'
    BY <1>1 DEF JobInv, VerdictState, HasVerdict
  <1>. QED  BY <1>4, <1>5, <1>6, <1>7, <1>8 DEF JobInv

\* The verdict is given over settled items.
LEMMA CompleteBatchInv ==
  ASSUME TypeOK, NEW j \in Jobs, JobInv(j), CompleteBatch(j)
  PROVE  JobInv(j)'
  <1>1. /\ pc[j] = "complete" /\ pc'[j] = "done"
        /\ audit'[j].status = Verdict(succeeded[j], failed[j])
        /\ UNCHANGED <<documents, processed, succeeded, failed, valid, invalid,
                       recorded, errors, queue, target, cause>>
    BY DEF CompleteBatch, TypeOK, locals
  <1>2. Progress(j)'
    BY <1>1 DEF JobInv, Progress
  <1>3. Bookkeeping(j)'
    BY <1>1 DEF JobInv, Bookkeeping, Diverted
  <1>4. LoadState(j)'
    BY <1>1 DEF JobInv, LoadState, Loaded
  <1>5. Enqueueing(j)'
    BY <1>1 DEF JobInv, Enqueueing, Orphans
  <1>6. VerdictState(j)'
    BY <1>1 DEF JobInv, VerdictState, HasVerdict, Verdict, Verdicts
  <1>. QED  BY <1>2, <1>3, <1>4, <1>5, <1>6 DEF JobInv

\* The step of a run, whichever it is.
LEMMA StepInv ==
  ASSUME TypeOK, NEW j \in Jobs, JobInv(j), StepOf(j)
  PROVE  JobInv(j)'
  <1>1. CASE \E batch \in Batches : StartBatch(j, batch)
    BY <1>1, StartBatchInv
  <1>2. CASE RejectDocument(j)  BY <1>2, RejectDocumentInv
  <1>3. CASE ExtractDocument(j)  BY <1>3, ExtractDocumentInv
  <1>4. CASE FailRejection(j) \/ FailDocument(j) \/ FailLoad(j) \/ \E r \in invalid[j] : FailRecording(j, r)
    <2>1. Stop(j, "data") /\ pc[j] = "loop"
      BY <1>4 DEF FailRejection, FailDocument, FailLoad, FailRecording, AtNextDocument, AllProcessed
    <2>. QED  BY <2>1, StopInv DEF Causes, Active
  <1>5. CASE \E r \in invalid[j], category \in Categories : RecordInvalid(j, r, category)
    BY <1>5, RecordInvalidInv
  <1>6. CASE EnqueueHealing(j)  BY <1>6, EnqueueHealingInv
  <1>7. CASE SkipLoad(j) \/ LoadRecords(j)  BY <1>7, LoadInv
  <1>8. CASE CompleteBatch(j)  BY <1>8, CompleteBatchInv
  <1>9. CASE ModelFault(j)
    <2>1. Stop(j, "model") /\ pc[j] = "loop"
      BY <1>9 DEF ModelFault, CallsModel, AtNextDocument
    <2>. QED  BY <2>1, StopInv DEF Causes, Active
  <1>10. CASE Interrupt(j)
    BY <1>10, StopInv DEF Interrupt, Causes
  <1>. QED  BY <1>1, <1>2, <1>3, <1>4, <1>5, <1>6, <1>7, <1>8, <1>9, <1>10
            DEF StepOf, Proceed

-----------------------------------------------------------------------------
(* The invariant                                                           *)

\* The invariant holds before any run.
LEMMA IInvInit == Init => IInv
  <1>. SUFFICES ASSUME Init, NEW j \in Jobs PROVE JobInv(j)
    BY TypeInit DEF IInv
  <1>. USE DEF Init
  <1>1. Progress(j)  BY DEF Progress
  <1>2. Bookkeeping(j)  BY NothingDue DEF Bookkeeping, Diverted
  <1>3. LoadState(j)  BY DEF LoadState
  <1>4. Enqueueing(j)  BY DEF Enqueueing, Orphans
  <1>5. VerdictState(j)  BY DEF VerdictState, HasVerdict, Verdicts
  <1>. QED  BY <1>1, <1>2, <1>3, <1>4, <1>5 DEF JobInv

\* Every step keeps the invariant of every run.
LEMMA IInvStep == IInv /\ [Next]_vars => IInv'
  <1>. SUFFICES ASSUME IInv, [Next]_vars, NEW k \in Jobs PROVE JobInv(k)'
    BY TypeStep DEF IInv
  <1>1. CASE UNCHANGED vars
    BY <1>1, UntouchedInv DEF IInv, vars, locals, tables, Untouched
  <1>2. CASE Next
    <2>. PICK j \in Jobs : StepOf(j)
      BY <1>2 DEF Next, StepOf
    <2>1. CASE k = j  BY <2>1, StepInv DEF IInv
    <2>2. CASE k # j  BY <2>2, OthersUntouched, UntouchedInv DEF IInv
    <2>. QED  BY <2>1, <2>2
  <1>. QED  BY <1>1, <1>2

\* The bookkeeping of every run is exact at every step.
THEOREM Invariance == Spec => []IInv
  BY IInvInit, IInvStep, PTL DEF Spec

\* For every batch, every fault and every interleaving of runs: a run that
\* ends normally has diverted exactly the rows and documents to divert, and,
\* if its pipeline has a load_config, delivered exactly the others.
THEOREM Accounting == Spec => []EveryRowAccounted
  <1>1. IInv => EveryRowAccounted
    <2>. SUFFICES ASSUME IInv, NEW j \in Jobs, pc[j] = "done"
                  PROVE  /\ Diverted(j) = ToDivert(documents[j])
                         /\ j \in LoadingJobs => target[j] = ToDeliver(documents[j])
      BY DEF EveryRowAccounted
    <2>1. JobInv(j) /\ TypeOK  BY DEF IInv
    <2>2. processed[j] = Len(documents[j]) /\ invalid[j] = {}
      BY <2>1 DEF JobInv, Progress
    <2>3. /\ Diverted(j) = Due(documents[j], Len(documents[j]))
          /\ valid[j] = Gathered(documents[j], Len(documents[j]))
      BY <2>1, <2>2 DEF JobInv, Bookkeeping
    <2>4. target[j] = Loaded(j)
      BY <2>1 DEF JobInv, LoadState
    <2>. QED  BY <2>1, <2>3, <2>4, DocumentsTyped, DueIsAll DEF Loaded
  <1>. QED  BY <1>1, Invariance, PTL

\* No crash point leaves loaded rows whose siblings are not yet on record.
THEOREM RecordedBeforeLoaded == Spec => []LedgerBeforeLoad
  <1>1. IInv => LedgerBeforeLoad
    <2>. SUFFICES ASSUME IInv, NEW j \in Jobs, target[j] # {}
                  PROVE  /\ target[j] = ToDeliver(documents[j])
                         /\ Diverted(j) = ToDivert(documents[j])
                         /\ Orphans(j) = {}
      BY DEF LedgerBeforeLoad
    <2>. TypeOK /\ JobInv(j)  BY DEF IInv
    <2>1. pc[j] \in {"complete", "done", "stopped"}
      BY DEF TypeOK, Stages, JobInv, LoadState
    <2>2. CASE pc[j] \in {"complete", "done"}
      <3>1. processed[j] = Len(documents[j]) /\ invalid[j] = {} /\ target[j] = valid[j]
        BY <2>2 DEF JobInv, Progress, LoadState, Loaded
      <3>2. Orphans(j) = {}
        BY <2>2 DEF JobInv, Enqueueing
      <3>3. /\ Diverted(j) = Due(documents[j], Len(documents[j]))
            /\ target[j] = Gathered(documents[j], Len(documents[j]))
        BY <2>2, <3>1 DEF JobInv, Bookkeeping
      <3>. QED  BY <3>2, <3>3, DocumentsTyped, DueIsAll
    <2>3. CASE pc[j] = "stopped"
      BY <2>3, DocumentsTyped, DueIsAll DEF JobInv, LoadState
    <2>. QED  BY <2>1, <2>2, <2>3
  <1>. QED  BY <1>1, Invariance, PTL

\* record_error's gap between its two transactions costs a run at most one
\* unqueued error, and only when the infrastructure fails inside it.
THEOREM OrphansBounded == Spec => []OrphanOnlyByFault
  <1>1. IInv => OrphanOnlyByFault
    <2>. SUFFICES ASSUME IInv, NEW j \in Jobs
                  PROVE  /\ Cardinality(Orphans(j)) <= 1
                         /\ Orphans(j) # {} => \/ pc[j] = "enqueue"
                                               \/ pc[j] = "stopped" /\ cause[j] = "infrastructure"
      BY DEF OrphanOnlyByFault
    <2>1. Enqueueing(j)  BY DEF IInv, JobInv
    <2>2. Orphans(j) = {} \/ Orphans(j) = {recorded[j]}
      BY <2>1 DEF Enqueueing
    <2>3. Cardinality(Orphans(j)) <= 1
      <3>1. CASE Orphans(j) = {}
        <4>1. Cardinality(Orphans(j)) = 0  BY <3>1, FS_EmptySet
        <4>. QED  BY <4>1
      <3>2. CASE Orphans(j) = {recorded[j]}
        <4>1. Cardinality(Orphans(j)) = 1  BY <3>2, FS_Singleton
        <4>. QED  BY <4>1
      <3>. QED  BY <2>2, <3>1, <3>2
    <2>. QED  BY <2>1, <2>3 DEF Enqueueing
  <1>. QED  BY <1>1, Invariance, PTL

\* What is written for a batch_id is final once its verdict is.
THEOREM NothingAfterVerdict == Spec => VerdictIsLast
  <1>. DEFINE Final == \A j \in Jobs : HasVerdict(j) =>
                         UNCHANGED <<audit[j], errors[j], queue[j], target[j]>>
  <1>1. IInv /\ [Next]_vars => Final
    <2>. SUFFICES ASSUME IInv, [Next]_vars, NEW k \in Jobs, HasVerdict(k)
                  PROVE  UNCHANGED <<audit[k], errors[k], queue[k], target[k]>>
      OBVIOUS
    <2>1. CASE UNCHANGED vars
      BY <2>1 DEF vars, tables
    <2>2. CASE Next
      <3>. PICK j \in Jobs : StepOf(j)
        BY <2>2 DEF Next, StepOf
      <3>1. pc[k] = "done"
        BY DEF IInv, JobInv, VerdictState
      <3>2. ~ StepOf(k)
        BY <3>1 DEF StepOf, Proceed, StartBatch, FreshBatchId, RejectDocument, ExtractDocument,
              FailRejection, FailDocument, FailRecording, RecordInvalid, EnqueueHealing, SkipLoad, LoadRecords,
              FailLoad, CompleteBatch, ModelFault, CallsModel, Interrupt, Active,
              AtNextDocument, AllProcessed
      <3>3. Untouched(k)
        BY <3>2, OthersUntouched DEF IInv
      <3>. QED  BY <3>3 DEF Untouched
    <2>. QED  BY <2>1, <2>2
  <1>2. Final => [Final]_vars  OBVIOUS
  <1>. QED  BY <1>1, Invariance, PTL DEF Spec, VerdictIsLast

-----------------------------------------------------------------------------
(* The counters and the repository agree                                   *)

\* The first n documents that leave nothing to divert.
Sound(docs, n) == {d \in 1..n : DivertedRows(docs[d]) = {}}

Counts(j) ==
  /\ IsFiniteSet(errors[j])
  /\ failed[j] = Cardinality(errors[j])
  /\ succeeded[j] = Cardinality(Sound(documents[j], processed[j]))
  /\ pc[j] = "done" => audit[j] = [status    |-> Verdict(succeeded[j], failed[j]),
                                   processed |-> processed[j],
                                   success   |-> succeeded[j],
                                   failed    |-> failed[j]]

\* One more document adds one sound document or none.
LEMMA SoundStep ==
  ASSUME NEW docs, NEW n \in Nat
  PROVE  /\ IsFiniteSet(Sound(docs, n))
         /\ Cardinality(Sound(docs, n + 1)) =
              IF DivertedRows(docs[n + 1]) = {} THEN Cardinality(Sound(docs, n)) + 1
                                                ELSE Cardinality(Sound(docs, n))
  <1>1. IsFiniteSet(Sound(docs, n))
    <2>1. IsFiniteSet(1..n)  BY FS_Interval
    <2>. QED  BY <2>1, FS_Subset DEF Sound
  <1>2. CASE DivertedRows(docs[n + 1]) = {}
    <2>1. Sound(docs, n + 1) = Sound(docs, n) \cup {n + 1}
      BY <1>2 DEF Sound
    <2>2. n + 1 \notin Sound(docs, n)
      BY DEF Sound
    <2>. QED  BY <1>1, <1>2, <2>1, <2>2, FS_AddElement
  <1>3. CASE DivertedRows(docs[n + 1]) # {}
    <2>1. Sound(docs, n + 1) = Sound(docs, n)
      BY <1>3 DEF Sound
    <2>. QED  BY <1>1, <1>3, <2>1
  <1>. QED  BY <1>1, <1>2, <1>3

\* A new error record is counted once.
LEMMA RecordCounts ==
  ASSUME TypeOK, NEW j \in Jobs, Counts(j), NEW e, Item(e) \notin Diverted(j)
  PROVE  IsFiniteSet(errors[j] \cup {e}) /\ Cardinality(errors[j] \cup {e}) = failed[j] + 1
  <1>1. e \notin errors[j]
    BY DEF Diverted
  <1>. QED  BY <1>1, FS_AddElement DEF Counts

\* The counters follow the repository at every step of the run.
LEMMA CountsStep ==
  ASSUME IInv, NEW j \in Jobs, Counts(j), StepOf(j)
  PROVE  Counts(j)'
  <1>. TypeOK /\ JobInv(j)  BY DEF IInv
  <1>1. ASSUME NEW batch \in Batches, StartBatch(j, batch) PROVE Counts(j)'
    <2>1. /\ processed[j] = 0 /\ pc'[j] = "loop"
          /\ UNCHANGED <<processed, succeeded, failed, errors>>
      BY <1>1 DEF StartBatch, FreshBatchId, JobInv, Progress, TypeOK
    <2>2. \A docs : Sound(docs, 0) = {}
      BY DEF Sound
    <2>. QED  BY <2>1, <2>2 DEF Counts
  <1>2. CASE RejectDocument(j)
    <2>. DEFINE n == processed[j] + 1
                e == [doc |-> n, row |-> 0, category |-> "SCHEMA"]
    <2>1. /\ pc[j] = "loop" /\ invalid[j] = {} /\ processed[j] \in Nat
          /\ DivertedRows(documents[j][n]) = {0}
          /\ pc' = pc /\ documents' = documents /\ succeeded' = succeeded
          /\ processed'[j] = n /\ failed'[j] = failed[j] + 1 /\ errors'[j] = errors[j] \cup {e}
      BY <1>2 DEF RejectDocument, AtNextDocument, NextDocument, DivertedRows, TypeOK
    <2>2. Item(e) = <<n, 0>> /\ <<n, 0>> \notin Diverted(j)
      BY <2>1 DEF Item, JobInv, Bookkeeping, Due
    <2>. HIDE DEF e
    <2>3. IsFiniteSet(errors'[j]) /\ Cardinality(errors'[j]) = failed'[j]
      BY <2>1, <2>2, RecordCounts
    <2>4. Cardinality(Sound(documents[j], n)) = Cardinality(Sound(documents[j], processed[j]))
      <3>1. DivertedRows(documents[j][n]) # {}  BY <2>1
      <3>. QED  BY <2>1, <3>1, SoundStep
    <2>. QED  BY <2>1, <2>3, <2>4 DEF Counts
  <1>3. CASE ExtractDocument(j)
    <2>. DEFINE n == processed[j] + 1
    <2>1. /\ pc[j] = "loop" /\ pc' = pc /\ processed[j] \in Nat /\ succeeded[j] \in Nat
          /\ UNCHANGED <<documents, failed, errors>>
          /\ processed'[j] = n
          /\ DivertedRows(documents[j][n]) = InvalidRows(documents[j][n])
          /\ succeeded'[j] = IF InvalidRows(documents[j][n]) = {}
                               THEN succeeded[j] + 1 ELSE succeeded[j]
      BY <1>3 DEF ExtractDocument, AtNextDocument, NextDocument, DivertedRows, TypeOK, tables
    <2>2. Cardinality(Sound(documents[j], n)) =
            IF DivertedRows(documents[j][n]) = {}
              THEN Cardinality(Sound(documents[j], processed[j])) + 1
              ELSE Cardinality(Sound(documents[j], processed[j]))
      BY <2>1, SoundStep
    <2>. QED  BY <2>1, <2>2 DEF Counts
  <1>4. ASSUME NEW r \in invalid[j], NEW category \in Categories, RecordInvalid(j, r, category)
        PROVE  Counts(j)'
    <2>. DEFINE e == [doc |-> processed[j], row |-> r, category |-> category]
    <2>1. /\ pc[j] = "loop" /\ pc'[j] \in {"loop", "enqueue"} /\ processed[j] \in Nat
          /\ UNCHANGED <<documents, processed, succeeded>>
          /\ failed'[j] = failed[j] + 1 /\ errors'[j] = errors[j] \cup {e}
      BY <1>4 DEF RecordInvalid, AfterRecording, TypeOK
    <2>2. Item(e) = <<processed[j], r>> /\ <<processed[j], r>> \notin Diverted(j)
      BY <2>1 DEF Item, JobInv, Bookkeeping
    <2>. HIDE DEF e
    <2>3. IsFiniteSet(errors'[j]) /\ Cardinality(errors'[j]) = failed'[j]
      BY <2>1, <2>2, RecordCounts
    <2>. QED  BY <2>1, <2>3 DEF Counts
  <1>5. CASE EnqueueHealing(j) \/ SkipLoad(j) \/ LoadRecords(j)
    <2>1. /\ pc'[j] # "done"
          /\ UNCHANGED <<documents, processed, succeeded, failed, errors>>
      BY <1>5 DEF EnqueueHealing, SkipLoad, LoadRecords, TypeOK, locals, tables
    <2>. QED  BY <2>1 DEF Counts
  <1>6. CASE CompleteBatch(j)
    BY <1>6 DEF CompleteBatch, Counts, TypeOK, locals
  <1>7. CASE \/ FailRejection(j) \/ FailDocument(j) \/ FailLoad(j)
             \/ \E r \in invalid[j] : FailRecording(j, r)
             \/ ModelFault(j) \/ Interrupt(j)
    <2>. PICK why : Stop(j, why)
      BY <1>7 DEF FailRejection, FailDocument, FailLoad, FailRecording, ModelFault, Interrupt
    <2>1. /\ pc'[j] = "stopped"
          /\ UNCHANGED <<documents, processed, succeeded, failed, errors>>
      BY DEF Stop, TypeOK, locals, tables
    <2>. QED  BY <2>1 DEF Counts
  <1>. QED  BY <1>1, <1>2, <1>3, <1>4, <1>5, <1>6, <1>7 DEF StepOf, Proceed

\* A document left no error record exactly when it had nothing to divert.
LEMMA CleanIsSound ==
  ASSUME IInv, NEW j \in Jobs, pc[j] = "done"
  PROVE  Clean(j) = Sound(documents[j], Len(documents[j]))
  <1>. TypeOK /\ JobInv(j)  BY DEF IInv
  <1>. DEFINE docs == documents[j]
  <1>1. docs \in Seq(Payload) /\ DOMAIN docs = 1..Len(docs)
    BY DocumentsTyped
  <1>2. Diverted(j) = Due(docs, Len(docs))
    BY DEF JobInv, Progress, Bookkeeping
  <1>3. \A d \in 1..Len(docs) : DivertedRows(docs[d]) \subseteq Nat
    BY <1>1, DivertedRowsTyped
  <1>4. \A d \in 1..Len(docs) : (\E e \in errors[j] : e.doc = d) <=> DivertedRows(docs[d]) # {}
    <2>. SUFFICES ASSUME NEW d \in 1..Len(docs)
                  PROVE  (\E e \in errors[j] : e.doc = d) <=> DivertedRows(docs[d]) # {}
      OBVIOUS
    <2>1. ASSUME NEW e \in errors[j], e.doc = d PROVE DivertedRows(docs[d]) # {}
      <3>1. <<e.doc, e.row>> \in Due(docs, Len(docs))
        BY <1>2 DEF Diverted, Item
      <3>. QED  BY <2>1, <3>1 DEF Due
    <2>2. ASSUME NEW r \in DivertedRows(docs[d]) PROVE \E e \in errors[j] : e.doc = d
      <3>1. <<d, r>> \in Due(docs, Len(docs))
        BY <1>3 DEF Due
      <3>2. PICK e \in errors[j] : Item(e) = <<d, r>>
        BY <1>2, <3>1 DEF Diverted
      <3>. QED  BY <3>2 DEF Item
    <2>. QED  BY <2>1, <2>2
  <1>. QED  BY <1>1, <1>4 DEF Clean, Sound

\* Whatever a batch holds and whatever interrupts other runs, the failures and
\* the verdict of the audit row can be read back from the error repository.
THEOREM VerdictAgrees == Spec => []VerdictMatchesRepository
  <1>. DEFINE AllCounts == \A j \in Jobs : Counts(j)
  <1>1. Init => AllCounts
    <2>. SUFFICES ASSUME Init, NEW j \in Jobs PROVE Counts(j)
      OBVIOUS
    <2>1. Sound(documents[j], 0) = {}
      BY DEF Sound
    <2>. QED  BY <2>1, FS_EmptySet DEF Init, Counts
  <1>2. IInv /\ AllCounts /\ [Next]_vars => AllCounts'
    <2>. SUFFICES ASSUME IInv, AllCounts, [Next]_vars, NEW k \in Jobs PROVE Counts(k)'
      OBVIOUS
    <2>0. Counts(k)  OBVIOUS
    <2>1. CASE UNCHANGED vars
      BY <2>0, <2>1 DEF Counts, vars, locals, tables
    <2>2. CASE Next
      <3>. PICK j \in Jobs : StepOf(j)
        BY <2>2 DEF Next, StepOf
      <3>1. CASE k = j  BY <2>0, <3>1, CountsStep
      <3>2. CASE k # j
        <4>1. Untouched(k)  BY <3>2, OthersUntouched DEF IInv
        <4>. QED  BY <2>0, <4>1 DEF Untouched, Counts
      <3>. QED  BY <3>1, <3>2
    <2>. QED  BY <2>1, <2>2
  <1>3. IInv /\ AllCounts => VerdictMatchesRepository
    <2>. SUFFICES ASSUME IInv, AllCounts, NEW j \in Jobs, HasVerdict(j)
                  PROVE  /\ audit[j].failed = Cardinality(errors[j])
                         /\ audit[j].status = "SUCCESS" <=> errors[j] = {}
                         /\ audit[j].status = "PARTIAL_SUCCESS" => Clean(j) # {}
      BY DEF VerdictMatchesRepository
    <2>. TypeOK /\ JobInv(j) /\ Counts(j)  BY DEF IInv
    <2>1. pc[j] = "done"
      BY DEF JobInv, VerdictState
    <2>2. processed[j] = Len(documents[j])
      BY <2>1 DEF JobInv, Progress
    <2>3. Clean(j) = Sound(documents[j], Len(documents[j]))
      BY <2>1, CleanIsSound
    <2>4. Len(documents[j]) \in Nat
      BY DocumentsTyped
    <2>5. IsFiniteSet(Clean(j)) /\ succeeded[j] = Cardinality(Clean(j))
      BY <2>2, <2>3, <2>4, SoundStep DEF Counts
    <2>6. succeeded[j] = 0 <=> Clean(j) = {}
      BY <2>5, FS_EmptySet
    <2>7. failed[j] = 0 <=> errors[j] = {}
      BY DEF JobInv, VerdictState
    <2>. QED  BY <2>1, <2>2, <2>5, <2>6, <2>7 DEF Counts, Verdict
  <1>. QED  BY <1>1, <1>2, <1>3, Invariance, PTL DEF Spec

-----------------------------------------------------------------------------
(* What a payload that stops a run leaves behind                           *)

\* The rows of the document taken last are recorded in their order.
InOrder(j) ==
  \A item \in Diverted(j), s \in invalid[j] : item[1] = processed[j] => item[2] < s

StoppedByData(j) ==
  /\ target[j] = {}
  /\ audit[j].status = "RUNNING"
  /\ Orphans(j) = {}
  /\ Diverted(j) \subseteq ToDivert(documents[j])
  /\ \A a \in Diverted(j), b \in ToDivert(documents[j]) \ Diverted(j) : Precedes(a, b)

\* Only a stopped run has a cause, and a run under way has its audit row.
StopState(j) ==
  /\ InOrder(j)
  /\ cause[j] # "none" => pc[j] = "stopped"
  /\ pc[j] \in Active => audit[j].status = "RUNNING"
  /\ cause[j] = "data" => StoppedByData(j)

\* What a payload leaves that stops the run within the loop.
LEMMA StopLeaves ==
  ASSUME TypeOK, NEW j \in Jobs, JobInv(j), StopState(j), pc[j] = "loop", Stop(j, "data")
  PROVE  StopState(j)'
  <1>1. /\ pc'[j] = "stopped" /\ cause'[j] = "data"
        /\ UNCHANGED <<target, audit, errors, queue, documents, processed, invalid>>
    BY DEF Stop, TypeOK, tables, locals
  <1>2. target[j] = {} /\ audit[j].status = "RUNNING" /\ Orphans(j) = {}
    BY DEF JobInv, LoadState, Enqueueing, StopState, Active
  <1>3. /\ Diverted(j) = Due(documents[j], processed[j]) \ ({processed[j]} \X invalid[j])
        /\ documents[j] \in Seq(Payload) /\ processed[j] \in Nat
        /\ processed[j] <= Len(documents[j])
        /\ ToDivert(documents[j]) = Due(documents[j], Len(documents[j]))
    BY DocumentsTyped, DueIsAll DEF JobInv, Bookkeeping, TypeOK, Progress
  <1>4. Diverted(j) \subseteq ToDivert(documents[j])
    BY <1>3 DEF Due
  <1>5. ASSUME NEW a \in Diverted(j), NEW b \in ToDivert(documents[j]) \ Diverted(j)
        PROVE  Precedes(a, b)
    <2>1. /\ a[1] \in 1..processed[j] /\ a[2] \in Nat
          /\ b[1] \in 1..Len(documents[j]) /\ b[2] \in Nat
      BY <1>3 DEF Due
    <2>2. b[1] > processed[j] \/ (b[1] = processed[j] /\ b[2] \in invalid[j])
      <3>1. CASE b[1] > processed[j]
        BY <3>1
      <3>2. CASE ~(b[1] > processed[j])
        <4>1. b \in Due(documents[j], processed[j])
          BY <1>3, <2>1, <3>2 DEF Due
        <4>2. b \in {processed[j]} \X invalid[j]
          BY <1>3, <4>1
        <4>. QED  BY <4>2
      <3>. QED  BY <3>1, <3>2
    <2>3. a[1] = processed[j] /\ b[2] \in invalid[j] => a[2] < b[2]
      BY DEF StopState, InOrder
    <2>. QED  BY <1>3, <2>1, <2>2, <2>3 DEF Precedes
  <1>6. InOrder(j)'
    BY <1>1 DEF StopState, InOrder, Diverted
  <1>7. StoppedByData(j)'
    BY <1>1, <1>2, <1>4, <1>5 DEF StoppedByData, Orphans, Diverted
  <1>. QED  BY <1>1, <1>6, <1>7 DEF StopState, Active

\* A step that adds nothing to the repository or leaves no row to record.
LEMMA OrderKept ==
  ASSUME NEW j \in Jobs, InOrder(j),
         \/ UNCHANGED <<errors[j], invalid[j], processed[j]>>
         \/ invalid'[j] = {}
  PROVE  InOrder(j)'
  BY DEF InOrder, Diverted

\* The step of a run, whichever it is.
LEMMA StopStateStep ==
  ASSUME TypeOK, NEW j \in Jobs, JobInv(j), StopState(j), StepOf(j)
  PROVE  StopState(j)'
  <1>. USE DEF Active
  <1>1. CASE \E batch \in Batches : StartBatch(j, batch)
    <2>1. /\ pc[j] = "idle" /\ pc'[j] = "loop" /\ audit'[j].status = "RUNNING"
          /\ UNCHANGED <<cause, errors, invalid, processed>>
      BY <1>1 DEF StartBatch, FreshBatchId, TypeOK, AuditRow
    <2>. QED  BY <2>1, OrderKept DEF StopState
  <1>2. CASE FailRejection(j) \/ FailDocument(j) \/ FailLoad(j) \/ \E r \in invalid[j] : FailRecording(j, r)
    <2>1. Stop(j, "data") /\ pc[j] = "loop"
      BY <1>2 DEF FailRejection, FailDocument, FailLoad, FailRecording, AtNextDocument, AllProcessed
    <2>. QED  BY <2>1, StopLeaves
  <1>5. CASE ModelFault(j) \/ Interrupt(j)
    <2>1. PICK why \in {"model", "infrastructure"} : Stop(j, why)
      BY <1>5 DEF ModelFault, Interrupt
    <2>2. /\ pc'[j] = "stopped" /\ cause'[j] = why
          /\ UNCHANGED <<errors, invalid, processed>>
      BY <2>1 DEF Stop, TypeOK, locals, tables
    <2>. QED  BY <2>1, <2>2, OrderKept DEF StopState
  <1>6. CASE RejectDocument(j)
    <2>1. pc[j] = "loop" /\ invalid'[j] = {} /\ UNCHANGED <<pc, audit, cause>>
      BY <1>6 DEF RejectDocument, AtNextDocument
    <2>. QED  BY <2>1, OrderKept DEF StopState
  <1>7. CASE ExtractDocument(j)
    <2>1. /\ pc[j] = "loop" /\ processed'[j] = processed[j] + 1 /\ processed[j] \in Nat
          /\ UNCHANGED <<pc, audit, cause, errors>>
      BY <1>7 DEF ExtractDocument, AtNextDocument, tables, TypeOK
    <2>2. \A item \in Diverted(j)' : item[1] # processed'[j]
      BY <2>1 DEF JobInv, Bookkeeping, Due, Diverted
    <2>. QED  BY <2>1, <2>2 DEF StopState, InOrder
  <1>8. ASSUME NEW r \in invalid[j], NEW category, RecordInvalid(j, r, category) PROVE StopState(j)'
    <2>. DEFINE e == [doc |-> processed[j], row |-> r, category |-> category]
    <2>1. /\ pc[j] = "loop" /\ UNCHANGED <<audit, cause, processed>>
          /\ \A s \in invalid[j] : r <= s
          /\ errors'[j] = errors[j] \cup {e} /\ invalid'[j] = invalid[j] \ {r}
          /\ invalid[j] \subseteq Nat
      BY <1>8 DEF RecordInvalid, IsNextInvalid, TypeOK
    <2>2. Item(e) = <<processed[j], r>>
      BY DEF Item
    <2>. HIDE DEF e
    <2>3. Diverted(j)' = Diverted(j) \cup {<<processed[j], r>>}
      BY <2>1, <2>2 DEF Diverted
    <2>4. \A s \in invalid'[j] : r < s
      BY <2>1
    <2>5. InOrder(j)'
      BY <2>1, <2>3, <2>4 DEF StopState, InOrder
    <2>6. pc[j] \in Active /\ cause'[j] = "none"
      BY <2>1 DEF StopState, TypeOK, Causes
    <2>. QED  BY <2>1, <2>5, <2>6 DEF StopState
  <1>9. CASE EnqueueHealing(j) \/ SkipLoad(j) \/ LoadRecords(j)
    <2>1. pc[j] \in Active /\ UNCHANGED <<audit, cause, errors, invalid, processed>>
      BY <1>9 DEF EnqueueHealing, SkipLoad, LoadRecords, AllProcessed, tables, locals
    <2>. QED  BY <2>1, OrderKept DEF StopState
  <1>10. CASE CompleteBatch(j)
    <2>1. /\ pc[j] = "complete" /\ pc'[j] = "done"
          /\ UNCHANGED <<cause, errors, invalid, processed>>
      BY <1>10 DEF CompleteBatch, TypeOK, locals
    <2>. QED  BY <2>1, OrderKept DEF StopState
  <1>. QED  BY <1>1, <1>2, <1>5, <1>6, <1>7, <1>8, <1>9, <1>10 DEF StepOf, Proceed

\* Whatever the documents and the faults: a payload that stops its run costs
\* the batch its delivery and its verdict, and leaves on record, with their
\* queue rows, exactly the items that come first.
THEOREM DataStop == Spec => []DataStopLeaves
  <1>. DEFINE AllStops == \A j \in Jobs : StopState(j)
  <1>1. Init => AllStops
    BY DEF Init, StopState, Active, InOrder
  <1>2. IInv /\ AllStops /\ [Next]_vars => AllStops'
    <2>. SUFFICES ASSUME IInv, AllStops, [Next]_vars, NEW k \in Jobs PROVE StopState(k)'
      OBVIOUS
    <2>1. TypeOK /\ StopState(k) /\ JobInv(k)
      BY DEF IInv
    <2>2. ASSUME Untouched(k) PROVE StopState(k)'
      BY <2>1, <2>2 DEF Untouched, StopState, InOrder, StoppedByData, Orphans, Diverted
    <2>3. CASE UNCHANGED vars
      BY <2>2, <2>3 DEF vars, locals, tables, Untouched
    <2>4. CASE Next
      <3>. PICK j \in Jobs : StepOf(j)
        BY <2>4 DEF Next, StepOf
      <3>1. CASE k = j  BY <2>1, <3>1, StopStateStep
      <3>2. CASE k # j  BY <2>1, <2>2, <3>2, OthersUntouched
      <3>. QED  BY <3>1, <3>2
    <2>. QED  BY <2>3, <2>4
  <1>3. AllStops => DataStopLeaves
    BY DEF StopState, StoppedByData, DataStopLeaves
  <1>. QED  BY <1>1, <1>2, <1>3, Invariance, PTL DEF Spec

-----------------------------------------------------------------------------
(* A queue row stands for one error                                        *)

\* An item is recorded once, and a queue row comes from the error that was
\* recorded for its item.
Backed(j) ==
  /\ \A q \in queue[j] : \E e \in errors[j] :
       /\ Item(e) = Item(q)
       /\ e.category \in Recoverable
       /\ q.policy = PolicyFor(e.category)
  /\ \A e1, e2 \in errors[j] : Item(e1) = Item(e2) => e1 = e2

\* An error about an item that is not on record keeps every queue row backed.
LEMMA BackedByNew ==
  ASSUME NEW j \in Jobs, Backed(j), NEW e, Item(e) \notin Diverted(j),
         errors'[j] = errors[j] \cup {e}, queue'[j] = queue[j]
  PROVE  Backed(j)'
  <1>1. \A f \in errors[j] : Item(f) # Item(e)
    BY DEF Diverted
  <1>2. \A e1, e2 \in errors'[j] : Item(e1) = Item(e2) => e1 = e2
    BY <1>1 DEF Backed
  <1>3. \A q \in queue'[j] : \E f \in errors'[j] :
          /\ Item(f) = Item(q)
          /\ f.category \in Recoverable
          /\ q.policy = PolicyFor(f.category)
    BY DEF Backed
  <1>. QED  BY <1>2, <1>3 DEF Backed, Item

\* Every step of a run keeps its queue rows backed.
LEMMA BackedStep ==
  ASSUME IInv, NEW j \in Jobs, Backed(j), StepOf(j)
  PROVE  Backed(j)'
  <1>. TypeOK /\ JobInv(j)  BY DEF IInv
  <1>1. CASE RejectDocument(j)
    <2>. DEFINE n == processed[j] + 1
                e == [doc |-> n, row |-> 0, category |-> "SCHEMA"]
    <2>1. /\ pc[j] = "loop" /\ invalid[j] = {} /\ processed[j] \in Nat
          /\ errors'[j] = errors[j] \cup {e} /\ queue'[j] = queue[j]
      BY <1>1 DEF RejectDocument, AtNextDocument, TypeOK
    <2>2. Item(e) \notin Diverted(j)
      BY <2>1 DEF Item, JobInv, Bookkeeping, Due
    <2>. HIDE DEF e
    <2>. QED  BY <2>1, <2>2, BackedByNew
  <1>2. ASSUME NEW r \in invalid[j], NEW category \in Categories, RecordInvalid(j, r, category)
        PROVE  Backed(j)'
    <2>. DEFINE e == [doc |-> processed[j], row |-> r, category |-> category]
    <2>1. /\ pc[j] = "loop" /\ processed[j] \in Nat
          /\ errors'[j] = errors[j] \cup {e} /\ queue'[j] = queue[j]
      BY <1>2 DEF RecordInvalid, TypeOK
    <2>2. Item(e) \notin Diverted(j)
      BY <2>1 DEF Item, JobInv, Bookkeeping
    <2>. HIDE DEF e
    <2>. QED  BY <2>1, <2>2, BackedByNew
  <1>3. CASE EnqueueHealing(j)
    <2>. DEFINE e == recorded[j]
                q == [doc |-> e.doc, row |-> e.row, policy |-> PolicyFor(e.category)]
    <2>1. /\ pc[j] = "enqueue"
          /\ queue'[j] = queue[j] \cup {q} /\ errors' = errors
      BY <1>3 DEF EnqueueHealing, TypeOK
    <2>2. e \in errors'[j] /\ e.category \in Recoverable
      BY <2>1 DEF JobInv, Enqueueing
    <2>3. Item(e) = Item(q) /\ q.policy = PolicyFor(e.category)
      BY DEF Item
    <2>. HIDE DEF e, q
    <2>. QED  BY <2>1, <2>2, <2>3 DEF Backed
  <1>4. CASE \/ \E batch \in Batches : StartBatch(j, batch)
             \/ ExtractDocument(j) \/ SkipLoad(j) \/ LoadRecords(j) \/ CompleteBatch(j)
    <2>1. UNCHANGED <<errors, queue>>
      BY <1>4 DEF StartBatch, ExtractDocument, SkipLoad, LoadRecords, CompleteBatch, tables, locals
    <2>. QED  BY <2>1 DEF Backed
  <1>5. CASE \/ FailRejection(j) \/ FailDocument(j) \/ FailLoad(j)
             \/ \E r \in invalid[j] : FailRecording(j, r)
             \/ ModelFault(j) \/ Interrupt(j)
    <2>1. UNCHANGED <<errors, queue>>
      BY <1>5 DEF FailRejection, FailDocument, FailLoad, FailRecording, ModelFault, Interrupt, Stop, tables
    <2>. QED  BY <2>1 DEF Backed
  <1>. QED  BY <1>1, <1>2, <1>3, <1>4, <1>5 DEF StepOf, Proceed

\* Healing is asked for errors on record only, once each, and under the
\* policy of the category that is on record.
THEOREM QueueAgrees == Spec => []QueueBacked
  <1>. DEFINE AllBacked == \A j \in Jobs : Backed(j)
  <1>1. Init => AllBacked
    BY DEF Init, Backed
  <1>2. IInv /\ AllBacked /\ [Next]_vars => AllBacked'
    <2>. SUFFICES ASSUME IInv, AllBacked, [Next]_vars, NEW k \in Jobs PROVE Backed(k)'
      OBVIOUS
    <2>0. Backed(k)  OBVIOUS
    <2>1. CASE UNCHANGED vars
      BY <2>0, <2>1 DEF Backed, vars, tables
    <2>2. CASE Next
      <3>. PICK j \in Jobs : StepOf(j)
        BY <2>2 DEF Next, StepOf
      <3>1. CASE k = j  BY <2>0, <3>1, BackedStep
      <3>2. CASE k # j
        <4>1. Untouched(k)  BY <3>2, OthersUntouched DEF IInv
        <4>. QED  BY <2>0, <4>1 DEF Untouched, Backed
      <3>. QED  BY <3>1, <3>2
    <2>. QED  BY <2>1, <2>2
  <1>3. IInv /\ AllBacked => QueueBacked
    <2>. SUFFICES ASSUME IInv, AllBacked, NEW j \in Jobs,
                         NEW q1 \in queue[j], NEW q2 \in queue[j], Item(q1) = Item(q2)
                  PROVE  q1 = q2
      BY DEF QueueBacked, Backed
    <2>1. q1 \in QueueRow /\ q2 \in QueueRow
      BY DEF IInv, TypeOK
    <2>2. PICK e1 \in errors[j] : Item(e1) = Item(q1) /\ q1.policy = PolicyFor(e1.category)
      BY DEF Backed
    <2>3. PICK e2 \in errors[j] : Item(e2) = Item(q2) /\ q2.policy = PolicyFor(e2.category)
      BY DEF Backed
    <2>4. e1 = e2
      BY <2>2, <2>3 DEF Backed
    <2>5. q1.doc = q2.doc /\ q1.row = q2.row /\ q1.policy = q2.policy
      BY <2>2, <2>3, <2>4 DEF Item
    <2>. QED  BY <2>1, <2>5 DEF QueueRow
  <1>. QED  BY <1>1, <1>2, <1>3, Invariance, PTL DEF Spec

-----------------------------------------------------------------------------
(* The run implements the ledger                                           *)

\* The abstract variables at a run, as the mapping gives them.
Phase(j) == CASE pc[j] = "idle"    -> "unopened"
              [] pc[j] = "done"    -> "closed"
              [] pc[j] = "stopped" -> "abandoned"
              [] OTHER             -> "open"
PhaseMap   == [j \in Jobs |-> Phase(j)]
DivertMap  == [j \in Jobs |-> ToDivert(documents[j])]
DeliverMap == [j \in Jobs |-> IF j \in LoadingJobs THEN ToDeliver(documents[j]) ELSE {}]
RecordMap  == [j \in Jobs |-> Diverted(j)]
VerdictMap == [j \in Jobs |-> IF HasVerdict(j) THEN audit[j].status ELSE "pending"]

\* The initial state maps to the abstract one.
LEMMA LedgerInit == Init => Ledger!Init
  <1>. SUFFICES ASSUME Init PROVE Ledger!Init
    OBVIOUS
  <1>. USE DEF Init
  <1>1. \A j \in Jobs : ToDivert(documents[j]) = {} /\ ToDeliver(documents[j]) = {}
    BY DEF ToDivert, ToDeliver
  <1>2. \A j \in Jobs : Diverted(j) = {} /\ ~HasVerdict(j)
    BY DEF Diverted, HasVerdict, Verdicts
  <1>. QED  BY <1>1, <1>2 DEF Ledger!Init

\* The items of a batch split into those to divert and those to deliver.
LEMMA ItemsOfBatch ==
  ASSUME NEW docs \in Seq(Payload)
  PROVE  /\ ToDivert(docs) \subseteq Nat \X Nat
         /\ ToDeliver(docs) \subseteq (Nat \X Nat) \ ToDivert(docs)
  <1>1. /\ Due(docs, Len(docs)) = ToDivert(docs)
        /\ Gathered(docs, Len(docs)) = ToDeliver(docs)
    BY DueIsAll
  <1>2. Due(docs, Len(docs)) \cap Gathered(docs, Len(docs)) = {}
    BY DEF Due, Gathered, DivertedRows, DeliveredRows, InvalidRows, ValidRows, RowsWith
  <1>. QED  BY <1>1, <1>2 DEF Due, Gathered

\* Every other run keeps its place in the ledger.
LEMMA LedgerFrame ==
  ASSUME TypeOK, NEW j \in Jobs, StepOf(j)
  PROVE  \A k \in Jobs \ {j} :
           /\ PhaseMap'[k] = PhaseMap[k]
           /\ DivertMap'[k] = DivertMap[k]
           /\ DeliverMap'[k] = DeliverMap[k]
           /\ RecordMap'[k] = RecordMap[k]
           /\ target'[k] = target[k]
           /\ VerdictMap'[k] = VerdictMap[k]
  <1>. SUFFICES ASSUME NEW k \in Jobs \ {j}
                PROVE  /\ PhaseMap'[k] = PhaseMap[k]
                       /\ DivertMap'[k] = DivertMap[k]
                       /\ DeliverMap'[k] = DeliverMap[k]
                       /\ RecordMap'[k] = RecordMap[k]
                       /\ target'[k] = target[k]
                       /\ VerdictMap'[k] = VerdictMap[k]
    OBVIOUS
  <1>1. Untouched(k)  BY OthersUntouched
  <1>. QED
    BY <1>1 DEF Untouched, PhaseMap, Phase, DivertMap, DeliverMap, RecordMap, VerdictMap,
       Diverted, HasVerdict

\* A step of one run changes the ledger at that run only.
LEMMA LedgerChange ==
  ASSUME TypeOK, TypeOK', NEW j \in Jobs, StepOf(j)
  PROVE  /\ PhaseMap'   = [PhaseMap EXCEPT ![j] = PhaseMap'[j]]
         /\ DivertMap'  = [DivertMap EXCEPT ![j] = DivertMap'[j]]
         /\ DeliverMap' = [DeliverMap EXCEPT ![j] = DeliverMap'[j]]
         /\ RecordMap'  = [RecordMap EXCEPT ![j] = RecordMap'[j]]
         /\ target'     = [target EXCEPT ![j] = target'[j]]
         /\ VerdictMap' = [VerdictMap EXCEPT ![j] = VerdictMap'[j]]
  <1>1. PhaseMap' = [PhaseMap EXCEPT ![j] = PhaseMap'[j]]
    BY LedgerFrame DEF PhaseMap
  <1>2. DivertMap' = [DivertMap EXCEPT ![j] = DivertMap'[j]]
    BY LedgerFrame DEF DivertMap
  <1>3. DeliverMap' = [DeliverMap EXCEPT ![j] = DeliverMap'[j]]
    BY LedgerFrame DEF DeliverMap
  <1>4. RecordMap' = [RecordMap EXCEPT ![j] = RecordMap'[j]]
    BY LedgerFrame DEF RecordMap
  <1>5. target' = [target EXCEPT ![j] = target'[j]]
    BY LedgerFrame DEF TypeOK
  <1>6. VerdictMap' = [VerdictMap EXCEPT ![j] = VerdictMap'[j]]
    BY LedgerFrame DEF VerdictMap
  <1>. QED  BY <1>1, <1>2, <1>3, <1>4, <1>5, <1>6

\* The ledger at a run, before a step: what the mapping makes of the
\* invariant while the run is active.
LEMMA LedgerOpen ==
  ASSUME IInv, NEW j \in Jobs, pc[j] \in Active
  PROVE  /\ PhaseMap[j] = "open" /\ VerdictMap[j] = "pending"
         /\ pc[j] # "complete" => target[j] = {}
         /\ processed[j] = Len(documents[j]) /\ invalid[j] = {} =>
              /\ RecordMap[j] = DivertMap[j]
              /\ Loaded(j) = DeliverMap[j]
  <1>. TypeOK /\ JobInv(j)  BY DEF IInv
  <1>1. PhaseMap[j] = "open" /\ VerdictMap[j] = "pending"
    BY DEF PhaseMap, Phase, VerdictMap, JobInv, VerdictState, Active
  <1>2. pc[j] # "complete" => target[j] = {}
    BY DEF JobInv, LoadState, Active
  <1>3. ASSUME processed[j] = Len(documents[j]), invalid[j] = {}
        PROVE  RecordMap[j] = DivertMap[j] /\ Loaded(j) = DeliverMap[j]
    <2>1. /\ Diverted(j) = Due(documents[j], Len(documents[j]))
          /\ valid[j] = Gathered(documents[j], Len(documents[j]))
      BY <1>3 DEF JobInv, Bookkeeping, Active
    <2>. QED
      BY <2>1, DocumentsTyped, DueIsAll DEF RecordMap, DivertMap, DeliverMap, Loaded
  <1>. QED  BY <1>1, <1>2, <1>3

\* One more item on record, which was due and was not there before.
LEMMA LedgerDivert ==
  ASSUME IInv, TypeOK', NEW j \in Jobs, StepOf(j), pc[j] = "loop", NEW item,
         item \in DivertMap[j] \ RecordMap[j],
         Diverted(j)' = Diverted(j) \cup {item},
         pc'[j] \in Active,
         UNCHANGED <<documents, audit, target>>
  PROVE  Ledger!Divert(j)
  <1>. TypeOK  BY DEF IInv
  <1>1. PhaseMap[j] = "open" /\ target[j] = {}
    BY LedgerOpen DEF Active
  <1>2. PhaseMap'[j] = "open"
    BY DEF PhaseMap, Phase, Active
  <1>3. PhaseMap' = PhaseMap
    BY <1>1, <1>2, LedgerFrame DEF PhaseMap
  <1>4. DivertMap' = DivertMap /\ DeliverMap' = DeliverMap /\ VerdictMap' = VerdictMap
    BY DEF DivertMap, DeliverMap, VerdictMap, HasVerdict
  <1>5. RecordMap' = [RecordMap EXCEPT ![j] = @ \cup {item}]
    BY LedgerChange DEF RecordMap
  <1>. QED
    BY <1>1, <1>3, <1>4, <1>5 DEF Ledger!Divert, PhaseMap, Phase, DivertMap, DeliverMap,
       RecordMap, VerdictMap

\* The step of a run maps to one step of the abstract ledger, or to none.
LEMMA LedgerStep ==
  ASSUME IInv, IInv', NEW j \in Jobs, StepOf(j)
  PROVE  Ledger!Next \/ UNCHANGED Ledger!ledger
  <1>. TypeOK /\ JobInv(j) /\ TypeOK' /\ JobInv(j)'  BY DEF IInv
  <1>. DEFINE docs == documents[j]
  <1>0. /\ docs \in Seq(Payload)
        /\ DivertMap[j] = Due(docs, Len(docs))
        /\ RecordMap[j] = Diverted(j)
    BY DocumentsTyped, DueIsAll DEF DivertMap, RecordMap
  <1>1. ASSUME NEW batch \in Batches, StartBatch(j, batch) PROVE Ledger!Open(j)
    <2>1. PhaseMap[j] = "unopened" /\ PhaseMap'[j] = "open"
      BY <1>1 DEF StartBatch, FreshBatchId, PhaseMap, Phase, TypeOK
    <2>2. documents'[j] \in Seq(Payload)
      BY <1>1, ConstantsAssumption DEF StartBatch, TypeOK
    <2>3. DivertMap'[j] = ToDivert(documents'[j]) /\ DeliverMap'[j] \subseteq ToDeliver(documents'[j])
      BY DEF DivertMap, DeliverMap, ToDivert, ToDeliver
    <2>4. DivertMap'[j] \subseteq Nat \X Nat /\ DeliverMap'[j] \subseteq (Nat \X Nat) \ DivertMap'[j]
      BY <2>2, <2>3, ItemsOfBatch
    <2>5. RecordMap' = RecordMap /\ target' = target
      BY <1>1 DEF StartBatch, RecordMap, Diverted
    <2>6. VerdictMap' = VerdictMap
      <3>1. ~HasVerdict(j) /\ ~HasVerdict(j)'
        BY <1>1 DEF StartBatch, FreshBatchId, JobInv, VerdictState, TypeOK
      <3>2. VerdictMap'[j] = VerdictMap[j]
        BY <3>1 DEF VerdictMap
      <3>. QED  BY <3>2, LedgerFrame DEF VerdictMap
    <2>. QED
      BY <2>1, <2>4, <2>5, <2>6, LedgerChange
         DEF Ledger!Open, PhaseMap, Phase, DivertMap, DeliverMap, RecordMap, VerdictMap
  <1>2. CASE RejectDocument(j)
    <2>. DEFINE n == processed[j] + 1
    <2>1. /\ pc[j] = "loop" /\ pc'[j] = "loop" /\ invalid[j] = {} /\ processed[j] \in Nat
          /\ n <= Len(docs) /\ ~docs[n].schemaOk
          /\ UNCHANGED <<documents, audit, target>>
      BY <1>2 DEF RejectDocument, AtNextDocument, NextDocument, TypeOK
    <2>2. Diverted(j)' = Diverted(j) \cup {<<n, 0>>}
      <3>. DEFINE e == [doc |-> n, row |-> 0, category |-> "SCHEMA"]
      <3>1. errors'[j] = errors[j] \cup {e}
        BY <1>2 DEF RejectDocument, TypeOK
      <3>2. Item(e) = <<n, 0>>
        BY DEF Item
      <3>. HIDE DEF e
      <3>. QED  BY <3>1, <3>2 DEF Diverted
    <2>3. <<n, 0>> \in Due(docs, Len(docs))
      <3>1. n \in 1..Len(docs)  BY <1>0, <2>1
      <3>. QED  BY <2>1, <3>1 DEF Due, DivertedRows
    <2>4. <<n, 0>> \notin Diverted(j)
      BY <2>1 DEF JobInv, Bookkeeping, Due
    <2>. QED  BY <1>0, <2>1, <2>2, <2>3, <2>4, LedgerDivert DEF Ledger!Next, Active
  <1>3. ASSUME NEW r \in invalid[j], NEW category \in Categories, RecordInvalid(j, r, category)
        PROVE  Ledger!Next
    <2>. DEFINE n == processed[j]
    <2>1. /\ pc[j] = "loop" /\ pc'[j] \in Active
          /\ UNCHANGED <<documents, audit, target>>
      BY <1>3 DEF RecordInvalid, AfterRecording, Active, TypeOK
    <2>2. Diverted(j)' = Diverted(j) \cup {<<n, r>>}
      <3>. DEFINE e == [doc |-> n, row |-> r, category |-> category]
      <3>1. errors'[j] = errors[j] \cup {e}
        BY <1>3 DEF RecordInvalid, TypeOK
      <3>2. Item(e) = <<n, r>>
        BY DEF Item
      <3>. HIDE DEF e
      <3>. QED  BY <3>1, <3>2 DEF Diverted
    <2>3. <<n, r>> \in Due(docs, Len(docs))
      <3>1. n \in 1..Len(docs) /\ r \in Nat /\ docs[n].schemaOk /\ r \in InvalidRows(docs[n])
        BY <1>0 DEF TypeOK, JobInv, Progress
      <3>. QED  BY <3>1 DEF Due, DivertedRows
    <2>4. <<n, r>> \notin Diverted(j)
      BY <2>1 DEF JobInv, Bookkeeping
    <2>. QED  BY <1>0, <2>1, <2>2, <2>3, <2>4, LedgerDivert DEF Ledger!Next
  <1>4. CASE ExtractDocument(j) \/ EnqueueHealing(j) \/ SkipLoad(j)
    <2>1. /\ pc[j] \in Active /\ pc'[j] \in Active
          /\ UNCHANGED <<documents, audit, errors, target>>
      BY <1>4 DEF ExtractDocument, EnqueueHealing, SkipLoad, AtNextDocument, AllProcessed,
                  Active, TypeOK, tables, locals
    <2>2. PhaseMap' = PhaseMap
      <3>1. PhaseMap'[j] = "open" /\ PhaseMap[j] = "open"
        BY <2>1 DEF PhaseMap, Phase, Active
      <3>. QED  BY <3>1, LedgerFrame DEF PhaseMap
    <2>. QED
      BY <2>1, <2>2 DEF Ledger!ledger, PhaseMap, Phase, Diverted, HasVerdict
  <1>5. CASE LoadRecords(j)
    <2>1. /\ pc[j] = "loop" /\ pc'[j] = "complete" /\ invalid[j] = {}
          /\ processed[j] = Len(docs) /\ j \in LoadingJobs
          /\ target' = [target EXCEPT ![j] = target[j] \cup valid[j]]
          /\ UNCHANGED <<documents, audit, errors>>
      BY <1>5 DEF LoadRecords, AllProcessed, TypeOK, locals
    <2>2. /\ PhaseMap[j] = "open" /\ target[j] = {}
          /\ RecordMap[j] = DivertMap[j] /\ valid[j] = DeliverMap[j]
      BY <2>1, LedgerOpen DEF Active, Loaded
    <2>3. PhaseMap' = PhaseMap
      <3>1. PhaseMap'[j] = "open"
        BY <2>1 DEF PhaseMap, Phase
      <3>. QED  BY <2>2, <3>1, LedgerFrame DEF PhaseMap
    <2>4. target' = [target EXCEPT ![j] = DeliverMap[j]]
      BY <2>1, <2>2
    <2>5. Ledger!Deliver(j)
      BY <2>1, <2>2, <2>3, <2>4 DEF Ledger!Deliver, PhaseMap, Phase, DivertMap, DeliverMap,
         RecordMap, Diverted, HasVerdict
    <2>. QED  BY <2>5 DEF Ledger!Next
  <1>6. CASE CompleteBatch(j)
    <2>1. /\ pc[j] = "complete" /\ pc'[j] = "done" /\ invalid[j] = {}
          /\ processed[j] = Len(docs)
          /\ UNCHANGED <<documents, errors, target>>
          /\ audit'[j].status = Verdict(succeeded[j], failed[j])
      BY <1>6 DEF CompleteBatch, TypeOK, JobInv, Progress, locals
    <2>2. /\ PhaseMap[j] = "open" /\ RecordMap[j] = DivertMap[j] /\ Loaded(j) = DeliverMap[j]
      BY <2>1, LedgerOpen DEF Active
    <2>3. target[j] = DeliverMap[j]
      BY <2>1, <2>2 DEF JobInv, LoadState
    <2>4. PhaseMap'[j] = "closed"
      BY <2>1 DEF PhaseMap, Phase
    <2>5. VerdictMap'[j] = Verdict(succeeded[j], failed[j])
      BY <2>1 DEF VerdictMap, HasVerdict, Verdict, Verdicts
    <2>6. DivertMap[j] = {} <=> failed[j] = 0
      BY <1>0, <2>2 DEF JobInv, VerdictState, Diverted
    <2>7. VerdictMap'[j] \in IF DivertMap[j] = {} THEN {"SUCCESS"} ELSE {"FAILED", "PARTIAL_SUCCESS"}
      BY <2>5, <2>6 DEF Verdict
    <2>8. Ledger!Close(j)
      <3>1. PhaseMap' = [PhaseMap EXCEPT ![j] = "closed"]
        BY <2>4, LedgerChange
      <3>2. \E v \in IF DivertMap[j] = {} THEN {"SUCCESS"} ELSE {"FAILED", "PARTIAL_SUCCESS"} :
              VerdictMap' = [VerdictMap EXCEPT ![j] = v]
        BY <2>7, LedgerChange
      <3>3. DivertMap' = DivertMap /\ DeliverMap' = DeliverMap /\ RecordMap' = RecordMap
        BY <2>1 DEF DivertMap, DeliverMap, RecordMap, Diverted
      <3>. QED
        BY <2>1, <2>2, <2>3, <3>1, <3>2, <3>3
           DEF Ledger!Close, PhaseMap, Phase, DivertMap, DeliverMap, RecordMap, VerdictMap
    <2>. QED  BY <2>8 DEF Ledger!Next
  <1>7. ASSUME NEW why, Stop(j, why), pc[j] \in Active PROVE Ledger!Next
    <2>1. /\ pc'[j] = "stopped"
          /\ UNCHANGED <<documents, errors, target, audit>>
      BY <1>7 DEF Stop, TypeOK, locals, tables
    <2>2. PhaseMap[j] = "open" /\ PhaseMap'[j] = "abandoned"
      BY <1>7, <2>1, LedgerOpen DEF PhaseMap, Phase
    <2>3. Ledger!Abandon(j)
      BY <2>1, <2>2, LedgerChange
         DEF Ledger!Abandon, PhaseMap, Phase, Diverted, HasVerdict
    <2>. QED  BY <2>3 DEF Ledger!Next
  <1>8. CASE \/ FailRejection(j) \/ FailDocument(j) \/ FailLoad(j)
             \/ \E r \in invalid[j] : FailRecording(j, r)
             \/ ModelFault(j) \/ Interrupt(j)
    <2>. PICK why : Stop(j, why) /\ pc[j] \in Active
      BY <1>8 DEF FailRejection, FailDocument, FailLoad, FailRecording, ModelFault, CallsModel, Interrupt,
                  AtNextDocument, AllProcessed, Active
    <2>. QED  BY <1>7
  <1>. QED  BY <1>1, <1>2, <1>3, <1>4, <1>5, <1>6, <1>8 DEF StepOf, Proceed, Ledger!Next

\* run_batch, with all its faults, keeps the promises of the abstract ledger.
THEOREM Implementation == Spec => ImplementsLedger
  <1>1. IInv /\ IInv' /\ [Next]_vars => [Ledger!Next]_(Ledger!ledger)
    <2>. SUFFICES ASSUME IInv, IInv', [Next]_vars
                  PROVE  Ledger!Next \/ UNCHANGED Ledger!ledger
      OBVIOUS
    <2>1. CASE UNCHANGED vars
      BY <2>1 DEF vars, locals, tables, Ledger!ledger, Diverted, HasVerdict
    <2>2. CASE Next
      <3>. PICK j \in Jobs : StepOf(j)
        BY <2>2 DEF Next, StepOf
      <3>. QED  BY LedgerStep
    <2>. QED  BY <2>1, <2>2
  <1>. QED  BY <1>1, LedgerInit, Invariance, PTL DEF Spec, ImplementsLedger, Ledger!Spec

=============================================================================
