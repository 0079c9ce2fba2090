------------------------------ MODULE BatchRun ------------------------------
(***************************************************************************)
(* One run of the pipeline over one batch of documents:                    *)
(* PipelineOrchestrator.run_batch with everything it calls that changes    *)
(* state (AuditLogger, ErrorHandler, ErrorClassificationAgent, LoadEngine).*)
(*                                                                         *)
(* Every action is at most one database transaction, because a crash or a  *)
(* database error may fall between any two of them.  Several runs share    *)
(* the tables and interleave freely; the rows of the tables carry the      *)
(* batch_id, so a table is a function from the run to its rows.            *)
(*                                                                         *)
(* What the engines compute is abstracted to what they decide.  A document *)
(* either breaks the JSON schema or is flattened into at least one row     *)
(* (flatten_records keeps the parent row when an array is empty), and a    *)
(* row has one fate:                                                       *)
(*   clean          passes validation and the target table accepts it      *)
(*   unloadable     passes validation but the target table refuses it      *)
(*   rejected       fails validation                                       *)
(*   unrecordable   fails validation and the error repository refuses it   *)
(*   unconvertible  an engine raises on it                                 *)
(* The repository refuses what json.dumps cannot encode (a Decimal, a date)*)
(* and what a JSONB column does not take: NaN and the character \u0000,    *)
(* which json.loads reads from a document.  A document that breaks the     *)
(* schema is recorded as it came, so it may be refused in the same way.    *)
(***************************************************************************)
EXTENDS Naturals, Sequences, FiniteSets

CONSTANTS
  Jobs,           \* runs of run_batch, each with its own batch_id
  Batches,        \* the document lists a run may be given
  LoadingJobs,    \* those whose pipeline has a load_config
  AgentsEnabled,  \* AGENTS.enabled: whether the language model is called
  Faults          \* which of FaultKinds may happen

Categories  == {"SCHEMA", "VALIDATION", "TRANSFORMATION", "LOOKUP", "LOAD", "UNKNOWN"}
Recoverable == {"TRANSFORMATION", "LOOKUP", "LOAD"}
Policies    == {"IMMEDIATE_RETRY", "DELAYED_RETRY"}
Fates       == {"clean", "unloadable", "rejected", "unrecordable", "unconvertible"}
FaultKinds  == {"infrastructure", "model"}

\* hint is what the keyword heuristic makes of the row's error message.
Row     == [fate : Fates, hint : Categories]
\* recordable is whether the repository takes the document itself.
Payload == [schemaOk : BOOLEAN, drift : BOOLEAN, recordable : BOOLEAN, rows : Seq(Row)]

ASSUME ConstantsAssumption ==
  /\ Batches \subseteq Seq(Payload)
  /\ \A batch \in Batches : \A d \in DOMAIN batch : Len(batch[d].rows) >= 1
  /\ LoadingJobs \subseteq Jobs
  /\ AgentsEnabled \in BOOLEAN
  /\ Faults \subseteq FaultKinds

VARIABLES
  \* the local variables of run_batch
  pc,         \* where each run stands
  documents,  \* its documents
  processed,  \* documents taken so far
  succeeded,  \* documents without an invalid row
  failed,     \* rejected documents plus rejected rows
  valid,      \* all_valid_records, as <<document, row>>
  invalid,    \* rows of the current document still to be recorded
  recorded,   \* the error record_error has inserted last
  \* the tables
  audit,      \* metadata.audit_log
  errors,     \* metadata.error_record; row 0 is the whole document
  queue,      \* metadata.self_healing_queue
  target,     \* the target table, as <<document, row>>
  \* history, read by no action
  cause       \* why a run stopped

locals == <<documents, processed, succeeded, failed, valid, invalid, recorded>>
tables == <<audit, errors, queue, target>>
vars   == <<pc, locals, tables, cause>>

Stages   == {"idle", "loop", "enqueue", "complete", "done", "stopped"}
Active   == {"loop", "enqueue", "complete"}
Verdicts == {"SUCCESS", "FAILED", "PARTIAL_SUCCESS"}
Causes   == {"none", "data", "model", "infrastructure"}
ErrorRow == [doc : Nat, row : Nat, category : Categories]
QueueRow == [doc : Nat, row : Nat, policy : Policies]
AuditRow == [status : Verdicts \cup {"ABSENT", "RUNNING"},
             processed : Nat, success : Nat, failed : Nat]

-----------------------------------------------------------------------------
(* What the engines decide about a document                                *)

RowsWith(doc, fates) == {r \in DOMAIN doc.rows : doc.rows[r].fate \in fates}

ValidRows(doc)   == RowsWith(doc, {"clean", "unloadable"})
InvalidRows(doc) == RowsWith(doc, {"rejected", "unrecordable"})
Converts(doc)    == RowsWith(doc, {"unconvertible"}) = {}

\* ErrorClassificationAgent.run: the heuristic first, then the model, whose
\* first word may be any category; without agents the answer is empty.
Classification(row) ==
  IF row.hint # "UNKNOWN" THEN {row.hint}
  ELSE IF AgentsEnabled THEN Categories
  ELSE {"UNKNOWN"}

\* Mutant: the queue is given names the agent does not know.
PolicyForUnknown(category) == IF category = "LOOKUP" THEN "IMMEDIATE" ELSE "DELAYED"

PolicyFor(category) ==
  IF category = "LOOKUP" THEN "IMMEDIATE_RETRY" ELSE "DELAYED_RETRY"

\* Mutant: the two tests of complete_batch in the other order.
VerdictFailedFirst(success, failures) ==
  IF success = 0 THEN "FAILED"
  ELSE IF failures = 0 THEN "SUCCESS"
  ELSE "PARTIAL_SUCCESS"

Verdict(success, failures) ==
  IF failures = 0 THEN "SUCCESS"
  ELSE IF success = 0 THEN "FAILED"
  ELSE "PARTIAL_SUCCESS"

-----------------------------------------------------------------------------
Init ==
  /\ pc        = [j \in Jobs |-> "idle"]
  /\ documents = [j \in Jobs |-> <<>>]
  /\ processed = [j \in Jobs |-> 0]
  /\ succeeded = [j \in Jobs |-> 0]
  /\ failed    = [j \in Jobs |-> 0]
  /\ valid     = [j \in Jobs |-> {}]
  /\ invalid   = [j \in Jobs |-> {}]
  /\ recorded  = [j \in Jobs |-> [doc |-> 0, row |-> 0, category |-> "UNKNOWN"]]
  /\ audit     = [j \in Jobs |-> [status |-> "ABSENT", processed |-> 0,
                                  success |-> 0, failed |-> 0]]
  /\ errors    = [j \in Jobs |-> {}]
  /\ queue     = [j \in Jobs |-> {}]
  /\ target    = [j \in Jobs |-> {}]
  /\ cause     = [j \in Jobs |-> "none"]

Stop(j, why) ==
  /\ pc'    = [pc EXCEPT ![j] = "stopped"]
  /\ cause' = [cause EXCEPT ![j] = why]
  /\ UNCHANGED <<locals, tables>>

\* Mutant: the batch_id is derived from the file instead of uuid4.
ReusedBatchId(j) == pc[j] \in {"idle", "done"}

FreshBatchId(j) == pc[j] = "idle"

StartBatch(j, batch) ==
  /\ FreshBatchId(j)
  /\ pc'        = [pc EXCEPT ![j] = "loop"]
  /\ documents' = [documents EXCEPT ![j] = batch]
  /\ audit'     = [audit EXCEPT ![j].status = "RUNNING"]
  /\ UNCHANGED <<processed, succeeded, failed, valid, invalid, recorded,
                 errors, queue, target, cause>>

\* The run is at the head of the loop over the documents.
AtNextDocument(j) ==
  /\ pc[j] = "loop"
  /\ invalid[j] = {}
  /\ processed[j] < Len(documents[j])

\* Mutant: the load does not wait for the last document's invalid rows.
AllTaken(j) ==
  /\ pc[j] = "loop"
  /\ processed[j] = Len(documents[j])

AllProcessed(j) ==
  /\ pc[j] = "loop"
  /\ invalid[j] = {}
  /\ processed[j] = Len(documents[j])

NextDocument(j) == documents[j][processed[j] + 1]

\* SCHEMA_INVALID: the document is recorded and never enqueued.
RejectDocument(j) ==
  /\ AtNextDocument(j)
  /\ ~NextDocument(j).schemaOk
  /\ NextDocument(j).recordable
  /\ processed' = [processed EXCEPT ![j] = @ + 1]
  /\ failed'    = [failed EXCEPT ![j] = @ + 1]
  /\ recorded'  = [recorded EXCEPT ![j] =
                     [doc |-> processed[j] + 1, row |-> 0, category |-> "SCHEMA"]]
  /\ errors'    = [errors EXCEPT ![j] = @ \cup {recorded'[j]}]
  /\ UNCHANGED <<pc, documents, succeeded, valid, invalid, audit, queue,
                 target, cause>>

\* record_error raises on the document and nothing in run_batch catches it.
FailRejection(j) ==
  /\ AtNextDocument(j)
  /\ ~NextDocument(j).schemaOk
  /\ ~NextDocument(j).recordable
  /\ Stop(j, "data")

\* Mutant: all_valid_records is assigned instead of extended.
CollectedLast(j, doc) == {processed[j] + 1} \X ValidRows(doc)

Collected(j, doc) == valid[j] \cup ({processed[j] + 1} \X ValidRows(doc))

ExtractDocument(j) ==
  LET doc == NextDocument(j) IN
  /\ AtNextDocument(j)
  /\ doc.schemaOk
  /\ Converts(doc)
  /\ processed' = [processed EXCEPT ![j] = @ + 1]
  /\ succeeded' = [succeeded EXCEPT ![j] = IF InvalidRows(doc) = {} THEN @ + 1 ELSE @]
  /\ valid'     = [valid EXCEPT ![j] = Collected(j, doc)]
  /\ invalid'   = [invalid EXCEPT ![j] = InvalidRows(doc)]
  /\ UNCHANGED <<pc, documents, failed, recorded, tables, cause>>

\* An engine raises and nothing in process_document catches it.
FailDocument(j) ==
  /\ AtNextDocument(j)
  /\ NextDocument(j).schemaOk
  /\ ~Converts(NextDocument(j))
  /\ Stop(j, "data")

\* The loop over a document's invalid rows follows their order.
\* Mutant: the rows are taken from the end of the list.
IsLastInvalid(j, r) == r \in invalid[j] /\ \A s \in invalid[j] : s <= r

IsNextInvalid(j, r) == r \in invalid[j] /\ \A s \in invalid[j] : r <= s

InvalidRow(j, r) == documents[j][processed[j]].rows[r]

\* Mutants: only lookup failures are enqueued; everything not listed as
\* non-recoverable is enqueued.
OnlyLookupEnqueued(category) == IF category = "LOOKUP" THEN "enqueue" ELSE "loop"
AllButSchemaEnqueued(category) == IF category # "SCHEMA" THEN "enqueue" ELSE "loop"

AfterRecording(category) == IF category \in Recoverable THEN "enqueue" ELSE "loop"

\* The first transaction of record_error.
RecordInvalid(j, r, category) ==
  /\ pc[j] = "loop"
  /\ IsNextInvalid(j, r)
  /\ InvalidRow(j, r).fate = "rejected"
  /\ category \in Classification(InvalidRow(j, r))
  /\ failed'   = [failed EXCEPT ![j] = @ + 1]
  /\ invalid'  = [invalid EXCEPT ![j] = @ \ {r}]
  /\ recorded' = [recorded EXCEPT ![j] =
                    [doc |-> processed[j], row |-> r, category |-> category]]
  /\ errors'   = [errors EXCEPT ![j] = @ \cup {recorded'[j]}]
  /\ pc'       = [pc EXCEPT ![j] = AfterRecording(category)]
  /\ UNCHANGED <<documents, processed, succeeded, valid, audit, queue, target, cause>>

\* json.dumps raises before the INSERT, or the database in it.
FailRecording(j, r) ==
  /\ pc[j] = "loop"
  /\ IsNextInvalid(j, r)
  /\ InvalidRow(j, r).fate = "unrecordable"
  /\ Stop(j, "data")

\* The second transaction of record_error.
EnqueueHealing(j) ==
  /\ pc[j] = "enqueue"
  /\ pc'    = [pc EXCEPT ![j] = "loop"]
  /\ queue' = [queue EXCEPT ![j] = @ \cup
                 {[doc |-> recorded[j].doc, row |-> recorded[j].row,
                   policy |-> PolicyFor(recorded[j].category)]}]
  /\ UNCHANGED <<locals, audit, errors, target, cause>>

SkipLoad(j) ==
  /\ AllProcessed(j)
  /\ valid[j] = {} \/ j \notin LoadingJobs
  /\ pc' = [pc EXCEPT ![j] = "complete"]
  /\ UNCHANGED <<locals, tables, cause>>

Loads(j, key) == documents[j][key[1]].rows[key[2]].fate = "clean"

\* LoadEngine.load writes every valid record of the batch in one transaction.
LoadRecords(j) ==
  /\ AllProcessed(j)
  /\ valid[j] # {} /\ j \in LoadingJobs
  /\ \A key \in valid[j] : Loads(j, key)
  /\ pc'     = [pc EXCEPT ![j] = "complete"]
  /\ target' = [target EXCEPT ![j] = @ \cup valid[j]]
  /\ UNCHANGED <<locals, audit, errors, queue, cause>>

\* One refused record rolls the transaction back and the exception propagates.
FailLoad(j) ==
  /\ AllProcessed(j)
  /\ j \in LoadingJobs
  /\ \E key \in valid[j] : ~Loads(j, key)
  /\ Stop(j, "data")

CompleteBatch(j) ==
  /\ pc[j] = "complete"
  /\ pc'    = [pc EXCEPT ![j] = "done"]
  /\ audit' = [audit EXCEPT ![j] =
                 [status    |-> Verdict(succeeded[j], failed[j]),
                  processed |-> processed[j],
                  success   |-> succeeded[j],
                  failed    |-> failed[j]]]
  /\ UNCHANGED <<locals, errors, queue, target, cause>>

\* Where an agent is asked: a document that breaks the schema, one with
\* undeclared fields, and a rejected row the heuristic does not recognise.
CallsModel(j) ==
  \/ AtNextDocument(j) /\ (~NextDocument(j).schemaOk \/ NextDocument(j).drift)
  \/ \E r \in invalid[j] : /\ pc[j] = "loop"
                           /\ IsNextInvalid(j, r)
                           /\ InvalidRow(j, r).hint = "UNKNOWN"

\* The model's client raises (or its answer is blank and split()[0] does).
ModelFault(j) ==
  /\ "model" \in Faults /\ AgentsEnabled
  /\ CallsModel(j)
  /\ Stop(j, "model")

\* The process dies or a database call fails, between two transactions.
Interrupt(j) ==
  /\ "infrastructure" \in Faults
  /\ pc[j] \in Active
  /\ Stop(j, "infrastructure")

Proceed(j) ==
  \/ RejectDocument(j)
  \/ FailRejection(j)
  \/ ExtractDocument(j)
  \/ FailDocument(j)
  \/ \E r \in invalid[j] : FailRecording(j, r)
  \/ \E r \in invalid[j], category \in Categories : RecordInvalid(j, r, category)
  \/ EnqueueHealing(j)
  \/ SkipLoad(j)
  \/ LoadRecords(j)
  \/ FailLoad(j)
  \/ CompleteBatch(j)

Next ==
  \E j \in Jobs :
    \/ \E batch \in Batches : StartBatch(j, batch)
    \/ Proceed(j)
    \/ ModelFault(j)
    \/ Interrupt(j)

Spec == Init /\ [][Next]_vars

-----------------------------------------------------------------------------
(* What a run is expected to guarantee                                     *)

\* Every variable keeps to the values the code can give it.
TypeOK ==
  /\ pc        \in [Jobs -> Stages]
  /\ documents \in [Jobs -> Batches \cup {<<>>}]
  /\ processed \in [Jobs -> Nat]
  /\ succeeded \in [Jobs -> Nat]
  /\ failed    \in [Jobs -> Nat]
  /\ valid     \in [Jobs -> SUBSET (Nat \X Nat)]
  /\ invalid   \in [Jobs -> SUBSET Nat]
  /\ recorded  \in [Jobs -> ErrorRow]
  /\ audit     \in [Jobs -> AuditRow]
  /\ errors    \in [Jobs -> SUBSET ErrorRow]
  /\ queue     \in [Jobs -> SUBSET QueueRow]
  /\ target    \in [Jobs -> SUBSET (Nat \X Nat)]
  /\ cause     \in [Jobs -> Causes]

\* The rows of a document that belong in the error repository (row 0 when it
\* is rejected as a whole) and in the target.
DivertedRows(doc)  == IF doc.schemaOk THEN InvalidRows(doc) ELSE {0}
DeliveredRows(doc) == IF doc.schemaOk THEN ValidRows(doc) ELSE {}

ToDivert(docs)  == UNION {{d} \X DivertedRows(docs[d]) : d \in DOMAIN docs}
ToDeliver(docs) == UNION {{d} \X DeliveredRows(docs[d]) : d \in DOMAIN docs}

Item(e)       == <<e.doc, e.row>>
Diverted(j)   == {Item(e) : e \in errors[j]}
Orphans(j)    == {e \in errors[j] : /\ e.category \in Recoverable
                                    /\ \A q \in queue[j] : Item(q) # Item(e)}
Clean(j)      == {d \in DOMAIN documents[j] : \A e \in errors[j] : e.doc # d}
HasVerdict(j) == audit[j].status \in Verdicts

\* Items in the order run_batch comes to them.
Precedes(a, b) == a[1] < b[1] \/ (a[1] = b[1] /\ a[2] < b[2])

\* A run that ends normally has every invalid row, and every document that
\* breaks the schema, in the error repository, and nothing else there.  If its
\* pipeline has a load_config the target holds every other row and no more:
\* run_batch's bookkeeping over all_valid_records and invalid_records.  The
\* valid rows of a pipeline without one are dropped: nothing is said of them.
EveryRowAccounted ==
  \A j \in Jobs : pc[j] = "done" =>
    /\ Diverted(j) = ToDivert(documents[j])
    /\ j \in LoadingJobs => target[j] = ToDeliver(documents[j])

\* The target is written all at once, and only after every invalid row of
\* the batch is on record and every recoverable one is queued for healing:
\* a crash at any point never leaves loaded rows whose rejected siblings
\* are missing from the error repository.
LedgerBeforeLoad ==
  \A j \in Jobs : target[j] # {} =>
    /\ target[j] = ToDeliver(documents[j])
    /\ Diverted(j) = ToDivert(documents[j])
    /\ Orphans(j) = {}

\* What complete_batch writes can be read back from the error repository:
\* one failure for each record of the batch_id, SUCCESS exactly when there is
\* none, PARTIAL_SUCCESS only beside a document that left none.  It does not
\* say that the audit row's numbers can be compared with each other: documents
\* are processed and succeed, rows and documents fail.
VerdictMatchesRepository ==
  \A j \in Jobs : HasVerdict(j) =>
    /\ audit[j].failed = Cardinality(errors[j])
    /\ audit[j].status = "SUCCESS" <=> errors[j] = {}
    /\ audit[j].status = "PARTIAL_SUCCESS" => Clean(j) # {}

\* record_error writes the error and its queue row in two transactions.  A
\* run has at most one recoverable error without a queue row, only between
\* the two, and after the run only if the infrastructure stopped it there.
OrphanOnlyByFault ==
  \A j \in Jobs :
    /\ Cardinality(Orphans(j)) <= 1
    /\ Orphans(j) # {} => \/ pc[j] = "enqueue"
                          \/ pc[j] = "stopped" /\ cause[j] = "infrastructure"

\* What a payload costs that stops its run, whichever call raises on it: the
\* batch is undelivered as a whole, the good documents before that one
\* included, and its audit row stays RUNNING.  What is on record is what comes
\* first in the batch, without a gap, and every recoverable error of it is in
\* the healing queue: a reader of the repository sees how far the run came.
DataStopLeaves ==
  \A j \in Jobs : cause[j] = "data" =>
    /\ target[j] = {}
    /\ audit[j].status = "RUNNING"
    /\ Orphans(j) = {}
    /\ Diverted(j) \subseteq ToDivert(documents[j])
    /\ \A a \in Diverted(j), b \in ToDivert(documents[j]) \ Diverted(j) : Precedes(a, b)

\* A queue row always stands for one recoverable error of its own batch,
\* under the policy its category calls for; no error is queued twice.
QueueBacked ==
  \A j \in Jobs :
    /\ \A q \in queue[j] : \E e \in errors[j] :
         /\ Item(e) = Item(q)
         /\ e.category \in Recoverable
         /\ q.policy = PolicyFor(e.category)
    /\ \A q1, q2 \in queue[j] : Item(q1) = Item(q2) => q1 = q2

\* Once a batch has its verdict nothing more is written for its batch_id:
\* the audit row a reader sees as final describes all of the batch's effects.
VerdictIsLast ==
  [][\A j \in Jobs : HasVerdict(j) =>
       UNCHANGED <<audit[j], errors[j], queue[j], target[j]>>]_vars

\* The run implements the abstract ledger of a batch.
Ledger == INSTANCE BatchLedger WITH
  Items     <- Nat \X Nat,
  phase     <- [j \in Jobs |-> CASE pc[j] = "idle"    -> "unopened"
                                 [] pc[j] = "done"    -> "closed"
                                 [] pc[j] = "stopped" -> "abandoned"
                                 [] OTHER             -> "open"],
  toDivert  <- [j \in Jobs |-> ToDivert(documents[j])],
  toDeliver <- [j \in Jobs |-> IF j \in LoadingJobs THEN ToDeliver(documents[j]) ELSE {}],
  diverted  <- [j \in Jobs |-> Diverted(j)],
  delivered <- target,
  verdict   <- [j \in Jobs |-> IF HasVerdict(j) THEN audit[j].status ELSE "pending"]

\* Every behaviour of the run is a behaviour of the abstract batch ledger:
\* diversion before delivery, delivery at once, verdict last.
ImplementsLedger == Ledger!Spec

-----------------------------------------------------------------------------
(* What the documentation says of a run, and the code does not do          *)

\* orchestrator.py: individual payload failures are diverted rather than
\* failing the whole batch.
PayloadsNeverStopBatch == \A j \in Jobs : cause[j] # "data"

\* README: the pipeline's correctness never depends on AI availability.
ModelNeverStopsBatch == \A j \in Jobs : cause[j] # "model"

=============================================================================
