# Verification of the metadata-driven ETL platform

TLA+ models, TLC runs and TLAPS proofs for the Python platform in `src/`
(`etl_platform`, its SQL, its AWS wiring). Every definition of a component
module is translated from the source; `PROJECT.json` maps it to its lines.

## 1. The system

JSON documents land in an S3 bucket. An EventBridge rule starts a Step
Functions execution per object, which starts a Glue job; its `main` reads the
document(s), calls `PipelineOrchestrator.run_batch`, and moves the objects to
an archive folder. `run_batch` pushes each document through schema validation,
JSONPath extraction, transformation, lookups and validation, records what is
rejected, loads what is valid into Aurora PostgreSQL and writes an audit row.
Recoverable errors are queued; `SelfHealingAgent.run` drains the queue.
Everything shared lives in the database and in the bucket. There are no threads
in the code: concurrency is several processes (overlapping jobs, several
callers of the self-healing agent) over the same tables and keys, and the hard
behaviours are their interleavings and what is left when one of them stops.

| component | state it keeps | operations | hard part |
|---|---|---|---|
| Ingestion: `infra/*.json`, `aws/glue_job_entrypoint.py`, `aws/s3_client.py` | objects of the bucket, undelivered events, one execution per event | rule, `LoadPipelineMetadata`, `RunGlueETLJob`, `main`, `archive_object`, notifications | duplicate events, overlapping jobs on one key, a job that dies between S3 calls, the archive being inside the rule's prefix |
| Orchestration: `pipeline/orchestrator.py` | local counters and `all_valid_records` | `run_batch`, `process_document` | an exception on any payload, order of recording, loading and auditing |
| Audit: `core/audit.py` | `metadata.audit_log` | `start_batch`, `complete_batch` | counters of different units, a row left RUNNING |
| Error repository: `core/error_handler.py` | `metadata.error_record`, `metadata.self_healing_queue` | `record_error`, `_enqueue_self_healing` | two transactions |
| Self-healing: `agents/self_healing_agent.py` | the queue's `status`, `retry_count`, `next_retry_at`, `updated_at` | `fetch_due_items`, `run`, `mark_result` | unlocked reads, stale writes, crash between replay and mark |
| Load: `core/load_engine.py` | the target tables | `load`, `_append`, `_upsert`, `_scd2` | READ COMMITTED, lock waits, deadlocks, SCD2 history |
| Classification and other agents: `agents/*.py` | none | heuristic, model call | the model's errors propagate |
| Engines: `core/schema_validator.py`, `jsonpath_extractor.py`, `transformation_engine.py`, `validation_engine.py` | none | pure functions | values they raise on, array flattening, a heuristic that reads keywords in quoted data |
| Lookups: `core/lookup_engine.py` | per-process TTL cache | `apply_lookups` | staleness, tables that change during a query |
| Metadata repository: `db/metadata_repository.py` | none of its own | the eight statements of `__init__`'s definition, the schema document on a second connection | statements of one definition that see different versions |
| Configuration, connection, logging | none | read-only | none |

What makes each correct: ingestion must not lose a payload, and must process
every one or let the operators hear that something failed; a batch must record
every row it rejects and load every other one, and its verdict must agree with
the tables; the queue must retry what is due, and neither give up early nor keep
what has used up its budget; a load must be atomic and leave one current row per
key; lookups must not be older than their TTL; a process must run with one
version of its metadata, however people publish and retire versions while it
reads; the records, verdicts and hints must follow the document and that version.

## 2. The modules

| module | models | correspondence |
|---|---|---|
| `BatchRun` | `run_batch` with audit, error handler, classification; several runs | `pc` is the position in `run_batch`; `processed`, `succeeded`, `failed`, `valid` its locals; `audit`, `errors`, `queue`, `target` the tables by batch_id. One action per transaction: `StartBatch`, `RejectDocument`, `ExtractDocument`, `RecordInvalid`, `EnqueueHealing`, `LoadRecords` or `SkipLoad`, `CompleteBatch`; `FailDocument` (an engine), `FailRejection` and `FailRecording` (`record_error` on a document or a row) and `FailLoad` are the exceptions a payload can raise, `ModelFault` the model's, `Interrupt` the crash |
| `BatchLedger` | what a batch promises | abstract: `Open`, `Divert`, `Deliver`, `Close`, `Abandon` |
| `SelfHealing` | the queue and the processes that run the agent | `todo` is the list read by `fetch_due_items` with the values read, `hand` the item between `reprocess_fn` and `mark_result`; `Fetch`, `Replay`, `MarkResolved`, `MarkEscalated`, `MarkRetried`; `Enqueue` is the error handler's INSERT, `Reassign` an operator, `Tick` 300 seconds |
| `RetryLedger` | what the queue promises of an item | abstract: `Open`, `Fail`, `GiveUp`, `Heal` |
| `LoadEngine` | `LoadEngine.load` under PostgreSQL | a row version is the record that wrote it; who wrote and who expired it, and how those transactions ended, say whether it is in force. `AppendRecord`, `Upsert`, and for SCD2 `FindCurrent` (snapshot of the UPDATE), `ExpireRow`/`PassRow` (one matching row after its lock is free, WHERE evaluated again), `InsertVersion`; `Commit`, `Fail`, `BreakDeadlock` |
| `TargetTable` | what a load promises of its table | abstract: a load applies at one moment and as a whole |
| `Ingestion` | rule, state machine, `main`, S3 helpers | `bucket` and `events` by key (folder, basename); `toRead`, `documents`, `copied` the job's progress; one action per S3 call, so that a job may die between any two; `silent` holds the names landed since the last notice |
| `MetadataRepository` | what `__init__` reads, and the people who maintain it | `reading` is the next statement, `definition` what has been read; `Register` (ACTIVE by the column's default, or DRAFT), `Populate` (the rows of one table), `Activate`, `Deprecate` are the people's edits, in any order a schema_id allows, one `Read...` action per statement; `whole` remembers whether the version chosen had all its rows then |
| `LookupEngine` | the TTL cache and the tables behind it | `cache` is `_cache` with its time stamps, `since` when each version of a table was installed, `asked` and `answer` the locals of a call; `UseCached`, `BeginQuery`, `RunQuery`, `EndQuery`, so that tables change and time passes around a query |
| `Engines` | the pure functions | `validate_document`, `detect_schema_drift`, `flatten_records`, `extract_value`, `extract_all`, `apply_mappings`, `apply_transformations` with every registered rule, `validate_record` with every rule type, the keyword heuristic: one operator per function, folds for the loops; `Raised`, `RangeRaises` and `ValidationRaises` are what they raise |
| `Orchestrator` | one process: `__init__`, then `process_document` document by document | composes the three above; `stage`, `position` where it stands, `records` what has been computed, `outcome` what was returned, or RAISED where a transformation, a lookup or a range check raises (`ExtractDocument`, `Enrich`, `FailValidation`) |
| `HealingPipeline` | runs and healing processes over one queue | composes `BatchRun` and `SelfHealing`: the INSERT of a run is one step of both (`Insert`), everything else a step of one |
| `MC*` | instances for TLC | the batches, keys, names, metadata and documents of the runs |
| `BatchRunProofs`, `SelfHealingProofs`, `HealingPipelineProofs`, `LoadEngineProofs`, `LoadHistoryProofs`, `IngestionProofs`, `EnginesProofs`, `OrchestratorProofs` | theorems | section 5 |

`BatchRun` treats `LoadEngine.load` as the single transaction it is, and takes
what `Orchestrator` computes as the fates of a document's rows; `Ingestion`
treats `run_batch` as one step that returns or raises.

Data is abstracted to what decides control. In `BatchRun` a document breaks the
schema, or has rows; a row is clean, unloadable, rejected, unrecordable or
unconvertible, and carries the category the keyword heuristic would give.
Unrecordable is what the error repository refuses: what `json.dumps` cannot encode
(a `Decimal` from a lookup) and what a JSONB column does not take (`NaN`, the
character `\u0000`, both of which `json.loads` reads). A document that breaks the
schema is stored as it came, and may be refused for the same reasons
(`recordable`). The model's answer may be any category. A payload in the bucket
is the version landed under its name.

In `Engines` a JSON value is a record with a kind; of a text the engines tell
apart its word, the numbers `float()` reads in it and the keywords of the
heuristic that occur in it. Numbers are integers, multiples of 5 where a
temperature is converted; `Floats` are those that fit a float and `Instants` those
`datetime.fromtimestamp` takes, so that epoch milliseconds and huge integers raise
where they do in Python. A JSONPath is the sequence of its steps, and of
`jsonpath_ng` (external) member names and `[*]` are modelled, the only steps the
metadata uses. `[*]` on an object, a text or a number finds that value itself, as
the library's `Slice.find` does; on a fraction it raises, and fractions are left
out. An exception is a value of its own that every later engine hands on.

## 3. The runs

All configurations turn deadlock checking off: a batch ends, a queue runs
empty, loads and events are finite, and the system then rightly stops.

| run | shows | bounds |
|---|---|---|
| `batch` | `EveryRowAccounted`, `LedgerBeforeLoad`, `VerdictMatchesRepository`, `OrphanOnlyByFault`, `QueueBacked`, `DataStopLeaves`, `VerdictIsLast`, refinement of `BatchLedger` | two runs, one without a `load_config`; eight batches of at most three documents and three rows, which between them hold every fate of a row, every way a category is decided and a document the repository refuses, a bad document first, in the middle and last, two invalid rows in one document, a last document with valid and invalid rows, a batch with nothing to load and an empty one; crashes and model failures anywhere |
| `batch_data` | violated: a payload can stop the batch | no faults, one run |
| `batch_model` | violated: the model can stop the batch | only model faults, a batch of two valid documents, one with undeclared fields |
| `healing_sole` | `AttemptsAccounted`, `HealedIsResolved`, `OnlyDueReplayed`, refinement of `RetryLedger` | one process, two items, budget 3 (the table's default), LIMIT 2, one crash, reassignment to `DEPENDENCY_RETRY` and `MANUAL_REVIEW` |
| `healing_many` | `BudgetLeft`, `NeverGivesUpEarly`, `ResolvedWasHealed`, `HealsWhatIsOnRecord`, `Drained`, `ErrorsDecided` | one run that records two recoverable errors and one that is not, and loads a valid row, database errors anywhere in it; two processes, budget 3, LIMIT 1, so that one item waits behind the other, and both may be replayed before the run has loaded |
| `healing_overlap` | violated: overlapping runs replay what is no longer due | two processes, two items, no run |
| `load` | `ClosedOnce`, `SerialHistory`, `LoadedKeyInForce`, `EveryLoadEnds`, refinement of `TargetTable` | three loads, two keys met in opposite orders (the smallest deadlock) and one batch with a repeated key; every load type |
| `load_overlap` | violated: two current rows of one key | SCD2 only |
| `ingestion` | `PayloadRetained`, `ArchivedWasTaken`, `SuccessMeansArchived`, `TakenOrAnnounced` | two executions at a time, two names, one extra (a name landed again, an event delivered again or a job started by hand), job failures without bound |
| `ingestion_loop` | violated: archiving triggers the pipeline again | no extras |
| `document` | `DefinitionOfOneVersion`, `RecordsFollowDocument`, `RefusedForAnError`, `NeverWithoutRecord`, `LookupWithinTTL`, `DataErrorNotRetried` | two schema versions: version 1 (no array) published whole, version 2 (one array) registered, filled table by table, published and retired between any two statements; two lookups with TTLs of one and two ticks, two versions of each table, `MaxTime` 2, so that an entry of either expires during a process; two documents out of ten, which hold an element without its id, a null element, an empty array and a single object in its place, a value out of range, one that only breaks a warning and one too large for a float (`FloatRange`), a text where a number is due, a number that is no instant (`InstantRange`), a key the table misses and one that cannot be hashed |
| `document_nested` | violated: two levels of arrays are not one record per leaf | one version, one document, two wafers with three defects |

`MaxItems`, `MaxRetries` are the code's parameters; `MaxCrashes`, `MaxExtras`,
`MaxTime`, `MaxDocuments`, `FloatRange` and `InstantRange` are bounds of the model.
`attempts` needs no bound: every replay of one process is counted until
escalation, a lost answer costs a crash, and a second process can only repeat
what it has read.

`EveryRowAccounted` speaks of what is recorded for every run, and of what is
loaded for a pipeline with a `load_config`. One without it drops its valid rows
and may still end in SUCCESS (`orchestrator.py:135`): the model does so too, and no
property calls it right or wrong, because nothing says what should become of
them. `VerdictMatchesRepository` ties the verdict and `records_failed` to the
repository, and no more. The numbers of an audit row have different units:
documents are processed and succeed, documents and rows fail, so that a batch of
PARTIAL documents is FAILED although its valid rows are loaded, and
`failed / processed` (`observability_agent.py:44`) may exceed one.

`DefinitionOfOneVersion` says that a definition is never a mixture of versions.
A version is ACTIVE from its registration unless people choose otherwise
(`sql/001:53`), and its mappings, arrays and rules are inserted afterwards
(`README.md:145-151`): a process that starts in between runs without the rows that
are not there yet, which the property allows of a version that was not `whole`
when it was chosen, and of no other.

`RecordsFollowDocument` compares the records with a definition of their own: for
one exploded array, or none, each mapped column holds what its path says of the
element, a value in place of the array counting as its only element. It speaks of
versions with a single grain (`SingleGrain`); what two arrays give is
`document_nested`. The array's path has to end with its `[*]`: under one that
goes on below it, such as `wafers[*].id`, `RelativePath` cuts a mapping at the
`[*]` while the row's child is already the member, and the two no longer match.
`RefusedForAnError` says that a record is refused exactly for a rule of severity
ERROR it breaks, and `DataErrorNotRetried` that one message the heuristic takes for
a schema or validation failure keeps the record out of the queue, whatever its
other messages quote and in whatever order the rules were read.

`TakenOrAnnounced` speaks of every version landed under a name. Its announcement
is weak, as the code's is: both messages of the state machine are constant
strings (`etl_state_machine.asl.json:64-65`, `:74-75`), so that a notice tells that
some execution failed since the landing and not which payload is still waiting.
The other properties of `Ingestion` speak of names landed once. A name used again
is in the model, and is exactly what the code does not survive: the archive key
keeps the basename only, so that the second archived payload overwrites the
first, and an object overwritten between read and archive is moved unseen. That
an archived object is not copied onto itself rests on S3 refusing such a copy
(`OntoItself`), an assumption about an external service.

## 4. What the violated properties say

* `PayloadsNeverStopBatch` (`orchestrator.py:17-18`): a conversion that raises, a
  document or row the error repository cannot store, or a row the target refuses
  ends the batch.
* `ModelNeverStopsBatch` (`README.md:170-171`, `base_agent.py:32`): only a missing
  SDK is caught, an error of the API is not; the run's batch is one the model is
  asked about only because a valid document has an undeclared field.
* `OnlyDueReplayed` with two processes (`README.md:179-180`): what was read is
  replayed whatever has become of it.
* `OneCurrentRow` (`load_engine.py:77`): two overlapping SCD2 loads of a new key
  do not see each other's row.
* `TriggeredByLanding` (`eventbridge_rule.json:3`): the archive folder lies under
  the prefix the rule matches, so every document is processed twice and the
  second execution fails on copying the object onto itself.
* `OneRecordPerLeaf` (`jsonpath_extractor.py:32`): every array path is evaluated
  on the root document, so that two wafers with three defects give six records,
  each wafer with the other's defects too.

## 5. What is proved

Every invariant, action property and refinement that a passing run checks is a
theorem too, or several. They hold for every value of the constants that satisfies
the assumptions their modules name (`ConstantsAssumption`, and
`OrchestratorAssumption`, `MetadataAssumption`, `LookupAssumption`,
`EnginesAssumption`): any runs, any batches of documents with at least one row
each, any set of faults; any processes, any finite set of items, any budget and
LIMIT of at least one; any finite set of loads, and batches of any length; any
documents, definitions and reference tables, of which it is assumed that their
values are JSON values (`Values` holds, with a value, its members and elements),
that paths are sequences of steps, that the lookups are finitely many, name tables
that are there, write another column than they read, and have a TTL of at least
one tick, and that an instant is a float and a float an integer. They assume
nothing else.

`BatchRunProofs`. The safety properties are not inductive: they speak of ended
runs. The invariant `IInv` says at every step what has been done so far:

* `Progress`: documents are taken in order, and the rows still to be recorded are
  invalid rows of the last one;
* `Bookkeeping`: the repository holds what the documents taken so far call for,
  less those rows, and `all_valid_records` their valid rows;
* `LoadState`: the target is empty before the load and complete after it, also
  in a run that was stopped later;
* `Enqueueing`: only the error recorded last may lack its queue row;
* `VerdictState`: a verdict is there exactly at the end.

A step belongs to one run (`OthersUntouched`, `UntouchedInv`), so each action is
proved against its own run's part, one lemma per action. `TypeCorrect`,
`Accounting`, `RecordedBeforeLoaded`, `OrphansBounded` and `NothingAfterVerdict`
follow. `VerdictAgrees` adds `Counts`, which ties the counters to the
cardinalities of what is on record. `Implementation` maps every step to a step of
`BatchLedger` or a stutter.

`SelfHealingProofs`. For any number of processes `IInv` says that what a process
has read, however stale, is within the budget and not ahead of the replays made
(`SnapshotsSound`), and the same of the table (`TableSound`): `BudgetKept`,
`PatienceKept` and `ResolutionJustified` survive every interleaving. Under
`SoleAgent` (no two processes) `SInv` adds that what was read is still true
(`ReadIsCurrent`), that the replays add up (`Accounted`) and that what was healed
is closed (`HealedClosed`): `ReplaysAccounted`, `HealingKept`, `DueOnly`, and
`Implementation` of `RetryLedger`. `healing_overlap` shows that `SoleAgent` is
needed.

`BatchRunProofs` also proves `QueueAgrees`: `Backed` adds to `IInv` that an item is
on record once, so that a queue row has one error and one policy. And `DataStop`,
which says what the finding of `batch_data` costs and what it does not: whichever
call raises on a payload, nothing of the batch is loaded, and what is on record is
what comes first in the batch, with every recoverable error of it queued.
`InOrder` says this within a document, and `StopLeaves` reads the rest off
`Progress`, `Bookkeeping` and `Enqueueing`.

`HealingPipelineProofs` carries this over to the composition. `QueueImplemented`
says that with the runs' INSERTs for its `Enqueue` the pipeline implements
`SelfHealing`: only `EnqueueHealing` inserts, under a policy the agent knows. So
`PipelineBudget`, `PipelinePatience` and `PipelineResolution` hold for any runs,
processes and faults. The first bounds `retry_count` of what is queued, not the
replays themselves: processes that overlap can replay an item more often.
`HealingOnRecord`
relates the two tables: an item that is or was in the queue has its error on record
under a recoverable category. It is inductive with `AboutToEnqueue` (a run
between the two INSERTs has recorded what it is about to queue) and with
`SelfHealing`'s `SnapshotsSound` (what a process replays or marks had been queued).
A run is assumed to name its rows by items of `Items`.

`LoadEngineProofs`. Two loads may both find a version current and both set its
expiry, so `ClosedOnce` rests on which of them stands: `OneStands` says that one
of the two was rolled back. It is inductive with `OnlyWhenOpen` (only a load that
has begun has expired anything, and only an open SCD2 load is inside an UPDATE)
and `ReplacedByKey` (an upsert that has replaced a row has written one of the same
key, and so holds the key's index entry). `TypeCorrect` and `VersionsClosedOnce`
follow.

`LoadHistoryProofs` proves what a load makes of a key's history, by an invariant
`HInv` that orders the loads by their `now()`:

* `Ranks`, `Sequential`: of two loads that have not met, the earlier one was over
  when the later one began (`Earlier`);
* `Reach`, `Expirers`, `Late`: who expires a version has seen it committed or
  written it, writes a later version of its key, and began later or met its writer;
* `Replaces`, `Updates`: a load that has written a key has put an end to what
  earlier loads left of it and to its own earlier versions; inside an UPDATE the
  rest of them is in `found`;
* `Exclusive`: an upsert is alone with the keys it has written until it ends.

Each action shows four things of its own load (`WritesWell`, `HoldsKey`,
`ExpiresWell`, `FindsWell`), and `WorkingKeeps` carries the invariant from there.
`HistoryIsSerial` takes the last version of a key (`LastStored`): it cannot have
ended, because who ended it would have written a later one, and every other one
has ended when the next one began. `RefinesTable` maps a commit to `Apply` of
`TargetTable`, a rollback to `Drop` and all other work to a stutter. `KeysInForce`
is then argued about `TargetTable` alone: `Apply` leaves a row of the load for each
of its keys and replaces rows under these keys only (`RowOfKey`), so overlapping
SCD2 loads may leave a key too many current rows (`load_overlap`) but never none,
and an upsert leaves exactly one.

`IngestionProofs`. Until a name is landed again its first version is the only one
anywhere (`OnlyFirst`). `IInv` adds what each execution has read and copied
(`ReadState`), that what it archives was given to its batch (`TakenState`), and
that the object of its event is still to be read, in hand, or moved
(`OriginState`). `NothingLost`, `ArchiveIsTaken` and `SuccessMoves` follow for any
number of overlapping executions.

`EnginesProofs` says what the engines compute, for documents of any depth and
metadata of any length. Their loops are folds, and the library's induction
theorems take an operator, which the provers cannot instantiate. So the values a
fold has after k positions are named (`IsFold`, `IsIteration`, `IsConcatenation`,
`IsFlattening`, `IsMapping`, `IsConversion`, `IsWalk`), and what holds of all of
them is shown by `UpTo`: a set of numbers that holds 0 and, with k, k + 1 holds
every number up to n, because there is no least one outside it. The community
modules define a fold by a CHOOSE over functions; `FoldExists` shows that there is
one, after which `FoldSteps` reads off its steps. On that rest, engine by engine:

* `ExtractTyped`, `ElementsTyped`, `WalkPlain`, `WalkArray`: what a path finds is part
  of the document, and is what walking it step by step reaches;
* `FlattenRecords`, `FlattenRecordsOnce`, `RowsMultiply`: every document has a row; one
  array gives a row per element; and with any arrays the number of rows is the
  product of their lengths, an empty one counting as one. That is the reason for
  the counterexample of `document_nested`, and holds for every nesting;
* `MappedRecord`, `ResolvePlain`, `ResolveThrough`: a column that one mapping names
  holds what its path yields in the row's element, found below its `[*]`;
* `TransformedRecord`: such a column is converted once, by that mapping's rule;
* `DataErrorsFirst`: joining messages never hides a schema or validation keyword.

`OrchestratorProofs` puts the steps of a process together. `OneVersion`: rows are
only added to a version, so that one chosen when it was `whole` stays so, and each
part read so far is that version's, or is missing from one that was not
(`DefinitionInv`). `LookupsWithinTTL`: a cached or queried
table was the one in force at its time stamp or later (`LookupInv`), and the stamp
is younger than the TTL when the table is used. `RecordsRight`, `RefusalsRight`,
`AlwaysARecord`, `DataErrorsStay` and `Typed` rest on `TypesInv` (of metadata,
definition, cache) and on `DocumentInv`, which follows the records from the
moment they are computed:

* `Untouched`: before the definition is read there is none; `FromDocument`: from
  then on they are the transformed records of the document, but for the columns
  that lookups write, so that under a single grain every mapped column is still
  what the transformation gave;
* `ValuesTyped`, `PlaceTyped`: a record holds JSON values, and the loop over records
  and lookups is inside its bounds;
* `Judged`: the outcome is what `ErrorsOf` says of the records as they are now.

`ValueAtWalk` identifies `ValueAt`, which the properties are stated with and which
flattens nothing, with a walk, and `RecordsCounted`, `RecordHolds` compare it with
what the engines computed. Trying to prove `RecordsRight` is what showed that
`SingleGrain` has to ask where the array's path ends (section 3).

Only model-checked: liveness under fairness (`Drained`, `ErrorsDecided`,
`EveryLoadEnds`, `TakenOrAnnounced`), which is out of the prover's reach, and the
violated properties of section 4, which are counterexamples.

## 6. Fairness

* `BatchRun`: none; a loop over a list ends by itself.
* `SelfHealing`: time passes (`Tick`), and each process keeps calling `run`
  (`Work`). Nothing in the repository schedules the agent, so `Drained` says what
  the queue gives to a deployment that does.
* `HealingPipeline`: a started run takes its next step (weak fairness of `Proceed`:
  `run_batch` is sequential code without a wait; the start is not forced), time
  passes, and each process keeps calling `run`.
* `Orchestrator`: none; its properties are of states.
* `LoadEngine`: a load goes on when it is not waiting, and PostgreSQL breaks
  deadlocks. Failures and new loads are not forced.
* `Ingestion`: EventBridge delivers each event at least once, and a started
  execution goes on; notifications by SNS are taken to be sent.

## 7. Not modelled

The values the counters of `SelfHealingAgent.run` return, log lines, runtime and
throughput; the texts the agents produce (advice only); configuration and
connection code (environment variables, one engine per process); the
documentation, observability and transformation-advisor agents (nothing in the
pipeline calls them); gzip and listing pages; the skew between the application's
clock, which sets `next_retry_at`, and the database's, which is compared with it.

Of the metadata repository, the fields nobody uses, the row of `load_config`
(`BatchRun` has its presence, `LoadEngine` its load type) and
`get_transformation_rule`, which nobody calls. Of the schema validator, JSON Schema
beyond required members and their kinds (a library) and the checksum, which nobody
compares. A TTL of zero, which turns the cache off. `error_record.retry_status`,
which is never written after the INSERT. PostgreSQL, S3 and EventBridge are modelled
from how the code uses them and marked external in the map.

## 8. Plan

Done: every part of the pipeline that keeps state, with abstract specifications of
a batch (`BatchLedger`), of an item's retries (`RetryLedger`) and of a load
(`TargetTable`), and proofs that they are implemented; the engines as operators;
the composition of batches and healing.

Every safety property of the passing runs is proved. Left, and of less weight:

1. A composition of `BatchRun` with `Ingestion`, in which the documents of a batch
   are the objects read: today `run_batch` is one step there.
2. A theorem that `Orchestrator` delivers what `BatchRun` takes as the fates of a
   document's rows (`AlwaysARecord` is the part of it that is an assumption there).
3. The text of a message the heuristic reads, where a column's name and a value
   together make a keyword neither contains.
