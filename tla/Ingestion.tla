------------------------------ MODULE Ingestion ------------------------------
(***************************************************************************)
(* How documents reach the pipeline and leave the landing bucket: the      *)
(* EventBridge rule, the Step Functions state machine, the Glue job's main *)
(* and the S3 helpers it calls.  A document is named by its basename, and  *)
(* the version of it that a producer landed; a key is a folder and a       *)
(* basename.  run_batch is one step here, that returns or raises (BatchRun *)
(* has its inside).  Each S3 call is an action: executions overlap, and a  *)
(* job may die between any two calls.                                      *)
(***************************************************************************)
EXTENDS Naturals, FiniteSets

CONSTANTS
  Runs,       \* how many executions may be going on at once
  Names,      \* basenames of the objects producers land
  MaxExtras   \* bound on what is counted by extras

ASSUME ConstantsAssumption == MaxExtras \in Nat

VARIABLES
  \* S3 and EventBridge
  bucket,     \* version of the object under each key, 0 when there is none
  events,     \* Object Created events still to be delivered, per key
  \* the executions
  stage,      \* where each one stands
  origin,     \* the key of the event that started it, if one did
  toRead,     \* keys of its batch still to be read
  documents,  \* <<key, version>> read and not yet archived
  copied,     \* the one copied to the archive and not yet deleted
  \* history
  landed,     \* landings so far, per name
  started,    \* executions started by an event, per name
  extras,     \* names landed again, events delivered again, jobs by hand
  taken,      \* <<name, version>> that a run_batch that returned was given
  silent      \* names landed since the last notice to the operators

storage == <<bucket, events>>
running == <<stage, origin, toRead, documents, copied>>
history == <<landed, started, extras, taken, silent>>
vars    == <<storage, running, history>>

Folders  == {"incoming", "archive"}
Keys     == Folders \X Names
Folder(k) == k[1]
Name(k)   == k[2]

Present(k) == bucket[k] # 0
Busy(r)    == stage[r] # "free"

\* archive_path plus the last component of the source key.
ArchiveKey(k) == <<"archive", Name(k)>>

-----------------------------------------------------------------------------
Init ==
  /\ bucket     = [k \in Keys |-> 0]
  /\ events     = [k \in Keys |-> 0]
  /\ stage      = [r \in Runs |-> "free"]
  /\ origin     = [r \in Runs |-> {}]
  /\ toRead     = [r \in Runs |-> {}]
  /\ documents  = [r \in Runs |-> {}]
  /\ copied     = [r \in Runs |-> {}]
  /\ landed     = [n \in Names |-> 0]
  /\ started    = [n \in Names |-> 0]
  /\ extras     = 0
  /\ taken      = {}
  /\ silent     = {}

Put(n) ==
  /\ landed' = [landed EXCEPT ![n] = @ + 1]
  /\ bucket' = [bucket EXCEPT ![<<"incoming", n>>] = landed'[n]]
  /\ events' = [events EXCEPT ![<<"incoming", n>>] = @ + 1]
  /\ silent' = silent \cup {n}
  /\ UNCHANGED <<running, started, taken>>

\* External: a producer puts an object into the landing folder, under a new
\* name or under one it has used before.
Land(n) ==
  /\ landed[n] = 0
  /\ Put(n)
  /\ UNCHANGED extras

Extra ==
  /\ extras < MaxExtras
  /\ extras' = extras + 1

LandAgain(n) ==
  /\ landed[n] > 0
  /\ Put(n)
  /\ Extra

\* The rule matches every key under mes/, the archive folder included.
Execute(r, k) ==
  /\ ~Busy(r)
  /\ events[k] > 0
  /\ stage'   = [stage EXCEPT ![r] = "resolve"]
  /\ origin'  = [origin EXCEPT ![r] = {k}]
  /\ started' = [started EXCEPT ![Name(k)] = @ + 1]
  /\ UNCHANGED <<bucket, toRead, documents, copied, landed, taken, silent>>

Trigger(r, k) ==
  /\ Execute(r, k)
  /\ events' = [events EXCEPT ![k] = @ - 1]
  /\ UNCHANGED extras

\* External: EventBridge delivers at least once.
Redeliver(r, k) ==
  /\ Execute(r, k)
  /\ Extra
  /\ UNCHANGED events

\* LoadPipelineMetadata, then startJobRun with the event's key.
Resolve(r) ==
  /\ stage[r] = "resolve"
  /\ stage'  = [stage EXCEPT ![r] = "read"]
  /\ toRead' = [toRead EXCEPT ![r] = origin[r]]
  /\ UNCHANGED <<storage, origin, documents, copied, history>>

\* main without --source_key lists the landing folder.
RunByHand(r) ==
  /\ ~Busy(r)
  /\ Extra
  /\ stage'  = [stage EXCEPT ![r] = "read"]
  /\ toRead' = [toRead EXCEPT ![r] =
                  {k \in Keys : Folder(k) = "incoming" /\ Present(k)}]
  /\ UNCHANGED <<storage, origin, documents, copied, landed, started, taken, silent>>

\* Mutant: a document is known by its basename.
DocumentByName(k) == <<Name(k), bucket[k]>>

\* A document goes by its key.
Document(k) == <<k, bucket[k]>>

ReadObject(r, k) ==
  /\ stage[r] = "read"
  /\ k \in toRead[r]
  /\ Present(k)
  /\ toRead'    = [toRead EXCEPT ![r] = @ \ {k}]
  /\ documents' = [documents EXCEPT ![r] = @ \cup {Document(k)}]
  /\ UNCHANGED <<storage, stage, origin, copied, history>>

\* What an execution leaves when its job ends without archiving more: the
\* Catch of the state machine notifies; a job started by hand just ends.
Abandon(r) ==
  /\ stage'     = [stage EXCEPT ![r] = IF origin[r] = {} THEN "free" ELSE "notify"]
  /\ toRead'    = [toRead EXCEPT ![r] = {}]
  /\ documents' = [documents EXCEPT ![r] = {}]
  /\ copied'    = [copied EXCEPT ![r] = {}]
  /\ UNCHANGED <<storage, origin, history>>

\* NoSuchKey.
MissObject(r) ==
  /\ stage[r] = "read"
  /\ \E k \in toRead[r] : ~Present(k)
  /\ Abandon(r)

\* Mutant: archiving does not wait for run_batch.
GivenToArchive(r) == stage[r] \in {"read", "archive"}

GivenToBatch(r) == stage[r] = "archive"

\* run_batch returns, whatever verdict it gave the batch.
RunBatch(r) ==
  /\ stage[r] = "read"
  /\ toRead[r] = {}
  /\ stage' = [stage EXCEPT ![r] = "archive"]
  /\ taken' = taken \cup {<<Name(d[1]), d[2]>> : d \in documents[r]}
  /\ UNCHANGED <<storage, origin, toRead, documents, copied, landed, started,
                 extras, silent>>

\* External: S3 refuses to copy an object onto itself.
OntoItself(k) == ArchiveKey(k) = k

\* copy_object copies what the key holds by now, and S3 announces the copy.
CopyObject(r, d) ==
  /\ GivenToBatch(r)
  /\ d \in documents[r]
  /\ copied[r] = {}
  /\ Present(d[1])
  /\ ~OntoItself(d[1])
  /\ bucket' = [bucket EXCEPT ![ArchiveKey(d[1])] = bucket[d[1]]]
  /\ events' = [events EXCEPT ![ArchiveKey(d[1])] = @ + 1]
  /\ copied' = [copied EXCEPT ![r] = {d}]
  /\ UNCHANGED <<stage, origin, toRead, documents, history>>

\* The key is gone; or the document came from the archive.
FailCopy(r) ==
  /\ stage[r] = "archive"
  /\ copied[r] = {}
  /\ \E d \in documents[r] : ~Present(d[1]) \/ OntoItself(d[1])
  /\ Abandon(r)

\* Mutant: the source is deleted before it is copied.
DeletableAtOnce(r) == IF stage[r] = "archive" THEN documents[r] ELSE {}

Deletable(r) == copied[r]

\* delete_object; it does not mind a key that is gone.
DeleteObject(r, d) ==
  /\ d \in Deletable(r)
  /\ bucket'    = [bucket EXCEPT ![d[1]] = 0]
  /\ documents' = [documents EXCEPT ![r] = @ \ {d}]
  /\ copied'    = [copied EXCEPT ![r] = {}]
  /\ UNCHANGED <<events, stage, origin, toRead, history>>

\* Mutant: the loop ends before its last delete.
CopiedAll(r) == documents[r] \subseteq copied[r]

ArchivedAll(r) == documents[r] = {}

\* The job ends with JobRunState SUCCEEDED, the execution in BatchSucceeded.
Finish(r) ==
  /\ stage[r] = "archive"
  /\ ArchivedAll(r)
  /\ stage'  = [stage EXCEPT ![r] = "free"]
  /\ origin' = [origin EXCEPT ![r] = {}]
  /\ UNCHANGED <<storage, toRead, documents, copied, history>>

\* The metadata lookup fails, an object does not parse, run_batch raises, an
\* S3 call fails or the job dies.
JobFails(r) ==
  /\ stage[r] \in {"resolve", "read", "archive"}
  /\ Abandon(r)

\* Mutant: the failed execution ends without a notice.
SilentAsBefore == silent

\* Both messages are constant strings without bucket or key: a notice tells
\* that some execution has failed by now, and nothing of which one.
SilentAfterNotice == {}

\* NotifyMetadataResolutionFailure or NotifyGlueJobFailure, then BatchFailed.
Notify(r) ==
  /\ stage[r] = "notify"
  /\ stage'  = [stage EXCEPT ![r] = "free"]
  /\ origin' = [origin EXCEPT ![r] = {}]
  /\ silent' = SilentAfterNotice
  /\ UNCHANGED <<storage, toRead, documents, copied, landed, started, extras, taken>>

Advance(r) ==
  \/ Resolve(r)
  \/ \E k \in toRead[r] : ReadObject(r, k)
  \/ MissObject(r)
  \/ RunBatch(r)
  \/ \E d \in documents[r] : CopyObject(r, d) \/ DeleteObject(r, d)
  \/ FailCopy(r)
  \/ Finish(r)
  \/ Notify(r)

Next ==
  \/ \E n \in Names : Land(n) \/ LandAgain(n)
  \/ \E r \in Runs, k \in Keys : Trigger(r, k) \/ Redeliver(r, k)
  \/ \E r \in Runs : RunByHand(r) \/ Advance(r) \/ JobFails(r)

Spec == Init /\ [][Next]_vars

\* Events are delivered, and what has been started goes on.
FairSpec ==
  /\ Spec
  /\ \A k \in Keys : WF_vars(\E r \in Runs : Trigger(r, k))
  /\ \A r \in Runs : WF_vars(Advance(r))

-----------------------------------------------------------------------------
(* What ingestion is expected to guarantee                                 *)

\* Every variable keeps to the values the code can give it.
TypeOK ==
  /\ bucket     \in [Keys -> Nat]
  /\ events     \in [Keys -> Nat]
  /\ stage      \in [Runs -> {"free", "resolve", "read", "archive", "notify"}]
  /\ origin     \in [Runs -> SUBSET Keys]
  /\ toRead     \in [Runs -> SUBSET Keys]
  /\ documents  \in [Runs -> SUBSET (Keys \X Nat)]
  /\ copied     \in [Runs -> SUBSET (Keys \X Nat)]
  /\ landed     \in [Names -> Nat]
  /\ started    \in [Names -> Nat]
  /\ extras     \in Nat
  /\ taken      \subseteq Names \X Nat
  /\ silent     \subseteq Names

\* README: retain raw JSON payloads for replay, lineage, and audit.  A
\* payload whose name was landed once is in the bucket at every moment,
\* whatever executions overlap, repeat or die between copy and delete.
PayloadRetained ==
  \A n \in Names : landed[n] = 1 => \E f \in Folders : bucket[<<f, n>>] = 1

\* Only what has been through a batch is archived: an archived payload whose
\* name was landed once was given to a run_batch that returned.
ArchivedWasTaken ==
  \A n \in Names : landed[n] = 1 /\ Present(<<"archive", n>>) => <<n, 1>> \in taken

\* An execution that ends in BatchSucceeded has moved its object: the payload
\* is in the archive, gone from the key of the event, and was in a batch,
\* whatever other executions did to the same key (names landed once).
SuccessMeansArchived ==
  [][\A r \in Runs : stage[r] = "archive" /\ stage'[r] = "free" =>
       \A k \in origin[r] : landed[Name(k)] = 1 =>
         /\ Present(ArchiveKey(k))
         /\ ~Present(k)
         /\ <<Name(k), 1>> \in taken]_vars

\* Every version of a payload that is landed is taken by a batch, or some
\* failure notice follows its landing, unless its producer lands the name
\* again: an execution that fails, misses its object, takes an older version
\* or finds another one at work never lets it disappear while the operators
\* hear of nothing.  They do not hear which payload it is.
TakenOrAnnounced ==
  \A n \in Names, version \in 1..(MaxExtras + 1) :
    landed[n] = version ~> \/ <<n, version>> \in taken
                           \/ n \notin silent
                           \/ landed[n] > version

-----------------------------------------------------------------------------
(* What the documentation says, and the code does not do                   *)

\* eventbridge_rule.json: the state machine is triggered "whenever a new
\* JSON document lands in the raw ingestion bucket": once per landing but for
\* events delivered again.
TriggeredByLanding == \A n \in Names : started[n] <= landed[n] + extras

=============================================================================
