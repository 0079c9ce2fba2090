-------------------------- MODULE HealingPipeline ---------------------------
(***************************************************************************)
(* Batches and the healing processes over one self_healing_queue: what     *)
(* record_error of a run (BatchRun) inserts is what SelfHealingAgent.run   *)
(* (SelfHealing) fetches, replays and marks, while the run that recorded   *)
(* the error is still going on, has ended, or has been stopped.            *)
(*                                                                         *)
(* BatchRun keeps the rows of the queue as inserted; SelfHealing keeps     *)
(* what becomes of them.  The INSERT is one step of both.                  *)
(***************************************************************************)
EXTENDS SelfHealing, Sequences

CONSTANTS Jobs, Batches, LoadingJobs, AgentsEnabled, Faults

VARIABLES pc, documents, processed, succeeded, failed, valid, invalid, recorded,
          audit, errors, queue, target, cause

Batch == INSTANCE BatchRun

batchVars    == <<pc, documents, processed, succeeded, failed, valid, invalid, recorded,
                  audit, errors, queue, target, cause>>
pipelineVars == <<vars, batchVars>>

\* The queue_id of a row: payload_id refers to the error of its batch.
QueueItem(j, row) == <<j, row.doc, row.row>>

\* A statement of a run: if it inserts into the queue, the healing processes
\* see the new item, under the policy record_error chose.
Insert ==
  IF queue' = queue THEN UNCHANGED vars
  ELSE \E j \in Jobs : \E row \in queue'[j] \ queue[j] :
         QueueItem(j, row) \in Items /\ Enqueue(QueueItem(j, row), row.policy)

RunBatches == Batch!Next /\ Insert

RunHealing ==
  /\ \/ \E q \in Items, p \in Triage : Reassign(q, p)
     \/ \E a \in Agents : Work(a) \/ Crash(a)
     \/ Tick
  /\ UNCHANGED batchVars

PipelineInit == Init /\ Batch!Init
PipelineNext == RunBatches \/ RunHealing

PipelineSpec == PipelineInit /\ [][PipelineNext]_pipelineVars

\* A run takes its next step, time passes, and somebody keeps calling run.
FairPipelineSpec ==
  /\ PipelineSpec
  /\ \A j \in Jobs : WF_pipelineVars(Batch!Proceed(j) /\ Insert)
  /\ WF_pipelineVars(Tick /\ UNCHANGED batchVars)
  /\ \A a \in Agents : WF_pipelineVars(Work(a) /\ UNCHANGED batchVars)

-----------------------------------------------------------------------------
\* The error of an item is on record, under a category that calls for a retry.
OnRecord(item) ==
  \E e \in errors[item[1]] : /\ QueueItem(item[1], e) = item
                             /\ e.category \in Batch!Recoverable

\* Whatever the healing processes see in the queue, read, replay or close is
\* the payload of a recoverable error that a run has recorded, also when that
\* run has been stopped between the two INSERTs or goes on recording.
HealsWhatIsOnRecord ==
  \A item \in Items :
    (status[item] # "ABSENT" \/ attempts[item] > 0) => OnRecord(item)

\* A recoverable error on record is not left there: its payload is healed,
\* given up after its budget, or taken out of the queue by an operator,
\* whatever the run that recorded it goes on to do.  The one exception is
\* the error whose INSERT into the queue an infrastructure fault prevented.
ErrorsDecided ==
  \A item \in Items :
    OnRecord(item)
      ~> \/ status[item] \in {"RESOLVED", "ESCALATED"}
         \/ policy[item] \in Withdrawn
         \/ status[item] = "ABSENT" /\ cause[item[1]] = "infrastructure"

=============================================================================
