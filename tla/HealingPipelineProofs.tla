----------------------- MODULE HealingPipelineProofs ------------------------
(***************************************************************************)
(* Proofs about HealingPipeline, for any runs and any healing processes:   *)
(* what the batches put into the queue is what the healing processes       *)
(* expect of it, so that SelfHealing's theorems hold of the whole.         *)
(***************************************************************************)
EXTENDS HealingPipeline, SelfHealingProofs

\* The queue rows of the runs are sets.
QueueOfRuns == DOMAIN queue = Jobs

\* Only EnqueueHealing inserts, and under a policy the agent knows.
LEMMA BatchInserts ==
  ASSUME QueueOfRuns, Batch!Next
  PROVE  /\ QueueOfRuns'
         /\ \A j \in Jobs : \A row \in queue'[j] \ queue[j] : row.policy \in EnqueuedPolicies
  <1>. USE DEF QueueOfRuns, Batch!tables, Batch!locals
  <1>1. PICK k \in Jobs : \/ \E batch \in Batches : Batch!StartBatch(k, batch)
                          \/ Batch!Proceed(k) \/ Batch!ModelFault(k) \/ Batch!Interrupt(k)
    BY DEF Batch!Next
  <1>2. CASE Batch!EnqueueHealing(k)
    <2>1. \A j \in Jobs : queue'[j] \subseteq queue[j] \cup
            {[doc |-> recorded[k].doc, row |-> recorded[k].row,
              policy |-> Batch!PolicyFor(recorded[k].category)]}
      BY <1>2 DEF Batch!EnqueueHealing
    <2>2. Batch!PolicyFor(recorded[k].category) \in EnqueuedPolicies
      BY DEF Batch!PolicyFor, EnqueuedPolicies
    <2>. QED  BY <1>2, <2>1, <2>2 DEF Batch!EnqueueHealing
  <1>3. CASE ~Batch!EnqueueHealing(k)
    <2>1. queue' = queue
      BY <1>1, <1>3
         DEF Batch!StartBatch, Batch!Proceed, Batch!RejectDocument, Batch!FailRejection, Batch!ExtractDocument,
             Batch!FailDocument, Batch!FailRecording, Batch!RecordInvalid, Batch!SkipLoad,
             Batch!LoadRecords, Batch!FailLoad, Batch!CompleteBatch, Batch!ModelFault,
             Batch!Interrupt, Batch!Stop
    <2>. QED  BY <2>1
  <1>. QED  BY <1>2, <1>3

\* Every step of the pipeline is a step of the queue or leaves it alone.
LEMMA QueueStep ==
  ASSUME QueueOfRuns, [PipelineNext]_pipelineVars
  PROVE  QueueOfRuns' /\ [Next]_vars
  <1>1. CASE RunBatches
    <2>1. Batch!Next /\ Insert
      BY <1>1 DEF RunBatches
    <2>2. CASE queue' = queue
      BY <2>1, <2>2 DEF Insert, QueueOfRuns
    <2>3. CASE queue' # queue
      <3>1. PICK j \in Jobs : \E row \in queue'[j] \ queue[j] :
              QueueItem(j, row) \in Items /\ Enqueue(QueueItem(j, row), row.policy)
        BY <2>1, <2>3 DEF Insert
      <3>2. PICK row \in queue'[j] \ queue[j] :
              QueueItem(j, row) \in Items /\ Enqueue(QueueItem(j, row), row.policy)
        BY <3>1
      <3>3. row.policy \in EnqueuedPolicies
        BY <2>1, <3>2, BatchInserts
      <3>. QED  BY <2>1, <3>2, <3>3, BatchInserts DEF Next
    <2>. QED  BY <2>2, <2>3
  <1>2. CASE RunHealing
    BY <1>2 DEF RunHealing, batchVars, QueueOfRuns, Next
  <1>3. CASE UNCHANGED pipelineVars
    BY <1>3 DEF pipelineVars, batchVars, QueueOfRuns
  <1>. QED  BY <1>1, <1>2, <1>3 DEF PipelineNext

\* The pipeline implements the queue on its own: whatever runs of run_batch
\* insert, and whenever they do, the healing processes see what SelfHealing
\* assumes of them.
THEOREM QueueImplemented == PipelineSpec => Spec
  <1>1. PipelineInit => Init /\ QueueOfRuns
    BY DEF PipelineInit, Batch!Init, QueueOfRuns
  <1>. QED  BY <1>1, QueueStep, PTL DEF PipelineSpec, Spec

\* No item stays in the queue with retry_count at max_retries, however the
\* processes overlap with each other and with the runs that fill the queue.
\* How often it is replayed is not bounded by it: two processes that have read
\* the same row each replay its payload and count one failure between them.
THEOREM PipelineBudget == PipelineSpec => []BudgetLeft
  BY QueueImplemented, BudgetKept, PTL

\* Nor is one given up before its budget is spent.
THEOREM PipelinePatience == PipelineSpec => []NeverGivesUpEarly
  BY QueueImplemented, PatienceKept, PTL

\* Nor is one resolved that no replay has healed.
THEOREM PipelineResolution == PipelineSpec => []ResolvedWasHealed
  BY QueueImplemented, ResolutionJustified, PTL

-----------------------------------------------------------------------------
(* What the healing processes work on                                      *)

\* A run about to ask for healing has the error it asks for on record.
AboutToEnqueue ==
  \A j \in Jobs :
    pc[j] = "enqueue" => recorded[j] \in errors[j] /\ recorded[j].category \in Batch!Recoverable

\* Every item that is or was in the queue has its error on record.
SeenOnRecord ==
  \A item \in Items :
    (status[item] # "ABSENT" \/ attempts[item] > 0) => item[1] \in Jobs /\ OnRecord(item)

RunsDefined == Jobs = DOMAIN pc /\ Jobs = DOMAIN recorded /\ Jobs = DOMAIN errors

PipelineInv == QueueOfRuns /\ RunsDefined /\ AboutToEnqueue /\ SeenOnRecord

\* A run takes no error back, and gets to the queue only by recording one of
\* a recoverable category.
LEMMA RunsKeepRecord ==
  ASSUME RunsDefined, QueueOfRuns, AboutToEnqueue, [Batch!Next]_batchVars
  PROVE  /\ RunsDefined' /\ AboutToEnqueue'
         /\ \A j \in Jobs : errors[j] \subseteq errors'[j]
  <1>. USE DEF RunsDefined, AboutToEnqueue
  <1>1. ASSUME NEW k \in Jobs,
               Batch!RejectDocument(k)
        PROVE  /\ RunsDefined' /\ AboutToEnqueue'
               /\ \A j \in Jobs : errors[j] \subseteq errors'[j]
    BY <1>1 DEF Batch!RejectDocument, Batch!AtNextDocument
  <1>2. ASSUME NEW k \in Jobs, NEW r \in invalid[k], NEW category \in Batch!Categories,
               Batch!RecordInvalid(k, r, category)
        PROVE  /\ RunsDefined' /\ AboutToEnqueue'
               /\ \A j \in Jobs : errors[j] \subseteq errors'[j]
    <2>1. pc'[k] = "enqueue" => category \in Batch!Recoverable
      BY <1>2 DEF Batch!RecordInvalid, Batch!AfterRecording
    <2>. QED  BY <1>2, <2>1 DEF Batch!RecordInvalid
  <1>3. ASSUME NEW k \in Jobs,
               \/ \E batch \in Batches : Batch!StartBatch(k, batch)
               \/ Batch!ExtractDocument(k) \/ Batch!FailRejection(k) \/ Batch!FailDocument(k)
               \/ \E r \in invalid[k] : Batch!FailRecording(k, r)
               \/ Batch!EnqueueHealing(k) \/ Batch!SkipLoad(k) \/ Batch!LoadRecords(k)
               \/ Batch!FailLoad(k) \/ Batch!CompleteBatch(k)
               \/ Batch!ModelFault(k) \/ Batch!Interrupt(k)
        PROVE  /\ RunsDefined' /\ AboutToEnqueue'
               /\ \A j \in Jobs : errors[j] \subseteq errors'[j]
    <2>1. /\ UNCHANGED <<recorded, errors>>
          /\ pc' = pc \/ \E s \in {"loop", "complete", "done", "stopped"} : pc' = [pc EXCEPT ![k] = s]
      BY <1>3 DEF Batch!StartBatch, Batch!ExtractDocument, Batch!FailRejection, Batch!FailDocument,
             Batch!FailRecording, Batch!EnqueueHealing, Batch!SkipLoad, Batch!LoadRecords,
             Batch!FailLoad, Batch!CompleteBatch, Batch!ModelFault, Batch!Interrupt,
             Batch!Stop, Batch!tables, Batch!locals
    <2>. QED  BY <2>1
  <1>4. CASE UNCHANGED batchVars
    BY <1>4 DEF batchVars
  <1>. QED  BY <1>1, <1>2, <1>3, <1>4 DEF Batch!Next, Batch!Proceed

\* What a run inserts into the queue is the error it has just recorded.
LEMMA InsertedOnRecord ==
  ASSUME QueueOfRuns, RunsDefined, AboutToEnqueue, Batch!Next
  PROVE  \A j \in Jobs : \A row \in queue'[j] \ queue[j] :
           \E e \in errors[j] : /\ QueueItem(j, e) = QueueItem(j, row)
                                /\ e.category \in Batch!Recoverable
  <1>. USE DEF QueueOfRuns, Batch!tables, Batch!locals
  <1>1. PICK k \in Jobs : \/ \E batch \in Batches : Batch!StartBatch(k, batch)
                          \/ Batch!Proceed(k) \/ Batch!ModelFault(k) \/ Batch!Interrupt(k)
    BY DEF Batch!Next
  <1>2. CASE Batch!EnqueueHealing(k)
    <2>1. \A j \in Jobs : \A row \in queue'[j] \ queue[j] :
            j = k /\ row.doc = recorded[k].doc /\ row.row = recorded[k].row
      BY <1>2 DEF Batch!EnqueueHealing
    <2>2. recorded[k] \in errors[k] /\ recorded[k].category \in Batch!Recoverable
      BY <1>2 DEF Batch!EnqueueHealing, AboutToEnqueue
    <2>. QED  BY <2>1, <2>2 DEF QueueItem
  <1>3. CASE ~Batch!EnqueueHealing(k)
    <2>1. queue' = queue
      BY <1>1, <1>3
         DEF Batch!StartBatch, Batch!Proceed, Batch!RejectDocument, Batch!FailRejection, Batch!ExtractDocument,
             Batch!FailDocument, Batch!FailRecording, Batch!RecordInvalid, Batch!SkipLoad,
             Batch!LoadRecords, Batch!FailLoad, Batch!CompleteBatch, Batch!ModelFault,
             Batch!Interrupt, Batch!Stop
    <2>. QED  BY <2>1
  <1>. QED  BY <1>2, <1>3

\* Only an INSERT makes the queue see an item it has not seen: what is read,
\* replayed, marked or dropped by a crash was there before.
LEMMA HealingSeesNoMore ==
  ASSUME IInv, RunHealing, NEW item \in Items,
         status'[item] # "ABSENT" \/ attempts'[item] > 0
  PROVE  status[item] # "ABSENT" \/ attempts[item] > 0
  <1>. USE DEF IInv, TypeOK
  <1>1. ASSUME NEW q \in Items, NEW p \in Triage, Reassign(q, p)
        PROVE  status[item] # "ABSENT" \/ attempts[item] > 0
    BY <1>1 DEF Reassign, history
  <1>2. ASSUME NEW a \in Agents, Fetch(a) \/ Crash(a)
        PROVE  status[item] # "ABSENT" \/ attempts[item] > 0
    BY <1>2 DEF Fetch, Crash, history, table
  <1>3. ASSUME NEW a \in Agents, NEW s \in todo[a], NEW success \in BOOLEAN,
               Replay(a, s, success)
        PROVE  status[item] # "ABSENT" \/ attempts[item] > 0
    <2>1. status[s.item] # "ABSENT"
      BY DEF SnapshotsSound
    <2>. QED  BY <1>3, <2>1 DEF Replay, table
  <1>4. ASSUME NEW a \in Agents, NEW s \in hand[a], Mark(a, s)
        PROVE  status[item] # "ABSENT" \/ attempts[item] > 0
    <2>1. status[s.item] # "ABSENT"
      BY DEF SnapshotsSound
    <2>. QED  BY <1>4, <2>1 DEF Mark, MarkResolved, MarkEscalated, MarkRetried, history
  <1>5. CASE Tick
    BY <1>5 DEF Tick, history
  <1>. QED  BY <1>1, <1>2, <1>3, <1>4, <1>5 DEF RunHealing, Work

\* Every step of the pipeline keeps what the queue has seen on record.
LEMMA PipelineStep ==
  ASSUME PipelineInv, IInv, [PipelineNext]_pipelineVars
  PROVE  PipelineInv'
  <1>. USE DEF PipelineInv
  <1>1. [Batch!Next]_batchVars
    BY DEF PipelineNext, RunBatches, RunHealing, pipelineVars
  <1>2. /\ RunsDefined' /\ AboutToEnqueue' /\ QueueOfRuns'
        /\ \A j \in Jobs : errors[j] \subseteq errors'[j]
    BY <1>1, RunsKeepRecord, QueueStep
  <1>3. \A item \in Items : item[1] \in Jobs /\ OnRecord(item) => OnRecord(item)'
    BY <1>2 DEF OnRecord
  <1>4. SUFFICES ASSUME NEW item \in Items, status'[item] # "ABSENT" \/ attempts'[item] > 0
                 PROVE  item[1] \in Jobs /\ OnRecord(item)'
    BY <1>2 DEF SeenOnRecord
  <1>5. CASE status[item] # "ABSENT" \/ attempts[item] > 0
    BY <1>3, <1>5 DEF SeenOnRecord
  <1>6. CASE ~(status[item] # "ABSENT" \/ attempts[item] > 0)
    <2>1. RunBatches /\ ~UNCHANGED vars
      <3>1. ~UNCHANGED vars
        BY <1>4, <1>6 DEF vars, table, history
      <3>. QED  BY <1>4, <1>6, <3>1, HealingSeesNoMore DEF PipelineNext, pipelineVars
    <2>2. PICK j \in Jobs : \E row \in queue'[j] \ queue[j] :
            QueueItem(j, row) \in Items /\ Enqueue(QueueItem(j, row), row.policy)
      BY <2>1 DEF RunBatches, Insert
    <2>3. PICK row \in queue'[j] \ queue[j] :
            QueueItem(j, row) \in Items /\ Enqueue(QueueItem(j, row), row.policy)
      BY <2>2
    <2>4. item = QueueItem(j, row)
      BY <1>4, <1>6, <2>3 DEF Enqueue, history, IInv, TypeOK
    <2>5. item[1] = j
      BY <2>4 DEF QueueItem
    <2>6. PICK e \in errors[j] : QueueItem(j, e) = item /\ e.category \in Batch!Recoverable
      BY <2>1, <2>3, <2>4, InsertedOnRecord DEF RunBatches
    <2>. QED  BY <1>3, <2>5, <2>6 DEF OnRecord
  <1>. QED  BY <1>5, <1>6

\* Whatever the healing processes find, replay or close is a payload whose
\* recoverable error a run has recorded, wherever that run stands by then.
THEOREM HealingOnRecord == PipelineSpec => []HealsWhatIsOnRecord
  <1>1. PipelineInit => PipelineInv
    BY DEF PipelineInit, Init, Batch!Init, PipelineInv, QueueOfRuns, RunsDefined,
           AboutToEnqueue, SeenOnRecord
  <1>2. PipelineInv => HealsWhatIsOnRecord
    BY DEF PipelineInv, SeenOnRecord, HealsWhatIsOnRecord
  <1>. QED  BY <1>1, <1>2, PipelineStep, QueueImplemented, Invariance, PTL DEF PipelineSpec

=============================================================================
