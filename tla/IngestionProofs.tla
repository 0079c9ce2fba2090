--------------------------- MODULE IngestionProofs ---------------------------
(***************************************************************************)
(* Proofs about Ingestion, for any number of executions and of names: no   *)
(* payload is lost between the landing folder and the archive.             *)
(***************************************************************************)
EXTENDS Ingestion, TLAPS

-----------------------------------------------------------------------------
(* Typing                                                                  *)

\* A key is a folder and a name, and its archive key is one.
LEMMA KeysTyped ==
  /\ \A k \in Keys : /\ Name(k) \in Names /\ Folder(k) \in Folders
                     /\ ArchiveKey(k) \in Keys
                     /\ ArchiveKey(k) # k => k = <<"incoming", Name(k)>>
  /\ \A f \in Folders, n \in Names : <<f, n>> \in Keys /\ Name(<<f, n>>) = n
  /\ \A n \in Names : <<"incoming", n>> \in Keys /\ Name(<<"incoming", n>>) = n
  BY DEF Keys, Folders, Name, Folder, ArchiveKey

\* Nothing has landed and nothing runs.
LEMMA TypeInit == Init => TypeOK
  BY DEF Init, TypeOK

\* Abandoning an execution keeps the types.
LEMMA TypeAbandon == ASSUME TypeOK, NEW r \in Runs, Abandon(r) PROVE TypeOK'
  BY DEF TypeOK, Abandon, storage, history

\* Every action keeps the types.
LEMMA TypeStep == TypeOK /\ [Next]_vars => TypeOK'
  <1>. SUFFICES ASSUME TypeOK, [Next]_vars PROVE TypeOK'
    OBVIOUS
  <1>. USE DEF TypeOK, storage, running, history
  <1>1. CASE UNCHANGED vars
    BY <1>1 DEF vars
  <1>2. ASSUME NEW n \in Names, Put(n), UNCHANGED extras \/ Extra PROVE TypeOK'
    <2>1. extras' \in Nat
      BY <1>2 DEF Extra
    <2>2. landed' \in [Names -> Nat] /\ landed'[n] \in Nat
      BY <1>2 DEF Put
    <2>3. bucket' \in [Keys -> Nat] /\ events' \in [Keys -> Nat]
      BY <1>2, <2>2, KeysTyped DEF Put
    <2>. QED  BY <1>2, <2>1, <2>2, <2>3 DEF Put
  <1>3. ASSUME NEW r \in Runs, NEW k \in Keys, Execute(r, k), extras' \in Nat,
               events' \in [Keys -> Nat]
        PROVE  TypeOK'
    BY <1>3, KeysTyped DEF Execute
  <1>4. ASSUME NEW r \in Runs, NEW k \in Keys, Trigger(r, k) \/ Redeliver(r, k) PROVE TypeOK'
    <2>1. Execute(r, k) /\ extras' \in Nat
      BY <1>4, ConstantsAssumption DEF Trigger, Redeliver, Extra
    <2>2. events' \in [Keys -> Nat]
      BY <1>4 DEF Trigger, Redeliver, Execute
    <2>. QED  BY <1>3, <2>1, <2>2
  <1>5. ASSUME NEW r \in Runs, Resolve(r) \/ RunByHand(r) PROVE TypeOK'
    BY <1>5, ConstantsAssumption DEF Resolve, RunByHand, Extra
  <1>6. ASSUME NEW r \in Runs, NEW k \in toRead[r], ReadObject(r, k) PROVE TypeOK'
    BY <1>6 DEF ReadObject, Document
  <1>7. ASSUME NEW r \in Runs, MissObject(r) \/ FailCopy(r) \/ JobFails(r) PROVE TypeOK'
    BY <1>7, TypeAbandon DEF MissObject, FailCopy, JobFails
  <1>8. ASSUME NEW r \in Runs, RunBatch(r) PROVE TypeOK'
    <2>1. \A d \in documents[r] : <<Name(d[1]), d[2]>> \in Names \X Nat
      BY KeysTyped
    <2>. QED  BY <1>8, <2>1 DEF RunBatch
  <1>9. ASSUME NEW r \in Runs, NEW d \in documents[r], CopyObject(r, d) PROVE TypeOK'
    BY <1>9, KeysTyped DEF CopyObject
  <1>10. ASSUME NEW r \in Runs, NEW d \in documents[r], DeleteObject(r, d) PROVE TypeOK'
    BY <1>10 DEF DeleteObject
  <1>11. ASSUME NEW r \in Runs, Finish(r) PROVE TypeOK'
    BY <1>11 DEF Finish
  <1>12. ASSUME NEW r \in Runs, Notify(r) PROVE TypeOK'
    BY <1>12 DEF Notify, SilentAfterNotice
  <1>. QED  BY <1>1, <1>2, <1>4, <1>5, <1>6, <1>7, <1>8, <1>9, <1>10, <1>11, <1>12
            DEF Next, Advance, Land, LandAgain

\* Type correctness, for any number of executions and names.
THEOREM TypeCorrect == Spec => []TypeOK
  BY TypeInit, TypeStep, PTL DEF Spec

-----------------------------------------------------------------------------
(* The inductive invariant                                                 *)

\* Until a name is landed again its first version is the only one anywhere.
OnlyFirst ==
  \A k \in Keys :
    /\ landed[Name(k)] = 0 => bucket[k] = 0
    /\ landed[Name(k)] = 1 => bucket[k] \in {0, 1}

\* What an execution has read has been landed, and its copies are of it.
ReadState ==
  \A r \in Runs :
    /\ \A d \in documents[r] : /\ landed[Name(d[1])] # 0
                               /\ landed[Name(d[1])] = 1 => d[2] = 1
    /\ copied[r] \subseteq documents[r]
    /\ copied[r] # {} => stage[r] = "archive"
    /\ \A d \in copied[r] : /\ d[1] = <<"incoming", Name(d[1])>>
                            /\ landed[Name(d[1])] = 1 => bucket[ArchiveKey(d[1])] = 1

\* What is being archived was given to the batch.
TakenState ==
  \A r \in Runs : stage[r] = "archive" =>
    \A d \in documents[r] : <<Name(d[1]), d[2]>> \in taken

\* The object of the event is still to be read, in hand, or moved.
Moved(k) ==
  /\ landed[Name(k)] # 0
  /\ landed[Name(k)] = 1 => Present(ArchiveKey(k)) /\ ~Present(k)

OriginState ==
  \A r \in Runs, k \in Keys : k \in origin[r] =>
    /\ stage[r] # "free"
    /\ stage[r] = "read" => k \in toRead[r] \/ \E d \in documents[r] : d[1] = k
    /\ stage[r] = "archive" => Moved(k) \/ \E d \in documents[r] : d[1] = k

IInv ==
  /\ TypeOK
  /\ OnlyFirst
  /\ ReadState
  /\ TakenState
  /\ OriginState
  /\ PayloadRetained
  /\ ArchivedWasTaken

\* The empty bucket.
LEMMA InvInit == Init => IInv
  <1>. SUFFICES ASSUME Init PROVE IInv
    OBVIOUS
  <1>1. TypeOK  BY TypeInit
  <1>2. OnlyFirst /\ ReadState /\ TakenState /\ OriginState
    BY DEF Init, OnlyFirst, ReadState, TakenState, OriginState
  <1>3. PayloadRetained /\ ArchivedWasTaken
    BY KeysTyped DEF Init, PayloadRetained, ArchivedWasTaken, Present
  <1>. QED  BY <1>1, <1>2, <1>3 DEF IInv

\* A landing concerns one name, and a second one ends what is known of it.
LEMMA PutKeeps ==
  ASSUME IInv, NEW n \in Names, Put(n), TypeOK'
  PROVE  IInv'
  <1>1. /\ landed'[n] = landed[n] + 1 /\ landed[n] \in Nat
        /\ \A m \in Names : m # n => landed'[m] = landed[m]
        /\ bucket'[<<"incoming", n>>] = landed'[n]
        /\ \A k \in Keys : k # <<"incoming", n>> => bucket'[k] = bucket[k]
        /\ UNCHANGED <<stage, origin, toRead, documents, copied, taken>>
    BY KeysTyped DEF Put, IInv, TypeOK, running
  <1>2. \A k \in Keys : Name(k) # n => /\ landed'[Name(k)] = landed[Name(k)]
                                       /\ bucket'[k] = bucket[k]
    BY <1>1, KeysTyped
  <1>4. OnlyFirst'
    <2>. SUFFICES ASSUME NEW k \in Keys
                  PROVE  /\ landed'[Name(k)] = 0 => bucket'[k] = 0
                         /\ landed'[Name(k)] = 1 => bucket'[k] \in {0, 1}
      BY DEF OnlyFirst, Keys
    <2>1. CASE Name(k) # n
      BY <1>2, <2>1 DEF IInv, OnlyFirst
    <2>2. CASE k = <<"incoming", n>>
      BY <1>1, <2>2, KeysTyped
    <2>3. CASE Name(k) = n /\ k # <<"incoming", n>>
      BY <1>1, <2>3 DEF IInv, OnlyFirst
    <2>. QED  BY <2>1, <2>2, <2>3
  <1>5. ReadState'
    <2>1. \A r \in Runs : \A d \in documents[r] : d[1] \in Keys /\ Name(d[1]) \in Names
                                                  /\ ArchiveKey(d[1]) \in Keys
                                                  /\ Name(ArchiveKey(d[1])) = Name(d[1])
      BY KeysTyped DEF IInv, TypeOK, ArchiveKey, Name
    <2>2. \A r \in Runs : \A d \in documents[r] : Name(d[1]) = n => landed'[n] > 1
      BY <1>1, <2>1 DEF IInv, ReadState
    <2>. QED  BY <1>1, <1>2, <2>1, <2>2 DEF IInv, ReadState
  <1>6. TakenState'
    BY <1>1 DEF IInv, TakenState
  <1>7. OriginState'
    <2>1. \A k \in Keys : Moved(k) => Moved(k)'
      <3>. SUFFICES ASSUME NEW k \in Keys, Moved(k) PROVE Moved(k)'
        OBVIOUS
      <3>1. ArchiveKey(k) \in Keys /\ Name(ArchiveKey(k)) = Name(k)
        BY KeysTyped DEF ArchiveKey, Name
      <3>2. CASE Name(k) = n
        BY <1>1, <3>2 DEF Moved
      <3>3. CASE Name(k) # n
        BY <1>2, <3>1, <3>3 DEF Moved, Present
      <3>. QED  BY <3>2, <3>3
    <2>. QED  BY <1>1, <2>1 DEF IInv, OriginState
  <1>8. PayloadRetained'
    <2>. SUFFICES ASSUME NEW m \in Names, landed'[m] = 1
                  PROVE  \E f \in Folders : bucket'[<<f, m>>] = 1
      BY DEF PayloadRetained
    <2>1. CASE m = n
      BY <1>1, <2>1 DEF Folders
    <2>2. CASE m # n
      BY <1>1, <2>2 DEF IInv, PayloadRetained, Folders, Keys
    <2>. QED  BY <2>1, <2>2
  <1>9. ArchivedWasTaken'
    <2>. SUFFICES ASSUME NEW m \in Names, landed'[m] = 1, Present(<<"archive", m>>)'
                  PROVE  <<m, 1>> \in taken'
      BY DEF ArchivedWasTaken
    <2>1. <<"archive", m>> \in Keys /\ <<"archive", m>> # <<"incoming", n>>
          /\ Name(<<"archive", m>>) = m
      BY DEF Keys, Folders, Name
    <2>2. bucket[<<"archive", m>>] # 0
      BY <1>1, <2>1 DEF Present
    <2>3. landed[m] = 1
      BY <1>1, <2>1, <2>2 DEF IInv, OnlyFirst
    <2>. QED  BY <1>1, <2>2, <2>3 DEF IInv, ArchivedWasTaken, Present
  <1>. QED  BY <1>4, <1>5, <1>6, <1>7, <1>8, <1>9 DEF IInv

\* A step that leaves the bucket, the landings and what was taken alone, and
\* of one execution changes where it stands, keeps what is said of payloads.
LEMMA PayloadFrame ==
  ASSUME IInv, UNCHANGED <<bucket, landed>>, taken \subseteq taken'
  PROVE  OnlyFirst' /\ PayloadRetained' /\ ArchivedWasTaken'
  BY DEF IInv, OnlyFirst, PayloadRetained, ArchivedWasTaken, Present, Keys

\* An execution starts, resolves, or ends.
LEMMA StageKeeps ==
  ASSUME IInv, TypeOK', NEW r \in Runs,
         \/ \E k \in Keys : Execute(r, k)
         \/ Resolve(r) \/ RunByHand(r) \/ Finish(r) \/ Notify(r)
  PROVE  IInv'
  <1>1. /\ UNCHANGED <<bucket, landed, taken, documents, copied>>
        /\ stage[r] # "read" /\ stage'[r] # "archive"
        /\ copied[r] = {}
        /\ \A s \in Runs : s # r => /\ stage'[s] = stage[s] /\ origin'[s] = origin[s]
                                    /\ toRead'[s] = toRead[s]
    BY DEF Execute, Resolve, RunByHand, Finish, Notify, Busy, ArchivedAll, IInv, ReadState, TypeOK,
           storage, history
  <1>2. \A k \in Keys : k \in origin'[r] => /\ stage'[r] # "free"
                                            /\ stage'[r] = "read" => k \in toRead'[r]
    BY DEF Execute, Resolve, RunByHand, Finish, Notify, Busy, IInv, OriginState, TypeOK
  <1>3. OnlyFirst' /\ PayloadRetained' /\ ArchivedWasTaken'
    BY <1>1, PayloadFrame
  <1>4. ReadState'
    BY <1>1 DEF IInv, ReadState
  <1>5. TakenState'
    BY <1>1 DEF IInv, TakenState
  <1>6. OriginState'
    BY <1>1, <1>2 DEF IInv, OriginState, Moved, Present, Keys
  <1>. QED  BY <1>3, <1>4, <1>5, <1>6 DEF IInv

\* An execution is abandoned.
LEMMA AbandonKeeps ==
  ASSUME IInv, TypeOK', NEW r \in Runs, Abandon(r)
  PROVE  IInv'
  <1>1. /\ UNCHANGED <<bucket, landed, taken, origin>>
        /\ documents'[r] = {} /\ copied'[r] = {}
        /\ stage'[r] = IF origin[r] = {} THEN "free" ELSE "notify"
        /\ \A s \in Runs : s # r => /\ stage'[s] = stage[s] /\ toRead'[s] = toRead[s]
                                    /\ documents'[s] = documents[s] /\ copied'[s] = copied[s]
    BY DEF Abandon, IInv, TypeOK, storage, history
  <1>2. OnlyFirst' /\ PayloadRetained' /\ ArchivedWasTaken'
    BY <1>1, PayloadFrame
  <1>3. ReadState'
    BY <1>1 DEF IInv, ReadState
  <1>4. TakenState'
    BY <1>1 DEF IInv, TakenState
  <1>5. OriginState'
    BY <1>1 DEF IInv, OriginState, Moved, Present, Keys
  <1>. QED  BY <1>2, <1>3, <1>4, <1>5 DEF IInv

\* An object is read as it is now.
LEMMA ReadKeeps ==
  ASSUME IInv, TypeOK', NEW r \in Runs, NEW k \in toRead[r], ReadObject(r, k)
  PROVE  IInv'
  <1>1. /\ stage[r] = "read" /\ bucket[k] # 0
        /\ UNCHANGED <<bucket, landed, taken, origin, stage, copied>>
        /\ documents'[r] = documents[r] \cup {<<k, bucket[k]>>}
        /\ toRead'[r] = toRead[r] \ {k}
        /\ \A s \in Runs : s # r => documents'[s] = documents[s] /\ toRead'[s] = toRead[s]
    BY DEF ReadObject, Document, Present, IInv, TypeOK, storage, history
  <1>2. OnlyFirst' /\ PayloadRetained' /\ ArchivedWasTaken'
    BY <1>1, PayloadFrame
  <1>3. ReadState'
    <2>1. k \in Keys
      BY DEF IInv, TypeOK
    <2>2. landed[Name(k)] # 0 /\ (landed[Name(k)] = 1 => bucket[k] = 1)
      BY <1>1, <2>1 DEF IInv, OnlyFirst
    <2>. QED  BY <1>1, <2>2 DEF IInv, ReadState
  <1>4. TakenState'
    BY <1>1 DEF IInv, TakenState
  <1>5. OriginState'
    <2>. SUFFICES ASSUME NEW s \in Runs, NEW o \in Keys, o \in origin'[s]
                  PROVE  /\ stage'[s] # "free"
                         /\ stage'[s] = "read" => o \in toRead'[s] \/ \E d \in documents'[s] : d[1] = o
                         /\ stage'[s] = "archive" => Moved(o)' \/ \E d \in documents'[s] : d[1] = o
      BY DEF OriginState, Keys
    <2>1. CASE s = r
      <3>1. stage'[s] = "read" /\ (o \in toRead[r] \/ \E d \in documents[r] : d[1] = o)
        BY <1>1, <2>1 DEF IInv, OriginState
      <3>2. \E d \in documents'[r] : d[1] = k
        <4>1. <<k, bucket[k]>> \in documents'[r] /\ <<k, bucket[k]>>[1] = k
          BY <1>1
        <4>. QED  BY <4>1
      <3>. QED  BY <1>1, <2>1, <3>1, <3>2
    <2>2. CASE s # r
      BY <1>1, <2>2 DEF IInv, OriginState, Moved, Present
    <2>. QED  BY <2>1, <2>2
  <1>. QED  BY <1>2, <1>3, <1>4, <1>5 DEF IInv

\* The batch returns.
LEMMA BatchKeeps ==
  ASSUME IInv, TypeOK', NEW r \in Runs, RunBatch(r)
  PROVE  IInv'
  <1>1. /\ stage[r] = "read" /\ stage'[r] = "archive" /\ toRead[r] = {}
        /\ UNCHANGED <<bucket, landed, origin, toRead, documents, copied>>
        /\ taken' = taken \cup {<<Name(d[1]), d[2]>> : d \in documents[r]}
        /\ \A s \in Runs : s # r => stage'[s] = stage[s]
    BY DEF RunBatch, IInv, TypeOK, storage
  <1>2. OnlyFirst' /\ PayloadRetained' /\ ArchivedWasTaken'
    BY <1>1, PayloadFrame
  <1>3. ReadState'
    BY <1>1 DEF IInv, ReadState
  <1>4. TakenState'
    BY <1>1 DEF IInv, TakenState
  <1>5. OriginState'
    BY <1>1 DEF IInv, OriginState, Moved, Present, Keys
  <1>. QED  BY <1>2, <1>3, <1>4, <1>5 DEF IInv

\* A document is copied to the archive.
LEMMA CopyKeeps ==
  ASSUME IInv, TypeOK', NEW r \in Runs, NEW d \in documents[r], CopyObject(r, d)
  PROVE  IInv'
  <1>. DEFINE n == Name(d[1])
              a == ArchiveKey(d[1])
  <1>1. d[1] \in Keys /\ n \in Names /\ a \in Keys /\ a = <<"archive", n>>
    BY KeysTyped DEF IInv, TypeOK, ArchiveKey
  <1>2. /\ stage[r] = "archive" /\ copied[r] = {} /\ bucket[d[1]] # 0 /\ a # d[1]
        /\ UNCHANGED <<stage, origin, toRead, documents, landed, taken>>
        /\ copied'[r] = {d} /\ bucket'[a] = bucket[d[1]]
        /\ \A s \in Runs : s # r => copied'[s] = copied[s]
        /\ \A k \in Keys : k # a => bucket'[k] = bucket[k]
    BY <1>1 DEF CopyObject, OntoItself, GivenToBatch, Present, IInv, TypeOK, history
  <1>3. d[1] = <<"incoming", n>>
    BY <1>1, <1>2, KeysTyped
  <1>4. Name(a) = n
    BY <1>1 DEF Name
  <1>5. landed[n] # 0 /\ (landed[n] = 1 => bucket'[a] = 1)
    BY <1>1, <1>2 DEF IInv, OnlyFirst
  <1>6. OnlyFirst'
    BY <1>1, <1>2, <1>4, <1>5 DEF IInv, OnlyFirst, Keys
  <1>7. ReadState'
    <2>1. \A s \in Runs : \A c \in documents[s] : ArchiveKey(c[1]) \in Keys
      BY KeysTyped DEF IInv, TypeOK
    <2>2. \A s \in Runs : \A c \in documents[s] : ArchiveKey(c[1]) = a => Name(c[1]) = n
      BY <1>1 DEF ArchiveKey
    <2>. QED  BY <1>2, <1>3, <1>5, <2>1, <2>2 DEF IInv, ReadState
  <1>8. TakenState'
    BY <1>2 DEF IInv, TakenState
  <1>9. OriginState'
    <2>1. \A k \in Keys : Moved(k) => Moved(k)'
      <3>. SUFFICES ASSUME NEW k \in Keys, Moved(k), landed[Name(k)] = 1
                    PROVE  Present(ArchiveKey(k))' /\ ~Present(k)'
        BY <1>2 DEF Moved
      <3>1. bucket[ArchiveKey(k)] # 0 /\ bucket[k] = 0 /\ ArchiveKey(k) \in Keys
        BY KeysTyped DEF Moved, Present
      <3>2. k # a
        BY <1>1, <3>1 DEF ArchiveKey, Name
      <3>. QED  BY <1>1, <1>2, <3>1, <3>2 DEF Present
    <2>. QED  BY <1>2, <2>1 DEF IInv, OriginState, Keys
  <1>10. PayloadRetained'
    <2>. SUFFICES ASSUME NEW m \in Names, landed[m] = 1
                  PROVE  \E f \in Folders : bucket'[<<f, m>>] = 1
      BY <1>2 DEF PayloadRetained
    <2>1. CASE m = n
      BY <1>1, <1>5, <2>1 DEF Folders
    <2>2. CASE m # n
      BY <1>1, <1>2, <2>2 DEF IInv, PayloadRetained, Keys
    <2>. QED  BY <2>1, <2>2
  <1>11. ArchivedWasTaken'
    <2>. SUFFICES ASSUME NEW m \in Names, landed[m] = 1, bucket'[<<"archive", m>>] # 0
                  PROVE  <<m, 1>> \in taken
      BY <1>2 DEF ArchivedWasTaken, Present
    <2>1. CASE m = n
      BY <1>2, <2>1 DEF IInv, ReadState, TakenState
    <2>2. CASE m # n
      BY <1>1, <1>2, <2>2 DEF IInv, ArchivedWasTaken, Present, Keys, Folders
    <2>. QED  BY <2>1, <2>2
  <1>. QED  BY <1>6, <1>7, <1>8, <1>9, <1>10, <1>11 DEF IInv

\* The copied document leaves the landing folder.
LEMMA DeleteKeeps ==
  ASSUME IInv, TypeOK', NEW r \in Runs, NEW d \in documents[r], DeleteObject(r, d)
  PROVE  IInv'
  <1>. DEFINE n == Name(d[1])
              k == <<"incoming", n>>
              a == <<"archive", n>>
  <1>1. d[1] \in Keys /\ n \in Names /\ a \in Keys /\ a # k /\ ArchiveKey(k) = a
        /\ k \in Keys /\ Name(k) = n
    BY KeysTyped DEF IInv, TypeOK, ArchiveKey, Folders, Name
  <1>2. d[1] = k /\ (landed[n] = 1 => bucket[a] = 1) /\ stage[r] = "archive"
    BY <1>1 DEF DeleteObject, Deletable, IInv, ReadState
  <1>3. /\ UNCHANGED <<stage, origin, toRead, landed, taken>>
        /\ documents'[r] = documents[r] \ {d} /\ copied'[r] = {}
        /\ \A s \in Runs : s # r => documents'[s] = documents[s] /\ copied'[s] = copied[s]
        /\ bucket'[k] = 0 /\ \A o \in Keys : o # k => bucket'[o] = bucket[o]
    BY <1>1, <1>2 DEF DeleteObject, IInv, TypeOK, history
  <1>4. OnlyFirst'
    BY <1>3 DEF IInv, OnlyFirst, Keys
  <1>5. ReadState'
    <2>1. \A s \in Runs : \A c \in documents[s] : ArchiveKey(c[1]) \in Keys /\ ArchiveKey(c[1]) # k
      BY KeysTyped DEF IInv, TypeOK, ArchiveKey
    <2>. QED  BY <1>3, <2>1 DEF IInv, ReadState
  <1>6. TakenState'
    BY <1>3 DEF IInv, TakenState
  <1>7. OriginState'
    <2>1. \A o \in Keys : Moved(o) => Moved(o)'
      <3>1. \A o \in Keys : ArchiveKey(o) \in Keys /\ ArchiveKey(o) # k
        BY KeysTyped DEF ArchiveKey
      <3>. QED  BY <1>3, <3>1 DEF Moved, Present
    <2>2. Moved(k)'
      <3>1. landed[n] # 0
        BY DEF IInv, ReadState
      <3>. QED  BY <1>1, <1>2, <1>3, <3>1 DEF Moved, Present
    <2>3. \A o \in Keys : (\E c \in documents[r] : c[1] = o) =>
                             o = k \/ \E c \in documents'[r] : c[1] = o
      BY <1>2, <1>3
    <2>. SUFFICES ASSUME NEW s \in Runs, NEW o \in Keys, o \in origin'[s]
                  PROVE  /\ stage'[s] # "free"
                         /\ stage'[s] = "read" => o \in toRead'[s] \/ \E c \in documents'[s] : c[1] = o
                         /\ stage'[s] = "archive" => Moved(o)' \/ \E c \in documents'[s] : c[1] = o
      BY DEF OriginState, Keys
    <2>4. CASE s = r
      BY <1>2, <1>3, <2>1, <2>2, <2>3, <2>4 DEF IInv, OriginState
    <2>5. CASE s # r
      BY <1>3, <2>1, <2>5 DEF IInv, OriginState
    <2>. QED  BY <2>4, <2>5
  <1>8. PayloadRetained'
    <2>. SUFFICES ASSUME NEW m \in Names, landed[m] = 1
                  PROVE  \E f \in Folders : bucket'[<<f, m>>] = 1
      BY <1>3 DEF PayloadRetained
    <2>1. CASE m = n
      BY <1>1, <1>2, <1>3, <2>1 DEF Folders
    <2>2. CASE m # n
      BY <1>1, <1>3, <2>2 DEF IInv, PayloadRetained, Keys
    <2>. QED  BY <2>1, <2>2
  <1>9. ArchivedWasTaken'
    <2>1. \A m \in Names : <<"archive", m>> \in Keys /\ <<"archive", m>> # k
      BY DEF Keys, Folders
    <2>. QED  BY <1>3, <2>1 DEF IInv, ArchivedWasTaken, Present
  <1>. QED  BY <1>4, <1>5, <1>6, <1>7, <1>8, <1>9 DEF IInv

\* Every step keeps the invariant.
LEMMA InvStep == IInv /\ [Next]_vars => IInv'
  <1>. SUFFICES ASSUME IInv, [Next]_vars PROVE IInv'
    OBVIOUS
  <1>0. TypeOK'
    BY TypeStep DEF IInv
  <1>1. CASE UNCHANGED vars
    <2>1. /\ UNCHANGED <<bucket, landed, taken, stage, origin, toRead, documents, copied>>
      BY <1>1 DEF vars, storage, running, history
    <2>2. OnlyFirst' /\ PayloadRetained' /\ ArchivedWasTaken'
      BY <2>1, PayloadFrame
    <2>. QED  BY <1>0, <2>1, <2>2 DEF IInv, ReadState, TakenState, OriginState, Moved, Present, Keys
  <1>2. ASSUME NEW n \in Names, Land(n) \/ LandAgain(n) PROVE IInv'
    BY <1>0, <1>2, PutKeeps DEF Land, LandAgain
  <1>3. ASSUME NEW r \in Runs, NEW k \in Keys, Trigger(r, k) \/ Redeliver(r, k) PROVE IInv'
    BY <1>0, <1>3, StageKeeps DEF Trigger, Redeliver
  <1>4. ASSUME NEW r \in Runs, RunByHand(r) \/ Advance(r) \/ JobFails(r) PROVE IInv'
    <2>1. CASE RunByHand(r) \/ Resolve(r) \/ Finish(r) \/ Notify(r)
      BY <1>0, <2>1, StageKeeps
    <2>2. CASE MissObject(r) \/ FailCopy(r) \/ JobFails(r)
      BY <1>0, <2>2, AbandonKeeps DEF MissObject, FailCopy, JobFails
    <2>3. CASE \E k \in toRead[r] : ReadObject(r, k)
      BY <1>0, <2>3, ReadKeeps
    <2>4. CASE RunBatch(r)
      BY <1>0, <2>4, BatchKeeps
    <2>5. CASE \E d \in documents[r] : CopyObject(r, d) \/ DeleteObject(r, d)
      BY <1>0, <2>5, CopyKeeps, DeleteKeeps
    <2>. QED  BY <1>4, <2>1, <2>2, <2>3, <2>4, <2>5 DEF Advance
  <1>. QED  BY <1>1, <1>2, <1>3, <1>4 DEF Next

\* Every state of ingestion satisfies the inductive invariant.
LEMMA Invariance == Spec => []IInv
  BY InvInit, InvStep, PTL DEF Spec

\* However executions overlap, repeat or die between a copy and a delete, a
\* payload whose name was landed once is in the bucket.
THEOREM NothingLost == Spec => []PayloadRetained
  <1>1. IInv => PayloadRetained  BY DEF IInv
  <1>. QED  BY <1>1, Invariance, PTL

\* Only what a batch has taken is archived.
THEOREM ArchiveIsTaken == Spec => []ArchivedWasTaken
  <1>1. IInv => ArchivedWasTaken  BY DEF IInv
  <1>. QED  BY <1>1, Invariance, PTL

\* An execution that ends well has moved the object of its event, whatever
\* the others did to the same key.
THEOREM SuccessMoves == Spec => SuccessMeansArchived
  <1>. DEFINE Ends == \A r \in Runs : stage[r] = "archive" /\ stage'[r] = "free" =>
                        \A k \in origin[r] : landed[Name(k)] = 1 =>
                          /\ Present(ArchiveKey(k))
                          /\ ~Present(k)
                          /\ <<Name(k), 1>> \in taken
  <1>1. IInv /\ [Next]_vars => Ends
    <2>. SUFFICES ASSUME IInv, [Next]_vars, NEW r \in Runs, stage[r] = "archive", stage'[r] = "free",
                         NEW k \in origin[r], landed[Name(k)] = 1
                  PROVE  /\ Present(ArchiveKey(k))
                         /\ ~Present(k)
                         /\ <<Name(k), 1>> \in taken
      OBVIOUS
    <2>1. documents[r] = {}
      <3>1. CASE UNCHANGED vars
        BY <3>1 DEF vars, running
      <3>2. ASSUME NEW n \in Names, Land(n) \/ LandAgain(n) PROVE documents[r] = {}
        BY <3>2 DEF Land, LandAgain, Put, running
      <3>3. ASSUME NEW s \in Runs, NEW o \in Keys, Trigger(s, o) \/ Redeliver(s, o)
            PROVE  documents[r] = {}
        BY <3>3 DEF Trigger, Redeliver, Execute, IInv, TypeOK
      <3>4. ASSUME NEW s \in Runs, Abandon(s) PROVE documents[r] = {}
        <4>1. s = r => origin[r] # {}
          OBVIOUS
        <4>. QED  BY <3>4, <4>1 DEF Abandon, IInv, TypeOK
      <3>5. ASSUME NEW s \in Runs, RunByHand(s) \/ Advance(s) \/ JobFails(s)
            PROVE  documents[r] = {}
        <4>1. CASE Finish(s)
          BY <4>1 DEF Finish, ArchivedAll, IInv, TypeOK
        <4>2. CASE MissObject(s) \/ FailCopy(s) \/ JobFails(s)
          BY <3>4, <4>2 DEF MissObject, FailCopy, JobFails
        <4>. QED  BY <3>5, <4>1, <4>2 DEF RunByHand, Advance, Resolve, ReadObject, RunBatch, CopyObject,
                                          DeleteObject, Notify, IInv, TypeOK
      <3>. QED  BY <3>1, <3>2, <3>3, <3>5 DEF Next
    <2>2. k \in Keys /\ Name(k) \in Names
      BY KeysTyped DEF IInv, TypeOK
    <2>3. Present(ArchiveKey(k)) /\ ~Present(k)
      BY <2>1, <2>2 DEF IInv, OriginState, Moved
    <2>. QED  BY <2>2, <2>3 DEF IInv, ArchivedWasTaken, ArchiveKey
  <1>2. Ends => [Ends]_vars  OBVIOUS
  <1>. QED  BY <1>1, <1>2, Invariance, PTL DEF Spec, SuccessMeansArchived

=============================================================================
