--------------------------- MODULE DeletionProofs ---------------------------
(* Theorems about Deletion, for every number of attempts, names, chunks,   *)
(* faults and deletion requests.                                           *)
EXTENDS Deletion, IngestProofs

USE DEF thread, catalog, bucket, recon, cleaner, vars, worker, delVars, allVars

(***************************************************************************)
(* What a step of Deletion is to Ingest: a step of Ingest, or one of the   *)
(* worker's statements that write the catalog or the bucket.               *)
(***************************************************************************)

\* A step that counts a fault and touches nothing else of the upload path.
OnlyFaults ==
    /\ faults < MaxFaults /\ faults' = faults + 1
    /\ UNCHANGED <<thread, catalog, bucket, server, recon, cleaner>>

WorkerWrites ==
    \/ InvalidateForDeletion
    \/ \E n \in Names, i \in ChunkIds : DeleteChunkObject(n, i)
    \/ \E n \in Names : DeleteManifestObject(n)
    \/ DeleteRows

LEMMA IngestStepIsNext == IngestStep => Next
BY DEF IngestStep, Next, ConnectBesideDeletes

LEMMA StepOfIngest ==
    ASSUME [DeletionNext]_allVars
    PROVE  [Next]_vars \/ OnlyFaults \/ WorkerWrites
<1>1. CASE IngestStep /\ UNCHANGED delVars
  BY <1>1, IngestStepIsNext
<1>2. CASE CrashWithWorker
  BY <1>2 DEF CrashWithWorker, Next
<1>3. CASE \/ \E d \in DelOps, u \in Uploads : QueueSnapshotDeletion(d, u)
           \/ \E d \in DelOps : QueueDatasetDeletion(d)
  BY <1>3 DEF QueueSnapshotDeletion, QueueDatasetDeletion, Queue
<1>4. CASE Work
  BY <1>4 DEF Work, WorkerWrites, WorkerList, WorkerListDone, RunOperation, CountDescendants,
     ListObjectKeys, DeleteRowsRefused, FailOperation
<1>5. CASE WorkerStepFails \/ OperationLeftPending
  BY <1>5 DEF WorkerStepFails, OperationLeftPending, OnlyFaults
<1>6. CASE UNCHANGED allVars
  BY <1>6
<1> QED BY <1>1, <1>2, <1>3, <1>4, <1>5, <1>6 DEF DeletionNext

\* The worker's statements keep the types of the upload path.
LEMMA IngestTypeKept == TypeInv /\ [DeletionNext]_allVars => TypeInv'
<1> SUFFICES ASSUME TypeInv, [DeletionNext]_allVars PROVE TypeInv'
  OBVIOUS
<1> USE ConstantsAssumption DEF TypeInv, TypeOK, RecordInBounds
<1>1. CASE OnlyFaults
  BY <1>1 DEF OnlyFaults
<1>2. CASE InvalidateForDeletion
  BY <1>2 DEF InvalidateForDeletion
<1>3. ASSUME NEW n \in Names, NEW i \in ChunkIds, DeleteChunkObject(n, i) PROVE TypeInv'
  BY <1>3 DEF DeleteChunkObject
<1>4. ASSUME NEW n \in Names, DeleteManifestObject(n) PROVE TypeInv'
  BY <1>4 DEF DeleteManifestObject
<1>5. CASE DeleteRows
  BY <1>5 DEF DeleteRows
<1> HIDE DEF TypeInv
<1> QED BY <1>1, <1>2, <1>3, <1>4, <1>5, StepOfIngest, TypeInductive DEF WorkerWrites

\* And they delete chunk rows only with their snapshot row.
LEMMA RowsKept == RowsInv /\ TypeOK' /\ [DeletionNext]_allVars => RowsInv'
<1> SUFFICES ASSUME RowsInv, TypeOK', [DeletionNext]_allVars PROVE RowsInv'
  OBVIOUS
<1> USE ConstantsAssumption
    DEF RowsInv, TypeOK, PhasesApart, UniqueNames, RowsFollowChunks, SnapshotDeletedFirst, Live
<1>1. CASE OnlyFaults
  BY <1>1 DEF OnlyFaults
<1>2. CASE InvalidateForDeletion
  BY <1>2 DEF InvalidateForDeletion, Targets
<1>3. ASSUME NEW n \in Names, NEW i \in ChunkIds, DeleteChunkObject(n, i) PROVE RowsInv'
  BY <1>3 DEF DeleteChunkObject
<1>4. ASSUME NEW n \in Names, DeleteManifestObject(n) PROVE RowsInv'
  BY <1>4 DEF DeleteManifestObject
<1>5. CASE DeleteRows
  BY <1>5 DEF DeleteRows
<1> HIDE DEF RowsInv, TypeOK
<1> QED BY <1>1, <1>2, <1>3, <1>4, <1>5, StepOfIngest, RowsInductive DEF WorkerWrites

LEMMA IngestTypeAlways == DeletionSpec => []TypeInv
<1>1. DeletionInit => TypeInv
  BY TypeInitially DEF DeletionInit
<1> QED BY <1>1, IngestTypeKept, PTL DEF DeletionSpec

LEMMA RowsAlways == DeletionSpec => []RowsInv
<1>1. DeletionInit => RowsInv
  BY RowsInitially DEF DeletionInit
<1>2. TypeInv => TypeOK
  BY DEF TypeInv
<1> QED BY <1>1, <1>2, RowsKept, IngestTypeAlways, PTL DEF DeletionSpec

\* A deletion that runs beside anything, even beside the upload of what it
\* deletes, never leaves a committed snapshot with a chunk row missing or a
\* second row of its name.
THEOREM CommitsStayComplete == DeletionSpec => []CommittedRowsComplete
BY RowsImplyComplete, RowsAlways, PTL

(***************************************************************************)
(* Type correctness of the queue and of the worker.                        *)
(*                                                                         *)
(* DeletionTypeOK is not inductive by itself.  The operation the worker    *)
(* ends must be an operation (OneInHand), a request must take a slot that  *)
(* no request has (QueueInOrder), and the dataset must not be deleted more *)
(* often than there are requests: each earlier generation was deleted by   *)
(* an operation of its own (GenerationsUsed).                              *)
(***************************************************************************)

Busy == {"count", "keys", "invalidate", "objects", "fail"}

\* Requests take the slots one after the other.
QueueInOrder ==
    \E k \in 0 .. MaxDeletes : \A d \in DelOps : del[d].status # "none" <=> d <= k

\* A listed row is a pending operation's, with the references it was created
\* with or NULL for those that were gone.
ListingOf(r) ==
    /\ r.op \in Pending
    /\ r.snap \in {None, del[r.op].snap} /\ r.gen \in {0, del[r.op].gen}

ListedArePending ==
    /\ \A r \in wTodo : ListingOf(r)
    /\ \A r, q \in wTodo : r.op = q.op => r = q
    /\ wStep = "idle" => wTodo = {}

\* The operation in hand is pending, and is not listed a second time.
OneInHand ==
    wStep \in Busy =>
        /\ wCur \in Listed /\ ListingOf(wCur)
        /\ \A r \in wTodo : r.op # wCur.op
        /\ wStep = "count" => wCur.snap # None

\* Every earlier dataset row was deleted by an operation of its own.
GenerationsUsed ==
    \A g \in 1 .. generation - 1 :
        \E d \in DelOps : del[d].status = "succeeded" /\ del[d].gen = g

QueueInv ==
    /\ DeletionTypeOK
    /\ QueueInOrder /\ ListedArePending /\ OneInHand /\ GenerationsUsed

\* So the dataset cannot have been deleted more often than was asked for.
LEMMA GenerationsBounded ==
    ASSUME NEW D, NEW g \in Nat \ {0},
           \A h \in 1 .. g - 1 : \E d \in DelOps : D[d].gen = h
    PROVE  g \in 1 .. MaxDeletes + 1
<1> USE DeletionAssumption
<1> DEFINE by == [h \in 1 .. g - 1 |-> CHOOSE d \in DelOps : D[d].gen = h]
<1>1. ASSUME NEW h \in 1 .. g - 1 PROVE by[h] \in DelOps /\ D[by[h]].gen = h
  OBVIOUS
<1>2. by \in Injection(1 .. g - 1, DelOps)
  BY <1>1 DEF Injection, IsInjective
<1>3. IsFiniteSet(DelOps) /\ Cardinality(DelOps) = MaxDeletes
  BY FS_Interval DEF DelOps
<1>4. Cardinality(1 .. g - 1) = g - 1
  BY FS_Interval
<1>5. Cardinality(1 .. g - 1) <= Cardinality(DelOps)
  BY <1>2, <1>3, FS_Injection
<1> QED BY <1>3, <1>4, <1>5

\* The slot a request takes is free, and the next one.
LEMMA QueueTakesFreeSlot ==
    ASSUME QueueInv, NEW d \in DelOps, NEW u \in Uploads \cup {None}, Queue(d, u)
    PROVE  del[d].status = "none" /\ QueueInOrder'
<1> USE DeletionAssumption
<1>1. PICK k \in 0 .. MaxDeletes : \A e \in DelOps : del[e].status # "none" <=> e <= k
  BY DEF QueueInv, QueueInOrder
<1>2. {e \in DelOps : del[e].status # "none"} = 1 .. k
  BY <1>1 DEF DelOps
<1>3. Cardinality(1 .. k) = k
  BY FS_Interval
<1>4. d = k + 1
  BY <1>2, <1>3 DEF Queue
<1>5. \A e \in DelOps : del'[e].status # "none" <=> e <= k + 1
  BY <1>1, <1>4 DEF Queue, QueueInv, DeletionTypeOK, DelOps
<1>6. k + 1 \in 0 .. MaxDeletes
  BY <1>4 DEF DelOps
<1> QED BY <1>1, <1>4, <1>5, <1>6 DEF QueueInOrder, DelOps

\* Requests, and the steps of the worker, keep it.
LEMMA QueueInvInductive == QueueInv /\ TypeOK /\ [DeletionNext]_allVars => QueueInv'
<1> SUFFICES ASSUME QueueInv, TypeOK, [DeletionNext]_allVars PROVE QueueInv'
  OBVIOUS
<1> USE ConstantsAssumption, DeletionAssumption
    DEF QueueInv, DeletionTypeOK, ListedArePending, OneInHand, ListingOf, GenerationsUsed,
        Pending, Busy, Listed, NoOp
<1>1. ASSUME UNCHANGED <<del, generation>>, wStep' = "idle", wTodo' = {}, wCur' = NoOp,
             wChunks' = {}, wManifests' = {}
      PROVE  QueueInv'
  BY <1>1 DEF QueueInOrder
<1>2. CASE UNCHANGED delVars
  BY <1>2 DEF QueueInOrder
<1>3. ASSUME NEW d \in DelOps, NEW u \in Uploads \cup {None}, Queue(d, u) PROVE QueueInv'
  <2>1. del[d].status = "none" /\ QueueInOrder'
    BY <1>3, QueueTakesFreeSlot
  <2>2. \A e \in DelOps : e # d => del'[e] = del[e]
    BY <1>3 DEF Queue
  <2>3. del'[d] = [status |-> "queued", snap |-> u, gen |-> generation]
    BY <1>3 DEF Queue
  <2>4. UNCHANGED <<generation, worker>>
    BY <1>3 DEF Queue
  <2>5. DeletionTypeOK'
    BY <1>3, <2>4 DEF Queue
  <2>6. ListedArePending' /\ OneInHand'
    BY <2>1, <2>2, <2>4
  <2>7. GenerationsUsed'
    BY <2>1, <2>2, <2>4
  <2> QED BY <2>1, <2>5, <2>6, <2>7
<1>4. CASE WorkerList
  BY <1>4 DEF WorkerList, SnapshotRef, DatasetRef, QueueInOrder
<1>5. CASE WorkerListDone
  BY <1>5 DEF WorkerListDone, QueueInOrder
<1>6. ASSUME NEW r \in wTodo, RunOperation(r) PROVE QueueInv'
  <2> USE <1>6 DEF RunOperation
  <2>1. DeletionTypeOK' /\ \A d \in DelOps : d # r.op => del'[d] = del[d]
    OBVIOUS
  <2>2. del'[r.op] = [del[r.op] EXCEPT !.status = "running"] /\ del[r.op].status # "none"
    OBVIOUS
  <2>3. QueueInOrder'
    BY <2>1, <2>2 DEF QueueInOrder
  <2>4. ListedArePending'
    BY <2>1, <2>2
  <2>5. OneInHand'
    BY <2>1, <2>2
  <2>6. GenerationsUsed'
    BY <2>1, <2>2
  <2> QED BY <2>1, <2>3, <2>4, <2>5, <2>6
<1>7. CASE CountDescendants
  BY <1>7 DEF CountDescendants, QueueInOrder
<1>8. CASE ListObjectKeys
  BY <1>8 DEF ListObjectKeys, QueueInOrder
<1>9. CASE InvalidateForDeletion
  BY <1>9 DEF InvalidateForDeletion, QueueInOrder
<1>10. ASSUME NEW n \in Names, NEW i \in ChunkIds, DeleteChunkObject(n, i) PROVE QueueInv'
  BY <1>10 DEF DeleteChunkObject, QueueInOrder
<1>11. ASSUME NEW n \in Names, DeleteManifestObject(n) PROVE QueueInv'
  BY <1>11 DEF DeleteManifestObject, QueueInOrder
<1>12. CASE DeleteRows
  <2> DEFINE op == wCur.op
  <2>1. /\ op \in DelOps /\ del[op].status \in {"queued", "running"}
        /\ \A r \in wTodo : r.op # op
        /\ wCur.gen \in {0, del[op].gen}
    BY <1>12 DEF DeleteRows, AllObjectsDeleted
  <2>2. /\ \A d \in DelOps : d # op => del'[d] = del[d]
        /\ del'[op] = [del[op] EXCEPT !.status = "succeeded"]
    BY <1>12, <2>1 DEF DeleteRows
  <2>3. /\ wCur' = NoOp /\ wStep' = "next"
        /\ UNCHANGED <<wTodo, wChunks, wManifests>>
        /\ del' \in [DelOps -> [status : {"none", "queued", "running", "succeeded", "failed"},
                               snap : Uploads \cup {None}, gen : 0 .. MaxDeletes + 1]]
    BY <1>12, <2>1 DEF DeleteRows
  <2>4. \/ generation' = generation
        \/ generation' = generation + 1 /\ wCur.gen = generation
    BY <1>12 DEF DeleteRows
  <2>5. GenerationsUsed'
    <3> SUFFICES ASSUME NEW g \in 1 .. generation' - 1
                 PROVE  \E d \in DelOps : del'[d].status = "succeeded" /\ del'[d].gen = g
      OBVIOUS
    <3>1. CASE g \in 1 .. generation - 1
      BY <2>1, <2>2, <3>1
    <3>2. CASE g \notin 1 .. generation - 1
      <4>1. g = generation /\ wCur.gen = generation
        BY <2>4, <3>2
      <4>2. del'[op].gen = g /\ del'[op].status = "succeeded"
        BY <2>1, <2>2, <4>1
      <4> QED BY <2>1, <4>2
    <3> QED BY <3>1, <3>2
  <2>6. generation' \in 1 .. MaxDeletes + 1
    <3>1. generation' \in Nat \ {0}
      BY <2>4
    <3>2. \A h \in 1 .. generation' - 1 : \E d \in DelOps : del'[d].gen = h
      BY <2>5
    <3> HIDE DEF QueueInv, DeletionTypeOK, GenerationsUsed
    <3> QED BY <3>1, <3>2, GenerationsBounded
  <2>7. DeletionTypeOK'
    BY <2>3, <2>6
  <2>8. QueueInOrder'
    BY <2>1, <2>2 DEF QueueInOrder
  <2>9. ListedArePending' /\ OneInHand'
    BY <2>1, <2>2, <2>3
  <2> QED BY <2>5, <2>7, <2>8, <2>9
<1>13. CASE DeleteRowsRefused
  BY <1>13 DEF DeleteRowsRefused, AllObjectsDeleted, QueueInOrder
<1>14. CASE WorkerStepFails
  BY <1>14 DEF WorkerStepFails, QueueInOrder
<1>15. CASE FailOperation
  <2> USE <1>15 DEF FailOperation
  <2>1. DeletionTypeOK' /\ \A d \in DelOps : d # wCur.op => del'[d] = del[d]
    OBVIOUS
  <2>2. /\ del'[wCur.op] = [del[wCur.op] EXCEPT !.status = "failed"]
        /\ del[wCur.op].status \in {"queued", "running"}
    OBVIOUS
  <2>3. QueueInOrder'
    BY <2>1, <2>2 DEF QueueInOrder
  <2>4. ListedArePending' /\ OneInHand'
    BY <2>1, <2>2
  <2>5. GenerationsUsed'
    BY <2>1, <2>2
  <2> QED BY <2>1, <2>3, <2>4, <2>5
<1>16. CASE OperationLeftPending
  BY <1>16 DEF OperationLeftPending, QueueInOrder
<1>17. CASE CrashWithWorker
  BY <1>1, <1>17 DEF CrashWithWorker
<1> HIDE DEF QueueInv, Pending
<1> QED
  BY <1>2, <1>3, <1>4, <1>5, <1>6, <1>7, <1>8, <1>9, <1>10, <1>11, <1>12, <1>13, <1>14,
     <1>15, <1>16, <1>17
  DEF DeletionNext, Work, QueueSnapshotDeletion, QueueDatasetDeletion

LEMMA QueueInitially == DeletionInit => QueueInv
<1> SUFFICES ASSUME DeletionInit PROVE QueueInv
  OBVIOUS
<1>1. DeletionTypeOK
  BY DeletionAssumption DEF DeletionInit, DeletionTypeOK, NoOp
<1>2. QueueInOrder
  <2>1. 0 \in 0 .. MaxDeletes /\ \A d \in DelOps : ~(d <= 0)
    BY DeletionAssumption DEF DelOps
  <2> QED BY <2>1 DEF DeletionInit, QueueInOrder
<1>3. ListedArePending /\ OneInHand /\ GenerationsUsed
  BY DEF DeletionInit, ListedArePending, OneInHand, GenerationsUsed, Busy
<1> QED BY <1>1, <1>2, <1>3 DEF QueueInv

LEMMA QueueInvAlways == DeletionSpec => []QueueInv
<1>1. TypeInv => TypeOK
  BY DEF TypeInv
<1> QED BY <1>1, QueueInitially, QueueInvInductive, IngestTypeAlways, PTL DEF DeletionSpec

\* Whatever is asked for and however often the worker is killed, the queue and
\* the worker keep their types: an operation's status is one its CHECK allows,
\* the worker ends only operations that exist, and the dataset is not deleted
\* more often than was asked for.
THEOREM QueueTypeCorrect == DeletionSpec => []DeletionTypeOK
<1>1. QueueInv => DeletionTypeOK
  BY DEF QueueInv
<1> QED BY <1>1, QueueInvAlways, PTL

(***************************************************************************)
(* Deletions at any time, beside uploads, dataset deletions, crashes and   *)
(* the startup cleanup.  A request for one snapshot is carried out as one  *)
(* for the dataset when its snapshot_id was nulled while its dataset_id    *)
(* was not.  CarefulRequests keeps away from the two ways into that: a     *)
(* request for a snapshot whose row a retry may replace, and a second      *)
(* request for a snapshot that is already being deleted.                   *)
(*                                                                         *)
(* SettledUploads says that nothing but the worker takes the row of an     *)
(* acknowledged snapshot away, and RequestsFindRows that the worker then   *)
(* sees a request as it was made, unless its whole dataset is gone.        *)
(***************************************************************************)

\* A new request for one snapshot names one whose upload was acknowledged, and
\* that no pending request names.  Dataset requests come at any time.
CarefulRequest ==
    \A d \in DelOps :
        del[d].status = "none" /\ del'[d].status # "none" /\ del'[d].snap # None =>
            pc[del'[d].snap] = "ok" /\ \A e \in Pending : del[e].snap # del'[d].snap

CarefulRequests == [][CarefulRequest]_allVars

\* A deletion may take the rows of a running Receive away, so less can be said
\* of it than LiveOwnsRows does; but its session never looks stale.
SettledUploads ==
    \A u \in Uploads :
        /\ Committed(u) => pc[u] = "ok"
        /\ pc[u] \in {"idle", "start"} => sess[u] = "none"
        /\ Live(u) => sess[u] = "none" \/ (sess[u] = "active" /\ fresh[u])
        /\ pc[u] = "ok" => /\ snap[u] \in {"committed", "deleting", "none"}
                           /\ sess[u] \in {"complete", "none"}

\* The reconciler and the cleanup work on attempts without a goroutine.
MaintainsDead ==
    /\ \A u \in recTodo \cup cleanTodo : Dead(u)
    /\ recStep \in {"session", "operation"} => recCur \in Uploads /\ Dead(recCur)
    /\ cleanStep \in {"snapshot", "session"} => cleanCur \in Uploads /\ Dead(cleanCur)

\* A listed row without a snapshot, of a dataset that is still there.
AsksForDataset(r) == r.snap = None /\ r.gen = generation

RequestsFindRows ==
    /\ \A d \in DelOps : del[d].gen <= generation
    /\ \A d \in Pending : del[d].snap # None =>
          pc[del[d].snap] = "ok" /\ (snap[del[d].snap] # "none" \/ del[d].gen # generation)
    /\ \A d, e \in Pending : del[d].snap # None /\ del[d].snap = del[e].snap => d = e
    /\ \A r \in wTodo : AsksForDataset(r) => del[r.op].snap = None
    /\ wStep \in Busy /\ AsksForDataset(wCur) => del[wCur.op].snap = None

\* The two halves that speak of the uploads, through a step of the uploads.
LEMMA SettledBesideUploads ==
    ASSUME ~SlowChunks, TypeOK, TypeOK', SettledUploads, MaintainsDead, [Next]_vars
    PROVE  SettledUploads' /\ MaintainsDead'
<1> USE ConstantsAssumption DEF TypeOK, SettledUploads, MaintainsDead, Committed, Live, LivePc, Dead
<1>1. ASSUME NEW u \in Uploads, Receive(u) PROVE SettledUploads' /\ MaintainsDead'
  <2>1. CASE StartUpload(u)
    BY <2>1 DEF StartUpload, Replaceable
  <2>2. CASE CommitUpload(u)
    BY <2>2 DEF CommitUpload, UpdateStatus
  <2>3. CASE FailUpload(u)
    BY <2>3 DEF FailUpload, UpdateStatus
  <2>4. CASE RejectUpload(u) \/ StepFails(u) \/ FailureNotRecorded(u) \/ PutChunk(u)
    BY <2>4 DEF RejectUpload, StepFails, FailureNotRecorded, PutChunk
  <2>5. CASE AddVerifiedChunk(u) \/ PutManifest(u)
    BY <2>5 DEF AddVerifiedChunk, PutManifest
  <2>6. CASE UpdateUploadProgress(u) \/ SetUploadManifestObjectKey(u)
    BY <2>6 DEF UpdateUploadProgress, SetUploadManifestObjectKey, UpdateStatus
  <2>7. ASSUME NEW c \in BOOLEAN, EndOfStream(u, c) PROVE SettledUploads' /\ MaintainsDead'
    BY <2>7 DEF EndOfStream, UpdateStatus
  <2> QED BY <1>1, <2>1, <2>2, <2>3, <2>4, <2>5, <2>6, <2>7 DEF Receive
<1>2. ASSUME NEW u \in Uploads, NEW n \in Names, NEW b \in Uploads \cup {None}, Connect(u, n, b)
      PROVE  SettledUploads' /\ MaintainsDead'
  BY <1>2 DEF Connect
<1>3. ASSUME NEW u \in Uploads, HeartbeatAges(u) PROVE SettledUploads' /\ MaintainsDead'
  BY <1>3 DEF HeartbeatAges
<1>4. CASE ReconcileList
  BY <1>4 DEF ReconcileList, StaleSessions
<1>5. CASE \/ \E u \in Uploads : ReconcileFailSnapshot(u)
           \/ ReconcileFailSession \/ ReconcileFailOperation \/ ReconcileDone \/ ReconcileAborts
  BY <1>5 DEF ReconcileFailSnapshot, ReconcileFailSession, ReconcileFailOperation, ReconcileDone,
     ReconcileAborts, UpdateStatus
<1>6. CASE CleanupList
  BY <1>6 DEF CleanupList
<1>7. CASE \/ \E u \in Uploads : CleanupObjects(u) \/ CleanupObjectsFail(u)
           \/ CleanupSnapshotRow \/ CleanupDeleteSession
  BY <1>7 DEF CleanupObjects, CleanupObjectsFail, CleanupSnapshotRow, CleanupDeleteSnapshot,
     CleanupRefused, CleanupDeleteSession
<1>8. CASE StartServing \/ Restart \/ UNCHANGED vars
  BY <1>8 DEF StartServing, Restart
<1>9. CASE Crash
  BY <1>9 DEF Crash
<1> HIDE DEF SettledUploads, MaintainsDead
<1> QED BY <1>1, <1>2, <1>3, <1>4, <1>5, <1>6, <1>7, <1>8, <1>9 DEF Next, Reconcile, Cleanup

LEMMA SettledKept ==
    ASSUME ~SlowChunks, TypeOK, TypeOK', SettledUploads, MaintainsDead, [DeletionNext]_allVars
    PROVE  SettledUploads' /\ MaintainsDead'
<1> USE DEF TypeOK, SettledUploads, MaintainsDead, Committed, Live, LivePc, Dead
<1>1. CASE OnlyFaults
  BY <1>1 DEF OnlyFaults
<1>2. CASE InvalidateForDeletion
  BY <1>2 DEF InvalidateForDeletion
<1>3. CASE \/ \E n \in Names, i \in ChunkIds : DeleteChunkObject(n, i)
           \/ \E n \in Names : DeleteManifestObject(n)
  <2>1. UNCHANGED <<thread, catalog, recon, cleaner>>
    BY <1>3 DEF DeleteChunkObject, DeleteManifestObject
  <2> QED BY <2>1
<1>4. CASE DeleteRows
  BY <1>4 DEF DeleteRows
<1> HIDE DEF TypeOK, SettledUploads, MaintainsDead
<1> QED BY <1>1, <1>2, <1>3, <1>4, SettledBesideUploads, StepOfIngest DEF WorkerWrites

\* No step of the uploads takes an acknowledged snapshot's row away.
LEMMA AckedRowStays ==
    ASSUME TypeOK, SettledUploads, MaintainsDead, [Next]_vars, NEW v \in Uploads, pc[v] = "ok"
    PROVE  /\ pc'[v] = "ok" /\ snap'[v] = snap[v]
<1> DEFINE Kept == pc'[v] = "ok" /\ snap'[v] = snap[v]
<1> SUFFICES Kept
  OBVIOUS
<1> USE DEF TypeOK, Live, LivePc
<1>1. ASSUME NEW u \in Uploads, Receive(u) PROVE Kept
  <2>1. CASE StartUpload(u)
    BY <2>1 DEF StartUpload, Replaceable, SettledUploads
  <2> QED
    BY <1>1, <2>1
    DEF Receive, RejectUpload, PutChunk, AddVerifiedChunk, UpdateUploadProgress, EndOfStream,
        PutManifest, SetUploadManifestObjectKey, CommitUpload, StepFails, FailUpload,
        FailureNotRecorded, UpdateStatus
<1>2. CASE Reconcile \/ ReconcileAborts
  BY <1>2 DEF Reconcile, ReconcileList, ReconcileFailSnapshot, ReconcileFailSession,
     ReconcileFailOperation, ReconcileDone, ReconcileAborts, UpdateStatus, MaintainsDead, Dead
<1>3. CASE Cleanup \/ \E u \in Uploads : CleanupObjectsFail(u)
  BY <1>3 DEF Cleanup, CleanupList, CleanupObjects, CleanupObjectsFail, CleanupSnapshotRow,
     CleanupDeleteSnapshot, CleanupRefused, CleanupDeleteSession, MaintainsDead, Dead
<1>4. CASE \/ \E u \in Uploads, n \in Names, b \in Uploads \cup {None} : Connect(u, n, b)
           \/ \E u \in Uploads : HeartbeatAges(u)
           \/ StartServing \/ Restart \/ Crash \/ UNCHANGED vars
  BY <1>4 DEF Connect, HeartbeatAges, StartServing, Restart, Crash
<1> HIDE DEF Kept
<1> QED BY <1>1, <1>2, <1>3, <1>4 DEF Next

\* A step that leaves the requests alone, keeps what the worker has listed or
\* drops it, and takes no acknowledged row away.
LEMMA FindRowsFrame ==
    ASSUME QueueInv, RequestsFindRows, UNCHANGED <<del, generation>>,
           wTodo' \subseteq wTodo,
           wStep' \in Busy => wStep \in Busy /\ wCur' = wCur,
           \A u \in Uploads : pc[u] = "ok" => pc'[u] = "ok" /\ (snap[u] # "none" => snap'[u] # "none")
    PROVE  RequestsFindRows'
BY DEF RequestsFindRows, QueueInv, DeletionTypeOK, Pending, AsksForDataset

LEMMA FindRowsRequest ==
    ASSUME QueueInv, RequestsFindRows, TypeOK, [CarefulRequest]_allVars,
           NEW d \in DelOps, NEW u \in Uploads \cup {None}, Queue(d, u),
           u # None => snap[u] # "none"
    PROVE  RequestsFindRows'
<1>1. del[d].status = "none"
  BY QueueTakesFreeSlot DEF QueueInv, DeletionTypeOK
<1>2. /\ \A e \in DelOps : e # d => del'[e] = del[e]
      /\ del'[d] = [status |-> "queued", snap |-> u, gen |-> generation]
      /\ UNCHANGED <<vars, generation, worker>>
  BY DEF Queue, QueueInv, DeletionTypeOK
<1>3. u # None => pc[u] = "ok" /\ \A e \in Pending : del[e].snap # u
  <2>1. del' # del
    BY <1>1, <1>2
  <2> QED BY <1>1, <1>2, <2>1 DEF CarefulRequest
<1>4. \A r \in wTodo : r.op # d
  BY <1>1 DEF QueueInv, ListedArePending, ListingOf, Pending
<1>5. wStep \in Busy => wCur.op # d /\ wCur.op \in DelOps
  BY <1>1 DEF QueueInv, OneInHand, ListingOf, Pending
<1>6. Pending' = Pending \cup {d}
  BY <1>1, <1>2 DEF Pending
<1>7. \A r \in wTodo : r.op \in DelOps
  BY DEF QueueInv, ListedArePending, ListingOf, Pending
<1>8. generation \in Nat
  BY DeletionAssumption DEF QueueInv, DeletionTypeOK
<1> QED
  BY <1>1, <1>2, <1>3, <1>4, <1>5, <1>6, <1>7, <1>8 DEF RequestsFindRows, Pending, AsksForDataset

\* Every statement of the worker leaves the other requests their rows, or takes
\* their whole dataset away.
LEMMA FindRowsWork ==
    ASSUME QueueInv, TypeOK, RequestsFindRows, SettledUploads, Work
    PROVE  RequestsFindRows'
<1> USE DeletionAssumption DEF QueueInv, DeletionTypeOK
<1>1. CASE WorkerList
  <2>1. \A r \in wTodo' : AsksForDataset(r) => del[r.op].snap = None
    BY <1>1 DEF WorkerList, AsksForDataset, SnapshotRef, DatasetRef, RequestsFindRows, Pending
  <2>2. UNCHANGED <<pc, snap, del, generation>> /\ wStep' = "next"
    BY <1>1 DEF WorkerList
  <2> QED BY <2>1, <2>2 DEF RequestsFindRows, Pending, AsksForDataset, Busy
<1>2. ASSUME NEW r \in wTodo, RunOperation(r) PROVE RequestsFindRows'
  <2>1. r.op \in DelOps /\ r.op \in Pending
    BY DEF ListedArePending, ListingOf, Pending
  <2>2. /\ \A e \in DelOps : e # r.op => del'[e] = del[e]
        /\ del'[r.op] = [del[r.op] EXCEPT !.status = "running"]
        /\ UNCHANGED <<pc, snap, generation>> /\ wTodo' = wTodo \ {r} /\ wCur' = r
    BY <1>2, <2>1 DEF RunOperation
  <2>3. /\ Pending' = Pending
        /\ \A e \in DelOps : del'[e].snap = del[e].snap /\ del'[e].gen = del[e].gen
    BY <2>1, <2>2 DEF Pending
  <2>4. \A q \in wTodo : q.op \in DelOps
    BY DEF ListedArePending, ListingOf, Pending
  <2> QED BY <2>1, <2>2, <2>3, <2>4 DEF RequestsFindRows, AsksForDataset, Pending
<1>3. CASE FailOperation
  <2>1. wCur.op \in DelOps
    BY <1>3 DEF FailOperation, OneInHand, ListingOf, Pending, Busy
  <2>2. /\ \A e \in DelOps : e # wCur.op => del'[e] = del[e]
        /\ del'[wCur.op] = [del[wCur.op] EXCEPT !.status = "failed"]
        /\ UNCHANGED <<pc, snap, generation, wTodo>> /\ wStep' = "next"
    BY <1>3, <2>1 DEF FailOperation
  <2>3. /\ Pending' \subseteq Pending
        /\ \A e \in DelOps : del'[e].snap = del[e].snap /\ del'[e].gen = del[e].gen
    BY <2>1, <2>2 DEF Pending
  <2>4. \A q \in wTodo : q.op \in DelOps
    BY DEF ListedArePending, ListingOf, Pending
  <2> QED BY <2>1, <2>2, <2>3, <2>4 DEF RequestsFindRows, AsksForDataset, Pending, Busy
<1>4. CASE DeleteRows
  <2>1. /\ wCur.op \in DelOps /\ wCur.op \in Pending /\ wCur \in Listed
        /\ wCur.snap \in {None, del[wCur.op].snap}
        /\ \A q \in wTodo : q.op \in DelOps /\ q.gen \in {0, del[q.op].gen}
    BY <1>4 DEF DeleteRows, AllObjectsDeleted, OneInHand, ListedArePending, ListingOf, Pending, Busy
  <2>2. /\ \A e \in DelOps : e # wCur.op => del'[e] = del[e]
        /\ del'[wCur.op] = [del[wCur.op] EXCEPT !.status = "succeeded"]
        /\ UNCHANGED <<pc, wTodo>> /\ wStep' = "next"
    BY <1>4, <2>1 DEF DeleteRows
  <2>3. /\ Pending' = Pending \ {wCur.op}
        /\ \A e \in DelOps : del'[e].snap = del[e].snap /\ del'[e].gen = del[e].gen
    BY <2>1, <2>2 DEF Pending
  <2>4. CASE AsksForDataset(wCur)
    <3>1. generation' = generation + 1
      BY <1>4, <2>4 DEF DeleteRows, AsksForDataset
    <3>2. \A e \in DelOps : del'[e].gen <= generation /\ del'[e].gen \in Nat
      BY <2>3 DEF RequestsFindRows
    <3>3. \A q \in wTodo : q.gen # generation'
      BY <2>1, <2>3, <3>1, <3>2
    <3> QED BY <2>2, <2>3, <3>1, <3>2, <3>3 DEF RequestsFindRows, AsksForDataset, Pending, Busy
  <2>5. CASE ~AsksForDataset(wCur)
    <3>1. generation' = generation
      BY <1>4, <2>5 DEF DeleteRows, AsksForDataset
    <3>2. \A u \in Uploads : u # wCur.snap => snap'[u] = snap[u]
      BY <1>4, <2>5 DEF DeleteRows, AsksForDataset, Targets, TypeOK
    <3>3. \A e \in Pending' : del[e].snap # None => del[e].snap # wCur.snap
      BY <2>1, <2>3 DEF RequestsFindRows
    <3> QED
      BY <2>1, <2>2, <2>3, <3>1, <3>2, <3>3 DEF RequestsFindRows, AsksForDataset, Pending, Busy
  <2> QED BY <2>4, <2>5
<1>5. CASE \/ WorkerListDone \/ CountDescendants \/ ListObjectKeys \/ InvalidateForDeletion
           \/ \E n \in Names, i \in ChunkIds : DeleteChunkObject(n, i)
           \/ \E n \in Names : DeleteManifestObject(n)
           \/ DeleteRowsRefused
  <2>1. /\ UNCHANGED <<del, generation, wTodo, pc>>
        /\ wStep' \in Busy => wStep \in Busy /\ wCur' = wCur
        /\ \A u \in Uploads : snap[u] # "none" => snap'[u] # "none"
    BY <1>5 DEF WorkerListDone, CountDescendants, ListObjectKeys, InvalidateForDeletion,
       DeleteChunkObject, DeleteManifestObject, DeleteRowsRefused, AllObjectsDeleted, Busy
  <2> HIDE DEF QueueInv
  <2> QED BY <2>1, FindRowsFrame
<1> QED BY <1>1, <1>2, <1>3, <1>4, <1>5 DEF Work

CarefulInv == SettledUploads /\ MaintainsDead /\ RequestsFindRows

LEMMA CarefulInductive ==
    ASSUME ~SlowChunks, TypeOK, TypeOK', QueueInv, CarefulInv,
           [DeletionNext]_allVars, [CarefulRequest]_allVars
    PROVE  CarefulInv'
<1>1. SettledUploads' /\ MaintainsDead'
  BY SettledKept DEF CarefulInv
<1>2. CASE IngestStep /\ UNCHANGED delVars
  <2>1. \A u \in Uploads : pc[u] = "ok" => pc'[u] = "ok" /\ snap'[u] = snap[u]
    BY <1>2, IngestStepIsNext, AckedRowStays DEF CarefulInv
  <2> QED BY <1>1, <1>2, <2>1, FindRowsFrame DEF CarefulInv
<1>3. CASE CrashWithWorker
  <2>1. \A u \in Uploads : pc[u] = "ok" => pc'[u] = "ok" /\ snap'[u] = snap[u]
    BY <1>3, AckedRowStays DEF CrashWithWorker, CarefulInv, Next
  <2>2. wTodo' \subseteq wTodo /\ wStep' \notin Busy /\ UNCHANGED <<del, generation>>
    BY <1>3 DEF CrashWithWorker, Busy
  <2> QED BY <1>1, <2>1, <2>2, FindRowsFrame DEF CarefulInv
<1>4. ASSUME NEW d \in DelOps, NEW u \in Uploads, QueueSnapshotDeletion(d, u) PROVE CarefulInv'
  BY <1>1, <1>4, FindRowsRequest DEF CarefulInv, QueueSnapshotDeletion
<1>5. ASSUME NEW d \in DelOps, QueueDatasetDeletion(d) PROVE CarefulInv'
  BY <1>1, <1>5, FindRowsRequest DEF CarefulInv, QueueDatasetDeletion
<1>6. CASE Work
  BY <1>1, <1>6, FindRowsWork DEF CarefulInv
<1>7. CASE WorkerStepFails \/ OperationLeftPending \/ UNCHANGED allVars
  <2>1. /\ UNCHANGED <<del, generation, pc, snap>> /\ wTodo' \subseteq wTodo
        /\ wStep' \in Busy => wStep \in Busy /\ wCur' = wCur
    BY <1>7 DEF WorkerStepFails, OperationLeftPending, Busy
  <2> QED BY <1>1, <2>1, FindRowsFrame DEF CarefulInv
<1> QED BY <1>2, <1>3, <1>4, <1>5, <1>6, <1>7 DEF DeletionNext

\* Requests for one snapshot that are made with care delete that snapshot only,
\* whatever runs beside them: uploads, retries, dataset deletions, crashes,
\* the cleanup.  Without the care the code breaks this (worker.go:73).
THEOREM DeletesOnlyRequested ==
    ASSUME ~SlowChunks
    PROVE  DeletionSpec /\ CarefulRequests => OnlyRequestedDeleted
<1>1. DeletionInit => CarefulInv
  BY DEF DeletionInit, Init, CarefulInv, SettledUploads, MaintainsDead, RequestsFindRows, Committed,
     Live, LivePc, Pending, Busy
<1>2. /\ TypeInv /\ TypeInv' /\ QueueInv /\ CarefulInv
      /\ [DeletionNext]_allVars /\ [CarefulRequest]_allVars
      => CarefulInv'
  BY CarefulInductive DEF TypeInv
<1>3. TypeInv /\ QueueInv /\ CarefulInv /\ [DeletionNext]_allVars =>
        [\A u \in Uploads : Committed(u) /\ snap'[u] # "committed" => Requested(u)]_allVars
  <2> SUFFICES ASSUME TypeInv, QueueInv, CarefulInv, [DeletionNext]_allVars,
                      NEW u \in Uploads, Committed(u), snap'[u] # "committed"
               PROVE  Requested(u)
    OBVIOUS
  <2>1. pc[u] = "ok"
    BY DEF CarefulInv, SettledUploads
  <2>2. ~[Next]_vars /\ ~OnlyFaults
    BY <2>1, AckedRowStays DEF CarefulInv, TypeInv, Committed, OnlyFaults
  <2>3. InvalidateForDeletion \/ DeleteRows
    BY <2>2, StepOfIngest DEF WorkerWrites, DeleteChunkObject, DeleteManifestObject, Committed
  <2>4. wStep \in Busy /\ (u = wCur.snap \/ AsksForDataset(wCur))
    BY <2>3 DEF InvalidateForDeletion, DeleteRows, AllObjectsDeleted, Targets, Busy, Committed,
       AsksForDataset
  <2>5. wCur.op \in Pending /\ wCur.snap \in {None, del[wCur.op].snap}
    BY <2>4 DEF QueueInv, OneInHand, ListingOf
  <2>6. u # None
    BY ConstantsAssumption
  <2> QED BY <2>4, <2>5, <2>6 DEF Requested, CarefulInv, RequestsFindRows
<1> QED
  BY <1>1, <1>2, <1>3, IngestTypeAlways, QueueInvAlways, PTL
  DEF DeletionSpec, CarefulRequests, OnlyRequestedDeleted

(***************************************************************************)
(* Deletions beside uploads, when no live upload goes stale (~SlowChunks)  *)
(* and deletions and uploads keep out of each other's way (QuietDeletes).  *)
(*                                                                         *)
(* QuietInv says what the worker may rely on between two of its            *)
(* statements: nothing uploads, the requested row stays, the count of      *)
(* descendants stays right (NoCommittedChild), and the keys it listed are  *)
(* those of rows it has invalidated before the first object goes           *)
(* (KeysOfTargets, InvalidatedFirst).                                      *)
(***************************************************************************)

\* One request at a time, and nothing uploads meanwhile.
RequestsAreQuiet ==
    /\ \A d, e \in Pending : d = e
    /\ Pending # {} => NoUploadRuns
    /\ wStep # "idle" => server = "up"

\* The snapshot of a pending request keeps its row, so the worker sees the
\* request as it was made.
RequestedStays ==
    /\ \A d \in Pending : del[d].snap # None =>
          pc[del[d].snap] = "ok" /\ snap[del[d].snap] \in {"committed", "deleting"}
    /\ \A r \in wTodo : r.snap = del[r.op].snap
    /\ wStep \in Busy => wCur.snap = del[wCur.op].snap

\* What CountDescendants found still holds when the row is invalidated.
NoCommittedChild ==
    wStep \in {"keys", "invalidate"} /\ wCur.snap # None
        => ~HasCommittedDescendants(wCur.snap)

\* The keys in hand carry the names of the rows the operation is about.
KeysOfTargets ==
    wStep = "invalidate" =>
        \A n \in Names : n \in wManifests \/ (\E i \in ChunkIds : <<n, i>> \in wChunks)
            => \E u \in Targets : name[u] = n

\* While objects go, neither a row of the operation nor a row with the name of
\* a key in hand is committed.
InvalidatedFirst ==
    wStep = "objects" =>
        /\ \A u \in Targets : ~Committed(u)
        /\ \A u \in Uploads : Committed(u) =>
              name[u] \notin wManifests /\ \A i \in ChunkIds : <<name[u], i>> \notin wChunks

QuietInv ==
    /\ RequestsAreQuiet /\ RequestedStays
    /\ NoCommittedChild /\ KeysOfTargets /\ InvalidatedFirst

\* While the worker has an operation in hand, it is pending: nothing uploads.
LEMMA BusyIsQuiet ==
    ASSUME QueueInv, QuietInv, wStep \in Busy
    PROVE  NoUploadRuns /\ server = "up" /\ wCur.op \in Pending /\ Pending = {wCur.op}
BY DEF QueueInv, OneInHand, ListingOf, QuietInv, RequestsAreQuiet, Busy

\* No target of the operation in hand is the base of a committed snapshot that
\* is not a target itself.
LEMMA TargetsAreLeaves ==
    ASSUME QuietInv, wStep = "invalidate", NEW v \in Uploads, Committed(v), v \notin Targets
    PROVE  base[v] \notin Targets
BY DEF QuietInv, NoCommittedChild, HasCommittedDescendants, Targets, Committed

\* The statements of the worker keep the inductive invariant of the uploads.
LEMMA IndInvKept ==
    ASSUME ~SlowChunks
    PROVE  IndInv /\ QueueInv /\ QuietInv /\ TypeOK' /\ [DeletionNext]_allVars => IndInv'
<1> SUFFICES ASSUME IndInv, QueueInv, QuietInv, TypeOK', [DeletionNext]_allVars PROVE IndInv'
  OBVIOUS
<1> USE ConstantsAssumption
    DEF IndInv, LiveOwnsRows, NotStartedHasNoRows, UniqueNames, RowsNeedSnapshot,
        LiveProgress, CommittedIsAcked, UnfinishedSessions, MaintenanceOnDead,
        ChainRooted, CommittedChunksIntact, Dead, Committed
<1>1. CASE OnlyFaults
  BY <1>1 DEF OnlyFaults, Live
<1>2. CASE InvalidateForDeletion
  <2> USE <1>2 DEF InvalidateForDeletion
  <2>1. NoUploadRuns
    BY BusyIsQuiet DEF Busy
  <2>2. \A v \in Uploads : Live(v)' = Live(v) /\ ~Live(v) /\ pc[v] # "start"
    BY <2>1 DEF Live, NoUploadRuns
  <2>3. \A v \in Uploads : Committed(v)' <=> Committed(v) /\ v \notin Targets
    OBVIOUS
  <2>4. \A v \in Uploads : snap'[v] = "none" <=> snap[v] = "none"
    BY DEF Targets
  <2>5. ChainRooted'
    <3> SUFFICES ASSUME NEW v \in Uploads, Committed(v)', base[v] # None
                 PROVE  Committed(base[v])' /\ base[v] = from[v]
      BY <2>2
    <3>1. Committed(base[v]) /\ base[v] = from[v] /\ base[v] \in Uploads
      BY <2>3 DEF TypeOK
    <3> QED BY <2>3, <3>1, TargetsAreLeaves
  <2>6. LiveOwnsRows' /\ NotStartedHasNoRows' /\ LiveProgress'
    BY <2>2, <2>4
  <2>7. UniqueNames' /\ RowsNeedSnapshot'
    BY <2>4
  <2>8. CommittedIsAcked' /\ UnfinishedSessions' /\ MaintenanceOnDead' /\ CommittedChunksIntact'
    BY <2>2, <2>3
  <2> QED BY <2>5, <2>6, <2>7, <2>8
<1>3. ASSUME NEW n \in Names, NEW i \in ChunkIds, DeleteChunkObject(n, i) PROVE IndInv'
  <2>1. NoUploadRuns
    BY <1>3, BusyIsQuiet DEF Busy, DeleteChunkObject
  <2>2. \A v \in Uploads : Committed(v) => name[v] # n
    BY <1>3 DEF DeleteChunkObject, QuietInv, InvalidatedFirst
  <2>3. CommittedChunksIntact'
    BY <1>3, <2>2, ChunksIntactFrame DEF DeleteChunkObject, TypeOK
  <2> QED BY <1>3, <2>1, <2>3 DEF DeleteChunkObject, NoUploadRuns, Live
<1>4. ASSUME NEW n \in Names, DeleteManifestObject(n) PROVE IndInv'
  <2>1. NoUploadRuns
    BY <1>4, BusyIsQuiet DEF Busy, DeleteManifestObject
  <2> QED BY <1>4, <2>1 DEF DeleteManifestObject, NoUploadRuns, Live
<1>5. CASE DeleteRows
  <2> USE <1>5 DEF DeleteRows
  <2>1. NoUploadRuns
    BY BusyIsQuiet DEF Busy, AllObjectsDeleted
  <2>2. \A v \in Uploads : Live(v)' = Live(v) /\ ~Live(v) /\ pc[v] # "start"
    BY <2>1 DEF Live, NoUploadRuns
  <2>3. PICK gone \in SUBSET Uploads :
          /\ \A v \in gone : ~Committed(v)
          /\ snap' = [u \in Uploads |-> IF u \in gone THEN "none" ELSE snap[u]]
          /\ sess' = [u \in Uploads |-> IF u \in gone THEN "none" ELSE sess[u]]
          /\ rows' = [u \in Uploads |-> IF u \in gone THEN {} ELSE rows[u]]
    <3> DEFINE whole == wCur.snap = None /\ wCur.gen = generation
    <3> DEFINE gone == IF whole THEN Uploads ELSE Targets
    <3>1. gone \in SUBSET Uploads
      BY DEF Targets
    <3>2. \A v \in gone : ~Committed(v)
      BY DEF Targets, QuietInv, InvalidatedFirst, AllObjectsDeleted
    <3>3. /\ snap' = [u \in Uploads |-> IF u \in gone THEN "none" ELSE snap[u]]
          /\ sess' = [u \in Uploads |-> IF u \in gone THEN "none" ELSE sess[u]]
          /\ rows' = [u \in Uploads |-> IF u \in gone THEN {} ELSE rows[u]]
      OBVIOUS
    <3> HIDE DEF gone
    <3> QED BY <3>1, <3>2, <3>3
  <2>4. \A v \in Uploads : Committed(v)' <=> Committed(v)
    BY <2>3
  <2>5. LiveOwnsRows' /\ NotStartedHasNoRows' /\ LiveProgress'
    BY <2>2, <2>3, <2>4
  <2>6. UniqueNames' /\ RowsNeedSnapshot'
    BY <2>3
  <2>7. CommittedIsAcked' /\ UnfinishedSessions' /\ MaintenanceOnDead'
    BY <2>2, <2>3, <2>4
  <2>8. ChainRooted'
    BY <2>2, <2>4 DEF TypeOK
  <2>9. CommittedChunksIntact'
    BY <2>3, <2>4
  <2> QED BY <2>5, <2>6, <2>7, <2>8, <2>9
<1> HIDE DEF IndInv
<1> QED BY <1>1, <1>2, <1>3, <1>4, <1>5, StepOfIngest, IndInvInductive DEF WorkerWrites

\* What the upload path can still do while a request is pending: maintenance on
\* attempts that have no goroutine, and objects of theirs may go.
LEMMA QuietStep ==
    ASSUME IndInv, QuietDeletes, Pending # {}, NoUploadRuns, IngestStep
    PROVE  /\ UNCHANGED <<pc, name, base, idx>>
           /\ \A u \in Uploads : pc[u] = "ok" => snap'[u] = snap[u]
           /\ \A u \in Uploads : Committed(u)' => Committed(u)
           /\ \A n \in Names : /\ manifestObj'[n] \in {manifestObj[n], None}
                               /\ \A i \in ChunkIds : chunkObj'[n][i] \in {chunkObj[n][i], None}
<1> USE DEF IndInv, TypeOK, Committed
<1>1. ~\E u \in Uploads : Receive(u)
  BY DEF NoUploadRuns, Live, LivePc, Receive, StartUpload, RejectUpload, PutChunk, AddVerifiedChunk,
     UpdateUploadProgress, EndOfStream, PutManifest, SetUploadManifestObjectKey, CommitUpload,
     StepFails, FailUpload, FailureNotRecorded
<1>2. CASE Reconcile \/ ReconcileAborts
  BY <1>2 DEF Reconcile, ReconcileList, ReconcileFailSnapshot, ReconcileFailSession,
     ReconcileFailOperation, ReconcileDone, ReconcileAborts, UpdateStatus,
     MaintenanceOnDead, Dead
<1>3. CASE Cleanup \/ \E u \in Uploads : CleanupObjectsFail(u)
  BY <1>3 DEF Cleanup, CleanupList, CleanupObjects, CleanupObjectsFail,
     CleanupSnapshotRow, CleanupDeleteSnapshot, CleanupRefused, CleanupDeleteSession,
     MaintenanceOnDead, Dead
<1>4. CASE (\E u \in Uploads : HeartbeatAges(u)) \/ StartServing \/ Restart
  BY <1>4 DEF HeartbeatAges, StartServing, Restart
<1> QED BY <1>1, <1>2, <1>3, <1>4 DEF IngestStep, ConnectBesideDeletes

\* While the server serves, only StartUpload deletes a snapshot row, and nothing
\* but a crash ends that.
LEMMA UpStaysUp ==
    ASSUME IndInv, IngestStep, server = "up"
    PROVE  /\ server' = "up"
           /\ ~(\E u \in Uploads : Receive(u)) =>
                 UNCHANGED rows /\ \A v \in Uploads : snap'[v] = "none" <=> snap[v] = "none"
<1> USE DEF IndInv, TypeOK
<1>1. CASE \E u \in Uploads : Receive(u)
  BY <1>1 DEF Receive, StartUpload, RejectUpload, PutChunk, AddVerifiedChunk,
     UpdateUploadProgress, EndOfStream, PutManifest, SetUploadManifestObjectKey, CommitUpload,
     StepFails, FailUpload, FailureNotRecorded
<1>2. CASE Reconcile \/ ReconcileAborts
  BY <1>2 DEF Reconcile, ReconcileList, ReconcileFailSnapshot, ReconcileFailSession,
     ReconcileFailOperation, ReconcileDone, ReconcileAborts, UpdateStatus
<1>3. ~Cleanup /\ ~(\E u \in Uploads : CleanupObjectsFail(u)) /\ ~StartServing /\ ~Restart
  BY DEF Cleanup, CleanupList, CleanupObjects, CleanupObjectsFail, CleanupSnapshotRow,
     CleanupDeleteSession, StartServing, Restart, MaintenanceOnDead
<1>4. CASE \/ \E u \in Uploads : HeartbeatAges(u)
           \/ \E u \in Uploads, n \in Names, b \in Uploads \cup {None} : Connect(u, n, b)
  BY <1>4 DEF HeartbeatAges, Connect
<1> QED BY <1>1, <1>2, <1>3, <1>4 DEF IngestStep, ConnectBesideDeletes

\* A step of the upload path keeps what the worker relies on.
LEMMA QuietBesideUploads ==
    ASSUME IndInv, QueueInv, QuietInv, QuietDeletes, IngestStep, UNCHANGED delVars
    PROVE  QuietInv'
<1>1. CASE Pending = {}
  <2>1. wTodo = {} /\ wStep \notin Busy
    BY <1>1 DEF QueueInv, ListedArePending, OneInHand, ListingOf
  <2>2. Pending' = {} /\ wTodo' = {} /\ wStep' \notin Busy /\ wStep' = wStep
    BY <1>1, <2>1 DEF Pending
  <2>3. wStep' # "idle" => server' = "up"
    BY <2>2, UpStaysUp DEF QuietInv, RequestsAreQuiet
  <2> QED
    BY <2>2, <2>3 DEF QuietInv, RequestsAreQuiet, RequestedStays, NoCommittedChild,
       KeysOfTargets, InvalidatedFirst, Busy
<1>2. CASE Pending # {}
  <2>1. NoUploadRuns /\ (wStep # "idle" => server = "up")
    BY <1>2 DEF QuietInv, RequestsAreQuiet
  <2>2. /\ UNCHANGED <<pc, name, base>>
        /\ \A u \in Uploads : pc[u] = "ok" => snap'[u] = snap[u]
        /\ \A u \in Uploads : Committed(u)' => Committed(u)
    BY <1>2, <2>1, QuietStep
  <2>3. ~\E u \in Uploads : Receive(u)
    BY <2>1 DEF NoUploadRuns, Live, LivePc, Receive, StartUpload, RejectUpload, PutChunk,
       AddVerifiedChunk, UpdateUploadProgress, EndOfStream, PutManifest,
       SetUploadManifestObjectKey, CommitUpload, StepFails, FailUpload, FailureNotRecorded
  <2>4. wStep # "idle" =>
          server' = "up" /\ \A u \in Uploads : snap'[u] = "none" <=> snap[u] = "none"
    BY <2>1, <2>3, UpStaysUp
  <2>5. wStep # "idle" => Targets' = Targets
    BY <2>4 DEF Targets
  <2>6. RequestsAreQuiet'
    BY <2>1, <2>2, <2>4 DEF QuietInv, RequestsAreQuiet, Pending, NoUploadRuns, Live
  <2>7. RequestedStays'
    BY <2>2 DEF QuietInv, RequestedStays, Pending, QueueInv, DeletionTypeOK
  <2>8. NoCommittedChild'
    BY <2>2 DEF QuietInv, NoCommittedChild, HasCommittedDescendants
  <2>9. KeysOfTargets' /\ InvalidatedFirst'
    BY <2>2, <2>5 DEF QuietInv, KeysOfTargets, InvalidatedFirst, Targets
  <2> QED BY <2>6, <2>7, <2>8, <2>9 DEF QuietInv
<1> QED BY <1>1, <1>2

\* A request is made only when the worker has nothing in hand, and of a
\* committed snapshot.
LEMMA QuietRequest ==
    ASSUME IndInv, QueueInv, QuietInv, QuietDeletes,
           \/ \E d \in DelOps, u \in Uploads : QueueSnapshotDeletion(d, u)
           \/ \E d \in DelOps : QueueDatasetDeletion(d)
    PROVE  QuietInv'
<1>1. PICK d \in DelOps, u \in Uploads \cup {None} :
        Queue(d, u) /\ (u # None => u \in Uploads /\ Committed(u))
  BY ConstantsAssumption DEF QueueSnapshotDeletion, QueueDatasetDeletion
<1>2. Pending = {} /\ NoUploadRuns
  BY <1>1 DEF Queue
<1>3. wTodo = {} /\ wStep \notin Busy
  BY <1>2 DEF QueueInv, ListedArePending, OneInHand, ListingOf
<1>4. Pending' = {d} /\ del'[d].snap = u
  BY <1>1, <1>2 DEF Queue, Pending, QueueInv, DeletionTypeOK
<1>5. RequestsAreQuiet'
  BY <1>1, <1>2, <1>4 DEF Queue, QuietInv, RequestsAreQuiet, NoUploadRuns, Live
<1>6. RequestedStays'
  BY <1>1, <1>3, <1>4 DEF Queue, RequestedStays, IndInv, CommittedIsAcked, Committed
<1> QED
  BY <1>1, <1>3, <1>5, <1>6
  DEF QuietInv, NoCommittedChild, KeysOfTargets, InvalidatedFirst, Busy, Queue

\* The steps of the worker keep it.
LEMMA QuietWork ==
    ASSUME IndInv, QueueInv, QuietInv, Work \/ WorkerStepFails \/ OperationLeftPending
    PROVE  QuietInv'
<1> USE DEF QuietInv, RequestsAreQuiet, RequestedStays, NoCommittedChild, KeysOfTargets,
            InvalidatedFirst, Busy, NoUploadRuns, Live, Committed
<1>1. CASE WorkerList
  <2>1. \A d \in Pending : SnapshotRef(d) = del[d].snap
    BY DEF SnapshotRef
  <2>2. Pending' = Pending
    BY <1>1 DEF WorkerList, Pending
  <2> QED BY <1>1, <2>1, <2>2 DEF WorkerList
<1>2. CASE WorkerListDone
  BY <1>2 DEF WorkerListDone, Pending
<1>3. ASSUME NEW r \in wTodo, RunOperation(r) PROVE QuietInv'
  <2>1. r.op \in Pending /\ r.snap = del[r.op].snap /\ r.op \in DelOps /\ wTodo \subseteq Listed
    BY DEF QueueInv, ListedArePending, ListingOf, Pending, DeletionTypeOK
  <2>2. Pending' = Pending /\ \A d \in DelOps : del'[d].snap = del[d].snap
    BY <1>3, <2>1 DEF RunOperation, Pending, QueueInv, DeletionTypeOK
  <2>3. \A q \in wTodo : q.op \in DelOps
    BY <2>1 DEF Listed
  <2>4. RequestedStays'
    BY <1>3, <2>1, <2>2, <2>3 DEF RunOperation, Pending
  <2>5. RequestsAreQuiet' /\ KeysOfTargets' /\ InvalidatedFirst'
    BY <1>3, <2>2 DEF RunOperation
  <2>6. NoCommittedChild'
    BY <1>3 DEF RunOperation
  <2> QED BY <2>4, <2>5, <2>6
<1>4. CASE CountDescendants
  BY <1>4 DEF CountDescendants, Pending, HasCommittedDescendants
<1>5. CASE ListObjectKeys
  <2> USE <1>5 DEF ListObjectKeys
  <2>1. Targets' = Targets
    BY DEF Targets
  <2>2. KeysOfTargets'
    BY <2>1
  <2>3. RequestsAreQuiet' /\ RequestedStays' /\ InvalidatedFirst'
    BY DEF Pending
  <2>4. NoCommittedChild'
    BY DEF HasCommittedDescendants
  <2> QED BY <2>2, <2>3, <2>4
<1>6. CASE InvalidateForDeletion
  <2> USE <1>6 DEF InvalidateForDeletion
  <2>1. Targets' = Targets
    BY DEF Targets
  <2>2. \A u \in Targets : ~Committed(u)' /\ u \in Uploads /\ snap[u] # "none"
    BY DEF Targets, IndInv, TypeOK
  <2>3. \A u \in Uploads : Committed(u)' => Committed(u) /\ u \notin Targets
    OBVIOUS
  <2>4. ASSUME NEW u \in Uploads, Committed(u)', NEW v \in Targets PROVE name[v] # name[u]
    BY <2>2, <2>3, <2>4 DEF IndInv, UniqueNames
  <2>5. \A u \in Uploads : Committed(u) => name[u] \in Names
    BY DEF IndInv, RowsNeedSnapshot
  <2>6. InvalidatedFirst'
    BY <2>1, <2>2, <2>3, <2>4, <2>5
  <2>7. RequestsAreQuiet' /\ NoCommittedChild' /\ KeysOfTargets'
    BY DEF Pending
  <2>8. RequestedStays'
    BY DEF Pending, QueueInv, DeletionTypeOK, Targets
  <2> QED BY <2>6, <2>7, <2>8
<1>7. ASSUME NEW n \in Names, NEW i \in ChunkIds, DeleteChunkObject(n, i) PROVE QuietInv'
  BY <1>7 DEF DeleteChunkObject, Pending, Targets
<1>8. ASSUME NEW n \in Names, DeleteManifestObject(n) PROVE QuietInv'
  BY <1>8 DEF DeleteManifestObject, Pending, Targets
<1>9. ASSUME wStep \in Busy, wTodo' = wTodo, server' = server, pc' = pc, wStep' = "next",
             \E s \in {"succeeded", "failed"} : del' = [del EXCEPT ![wCur.op].status = s]
      PROVE  QuietInv'
  <2>1. Pending = {wCur.op} /\ wCur.op \in DelOps
    BY <1>9, BusyIsQuiet DEF Pending
  <2>2. Pending' = {}
    BY <1>9, <2>1 DEF Pending, QueueInv, DeletionTypeOK
  <2>3. wTodo = {}
    BY <1>9, <2>1 DEF QueueInv, ListedArePending, ListingOf, OneInHand
  <2> QED BY <1>9, <2>2, <2>3
<1>10. CASE DeleteRows
  BY <1>9, <1>10 DEF DeleteRows, AllObjectsDeleted
<1>11. CASE FailOperation
  BY <1>9, <1>11 DEF FailOperation
<1>12. CASE DeleteRowsRefused
  BY <1>12 DEF DeleteRowsRefused, AllObjectsDeleted, Pending
<1>13. CASE WorkerStepFails
  BY <1>13 DEF WorkerStepFails, Pending
<1>14. CASE OperationLeftPending
  BY <1>14 DEF OperationLeftPending, Pending
<1> QED
  BY <1>1, <1>2, <1>3, <1>4, <1>5, <1>6, <1>7, <1>8, <1>10, <1>11, <1>12, <1>13, <1>14
  DEF Work

LEMMA QuietInductive ==
    ASSUME QuietDeletes
    PROVE  IndInv /\ QueueInv /\ QuietInv /\ [DeletionNext]_allVars => QuietInv'
<1> SUFFICES ASSUME IndInv, QueueInv, QuietInv, [DeletionNext]_allVars PROVE QuietInv'
  OBVIOUS
<1>1. CASE CrashWithWorker
  <2>1. /\ wStep' = "idle" /\ wTodo' = {} /\ UNCHANGED <<del, snap>>
        /\ \A u \in Uploads : pc[u] = "ok" => pc'[u] = "ok"
        /\ NoUploadRuns'
    BY <1>1 DEF CrashWithWorker, Crash, NoUploadRuns, Live, LivePc, IndInv, TypeOK
  <2>2. Pending' = Pending
    BY <2>1 DEF Pending
  <2> QED
    BY <2>1, <2>2 DEF QuietInv, RequestsAreQuiet, RequestedStays, NoCommittedChild,
       KeysOfTargets, InvalidatedFirst, Busy, Pending, QueueInv, DeletionTypeOK
<1>2. CASE UNCHANGED allVars
  BY <1>2 DEF QuietInv, RequestsAreQuiet, RequestedStays, NoCommittedChild, KeysOfTargets,
     InvalidatedFirst, Pending, NoUploadRuns, Live, Committed, Targets, HasCommittedDescendants
<1> QED
  BY <1>1, <1>2, QuietBesideUploads, QuietRequest, QuietWork DEF DeletionNext

\* The invariant of the whole: the uploads', the queue's and the worker's.
SafeInv == IndInv /\ QueueInv /\ QuietInv

LEMMA SafeInitially == DeletionInit => SafeInv
<1>1. DeletionInit => IndInv
  BY IndInvInitially DEF DeletionInit
<1>2. DeletionInit => QueueInv
  BY QueueInitially
<1>3. DeletionInit => QuietInv
  BY DEF DeletionInit, QuietInv, RequestsAreQuiet, RequestedStays, NoCommittedChild,
     KeysOfTargets, InvalidatedFirst, Busy, Pending
<1> QED BY <1>1, <1>2, <1>3 DEF SafeInv

LEMMA SafeInvAlways ==
    ASSUME ~SlowChunks, QuietDeletes
    PROVE  DeletionSpec => []SafeInv
<1>1. SafeInv /\ [DeletionNext]_allVars => SafeInv'
  <2> SUFFICES ASSUME SafeInv, [DeletionNext]_allVars PROVE SafeInv'
    OBVIOUS
  <2>1. TypeInv
    BY DEF SafeInv, IndInv, TypeInv, RecordInBounds, LiveProgress, Live, LivePc
  <2>2. TypeOK /\ TypeOK'
    BY <2>1, IngestTypeKept DEF TypeInv
  <2> QED BY <2>2, IndInvKept, QueueInvInductive, QuietInductive DEF SafeInv
<1> QED BY <1>1, SafeInitially, PTL DEF DeletionSpec

\* With deletions that keep clear of uploads, deleting one snapshot or the whole
\* dataset never touches a chunk of a snapshot that is still committed.
THEOREM ChunksSurviveDeletes ==
    ASSUME ~SlowChunks, QuietDeletes
    PROVE  DeletionSpec => []CommittedChunksIntact
<1>1. SafeInv => CommittedChunksIntact
  BY DEF SafeInv, IndInv
<1> QED BY <1>1, SafeInvAlways, PTL

\* A name whose snapshot was deleted is free again, and still nobody shares it:
\* a new attempt at the name never meets the rows or keys of the old one.
THEOREM NamesStayOwned ==
    ASSUME ~SlowChunks, QuietDeletes
    PROVE  DeletionSpec => []OneOwnerPerName
<1>1. SafeInv => OneOwnerPerName
  BY DEF SafeInv, IndInv, LiveOwnsRows, UniqueNames, OneOwnerPerName
<1> QED BY <1>1, SafeInvAlways, PTL

\* Deletions take whole rows away and change no parent, so a chain of what
\* remains is as short as it was.
LEMMA ShortChainsKept ==
    ASSUME SafeInv, SafeInv', ShortChains, [DeletionNext]_allVars
    PROVE  ShortChains'
<1>1. CASE [Next]_vars /\ \E u \in Uploads : StartUpload(u)
  BY <1>1, StartKeepsChainsShort DEF SafeInv
<1>2. CASE \/ [Next]_vars /\ ~\E u \in Uploads : StartUpload(u)
           \/ OnlyFaults \/ WorkerWrites
  <2>1. /\ UNCHANGED base
        /\ \A v \in Uploads : Live(v)' \/ Committed(v)' => Live(v) \/ Committed(v)
    <3>1. CASE [Next]_vars /\ ~\E u \in Uploads : StartUpload(u)
      BY <3>1, NoNewChains DEF SafeInv
    <3>2. CASE OnlyFaults
      BY <3>2 DEF OnlyFaults, Live, Committed
    <3>3. CASE WorkerWrites
      BY <3>3 DEF WorkerWrites, InvalidateForDeletion, DeleteChunkObject, DeleteManifestObject,
         DeleteRows, Live, Committed
    <3> QED BY <1>2, <3>1, <3>2, <3>3
  <2>2. \A v \in Uploads : RestoreChain(v)' = RestoreChain(v)
    BY <2>1 DEF RestoreChain
  <2> QED BY <2>1, <2>2 DEF ShortChains, ChainDepth
<1> QED BY <1>1, <1>2, StepOfIngest

\* The depth StartUpload allowed is never exceeded with deletions either: no
\* sequence of deletions and retries splices a longer chain together.
THEOREM ChainsStayShortBesideDeletes ==
    ASSUME ~SlowChunks, QuietDeletes
    PROVE  DeletionSpec => []ChainDepthBounded
<1>1. DeletionInit => ShortChains
  BY DEF DeletionInit, Init, ShortChains, Live, LivePc, Committed
<1>2. SafeInv /\ SafeInv' /\ ShortChains /\ [DeletionNext]_allVars => ShortChains'
  BY ShortChainsKept
<1>3. ShortChains => ChainDepthBounded
  BY DEF ShortChains, ChainDepthBounded
<1> QED BY <1>1, <1>2, <1>3, SafeInvAlways, PTL DEF DeletionSpec

(***************************************************************************)
(* What goes, and what is left of it.                                      *)
(***************************************************************************)

\* Only the worker's UPDATE takes a committed snapshot's status away.
LEMMA CommittedGoesOnlyByWorker ==
    ASSUME SafeInv, [DeletionNext]_allVars, NEW u \in Uploads,
           Committed(u), ~Committed(u)'
    PROVE  InvalidateForDeletion /\ u \in Targets
<1>1. CASE [Next]_vars
  BY <1>1, CommittedKept DEF SafeInv
<1>2. CASE OnlyFaults
  BY <1>2 DEF OnlyFaults, Committed
<1>3. CASE InvalidateForDeletion
  BY <1>3 DEF InvalidateForDeletion, Committed
<1>4. CASE DeleteRows
  BY <1>4 DEF DeleteRows, AllObjectsDeleted, Targets, Committed, SafeInv, QuietInv, InvalidatedFirst
<1>5. CASE \/ \E n \in Names, i \in ChunkIds : DeleteChunkObject(n, i)
           \/ \E n \in Names : DeleteManifestObject(n)
  BY <1>5 DEF DeleteChunkObject, DeleteManifestObject, Committed
<1> QED BY <1>1, <1>2, <1>3, <1>4, <1>5, StepOfIngest DEF WorkerWrites

\* The rows the worker invalidates are those a pending request takes in.
LEMMA TargetsAreRequested ==
    ASSUME SafeInv, wStep \in Busy, NEW u \in Targets
    PROVE  /\ u \in Uploads /\ wCur.op \in Pending
           /\ del[wCur.op].snap \in {u, None}
<1>1. wCur.op \in Pending
  BY BusyIsQuiet DEF SafeInv
<1>2. wCur.snap = del[wCur.op].snap
  BY DEF SafeInv, QuietInv, RequestedStays
<1> QED BY <1>1, <1>2 DEF Targets

\* An object holds the stream of an attempt at its name, and a chunk object is
\* at an index the attempt has recorded, but for the last one of an attempt
\* that has not recorded it yet or never will.
ObjectsHaveOwners ==
    \A u \in Uploads, n \in Names :
        /\ manifestObj[n] = u => pc[u] \notin {"idle", "start"} /\ name[u] = n
        /\ \A i \in ChunkIds : chunkObj[n][i] = u =>
              /\ pc[u] \notin {"idle", "start"} /\ name[u] = n
              /\ i < idx[u] \/ (i = idx[u] /\ pc[u] \in {"record", "fail", "error", "crashed"})

\* The worker's object DELETEs store nothing.
LEMMA ObjectsOnlyGo ==
    ASSUME TypeInv,
           \/ \E n \in Names, i \in ChunkIds : DeleteChunkObject(n, i)
           \/ \E n \in Names : DeleteManifestObject(n)
    PROVE  \A n \in Names : /\ manifestObj'[n] \in {manifestObj[n], None}
                            /\ \A i \in ChunkIds : chunkObj'[n][i] \in {chunkObj[n][i], None}
<1>1. ASSUME NEW m \in Names, NEW j \in ChunkIds, DeleteChunkObject(m, j),
             NEW n \in Names, NEW i \in ChunkIds
      PROVE  manifestObj'[n] = manifestObj[n] /\ chunkObj'[n][i] \in {chunkObj[n][i], None}
  BY <1>1 DEF DeleteChunkObject, TypeInv, TypeOK
<1>2. ASSUME NEW m \in Names, DeleteManifestObject(m), NEW n \in Names
      PROVE  manifestObj'[n] \in {manifestObj[n], None} /\ chunkObj'[n] = chunkObj[n]
  BY <1>2 DEF DeleteManifestObject, TypeInv, TypeOK
<1> QED BY <1>1, <1>2, ConstantsAssumption DEF ChunkIds, DeleteChunkObject

\* A step that stores nothing, and moves no attempt back.
LEMMA OwnersFrame ==
    ASSUME ObjectsHaveOwners, UNCHANGED idx,
           \A n \in Names : /\ manifestObj'[n] \in {manifestObj[n], None}
                            /\ \A i \in ChunkIds : chunkObj'[n][i] \in {chunkObj[n][i], None},
           \A u \in Uploads : pc[u] \notin {"idle", "start"} =>
               /\ name'[u] = name[u]
               /\ pc'[u] \notin {"idle", "start"}
               /\ pc[u] \in {"record", "fail", "error", "crashed"}
                     => pc'[u] \in {"record", "fail", "error", "crashed"}
    PROVE  ObjectsHaveOwners'
BY ConstantsAssumption DEF ObjectsHaveOwners

LEMMA OwnersBesideUploads ==
    ASSUME TypeInv, ObjectsHaveOwners, [Next]_vars
    PROVE  ObjectsHaveOwners'
<1> USE ConstantsAssumption DEF TypeInv, TypeOK
<1>1. ASSUME NEW u \in Uploads, Receive(u) PROVE ObjectsHaveOwners'
  <2>1. CASE PutChunk(u)
    BY <2>1 DEF PutChunk, ObjectsHaveOwners
  <2>2. CASE AddVerifiedChunk(u)
    BY <2>2 DEF AddVerifiedChunk, ObjectsHaveOwners, ChunkIds
  <2>3. CASE PutManifest(u)
    BY <2>3 DEF PutManifest, ObjectsHaveOwners
  <2> QED
    BY <1>1, <2>1, <2>2, <2>3, OwnersFrame
    DEF Receive, StartUpload, RejectUpload, UpdateUploadProgress, EndOfStream,
        SetUploadManifestObjectKey, CommitUpload, StepFails, FailUpload, FailureNotRecorded,
        Live, LivePc
<1>2. ASSUME NEW u \in Uploads, NEW n \in Names, NEW b \in Uploads \cup {None},
             Connect(u, n, b)
      PROVE  ObjectsHaveOwners'
  BY <1>2, OwnersFrame DEF Connect
<1>3. CASE Crash
  BY <1>3, OwnersFrame DEF Crash, Live, LivePc
<1>4. CASE Cleanup \/ \E u \in Uploads : CleanupObjectsFail(u)
  BY <1>4, OwnersFrame DEF Cleanup, CleanupList, CleanupObjects, CleanupObjectsFail,
     CleanupSnapshotRow, CleanupDeleteSnapshot, CleanupRefused, CleanupDeleteSession
<1>5. CASE \/ \E u \in Uploads : HeartbeatAges(u)
           \/ Reconcile \/ ReconcileAborts \/ StartServing \/ Restart \/ UNCHANGED vars
  BY <1>5, OwnersFrame DEF HeartbeatAges, Reconcile, ReconcileList, ReconcileFailSnapshot,
     ReconcileFailSession, ReconcileFailOperation, ReconcileDone, ReconcileAborts,
     StartServing, Restart
<1> QED BY <1>1, <1>2, <1>3, <1>4, <1>5 DEF Next

LEMMA OwnersInductive == TypeInv /\ ObjectsHaveOwners /\ [DeletionNext]_allVars => ObjectsHaveOwners'
<1> SUFFICES ASSUME TypeInv, ObjectsHaveOwners, [DeletionNext]_allVars PROVE ObjectsHaveOwners'
  OBVIOUS
<1>1. CASE OnlyFaults \/ InvalidateForDeletion \/ DeleteRows
  BY <1>1, OwnersFrame DEF OnlyFaults, InvalidateForDeletion, DeleteRows
<1>2. ASSUME NEW n \in Names, NEW i \in ChunkIds, DeleteChunkObject(n, i)
      PROVE  ObjectsHaveOwners'
  BY <1>2, ObjectsOnlyGo, OwnersFrame DEF DeleteChunkObject
<1>3. ASSUME NEW n \in Names, DeleteManifestObject(n) PROVE ObjectsHaveOwners'
  BY <1>3, ObjectsOnlyGo, OwnersFrame DEF DeleteManifestObject
<1> QED BY <1>1, <1>2, <1>3, StepOfIngest, OwnersBesideUploads DEF WorkerWrites

\* The objects of an attempt.
NoObjectsOf(u) == \A n \in Names : manifestObj[n] # u /\ \A i \in ChunkIds : chunkObj[n][i] # u

\* No object of the snapshot in hand is missing from the keys in hand.
AllKeysListed ==
    wStep \in {"invalidate", "objects"} /\ wCur.snap # None =>
        \A n \in Names :
            /\ manifestObj[n] = wCur.snap => n \in wManifests
            /\ \A i \in ChunkIds : chunkObj[n][i] = wCur.snap => <<n, i>> \in wChunks

\* What a deletion has removed stays so: its attempt writes nothing any more.
DeletedIsGone ==
    \A d \in DelOps : del[d].status = "succeeded" /\ del[d].snap # None =>
        pc[del[d].snap] = "ok" /\ NoObjectsOf(del[d].snap)

GoneInv == ObjectsHaveOwners /\ AllKeysListed /\ DeletedIsGone

\* An attempt whose client was told "ok" gets no new object.
LEMMA AckedWritesNothing ==
    ASSUME TypeInv, [DeletionNext]_allVars, NEW u \in Uploads, pc[u] = "ok"
    PROVE  /\ pc'[u] = "ok"
           /\ \A n \in Names : /\ manifestObj'[n] = u => manifestObj[n] = u
                               /\ \A i \in ChunkIds : chunkObj'[n][i] = u => chunkObj[n][i] = u
<1> DEFINE Kept == /\ pc'[u] = "ok"
                   /\ \A n \in Names :
                        /\ manifestObj'[n] = u => manifestObj[n] = u
                        /\ \A i \in ChunkIds : chunkObj'[n][i] = u => chunkObj[n][i] = u
<1> SUFFICES Kept
  OBVIOUS
<1> USE ConstantsAssumption DEF TypeInv, TypeOK
<1>1. ASSUME NEW v \in Uploads, Receive(v) PROVE Kept
  <2>1. CASE PutChunk(v)
    BY <2>1 DEF PutChunk
  <2> QED
    BY <1>1, <2>1 DEF Receive, StartUpload, RejectUpload, AddVerifiedChunk,
       UpdateUploadProgress, EndOfStream, PutManifest, SetUploadManifestObjectKey,
       CommitUpload, StepFails, FailUpload, FailureNotRecorded, Live, LivePc
<1>2. ASSUME NEW v \in Uploads, NEW n \in Names, NEW b \in Uploads \cup {None},
             Connect(v, n, b)
      PROVE  Kept
  BY <1>2 DEF Connect
<1>3. CASE Crash
  BY <1>3 DEF Crash, Live, LivePc
<1>4. CASE Cleanup \/ \E v \in Uploads : CleanupObjectsFail(v)
  BY <1>4 DEF Cleanup, CleanupList, CleanupObjects, CleanupObjectsFail,
     CleanupSnapshotRow, CleanupDeleteSnapshot, CleanupRefused, CleanupDeleteSession
<1>5. CASE \/ \E v \in Uploads : HeartbeatAges(v)
           \/ Reconcile \/ ReconcileAborts \/ StartServing \/ Restart \/ UNCHANGED vars
  BY <1>5 DEF HeartbeatAges, Reconcile, ReconcileList, ReconcileFailSnapshot,
     ReconcileFailSession, ReconcileFailOperation, ReconcileDone, ReconcileAborts,
     StartServing, Restart
<1>6. CASE OnlyFaults \/ InvalidateForDeletion \/ DeleteRows
  BY <1>6 DEF OnlyFaults, InvalidateForDeletion, DeleteRows
<1>7. CASE \/ \E n \in Names, i \in ChunkIds : DeleteChunkObject(n, i)
           \/ \E n \in Names : DeleteManifestObject(n)
  <2>1. UNCHANGED pc
    BY <1>7 DEF DeleteChunkObject, DeleteManifestObject
  <2> HIDE DEF TypeInv
  <2> QED BY <1>7, <2>1, ObjectsOnlyGo
<1> HIDE DEF TypeInv, Kept
<1> QED BY <1>1, <1>2, <1>3, <1>4, <1>5, <1>6, <1>7, StepOfIngest DEF Next, WorkerWrites

\* Only DeleteRows reports success, and of the operation in hand.
LEMMA OnlyDeleteRowsSucceeds ==
    ASSUME QueueInv, [DeletionNext]_allVars, NEW d \in DelOps, del'[d].status = "succeeded"
    PROVE  /\ del'[d].snap = del[d].snap
           /\ del[d].status # "succeeded" => DeleteRows /\ d = wCur.op
<1> USE DEF QueueInv, DeletionTypeOK
<1>1. ASSUME NEW e \in DelOps, NEW u \in Uploads \cup {None}, Queue(e, u)
      PROVE  UNCHANGED del[d]
  BY <1>1 DEF Queue
<1>2. ASSUME NEW r \in wTodo, RunOperation(r) PROVE UNCHANGED del[d]
  BY <1>2 DEF RunOperation, ListedArePending, ListingOf, Pending
<1>3. CASE DeleteRows
  BY <1>3 DEF DeleteRows, AllObjectsDeleted, OneInHand, Busy, ListingOf, Pending
<1>4. CASE FailOperation
  BY <1>4 DEF FailOperation, OneInHand, Busy, ListingOf, Pending
<1>5. CASE UNCHANGED del
  BY <1>5
<1> QED
  BY <1>1, <1>2, <1>3, <1>4, <1>5
  DEF DeletionNext, CrashWithWorker, Work, QueueSnapshotDeletion, QueueDatasetDeletion,
      WorkerList, WorkerListDone, CountDescendants, ListObjectKeys, InvalidateForDeletion,
      DeleteChunkObject, DeleteManifestObject, DeleteRowsRefused, WorkerStepFails,
      OperationLeftPending

\* The snapshot of the operation in hand was acknowledged and still has its row.
LEMMA InHandIsAcked ==
    ASSUME SafeInv, wStep \in Busy, wCur.snap # None
    PROVE  /\ wCur.snap \in Uploads /\ pc[wCur.snap] = "ok" /\ snap[wCur.snap] # "none"
           /\ wCur.op \in DelOps /\ wCur.snap = del[wCur.op].snap
<1>1. wCur.op \in Pending /\ wCur.op \in DelOps
  BY BusyIsQuiet DEF SafeInv, Pending
<1>2. wCur.snap = del[wCur.op].snap /\ wCur.snap \in Uploads
  BY <1>1 DEF SafeInv, QuietInv, RequestedStays, QueueInv, DeletionTypeOK
<1> QED BY <1>1, <1>2 DEF SafeInv, QuietInv, RequestedStays

LEMMA KeysListedInductive ==
    ASSUME SafeInv, RowsInv, TypeInv, GoneInv, [DeletionNext]_allVars
    PROVE  AllKeysListed'
<1>1. CASE ListObjectKeys
  <2> USE <1>1 DEF ListObjectKeys
  <2> SUFFICES ASSUME wCur.snap # None PROVE AllKeysListed'
    BY DEF AllKeysListed
  <2> DEFINE u == wCur.snap
  <2>1. u \in Uploads /\ pc[u] = "ok" /\ snap[u] # "none"
    BY InHandIsAcked DEF Busy
  <2>2. u \in Targets
    BY <2>1 DEF Targets
  <2>3. rows[u] = 0 .. idx[u] - 1 /\ idx[u] \in Nat
    BY <2>1, ConstantsAssumption DEF RowsInv, RowsFollowChunks, TypeOK
  <2>4. ASSUME NEW n \in Names, manifestObj[n] = u PROVE n \in wManifests'
    BY <2>1, <2>2, <2>4 DEF GoneInv, ObjectsHaveOwners
  <2>5. ASSUME NEW n \in Names, NEW i \in ChunkIds, chunkObj[n][i] = u PROVE <<n, i>> \in wChunks'
    <3>1. name[u] = n /\ i < idx[u]
      BY <2>1, <2>5 DEF GoneInv, ObjectsHaveOwners
    <3>2. i \in rows[u]
      BY <2>3, <3>1, ConstantsAssumption DEF ChunkIds
    <3> QED BY <2>2, <3>1, <3>2
  <2> QED BY <2>4, <2>5 DEF AllKeysListed
<1>2. CASE InvalidateForDeletion
  BY <1>2 DEF InvalidateForDeletion, GoneInv, AllKeysListed
<1>3. ASSUME NEW n \in Names, NEW i \in ChunkIds, DeleteChunkObject(n, i) PROVE AllKeysListed'
  <2> SUFFICES ASSUME wCur.snap # None,
                      NEW m \in Names
               PROVE  /\ manifestObj[m] = wCur.snap => m \in wManifests
                      /\ \A j \in ChunkIds : chunkObj'[m][j] = wCur.snap => <<m, j>> \in wChunks'
    BY <1>3 DEF DeleteChunkObject, AllKeysListed
  <2>1. manifestObj[m] = wCur.snap => m \in wManifests
    BY <1>3 DEF DeleteChunkObject, GoneInv, AllKeysListed
  <2>2. ASSUME NEW j \in ChunkIds, chunkObj'[m][j] = wCur.snap PROVE <<m, j>> \in wChunks'
    <3>1. ~(m = n /\ j = i) /\ chunkObj[m][j] = wCur.snap
      BY <1>3, <2>2 DEF DeleteChunkObject, TypeInv, TypeOK
    <3>2. <<m, j>> \in wChunks /\ <<m, j>> # <<n, i>>
      BY <1>3, <3>1 DEF DeleteChunkObject, GoneInv, AllKeysListed
    <3> QED BY <1>3, <3>2 DEF DeleteChunkObject
  <2> QED BY <2>1, <2>2
<1>4. ASSUME NEW n \in Names, DeleteManifestObject(n) PROVE AllKeysListed'
  BY <1>4 DEF DeleteManifestObject, GoneInv, AllKeysListed, TypeInv, TypeOK
<1>5. ASSUME UNCHANGED <<wStep, wCur, wChunks, wManifests>> PROVE AllKeysListed'
  <2> SUFFICES ASSUME wStep \in {"invalidate", "objects"}, wCur.snap # None
               PROVE  AllKeysListed'
    BY <1>5 DEF AllKeysListed
  <2>1. wCur.snap \in Uploads /\ pc[wCur.snap] = "ok"
    BY InHandIsAcked DEF Busy
  <2> QED BY <1>5, <2>1, AckedWritesNothing DEF GoneInv, AllKeysListed
<1>6. ASSUME wStep' \notin {"invalidate", "objects"} PROVE AllKeysListed'
  BY <1>6 DEF AllKeysListed
<1> QED
  BY <1>1, <1>2, <1>3, <1>4, <1>5, <1>6
  DEF DeletionNext, Work, CrashWithWorker, QueueSnapshotDeletion, QueueDatasetDeletion, Queue,
      WorkerList, WorkerListDone, RunOperation, CountDescendants, DeleteRows, DeleteRowsRefused,
      FailOperation, WorkerStepFails, OperationLeftPending

LEMMA GoneInductive ==
    SafeInv /\ RowsInv /\ TypeInv /\ GoneInv /\ [DeletionNext]_allVars => GoneInv'
<1> SUFFICES ASSUME SafeInv, RowsInv, TypeInv, GoneInv, [DeletionNext]_allVars PROVE GoneInv'
  OBVIOUS
<1>1. ObjectsHaveOwners' /\ AllKeysListed'
  BY OwnersInductive, KeysListedInductive DEF GoneInv
<1>2. ASSUME NEW d \in DelOps, del'[d].status = "succeeded", del'[d].snap # None
      PROVE  pc'[del'[d].snap] = "ok" /\ NoObjectsOf(del[d].snap)' /\ del'[d].snap = del[d].snap
  <2>1. /\ del'[d].snap = del[d].snap /\ del[d].snap \in Uploads
        /\ del[d].status # "succeeded" => DeleteRows /\ d = wCur.op
    BY <1>2, OnlyDeleteRowsSucceeds DEF SafeInv, QueueInv, DeletionTypeOK
  <2>2. pc[del[d].snap] = "ok" /\ NoObjectsOf(del[d].snap)
    <3>1. CASE del[d].status = "succeeded"
      BY <1>2, <2>1, <3>1 DEF GoneInv, DeletedIsGone
    <3>2. CASE DeleteRows /\ d = wCur.op
      <4>1. wCur.snap = del[d].snap /\ pc[wCur.snap] = "ok"
        <5>1. wStep \in Busy
          BY <3>2 DEF DeleteRows, AllObjectsDeleted, Busy
        <5>2. wCur.snap = del[d].snap
          BY <3>2, <5>1 DEF SafeInv, QuietInv, RequestedStays
        <5> QED BY <1>2, <2>1, <5>1, <5>2, InHandIsAcked
      <4> QED
        BY <1>2, <2>1, <3>2, <4>1
        DEF DeleteRows, AllObjectsDeleted, GoneInv, AllKeysListed, NoObjectsOf
    <3> QED BY <2>1, <3>1, <3>2
  <2>3. /\ pc'[del[d].snap] = "ok"
        /\ \A n \in Names : /\ manifestObj'[n] # del[d].snap
                            /\ \A i \in ChunkIds : chunkObj'[n][i] # del[d].snap
    BY <2>1, <2>2, AckedWritesNothing DEF NoObjectsOf
  <2> QED BY <2>1, <2>3 DEF NoObjectsOf
<1>3. DeletedIsGone'
  BY <1>2 DEF DeletedIsGone
<1> QED BY <1>1, <1>3 DEF GoneInv

\* A snapshot deletion that reports success leaves no object of the snapshot
\* behind, for good: the keys come from the rows, the rows are those of all the
\* chunks stored, and the attempt has stopped writing.
THEOREM DeletedLeavesNothing ==
    ASSUME ~SlowChunks, QuietDeletes
    PROVE  DeletionSpec => []DeletedLeavesNoObjects
<1>1. DeletionInit => GoneInv
  BY ConstantsAssumption
  DEF DeletionInit, Init, GoneInv, ObjectsHaveOwners, AllKeysListed, DeletedIsGone, ChunkIds
<1>2. GoneInv => DeletedLeavesNoObjects
  BY DEF GoneInv, DeletedIsGone, DeletedLeavesNoObjects, NoObjectsOf
<1> QED
  BY <1>1, <1>2, GoneInductive, SafeInvAlways, RowsAlways, IngestTypeAlways, PTL
  DEF DeletionSpec

(***************************************************************************)
(* The manifests, with the startup cleanup switched off as in Ingest.      *)
(***************************************************************************)

LEMMA ManifestKept ==
    ASSUME ~SlowChunks, ~CleanupEnabled
    PROVE  SafeInv /\ CommittedManifestIntact /\ [DeletionNext]_allVars
              => CommittedManifestIntact'
<1> SUFFICES ASSUME SafeInv, CommittedManifestIntact, [DeletionNext]_allVars
             PROVE  CommittedManifestIntact'
  OBVIOUS
<1>1. CASE [Next]_vars
  BY <1>1, ManifestInductive DEF SafeInv
<1>2. CASE OnlyFaults \/ InvalidateForDeletion \/ DeleteRows
  BY <1>2 DEF OnlyFaults, InvalidateForDeletion, DeleteRows, CommittedManifestIntact, Committed
<1>3. ASSUME NEW n \in Names, NEW i \in ChunkIds, DeleteChunkObject(n, i)
      PROVE  CommittedManifestIntact'
  BY <1>3 DEF DeleteChunkObject, CommittedManifestIntact, Committed
<1>4. ASSUME NEW n \in Names, DeleteManifestObject(n) PROVE CommittedManifestIntact'
  <2>1. \A u \in Uploads : Committed(u) => name[u] # n /\ name[u] \in Names
    BY <1>4 DEF DeleteManifestObject, SafeInv, QuietInv, InvalidatedFirst, IndInv,
       RowsNeedSnapshot, Committed
  <2> QED
    BY <1>4, <2>1 DEF DeleteManifestObject, CommittedManifestIntact, Committed, SafeInv,
       IndInv, TypeOK
<1> QED BY <1>1, <1>2, <1>3, <1>4, StepOfIngest DEF WorkerWrites

\* And a deletion never takes the manifest of a snapshot that is still
\* committed, though the key it deletes carries only a name.
THEOREM ManifestSurvivesDeletes ==
    ASSUME ~SlowChunks, ~CleanupEnabled, QuietDeletes
    PROVE  DeletionSpec => []CommittedManifestIntact
<1>1. DeletionInit => CommittedManifestIntact
  BY DEF DeletionInit, Init, CommittedManifestIntact, Committed
<1> QED BY <1>1, ManifestKept, SafeInvAlways, PTL DEF DeletionSpec

=============================================================================
