---------------------------- MODULE IngestProofs ----------------------------
(* Theorems about Ingest, for every number of attempts, names and chunks.  *)
EXTENDS Ingest, FiniteSetTheorems, TLAPS

USE DEF thread, catalog, bucket, recon, cleaner, vars

(***************************************************************************)
(* Type correctness.                                                       *)
(***************************************************************************)

\* TypeOK alone is not inductive: AddVerifiedChunk increments len(chunks), and
\* stays in bounds because PutChunk tested the bound for the same chunk.
RecordInBounds == \A u \in Uploads : pc[u] = "record" => idx[u] < MaxChunks

TypeInv == TypeOK /\ RecordInBounds

\* A step of the goroutine of an attempt keeps every variable in its type.
LEMMA ReceiveType ==
    ASSUME TypeInv, NEW u \in Uploads, Receive(u)
    PROVE  TypeInv'
<1> USE ConstantsAssumption DEF TypeInv, TypeOK, RecordInBounds, LivePc, ChunkIds
<1>1. CASE StartUpload(u)
  <2>1. BaseRow(u) \subseteq Uploads \cup {None}
    BY DEF BaseRow, RowNamed
  <2> QED BY <1>1, <2>1 DEF StartUpload
<1>2. CASE RejectUpload(u)
  BY <1>2 DEF RejectUpload
<1>3. CASE PutChunk(u)
  BY <1>3 DEF PutChunk
<1>4. CASE AddVerifiedChunk(u)
  <2>1. idx[u] \in 0 .. MaxChunks - 1 /\ idx[u] + 1 \in 0 .. MaxChunks
    BY <1>4 DEF AddVerifiedChunk
  <2>2. idx' \in [Uploads -> 0 .. MaxChunks] /\ rows' \in [Uploads -> SUBSET ChunkIds]
    BY <1>4, <2>1 DEF AddVerifiedChunk
  <2>3. TypeOK'
    BY <1>4, <2>2 DEF AddVerifiedChunk
  <2>4. RecordInBounds'
    BY <1>4 DEF AddVerifiedChunk
  <2> QED BY <2>3, <2>4
<1>5. CASE UpdateUploadProgress(u)
  BY <1>5 DEF UpdateUploadProgress, UpdateStatus
<1>6. ASSUME NEW c \in BOOLEAN, EndOfStream(u, c) PROVE TypeInv'
  BY <1>6 DEF EndOfStream, UpdateStatus
<1>7. CASE PutManifest(u)
  BY <1>7 DEF PutManifest
<1>8. CASE SetUploadManifestObjectKey(u)
  BY <1>8 DEF SetUploadManifestObjectKey, UpdateStatus
<1>9. CASE CommitUpload(u)
  BY <1>9 DEF CommitUpload, UpdateStatus
<1>10. CASE StepFails(u)
  BY <1>10 DEF StepFails
<1>11. CASE FailUpload(u)
  BY <1>11 DEF FailUpload, UpdateStatus
<1>12. CASE FailureNotRecorded(u)
  BY <1>12 DEF FailureNotRecorded
<1> QED
  BY <1>1, <1>2, <1>3, <1>4, <1>5, <1>6, <1>7, <1>8, <1>9, <1>10, <1>11, <1>12
     DEF Receive

\* So does every step of the reconciler and of the startup cleanup.
LEMMA MaintenanceType ==
    ASSUME TypeInv,
           \/ Reconcile \/ ReconcileAborts
           \/ Cleanup \/ \E u \in Uploads : CleanupObjectsFail(u)
    PROVE  TypeInv'
<1> USE ConstantsAssumption DEF TypeInv, TypeOK, RecordInBounds, LivePc, ChunkIds
<1>1. CASE ReconcileList
  BY <1>1 DEF ReconcileList, StaleSessions
<1>2. ASSUME NEW u \in Uploads, ReconcileFailSnapshot(u) PROVE TypeInv'
  BY <1>2 DEF ReconcileFailSnapshot, UpdateStatus
<1>3. CASE ReconcileFailSession
  BY <1>3 DEF ReconcileFailSession, UpdateStatus
<1>4. CASE ReconcileFailOperation
  BY <1>4 DEF ReconcileFailOperation
<1>5. CASE ReconcileDone
  BY <1>5 DEF ReconcileDone
<1>6. CASE ReconcileAborts
  BY <1>6 DEF ReconcileAborts
<1>7. CASE CleanupList
  BY <1>7 DEF CleanupList
<1>8. ASSUME NEW u \in Uploads, CleanupObjects(u) PROVE TypeInv'
  BY <1>8 DEF CleanupObjects
<1>9. ASSUME NEW u \in Uploads, CleanupObjectsFail(u) PROVE TypeInv'
  BY <1>9 DEF CleanupObjectsFail
<1>10. CASE cleanStep = "snapshot" /\ CleanupDeleteSnapshot
  BY <1>10 DEF CleanupDeleteSnapshot
<1>11. CASE cleanStep = "snapshot" /\ CleanupRefused
  BY <1>11 DEF CleanupRefused
<1>12. CASE CleanupDeleteSession
  BY <1>12 DEF CleanupDeleteSession
<1> QED
  BY <1>1, <1>2, <1>3, <1>4, <1>5, <1>6, <1>7, <1>8, <1>9, <1>10, <1>11, <1>12
     DEF Reconcile, Cleanup, CleanupSnapshotRow

LEMMA TypeInductive == TypeInv /\ [Next]_vars => TypeInv'
<1> SUFFICES ASSUME TypeInv, [Next]_vars PROVE TypeInv'
  OBVIOUS
<1>1. ASSUME NEW u \in Uploads, NEW n \in Names, NEW b \in Uploads \cup {None},
             Connect(u, n, b)
      PROVE  TypeInv'
  BY <1>1, ConstantsAssumption DEF Connect, TypeInv, TypeOK, RecordInBounds, LivePc
<1>2. ASSUME NEW u \in Uploads, HeartbeatAges(u) PROVE TypeInv'
  BY <1>2 DEF HeartbeatAges, TypeInv, TypeOK, RecordInBounds
<1>3. CASE StartServing
  BY <1>3 DEF StartServing, TypeInv, TypeOK, RecordInBounds
<1>4. CASE Restart
  BY <1>4 DEF Restart, TypeInv, TypeOK, RecordInBounds
<1>5. CASE Crash
  BY <1>5, ConstantsAssumption DEF Crash, TypeInv, TypeOK, RecordInBounds, LivePc
<1>6. CASE UNCHANGED vars
  BY <1>6 DEF TypeInv, TypeOK, RecordInBounds
<1> QED
  BY <1>1, <1>2, <1>3, <1>4, <1>5, <1>6, ReceiveType, MaintenanceType DEF Next

LEMMA TypeInitially == Init => TypeInv
BY ConstantsAssumption DEF Init, TypeInv, TypeOK, RecordInBounds, LivePc, ChunkIds

\* Every variable of the upload path keeps its type: in particular a status
\* column only ever holds a value its CHECK constraint lists, and len(chunks)
\* and the recorded chunk indexes stay within the stream.
THEOREM TypeCorrect == Spec => []TypeOK
<1>1. TypeInv => TypeOK
  BY DEF TypeInv
<1> QED
  BY <1>1, TypeInitially, TypeInductive, PTL DEF Spec

(***************************************************************************)
(* The safety invariants, when no live upload goes stale.                  *)
(*                                                                         *)
(* IndInv says who may touch what: a live Receive owns its rows and its    *)
(* keys (LiveOwnsRows, UniqueNames), so nobody else writes the objects     *)
(* it has already recorded (LiveProgress); maintenance touches only        *)
(* attempts without a goroutine (MaintenanceOnDead), which are never the   *)
(* committed ones (CommittedIsAcked).                                      *)
(***************************************************************************)

\* A step that leaves the rows alone, and the objects of committed chunks.
LEMMA ChunksIntactFrame ==
    ASSUME CommittedChunksIntact, UNCHANGED <<name, idx, snap, rows>>,
           \A v \in Uploads : Committed(v) =>
               \A i \in rows[v] : chunkObj'[name[v]][i] = chunkObj[name[v]][i]
    PROVE  CommittedChunksIntact'
BY DEF CommittedChunksIntact, Committed

\* A step of Receive keeps the inductive invariant.
LEMMA ReceiveInductive ==
    ASSUME ~SlowChunks, IndInv, TypeOK', NEW u \in Uploads, Receive(u)
    PROVE  IndInv'
<1> USE ConstantsAssumption
    DEF IndInv, TypeOK, LiveOwnsRows, NotStartedHasNoRows, UniqueNames, RowsNeedSnapshot,
        LiveProgress, CommittedIsAcked, UnfinishedSessions, MaintenanceOnDead,
        ChainRooted, CommittedChunksIntact, Live, LivePc, Dead, Committed, ChunkIds
<1>1. CASE StartUpload(u)
  <2> USE <1>1 DEF StartUpload, BaseRow, RowNamed, Replaceable
  <2>1. rows'[u] = {} /\ idx'[u] = 0
    OBVIOUS
  <2>2. \A v \in Uploads : v # u /\ Live(v)' => Live(v) /\ rows'[v] = rows[v]
    OBVIOUS
  <2>3. LiveProgress'
    <3> SUFFICES ASSUME NEW v \in Uploads, Live(v)' PROVE LiveProgress!(v)'
      OBVIOUS
    <3>1. CASE v = u
      BY <2>1, <3>1
    <3>2. CASE v # u
      BY <2>2, <3>2
    <3> QED BY <3>1, <3>2
  <2>4. LiveOwnsRows' /\ NotStartedHasNoRows' /\ UniqueNames' /\ RowsNeedSnapshot'
    OBVIOUS
  <2>5. CommittedIsAcked' /\ UnfinishedSessions' /\ MaintenanceOnDead'
    OBVIOUS
  <2>6. ChainRooted' /\ CommittedChunksIntact'
    OBVIOUS
  <2> QED BY <2>3, <2>4, <2>5, <2>6
<1>2. CASE RejectUpload(u)
  BY <1>2 DEF RejectUpload
<1>3. CASE PutChunk(u)
  <2> USE <1>3 DEF PutChunk
  \* The key is the attempt's own: a committed snapshot has another name.
  <2>1. \A v \in Uploads : Committed(v) => v # u /\ name[v] # name[u]
    OBVIOUS
  <2>2. CommittedChunksIntact'
    BY <2>1, ChunksIntactFrame
  <2>3. LiveProgress'
    <3> SUFFICES ASSUME NEW v \in Uploads, Live(v)' PROVE LiveProgress!(v)'
      OBVIOUS
    <3>1. CASE v = u
      BY <3>1
    <3>2. CASE v # u
      <4>1. Live(v) /\ name[v] # name[u] /\ name[v] \in Names
        BY <3>2
      <4>2. chunkObj'[name[v]] = chunkObj[name[v]]
        BY <4>1
      <4> QED BY <3>2, <4>1, <4>2
    <3> QED BY <3>1, <3>2
  <2>4. LiveOwnsRows' /\ NotStartedHasNoRows' /\ UniqueNames' /\ RowsNeedSnapshot'
    OBVIOUS
  <2>5. CommittedIsAcked' /\ UnfinishedSessions' /\ MaintenanceOnDead' /\ ChainRooted'
    OBVIOUS
  <2> QED BY <2>2, <2>3, <2>4, <2>5
<1>4. CASE AddVerifiedChunk(u)
  <2> USE <1>4 DEF AddVerifiedChunk
  <2>1. rows'[u] = rows[u] \cup {idx[u]} /\ idx'[u] = idx[u] + 1 /\ idx[u] \in Nat
    OBVIOUS
  <2>2. rows'[u] = 0 .. idx'[u] - 1
    BY <2>1
  <2>3. \A i \in rows'[u] : chunkObj[name[u]][i] = u
    BY <2>1
  <2>4. LiveProgress'
    <3> SUFFICES ASSUME NEW v \in Uploads, Live(v)' PROVE LiveProgress!(v)'
      OBVIOUS
    <3>1. CASE v = u
      BY <2>2, <2>3, <3>1
    <3>2. CASE v # u
      BY <3>2
    <3> QED BY <3>1, <3>2
  <2>5. LiveOwnsRows' /\ NotStartedHasNoRows' /\ UniqueNames' /\ RowsNeedSnapshot'
    OBVIOUS
  <2>6. CommittedIsAcked' /\ UnfinishedSessions' /\ MaintenanceOnDead'
    OBVIOUS
  <2>7. ChainRooted' /\ CommittedChunksIntact'
    OBVIOUS
  <2> QED BY <2>4, <2>5, <2>6, <2>7
<1>5. CASE UpdateUploadProgress(u)
  BY <1>5 DEF UpdateUploadProgress, UpdateStatus
<1>6. ASSUME NEW c \in BOOLEAN, EndOfStream(u, c) PROVE IndInv'
  BY <1>6 DEF EndOfStream, UpdateStatus
<1>7. CASE PutManifest(u)
  <2> USE <1>7 DEF PutManifest
  <2>1. \A v \in Uploads : Live(v) /\ v # u => name[v] # name[u] /\ name[v] \in Names
    OBVIOUS
  <2>2. LiveProgress'
    <3> SUFFICES ASSUME NEW v \in Uploads, Live(v)' PROVE LiveProgress!(v)'
      OBVIOUS
    <3>1. CASE v = u
      BY <3>1
    <3>2. CASE v # u
      BY <2>1, <3>2
    <3> QED BY <3>1, <3>2
  <2>3. LiveOwnsRows' /\ NotStartedHasNoRows' /\ UniqueNames' /\ RowsNeedSnapshot'
    OBVIOUS
  <2>4. CommittedIsAcked' /\ UnfinishedSessions' /\ MaintenanceOnDead'
    OBVIOUS
  <2>5. ChainRooted' /\ CommittedChunksIntact'
    OBVIOUS
  <2> QED BY <2>2, <2>3, <2>4, <2>5
<1>8. CASE SetUploadManifestObjectKey(u)
  BY <1>8 DEF SetUploadManifestObjectKey, UpdateStatus
<1>9. CASE CommitUpload(u)
  BY <1>9 DEF CommitUpload, UpdateStatus
<1>10. CASE StepFails(u)
  BY <1>10 DEF StepFails
<1>11. CASE FailUpload(u)
  BY <1>11 DEF FailUpload, UpdateStatus
<1>12. CASE FailureNotRecorded(u)
  BY <1>12 DEF FailureNotRecorded
<1> QED
  BY <1>1, <1>2, <1>3, <1>4, <1>5, <1>6, <1>7, <1>8, <1>9, <1>10, <1>11, <1>12
     DEF Receive

\* A step of the reconciler keeps it: the snapshots it fails were never
\* committed, since their attempts have no goroutine and were not told "ok".
LEMMA ReconcileInductive ==
    ASSUME ~SlowChunks, IndInv, TypeOK', Reconcile \/ ReconcileAborts
    PROVE  IndInv'
<1> USE ConstantsAssumption
    DEF IndInv, TypeOK, LiveOwnsRows, NotStartedHasNoRows, UniqueNames, RowsNeedSnapshot,
        LiveProgress, CommittedIsAcked, UnfinishedSessions, MaintenanceOnDead,
        ChainRooted, CommittedChunksIntact, Live, LivePc, Dead, Committed, ChunkIds
<1>1. CASE ReconcileList
  BY <1>1 DEF ReconcileList, StaleSessions
<1>2. ASSUME NEW u \in Uploads, ReconcileFailSnapshot(u) PROVE IndInv'
  <2> USE <1>2 DEF ReconcileFailSnapshot, UpdateStatus
  <2>1. Dead(u) /\ ~Live(u) /\ ~Committed(u) /\ pc[u] \notin {"idle", "start", "ok"}
    OBVIOUS
  <2>2. \A v \in Uploads : v # u => snap'[v] = snap[v]
    OBVIOUS
  <2>3. snap'[u] # "committed" /\ (snap'[u] = "none" <=> snap[u] = "none")
    OBVIOUS
  <2>4. \A v \in Uploads : Committed(v)' <=> Committed(v)
    BY <2>1, <2>2, <2>3
  <2>5. LiveOwnsRows' /\ NotStartedHasNoRows'
    BY <2>1, <2>2, <2>4
  <2>6. UniqueNames' /\ RowsNeedSnapshot' /\ LiveProgress'
    BY <2>2, <2>3
  <2>7. CommittedIsAcked' /\ UnfinishedSessions' /\ MaintenanceOnDead'
    BY <2>1, <2>4
  <2>8. ChainRooted' /\ CommittedChunksIntact'
    BY <2>4
  <2> QED BY <2>5, <2>6, <2>7, <2>8
<1>3. CASE ReconcileFailSession
  BY <1>3 DEF ReconcileFailSession, UpdateStatus
<1>4. CASE ReconcileFailOperation
  BY <1>4 DEF ReconcileFailOperation
<1>5. CASE ReconcileDone
  BY <1>5 DEF ReconcileDone
<1>6. CASE ReconcileAborts
  BY <1>6 DEF ReconcileAborts
<1> QED
  BY <1>1, <1>2, <1>3, <1>4, <1>5, <1>6 DEF Reconcile

\* A step of the startup cleanup keeps it: an abandoned attempt that still has
\* chunk rows has its snapshot row, so no committed snapshot has its name.
LEMMA CleanupInductive ==
    ASSUME ~SlowChunks, IndInv, TypeOK',
           Cleanup \/ \E u \in Uploads : CleanupObjectsFail(u)
    PROVE  IndInv'
<1> USE ConstantsAssumption
    DEF IndInv, TypeOK, LiveOwnsRows, NotStartedHasNoRows, UniqueNames, RowsNeedSnapshot,
        LiveProgress, CommittedIsAcked, UnfinishedSessions, MaintenanceOnDead,
        ChainRooted, CommittedChunksIntact, Live, LivePc, Dead, Committed, ChunkIds
<1>1. CASE CleanupList
  BY <1>1 DEF CleanupList
<1>2. ASSUME NEW u \in Uploads, CleanupObjects(u) PROVE IndInv'
  <2> USE <1>2 DEF CleanupObjects
  <2>1. ~Committed(u) /\ \A v \in Uploads : ~Live(v)
    OBVIOUS
  <2>2. \A v \in Uploads : Committed(v) /\ name[v] = name[u] => rows[u] = {}
    BY <2>1
  <2>3. CommittedChunksIntact'
    <3>1. ASSUME NEW v \in Uploads, Committed(v), NEW i \in rows[v]
          PROVE  chunkObj'[name[v]][i] = chunkObj[name[v]][i]
      <4>1. name[v] \in Names /\ i \in ChunkIds
        BY <3>1
      <4> QED BY <2>2, <3>1, <4>1
    <3> QED BY <3>1, ChunksIntactFrame
  <2>4. LiveOwnsRows' /\ NotStartedHasNoRows' /\ UniqueNames' /\ RowsNeedSnapshot'
    OBVIOUS
  <2>5. LiveProgress' /\ CommittedIsAcked' /\ UnfinishedSessions' /\ ChainRooted'
    BY <2>1
  <2>6. MaintenanceOnDead'
    OBVIOUS
  <2> QED BY <2>3, <2>4, <2>5, <2>6
<1>3. ASSUME NEW u \in Uploads, CleanupObjectsFail(u) PROVE IndInv'
  <2> USE <1>3 DEF CleanupObjectsFail
  <2>1. ~Committed(u) /\ \A v \in Uploads : ~Live(v)
    OBVIOUS
  <2>2. \A v \in Uploads : Committed(v) /\ name[v] = name[u] => rows[u] = {}
    BY <2>1
  <2>3. CommittedChunksIntact'
    <3>1. ASSUME NEW v \in Uploads, Committed(v), NEW i \in rows[v]
          PROVE  chunkObj'[name[v]][i] = chunkObj[name[v]][i]
      <4>1. name[v] \in Names /\ i \in ChunkIds
        BY <3>1
      <4> QED BY <2>2, <3>1, <4>1
    <3> QED BY <3>1, ChunksIntactFrame
  <2>4. LiveOwnsRows' /\ NotStartedHasNoRows' /\ UniqueNames' /\ RowsNeedSnapshot'
    OBVIOUS
  <2>5. LiveProgress' /\ CommittedIsAcked' /\ UnfinishedSessions' /\ ChainRooted'
    BY <2>1
  <2>6. MaintenanceOnDead'
    OBVIOUS
  <2> QED BY <2>3, <2>4, <2>5, <2>6
<1>4. CASE cleanStep = "snapshot" /\ CleanupDeleteSnapshot
  BY <1>4 DEF CleanupDeleteSnapshot
<1>5. CASE cleanStep = "snapshot" /\ CleanupRefused
  BY <1>5 DEF CleanupRefused
<1>6. CASE CleanupDeleteSession
  BY <1>6 DEF CleanupDeleteSession
<1> QED
  BY <1>1, <1>2, <1>3, <1>4, <1>5, <1>6 DEF Cleanup, CleanupSnapshotRow

LEMMA IndInvInductive ==
    ASSUME ~SlowChunks
    PROVE  IndInv /\ [Next]_vars => IndInv'
<1> SUFFICES ASSUME IndInv, [Next]_vars PROVE IndInv'
  OBVIOUS
<1> USE ConstantsAssumption
    DEF IndInv, TypeOK, LiveOwnsRows, NotStartedHasNoRows, UniqueNames, RowsNeedSnapshot,
        LiveProgress, CommittedIsAcked, UnfinishedSessions, MaintenanceOnDead,
        ChainRooted, CommittedChunksIntact, Live, LivePc, Dead, Committed, ChunkIds
<1>1. TypeInv
  BY DEF TypeInv, RecordInBounds
<1>2. TypeOK'
  BY <1>1, TypeInductive DEF TypeInv
<1>3. ASSUME NEW u \in Uploads, NEW n \in Names, NEW b \in Uploads \cup {None},
             Connect(u, n, b)
      PROVE  IndInv'
  BY <1>2, <1>3 DEF Connect
<1>4. ASSUME NEW u \in Uploads, HeartbeatAges(u) PROVE IndInv'
  BY <1>2, <1>4 DEF HeartbeatAges
<1>5. CASE StartServing
  BY <1>2, <1>5 DEF StartServing
<1>6. CASE Restart
  BY <1>2, <1>6 DEF Restart
<1>7. CASE Crash
  BY <1>2, <1>7 DEF Crash
<1>8. CASE UNCHANGED vars
  BY <1>2, <1>8
<1> HIDE DEF IndInv, TypeOK
<1> QED
  BY <1>2, <1>3, <1>4, <1>5, <1>6, <1>7, <1>8,
     ReceiveInductive, ReconcileInductive, CleanupInductive DEF Next

LEMMA IndInvInitially == Init => IndInv
<1> SUFFICES ASSUME Init PROVE IndInv
  OBVIOUS
<1>1. TypeOK
  BY TypeInitially DEF TypeInv
<1> QED
  BY <1>1, ConstantsAssumption
  DEF Init, IndInv, LiveOwnsRows, NotStartedHasNoRows, UniqueNames, RowsNeedSnapshot,
      LiveProgress, CommittedIsAcked, UnfinishedSessions, MaintenanceOnDead,
      ChainRooted, CommittedChunksIntact, Live, LivePc, Dead, Committed

LEMMA IndInvAlways ==
    ASSUME ~SlowChunks
    PROVE  Spec => []IndInv
BY IndInvInitially, IndInvInductive, PTL DEF Spec

\* Whatever crashes, retries, reconciliation and cleanup do, the chunks of a
\* committed snapshot stay recorded and their objects stay the ones the
\* committing Receive stored, as long as no live upload is taken for stale.
THEOREM ChunksStayIntact ==
    ASSUME ~SlowChunks
    PROVE  Spec => []CommittedChunksIntact
<1>1. IndInv => CommittedChunksIntact
  BY DEF IndInv
<1> QED BY <1>1, IndInvAlways, PTL

\* No upload, retry or maintenance step takes a committed snapshot away.
LEMMA CommittedKept ==
    ASSUME IndInv, [Next]_vars, NEW v \in Uploads, Committed(v)
    PROVE  Committed(v)'
<1> USE DEF Committed, IndInv, TypeOK
<1>1. pc[v] = "ok"
  BY DEF CommittedIsAcked
<1>2. ASSUME NEW u \in Uploads, Receive(u) PROVE Committed(v)'
  <2>1. CASE StartUpload(u)
    \* A committed row of the name would have refused the upload.
    <3>1. v # u /\ v \notin RowNamed(name[u])
      BY <1>1, <2>1 DEF StartUpload, Replaceable, RowNamed
    <3> QED BY <2>1, <3>1 DEF StartUpload
  <2>2. CASE CommitUpload(u)
    BY <2>2 DEF CommitUpload, UpdateStatus
  <2>3. CASE FailUpload(u)
    BY <1>1, <2>3 DEF FailUpload, UpdateStatus
  <2> QED
    BY <1>2, <2>1, <2>2, <2>3
    DEF Receive, RejectUpload, PutChunk, AddVerifiedChunk, UpdateUploadProgress,
        EndOfStream, PutManifest, SetUploadManifestObjectKey, StepFails, FailureNotRecorded
<1>3. CASE Reconcile \/ ReconcileAborts
  BY <1>1, <1>3 DEF Reconcile, ReconcileList, ReconcileFailSnapshot, ReconcileFailSession,
     ReconcileFailOperation, ReconcileDone, ReconcileAborts, UpdateStatus,
     MaintenanceOnDead, Dead
<1>4. CASE Cleanup \/ \E u \in Uploads : CleanupObjectsFail(u)
  BY <1>1, <1>4 DEF Cleanup, CleanupList, CleanupObjects, CleanupObjectsFail,
     CleanupSnapshotRow, CleanupDeleteSnapshot, CleanupRefused, CleanupDeleteSession,
     MaintenanceOnDead, Dead
<1>5. CASE \/ \E u \in Uploads, n \in Names, b \in Uploads \cup {None} : Connect(u, n, b)
           \/ \E u \in Uploads : HeartbeatAges(u)
           \/ StartServing \/ Restart \/ Crash \/ UNCHANGED vars
  BY <1>5 DEF Connect, HeartbeatAges, StartServing, Restart, Crash
<1> QED
  BY <1>2, <1>3, <1>4, <1>5 DEF Next

\* Only CommitUpload tells a client "ok".
LEMMA OnlyCommitAcks ==
    ASSUME IndInv, [Next]_vars, NEW v \in Uploads,
           ~(pc'[v] = "ok" <=> pc[v] = "ok")
    PROVE  CommitUpload(v)
<1> USE DEF IndInv, TypeOK
<1>1. ASSUME NEW u \in Uploads, Receive(u) PROVE CommitUpload(v)
  BY <1>1 DEF Receive, StartUpload, RejectUpload, PutChunk, AddVerifiedChunk,
     UpdateUploadProgress, EndOfStream, PutManifest, SetUploadManifestObjectKey, CommitUpload,
     StepFails, FailUpload, FailureNotRecorded, Live, LivePc
<1>2. ASSUME NEW u \in Uploads, NEW n \in Names, NEW b \in Uploads \cup {None},
             Connect(u, n, b)
      PROVE  CommitUpload(v)
  BY <1>2 DEF Connect
<1>3. CASE Crash
  BY <1>3 DEF Crash, Live, LivePc
<1>4. CASE \/ \E u \in Uploads : HeartbeatAges(u)
           \/ Reconcile \/ ReconcileAborts
           \/ Cleanup \/ \E u \in Uploads : CleanupObjectsFail(u)
           \/ StartServing \/ Restart \/ UNCHANGED vars
  BY <1>4 DEF HeartbeatAges, Reconcile, ReconcileList, ReconcileFailSnapshot,
     ReconcileFailSession, ReconcileFailOperation, ReconcileDone, ReconcileAborts,
     Cleanup, CleanupList, CleanupObjects, CleanupObjectsFail, CleanupSnapshotRow,
     CleanupDeleteSnapshot, CleanupRefused, CleanupDeleteSession, StartServing, Restart
<1> QED BY <1>1, <1>2, <1>3, <1>4 DEF Next

\* And only CommitUpload commits a snapshot.
LEMMA OnlyCommitCommits ==
    ASSUME IndInv, [Next]_vars, NEW v \in Uploads, ~Committed(v), Committed(v)'
    PROVE  CommitUpload(v)
<1> USE DEF IndInv, TypeOK, Committed
<1>1. ASSUME NEW u \in Uploads, Receive(u) PROVE CommitUpload(v)
  BY <1>1 DEF Receive, StartUpload, RejectUpload, PutChunk, AddVerifiedChunk,
     UpdateUploadProgress, EndOfStream, PutManifest, SetUploadManifestObjectKey, CommitUpload,
     StepFails, FailUpload, FailureNotRecorded, UpdateStatus
<1>2. CASE Reconcile \/ ReconcileAborts
  BY <1>2 DEF Reconcile, ReconcileList, ReconcileFailSnapshot, ReconcileFailSession,
     ReconcileFailOperation, ReconcileDone, ReconcileAborts, UpdateStatus
<1>3. CASE Cleanup \/ \E u \in Uploads : CleanupObjectsFail(u)
  BY <1>3 DEF Cleanup, CleanupList, CleanupObjects, CleanupObjectsFail,
     CleanupSnapshotRow, CleanupDeleteSnapshot, CleanupRefused, CleanupDeleteSession
<1>4. CASE \/ \E u \in Uploads, n \in Names, b \in Uploads \cup {None} : Connect(u, n, b)
           \/ \E u \in Uploads : HeartbeatAges(u)
           \/ StartServing \/ Restart \/ Crash \/ UNCHANGED vars
  BY <1>4 DEF Connect, HeartbeatAges, StartServing, Restart, Crash
<1> QED BY <1>1, <1>2, <1>3, <1>4 DEF Next

\* Request.Snapshot is set once, when the session starts.
LEMMA NameFixed ==
    ASSUME IndInv, [Next]_vars, NEW v \in Uploads, pc[v] # "idle"
    PROVE  name'[v] = name[v]
<1>1. ASSUME NEW u \in Uploads, NEW n \in Names, NEW b \in Uploads \cup {None},
             Connect(u, n, b)
      PROVE  name'[v] = name[v]
  BY <1>1 DEF Connect, IndInv, TypeOK
<1>2. CASE UNCHANGED name
  BY <1>2
<1> QED
  BY <1>1, <1>2
  DEF Next, Receive, StartUpload, RejectUpload, PutChunk, AddVerifiedChunk,
     UpdateUploadProgress, EndOfStream, PutManifest, SetUploadManifestObjectKey, CommitUpload,
     StepFails, FailUpload, FailureNotRecorded, HeartbeatAges, Reconcile, ReconcileList,
     ReconcileFailSnapshot, ReconcileFailSession, ReconcileFailOperation, ReconcileDone,
     ReconcileAborts, Cleanup, CleanupList, CleanupObjects, CleanupObjectsFail,
     CleanupSnapshotRow, CleanupDeleteSnapshot, CleanupRefused, CleanupDeleteSession,
     StartServing, Restart, Crash

LEMMA AckedInductive == IndInv /\ AckedIsCommitted /\ [Next]_vars => AckedIsCommitted'
<1> SUFFICES ASSUME IndInv, AckedIsCommitted, [Next]_vars, NEW v \in Uploads, pc'[v] = "ok"
             PROVE  Committed(v)'
  BY DEF AckedIsCommitted, Committed
<1>1. CASE pc[v] = "ok"
  BY <1>1, CommittedKept DEF AckedIsCommitted
<1>2. CASE pc[v] # "ok"
  BY <1>2, OnlyCommitAcks
  DEF CommitUpload, UpdateStatus, Committed, IndInv, TypeOK, LiveOwnsRows, Live, LivePc
<1> QED BY <1>1, <1>2

\* Under the same assumption a client that was told "ok" finds its snapshot
\* committed for ever after: neither the reconciler nor a retry takes it away.
THEOREM AckedStaysCommitted ==
    ASSUME ~SlowChunks
    PROVE  Spec => []AckedIsCommitted
<1>1. Init => AckedIsCommitted
  BY DEF Init, AckedIsCommitted
<1> QED BY <1>1, AckedInductive, IndInvAlways, PTL DEF Spec

\* And the base StartUpload resolves by name is the snapshot whose GUID the
\* session looked up, and stays committed as long as a child refers to it.
THEOREM ChainStaysRooted ==
    ASSUME ~SlowChunks
    PROVE  Spec => []CommittedChainRooted
<1>1. IndInv => CommittedChainRooted
  BY DEF IndInv, ChainRooted, CommittedChainRooted
<1> QED BY <1>1, IndInvAlways, PTL

\* And no two attempts hold one name, or write one name's objects, at a time:
\* the object keys, which carry only the name, never mix two uploads.
THEOREM NamesHaveOneOwner ==
    ASSUME ~SlowChunks
    PROVE  Spec => []OneOwnerPerName
<1>1. IndInv => OneOwnerPerName
  BY DEF IndInv, LiveOwnsRows, UniqueNames, OneOwnerPerName
<1> QED BY <1>1, IndInvAlways, PTL

(***************************************************************************)
(* Restore chains.  RestoreChain(u) is the least set with u that is closed *)
(* under taking the parent, so to bound it, it is enough to name a closed  *)
(* set; the committed snapshots are one (ChainRooted).                     *)
(***************************************************************************)

ClosedUnder(f, C) == \A c \in C : f[c] # None => f[c] \in C

\* RestoreChain as a function of the parent column, so that the facts below
\* are about the column before a step as well as after it.
ChainIn(f, u) ==
    {t \in Uploads : \A C \in SUBSET Uploads : u \in C /\ ClosedUnder(f, C) => t \in C}

Parents == [Uploads -> Uploads \cup {None}]

LEMMA RestoreChainIn ==
    ASSUME NEW CONSTANT u
    PROVE  RestoreChain(u) = ChainIn(base, u) /\ RestoreChain(u)' = ChainIn(base', u)
BY DEF RestoreChain, ChainIn, ClosedUnder

\* The chain is the least closed set.
LEMMA ChainIsLeast ==
    ASSUME NEW f \in Parents, NEW u \in Uploads,
           NEW C \in SUBSET Uploads, u \in C, ClosedUnder(f, C)
    PROVE  ChainIn(f, u) \subseteq C
BY DEF ChainIn

LEMMA ChainIsClosed ==
    ASSUME NEW f \in Parents, NEW u \in Uploads
    PROVE  /\ ChainIn(f, u) \in SUBSET Uploads
           /\ u \in ChainIn(f, u)
           /\ ClosedUnder(f, ChainIn(f, u))
BY DEF ChainIn, ClosedUnder, Parents

\* The chain of a full stream is the snapshot itself, the chain of an
\* incremental one is its base's chain and the snapshot.
LEMMA ChainUnfolds ==
    ASSUME NEW f \in Parents, NEW u \in Uploads
    PROVE  /\ f[u] = None => ChainIn(f, u) = {u}
           /\ f[u] # None => ChainIn(f, u) = {u} \cup ChainIn(f, f[u])
<1>1. CASE f[u] = None
  <2>1. ClosedUnder(f, {u})
    BY <1>1 DEF ClosedUnder
  <2> QED BY <1>1, <2>1, ChainIsLeast, ChainIsClosed
<1>2. CASE f[u] # None
  <2>1. f[u] \in Uploads
    BY <1>2 DEF Parents
  <2>2. ClosedUnder(f, {u} \cup ChainIn(f, f[u]))
    BY <2>1, ChainIsClosed DEF ClosedUnder
  <2>3. ChainIn(f, u) \subseteq {u} \cup ChainIn(f, f[u])
    BY <2>1, <2>2, ChainIsLeast, ChainIsClosed
  <2>4. u \in ChainIn(f, u) /\ f[u] \in ChainIn(f, u)
    BY <1>2, ChainIsClosed DEF ClosedUnder
  <2>5. ChainIn(f, f[u]) \subseteq ChainIn(f, u)
    BY <2>1, <2>4, ChainIsLeast, ChainIsClosed
  <2> QED BY <1>2, <2>3, <2>4, <2>5
<1> QED BY <1>1, <1>2

\* A step that keeps the parents of a chain's snapshots keeps the chain.
LEMMA ChainFrame ==
    ASSUME NEW f \in Parents, NEW g \in Parents,
           NEW u \in Uploads, \A c \in ChainIn(f, u) : g[c] = f[c]
    PROVE  ChainIn(g, u) = ChainIn(f, u)
<1>1. ClosedUnder(g, ChainIn(f, u))
  BY ChainIsClosed DEF ClosedUnder
<1>2. ChainIn(g, u) \subseteq ChainIn(f, u)
  BY <1>1, ChainIsClosed, ChainIsLeast
<1>3. ClosedUnder(f, ChainIn(g, u))
  BY <1>2, ChainIsClosed DEF ClosedUnder
<1>4. ChainIn(f, u) \subseteq ChainIn(g, u)
  BY <1>3, ChainIsClosed, ChainIsLeast
<1> QED BY <1>2, <1>4

\* The ancestors of a live or committed attempt are committed.
LEMMA AncestorsCommitted ==
    ASSUME IndInv, NEW u \in Uploads, Live(u) \/ Committed(u)
    PROVE  \A c \in RestoreChain(u) : c = u \/ (c \in Uploads /\ Committed(c))
<1> DEFINE C == {u} \cup {c \in Uploads : Committed(c)}
<1>1. ClosedUnder(base, C)
  BY DEF ClosedUnder, IndInv, TypeOK, ChainRooted
<1>2. base \in Parents /\ C \in SUBSET Uploads /\ u \in C
  BY DEF IndInv, TypeOK, Parents
<1>3. ChainIn(base, u) \subseteq C
  BY <1>1, <1>2, ChainIsLeast
<1> QED BY <1>3, RestoreChainIn

\* The chain of every live or committed attempt is finite, and as short as the
\* setting asks: StartUpload checks the depth before there is a row, and no
\* parent changes afterwards.
ShortChains ==
    \A u \in Uploads : Live(u) \/ Committed(u) =>
        /\ IsFiniteSet(RestoreChain(u))
        /\ MaxIncrementalChainDepth > 0 => ChainDepth(u) <= MaxIncrementalChainDepth

\* Only StartUpload creates a row, and it leaves all other rows' parents alone.
LEMMA NoNewChains ==
    ASSUME IndInv, [Next]_vars, ~\E u \in Uploads : StartUpload(u)
    PROVE  /\ UNCHANGED base
           /\ \A v \in Uploads : Live(v)' \/ Committed(v)' => Live(v) \/ Committed(v)
<1> USE DEF IndInv, TypeOK, Live, LivePc, Committed
<1>1. ASSUME NEW u \in Uploads, Receive(u)
      PROVE  UNCHANGED base /\ \A v \in Uploads : Live(v)' \/ Committed(v)' => Live(v) \/ Committed(v)
  <2>1. CASE PutChunk(u) \/ AddVerifiedChunk(u) \/ UpdateUploadProgress(u)
    BY <2>1 DEF PutChunk, AddVerifiedChunk, UpdateUploadProgress
  <2>2. CASE \E c \in BOOLEAN : EndOfStream(u, c)
    BY <2>2 DEF EndOfStream
  <2>3. CASE PutManifest(u) \/ SetUploadManifestObjectKey(u) \/ CommitUpload(u)
    BY <2>3 DEF PutManifest, SetUploadManifestObjectKey, CommitUpload, UpdateStatus
  <2>4. CASE RejectUpload(u) \/ StepFails(u) \/ FailUpload(u) \/ FailureNotRecorded(u)
    BY <2>4 DEF RejectUpload, StepFails, FailUpload, FailureNotRecorded, UpdateStatus
  <2> QED BY <1>1, <2>1, <2>2, <2>3, <2>4 DEF Receive
<1>2. CASE Reconcile \/ ReconcileAborts
  BY <1>2 DEF Reconcile, ReconcileList, ReconcileFailSnapshot, ReconcileFailSession,
     ReconcileFailOperation, ReconcileDone, ReconcileAborts, UpdateStatus
<1>3. CASE Cleanup \/ \E u \in Uploads : CleanupObjectsFail(u)
  BY <1>3 DEF Cleanup, CleanupList, CleanupObjects, CleanupObjectsFail,
     CleanupSnapshotRow, CleanupDeleteSnapshot, CleanupRefused, CleanupDeleteSession
<1>4. CASE \/ \E u \in Uploads, n \in Names, b \in Uploads \cup {None} : Connect(u, n, b)
           \/ \E u \in Uploads : HeartbeatAges(u)
           \/ StartServing \/ Restart \/ Crash \/ UNCHANGED vars
  BY <1>4 DEF Connect, HeartbeatAges, StartServing, Restart, Crash
<1> QED BY <1>1, <1>2, <1>3, <1>4 DEF Next

\* StartUpload: the new chain is the base's and one more.
LEMMA StartKeepsChainsShort ==
    ASSUME IndInv, IndInv', ShortChains, NEW u \in Uploads, StartUpload(u)
    PROVE  ShortChains'
<1> SUFFICES ASSUME NEW v \in Uploads, Live(v)' \/ Committed(v)' PROVE ShortChains!(v)'
  BY DEF ShortChains
<1> USE ConstantsAssumption
<1>1. /\ base \in Parents /\ base' \in Parents
      /\ ~Live(u) /\ ~Committed(u)
      /\ \A w \in Uploads : w # u => base'[w] = base[w]
  BY DEF IndInv, TypeOK, StartUpload, NotStartedHasNoRows, Live, LivePc, Committed, Parents
<1>2. ASSUME NEW w \in Uploads, w # u, Live(w) \/ Committed(w)
      PROVE  ChainIn(base', w) = ChainIn(base, w) /\ u \notin ChainIn(base, w)
  <2>1. u \notin ChainIn(base, w)
    BY <1>1, <1>2, AncestorsCommitted, RestoreChainIn
  <2> QED BY <1>1, <2>1, ChainFrame, ChainIsClosed
<1>3. CASE v # u
  <2>1. Live(v) \/ Committed(v)
    BY <1>3 DEF StartUpload, IndInv, TypeOK, Live, LivePc, Committed
  <2> QED BY <1>2, <1>3, <2>1, RestoreChainIn DEF ShortChains, ChainDepth
<1>4. CASE v = u
  <2>1. PICK b \in BaseRow(u) : DepthAllowed(b) /\ base'[u] = b
    BY DEF StartUpload, IndInv, TypeOK
  <2>2. CASE b = None
    <3>1. ChainIn(base', u) = {u}
      BY <1>1, <2>1, <2>2, ChainUnfolds
    <3>2. IsFiniteSet({u}) /\ Cardinality({u}) = 1
      BY FS_Singleton
    <3> QED BY <1>4, <3>1, <3>2, RestoreChainIn DEF ChainDepth
  <2>3. CASE b # None
    <3>1. b \in Uploads /\ Committed(b) /\ b # u
      BY <1>1, <2>1, <2>3 DEF BaseRow, RowNamed, Committed
    <3>2. ChainIn(base', u) = {u} \cup ChainIn(base, b) /\ u \notin ChainIn(base, b)
      BY <1>1, <1>2, <2>1, <2>3, <3>1, ChainUnfolds
    <3>3. IsFiniteSet(ChainIn(base, b))
      BY <3>1, RestoreChainIn DEF ShortChains
    <3>4. /\ IsFiniteSet(ChainIn(base', u))
          /\ Cardinality(ChainIn(base', u)) = Cardinality(ChainIn(base, b)) + 1
      BY <3>2, <3>3, FS_AddElement
    <3> QED BY <1>4, <2>1, <2>3, <3>4, RestoreChainIn DEF DepthAllowed, ChainDepth
  <2> QED BY <2>2, <2>3
<1> QED BY <1>3, <1>4

\* No restore chain grows past the setting: the depth StartUpload computes from
\* the base is the depth the chain has when it is committed, and later.
THEOREM ChainsStayShort ==
    ASSUME ~SlowChunks
    PROVE  Spec => []ChainDepthBounded
<1>1. Init => ShortChains
  BY DEF Init, ShortChains, Live, LivePc, Committed
<1>2. IndInv /\ IndInv' /\ ShortChains /\ [Next]_vars => ShortChains'
  <2> SUFFICES ASSUME IndInv, IndInv', ShortChains, [Next]_vars,
                      ~\E u \in Uploads : StartUpload(u)
               PROVE  ShortChains'
    BY StartKeepsChainsShort
  <2>1. UNCHANGED base
    BY NoNewChains
  <2>2. \A v \in Uploads : RestoreChain(v)' = RestoreChain(v)
    BY <2>1 DEF RestoreChain
  <2>3. \A v \in Uploads : Live(v)' \/ Committed(v)' => Live(v) \/ Committed(v)
    BY NoNewChains
  <2> QED BY <2>2, <2>3 DEF ShortChains, ChainDepth
<1>3. ShortChains => ChainDepthBounded
  BY DEF ShortChains, ChainDepthBounded
<1> QED BY <1>1, <1>2, <1>3, IndInvAlways, PTL DEF Spec

(***************************************************************************)
(* The manifest object needs one assumption more: the startup cleanup      *)
(* deletes the object a failed session's manifest_object_key names, even   *)
(* when a committed retry of the same name has written it again.           *)
(***************************************************************************)

\* No step but a cleanup step touches the manifest of a committed snapshot.
LEMMA ManifestInductive ==
    ASSUME ~SlowChunks, ~CleanupEnabled
    PROVE  IndInv /\ CommittedManifestIntact /\ [Next]_vars => CommittedManifestIntact'
<1> SUFFICES ASSUME IndInv, CommittedManifestIntact, [Next]_vars
             PROVE  CommittedManifestIntact'
  OBVIOUS
<1> USE DEF CommittedManifestIntact, Committed
<1>1. ASSUME UNCHANGED <<name, manifestObj>>, \A v \in Uploads : Committed(v)' => Committed(v)
      PROVE  CommittedManifestIntact'
  BY <1>1
<1>2. ASSUME NEW u \in Uploads, Receive(u) PROVE CommittedManifestIntact'
  <2> USE DEF IndInv, TypeOK
  <2>1. CASE StartUpload(u)
    BY <1>1, <2>1 DEF StartUpload
  <2>2. CASE PutManifest(u)
    <3>1. \A v \in Uploads : Committed(v) => name[v] # name[u] /\ name[v] \in Names
      BY <2>2 DEF PutManifest, LiveOwnsRows, Live, LivePc, UniqueNames, RowsNeedSnapshot
    <3> QED BY <2>2, <3>1 DEF PutManifest
  <2>3. CASE CommitUpload(u)
    <3>1. manifestObj[name[u]] = u
      BY <2>3 DEF CommitUpload, LiveProgress, Live, LivePc
    <3> QED BY <2>3, <3>1 DEF CommitUpload, UpdateStatus
  <2>4. CASE FailUpload(u)
    BY <1>1, <2>4 DEF FailUpload, UpdateStatus
  <2> QED
    BY <1>1, <1>2, <2>1, <2>2, <2>3, <2>4
    DEF Receive, RejectUpload, PutChunk, AddVerifiedChunk, UpdateUploadProgress,
        EndOfStream, SetUploadManifestObjectKey, StepFails, FailureNotRecorded
<1>3. ASSUME NEW u \in Uploads, NEW n \in Names, NEW b \in Uploads \cup {None},
             Connect(u, n, b)
      PROVE  CommittedManifestIntact'
  <2>1. ~Committed(u)
    BY <1>3 DEF Connect, IndInv, NotStartedHasNoRows
  <2> QED BY <1>3, <2>1 DEF Connect, IndInv, TypeOK
<1>4. CASE Reconcile \/ ReconcileAborts
  BY <1>1, <1>4 DEF Reconcile, ReconcileList, ReconcileFailSnapshot, ReconcileFailSession,
     ReconcileFailOperation, ReconcileDone, ReconcileAborts, UpdateStatus, IndInv, TypeOK
<1>5. ~Cleanup /\ ~(\E u \in Uploads : CleanupObjectsFail(u))
  BY DEF IndInv, MaintenanceOnDead, Cleanup, CleanupList, CleanupObjects,
     CleanupObjectsFail, CleanupSnapshotRow, CleanupDeleteSession
<1>6. CASE \/ \E u \in Uploads : HeartbeatAges(u)
           \/ StartServing \/ Restart \/ Crash \/ UNCHANGED vars
  BY <1>1, <1>6 DEF HeartbeatAges, StartServing, Restart, Crash
<1> QED
  BY <1>2, <1>3, <1>4, <1>5, <1>6 DEF Next

\* With ABANDONED_UPLOAD_CLEANUP_AFTER at 0 and no live upload taken for stale,
\* a committed snapshot keeps the manifest its own Receive wrote.
THEOREM ManifestStaysIntact ==
    ASSUME ~SlowChunks, ~CleanupEnabled
    PROVE  Spec => []CommittedManifestIntact
<1>1. Init => CommittedManifestIntact
  BY DEF Init, CommittedManifestIntact, Committed
<1> QED BY <1>1, ManifestInductive, IndInvAlways, PTL DEF Spec

(***************************************************************************)
(* The catalog's own bookkeeping, with no assumption on how long a chunk   *)
(* takes.                                                                  *)
(***************************************************************************)

\* A step of Receive keeps the rows of every snapshot those of its chunks.
LEMMA ReceiveKeepsRows ==
    ASSUME RowsInv, TypeOK', NEW u \in Uploads, Receive(u)
    PROVE  RowsInv'
<1> USE ConstantsAssumption
    DEF RowsInv, TypeOK, PhasesApart, UniqueNames, RowsFollowChunks, SnapshotDeletedFirst,
        Live, LivePc, ChunkIds
<1>1. CASE StartUpload(u)
  <2> USE <1>1 DEF StartUpload, RowNamed
  <2>1. rows'[u] = {} /\ idx'[u] = 0 /\ pc'[u] = "chunk"
    OBVIOUS
  <2>2. \A v \in Uploads : v # u => /\ pc'[v] = pc[v] /\ idx'[v] = idx[v]
                                    /\ \/ snap'[v] = snap[v] /\ rows'[v] = rows[v]
                                       \/ snap'[v] = "none" /\ rows'[v] = {}
    OBVIOUS
  <2>3. PhasesApart' /\ UniqueNames' /\ SnapshotDeletedFirst'
    OBVIOUS
  <2>4. name'[u] \in Names
    OBVIOUS
  <2>5. RowsFollowChunks'
    <3> SUFFICES ASSUME NEW v \in Uploads PROVE RowsFollowChunks!(v)'
      OBVIOUS
    <3>1. CASE v = u
      BY <2>1, <2>4, <3>1
    <3>2. CASE v # u
      BY <2>2, <3>2
    <3> QED BY <3>1, <3>2
  <2> QED BY <2>3, <2>5
<1>2. CASE RejectUpload(u)
  BY <1>2 DEF RejectUpload
<1>3. CASE PutChunk(u)
  BY <1>3 DEF PutChunk
<1>4. CASE AddVerifiedChunk(u)
  <2> USE <1>4 DEF AddVerifiedChunk
  <2>1. rows'[u] = rows[u] \cup {idx[u]} /\ idx'[u] = idx[u] + 1 /\ idx[u] \in Nat
    OBVIOUS
  <2>2. rows'[u] = 0 .. idx'[u] - 1
    BY <2>1
  <2>3. \A v \in Uploads : v # u => rows'[v] = rows[v] /\ idx'[v] = idx[v] /\ pc'[v] = pc[v]
    OBVIOUS
  <2>4. RowsFollowChunks'
    <3> SUFFICES ASSUME NEW v \in Uploads PROVE RowsFollowChunks!(v)'
      OBVIOUS
    <3>1. CASE v = u
      BY <2>2, <3>1
    <3>2. CASE v # u
      BY <2>3, <3>2
    <3> QED BY <3>1, <3>2
  <2> QED BY <2>4
<1>5. CASE UpdateUploadProgress(u)
  BY <1>5 DEF UpdateUploadProgress, UpdateStatus
<1>6. ASSUME NEW c \in BOOLEAN, EndOfStream(u, c) PROVE RowsInv'
  BY <1>6 DEF EndOfStream, UpdateStatus
<1>7. CASE PutManifest(u)
  BY <1>7 DEF PutManifest
<1>8. CASE SetUploadManifestObjectKey(u)
  BY <1>8 DEF SetUploadManifestObjectKey, UpdateStatus
<1>9. CASE CommitUpload(u)
  BY <1>9 DEF CommitUpload, UpdateStatus
<1>10. CASE StepFails(u)
  BY <1>10 DEF StepFails
<1>11. CASE FailUpload(u)
  BY <1>11 DEF FailUpload, UpdateStatus
<1>12. CASE FailureNotRecorded(u)
  BY <1>12 DEF FailureNotRecorded
<1> QED
  BY <1>1, <1>2, <1>3, <1>4, <1>5, <1>6, <1>7, <1>8, <1>9, <1>10, <1>11, <1>12
     DEF Receive

\* So does every other step: rows are deleted only with their snapshot row.
LEMMA RowsInductive == RowsInv /\ [Next]_vars /\ TypeOK' => RowsInv'
<1> SUFFICES ASSUME RowsInv, [Next]_vars, TypeOK' PROVE RowsInv'
  OBVIOUS
<1> USE ConstantsAssumption
    DEF RowsInv, TypeOK, PhasesApart, UniqueNames, RowsFollowChunks, SnapshotDeletedFirst,
        Live, LivePc, ChunkIds
<1>1. ASSUME NEW u \in Uploads, NEW n \in Names, NEW b \in Uploads \cup {None}, Connect(u, n, b) PROVE RowsInv'
  BY <1>1 DEF Connect
<1>2. ASSUME NEW u \in Uploads, HeartbeatAges(u) PROVE RowsInv'
  BY <1>2 DEF HeartbeatAges
<1>3. CASE Reconcile \/ ReconcileAborts
  <2>1. ASSUME NEW u \in Uploads, ReconcileFailSnapshot(u) PROVE RowsInv'
    BY <2>1 DEF ReconcileFailSnapshot, UpdateStatus
  <2>2. CASE ReconcileList \/ ReconcileFailOperation
    BY <2>2 DEF ReconcileList, ReconcileFailOperation
  <2>3. CASE ReconcileFailSession
    BY <2>3 DEF ReconcileFailSession, UpdateStatus
  <2>4. CASE ReconcileDone \/ ReconcileAborts
    BY <2>4 DEF ReconcileDone, ReconcileAborts
  <2> QED BY <1>3, <2>1, <2>2, <2>3, <2>4 DEF Reconcile
<1>4. CASE CleanupList
  BY <1>4 DEF CleanupList
<1>5. ASSUME NEW u \in Uploads, CleanupObjects(u) PROVE RowsInv'
  BY <1>5 DEF CleanupObjects
<1>6. ASSUME NEW u \in Uploads, CleanupObjectsFail(u) PROVE RowsInv'
  BY <1>6 DEF CleanupObjectsFail
<1>7. CASE cleanStep = "snapshot" /\ CleanupDeleteSnapshot
  BY <1>7 DEF CleanupDeleteSnapshot
<1>8. CASE cleanStep = "snapshot" /\ CleanupRefused
  BY <1>8 DEF CleanupRefused
<1>9. CASE CleanupDeleteSession
  BY <1>9 DEF CleanupDeleteSession
<1>10. CASE StartServing
  BY <1>10 DEF StartServing
<1>11. CASE Restart
  BY <1>11 DEF Restart
<1>12. CASE Crash
  BY <1>12 DEF Crash
<1>13. CASE UNCHANGED vars
  BY <1>13
<1> HIDE DEF RowsInv, TypeOK
<1> QED
  BY <1>1, <1>2, <1>3, <1>4, <1>5, <1>6, <1>7, <1>8, <1>9, <1>10, <1>11, <1>12, <1>13,
     ReceiveKeepsRows DEF Next, Cleanup, CleanupSnapshotRow

LEMMA RowsInitially == Init => RowsInv
<1>1. Init => TypeOK
  BY TypeInitially DEF TypeInv
<1> QED
  BY <1>1, ConstantsAssumption DEF Init, RowsInv, PhasesApart, UniqueNames,
     RowsFollowChunks, SnapshotDeletedFirst, Live, LivePc

LEMMA RowsImplyComplete == RowsInv => CommittedRowsComplete
BY DEF RowsInv, RowsFollowChunks, UniqueNames, CommittedRowsComplete, Committed, RowNamed

\* Whatever the reconciler, a retry or the cleanup did to the rows while the
\* upload ran, CommitUpload commits a snapshot with one row for each chunk
\* stored, and the snapshot is the only one of its name.
THEOREM CommitsAreComplete == Spec => []CommittedRowsComplete
BY RowsInitially, RowsImplyComplete, RowsInductive, TypeCorrect, PTL DEF Spec

=============================================================================
