------------------------------ MODULE Deletion ------------------------------
(***************************************************************************)
(* Deletion of snapshots and of the dataset, beside the uploads of Ingest: *)
(* the web handlers that queue a cleanup operation, and the cleanup worker *)
(* that works the queue off, one statement or object at a time.            *)
(*                                                                         *)
(* operations.snapshot_id and operations.dataset_id are ON DELETE SET      *)
(* NULL.  Ids are never reused, so a reference reads as NULL exactly when  *)
(* its row is gone: an operation keeps here what it was created with, and  *)
(* SnapshotRef and DatasetRef say what a SELECT returns.                   *)
(***************************************************************************)
EXTENDS Restore

CONSTANTS
    MaxDeletes,     \* bound: deletion requests
    QuietDeletes    \* are deletions requested, and worked off, only while no
                    \* upload runs and nothing unfinished hangs off the target?

ASSUME DeletionAssumption == MaxDeletes \in Nat /\ QuietDeletes \in BOOLEAN

VARIABLES
    del,          \* the cleanup operations
    generation,   \* the id of the dataset row; a new one after each deletion
    wStep,        \* where the worker is
    wTodo,        \* what RunOnce listed and has not taken yet
    wCur,         \* the operation in hand, with the references as listed
    wChunks, wManifests   \* the object keys still to delete

worker  == <<wStep, wTodo, wCur, wChunks, wManifests>>
delVars == <<del, generation, worker>>
allVars == <<vars, delVars>>

DelOps == 1 .. MaxDeletes
Listed == [op : DelOps, snap : Uploads \cup {None}, gen : 0 .. MaxDeletes + 1]
NoOp   == [op |-> 0, snap |-> None, gen |-> 0]

\* One type for the module.
DeletionTypeOK ==
    /\ del \in [DelOps -> [status : {"none", "queued", "running", "succeeded", "failed"},
                           snap : Uploads \cup {None}, gen : 0 .. MaxDeletes + 1]]
    /\ generation \in 1 .. MaxDeletes + 1
    /\ wStep \in {"idle", "next", "count", "keys", "invalidate", "objects", "fail"}
    /\ wTodo \in SUBSET Listed
    /\ wCur \in Listed \cup {NoOp}
    /\ wChunks \in SUBSET (Names \X ChunkIds)
    /\ wManifests \in SUBSET Names

DeletionInit ==
    /\ Init
    /\ del = [d \in DelOps |-> [status |-> "none", snap |-> None, gen |-> 0]]
    /\ generation = 1
    /\ wStep = "idle" /\ wTodo = {} /\ wCur = NoOp
    /\ wChunks = {} /\ wManifests = {}

\* Mutant of Pending: an operation a crash left running is not listed again.
PendingQueuedOnly == {d \in DelOps : del[d].status = "queued"}

\* ListPendingCleanupOperations.
Pending == {d \in DelOps : del[d].status \in {"queued", "running"}}

SnapshotRef(d) ==
    IF del[d].snap # None /\ snap[del[d].snap] # "none" THEN del[d].snap ELSE None

DatasetRef(d) == IF del[d].gen = generation THEN generation ELSE 0

-----------------------------------------------------------------------------
(* The web handlers.                                                       *)

\* Mutant of HasCommittedDescendants: the count compares the wrong column.
HasNoDescendants(u) == FALSE

\* CountCommittedDescendants > 0 exactly when there is a committed child.
HasCommittedDescendants(u) == \E v \in Uploads : base[v] = u /\ Committed(v)

\* The discipline QuietDeletes stands for: no upload runs, and no failed or
\* unfinished one has u as its base.
NoUploadRuns == \A u \in Uploads : ~Live(u) /\ pc[u] # "start"
NothingUnfinishedOn(u) ==
    \A v \in Uploads : base[v] = u /\ ~Committed(v) => snap[v] = "none" /\ sess[v] = "none"

Queue(d, u) ==
    /\ server = "up"
    /\ d = Cardinality({e \in DelOps : del[e].status # "none"}) + 1
    /\ QuietDeletes => NoUploadRuns /\ Pending = {}
    /\ del' = [del EXCEPT ![d] = [status |-> "queued", snap |-> u, gen |-> generation]]
    /\ UNCHANGED <<vars, generation, worker>>

\* queueSnapshotDeletion: the status of the snapshot is not looked at.  (The
\* count may be stale when the row is inserted; the worker counts again.)
QueueSnapshotDeletion(d, u) ==
    /\ snap[u] # "none"
    /\ ~HasCommittedDescendants(u)
    /\ QuietDeletes => Committed(u) /\ NothingUnfinishedOn(u)
    /\ Queue(d, u)

\* queueDatasetDeletion: the dataset exists (and holds something).
QueueDatasetDeletion(d) ==
    /\ \E u \in Uploads : snap[u] # "none" \/ sess[u] # "none"
    /\ Queue(d, None)

-----------------------------------------------------------------------------
(* The worker: at startup and at every tick.                               *)

WorkerList ==
    /\ server = "up"
    /\ wStep = "idle" /\ Pending # {}
    /\ wTodo' = {[op |-> d, snap |-> SnapshotRef(d), gen |-> DatasetRef(d)] : d \in Pending}
    /\ wStep' = "next"
    /\ UNCHANGED <<vars, del, generation, wCur, wChunks, wManifests>>

WorkerListDone ==
    /\ wStep = "next" /\ wTodo = {}
    /\ wStep' = "idle"
    /\ UNCHANGED <<vars, del, generation, wTodo, wCur, wChunks, wManifests>>

\* runOperation: MarkOperationRunning, then the switch on the references the
\* listing returned.
RunOperation(r) ==
    /\ wStep = "next"
    /\ r \in wTodo /\ \A q \in wTodo : r.op <= q.op
    /\ del' = [del EXCEPT ![r.op].status = "running"]
    /\ wTodo' = wTodo \ {r}
    /\ wCur' = r
    /\ wStep' = IF r.snap # None THEN "count"
                ELSE IF r.gen # 0 THEN "keys" ELSE "fail"
    /\ UNCHANGED <<vars, generation, wChunks, wManifests>>

CountDescendants ==
    /\ wStep = "count"
    /\ wStep' = IF HasCommittedDescendants(wCur.snap) THEN "fail" ELSE "keys"
    /\ UNCHANGED <<vars, del, generation, wTodo, wCur, wChunks, wManifests>>

\* Mutant of Targets: a snapshot request falls through to its dataset.
TargetsWholeDataset == {u \in Uploads : snap[u] # "none" /\ wCur.gen = generation}

\* The snapshot rows the operation in hand is about.
Targets ==
    {u \in Uploads : snap[u] # "none"
                     /\ IF wCur.snap # None THEN u = wCur.snap ELSE wCur.gen = generation}

\* Mutant of ListObjectKeys: the UNION with the manifest keys is missing.
ListChunkKeysOnly ==
    /\ wStep = "keys"
    /\ wChunks' = {k \in Names \X ChunkIds :
                      \E u \in Targets : name[u] = k[1] /\ k[2] \in rows[u]}
    /\ wStep' = "invalidate"
    /\ UNCHANGED <<vars, del, generation, wTodo, wCur, wManifests>>

\* ListSnapshotObjectKeys / ListDatasetObjectKeys: the chunk rows, and the
\* manifest_object_key that only CommitSnapshot puts into a snapshot row.
ListObjectKeys ==
    /\ wStep = "keys"
    /\ wChunks' = {k \in Names \X ChunkIds :
                      \E u \in Targets : name[u] = k[1] /\ k[2] \in rows[u]}
    /\ wManifests' = {n \in Names : \E u \in Targets : name[u] = n /\ pc[u] = "ok"}
    /\ wStep' = "invalidate"
    /\ UNCHANGED <<vars, del, generation, wTodo, wCur>>

\* Mutant of InvalidateForDeletion: the objects go first.
InvalidateSkipped ==
    /\ wStep = "invalidate"
    /\ wStep' = "objects"
    /\ UNCHANGED <<vars, del, generation, wTodo, wCur, wChunks, wManifests>>

\* InvalidateSnapshotForDeletion / InvalidateDatasetSnapshotsForDeletion.
InvalidateForDeletion ==
    /\ wStep = "invalidate"
    /\ snap' = [u \in Uploads |-> IF u \in Targets THEN "deleting" ELSE snap[u]]
    /\ wStep' = "objects"
    /\ UNCHANGED <<thread, base, rows, sess, keySet, fresh, oper, bucket, server,
                   recon, cleaner, faults, del, generation, wTodo, wCur, wChunks, wManifests>>

DeleteChunkObject(n, i) ==
    /\ wStep = "objects" /\ <<n, i>> \in wChunks
    /\ chunkObj' = [chunkObj EXCEPT ![n][i] = None]
    /\ wChunks' = wChunks \ {<<n, i>>}
    /\ UNCHANGED <<thread, catalog, manifestObj, server, recon, cleaner, faults,
                   del, generation, wStep, wTodo, wCur, wManifests>>

DeleteManifestObject(n) ==
    /\ wStep = "objects" /\ n \in wManifests
    /\ manifestObj' = [manifestObj EXCEPT ![n] = None]
    /\ wManifests' = wManifests \ {n}
    /\ UNCHANGED <<thread, catalog, chunkObj, server, recon, cleaner, faults,
                   del, generation, wStep, wTodo, wCur, wChunks>>

AllObjectsDeleted == wStep = "objects" /\ wChunks = {} /\ wManifests = {}

\* The three statements that end an operation, in one transaction.  Sessions
\* and chunk rows go with their snapshot (or with the dataset: CASCADE).
DeleteRows ==
    /\ AllObjectsDeleted
    /\ wCur.snap # None => snap[wCur.snap] = "none" \/ Unreferenced(wCur.snap)
    /\ LET whole == wCur.snap = None /\ wCur.gen = generation
           gone  == IF whole THEN Uploads ELSE Targets
       IN  /\ snap' = [u \in Uploads |-> IF u \in gone THEN "none" ELSE snap[u]]
           /\ sess' = [u \in Uploads |-> IF u \in gone THEN "none" ELSE sess[u]]
           /\ rows' = [u \in Uploads |-> IF u \in gone THEN {} ELSE rows[u]]
           /\ generation' = IF whole THEN generation + 1 ELSE generation
    /\ del' = [del EXCEPT ![wCur.op].status = "succeeded"]
    /\ wCur' = NoOp
    /\ wStep' = "next"
    /\ UNCHANGED <<thread, base, keySet, fresh, oper, bucket, server, recon, cleaner,
                   faults, wTodo, wChunks, wManifests>>

\* A foreign key holds the snapshot row: the transaction rolls back.
DeleteRowsRefused ==
    /\ AllObjectsDeleted
    /\ wCur.snap # None /\ snap[wCur.snap] # "none" /\ ~Unreferenced(wCur.snap)
    /\ wStep' = "fail"
    /\ UNCHANGED <<vars, del, generation, wTodo, wCur, wChunks, wManifests>>

\* A statement or an object DELETE of the operation in hand fails.
WorkerStepFails ==
    /\ wStep \in {"count", "keys", "invalidate", "objects"}
    /\ faults < MaxFaults
    /\ faults' = faults + 1
    /\ wStep' = "fail"
    /\ UNCHANGED <<thread, catalog, bucket, server, recon, cleaner,
                   del, generation, wTodo, wCur, wChunks, wManifests>>

\* Mutant of FailOperation: a status the CHECK of operations refuses.
FailOperationWrongStatus ==
    /\ wStep = "fail"
    /\ del' = [del EXCEPT ![wCur.op].status = "aborted"]
    /\ wCur' = NoOp /\ wChunks' = {} /\ wManifests' = {}
    /\ wStep' = "next"
    /\ UNCHANGED <<vars, generation, wTodo>>

\* The operation is marked failed; nothing looks at it again.
FailOperation ==
    /\ wStep = "fail"
    /\ del' = [del EXCEPT ![wCur.op].status = "failed"]
    /\ wCur' = NoOp /\ wChunks' = {} /\ wManifests' = {}
    /\ wStep' = "next"
    /\ UNCHANGED <<vars, generation, wTodo>>

\* MarkOperationRunning fails, or so does the statement that marks the
\* operation failed: it stays as it was and the next tick lists it again.
OperationLeftPending ==
    /\ wStep \in {"next", "fail"}
    /\ faults < MaxFaults
    /\ faults' = faults + 1
    /\ IF wStep = "fail" THEN UNCHANGED wTodo
       ELSE \E r \in wTodo : /\ \A q \in wTodo : r.op <= q.op
                             /\ wTodo' = wTodo \ {r}
    /\ wCur' = NoOp /\ wChunks' = {} /\ wManifests' = {}
    /\ wStep' = "next"
    /\ UNCHANGED <<thread, catalog, bucket, server, recon, cleaner, del, generation>>

-----------------------------------------------------------------------------

Work ==
    \/ WorkerList \/ WorkerListDone
    \/ \E r \in wTodo : RunOperation(r)
    \/ CountDescendants \/ ListObjectKeys \/ InvalidateForDeletion
    \/ \E n \in Names, i \in ChunkIds : DeleteChunkObject(n, i)
    \/ \E n \in Names : DeleteManifestObject(n)
    \/ DeleteRows \/ DeleteRowsRefused \/ FailOperation

\* The crash takes the worker with it; the queue is in the catalog.
CrashWithWorker ==
    /\ Crash
    /\ wStep' = "idle" /\ wTodo' = {} /\ wCur' = NoOp
    /\ wChunks' = {} /\ wManifests' = {}
    /\ UNCHANGED <<del, generation>>

ConnectBesideDeletes(u, n, b) ==
    /\ QuietDeletes => Pending = {}
    /\ Connect(u, n, b)

IngestStep ==
    \/ \E u \in Uploads, n \in Names, b \in Uploads \cup {None} :
          ConnectBesideDeletes(u, n, b)
    \/ \E u \in Uploads : Receive(u)
    \/ \E u \in Uploads : HeartbeatAges(u)
    \/ Reconcile \/ ReconcileAborts
    \/ Cleanup \/ \E u \in Uploads : CleanupObjectsFail(u)
    \/ StartServing \/ Restart

DeletionNext ==
    \/ IngestStep /\ UNCHANGED delVars
    \/ CrashWithWorker
    \/ \E d \in DelOps, u \in Uploads : QueueSnapshotDeletion(d, u)
    \/ \E d \in DelOps : QueueDatasetDeletion(d)
    \/ Work \/ WorkerStepFails \/ OperationLeftPending

DeletionSpec == DeletionInit /\ [][DeletionNext]_allVars

\* As in Ingest, and the worker's ticker keeps ticking.
DeletionFairSpec ==
    /\ DeletionSpec
    /\ WF_allVars(Restart /\ UNCHANGED delVars)
    /\ WF_allVars(StartServing /\ UNCHANGED delVars)
    /\ WF_allVars(Reconcile /\ UNCHANGED delVars)
    /\ WF_allVars(Cleanup /\ UNCHANGED delVars)
    /\ WF_allVars(Work)

-----------------------------------------------------------------------------
(* Properties.                                                             *)

\* Somebody asked for u, or for the whole dataset, to be deleted.
Requested(u) == \E d \in Pending : del[d].snap \in {u, None}

\* A committed snapshot stops being one only on a request that names it.
OnlyRequestedDeleted ==
    [][\A u \in Uploads : Committed(u) /\ snap'[u] # "committed" => Requested(u)]_allVars

\* A snapshot deletion that reports success has left no object of it behind.
DeletedLeavesNoObjects ==
    \A d \in DelOps : del[d].status = "succeeded" /\ del[d].snap # None =>
        \A n \in Names : manifestObj[n] # del[d].snap
                         /\ \A i \in ChunkIds : chunkObj[n][i] # del[d].snap

\* The names that pending requests take in.
RequestedNames == {n \in Names : \E d \in Pending : del[d].snap = None \/ name[del[d].snap] = n}

Promise == INSTANCE BackupStore
               WITH restorable <- [n \in Names |-> RestorableAs(n)],
                    acked <- {u \in Uploads : pc[u] = "ok"},
                    requested <- RequestedNames

\* Ingest and the worker implement BackupStore: the catalog commit makes a
\* whole chain restorable at the moment "ok" is decided; no upload, failure,
\* reconciliation or restart takes it away or changes it; only a snapshot that
\* a pending request takes in goes, and it stops being restorable in one step,
\* before its first object is deleted.
KeepsPromiseUntilRemoved == Promise!Spec

\* Every queued deletion is settled, across crashes and restarts.
DeletionsSettle ==
    \A d \in DelOps :
        del[d].status = "queued" ~> del[d].status \in {"succeeded", "failed"}

=============================================================================
