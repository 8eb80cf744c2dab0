------------------------------- MODULE Ingest -------------------------------
(***************************************************************************)
(* The upload path of zfs-s3nd: the SSH session that receives a zfs send   *)
(* stream, the SQLite catalog, the bucket, the stale-upload reconciler,    *)
(* the startup cleanup of abandoned uploads, and server crashes.           *)
(*                                                                         *)
(* One dataset is modelled.  An attempt u stands for one run of            *)
(* Service.Receive and for the three catalog rows StartUpload creates for  *)
(* it (snapshot, upload session, operation), whose ids are fresh and are   *)
(* never reused.  Object keys are built from the snapshot NAME and a chunk *)
(* index, so attempts at one name share their keys.  The content of an     *)
(* object is the attempt whose stream it holds.                            *)
(*                                                                         *)
(* SQLite runs on one connection: a statement, or a withTx body, is one    *)
(* atomic step, and everything else interleaves.                           *)
(***************************************************************************)
EXTENDS Integers, FiniteSets

CONSTANTS
    Uploads,                   \* upload attempts
    Names,                     \* snapshot names of the dataset
    None,                      \* SQL NULL, an absent object
    MaxChunks,                 \* bound: chunks in one stream
    MaxIncrementalChainDepth,  \* the setting; 0 switches the check off
    SlowChunks,                \* may a chunk or the manifest take
                               \* RECONCILE_STALE_AFTER to read and store?
    CutStreams,                \* may the sender die with a clean EOF?
    CleanupEnabled,            \* ABANDONED_UPLOAD_CLEANUP_AFTER > 0
    MaxFaults                  \* bound: crashes and aborted maintenance runs

ASSUME ConstantsAssumption ==
    /\ None \notin Uploads /\ None \notin Names
    /\ MaxChunks \in Nat \ {0}
    /\ MaxIncrementalChainDepth \in Nat
    /\ SlowChunks \in BOOLEAN /\ CutStreams \in BOOLEAN
    /\ CleanupEnabled \in BOOLEAN
    /\ MaxFaults \in Nat

VARIABLES
    \* the goroutine that serves an attempt
    pc,           \* where Receive is
    name,         \* Request.Snapshot
    from,         \* the snapshot whose GUID the stream names as its origin
    idx,          \* len(chunks)
    cut,          \* the EOF that ended the stream was not its real end
    \* the catalog
    snap,         \* snapshots.status, "none" when there is no row
    base,         \* snapshots.parent_snapshot_id, upload_sessions.base_snapshot_id
    rows,         \* snapshot_chunks.chunk_index
    sess,         \* upload_sessions.status, its working states as "active"
    keySet,       \* upload_sessions.manifest_object_key is set
    fresh,        \* last_heartbeat_at is within RECONCILE_STALE_AFTER
    oper,         \* operations.status of the upload's operation
    \* the bucket
    chunkObj,     \* chunk objects, by name and index
    manifestObj,  \* manifest objects, by name
    \* the server process and its maintenance passes
    server, recStep, recCur, recTodo, cleanStep, cleanCur, cleanTodo, faults

thread  == <<pc, name, from, idx, cut>>
catalog == <<snap, base, rows, sess, keySet, fresh, oper>>
bucket  == <<chunkObj, manifestObj>>
recon   == <<recStep, recCur, recTodo>>
cleaner == <<cleanStep, cleanCur, cleanTodo>>
vars    == <<thread, catalog, bucket, server, recon, cleaner, faults>>

ChunkIds == 0 .. MaxChunks - 1

\* Receive has rows in the catalog and has not returned.
LivePc == {"chunk", "record", "progress", "manifest", "setkey", "commit", "fail"}
Live(u) == pc[u] \in LivePc

\* One type for the module.
TypeOK ==
    /\ pc \in [Uploads -> LivePc \cup {"idle", "start", "ok", "error", "crashed"}]
    /\ name \in [Uploads -> Names \cup {None}]
    /\ from \in [Uploads -> Uploads \cup {None}]
    /\ idx \in [Uploads -> 0 .. MaxChunks]
    /\ cut \in [Uploads -> BOOLEAN]
    /\ snap \in [Uploads -> {"none", "uploading", "committed", "failed", "deleting"}]
    /\ base \in [Uploads -> Uploads \cup {None}]
    /\ rows \in [Uploads -> SUBSET ChunkIds]
    /\ sess \in [Uploads -> {"none", "active", "complete", "failed"}]
    /\ keySet \in [Uploads -> BOOLEAN]
    /\ fresh \in [Uploads -> BOOLEAN]
    /\ oper \in [Uploads -> {"none", "running", "succeeded", "failed"}]
    /\ chunkObj \in [Names -> [ChunkIds -> Uploads \cup {None}]]
    /\ manifestObj \in [Names -> Uploads \cup {None}]
    /\ server \in {"down", "reconciling", "cleaning", "up"}
    /\ recStep \in {"idle", "next", "session", "operation"}
    /\ recCur \in Uploads \cup {None}
    /\ recTodo \in SUBSET Uploads
    /\ cleanStep \in {"idle", "next", "snapshot", "session"}
    /\ cleanCur \in Uploads \cup {None}
    /\ cleanTodo \in SUBSET Uploads
    /\ faults \in 0 .. MaxFaults

Init ==
    /\ pc = [u \in Uploads |-> "idle"]
    /\ name = [u \in Uploads |-> None]
    /\ from = [u \in Uploads |-> None]
    /\ idx = [u \in Uploads |-> 0]
    /\ cut = [u \in Uploads |-> FALSE]
    /\ snap = [u \in Uploads |-> "none"]
    /\ base = [u \in Uploads |-> None]
    /\ rows = [u \in Uploads |-> {}]
    /\ sess = [u \in Uploads |-> "none"]
    /\ keySet = [u \in Uploads |-> FALSE]
    /\ fresh = [u \in Uploads |-> FALSE]
    /\ oper = [u \in Uploads |-> "none"]
    /\ chunkObj = [n \in Names |-> [i \in ChunkIds |-> None]]
    /\ manifestObj = [n \in Names |-> None]
    /\ server = "down"
    /\ recStep = "idle" /\ recCur = None /\ recTodo = {}
    /\ cleanStep = "idle" /\ cleanCur = None /\ cleanTodo = {}
    /\ faults = 0

-----------------------------------------------------------------------------
(* The catalog's statements and constraints.                               *)

\* An UPDATE by id changes the row if it is there, and is no error if not.
UpdateStatus(col, u, s) == [col EXCEPT ![u] = IF @ = "none" THEN "none" ELSE s]

\* No foreign key of another row holds p: NO ACTION on parent_snapshot_id
\* and on base_snapshot_id refuses a DELETE otherwise.
Unreferenced(p) ==
    \A v \in Uploads : base[v] = p => snap[v] = "none" /\ sess[v] = "none"

\* ListSnapshotRestoreChain: the row and all its ancestors, the least set that
\* holds the row and with a row its parent.
RestoreChain(u) ==
    {t \in Uploads :
        \A C \in SUBSET Uploads :
            u \in C /\ (\A c \in C : base[c] # None => base[c] \in C) => t \in C}

ChainDepth(u) == Cardinality(RestoreChain(u))

\* The snapshot row GetSnapshotByName finds, as a set of at most one row.
RowNamed(n) == {e \in Uploads : snap[e] # "none" /\ name[e] = n}

-----------------------------------------------------------------------------
(* The SSH session and Service.Receive.                                    *)

\* runAutoReceive has read the BEGIN record of a stream of snapshot n.  For
\* an incremental one it has found a committed snapshot with the from-GUID;
\* only that snapshot's name goes on to Receive.
Connect(u, n, b) ==
    /\ server = "up"
    /\ pc[u] = "idle"
    /\ b # None => snap[b] = "committed"
    /\ pc' = [pc EXCEPT ![u] = "start"]
    /\ name' = [name EXCEPT ![u] = n]
    /\ from' = [from EXCEPT ![u] = b]
    /\ UNCHANGED <<idx, cut, catalog, bucket, server, recon, cleaner, faults>>

\* The base row StartUpload resolves, by name, for an incremental stream.
BaseRow(u) ==
    IF from[u] = None THEN {None}
    ELSE {b \in RowNamed(name[from[u]]) : snap[b] = "committed"}

\* Mutant of DepthAllowed: the base's depth is compared, not the new one's.
DepthAllowedOffByOne(b) ==
    b # None /\ MaxIncrementalChainDepth > 0
        => ChainDepth(b) <= MaxIncrementalChainDepth

DepthAllowed(b) ==
    b # None /\ MaxIncrementalChainDepth > 0
        => ChainDepth(b) + 1 <= MaxIncrementalChainDepth

\* Mutant of Replaceable: a row still uploading is replaced as well.
ReplaceableAnyStatus(e) == snap[e] # "committed" /\ Unreferenced(e)

\* A row of the same name is replaced only after its upload failed.
Replaceable(e) == snap[e] = "failed" /\ Unreferenced(e)

\* The transaction StartUpload: replace a failed row, create the new rows.
StartUpload(u) ==
    LET old == RowNamed(name[u]) IN
    /\ pc[u] = "start"
    /\ \E b \in BaseRow(u) :
        /\ DepthAllowed(b)
        /\ \A e \in old : Replaceable(e)
        /\ base' = [base EXCEPT ![u] = b]
    /\ snap' = [v \in Uploads |-> IF v = u THEN "uploading"
                                  ELSE IF v \in old THEN "none" ELSE snap[v]]
    /\ rows' = [v \in Uploads |-> IF v \in old THEN {} ELSE rows[v]]
    /\ sess' = [sess EXCEPT ![u] = "active"]
    /\ fresh' = [fresh EXCEPT ![u] = TRUE]
    /\ oper' = [oper EXCEPT ![u] = "running"]
    /\ pc' = [pc EXCEPT ![u] = "chunk"]
    /\ UNCHANGED <<name, from, idx, cut, keySet, bucket, server, recon, cleaner, faults>>

\* StartUpload refuses the stream, or its transaction fails.
RejectUpload(u) ==
    /\ pc[u] = "start"
    /\ pc' = [pc EXCEPT ![u] = "error"]
    /\ UNCHANGED <<name, from, idx, cut, catalog, bucket, server, recon, cleaner, faults>>

\* A chunk has been read; putBytesWithRetry stores it under the name's key.
PutChunk(u) ==
    /\ pc[u] = "chunk"
    /\ idx[u] < MaxChunks
    /\ chunkObj' = [chunkObj EXCEPT ![name[u]][idx[u]] = u]
    /\ pc' = [pc EXCEPT ![u] = "record"]
    /\ UNCHANGED <<name, from, idx, cut, catalog, manifestObj, server, recon, cleaner, faults>>

\* Mutant of AddVerifiedChunk: an error of the INSERT is swallowed.
AddVerifiedChunkIgnoringErrors(u) ==
    /\ pc[u] = "record"
    /\ idx' = [idx EXCEPT ![u] = @ + 1]
    /\ pc' = [pc EXCEPT ![u] = "progress"]
    /\ UNCHANGED <<name, from, cut, catalog, bucket, server, recon, cleaner, faults>>

\* CreateSnapshotChunk: both parents must exist and object_key is UNIQUE.
AddVerifiedChunk(u) ==
    /\ pc[u] = "record"
    /\ snap[u] # "none" /\ sess[u] # "none"
    /\ \A v \in Uploads : name[v] = name[u] => idx[u] \notin rows[v]
    /\ rows' = [rows EXCEPT ![u] = @ \cup {idx[u]}]
    /\ idx' = [idx EXCEPT ![u] = @ + 1]
    /\ pc' = [pc EXCEPT ![u] = "progress"]
    /\ UNCHANGED <<name, from, cut, snap, base, sess, keySet, fresh, oper,
                   bucket, server, recon, cleaner, faults>>

\* UpdateUploadProgress: status writing_chunk, and the heartbeat.
UpdateUploadProgress(u) ==
    /\ pc[u] = "progress"
    /\ sess' = UpdateStatus(sess, u, "active")
    /\ fresh' = [fresh EXCEPT ![u] = TRUE]
    /\ pc' = [pc EXCEPT ![u] = "chunk"]
    /\ UNCHANGED <<name, from, idx, cut, snap, base, rows, keySet, oper,
                   bucket, server, recon, cleaner, faults>>

\* The stream ends (c: the sender died, but all the server sees is a clean
\* EOF).  UpdateUploadStatus: committing_manifest, and the heartbeat.
EndOfStream(u, c) ==
    /\ pc[u] = "chunk"
    /\ idx[u] > 0
    /\ cut' = [cut EXCEPT ![u] = c]
    /\ sess' = UpdateStatus(sess, u, "active")
    /\ fresh' = [fresh EXCEPT ![u] = TRUE]
    /\ pc' = [pc EXCEPT ![u] = "manifest"]
    /\ UNCHANGED <<name, from, idx, snap, base, rows, keySet, oper,
                   bucket, server, recon, cleaner, faults>>

\* Mutant of PutManifest: an error of the put is swallowed.
PutManifestIgnoringErrors(u) ==
    /\ pc[u] = "manifest"
    /\ \/ manifestObj' = [manifestObj EXCEPT ![name[u]] = u]
       \/ UNCHANGED manifestObj
    /\ pc' = [pc EXCEPT ![u] = "setkey"]
    /\ UNCHANGED <<name, from, idx, cut, catalog, chunkObj, server, recon, cleaner, faults>>

PutManifest(u) ==
    /\ pc[u] = "manifest"
    /\ manifestObj' = [manifestObj EXCEPT ![name[u]] = u]
    /\ pc' = [pc EXCEPT ![u] = "setkey"]
    /\ UNCHANGED <<name, from, idx, cut, catalog, chunkObj, server, recon, cleaner, faults>>

\* Status committing_catalog, the manifest key, and the heartbeat.
SetUploadManifestObjectKey(u) ==
    /\ pc[u] = "setkey"
    /\ sess' = UpdateStatus(sess, u, "active")
    /\ keySet' = [keySet EXCEPT ![u] = sess[u] # "none"]
    /\ fresh' = [fresh EXCEPT ![u] = TRUE]
    /\ pc' = [pc EXCEPT ![u] = "commit"]
    /\ UNCHANGED <<name, from, idx, cut, snap, base, rows, oper,
                   bucket, server, recon, cleaner, faults>>

\* Mutant of CommitUpload: the session gets a status its CHECK refuses.
CommitUploadWrongStatus(u) ==
    /\ pc[u] = "commit"
    /\ snap' = UpdateStatus(snap, u, "committed")
    /\ sess' = UpdateStatus(sess, u, "committed")
    /\ oper' = [oper EXCEPT ![u] = "succeeded"]
    /\ pc' = [pc EXCEPT ![u] = "ok"]
    /\ UNCHANGED <<name, from, idx, cut, base, rows, keySet, fresh,
                   bucket, server, recon, cleaner, faults>>

\* The transaction CommitUpload.  Its three UPDATEs look at no status, and
\* the client is told "ok" whether or not they found a row.
CommitUpload(u) ==
    /\ pc[u] = "commit"
    /\ snap' = UpdateStatus(snap, u, "committed")
    /\ sess' = UpdateStatus(sess, u, "complete")
    /\ oper' = [oper EXCEPT ![u] = "succeeded"]
    /\ pc' = [pc EXCEPT ![u] = "ok"]
    /\ UNCHANGED <<name, from, idx, cut, base, rows, keySet, fresh,
                   bucket, server, recon, cleaner, faults>>

\* A read, a put or a statement fails, or the session's context is gone.
\* (A put that fails after it was stored is PutChunk and then this.)
StepFails(u) ==
    /\ Live(u) /\ pc[u] # "fail"
    /\ pc' = [pc EXCEPT ![u] = "fail"]
    /\ UNCHANGED <<name, from, idx, cut, catalog, bucket, server, recon, cleaner, faults>>

\* The transaction FailUpload.
FailUpload(u) ==
    /\ pc[u] = "fail"
    /\ snap' = UpdateStatus(snap, u, "failed")
    /\ sess' = UpdateStatus(sess, u, "failed")
    /\ oper' = [oper EXCEPT ![u] = "failed"]
    /\ pc' = [pc EXCEPT ![u] = "error"]
    /\ UNCHANGED <<name, from, idx, cut, base, rows, keySet, fresh,
                   bucket, server, recon, cleaner, faults>>

\* FailUpload fails too; Receive returns and leaves the rows as they are.
FailureNotRecorded(u) ==
    /\ pc[u] = "fail"
    /\ pc' = [pc EXCEPT ![u] = "error"]
    /\ UNCHANGED <<name, from, idx, cut, catalog, bucket, server, recon, cleaner, faults>>

\* RECONCILE_STALE_AFTER passes with no statement that sets the heartbeat: the
\* goroutine is gone, or is still reading and storing one slow chunk, or is
\* still retrying the put of the manifest.
HeartbeatAges(u) ==
    /\ fresh[u] /\ sess[u] = "active"
    /\ ~Live(u) \/ (SlowChunks /\ pc[u] \in {"chunk", "manifest"})
    /\ fresh' = [fresh EXCEPT ![u] = FALSE]
    /\ UNCHANGED <<thread, snap, base, rows, sess, keySet, oper, bucket,
                   server, recon, cleaner, faults>>

-----------------------------------------------------------------------------
(* ReconcileStaleUploads: at startup, and every minute while serving.      *)

\* Mutant of StaleSessions: last_heartbeat_at is not looked at.
StaleSessionsNoCutoff == {u \in Uploads : sess[u] = "active"}

\* Mutant of StaleSessions: only sessions of a snapshot still uploading.
StaleSessionsUploadingOnly ==
    {u \in Uploads : sess[u] = "active" /\ ~fresh[u] /\ snap[u] = "uploading"}

StaleSessions == {u \in Uploads : sess[u] = "active" /\ ~fresh[u]}

ReconcileList ==
    /\ recStep = "idle"
    /\ \/ server = "reconciling"
       \/ server = "up" /\ StaleSessions # {}
    /\ recTodo' = StaleSessions
    /\ recStep' = "next"
    /\ UNCHANGED <<thread, catalog, bucket, server, recCur, cleaner, faults>>

\* FailSnapshot, the first of three statements for a listed session.
ReconcileFailSnapshot(u) ==
    /\ recStep = "next"
    /\ u \in recTodo
    /\ snap' = UpdateStatus(snap, u, "failed")
    /\ recTodo' = recTodo \ {u}
    /\ recCur' = u
    /\ recStep' = "session"
    /\ UNCHANGED <<thread, base, rows, sess, keySet, fresh, oper, bucket,
                   server, cleaner, faults>>

ReconcileFailSession ==
    /\ recStep = "session"
    /\ sess' = UpdateStatus(sess, recCur, "failed")
    /\ recStep' = "operation"
    /\ UNCHANGED <<thread, snap, base, rows, keySet, fresh, oper, bucket,
                   server, recCur, recTodo, cleaner, faults>>

\* FailOperationByUploadSession: only an operation that still refers to the
\* session and is queued or running.
ReconcileFailOperation ==
    /\ recStep = "operation"
    /\ oper' = [oper EXCEPT ![recCur] =
                    IF sess[recCur] # "none" /\ @ = "running" THEN "failed" ELSE @]
    /\ recStep' = "next"
    /\ recCur' = None
    /\ UNCHANGED <<thread, snap, base, rows, sess, keySet, fresh, bucket,
                   server, recTodo, cleaner, faults>>

ReconcileDone ==
    /\ recStep = "next" /\ recTodo = {}
    /\ recStep' = "idle"
    /\ server' = IF server = "reconciling" THEN "cleaning" ELSE server
    /\ UNCHANGED <<thread, catalog, bucket, recCur, recTodo, cleaner, faults>>

\* A statement fails: the scheduler waits for its next tick, serve returns.
ReconcileAborts ==
    /\ recStep # "idle"
    /\ faults < MaxFaults
    /\ faults' = faults + 1
    /\ recStep' = "idle" /\ recCur' = None /\ recTodo' = {}
    /\ server' = IF server = "reconciling" THEN "down" ELSE server
    /\ UNCHANGED <<thread, catalog, bucket, cleaner>>

-----------------------------------------------------------------------------
(* AbandonedUploadCleaner.Cleanup, run by serve before any other goroutine. *)

\* Mutant of CleanupList: finished sessions are listed, failed or not.
CleanupListFinished ==
    /\ server = "cleaning" /\ CleanupEnabled
    /\ cleanStep = "idle"
    /\ \E old \in SUBSET {u \in Uploads : sess[u] \in {"failed", "complete"}} :
          cleanTodo' = old
    /\ cleanStep' = "next"
    /\ UNCHANGED <<thread, catalog, bucket, server, recon, cleanCur, faults>>

\* The failed sessions older than the retention: any of the failed ones.
CleanupList ==
    /\ server = "cleaning" /\ CleanupEnabled
    /\ cleanStep = "idle"
    /\ \E old \in SUBSET {u \in Uploads : sess[u] = "failed"} : cleanTodo' = old
    /\ cleanStep' = "next"
    /\ UNCHANGED <<thread, catalog, bucket, server, recon, cleanCur, faults>>

\* Mutant of CleanupObjects: delete by key prefix, not by the chunk rows.
CleanupObjectsByPrefix(u) ==
    /\ cleanStep = "next"
    /\ u \in cleanTodo
    /\ chunkObj' = [chunkObj EXCEPT ![name[u]] = [i \in ChunkIds |-> None]]
    /\ manifestObj' = [manifestObj EXCEPT ![name[u]] = None]
    /\ cleanTodo' = cleanTodo \ {u}
    /\ cleanCur' = u
    /\ cleanStep' = "snapshot"
    /\ UNCHANGED <<thread, catalog, server, recon, faults>>

\* Delete the objects of the session's chunk rows, then the object its
\* manifest_object_key names.
CleanupObjects(u) ==
    /\ cleanStep = "next"
    /\ u \in cleanTodo
    /\ chunkObj' = [n \in Names |-> [i \in ChunkIds |->
                       IF n = name[u] /\ i \in rows[u] THEN None ELSE chunkObj[n][i]]]
    /\ manifestObj' = [n \in Names |->
                          IF n = name[u] /\ keySet[u] THEN None ELSE manifestObj[n]]
    /\ cleanTodo' = cleanTodo \ {u}
    /\ cleanCur' = u
    /\ cleanStep' = "snapshot"
    /\ UNCHANGED <<thread, catalog, server, recon, faults>>

\* A DELETE of an object fails part of the way: serve returns the error.
CleanupObjectsFail(u) ==
    /\ cleanStep = "next"
    /\ u \in cleanTodo
    /\ faults < MaxFaults
    /\ faults' = faults + 1
    /\ \E gone \in SUBSET rows[u] :
         chunkObj' = [n \in Names |-> [i \in ChunkIds |->
                        IF n = name[u] /\ i \in gone THEN None ELSE chunkObj[n][i]]]
    /\ server' = "down"
    /\ cleanStep' = "idle" /\ cleanCur' = None /\ cleanTodo' = {}
    /\ UNCHANGED <<thread, catalog, manifestObj, recon>>

CleanupDeleteSnapshot ==
    /\ snap[cleanCur] # "none" => Unreferenced(cleanCur)
    /\ snap' = [snap EXCEPT ![cleanCur] = "none"]
    /\ rows' = [rows EXCEPT ![cleanCur] = {}]
    /\ cleanStep' = "session"
    /\ UNCHANGED <<thread, base, sess, keySet, fresh, oper, bucket, server,
                   recon, cleanCur, cleanTodo, faults>>

\* A foreign key holds the row: serve returns the error.
CleanupRefused ==
    /\ snap[cleanCur] # "none" /\ ~Unreferenced(cleanCur)
    /\ server' = "down"
    /\ cleanStep' = "idle" /\ cleanCur' = None /\ cleanTodo' = {}
    /\ UNCHANGED <<thread, catalog, bucket, recon, faults>>

\* repository.DeleteSnapshot and the early return on its error.
CleanupSnapshotRow ==
    /\ cleanStep = "snapshot"
    /\ CleanupDeleteSnapshot \/ CleanupRefused

CleanupDeleteSession ==
    /\ cleanStep = "session"
    /\ sess' = [sess EXCEPT ![cleanCur] = "none"]
    /\ rows' = [rows EXCEPT ![cleanCur] = {}]
    /\ cleanStep' = "next"
    /\ cleanCur' = None
    /\ UNCHANGED <<thread, snap, base, keySet, fresh, oper, bucket, server,
                   recon, cleanTodo, faults>>

\* serve starts the schedulers and the listeners.
StartServing ==
    /\ server = "cleaning"
    /\ IF CleanupEnabled THEN cleanStep = "next" /\ cleanTodo = {} ELSE TRUE
    /\ cleanStep' = "idle"
    /\ server' = "up"
    /\ UNCHANGED <<thread, catalog, bucket, recon, cleanCur, cleanTodo, faults>>

-----------------------------------------------------------------------------
(* The process.                                                            *)

Restart ==
    /\ server = "down"
    /\ server' = "reconciling"
    /\ UNCHANGED <<thread, catalog, bucket, recon, cleaner, faults>>

\* The process dies between any two steps; its goroutines die with it.
Crash ==
    /\ server # "down"
    /\ faults < MaxFaults
    /\ faults' = faults + 1
    /\ server' = "down"
    /\ pc' = [u \in Uploads |->
                IF Live(u) \/ pc[u] = "start" THEN "crashed" ELSE pc[u]]
    /\ recStep' = "idle" /\ recCur' = None /\ recTodo' = {}
    /\ cleanStep' = "idle" /\ cleanCur' = None /\ cleanTodo' = {}
    /\ UNCHANGED <<name, from, idx, cut, catalog, bucket>>

-----------------------------------------------------------------------------

Receive(u) ==
    \/ StartUpload(u) \/ RejectUpload(u)
    \/ PutChunk(u) \/ AddVerifiedChunk(u) \/ UpdateUploadProgress(u)
    \/ EndOfStream(u, FALSE)
    \/ CutStreams /\ EndOfStream(u, TRUE)
    \/ PutManifest(u) \/ SetUploadManifestObjectKey(u) \/ CommitUpload(u)
    \/ StepFails(u) \/ FailUpload(u) \/ FailureNotRecorded(u)

\* One run of ReconcileStaleUploads that meets no error.
Reconcile ==
    \/ ReconcileList
    \/ \E u \in Uploads : ReconcileFailSnapshot(u)
    \/ ReconcileFailSession \/ ReconcileFailOperation \/ ReconcileDone

\* One startup cleanup that meets no storage error.
Cleanup ==
    \/ CleanupList
    \/ \E u \in Uploads : CleanupObjects(u)
    \/ CleanupSnapshotRow \/ CleanupDeleteSession

Next ==
    \/ \E u \in Uploads, n \in Names, b \in Uploads \cup {None} : Connect(u, n, b)
    \/ \E u \in Uploads : Receive(u)
    \/ \E u \in Uploads : HeartbeatAges(u)
    \/ Reconcile \/ ReconcileAborts
    \/ Cleanup \/ \E u \in Uploads : CleanupObjectsFail(u)
    \/ StartServing \/ Restart \/ Crash

Spec == Init /\ [][Next]_vars

\* A supervisor restarts the process, time passes, and the startup sequence
\* and the one-minute scheduler keep running.  Nothing is assumed of clients.
Fairness ==
    /\ WF_vars(Restart) /\ WF_vars(StartServing)
    /\ WF_vars(Reconcile) /\ WF_vars(Cleanup)
    /\ \A u \in Uploads : WF_vars(HeartbeatAges(u))

FairSpec == Spec /\ Fairness

-----------------------------------------------------------------------------
(* Properties.                                                             *)

Committed(u) == snap[u] = "committed"

\* Every chunk of a committed snapshot is recorded and its object still holds
\* the bytes of the attempt that committed.
CommittedChunksIntact ==
    \A u \in Uploads : Committed(u) =>
        /\ rows[u] = 0 .. idx[u] - 1
        /\ \A i \in rows[u] : chunkObj[name[u]][i] = u

\* The manifest object of a committed snapshot is the one its attempt wrote.
CommittedManifestIntact ==
    \A u \in Uploads : Committed(u) => manifestObj[name[u]] = u

\* "ok" on the SSH channel means the catalog holds the committed snapshot.
AckedIsCommitted == \A u \in Uploads : pc[u] = "ok" => Committed(u)

\* The parent of a committed snapshot is committed, and is the snapshot whose
\* GUID the stream was generated from.
CommittedChainRooted ==
    \A u \in Uploads : Committed(u) /\ base[u] # None =>
        Committed(base[u]) /\ base[u] = from[u]

\* No restore chain is longer than the setting allows.
ChainDepthBounded ==
    MaxIncrementalChainDepth > 0 =>
        \A u \in Uploads : Committed(u) => ChainDepth(u) <= MaxIncrementalChainDepth

\* At most one attempt holds a name in the catalog or writes its objects.
OneOwnerPerName ==
    \A u, v \in Uploads :
        /\ u # v /\ name[u] = name[v]
        /\ Live(u) \/ snap[u] # "none"
        => ~Live(v) /\ snap[v] = "none"

\* Whatever the reconciler, the cleanup or a retry did meanwhile, a snapshot
\* is committed with a row for each of its chunks, and under its own name.
CommittedRowsComplete ==
    \A u \in Uploads : Committed(u) =>
        rows[u] = 0 .. idx[u] - 1 /\ RowNamed(name[u]) = {u}

\* A committed snapshot holds the whole stream its sender meant to send.
CommittedStreamsWhole == \A u \in Uploads : Committed(u) => ~cut[u]

\* A session whose goroutine is gone does not stay active.
DeadUploadsSettle ==
    \A u \in Uploads :
        sess[u] = "active" /\ ~Live(u) ~> sess[u] # "active"

\* The startup sequence always gets through in the end.
ServerComesUp == []<>(server = "up")

-----------------------------------------------------------------------------
(* The inductive invariant behind the safety properties, when no live      *)
(* upload goes stale (~SlowChunks).                                        *)

Dead(u) == pc[u] \in {"error", "crashed"}

\* A running Receive has its rows untouched and its heartbeat fresh.
LiveOwnsRows ==
    \A u \in Uploads : Live(u) =>
        /\ snap[u] = "uploading" /\ sess[u] = "active" /\ fresh[u]
        /\ server = "up"

\* What has no goroutine yet has no rows; what is to start has a base to find.
NotStartedHasNoRows ==
    \A u \in Uploads : pc[u] \in {"idle", "start"} =>
        /\ snap[u] = "none" /\ sess[u] = "none" /\ idx[u] = 0
        /\ pc[u] = "start" =>
              /\ server = "up" /\ name[u] \in Names
              /\ from[u] # None => Committed(from[u])

\* UNIQUE (dataset_id, name).
UniqueNames ==
    \A u, v \in Uploads :
        snap[u] # "none" /\ snap[v] # "none" /\ name[u] = name[v] => u = v

\* A snapshot row has a name, and chunk rows go with their snapshot row.
RowsNeedSnapshot ==
    \A u \in Uploads : IF snap[u] = "none" THEN rows[u] = {} ELSE name[u] \in Names

\* What Receive has stored and recorded when it is at each step.
LiveProgress ==
    \A u \in Uploads : Live(u) =>
        /\ rows[u] = 0 .. idx[u] - 1
        /\ \A i \in rows[u] : chunkObj[name[u]][i] = u
        /\ pc[u] = "record" => idx[u] < MaxChunks /\ chunkObj[name[u]][idx[u]] = u
        /\ pc[u] \in {"setkey", "commit"} => manifestObj[name[u]] = u

\* A committed snapshot is one whose client was told "ok".
CommittedIsAcked ==
    \A u \in Uploads : Committed(u) => pc[u] = "ok"

\* Only an attempt without a goroutine has an active session that went stale,
\* or a failed one.
UnfinishedSessions ==
    \A u \in Uploads :
        /\ sess[u] = "active" => Live(u) \/ Dead(u)
        /\ sess[u] = "failed" => Dead(u)

\* The reconciler and the cleanup touch only attempts without a goroutine.
MaintenanceOnDead ==
    /\ \A u \in recTodo \cup cleanTodo : Dead(u)
    /\ recStep \in {"session", "operation"} => recCur \in Uploads /\ Dead(recCur)
    /\ cleanStep \in {"snapshot", "session"} => cleanCur \in Uploads /\ Dead(cleanCur)
    /\ cleanStep # "idle" => server = "cleaning" /\ CleanupEnabled

\* The base of a live or committed attempt is committed, and the right one.
ChainRooted ==
    \A u \in Uploads : (Live(u) \/ Committed(u)) /\ base[u] # None =>
        Committed(base[u]) /\ base[u] = from[u]

IndInv ==
    /\ TypeOK
    /\ LiveOwnsRows /\ NotStartedHasNoRows /\ UniqueNames /\ RowsNeedSnapshot
    /\ LiveProgress /\ CommittedIsAcked /\ UnfinishedSessions
    /\ MaintenanceOnDead /\ ChainRooted /\ CommittedChunksIntact

-----------------------------------------------------------------------------
(* The inductive invariant behind CommittedRowsComplete, which needs no    *)
(* assumption: it also holds when a live upload is taken for stale.        *)

\* Sessions are served only while the server is up, and the cleanup runs only
\* before that.
PhasesApart ==
    /\ \A u \in Uploads : Live(u) \/ pc[u] = "start" => server = "up"
    /\ cleanStep # "idle" => server = "cleaning"

\* The chunk rows of a snapshot row are those of the chunks stored so far, and
\* there is none before StartUpload or after the snapshot row is deleted.
RowsFollowChunks ==
    \A u \in Uploads :
        /\ pc[u] \in {"idle", "start"} => snap[u] = "none" /\ idx[u] = 0
        /\ pc[u] = "start" => name[u] \in Names
        /\ IF snap[u] = "none" THEN rows[u] = {}
                               ELSE name[u] \in Names /\ rows[u] = 0 .. idx[u] - 1

\* When the cleanup deletes a session, it has deleted the snapshot row.
SnapshotDeletedFirst ==
    cleanStep \in {"snapshot", "session"} =>
        /\ cleanCur \in Uploads
        /\ cleanStep = "session" => snap[cleanCur] = "none"

RowsInv ==
    /\ TypeOK /\ PhasesApart /\ UniqueNames /\ RowsFollowChunks /\ SnapshotDeletedFirst

=============================================================================
