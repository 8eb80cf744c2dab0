----------------------------- MODULE Validation -----------------------------
(***************************************************************************)
(* Validation of stored snapshots: the jobs that reread a stream or a      *)
(* whole chain and record the outcome, the scheduler that selects what is  *)
(* due, the requests of the web UI, the API and the end of an upload, and  *)
(* the reconciliation of dead jobs at startup.  Beside them snapshots are  *)
(* uploaded and deleted, stored objects rot, and the server crashes.       *)
(*                                                                         *)
(* Snapshots are numbered in the order of upload_completed_at and uploaded *)
(* once each; an upload that fails is one that does not end.  A job j is   *)
(* a goroutine that runs runOneMode over and over; while it runs, its      *)
(* operation row is running, and so is its job row unless the snapshot     *)
(* (and with it the job row) was deleted.  Rows whose goroutine died are   *)
(* in leftover.  Only the due query reads a row that has settled, and      *)
(* recent says what it finds.                                              *)
(***************************************************************************)
EXTENDS Integers, FiniteSets

CONSTANTS
    NumSnapshots,   \* bound: snapshots
    Scheduler,      \* the goroutine of the validation scheduler
    Requests,       \* bound: goroutines of requests and finished uploads
    Limit,          \* VALIDATION_LIMIT
    MaxEvents       \* bound: crashes, transient errors, unrecorded results,
                    \* requests, damaged objects and deletions, all together

ASSUME ValidationAssumption ==
    /\ NumSnapshots \in Nat \ {0} /\ Limit \in Nat \ {0} /\ MaxEvents \in Nat
    /\ Scheduler \notin Requests

Snapshots == 1 .. NumSnapshots
Jobs == {Scheduler} \cup Requests

VARIABLES
    \* the catalog
    parent,      \* snapshots.parent_snapshot_id, 0 for a full stream
    status,      \* snapshots.status
    streamVal,   \* snapshots.stream_validation_status
    chainVal,    \* snapshots.chain_validation_status
    recent,      \* a restore_check of it succeeded in the last 24 hours
    leftover,    \* rows still running after their goroutine is gone (job: the job
                 \* row, op: the operation); stale: they started before the
                 \* cutoff of the next startup
    \* the bucket
    stored,      \* the objects of a snapshot
    linked,      \* fromguid and base name in the stored bytes are the parent's
    \* the goroutines
    pc, mode, target,
    todo,        \* the snapshots the validator has still to check
    due,         \* what RunDue has still to run
    \* beside validation
    upload,      \* of each snapshot: yet to come, Receive is running, or over
    removing,    \* the rows the deletion in progress has invalidated
    \* the server process
    server, recStep, events,
    \* history
    bad          \* what a job must not pass over: unsound since before it began

catalog == <<parent, status, streamVal, chainVal, recent, leftover>>
bucket  == <<stored, linked>>
threads == <<pc, mode, target, todo, due, bad>>
beside  == <<upload, removing>>
process == <<server, recStep, events>>
vars    == <<catalog, bucket, threads, beside, process>>

CheckPc == {"list", "objects", "stream", "lineage"}
Results == {"pending", "running", "succeeded", "failed"}
Rows    == [mode : {"stream", "chain"}, target : Snapshots, stale : BOOLEAN,
            job : BOOLEAN, op : BOOLEAN]

\* One type for the module.
TypeOK ==
    /\ parent \in [Snapshots -> 0 .. NumSnapshots]
    /\ status \in [Snapshots -> {"uploading", "committed", "deleting", "none"}]
    /\ streamVal \in [Snapshots -> Results] /\ chainVal \in [Snapshots -> Results]
    /\ recent \in [Snapshots -> BOOLEAN]
    /\ leftover \in SUBSET Rows
    /\ stored \in [Snapshots -> {"good", "flipped", "noManifest", "gone"}]
    /\ linked \in [Snapshots -> BOOLEAN]
    /\ pc \in [Jobs -> CheckPc \cup {"idle", "pass", "fail"}]
    /\ mode \in [Jobs -> {"stream", "chain"}]
    /\ target \in [Jobs -> Snapshots]
    /\ todo \in [Jobs -> SUBSET Snapshots]
    /\ due \in SUBSET Snapshots
    /\ bad \in [Jobs -> SUBSET Snapshots]
    /\ upload \in [Snapshots -> {"later", "receiving", "over"}]
    /\ removing \in SUBSET Snapshots
    /\ server \in {"down", "reconciling", "up"}
    /\ recStep \in 1 .. 4
    /\ events \in 0 .. MaxEvents

Init ==
    /\ parent \in {p \in [Snapshots -> 0 .. NumSnapshots] : \A s \in Snapshots : p[s] < s}
    /\ linked \in {l \in [Snapshots -> BOOLEAN] : \A s \in Snapshots : parent[s] = 0 => l[s]}
    /\ status = [s \in Snapshots |-> "none"]
    /\ streamVal = [s \in Snapshots |-> "pending"]
    /\ chainVal = [s \in Snapshots |-> "pending"]
    /\ recent = [s \in Snapshots |-> FALSE]
    /\ leftover = {}
    /\ stored = [s \in Snapshots |-> "good"]
    /\ pc = [j \in Jobs |-> "idle"] /\ mode = [j \in Jobs |-> "chain"]
    /\ target = [j \in Jobs |-> 1] /\ todo = [j \in Jobs |-> {}]
    /\ bad = [j \in Jobs |-> {}] /\ due = {}
    /\ upload = [s \in Snapshots |-> "later"] /\ removing = {}
    /\ server = "up" /\ recStep = 1 /\ events = 0

-----------------------------------------------------------------------------

First(S) == CHOOSE s \in S : \A t \in S : s <= t

\* ListSnapshotRestoreChain: s, its parent, and so on to the full stream, which
\* is what every set has that has s and the parent of each of its members.
Chain(s) ==
    {t \in Snapshots : \A C \in SUBSET Snapshots :
        s \in C /\ (\A c \in C : parent[c] # 0 => parent[c] \in C) => t \in C}

\* The snapshot is what a validation is meant to vouch for.
Sound(s) == status[s] = "committed" /\ stored[s] = "good" /\ linked[s]

\* updateSnapshotValidationModeStatus: an UPDATE by id, whatever the row's
\* status, and no error when there is no row.
SetModeStatus(s, m, v) ==
    LET put(col) == [col EXCEPT ![s] = IF status[s] = "none" THEN @ ELSE v]
    IN  /\ streamVal' = IF m = "stream" THEN put(streamVal) ELSE streamVal
        /\ chainVal' = IF m = "chain" THEN put(chainVal) ELSE chainVal

\* The running rows of job j, should its goroutine die now.
RowsOf(j) == [mode |-> mode[j], target |-> target[j], stale |-> FALSE,
              job |-> status[target[j]] # "none", op |-> TRUE]

\* Goroutine j has returned.
Return(j) ==
    /\ pc' = [pc EXCEPT ![j] = "idle"]
    /\ mode' = [mode EXCEPT ![j] = "chain"]
    /\ target' = [target EXCEPT ![j] = 1]
    /\ todo' = [todo EXCEPT ![j] = {}]
    /\ bad' = [bad EXCEPT ![j] = {}]
    /\ UNCHANGED due

\* One of the bounded number of things that come from outside.
Event == events < MaxEvents /\ events' = events + 1

-----------------------------------------------------------------------------
(* One run of a job: Runner.runOneMode.                                    *)

\* The transaction that creates the job, its operation and the mark on the
\* snapshot.  The foreign key of validation_jobs wants the snapshot row.
CreateJob(j, s, m) ==
    /\ server = "up" /\ pc[j] = "idle" /\ status[s] # "none"
    /\ mode' = [mode EXCEPT ![j] = m]
    /\ target' = [target EXCEPT ![j] = s]
    /\ SetModeStatus(s, m, "running")
    /\ pc' = [pc EXCEPT ![j] = "list"]
    /\ bad' = [bad EXCEPT ![j] = {t \in Chain(s) : ~Sound(t)}]
    /\ UNCHANGED <<parent, status, recent, leftover, bucket, todo, beside, server, recStep>>

\* The rows a job has to look at: the chain, or the selected snapshot.
ChainRows(j) == IF mode[j] = "chain" THEN Chain(target[j]) ELSE {target[j]}

\* The rows are read, with their status, in one query.
ListChain(j) ==
    /\ pc[j] = "list"
    /\ IF \A s \in ChainRows(j) : status[s] = "committed"
       THEN /\ pc' = [pc EXCEPT ![j] = "objects"]
            /\ todo' = [todo EXCEPT ![j] = ChainRows(j)]
       ELSE /\ pc' = [pc EXCEPT ![j] = "fail"]
            /\ UNCHANGED todo
    /\ UNCHANGED <<catalog, bucket, mode, target, due, bad, beside, process>>

\* verifyManifestAndObjects, oldest snapshot first: the manifest, the chunk
\* rows (they go with the snapshot row) and a Head of every chunk.
VerifyManifestAndObjects(j) ==
    LET s == First(todo[j]) IN
    /\ pc[j] = "objects"
    /\ pc' = [pc EXCEPT ![j] = IF status[s] # "none" /\ stored[s] \in {"good", "flipped"}
                               THEN "stream" ELSE "fail"]
    /\ UNCHANGED <<catalog, bucket, mode, target, todo, due, bad, beside, process>>

\* Mutant of CheckStream: the hashes are computed and not compared.
CheckStreamUnhashed(j) ==
    LET s == First(todo[j]) rest == todo[j] \ {s} IN
    /\ pc[j] = "stream"
    /\ IF stored[s] # "gone"
       THEN /\ pc' = [pc EXCEPT ![j] = IF rest = {} THEN "lineage" ELSE "objects"]
            /\ todo' = [todo EXCEPT ![j] = rest]
       ELSE /\ pc' = [pc EXCEPT ![j] = "fail"]
            /\ UNCHANGED todo
    /\ UNCHANGED <<catalog, bucket, mode, target, due, bad, beside, process>>

\* checkStream: the chunks the manifest in hand lists are read back, hashed and
\* piped to zstreamdump.
CheckStream(j) ==
    LET s == First(todo[j]) rest == todo[j] \ {s} IN
    /\ pc[j] = "stream"
    /\ IF stored[s] \in {"good", "noManifest"}
       THEN /\ pc' = [pc EXCEPT ![j] = IF rest = {} THEN "lineage" ELSE "objects"]
            /\ todo' = [todo EXCEPT ![j] = rest]
       ELSE /\ pc' = [pc EXCEPT ![j] = "fail"]
            /\ UNCHANGED todo
    /\ UNCHANGED <<catalog, bucket, mode, target, due, bad, beside, process>>

\* The GUIDs of neighbours; a stream check compares with the parent's row,
\* which it reads only now.
CheckLineage(j) ==
    LET s == target[j] IN
    /\ pc[j] = "lineage"
    /\ pc' = [pc EXCEPT ![j] =
                IF /\ \A t \in ChainRows(j) : linked[t]
                   /\ mode[j] = "stream" /\ parent[s] # 0 => status[parent[s]] = "committed"
                THEN "pass" ELSE "fail"]
    /\ UNCHANGED <<catalog, bucket, mode, target, todo, due, bad, beside, process>>

\* A query, a read or zstreamdump fails.
CheckFails(j) ==
    /\ pc[j] \in CheckPc
    /\ Event
    /\ pc' = [pc EXCEPT ![j] = "fail"]
    /\ todo' = [todo EXCEPT ![j] = {}]
    /\ UNCHANGED <<catalog, bucket, mode, target, due, bad, beside, server, recStep>>

\* The last transaction: job row, mark on the snapshot, operation.
RecordSuccess(j) ==
    /\ pc[j] = "pass"
    /\ recent' = [recent EXCEPT ![target[j]] =
                    @ \/ (mode[j] = "chain" /\ status[target[j]] # "none")]
    /\ SetModeStatus(target[j], mode[j], "succeeded")
    /\ Return(j)
    /\ UNCHANGED <<parent, status, leftover, bucket, beside, process>>

RecordFailure(j) ==
    /\ pc[j] = "fail"
    /\ SetModeStatus(target[j], mode[j], "failed")
    /\ Return(j)
    /\ UNCHANGED <<parent, status, recent, leftover, bucket, beside, process>>

\* The last transaction fails too, or its context is cancelled: the rows stay
\* running although the goroutine is gone.
ResultNotRecorded(j) ==
    /\ pc[j] \in {"pass", "fail"}
    /\ Event
    /\ leftover' = leftover \cup {RowsOf(j)}
    /\ Return(j)
    /\ UNCHANGED <<parent, status, streamVal, chainVal, recent, bucket, beside, server, recStep>>

RunJob(j) ==
    \/ ListChain(j) \/ VerifyManifestAndObjects(j) \/ CheckStream(j) \/ CheckLineage(j)
    \/ RecordSuccess(j) \/ RecordFailure(j)

-----------------------------------------------------------------------------
(* Who starts jobs.                                                        *)

\* Mutant of IsDue: a snapshot validated once is not due again.
IsDueOnce(s) == status[s] = "committed" /\ chainVal[s] # "succeeded"

\* ListSnapshotsDueForValidation, without its LIMIT.
IsDue(s) == status[s] = "committed" /\ (chainVal[s] # "succeeded" \/ ~recent[s])

\* RunDue lists, at a tick of the scheduler, after the last list is done.
SchedulerList ==
    LET all == {s \in Snapshots : IsDue(s)} IN
    /\ server = "up" /\ due = {} /\ pc[Scheduler] = "idle"
    /\ all # {}
    /\ due' = {s \in all : Cardinality({t \in all : t < s}) < Limit}
    /\ UNCHANGED <<catalog, bucket, pc, mode, target, todo, bad, beside, process>>

\* RunDue takes the listed snapshots one after the other.
SchedulerRun ==
    /\ due # {}
    /\ CreateJob(Scheduler, First(due), "chain")
    /\ due' = due \ {First(due)}
    /\ UNCHANGED events

\* The snapshot was deleted since: the insert is refused, RunDue goes on.
SchedulerSkip ==
    /\ due # {} /\ pc[Scheduler] = "idle"
    /\ status[First(due)] = "none"
    /\ due' = due \ {First(due)}
    /\ UNCHANGED <<catalog, bucket, pc, mode, target, todo, bad, beside, process>>

\* validateSnapshot, apiValidateSnapshot, validateDataset and the goroutine
\* that the end of an upload starts.  None of them looks for another job.
RequestValidation(j, s, m) ==
    /\ Event
    /\ CreateJob(j, s, m)
    /\ UNCHANGED due

-----------------------------------------------------------------------------
(* Reconciliation at startup, one statement at a time.                     *)

StaleRunning(s, m) == \E r \in leftover : r.job /\ r.stale /\ r.mode = m /\ r.target = s

\* Mutant of Fail: a status the column does not know.
FailWrongStatus(col, m) == [s \in Snapshots |->
    IF col[s] = "running" /\ StaleRunning(s, m) THEN "aborted" ELSE col[s]]

Fail(col, m) == [s \in Snapshots |->
    IF col[s] = "running" /\ StaleRunning(s, m) THEN "failed" ELSE col[s]]

\* The third statement: stale job rows are failed.
FailJobRows == {IF r.stale THEN [r EXCEPT !.job = FALSE] ELSE r : r \in leftover}

\* The fourth: stale operations are, and what has no running row left is done
\* with.
FailOperations ==
    {r \in {IF q.stale THEN [q EXCEPT !.op = FALSE] ELSE q : q \in leftover} : r.job \/ r.op}

\* Mutant of ReconcileStaleJobs: the job rows are settled before the
\* subqueries of the snapshot updates look for running ones.
ReconcileJobsFirst ==
    /\ server = "reconciling"
    /\ streamVal' = IF recStep = 2 THEN Fail(streamVal, "stream") ELSE streamVal
    /\ chainVal' = IF recStep = 3 THEN Fail(chainVal, "chain") ELSE chainVal
    /\ leftover' = CASE recStep = 1 -> FailJobRows
                     [] recStep = 4 -> FailOperations
                     [] OTHER -> leftover
    /\ server' = IF recStep = 4 THEN "up" ELSE "reconciling"
    /\ recStep' = IF recStep = 4 THEN 1 ELSE recStep + 1
    /\ UNCHANGED <<parent, status, recent, bucket, threads, beside, events>>

\* Mutant of ReconcileStaleJobs: the third statement is missing.
ReconcileJobsForgotten ==
    /\ server = "reconciling"
    /\ streamVal' = IF recStep = 1 THEN Fail(streamVal, "stream") ELSE streamVal
    /\ chainVal' = IF recStep = 2 THEN Fail(chainVal, "chain") ELSE chainVal
    /\ leftover' = IF recStep = 4 THEN FailOperations ELSE leftover
    /\ server' = IF recStep = 4 THEN "up" ELSE "reconciling"
    /\ recStep' = IF recStep = 4 THEN 1 ELSE recStep + 1
    /\ UNCHANGED <<parent, status, recent, bucket, threads, beside, events>>

\* Stream marks, chain marks, job rows, operations.
ReconcileStaleJobs ==
    /\ server = "reconciling"
    /\ streamVal' = IF recStep = 1 THEN Fail(streamVal, "stream") ELSE streamVal
    /\ chainVal' = IF recStep = 2 THEN Fail(chainVal, "chain") ELSE chainVal
    /\ leftover' = CASE recStep = 3 -> FailJobRows
                     [] recStep = 4 -> FailOperations
                     [] OTHER -> leftover
    /\ server' = IF recStep = 4 THEN "up" ELSE "reconciling"
    /\ recStep' = IF recStep = 4 THEN 1 ELSE recStep + 1
    /\ UNCHANGED <<parent, status, recent, bucket, threads, beside, events>>

Restart ==
    /\ server = "down"
    /\ server' = "reconciling"
    /\ UNCHANGED <<catalog, bucket, threads, beside, recStep, events>>

\* A crash, a shutdown, or an error that ends the startup: no job, upload or
\* deletion survives it or can record anything.
Crash ==
    /\ server # "down"
    /\ Event
    /\ server' = "down" /\ recStep' = 1
    /\ leftover' = leftover \cup {RowsOf(j) : j \in {k \in Jobs : pc[k] # "idle"}}
    /\ pc' = [j \in Jobs |-> "idle"] /\ mode' = [j \in Jobs |-> "chain"]
    /\ target' = [j \in Jobs |-> 1] /\ todo' = [j \in Jobs |-> {}]
    /\ bad' = [j \in Jobs |-> {}] /\ due' = {}
    /\ upload' = [s \in Snapshots |-> IF upload[s] = "receiving" THEN "over" ELSE upload[s]]
    /\ removing' = {}
    /\ UNCHANGED <<parent, status, streamVal, chainVal, recent, bucket>>

\* RECONCILE_STALE_AFTER passes before the next startup.
RowsAge(r) ==
    /\ server = "down" /\ r \in leftover /\ ~r.stale
    /\ leftover' = (leftover \ {r}) \cup {[r EXCEPT !.stale = TRUE]}
    /\ UNCHANGED <<parent, status, streamVal, chainVal, recent, bucket, threads, beside, process>>

-----------------------------------------------------------------------------
(* What happens beside validation.                                         *)

\* 24 hours have passed since the last successful check of s.
DayPasses(s) ==
    /\ recent[s]
    /\ recent' = [recent EXCEPT ![s] = FALSE]
    /\ UNCHANGED <<parent, status, streamVal, chainVal, leftover, bucket, threads, beside, process>>

\* The row of a new snapshot; the base is committed.
StartUpload(s) ==
    /\ server = "up" /\ upload[s] = "later"
    /\ parent[s] # 0 => status[parent[s]] = "committed"
    /\ upload' = [upload EXCEPT ![s] = "receiving"]
    /\ status' = [status EXCEPT ![s] = "uploading"]
    /\ UNCHANGED <<parent, streamVal, chainVal, recent, leftover, bucket, threads, removing, process>>

\* CommitUpload: an UPDATE by id, whatever a deletion has done to the row and
\* the objects since.
CommitSnapshot(s) ==
    /\ upload[s] = "receiving" /\ status[s] # "none"
    /\ \A t \in s + 1 .. NumSnapshots : upload[t] # "over"
    /\ upload' = [upload EXCEPT ![s] = "over"]
    /\ status' = [status EXCEPT ![s] = "committed"]
    /\ bad' = [j \in Jobs |-> IF linked[s] /\ stored[s] = "good" THEN bad[j] \ {s} ELSE bad[j]]
    /\ UNCHANGED <<parent, streamVal, chainVal, recent, leftover, bucket,
                   pc, mode, target, todo, due, removing, process>>

\* The bucket loses the manifest of s or returns other bytes for a chunk.
Rot(s) ==
    /\ Event
    /\ status[s] = "committed" /\ stored[s] = "good"
    /\ \E how \in {"flipped", "noManifest"} : stored' = [stored EXCEPT ![s] = how]
    /\ UNCHANGED <<catalog, linked, threads, beside, server, recStep>>

\* InvalidateSnapshotForDeletion (no committed descendant), or every row of the
\* dataset.  Only a deletion that is not repeated counts as an event.
InvalidateForDeletion(S) ==
    /\ server = "up" /\ removing = {}
    /\ \/ S = {s \in Snapshots : status[s] # "none"}
       \/ \E s \in S : S = {s} /\ \A t \in Snapshots : parent[t] = s => status[t] # "committed"
    /\ \A s \in S : status[s] # "none"
    /\ Event \/ ((\A s \in S : status[s] = "deleting") /\ UNCHANGED events)
    /\ removing' = S
    /\ status' = [s \in Snapshots |-> IF s \in S THEN "deleting" ELSE status[s]]
    /\ streamVal' = [s \in Snapshots |-> IF s \in S THEN "failed" ELSE streamVal[s]]
    /\ chainVal' = [s \in Snapshots |-> IF s \in S THEN "failed" ELSE chainVal[s]]
    /\ UNCHANGED <<parent, recent, leftover, bucket, threads, upload, server, recStep>>

DeleteObjects(s) ==
    /\ server = "up" /\ s \in removing /\ stored[s] # "gone"
    /\ stored' = [stored EXCEPT ![s] = "gone"]
    /\ UNCHANGED <<catalog, linked, threads, beside, process>>

\* The row goes, whatever its status, and with it (ON DELETE CASCADE) the job
\* rows; the foreign key wants no row left that was sent from it.
DeleteRow(s) ==
    /\ server = "up" /\ s \in removing /\ stored[s] = "gone"
    /\ \A t \in Snapshots : parent[t] = s => status[t] = "none"
    /\ removing' = removing \ {s}
    /\ status' = [status EXCEPT ![s] = "none"]
    /\ streamVal' = [streamVal EXCEPT ![s] = "pending"]
    /\ chainVal' = [chainVal EXCEPT ![s] = "pending"]
    /\ recent' = [recent EXCEPT ![s] = FALSE]
    /\ leftover' = {IF r.target = s THEN [r EXCEPT !.job = FALSE] ELSE r : r \in leftover}
    /\ UNCHANGED <<parent, bucket, threads, upload, process>>

\* A Delete or a statement fails; the rows stay as they are.
DeletionFails ==
    /\ removing # {}
    /\ Event
    /\ removing' = {}
    /\ UNCHANGED <<catalog, bucket, threads, upload, server, recStep>>

-----------------------------------------------------------------------------

RunDue == SchedulerList \/ SchedulerRun \/ SchedulerSkip \/ RunJob(Scheduler)

Environment ==
    \/ \E s \in Snapshots : DayPasses(s) \/ StartUpload(s) \/ CommitSnapshot(s) \/ Rot(s)
                            \/ DeleteObjects(s) \/ DeleteRow(s)
    \/ DeletionFails
    \/ \E S \in SUBSET Snapshots \ {{}} : InvalidateForDeletion(S)

Next ==
    \/ RunDue
    \/ \E j \in Requests, s \in Snapshots, m \in {"stream", "chain"} : RequestValidation(j, s, m)
    \/ \E j \in Requests : RunJob(j)
    \/ \E j \in Jobs : CheckFails(j) \/ ResultNotRecorded(j)
    \/ ReconcileStaleJobs \/ Restart \/ Crash
    \/ \E r \in leftover : RowsAge(r)
    \/ Environment

Spec == Init /\ [][Next]_vars

\* The scheduler's ticker ticks and what it runs comes to an end, time passes,
\* a supervisor restarts the process.
FairSpec ==
    /\ Spec
    /\ WF_vars(Restart) /\ WF_vars(ReconcileStaleJobs)
    /\ WF_vars(RunDue)
    /\ \A s \in Snapshots : WF_vars(DayPasses(s))

-----------------------------------------------------------------------------
(* Properties.                                                             *)

\* A job that is to report success has not passed over anything that was
\* missing, altered, uncommitted or wrongly linked since before the job began.
SuccessIsEarned ==
    \A j \in Jobs : pc[j] = "pass" => ChainRows(j) \cap bad[j] = {}

\* There is a running job row of this mode for s.
HasRunningJob(s, m) ==
    \/ \E j \in Jobs : pc[j] # "idle" /\ mode[j] = m /\ target[j] = s
    \/ \E r \in leftover : r.job /\ r.mode = m /\ r.target = s

\* A snapshot marked running has a running job: without one neither a job nor
\* the reconciliation would ever change the mark.
RunningHasJob ==
    \A s \in Snapshots :
        /\ streamVal[s] = "running" => HasRunningJob(s, "stream")
        /\ chainVal[s] = "running" => HasRunningJob(s, "chain")

\* A startup that gets through leaves no stale job or operation row running,
\* also where the other of the two is gone, and a mark that stays running
\* belongs to a job row too young to be failed.
StartupSettlesStale ==
    [][server = "reconciling" /\ server' = "up" =>
        /\ \A r \in leftover' : r.stale => ~r.job /\ ~r.op
        /\ \A s \in Snapshots, m \in {"stream", "chain"} :
            (IF m = "stream" THEN streamVal' ELSE chainVal')[s] = "running" =>
                \E r \in leftover' : r.job /\ ~r.stale /\ r.mode = m /\ r.target = s]_vars

\* A committed snapshot whose chain is damaged is reported as failed, again and
\* again, until it is deleted.
DamageIsFound ==
    \A s \in Snapshots :
        (status[s] = "committed" /\ \E t \in Chain(s) : ~Sound(t))
            ~> (status[s] # "committed" \/ chainVal[s] = "failed")

=============================================================================
