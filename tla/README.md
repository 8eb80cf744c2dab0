# zfs-s3nd: a TLA+ verification project

zfs-s3nd receives `zfs send` streams over SSH, stores them as chunk objects and a
manifest in an S3 bucket, keeps a SQLite catalog of what it stored, and streams
snapshots back on request. This directory models what decides whether a backup is really
there: uploads, the catalog, the bucket, reconciliation and cleanup of dead uploads,
deletion, validation, the SSH server and its shutdown, backups of the catalog, settings
and the rate limit, with crashes and restarts.

## Inventory

| Component | State | Operations | Where |
|---|---|---|---|
| Ingest service | the goroutine of each upload | `Receive`: start, chunks, manifest, commit, fail | `internal/ingest` |
| Catalog | `snapshots`, `upload_sessions`, `snapshot_chunks`, `operations`, `validation_jobs`, `catalog_backups`, `app_settings` | transactions and single statements of `Repository` | `internal/catalog`, `queries`, `migrations` |
| Bucket | objects by key | put, get, delete | `internal/storage` |
| Reconciler | the list of stale sessions | `ReconcileStaleUploads` at startup and every minute | `internal/catalog`, `cmd` |
| Abandoned-upload cleanup | the list of failed sessions | `Cleanup`, once at startup | `internal/cleanup` |
| Deletion worker | the queue (operations of type cleanup), object keys in hand | `RunOnce`, at startup and on a ticker | `internal/deletion`, `internal/web/datasets.go` |
| Restore | none | plan a chain, stream a snapshot | `internal/restoreplan`, `internal/restore`, `cmd` |
| Validation | jobs, operations, marks on snapshots | `runOneMode`, `RunDue`, `ReconcileStaleJobs` | `internal/validation` |
| SSH server | sessions, stall timers, draining flag, authentication back-off | receive, restore-stream, state, shutdown | `internal/sshserver`, `cmd` |
| Upload rate limit | a token bucket per upload | `Read`, `refill`, the env request | `internal/sshserver/rate_limit.go` |
| Catalog backup | backup rows and objects | copy, upload, record, expire | `internal/catalogbackup` |
| Settings | rows, overrides, cached values | set, reset, load | `internal/appsettings` |
| Web | admin sessions, tokens, keys | pages, API, login | `internal/web` |

They interact through the catalog and the bucket. SQLite runs on one connection, so a
statement or a transaction is atomic and everything between two of them interleaves.
Object keys are built from the snapshot *name* and a chunk index: attempts at one name
share their keys while their catalog rows have ids of their own. Most of what is hard in
the upload path follows from that, together with three actors (reconciler, cleanup, worker)
that change rows of uploads they do not synchronise with. Elsewhere the hard parts are
results written long after what they are about was read (validation), waits that must end
(shutdown, stalled clients), sequences of puts and statements that may stop anywhere
(catalog backup), and a value cached beside its row (settings). PROJECT.json lists these
hazards at the lines where they bite, with the properties that watch each.

What makes each component correct:

- ingest and catalog: a committed snapshot has all its chunks, rows and its manifest; "ok"
  means committed; a name has one owner; chains are rooted in committed snapshots and no
  longer than the limit;
- reconciler and cleanup: touch only what is dead, settle all of it, never keep the server
  from starting;
- deletion: removes what was asked for, all of it, nothing else, and finishes;
- restore: what was acknowledged can be streamed back, the same bytes, until it is removed;
- validation: no success over damage, every mark is settled, damage is found;
- SSH server: a drain waits for the uploads it found, a shutdown ends, a client that goes
  silent does not hold a session for ever;
- catalog backup: what the retention protects can be used, one usable backup remains,
  expired ones leave nothing behind;
- settings and rate limit: what is in effect is what a restart would load, and no client
  gets more than the server's rate and a burst.

## Modules

- `Ingest` - the core. An attempt `u` stands for one run of `Receive` and for the three
  rows `StartUpload` creates. `pc` is where `Receive` is; `snap`, `base`, `rows`, `sess`,
  `keySet`, `fresh`, `oper` are the columns of its rows; `chunkObj` and `manifestObj` are
  the bucket, by name, holding the attempt whose bytes they are. One action per statement,
  transaction or put: `Connect` (runAutoReceive up to the GUID lookup), `StartUpload` /
  `RejectUpload`, `PutChunk`, `AddVerifiedChunk`, `UpdateUploadProgress`, `EndOfStream`,
  `PutManifest`, `SetUploadManifestObjectKey`, `CommitUpload`, `StepFails`, `FailUpload` /
  `FailureNotRecorded`; `ReconcileList`, then three statements per session; `CleanupList`,
  the objects, the snapshot row (deleted or refused by a foreign key), the session row;
  `Restart`, `StartServing`, `Crash`.
- `Restore` - what a restore would find, as operators on the state of `Ingest`.
- `BackupStore` - the abstract promise: a snapshot becomes restorable in the step that
  decides "ok" and stays the same until it is removed on request.
- `Deletion` - extends `Restore` with the delete handlers and the worker, one action per
  statement and per object. `Deletion!Promise` is the refinement mapping to `BackupStore`.
- `Validation` - jobs as goroutines: the transaction that creates job, operation and mark,
  the listing of the rows, for each snapshot the Heads and the reading of its stream, the
  lineage, the last transaction. Around them `RunDue`, requests, the four statements of
  `ReconcileStaleJobs`, and what changes under a job: uploads, deletions, damage, crashes.
- `SSHServer` - sessions from `Accept` to their end, `stallTimeoutReader` with clients that
  fall silent or freeze, and main's
  shutdown: SIGTERM, the HTTP drain, `Server.Shutdown` with its polls of the catalog, the
  grace period.
- `CatalogBackup` - `Runner.Run` and `cleanupExpired` for several runners that overlap.
- `AppSettings` - `Manager`: load, `Set`, `Reset`, parsing, the environment's overrides.
- `UploadLimit` - extends `AppSettings` with the env and shell requests of a session and
  `rateLimitedReader`.
- `IngestProofs`, `DeletionProofs` (which builds on it), `PromiseProofs` (which builds on
  both), `ValidationProofs`, `SSHServerProofs`, `CatalogBackupProofs`, `UploadLimitProofs` -
  the theorems.
- `MCIngest`, `MCDeletion` - instances for TLC (symmetry sets, a state constraint). The
  other runs take their module as it is. Operators that a comment calls a mutant of another
  are that: no action uses them.

### Abstractions

- One dataset: keys and rows of two datasets never meet, except in the queue of the worker,
  which takes its operations one after the other.
- The working states of a session (`uploading`, `writing_chunk`, `committing_manifest`,
  `committing_catalog`) are one in `Ingest`, "active", and two in `SSHServer`: every query
  treats them alike. Nothing in the code sets `pending` or `aborted`.
- Time: `fresh[u]` says that the heartbeat is within `RECONCILE_STALE_AFTER`. A goroutine
  that is gone lets it age; a live one only while it reads and stores a chunk or the
  manifest, and only if `SlowChunks` says that this can take so long. The age that makes a
  failed session abandoned is a free choice in `CleanupList`; `recent` and `stale` in
  `Validation` are the same idea. `CatalogBackup` and `UploadLimit` have a discrete clock.
- A put is stored or fails; retries are not counted. A put that is stored although the
  caller sees an error is `PutChunk` followed by `StepFails`.
- The content of an object is the identity of its attempt, so a checksum comparison is an
  equality of attempts. In `Validation` the objects of a snapshot are good, altered, without
  their manifest, or gone, and `linked` says whether the lineage in the bytes is right.
- "ok" is decided when `Receive` returns without an error, which is the commit.
- The limits of the listings (100 sessions, 10 operations) are above the bounds. The
  operation row of the reconciler itself is left out; nothing reads it.
- `queueSnapshotDeletion` counts descendants and inserts in one step; the worker counts
  again, so a count that went stale in between changes nothing.
- `RestoreChain` in `Ingest` and `Chain` in `Validation` are the least set that has the
  snapshot and the parent of each member, which is what the recursive query returns; a
  chain does not change while its snapshots exist.
- `Validation` uploads each snapshot once, in the order of its number; an upload that fails
  is one that does not end. A row of `leftover` is a job row and an operation that outlived
  their goroutine, each with a flag of its own, since each is settled by its own statement
  and the job row may go with its snapshot. A deletion invalidates one row without a
  committed child, or all rows, whatever their status (a running upload's too, whose commit
  may bring the row back); the objects and the row of a snapshot then go in one step each.
- A text of a setting is a number of hundredths; one that is no number is a negative one,
  refused in the same way. Floating point is not modelled.
- `SSHServer` has of `Receive` only the status of the upload session; a chunk's put with its
  retries is one step of any length, during which the stall timer runs on.
- In `Ingest` a graceful shutdown is not an action of its own; `Crash` covers what it can
  leave. `SSHServer` has the shutdown itself.

## Runs

Bounds: `Uploads` are attempts (never reused), `Names` snapshot names, `MaxChunks` chunks
per stream, `MaxFaults` crashes, aborted maintenance runs and failing statements,
`MaxDeletes` requests, `MaxEvents` everything in `Validation` that comes from outside. Two
attempts at one name make a retry; two names make a base and an incremental; three attempts
give a chain with a retry, or a chain of three. One chunk is enough for objects to clash;
the proofs cover any number. Deadlock is not checked, because attempts, sessions and clocks
are finite and a model in which all of them have ended rightly stops.

| Run | Instance | Checks |
|---|---|---|
| `ingest_safety` | 3 attempts, 3 names, 1 fault, cleanup on, depth 2 | `TypeOK`, `CommittedChunksIntact`, `AckedIsCommitted`, `CommittedChainRooted`, `ChainDepthBounded`, `OneOwnerPerName` |
| `ingest_liveness` | 2 attempts, 2 names, 2 faults, cut streams, cleanup on | `DeadUploadsSettle`, `ServerComesUp` |
| `deletion_quiet` | 2 attempts, 2 names, 1 fault, 1 deletion while no upload runs | integrity, `DeletedLeavesNoObjects`, `OnlyRequestedDeleted`, `KeepsPromiseUntilRemoved` (refinement of `BackupStore`), `DeletionsSettle` |
| `deletion_any` | 2 attempts, 2 names, slow uploads, cleanup, one crash, deletion or failed upload at any time | `CommittedRowsComplete` |
| `validation_jobs` | 2 snapshots, the scheduler and one request, 2 events | `TypeOK`, `SuccessIsEarned`, `RunningHasJob`, `StartupSettlesStale`, `DamageIsFound` |
| `ssh_drain` | 2 sessions | `TypeOK`, `DrainFinishesUploads`, `ShutdownEnds`, `StalledSessionsEnd` |
| `catalog_backup` | 2 runners, 3 backups, 4 instants, 1 fault | `TypeOK`, `UnexpiredUsable`, `AlwaysOneUsable`, `NothingLeaks`, `RunsEnd` |
| `upload_limit` | 1 upload, 4 texts (no limit, too small, below and above the default), half a second in 3 instants | `TypeOK`, `CacheIsStored`, `ServerLimitHolds`, `IntervalLimitHolds` |

`deletion_any` looks at one crash, one deletion or one upload that ends in an error
(`OneMishap`), beside any number of uploads taken for dead; its property is also a theorem,
`CommitsStayComplete`, with no such bound. In `validation_jobs` two events are enough for
damage and a crash, a deletion and a crash, or a request that overlaps one of them. In
`catalog_backup` three backups and a retention of one tick give one that expires, one that is
protected and one in the making.

`SlowChunks = FALSE` and `QuietDeletes = TRUE` are assumptions about use: every chunk and
manifest is stored within `RECONCILE_STALE_AFTER` (10 minutes by default; a slow link with
64 MiB chunks can break it), and deletions are requested while no upload runs and nothing
unfinished hangs off the target. The second is a rule for the operator: the handlers
(`internal/web/datasets.go`) accept a request at any time. `deletion_any`, the runs below and
the theorems `CommitsStayComplete`, `QueueTypeCorrect` and `DeletesOnlyRequested` do without
it.

`CacheIsStored` excepts a key whose last write was applied and reported as failed; that the
cached value may then lag behind its row until the next change or restart is how the code is.
`DrainFinishesUploads`, `DamageIsFound` and `StalledSessionsEnd` are narrower than one might
wish for reasons given under "Limits met".

### Runs that end in a counterexample

Each shows a disagreement between the code and what its documents or messages say;
PROJECT.json quotes the line.

- `ingest_manifest`: the startup cleanup deletes the manifest of a committed retry.
- `ingest_ack`: a slow upload is listed as stale, commits, is answered with "ok", and is then
  failed by the reconciler, which goes on with its list. (In a longer sibling a retry replaces
  the row first, and the commit that matches no row is answered with "ok" as well.)
- `ingest_cut`: a stream cut by a clean EOF is committed.
- `deletion_request`: the deletion of a replaced snapshot runs as a dataset deletion.

### Limits met while modelling

Behaviour of the code that the models have and that no run is kept for:

- With slow uploads a retry's chunks are overwritten by the attempt it replaced
  (`CommittedChunksIntact` needs `~SlowChunks`), and the server may be refused its start
  again and again: a foreign key refuses the row of an abandoned attempt that is the base of
  a newer row, and `serve` returns the error (`ServerComesUp` needs it too).
- Without `QuietDeletes` a base can be deleted under a running incremental upload, which
  then commits (`CommittedChainRooted` needs it).
- A second request for a snapshot that the worker is already deleting becomes a dataset
  deletion: `queueSnapshotDeletion` looks for no pending request, the first operation deletes
  the row and with it the second's `snapshot_id`, and the second is listed with its
  `dataset_id` only. It needs no failed upload, and has the root cause of `deletion_request`.
- A frozen client, whose host is gone without the connection being closed, holds its session
  for ever. The stall timer only calls `channel.Close()` (`server.go:375`); in
  golang.org/x/crypto/ssh that sends a close message, and a read that is blocked returns when
  the client answers it or the connection ends. docs/implementation.md:651 says "SSH uploads
  now fail if no new bytes arrive for five minutes, preventing indefinitely stalled uploads."
  The test of the reader uses an `io.Pipe`, whose reads do return on a close. The library is
  not part of the repository, so this is an assumption of the model and no finding. The
  reconciler fails the rows of such an upload, and `ShutdownEnds` holds beside it.
- A read that blocks while the bucket fills again behind it can give two bursts at one
  instant (`rate_limit.go:69`). `ServerLimitHolds` bounds the total by one burst,
  `IntervalLimitHolds` every interval by two.
- The due query is ordered and limited: when `VALIDATION_LIMIT` is smaller than the number
  of snapshots that are due again by the time a list is done, the others wait for ever.
  `DamageIsFound` is checked with a limit that covers them.
- `draining` is read once. A session that was past it and had not yet started its upload is
  not among those the drain waits for, and is cut off when main returns, although
  docs/implementation.md:618 and docs/railway-deploy.md:33 speak of active uploads without
  that exception. `DrainFinishesUploads` is about the uploads that were active when the
  drain began.
- docs/configuration.md:26 gives 0 as the default of the rate limit; the code has 45 Mbps,
  and so has `AppSettings`.
- The largest rate is compared as a float64, which rounds to 2^63; that comparison is
  outside the integer model.

### Fairness

All of it is weak fairness of loops and timers the process runs unconditionally. `Ingest`: a
supervisor restarts the process, time passes, and the startup sequence, the one-minute
scheduler and the cleanup take their steps; `Deletion` adds the worker's ticker.
`Validation`: restart, the reconciliation, the scheduler's loop with the job it runs, and
the passing of a day. `SSHServer`: timers fire, main goes on, a put comes to an end (its
retries are limited), `Receive` records a failure or gives up. Of clients it assumes one
thing: one that is not frozen answers a channel close or drops its connection, so that a read
of the closed channel returns (`ReadStalled`); any client may freeze at any time, and then
nothing is assumed of it. `CatalogBackup`: a runner that is alive goes on. Nothing else is
assumed of clients, requests or administrators, and faults are bounded, not fair.

## Theorems

Each is for every value of the constants its module's assumptions allow: any number of
attempts, snapshots, sessions, runners, and every bound.

`IngestProofs`:

- `TypeCorrect`: `TypeOK`. It is not inductive by itself: `AddVerifiedChunk` increments
  `idx` without a test, so `RecordInBounds` carries the test `PutChunk` made.
- `ChunksStayIntact`, `ChainStaysRooted`, `NamesHaveOneOwner`, each assuming
  `~SlowChunks`. The invariant is `IndInv`: a live `Receive` owns its rows, has a fresh
  heartbeat and implies that the server is up (`LiveOwnsRows`); names are unique
  among rows (`UniqueNames`), so nobody else writes its keys and what it recorded is stored
  (`LiveProgress`); a committed snapshot was acknowledged (`CommittedIsAcked`);
  maintenance works on attempts without a goroutine only (`MaintenanceOnDead`,
  `UnfinishedSessions`); an attempt with chunk rows has its snapshot row
  (`RowsNeedSnapshot`), so the cleanup cannot reach a chunk of a committed retry. Without
  `~SlowChunks` `LiveOwnsRows` fails, and so do the theorems: see `ingest_ack`.
- `AckedStaysCommitted`, under the same assumption: only `CommitUpload` acknowledges, and
  without deletions nothing takes the status of a committed snapshot away. It is kept apart
  from `IndInv`, which so holds beside deletions as well.
- `ChainsStayShort`: `ChainDepthBounded`, under the same assumption. The depth is checked
  before there is a row, against the chain of the base. `ShortChains` states the bound for
  uploads in progress too, and that chains are finite. No induction over a chain is needed:
  it is the least closed set, the committed snapshots are a closed set
  (`AncestorsCommitted`), a step that keeps the parents of a chain's members keeps the chain
  (`ChainFrame`), and a new chain is the base's and one more (`ChainUnfolds`).
- `ManifestStaysIntact`, assuming `~SlowChunks` and `~CleanupEnabled`. The second
  assumption is needed: a manifest key outlives the snapshot row it belonged to, see
  `ingest_manifest`.
- `CommitsAreComplete`: `CommittedRowsComplete`, with no assumption. The invariant
  `RowsInv` ties the chunk rows of any snapshot row to `len(chunks)`; it holds because
  rows are deleted only with their snapshot row.

`DeletionProofs` is about `Deletion`, uploads and the worker together. A step of it is a step
of `Ingest`, one of the worker's four writes, or leaves the upload path alone but for the
count of faults (`StepOfIngest`), so the lemmas of `IngestProofs` serve again.

- `CommitsStayComplete`: `CommittedRowsComplete`, with no assumption: deletions at any
  moment, slow uploads and cleanup included.
- `QueueTypeCorrect`: `DeletionTypeOK`, with no assumption. The hard conjunct bounds the
  generation of the dataset by the number of requests. `GenerationsUsed` maps every
  generation that is gone to an operation of its own that succeeded, and the operation in
  hand is not among them.
- `DeletesOnlyRequested`: `DeletionSpec /\ CarefulRequests => OnlyRequestedDeleted`, assuming
  `~SlowChunks`, with deletions beside uploads, retries, dataset deletions, crashes and the
  cleanup at any time. `CarefulRequests` is what keeps the code from turning a snapshot
  request into a dataset deletion: a new request for one snapshot names an acknowledged one
  that no pending request names. Each half is needed (`deletion_request`, and the second
  request under "Limits met"). `IndInv` does not hold here, since a deletion may take the rows
  of a running upload away; the invariant is `CarefulInv`: an acknowledged snapshot is
  committed, being deleted or gone, and a running upload is not stale (`SettledUploads`), so
  reconciler and cleanup keep off both (`MaintainsDead`); a pending request's row is there or
  its whole dataset is gone, and what the worker lists as a dataset deletion of the present
  dataset was asked for as one (`RequestsFindRows`).
- `ChunksSurviveDeletes`, `NamesStayOwned` and `ChainsStayShortBesideDeletes`, assuming
  `~SlowChunks` and `QuietDeletes`. The invariant is `SafeInv`: `IndInv`, the queue's `QueueInv`, and `QuietInv`,
  which says what the worker may rely on between two of its statements. Nothing uploads while
  a request is pending (`RequestsAreQuiet`); the requested row stays, so a repeated operation
  is still about the same snapshot (`RequestedStays`); what `CountDescendants` found is still
  so when the row is invalidated (`NoCommittedChild`); the keys in hand belong to the rows of
  the operation (`KeysOfTargets`), and none of these is committed while objects go
  (`InvalidatedFirst`): this is where the order "invalidate, then delete" matters.
- `DeletedLeavesNothing`: `DeletedLeavesNoObjects`, same assumptions. `GoneInv` adds that an
  object lies under the name of the attempt that wrote it, at an index its `Receive` has
  reached (`ObjectsHaveOwners`), so the chunk rows name them all, and that from the listing
  on each object left of the target is in hand (`AllKeysListed`). An acknowledged attempt
  writes nothing more.
- `ManifestSurvivesDeletes`: `CommittedManifestIntact`, with `~CleanupEnabled` as well.

The assumptions are needed; the counterexamples without them are `ingest_ack` (slow
uploads), `deletion_request` (deletions at any time) and `ingest_manifest` (cleanup on).

`PromiseProofs`: `PromiseKept`, the refinement `KeepsPromiseUntilRemoved`, assuming
`~SlowChunks`, `QuietDeletes` and `~CleanupEnabled`. With the invariants above a name is
restorable exactly when a committed snapshot has it (`RestorableIsCommitted`), because every
ancestor of a committed snapshot is committed and stored. So `CommitUpload` is a `Store`,
`InvalidateForDeletion` is a `Remove` of requested names, and every other step is a `Request`
or changes nothing in `BackupStore`.

`ValidationProofs`:

- `ValidationTypeCorrect`: `TypeOK`.
- `SuccessIsAlwaysEarned`: `SuccessIsEarned`. The invariant `Earned(j)` follows what a job
  still knows about the snapshots that were unsound when it began: after the listing their
  fault is in the bucket or in the lineage; after a snapshot's stream was read only its
  lineage can be wrong; and between its Heads and its reading an altered one stays altered.
  It needs that nothing repairs a stored snapshot (`Decays`).
- `RunningAlwaysHasJob`: `RunningHasJob`. The invariant `MarkInv` says that a row that is
  gone bears no mark, that jobs run only while the server is up, and that a startup that has
  passed a statement has failed the marks the later ones rely on (`MarksBeforeRows`): this
  is where the order of the four statements matters.
- `StartupAlwaysSettles`: `StartupSettlesStale`, an action property. That no stale row stays
  running takes the third and the fourth statement, each for its own table; that a mark which
  stays running belongs to a fresh job row takes `MarkInv`, that is, the order.

`SSHServerProofs`: `ServerTypeCorrect` (`TypeOK`) and `DrainWaits`
(`DrainFinishesUploads`): the session row of an upload follows the position of its goroutine
(`RowFollows`), every upload found at the start of a drain has a row (`DrainKnown`), and the
poll that finds none active is the last (`DrainedLast`).

`CatalogBackupProofs`: `BackupTypeCorrect` (`TypeOK`), `ExpiredLeaveNothing`
(`NothingLeaks`), `ProtectedStayUsable` (`UnexpiredUsable`), `AUsableBackupRemains`
(`AlwaysOneUsable`). The invariant: two runners never make the same backup (`MakersApart`),
what a runner has in hand to expire is older than its cutoff (`Expiring`), its cutoff is
older than its own backup, and an object is only missing from an old row (`OnlyOldGone`).
The last theorem takes the newest backup by the well-foundedness of the naturals.

`UploadLimitProofs`: `LimitTypeCorrect` (`TypeOK`), `CacheFollowsStored` (`CacheIsStored`),
`UploadsKeepTheLimit` (`ServerLimitHolds`), `UploadsKeepTheRate` (`IntervalLimitHolds`). The
invariant accounts for every byte (`Accounted`): what was read, what a read in progress may
return and the tokens left are together at most a burst and the rate times the time since
the upload began, and the bucket never holds more than a burst (`BucketHolds`).

Only model-checked: the liveness properties `DeadUploadsSettle`, `ServerComesUp`,
`DeletionsSettle`, `DamageIsFound`, `ShutdownEnds`, `StalledSessionsEnd` and `RunsEnd`;
fairness is out of the prover's reach. Of the rest, what `deletion_quiet` says of
`CommittedChainRooted` is model-checked only: under `QuietDeletes` it comes down to the count
of descendants. Every other invariant, every action property and the refinement that a
passing run checks is a theorem.

## Plan

Done: all modules above. What is left: what deletions guarantee without `QuietDeletes` beyond
`CommitsStayComplete` and `DeletesOnlyRequested`, and the authentication back-off under parallel attempts.

Not modelled, and why: byte formats (manifest JSON, stream header, encryption framing), the
S3 protocol and host keys are input, output and library calls without a state of their own;
page rendering and reporting queries change nothing; admin login, tokens and keys are single
statements on rows no modelled component shares; configuration is parsed once and appears as
constants; a `validate` or `validate-due` command that runs as a process of its own and
outlives a restart of the server would be a job the reconciliation takes for dead, and is
left out of `Validation`.
