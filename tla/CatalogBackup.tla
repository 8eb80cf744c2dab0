---------------------------- MODULE CatalogBackup ---------------------------
(***************************************************************************)
(* Backups of the catalog: a runner copies the database, puts the copy and *)
(* its metadata into the bucket, records the row, and then expires rows    *)
(* older than the retention, one object and one row at a time.  The        *)
(* scheduler's runner and one of the backup-sqlite command may overlap,    *)
(* and either may die at any step.  Backup ids (and the object keys built  *)
(* from them) are fresh.                                                   *)
(***************************************************************************)
EXTENDS Integers, FiniteSets

CONSTANTS
    Runners,       \* the scheduler, and backup-sqlite processes
    MaxBackups,    \* bound: backups
    Retention,     \* Runner.Retention, in ticks
    MaxTime,       \* bound: ticks of the clock
    MaxFaults      \* bound: failing steps and dying runners

ASSUME CatalogBackupAssumption ==
    /\ MaxBackups \in Nat /\ MaxTime \in Nat /\ MaxFaults \in Nat
    /\ Retention \in Nat \ {0}

Backups == 1 .. MaxBackups

VARIABLES
    now,
    \* a run
    pc, cur,       \* where Run is, and the backup it makes
    cutoff,        \* completed - Retention
    todo, item,    \* rows listed and not yet taken, the one in hand
    \* the catalog
    started,       \* started_at, in the run and in its row
    op,            \* status of the catalog_backup operation
    row,           \* there is a catalog_backups row
    \* the bucket
    copyObj, metaObj,
    faults

run     == <<pc, cur, cutoff, todo, item>>
catalog == <<started, op, row>>
bucket  == <<copyObj, metaObj>>
vars    == <<now, run, catalog, bucket, faults>>

MakePc   == {"copy", "metadata", "record"}
ExpirePc == {"list", "delCopy", "delMeta", "delRow"}

\* One type for the module.
TypeOK ==
    /\ now \in 0 .. MaxTime
    /\ pc \in [Runners -> MakePc \cup ExpirePc \cup {"idle", "fail"}]
    /\ cur \in [Runners -> 0 .. MaxBackups]
    /\ cutoff \in [Runners -> -Retention .. MaxTime]
    /\ todo \in [Runners -> SUBSET Backups] /\ item \in [Runners -> 0 .. MaxBackups]
    /\ started \in [Backups -> 0 .. MaxTime]
    /\ op \in [Backups -> {"none", "running", "succeeded", "failed"}]
    /\ row \in [Backups -> BOOLEAN]
    /\ copyObj \in [Backups -> BOOLEAN] /\ metaObj \in [Backups -> BOOLEAN]
    /\ faults \in 0 .. MaxFaults

Init ==
    /\ now = 0
    /\ pc = [r \in Runners |-> "idle"] /\ cur = [r \in Runners |-> 0]
    /\ cutoff = [r \in Runners |-> -Retention]
    /\ todo = [r \in Runners |-> {}] /\ item = [r \in Runners |-> 0]
    /\ started = [b \in Backups |-> 0]
    /\ op = [b \in Backups |-> "none"]
    /\ row = [b \in Backups |-> FALSE]
    /\ copyObj = [b \in Backups |-> FALSE] /\ metaObj = [b \in Backups |-> FALSE]
    /\ faults = 0

Goto(r, p) == pc' = [pc EXCEPT ![r] = p]

\* A backup is made within the retention period.
Tick ==
    /\ now < MaxTime
    /\ \A r \in Runners : pc[r] \in MakePc => now - started[cur[r]] < Retention
    /\ now' = now + 1
    /\ UNCHANGED <<run, catalog, bucket, faults>>

-----------------------------------------------------------------------------
(* Runner.Run.                                                             *)

\* started, a new id, CreateCatalogBackupOperation.
StartRun(r, b) ==
    /\ pc[r] = "idle" /\ op[b] = "none" /\ \A a \in 1 .. b - 1 : op[a] # "none"
    /\ cur' = [cur EXCEPT ![r] = b]
    /\ started' = [started EXCEPT ![b] = now]
    /\ op' = [op EXCEPT ![b] = "running"]
    /\ Goto(r, "copy")
    /\ UNCHANGED <<now, cutoff, todo, item, row, bucket, faults>>

\* VACUUM INTO and the put of the copy; then completed is taken.
PutCopy(r) ==
    /\ pc[r] = "copy"
    /\ copyObj' = [copyObj EXCEPT ![cur[r]] = TRUE]
    /\ cutoff' = [cutoff EXCEPT ![r] = now - Retention]
    /\ Goto(r, "metadata")
    /\ UNCHANGED <<now, cur, todo, item, catalog, metaObj, faults>>

PutMetadata(r) ==
    /\ pc[r] = "metadata"
    /\ metaObj' = [metaObj EXCEPT ![cur[r]] = TRUE]
    /\ Goto(r, "record")
    /\ UNCHANGED <<now, cur, cutoff, todo, item, catalog, copyObj, faults>>

\* Mutant of RecordSucceededCatalogBackup: a status the table does not know.
RecordWrongStatus(r) ==
    /\ pc[r] = "record"
    /\ row' = [row EXCEPT ![cur[r]] = TRUE]
    /\ op' = [op EXCEPT ![cur[r]] = "complete"]
    /\ Goto(r, "list")
    /\ UNCHANGED <<now, cur, cutoff, todo, item, started, bucket, faults>>

\* One transaction: the row, and the operation succeeded.
RecordSucceededCatalogBackup(r) ==
    /\ pc[r] = "record"
    /\ row' = [row EXCEPT ![cur[r]] = TRUE]
    /\ op' = [op EXCEPT ![cur[r]] = "succeeded"]
    /\ Goto(r, "list")
    /\ UNCHANGED <<now, cur, cutoff, todo, item, started, bucket, faults>>

\* A step of the backup itself fails.
MakeFails(r) ==
    /\ pc[r] \in MakePc /\ faults < MaxFaults
    /\ faults' = faults + 1
    /\ Goto(r, "fail")
    /\ UNCHANGED <<now, cur, cutoff, todo, item, catalog, bucket>>

FailCatalogBackupOperation(r) ==
    /\ pc[r] = "fail"
    /\ op' = [op EXCEPT ![cur[r]] = "failed"]
    /\ Goto(r, "idle")
    /\ UNCHANGED <<now, cur, cutoff, todo, item, started, row, bucket, faults>>

\* The runner dies, or returns without a trace: a crash, a cancelled context
\* (then FailCatalogBackupOperation fails too), an error while expiring.
RunDies(r) ==
    /\ pc[r] # "idle" /\ faults < MaxFaults
    /\ faults' = faults + 1
    /\ Goto(r, "idle")
    /\ todo' = [todo EXCEPT ![r] = {}]
    /\ UNCHANGED <<now, cur, cutoff, item, catalog, bucket>>

-----------------------------------------------------------------------------
(* cleanupExpired.                                                         *)

\* Mutant of Expired: the comparison takes in the cutoff itself and a backup
\* that is not older than the retention.
ExpiredLateCutoff(r) == {b \in Backups : row[b] /\ started[b] <= cutoff[r] + 1}

\* ListCatalogBackupsOlderThan.
Expired(r) == {b \in Backups : row[b] /\ started[b] < cutoff[r]}

\* The rows in hand are worked off, then the list is read again; an empty one
\* ends the run.
ListExpired(r) ==
    /\ pc[r] = "list" /\ todo[r] = {}
    /\ todo' = [todo EXCEPT ![r] = Expired(r)]
    /\ Goto(r, IF Expired(r) = {} THEN "idle" ELSE "list")
    /\ UNCHANGED <<now, cur, cutoff, item, catalog, bucket, faults>>

TakeExpired(r, b) ==
    /\ pc[r] = "list" /\ b \in todo[r] /\ \A a \in todo[r] : started[b] <= started[a]
    /\ item' = [item EXCEPT ![r] = b]
    /\ todo' = [todo EXCEPT ![r] = @ \ {b}]
    /\ Goto(r, "delCopy")
    /\ UNCHANGED <<now, cur, cutoff, catalog, bucket, faults>>

DeleteCopy(r) ==
    /\ pc[r] = "delCopy"
    /\ copyObj' = [copyObj EXCEPT ![item[r]] = FALSE]
    /\ Goto(r, "delMeta")
    /\ UNCHANGED <<now, cur, cutoff, todo, item, catalog, metaObj, faults>>

\* Mutant of DeleteMetadata: the metadata object is forgotten.
DeleteMetadataSkipped(r) ==
    /\ pc[r] = "delMeta"
    /\ Goto(r, "delRow")
    /\ UNCHANGED <<now, cur, cutoff, todo, item, catalog, bucket, faults>>

DeleteMetadata(r) ==
    /\ pc[r] = "delMeta"
    /\ metaObj' = [metaObj EXCEPT ![item[r]] = FALSE]
    /\ Goto(r, "delRow")
    /\ UNCHANGED <<now, cur, cutoff, todo, item, catalog, copyObj, faults>>

\* Mutant of DeleteCatalogBackup: the row stays and is listed again.
DeleteCatalogBackupKeepsRow(r) ==
    /\ pc[r] = "delRow"
    /\ Goto(r, "list")
    /\ UNCHANGED <<now, cur, cutoff, todo, item, catalog, bucket, faults>>

DeleteCatalogBackup(r) ==
    /\ pc[r] = "delRow"
    /\ row' = [row EXCEPT ![item[r]] = FALSE]
    /\ Goto(r, "list")
    /\ UNCHANGED <<now, cur, cutoff, todo, item, started, op, bucket, faults>>

-----------------------------------------------------------------------------

Work(r) ==
    \/ PutCopy(r) \/ PutMetadata(r) \/ RecordSucceededCatalogBackup(r)
    \/ FailCatalogBackupOperation(r)
    \/ ListExpired(r) \/ (\E b \in Backups : TakeExpired(r, b))
    \/ DeleteCopy(r) \/ DeleteMetadata(r) \/ DeleteCatalogBackup(r)

Next ==
    \/ Tick
    \/ \E r \in Runners :
        \/ \E b \in Backups : StartRun(r, b)
        \/ Work(r) \/ MakeFails(r) \/ RunDies(r)

Spec == Init /\ [][Next]_vars

\* A runner that is alive goes on.
FairSpec == Spec /\ \A r \in Runners : WF_vars(Work(r))

-----------------------------------------------------------------------------
(* Properties.                                                             *)

Usable(b) == row[b] /\ copyObj[b] /\ metaObj[b]

\* A row the retention still protects can be restored from: both its objects
\* are there, whoever expires what beside it.
UnexpiredUsable ==
    \A b \in Backups : row[b] /\ now - started[b] <= Retention => Usable(b)

\* Once a backup has succeeded there is always a usable one: expiry never takes
\* the last, however long no backup was made and however runs overlap.
AlwaysOneUsable ==
    (\E b \in Backups : op[b] = "succeeded") => \E b \in Backups : Usable(b)

\* A backup that was recorded leaves nothing behind in the bucket when its row
\* is gone; until then a later run finds it again.
NothingLeaks ==
    \A b \in Backups : op[b] = "succeeded" /\ ~row[b] =>
        ~copyObj[b] /\ ~metaObj[b]

\* A run that is not killed comes to its end: expiry does not loop for ever.
RunsEnd == \A r \in Runners : pc[r] # "idle" ~> pc[r] = "idle"

=============================================================================
