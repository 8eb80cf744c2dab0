-------------------------- MODULE ValidationProofs --------------------------
(***************************************************************************)
(* Validation jobs, for any number of snapshots, requests and events and   *)
(* every limit of the scheduler.                                           *)
(***************************************************************************)
EXTENDS Validation, TLAPS, WellFoundedInduction

\* The snapshot a loop takes next is one of those left.
LEMMA FirstIsMember ==
    ASSUME NEW S \in SUBSET Snapshots, S # {}
    PROVE  First(S) \in S
<1>1. S \subseteq Nat
  BY ValidationAssumption DEF Snapshots
<1>2. PICK x \in S : \A y \in S : ~(<<y, x>> \in OpToRel(<, Nat))
  BY <1>1, NatLessThanWellFounded, WFMin
<1>3. \A y \in S : ~(y < x)
  BY <1>1, <1>2 DEF OpToRel
<1>4. \A y \in S : x <= y
  BY <1>1, <1>3
<1> QED BY <1>4 DEF First

\* The rows a job looks at are snapshots.
LEMMA ChainRowsType ==
    ASSUME TypeOK, NEW j \in Jobs
    PROVE  ChainRows(j) \subseteq Snapshots
BY DEF ChainRows, Chain, TypeOK

-----------------------------------------------------------------------------
(* Types.                                                                  *)

\* A mark is set on a row, to a value the column knows.
LEMMA MarksTyped ==
    ASSUME TypeOK, NEW s \in Snapshots, NEW m \in {"stream", "chain"}, NEW v \in Results,
           SetModeStatus(s, m, v)
    PROVE  streamVal' \in [Snapshots -> Results] /\ chainVal' \in [Snapshots -> Results]
BY DEF SetModeStatus, TypeOK

\* A goroutine that returns leaves its variables at rest.
LEMMA ReturnTyped ==
    ASSUME TypeOK, NEW j \in Jobs, Return(j)
    PROVE  /\ pc' \in [Jobs -> CheckPc \cup {"idle", "pass", "fail"}]
           /\ mode' \in [Jobs -> {"stream", "chain"}]
           /\ target' \in [Jobs -> Snapshots]
           /\ todo' \in [Jobs -> SUBSET Snapshots]
           /\ due' \in SUBSET Snapshots
           /\ bad' \in [Jobs -> SUBSET Snapshots]
<1>1. 1 \in Snapshots
  BY ValidationAssumption DEF Snapshots
<1> QED BY <1>1 DEF Return, TypeOK

LEMMA RowsOfTyped ==
    ASSUME TypeOK, NEW j \in Jobs
    PROVE  RowsOf(j) \in Rows
BY DEF RowsOf, Rows, TypeOK

\* Rows that lose their job row or their operation are rows.
LEMMA RowsWithoutJob == \A r \in Rows : [r EXCEPT !.job = FALSE] \in Rows
BY DEF Rows

LEMMA RowsWithoutOp == \A r \in Rows : [r EXCEPT !.op = FALSE] \in Rows
BY DEF Rows

\* After the fourth statement a row that is running is as it was, or it is a
\* stale job row.
LEMMA OperationsFailed ==
    ASSUME TypeOK
    PROVE  /\ \A r \in FailOperations : r.stale => r.job /\ \E q \in leftover : q.stale /\ q.job
           /\ \A r \in FailOperations : r.job => \E q \in leftover :
                  q.job /\ q.stale = r.stale /\ q.mode = r.mode /\ q.target = r.target
           /\ \A r \in leftover : r.job /\ ~r.stale => r \in FailOperations
<1>1. leftover \subseteq Rows
  BY DEF TypeOK
<1>2. \A q \in Rows : LET r == [q EXCEPT !.op = FALSE] IN
        /\ r.op = FALSE /\ r.job = q.job /\ r.stale = q.stale
        /\ r.mode = q.mode /\ r.target = q.target
  BY DEF Rows
<1> QED BY <1>1, <1>2 DEF FailOperations

LEMMA EventTyped ==
    ASSUME TypeOK, Event
    PROVE  events' \in 0 .. MaxEvents
BY ValidationAssumption DEF Event, TypeOK

\* The transaction that creates a job.
LEMMA CreateTyped ==
    ASSUME TypeOK, NEW j \in Jobs, NEW s \in Snapshots, NEW m \in {"stream", "chain"},
           CreateJob(j, s, m), due' \in SUBSET Snapshots, events' \in 0 .. MaxEvents
    PROVE  TypeOK'
<1>1. streamVal' \in [Snapshots -> Results] /\ chainVal' \in [Snapshots -> Results]
  BY MarksTyped DEF CreateJob, Results
<1>2. bad' \in [Jobs -> SUBSET Snapshots]
  BY DEF CreateJob, Chain, TypeOK
<1>3. pc' \in [Jobs -> CheckPc \cup {"idle", "pass", "fail"}]
  BY DEF CreateJob, CheckPc, TypeOK
<1> QED BY <1>1, <1>2, <1>3 DEF CreateJob, TypeOK, bucket, beside

LEMMA TypeKept == TypeOK /\ [Next]_vars => TypeOK'
<1> SUFFICES ASSUME TypeOK, [Next]_vars PROVE TypeOK'
  OBVIOUS
<1> USE DEF catalog, bucket, beside, process
<1>1. CASE UNCHANGED vars
  BY <1>1 DEF vars, threads, TypeOK
<1>2. ASSUME NEW j \in Jobs, ListChain(j) \/ VerifyManifestAndObjects(j) \/ CheckLineage(j)
      PROVE  TypeOK'
  <2>1. todo' \in [Jobs -> SUBSET Snapshots]
    BY <1>2, ChainRowsType DEF ListChain, VerifyManifestAndObjects, CheckLineage, TypeOK
  <2>2. pc' \in [Jobs -> CheckPc \cup {"idle", "pass", "fail"}]
    BY <1>2 DEF ListChain, VerifyManifestAndObjects, CheckLineage, TypeOK, CheckPc
  <2> QED BY <1>2, <2>1, <2>2 DEF ListChain, VerifyManifestAndObjects, CheckLineage, TypeOK
<1>3. ASSUME NEW j \in Jobs, CheckStream(j) PROVE TypeOK'
  <2>1. todo' \in [Jobs -> SUBSET Snapshots]
    BY <1>3 DEF CheckStream, TypeOK
  <2>2. pc' \in [Jobs -> CheckPc \cup {"idle", "pass", "fail"}]
    BY <1>3 DEF CheckStream, TypeOK, CheckPc
  <2> QED BY <1>3, <2>1, <2>2 DEF CheckStream, TypeOK
<1>4. ASSUME NEW j \in Jobs, CheckFails(j) PROVE TypeOK'
  <2>1. events' \in 0 .. MaxEvents
    BY <1>4, EventTyped DEF CheckFails
  <2>2. todo' \in [Jobs -> SUBSET Snapshots]
    BY <1>4 DEF CheckFails, TypeOK
  <2> QED BY <1>4, <2>1, <2>2 DEF CheckFails, TypeOK
<1>5. ASSUME NEW j \in Jobs, RecordSuccess(j) PROVE TypeOK'
  <2>1. streamVal' \in [Snapshots -> Results] /\ chainVal' \in [Snapshots -> Results]
    BY <1>5, MarksTyped DEF RecordSuccess, Results, TypeOK
  <2>2. recent' \in [Snapshots -> BOOLEAN]
    BY <1>5 DEF RecordSuccess, TypeOK
  <2> QED BY <1>5, <2>1, <2>2, ReturnTyped DEF RecordSuccess, TypeOK
<1>6. ASSUME NEW j \in Jobs, RecordFailure(j) PROVE TypeOK'
  <2>1. streamVal' \in [Snapshots -> Results] /\ chainVal' \in [Snapshots -> Results]
    BY <1>6, MarksTyped DEF RecordFailure, Results, TypeOK
  <2> QED BY <1>6, <2>1, ReturnTyped DEF RecordFailure, TypeOK
<1>7. ASSUME NEW j \in Jobs, ResultNotRecorded(j) PROVE TypeOK'
  <2>1. leftover' \in SUBSET Rows
    BY <1>7, RowsOfTyped DEF ResultNotRecorded, TypeOK
  <2> QED BY <1>7, <2>1, ReturnTyped, EventTyped DEF ResultNotRecorded, TypeOK
<1>8. CASE SchedulerList \/ SchedulerSkip
  BY <1>8 DEF SchedulerList, SchedulerSkip, TypeOK
<1>9. CASE SchedulerRun
  <2>1. First(due) \in Snapshots /\ due' \in SUBSET Snapshots /\ events' \in 0 .. MaxEvents
    BY <1>9, FirstIsMember DEF SchedulerRun, TypeOK
  <2> QED BY <1>9, <2>1, CreateTyped DEF SchedulerRun, Jobs
<1>10. ASSUME NEW j \in Requests, NEW s \in Snapshots, NEW m \in {"stream", "chain"},
              RequestValidation(j, s, m)
       PROVE  TypeOK'
  <2>1. due' \in SUBSET Snapshots /\ events' \in 0 .. MaxEvents
    BY <1>10, EventTyped DEF RequestValidation, TypeOK
  <2> QED BY <1>10, <2>1, CreateTyped DEF RequestValidation, Jobs
<1>11. CASE ReconcileStaleJobs
  <2>1. streamVal' \in [Snapshots -> Results] /\ chainVal' \in [Snapshots -> Results]
    BY <1>11 DEF ReconcileStaleJobs, Fail, Results, TypeOK
  <2>2. FailJobRows \in SUBSET Rows /\ FailOperations \in SUBSET Rows
    BY RowsWithoutJob, RowsWithoutOp DEF FailJobRows, FailOperations, TypeOK
  <2>3. leftover' \in SUBSET Rows
    BY <1>11, <2>2 DEF ReconcileStaleJobs, TypeOK
  <2>4. recStep' \in 1 .. 4
    BY <1>11 DEF ReconcileStaleJobs, TypeOK
  <2>5. server' \in {"down", "reconciling", "up"}
    BY <1>11 DEF ReconcileStaleJobs
  <2> QED BY <1>11, <2>1, <2>3, <2>4, <2>5 DEF ReconcileStaleJobs, TypeOK, threads
<1>12. CASE Restart
  BY <1>12 DEF Restart, TypeOK, threads
<1>13. CASE Crash
  <2>1. leftover' \in SUBSET Rows
    BY <1>13, RowsOfTyped DEF Crash, TypeOK
  <2>2. 1 \in Snapshots
    BY ValidationAssumption DEF Snapshots
  <2>3. /\ pc' \in [Jobs -> CheckPc \cup {"idle", "pass", "fail"}]
        /\ mode' \in [Jobs -> {"stream", "chain"}]
        /\ target' \in [Jobs -> Snapshots] /\ todo' \in [Jobs -> SUBSET Snapshots]
        /\ bad' \in [Jobs -> SUBSET Snapshots] /\ due' \in SUBSET Snapshots
    BY <1>13, <2>2 DEF Crash
  <2>4. upload' \in [Snapshots -> {"later", "receiving", "over"}] /\ removing' \in SUBSET Snapshots
    BY <1>13 DEF Crash, TypeOK
  <2> QED BY <1>13, <2>1, <2>3, <2>4, EventTyped DEF Crash, TypeOK
<1>14. ASSUME NEW r \in leftover, RowsAge(r) PROVE TypeOK'
  <2>1. leftover' \in SUBSET Rows
    BY <1>14 DEF RowsAge, Rows, TypeOK
  <2> QED BY <1>14, <2>1 DEF RowsAge, TypeOK, threads
<1>15. ASSUME NEW s \in Snapshots, DayPasses(s) \/ DeleteObjects(s) PROVE TypeOK'
  <2>1. CASE DayPasses(s)
    BY <2>1 DEF DayPasses, TypeOK, threads
  <2>2. CASE DeleteObjects(s)
    BY <2>2 DEF DeleteObjects, TypeOK, threads
  <2> QED BY <1>15, <2>1, <2>2
<1>16. ASSUME NEW s \in Snapshots, CommitSnapshot(s) PROVE TypeOK'
  <2>1. bad' \in [Jobs -> SUBSET Snapshots]
    BY <1>16 DEF CommitSnapshot, TypeOK
  <2> QED BY <1>16, <2>1 DEF CommitSnapshot, TypeOK
<1>17. ASSUME NEW s \in Snapshots, Rot(s) PROVE TypeOK'
  BY <1>17, EventTyped DEF Rot, TypeOK, threads
<1>18. ASSUME NEW S \in SUBSET Snapshots, InvalidateForDeletion(S) PROVE TypeOK'
  <2>1. /\ status' \in [Snapshots -> {"uploading", "committed", "deleting", "none"}]
        /\ streamVal' \in [Snapshots -> Results] /\ chainVal' \in [Snapshots -> Results]
    BY <1>18 DEF InvalidateForDeletion, TypeOK, Results
  <2>2. events' \in 0 .. MaxEvents
    BY <1>18, EventTyped DEF InvalidateForDeletion, TypeOK
  <2> QED BY <1>18, <2>1, <2>2 DEF InvalidateForDeletion, TypeOK, threads
<1>19. ASSUME NEW s \in Snapshots, DeleteRow(s) PROVE TypeOK'
  <2>1. leftover' \in SUBSET Rows
    BY <1>19, RowsWithoutJob DEF DeleteRow, TypeOK
  <2>2. /\ streamVal' \in [Snapshots -> Results] /\ chainVal' \in [Snapshots -> Results]
    BY <1>19 DEF DeleteRow, Results, TypeOK
  <2> QED BY <1>19, <2>1, <2>2 DEF DeleteRow, TypeOK, threads
<1>20. CASE DeletionFails
  BY <1>20, EventTyped DEF DeletionFails, TypeOK, threads
<1>21. ASSUME NEW s \in Snapshots, StartUpload(s) PROVE TypeOK'
  BY <1>21 DEF StartUpload, TypeOK, threads
<1> QED
  BY <1>1, <1>2, <1>3, <1>4, <1>5, <1>6, <1>7, <1>8, <1>9, <1>10, <1>11, <1>12, <1>13, <1>14,
     <1>15, <1>16, <1>17, <1>18, <1>19, <1>20, <1>21
     DEF Next, RunDue, RunJob, Environment, Jobs

\* The marks, job rows, loops of the runner and startup steps keep their types,
\* whatever the order of jobs, deletions, damage and crashes.
THEOREM ValidationTypeCorrect == Spec => []TypeOK
<1>1. Init => TypeOK
  <2> SUFFICES ASSUME Init PROVE TypeOK
    OBVIOUS
  <2>1. 1 \in Snapshots /\ 0 \in 0 .. MaxEvents
    BY ValidationAssumption DEF Snapshots
  <2> QED BY <2>1 DEF Init, TypeOK, Results
<1> QED BY <1>1, TypeKept, PTL DEF Spec

-----------------------------------------------------------------------------
(* A success is earned.                                                    *)

\* What a running job still knows about the snapshots it must not pass over.
\* They are unsound.  Once the rows were listed, the fault is in the bucket or
\* in the lineage; once a snapshot was checked only its lineage can be wrong;
\* and between its Head requests and its reading an altered one stays altered.
Earned(j) ==
    /\ \A s \in bad[j] : ~Sound(s)
    /\ pc[j] \in {"objects", "stream", "lineage", "pass"} =>
         \A s \in ChainRows(j) \cap bad[j] :
             /\ stored[s] # "good" \/ ~linked[s]
             /\ s \notin todo[j] => ~linked[s]
             /\ pc[j] = "stream" /\ s = First(todo[j]) /\ linked[s]
                  => stored[s] \in {"flipped", "gone"}
    /\ pc[j] \in {"lineage", "pass"} => todo[j] = {}
    /\ pc[j] = "pass" => ChainRows(j) \cap bad[j] = {}

AllEarned == \A j \in Jobs : Earned(j)

\* Nothing repairs a stored snapshot.
Decays ==
    /\ parent' = parent /\ linked' = linked
    /\ \A s \in Snapshots : stored'[s] = "good" => stored[s] = "good"
    /\ \A s \in Snapshots : stored[s] \in {"flipped", "gone"} => stored'[s] \in {"flipped", "gone"}

LEMMA BucketDecays == TypeOK /\ [Next]_vars => Decays
<1> SUFFICES ASSUME TypeOK, [Next]_vars PROVE Decays
  OBVIOUS
<1> USE DEF Decays, TypeOK, bucket, catalog
<1>1. CASE UNCHANGED vars
  BY <1>1 DEF vars
<1>2. ASSUME NEW j \in Jobs, RunJob(j) PROVE Decays
  BY <1>2 DEF RunJob, ListChain, VerifyManifestAndObjects, CheckStream, CheckLineage,
     RecordSuccess, RecordFailure
<1>3. ASSUME NEW j \in Jobs, CheckFails(j) \/ ResultNotRecorded(j) PROVE Decays
  BY <1>3 DEF CheckFails, ResultNotRecorded
<1>4. CASE SchedulerList \/ SchedulerSkip \/ SchedulerRun
  BY <1>4 DEF SchedulerList, SchedulerSkip, SchedulerRun, CreateJob
<1>5. ASSUME NEW j \in Requests, NEW s \in Snapshots, NEW m \in {"stream", "chain"},
             RequestValidation(j, s, m)
      PROVE  Decays
  BY <1>5 DEF RequestValidation, CreateJob
<1>6. CASE ReconcileStaleJobs \/ Restart \/ Crash \/ \E r \in leftover : RowsAge(r)
  BY <1>6 DEF ReconcileStaleJobs, Restart, Crash, RowsAge
<1>7. ASSUME NEW s \in Snapshots,
             DayPasses(s) \/ StartUpload(s) \/ CommitSnapshot(s) \/ DeleteRow(s)
      PROVE  Decays
  BY <1>7 DEF DayPasses, StartUpload, CommitSnapshot, DeleteRow
<1>8. ASSUME NEW s \in Snapshots, Rot(s) \/ DeleteObjects(s) PROVE Decays
  BY <1>8 DEF Rot, DeleteObjects
<1>9. ASSUME NEW S \in SUBSET Snapshots, InvalidateForDeletion(S) PROVE Decays
  BY <1>9 DEF InvalidateForDeletion
<1>10. CASE DeletionFails
  BY <1>10 DEF DeletionFails
<1> QED
  BY <1>1, <1>2, <1>3, <1>4, <1>5, <1>6, <1>7, <1>8, <1>9, <1>10 DEF Next, RunDue, Environment, Jobs

\* A step that leaves goroutine k alone.
LEMMA Untouched ==
    ASSUME TypeOK, Decays, NEW k \in Jobs, Earned(k),
           pc'[k] = pc[k], mode'[k] = mode[k], target'[k] = target[k], todo'[k] = todo[k],
           bad'[k] \subseteq bad[k],
           \A s \in bad'[k] : ~(Sound(s)')
    PROVE  Earned(k)'
<1>1. ChainRows(k)' = ChainRows(k)
  BY DEF ChainRows, Chain, Decays
<1>2. ChainRows(k) \subseteq Snapshots
  BY ChainRowsType
<1> QED BY <1>1, <1>2 DEF Earned, Decays

\* A step that changes no status and no object.
Still == status' = status /\ stored' = stored /\ linked' = linked /\ parent' = parent

LEMMA StillUnsound == ASSUME Still, NEW s PROVE Sound(s)' <=> Sound(s)
BY DEF Still, Sound

\* A goroutine at rest, or about to start or to fail, has passed over nothing.
LEMMA NothingPassed ==
    ASSUME NEW k \in Jobs, pc'[k] \in {"idle", "list", "fail"}, \A s \in bad'[k] : ~(Sound(s)')
    PROVE  Earned(k)'
BY DEF Earned

\* A step of goroutine j alone.
LEMMA OthersEarned ==
    ASSUME TypeOK, AllEarned, Decays, Still, NEW j \in Jobs,
           \A k \in Jobs \ {j} : /\ pc'[k] = pc[k] /\ mode'[k] = mode[k]
                                 /\ target'[k] = target[k] /\ todo'[k] = todo[k]
                                 /\ bad'[k] = bad[k],
           Earned(j)'
    PROVE  AllEarned'
<1>1. ASSUME NEW k \in Jobs \ {j} PROVE Earned(k)'
  <2>1. Earned(k)
    BY DEF AllEarned
  <2>2. \A s \in bad'[k] : ~(Sound(s)')
    BY <2>1, StillUnsound DEF Earned
  <2> QED BY <2>1, <2>2, Untouched
<1> QED BY <1>1 DEF AllEarned

\* The bad snapshots of j were unsound and nothing was repaired.
LEMMA BadStaysUnsound ==
    ASSUME AllEarned, Still, NEW j \in Jobs, bad'[j] \subseteq bad[j]
    PROVE  \A s \in bad'[j] : ~(Sound(s)')
BY StillUnsound DEF AllEarned, Earned

LEMMA ChainRowsKept ==
    ASSUME NEW j \in Jobs, parent' = parent, mode'[j] = mode[j], target'[j] = target[j]
    PROVE  ChainRows(j)' = ChainRows(j)
BY DEF ChainRows, Chain

LEMMA ListChainEarned ==
    ASSUME TypeOK, AllEarned, Decays, NEW j \in Jobs, ListChain(j)
    PROVE  AllEarned'
<1>1. Still
  BY DEF ListChain, Still, catalog, bucket
<1>2. bad' = bad /\ mode' = mode /\ target' = target
  BY DEF ListChain
<1>3. \A s \in bad'[j] : ~(Sound(s)')
  BY <1>1, <1>2, BadStaysUnsound
<1>4. ChainRows(j)' = ChainRows(j)
  BY <1>1, <1>2, ChainRowsKept DEF Still
<1>5. Earned(j)'
  <2>1. CASE pc'[j] = "fail"
    BY <1>3, <2>1, NothingPassed
  <2>2. CASE pc'[j] # "fail"
    <3>1. /\ pc'[j] = "objects" /\ todo'[j] = ChainRows(j)
          /\ \A s \in ChainRows(j) : status[s] = "committed"
      BY <2>2 DEF ListChain, TypeOK
    <3>2. \A s \in ChainRows(j) \cap bad[j] : stored[s] # "good" \/ ~linked[s]
      BY <3>1 DEF AllEarned, Earned, Sound
    <3> QED BY <1>1, <1>2, <1>3, <1>4, <3>1, <3>2 DEF Earned, Still
  <2> QED BY <2>1, <2>2
<1>6. \A k \in Jobs \ {j} : pc'[k] = pc[k] /\ todo'[k] = todo[k]
  BY DEF ListChain, TypeOK
<1> QED BY <1>1, <1>2, <1>5, <1>6, OthersEarned

LEMMA ObjectsEarned ==
    ASSUME TypeOK, AllEarned, Decays, NEW j \in Jobs, VerifyManifestAndObjects(j)
    PROVE  AllEarned'
<1>1. Still
  BY DEF VerifyManifestAndObjects, Still, catalog, bucket
<1>2. bad' = bad /\ mode' = mode /\ target' = target /\ todo' = todo /\ pc[j] = "objects"
  BY DEF VerifyManifestAndObjects
<1>3. \A s \in bad'[j] : ~(Sound(s)')
  BY <1>1, <1>2, BadStaysUnsound
<1>4. ChainRows(j)' = ChainRows(j)
  BY <1>1, <1>2, ChainRowsKept DEF Still
<1>5. Earned(j)'
  <2>1. CASE pc'[j] = "fail"
    BY <1>3, <2>1, NothingPassed
  <2>2. CASE pc'[j] # "fail"
    <3>1. pc'[j] = "stream" /\ stored[First(todo[j])] \in {"good", "flipped"}
      BY <2>2 DEF VerifyManifestAndObjects, TypeOK
    <3>2. \A s \in ChainRows(j) \cap bad[j] :
            (stored[s] # "good" \/ ~linked[s]) /\ (s \notin todo[j] => ~linked[s])
      BY <1>2 DEF AllEarned, Earned
    <3> QED BY <1>1, <1>2, <1>3, <1>4, <3>1, <3>2 DEF Earned, Still
  <2> QED BY <2>1, <2>2
<1>6. \A k \in Jobs \ {j} : pc'[k] = pc[k]
  BY DEF VerifyManifestAndObjects, TypeOK
<1> QED BY <1>1, <1>2, <1>5, <1>6, OthersEarned

LEMMA StreamEarned ==
    ASSUME TypeOK, AllEarned, Decays, NEW j \in Jobs, CheckStream(j)
    PROVE  AllEarned'
<1>1. Still
  BY DEF CheckStream, Still, catalog, bucket
<1>2. bad' = bad /\ mode' = mode /\ target' = target /\ pc[j] = "stream"
  BY DEF CheckStream
<1>3. \A s \in bad'[j] : ~(Sound(s)')
  BY <1>1, <1>2, BadStaysUnsound
<1>4. ChainRows(j)' = ChainRows(j)
  BY <1>1, <1>2, ChainRowsKept DEF Still
<1>5. Earned(j)'
  <2>1. CASE pc'[j] = "fail"
    BY <1>3, <2>1, NothingPassed
  <2>2. CASE pc'[j] # "fail"
    <3>1. /\ pc'[j] \in {"lineage", "objects"} /\ (pc'[j] = "lineage" => todo'[j] = {})
          /\ stored[First(todo[j])] \in {"good", "noManifest"}
          /\ todo'[j] = todo[j] \ {First(todo[j])}
      BY <2>2 DEF CheckStream, TypeOK
    <3>2. \A s \in ChainRows(j) \cap bad[j] :
            /\ stored[s] # "good" \/ ~linked[s]
            /\ s \notin todo[j] => ~linked[s]
            /\ s = First(todo[j]) /\ linked[s] => stored[s] \in {"flipped", "gone"}
      BY <1>2 DEF AllEarned, Earned
    <3>3. \A s \in ChainRows(j) \cap bad[j] : s \notin todo'[j] => ~linked[s]
      BY <3>1, <3>2
    <3> QED BY <1>1, <1>2, <1>3, <1>4, <3>1, <3>2, <3>3 DEF Earned, Still
  <2> QED BY <2>1, <2>2
<1>6. \A k \in Jobs \ {j} : pc'[k] = pc[k] /\ todo'[k] = todo[k]
  BY DEF CheckStream, TypeOK
<1> QED BY <1>1, <1>2, <1>5, <1>6, OthersEarned

LEMMA LineageEarned ==
    ASSUME TypeOK, AllEarned, Decays, NEW j \in Jobs, CheckLineage(j)
    PROVE  AllEarned'
<1>1. Still
  BY DEF CheckLineage, Still, catalog, bucket
<1>2. bad' = bad /\ mode' = mode /\ target' = target /\ todo' = todo /\ pc[j] = "lineage"
  BY DEF CheckLineage
<1>3. \A s \in bad'[j] : ~(Sound(s)')
  BY <1>1, <1>2, BadStaysUnsound
<1>4. ChainRows(j)' = ChainRows(j)
  BY <1>1, <1>2, ChainRowsKept DEF Still
<1>5. Earned(j)'
  <2>1. CASE pc'[j] = "fail"
    BY <1>3, <2>1, NothingPassed
  <2>2. CASE pc'[j] # "fail"
    <3>1. pc'[j] = "pass" /\ \A t \in ChainRows(j) : linked[t]
      BY <2>2 DEF CheckLineage, TypeOK
    <3>2. todo[j] = {} /\ \A s \in ChainRows(j) \cap bad[j] : ~linked[s]
      BY <1>2 DEF AllEarned, Earned
    <3>3. ChainRows(j) \cap bad[j] = {}
      BY <3>1, <3>2
    <3> QED BY <1>2, <1>3, <1>4, <3>1, <3>2, <3>3 DEF Earned
  <2> QED BY <2>1, <2>2
<1>6. \A k \in Jobs \ {j} : pc'[k] = pc[k]
  BY DEF CheckLineage, TypeOK
<1> QED BY <1>1, <1>2, <1>5, <1>6, OthersEarned

\* Starting a job: bad is read off the state the job starts in.
LEMMA CreateEarned ==
    ASSUME TypeOK, AllEarned, Decays, NEW j \in Jobs, NEW s, NEW m, CreateJob(j, s, m)
    PROVE  AllEarned'
<1>1. Still
  BY DEF CreateJob, Still, bucket
<1>2. Earned(j)'
  <2>1. pc'[j] = "list" /\ \A t \in bad'[j] : ~Sound(t)
    BY DEF CreateJob, TypeOK
  <2> QED BY <1>1, <2>1, StillUnsound, NothingPassed
<1>3. \A k \in Jobs \ {j} : /\ pc'[k] = pc[k] /\ mode'[k] = mode[k]
                            /\ target'[k] = target[k] /\ todo'[k] = todo[k]
                            /\ bad'[k] = bad[k]
  BY DEF CreateJob, TypeOK
<1> QED BY <1>1, <1>2, <1>3, OthersEarned

\* A job that ends, well or badly.
LEMMA EndEarned ==
    ASSUME TypeOK, AllEarned, Decays, NEW j \in Jobs,
           RecordSuccess(j) \/ RecordFailure(j) \/ ResultNotRecorded(j) \/ CheckFails(j)
    PROVE  AllEarned'
<1>1. Still
  BY DEF RecordSuccess, RecordFailure, ResultNotRecorded, CheckFails, Still, catalog, bucket
<1>2. pc'[j] \in {"idle", "fail"} /\ bad'[j] \subseteq bad[j]
  BY DEF RecordSuccess, RecordFailure, ResultNotRecorded, CheckFails, Return, TypeOK
<1>3. Earned(j)'
  BY <1>1, <1>2, BadStaysUnsound, NothingPassed
<1>4. \A k \in Jobs \ {j} : /\ pc'[k] = pc[k] /\ mode'[k] = mode[k]
                            /\ target'[k] = target[k] /\ todo'[k] = todo[k]
                            /\ bad'[k] = bad[k]
  BY DEF RecordSuccess, RecordFailure, ResultNotRecorded, CheckFails, Return, TypeOK
<1> QED BY <1>1, <1>3, <1>4, OthersEarned

\* No goroutine moves, and no sound snapshot appears among the bad ones.
LEMMA AllUntouched ==
    ASSUME TypeOK, AllEarned, Decays, UNCHANGED <<pc, mode, target, todo>>,
           \A k \in Jobs : bad'[k] \subseteq bad[k],
           \A k \in Jobs : \A s \in bad'[k] : ~(Sound(s)')
    PROVE  AllEarned'
BY Untouched DEF AllEarned

LEMMA EarnedKept == TypeOK /\ AllEarned /\ [Next]_vars => AllEarned'
<1> SUFFICES ASSUME TypeOK, AllEarned, [Next]_vars PROVE AllEarned'
  OBVIOUS
<1>1. Decays
  BY BucketDecays
<1>2. ASSUME NEW j \in Jobs, RunJob(j) PROVE AllEarned'
  BY <1>1, <1>2, ListChainEarned, ObjectsEarned, StreamEarned, LineageEarned, EndEarned
     DEF RunJob
<1>3. ASSUME NEW j \in Jobs, CheckFails(j) \/ ResultNotRecorded(j) PROVE AllEarned'
  BY <1>1, <1>3, EndEarned
<1>4. CASE SchedulerRun
  BY <1>1, <1>4, CreateEarned DEF SchedulerRun, Jobs
<1>5. ASSUME NEW j \in Requests, NEW s \in Snapshots, NEW m \in {"stream", "chain"},
             RequestValidation(j, s, m)
      PROVE  AllEarned'
  BY <1>1, <1>5, CreateEarned DEF RequestValidation, Jobs
<1>6. CASE \/ UNCHANGED vars \/ SchedulerList \/ SchedulerSkip \/ ReconcileStaleJobs \/ Restart
           \/ (\E r \in leftover : RowsAge(r)) \/ (\E s \in Snapshots : DayPasses(s))
           \/ DeletionFails
  <2>1. Still /\ UNCHANGED <<pc, mode, target, todo, bad>>
    BY <1>6 DEF vars, SchedulerList, SchedulerSkip, ReconcileStaleJobs, Restart, RowsAge,
       DayPasses, DeletionFails, Still, catalog, bucket, threads
  <2>2. \A k \in Jobs : \A s \in bad'[k] : ~(Sound(s)')
    BY <2>1, BadStaysUnsound
  <2> QED BY <1>1, <2>1, <2>2, AllUntouched
<1>7. CASE Crash
  <2>1. \A k \in Jobs : pc'[k] = "idle" /\ bad'[k] = {}
    BY <1>7 DEF Crash
  <2> QED BY <2>1, NothingPassed DEF AllEarned
<1>8. ASSUME NEW s \in Snapshots, CommitSnapshot(s) PROVE AllEarned'
  <2>1. /\ UNCHANGED <<pc, mode, target, todo, stored, linked>>
        /\ status' = [status EXCEPT ![s] = "committed"]
        /\ \A k \in Jobs : bad'[k] = IF linked[s] /\ stored[s] = "good" THEN bad[k] \ {s} ELSE bad[k]
    BY <1>8 DEF CommitSnapshot, bucket
  <2>2. ASSUME NEW k \in Jobs, NEW t \in bad'[k] PROVE ~(Sound(t)')
    <3>1. t \in bad[k] /\ t \in Snapshots /\ ~Sound(t)
      BY <2>1, <2>2 DEF AllEarned, Earned, TypeOK
    <3> QED BY <2>1, <2>2, <3>1 DEF Sound, TypeOK
  <2> QED BY <1>1, <2>1, <2>2, AllUntouched
<1>9. ASSUME NEW s \in Snapshots, Rot(s) \/ DeleteObjects(s) \/ DeleteRow(s) \/ StartUpload(s)
      PROVE  AllEarned'
  <2>1. /\ UNCHANGED <<pc, mode, target, todo, bad>>
        /\ \A t \in Snapshots : status'[t] = "committed" => status[t] = "committed"
    BY <1>9 DEF Rot, DeleteObjects, DeleteRow, StartUpload, catalog, threads, TypeOK
  <2>2. ASSUME NEW k \in Jobs, NEW t \in bad'[k] PROVE ~(Sound(t)')
    BY <1>1, <2>1, <2>2 DEF AllEarned, Earned, Sound, Decays, TypeOK
  <2> QED BY <1>1, <2>1, <2>2, AllUntouched
<1>10. ASSUME NEW S \in SUBSET Snapshots, InvalidateForDeletion(S) PROVE AllEarned'
  <2>1. /\ UNCHANGED <<pc, mode, target, todo, bad>>
        /\ \A t \in Snapshots : status'[t] = "committed" => status[t] = "committed"
    BY <1>10 DEF InvalidateForDeletion, threads, TypeOK
  <2>2. ASSUME NEW k \in Jobs, NEW t \in bad'[k] PROVE ~(Sound(t)')
    BY <1>1, <2>1, <2>2 DEF AllEarned, Earned, Sound, Decays, TypeOK
  <2> QED BY <1>1, <2>1, <2>2, AllUntouched
<1> QED
  BY <1>2, <1>3, <1>4, <1>5, <1>6, <1>7, <1>8, <1>9, <1>10 DEF Next, RunDue, Environment, Jobs

\* However requests, the scheduler, deletions and damage interleave with the
\* reads of a job, runOneMode reports success only over snapshots none of which
\* was missing, altered, uncommitted or wrongly linked since before it began.
THEOREM SuccessIsAlwaysEarned == Spec => []SuccessIsEarned
<1>1. Init => AllEarned
  BY DEF Init, AllEarned, Earned
<1>2. AllEarned => SuccessIsEarned
  BY DEF AllEarned, Earned, SuccessIsEarned
<1> QED BY <1>1, <1>2, EarnedKept, ValidationTypeCorrect, PTL DEF Spec

-----------------------------------------------------------------------------
(* Marks and job rows.                                                     *)

\* The mark of mode m on s.
Mark(s, m) == IF m = "stream" THEN streamVal[s] ELSE chainVal[s]

Modes == {"stream", "chain"}

\* A row that is gone bears no mark, so the job row of a running mark is there.
NoRowNoMark ==
    \A s \in Snapshots, m \in Modes : status[s] = "none" => Mark(s, m) = "pending"

\* Jobs run only while the server is up.
JobsNeedServer == server # "up" => \A j \in Jobs : pc[j] = "idle"

\* The startup has already failed the marks whose job rows it is about to fail.
MarksBeforeRows ==
    /\ server # "reconciling" => recStep = 1
    /\ recStep >= 2 => \A s \in Snapshots : streamVal[s] = "running" => ~StaleRunning(s, "stream")
    /\ recStep >= 3 => \A s \in Snapshots : chainVal[s] = "running" => ~StaleRunning(s, "chain")
    /\ recStep >= 4 => \A r \in leftover : r.stale => ~r.job

MarkHasJob ==
    \A s \in Snapshots, m \in Modes : Mark(s, m) = "running" => HasRunningJob(s, m)

MarkInv == NoRowNoMark /\ JobsNeedServer /\ MarksBeforeRows /\ MarkHasJob

\* SetModeStatus changes the mark of one mode of one snapshot that has a row.
LEMMA MarkAfterSet ==
    ASSUME TypeOK, NEW s \in Snapshots, NEW m \in Modes, NEW v, SetModeStatus(s, m, v),
           NEW t \in Snapshots, NEW n \in Modes
    PROVE  Mark(t, n)' = IF t = s /\ n = m /\ status[s] # "none" THEN v ELSE Mark(t, n)
BY DEF SetModeStatus, Mark, Modes, TypeOK

\* A step inside the checks, or one that changes neither marks nor running jobs.
LEMMA MarksUntouched ==
    ASSUME TypeOK, MarkInv, UNCHANGED <<streamVal, chainVal, leftover, mode, target, server, recStep>>,
           \A s \in Snapshots : status'[s] = "none" => status[s] = "none",
           \A j \in Jobs : pc'[j] = "idle" <=> pc[j] = "idle"
    PROVE  MarkInv'
<1>1. NoRowNoMark' /\ JobsNeedServer'
  BY DEF MarkInv, NoRowNoMark, Mark, JobsNeedServer
<1>2. MarksBeforeRows'
  BY DEF MarkInv, MarksBeforeRows, StaleRunning
<1>3. MarkHasJob'
  BY DEF MarkInv, MarkHasJob, Mark, HasRunningJob
<1> QED BY <1>1, <1>2, <1>3 DEF MarkInv

LEMMA CreateMarked ==
    ASSUME TypeOK, MarkInv, NEW j \in Jobs, NEW s \in Snapshots, NEW m \in Modes,
           CreateJob(j, s, m)
    PROVE  MarkInv'
<1>1. /\ status' = status /\ leftover' = leftover /\ server' = "up" /\ recStep' = recStep
      /\ status[s] # "none" /\ server = "up" /\ recStep = 1
      /\ pc'[j] = "list" /\ mode'[j] = m /\ target'[j] = s /\ pc[j] = "idle"
      /\ \A k \in Jobs \ {j} : pc'[k] = pc[k] /\ mode'[k] = mode[k] /\ target'[k] = target[k]
  BY DEF CreateJob, TypeOK, MarkInv, MarksBeforeRows
<1>2. \A t \in Snapshots, n \in Modes :
        Mark(t, n)' = IF t = s /\ n = m THEN "running" ELSE Mark(t, n)
  BY <1>1, MarkAfterSet DEF CreateJob
<1>3. NoRowNoMark' /\ JobsNeedServer'
  BY <1>1, <1>2 DEF MarkInv, NoRowNoMark, JobsNeedServer
<1>4. MarksBeforeRows'
  BY <1>1 DEF MarksBeforeRows
<1>5. MarkHasJob'
  BY <1>1, <1>2 DEF MarkInv, MarkHasJob, HasRunningJob
<1> QED BY <1>3, <1>4, <1>5 DEF MarkInv

\* The last transaction: the mark of the job that ends is no longer running.
LEMMA ResultMarked ==
    ASSUME TypeOK, MarkInv, NEW j \in Jobs, RecordSuccess(j) \/ RecordFailure(j)
    PROVE  MarkInv'
<1>1. /\ status' = status /\ leftover' = leftover /\ server' = server /\ recStep' = recStep
      /\ pc[j] # "idle" /\ pc'[j] = "idle" /\ target[j] \in Snapshots /\ mode[j] \in Modes
      /\ \A k \in Jobs \ {j} : pc'[k] = pc[k] /\ mode'[k] = mode[k] /\ target'[k] = target[k]
  BY DEF RecordSuccess, RecordFailure, Return, TypeOK, process, Modes
<1>2. server = "up" /\ recStep = 1
  BY <1>1 DEF MarkInv, JobsNeedServer, MarksBeforeRows
<1>3. PICK v \in {"succeeded", "failed"} : SetModeStatus(target[j], mode[j], v)
  BY DEF RecordSuccess, RecordFailure
<1>4. \A t \in Snapshots, n \in Modes :
        Mark(t, n)' = IF t = target[j] /\ n = mode[j] /\ status[t] # "none" THEN v ELSE Mark(t, n)
  BY <1>1, <1>3, MarkAfterSet
<1>5. NoRowNoMark' /\ JobsNeedServer'
  BY <1>1, <1>2, <1>4 DEF MarkInv, NoRowNoMark, JobsNeedServer
<1>6. MarksBeforeRows'
  BY <1>1, <1>2 DEF MarksBeforeRows
<1>7. MarkHasJob'
  <2>1. ASSUME NEW t \in Snapshots, NEW n \in Modes, Mark(t, n)' = "running"
        PROVE  HasRunningJob(t, n)'
    <3>1. Mark(t, n) = "running" /\ status[t] # "none"
      BY <1>4, <2>1 DEF MarkInv, NoRowNoMark
    <3>2. ~(t = target[j] /\ n = mode[j])
      BY <1>4, <2>1, <3>1
    <3>3. HasRunningJob(t, n)
      BY <3>1 DEF MarkInv, MarkHasJob
    <3> QED BY <1>1, <3>2, <3>3 DEF HasRunningJob
  <2> QED BY <2>1 DEF MarkHasJob
<1> QED BY <1>5, <1>6, <1>7 DEF MarkInv

\* The rows a dying goroutine leaves behind stand for it.
LEMMA LeftoverStandsIn ==
    ASSUME TypeOK, NEW j \in Jobs, NEW s \in Snapshots, NEW m \in Modes,
           mode[j] = m, target[j] = s, status[s] # "none"
    PROVE  RowsOf(j).job /\ RowsOf(j).mode = m /\ RowsOf(j).target = s
BY DEF RowsOf

LEMMA UnrecordedMarked ==
    ASSUME TypeOK, MarkInv, NEW j \in Jobs, ResultNotRecorded(j)
    PROVE  MarkInv'
<1>1. /\ UNCHANGED <<status, streamVal, chainVal, server, recStep>>
      /\ leftover' = leftover \cup {RowsOf(j)}
      /\ pc[j] # "idle" /\ pc'[j] = "idle"
      /\ \A k \in Jobs \ {j} : pc'[k] = pc[k] /\ mode'[k] = mode[k] /\ target'[k] = target[k]
  BY DEF ResultNotRecorded, Return, TypeOK
<1>2. server = "up" /\ recStep = 1
  BY <1>1 DEF MarkInv, JobsNeedServer, MarksBeforeRows
<1>3. NoRowNoMark' /\ JobsNeedServer'
  BY <1>1, <1>2 DEF MarkInv, NoRowNoMark, Mark, JobsNeedServer
<1>4. MarksBeforeRows'
  BY <1>1, <1>2 DEF MarksBeforeRows
<1>5. MarkHasJob'
  <2>1. ASSUME NEW t \in Snapshots, NEW n \in Modes, Mark(t, n)' = "running"
        PROVE  HasRunningJob(t, n)'
    <3>1. Mark(t, n) = "running" /\ status[t] # "none"
      BY <1>1, <2>1 DEF MarkInv, NoRowNoMark, Mark
    <3>2. HasRunningJob(t, n)
      BY <3>1 DEF MarkInv, MarkHasJob
    <3>3. CASE t = target[j] /\ n = mode[j]
      BY <1>1, <3>1, <3>3, LeftoverStandsIn DEF HasRunningJob
    <3>4. CASE ~(t = target[j] /\ n = mode[j])
      BY <1>1, <3>2, <3>4 DEF HasRunningJob
    <3> QED BY <3>3, <3>4
  <2> QED BY <2>1 DEF MarkHasJob
<1> QED BY <1>3, <1>4, <1>5 DEF MarkInv

LEMMA CrashMarked ==
    ASSUME TypeOK, MarkInv, Crash
    PROVE  MarkInv'
<1>1. /\ UNCHANGED <<status, streamVal, chainVal>> /\ server' = "down" /\ recStep' = 1
      /\ leftover' = leftover \cup {RowsOf(j) : j \in {k \in Jobs : pc[k] # "idle"}}
      /\ pc' = [j \in Jobs |-> "idle"]
  BY DEF Crash
<1>2. NoRowNoMark' /\ JobsNeedServer'
  BY <1>1 DEF MarkInv, NoRowNoMark, Mark, JobsNeedServer
<1>3. MarksBeforeRows'
  BY <1>1 DEF MarksBeforeRows
<1>4. ASSUME NEW t \in Snapshots, NEW n \in Modes, Mark(t, n)' = "running"
      PROVE  HasRunningJob(t, n)'
  <2>1. Mark(t, n) = "running" /\ status[t] # "none"
    BY <1>1, <1>4 DEF MarkInv, NoRowNoMark, Mark
  <2>2. HasRunningJob(t, n)
    BY <2>1 DEF MarkInv, MarkHasJob
  <2>3. ASSUME NEW j \in Jobs, pc[j] # "idle", mode[j] = n, target[j] = t
        PROVE  HasRunningJob(t, n)'
    <3>1. RowsOf(j) \in leftover'
      BY <1>1, <2>3
    <3> QED BY <2>1, <2>3, <3>1, LeftoverStandsIn DEF HasRunningJob
  <2> QED BY <1>1, <2>2, <2>3 DEF HasRunningJob
<1> QED BY <1>2, <1>3, <1>4 DEF MarkInv, MarkHasJob

\* One statement of the startup reconciliation.
LEMMA ReconcileMarked ==
    ASSUME TypeOK, MarkInv, ReconcileStaleJobs
    PROVE  MarkInv'
<1>1. /\ UNCHANGED <<status, pc, mode, target>> /\ server = "reconciling"
      /\ server' = (IF recStep = 4 THEN "up" ELSE "reconciling")
      /\ recStep' = (IF recStep = 4 THEN 1 ELSE recStep + 1)
      /\ recStep \in 1 .. 4 /\ leftover \in SUBSET Rows
      /\ streamVal' = (IF recStep = 1 THEN Fail(streamVal, "stream") ELSE streamVal)
      /\ chainVal' = (IF recStep = 2 THEN Fail(chainVal, "chain") ELSE chainVal)
  BY DEF ReconcileStaleJobs, threads, TypeOK
<1>2. \A j \in Jobs : pc[j] = "idle"
  BY <1>1 DEF MarkInv, JobsNeedServer
<1>3. \A t \in Snapshots, n \in Modes :
        /\ Mark(t, n)' = "running" => Mark(t, n) = "running"
        /\ Mark(t, n) = "pending" => Mark(t, n)' = "pending"
  BY <1>1 DEF Mark, Fail, TypeOK
<1>4. NoRowNoMark' /\ JobsNeedServer'
  BY <1>1, <1>2, <1>3 DEF MarkInv, NoRowNoMark, JobsNeedServer
<1>5. /\ recStep \in {1, 2} => leftover' = leftover
      /\ recStep = 3 => leftover' = FailJobRows
      /\ recStep = 4 => leftover' = FailOperations
  BY <1>1 DEF ReconcileStaleJobs
<1>6. \A t \in Snapshots, n \in Modes : StaleRunning(t, n)' => StaleRunning(t, n)
  <2>1. CASE recStep \in {1, 2}
    BY <1>5, <2>1 DEF StaleRunning
  <2>3. CASE recStep = 4
    BY <1>5, <2>3, OperationsFailed DEF StaleRunning
  <2>2. CASE recStep = 3
    <3>1. \A r \in FailJobRows : r.job /\ r.stale => r \in leftover
      BY <1>1 DEF FailJobRows, Rows
    <3> QED BY <1>5, <2>2, <3>1 DEF StaleRunning
  <2> QED BY <1>1, <2>1, <2>2, <2>3
<1>7. MarksBeforeRows'
  <2>1. recStep = 1 => \A s \in Snapshots : streamVal'[s] = "running" => ~StaleRunning(s, "stream")
    BY <1>1 DEF Fail
  <2>2. recStep = 2 => \A s \in Snapshots : chainVal'[s] = "running" => ~StaleRunning(s, "chain")
    BY <1>1 DEF Fail
  <2>3. recStep \in {2, 3} =>
          \A s \in Snapshots : streamVal'[s] = "running" => ~StaleRunning(s, "stream")
    BY <1>1 DEF MarkInv, MarksBeforeRows
  <2>4. recStep = 3 => \A s \in Snapshots : chainVal'[s] = "running" => ~StaleRunning(s, "chain")
    BY <1>1 DEF MarkInv, MarksBeforeRows
  <2>5. recStep = 3 => \A r \in leftover' : r.stale => ~r.job
    <3>1. \A r \in FailJobRows : r.stale => ~r.job
      BY <1>1 DEF FailJobRows, Rows
    <3> QED BY <1>5, <3>1
  <2> QED BY <1>1, <1>6, <2>1, <2>2, <2>3, <2>4, <2>5 DEF MarksBeforeRows, Modes
<1>8. ASSUME NEW t \in Snapshots, NEW n \in Modes, Mark(t, n)' = "running"
      PROVE  HasRunningJob(t, n)'
  <2>1. HasRunningJob(t, n)
    BY <1>3, <1>8 DEF MarkInv, MarkHasJob
  <2>2. PICK r \in leftover : r.job /\ r.mode = n /\ r.target = t
    BY <1>2, <2>1 DEF HasRunningJob
  <2>3. recStep \in {3, 4} => ~r.stale
    BY <1>1, <1>3, <1>8, <2>2 DEF MarkInv, MarksBeforeRows, StaleRunning, Mark, Modes
  <2>4. r \in leftover'
    BY <1>1, <1>5, <2>2, <2>3, OperationsFailed DEF FailJobRows
  <2> QED BY <2>2, <2>4 DEF HasRunningJob
<1> QED BY <1>4, <1>7, <1>8 DEF MarkInv, MarkHasJob

\* A leftover row of a running mark is replaced by one that says the same.
LEMMA AgeMarked ==
    ASSUME TypeOK, MarkInv, NEW r \in leftover, RowsAge(r)
    PROVE  MarkInv'
<1>1. /\ UNCHANGED <<status, streamVal, chainVal, pc, mode, target, server, recStep>>
      /\ server = "down" /\ recStep = 1 /\ r \in Rows
      /\ leftover' = (leftover \ {r}) \cup {[r EXCEPT !.stale = TRUE]}
  BY DEF RowsAge, threads, process, TypeOK, MarkInv, MarksBeforeRows
<1>2. NoRowNoMark' /\ JobsNeedServer' /\ MarksBeforeRows'
  BY <1>1 DEF MarkInv, NoRowNoMark, Mark, JobsNeedServer, MarksBeforeRows
<1>3. LET new == [r EXCEPT !.stale = TRUE]
      IN  new.job = r.job /\ new.mode = r.mode /\ new.target = r.target
  BY <1>1 DEF Rows
<1>4. ASSUME NEW t \in Snapshots, NEW n \in Modes, HasRunningJob(t, n)
      PROVE  HasRunningJob(t, n)'
  BY <1>1, <1>3, <1>4 DEF HasRunningJob
<1> QED BY <1>1, <1>2, <1>4 DEF MarkInv, MarkHasJob, Mark

\* The deletion of a snapshot row takes its marks and its job rows together.
LEMMA DeleteMarked ==
    ASSUME TypeOK, MarkInv, NEW s \in Snapshots, DeleteRow(s)
    PROVE  MarkInv'
<1>1. /\ UNCHANGED <<pc, mode, target, server, recStep>> /\ server = "up" /\ recStep = 1
      /\ leftover \in SUBSET Rows
      /\ leftover' = {IF r.target = s THEN [r EXCEPT !.job = FALSE] ELSE r : r \in leftover}
  BY DEF DeleteRow, threads, process, TypeOK, MarkInv, MarksBeforeRows
<1>2. \A t \in Snapshots, n \in Modes :
        Mark(t, n)' = IF t = s THEN "pending" ELSE Mark(t, n)
  BY DEF DeleteRow, Mark, TypeOK
<1>3. NoRowNoMark' /\ JobsNeedServer' /\ MarksBeforeRows'
  BY <1>1, <1>2 DEF DeleteRow, MarkInv, NoRowNoMark, JobsNeedServer, MarksBeforeRows, TypeOK
<1>4. ASSUME NEW t \in Snapshots, NEW n \in Modes, t # s, HasRunningJob(t, n)
      PROVE  HasRunningJob(t, n)'
  BY <1>1, <1>4 DEF HasRunningJob
<1> QED BY <1>2, <1>3, <1>4 DEF MarkInv, MarkHasJob

LEMMA InvalidateMarked ==
    ASSUME TypeOK, MarkInv, NEW S \in SUBSET Snapshots, InvalidateForDeletion(S)
    PROVE  MarkInv'
<1>1. /\ UNCHANGED <<leftover, pc, mode, target, server, recStep>> /\ server = "up" /\ recStep = 1
  BY DEF InvalidateForDeletion, threads, MarkInv, MarksBeforeRows
<1>2. \A t \in Snapshots, n \in Modes :
        Mark(t, n)' = IF t \in S THEN "failed" ELSE Mark(t, n)
  BY DEF InvalidateForDeletion, Mark
<1>3. \A t \in Snapshots : status'[t] = "none" => t \notin S /\ status[t] = "none"
  BY DEF InvalidateForDeletion
<1>4. NoRowNoMark' /\ JobsNeedServer' /\ MarksBeforeRows'
  BY <1>1, <1>2, <1>3 DEF MarkInv, NoRowNoMark, JobsNeedServer, MarksBeforeRows
<1>5. MarkHasJob'
  BY <1>1, <1>2 DEF MarkInv, MarkHasJob, HasRunningJob
<1> QED BY <1>4, <1>5 DEF MarkInv

LEMMA MarksKept == TypeOK /\ MarkInv /\ [Next]_vars => MarkInv'
<1> SUFFICES ASSUME TypeOK, MarkInv, [Next]_vars PROVE MarkInv'
  OBVIOUS
<1>1. ASSUME NEW j \in Jobs,
             \/ ListChain(j) \/ VerifyManifestAndObjects(j) \/ CheckStream(j) \/ CheckLineage(j)
             \/ CheckFails(j)
      PROVE  MarkInv'
  <2>1. UNCHANGED <<status, streamVal, chainVal, leftover, mode, target, server, recStep>>
    BY <1>1 DEF ListChain, VerifyManifestAndObjects, CheckStream, CheckLineage, CheckFails,
       catalog, process
  <2>2. \A k \in Jobs : pc'[k] = "idle" <=> pc[k] = "idle"
    BY <1>1 DEF ListChain, VerifyManifestAndObjects, CheckStream, CheckLineage, CheckFails,
       CheckPc, TypeOK
  <2> QED BY <2>1, <2>2, MarksUntouched
<1>2. ASSUME NEW j \in Jobs, RunJob(j) PROVE MarkInv'
  BY <1>1, <1>2, ResultMarked DEF RunJob
<1>3. ASSUME NEW j \in Jobs, ResultNotRecorded(j) PROVE MarkInv'
  BY <1>3, UnrecordedMarked
<1>4. CASE SchedulerRun
  <2>1. First(due) \in Snapshots
    BY <1>4, FirstIsMember DEF SchedulerRun, TypeOK
  <2> QED BY <1>4, <2>1, CreateMarked DEF SchedulerRun, Jobs, Modes
<1>5. ASSUME NEW j \in Requests, NEW s \in Snapshots, NEW m \in {"stream", "chain"},
             RequestValidation(j, s, m)
      PROVE  MarkInv'
  BY <1>5, CreateMarked DEF RequestValidation, Jobs, Modes
<1>6. CASE \/ UNCHANGED vars \/ SchedulerList \/ SchedulerSkip
           \/ DeletionFails \/ \E s \in Snapshots : DayPasses(s) \/ Rot(s) \/ DeleteObjects(s)
  BY <1>6, MarksUntouched
     DEF vars, SchedulerList, SchedulerSkip, DayPasses, Rot, DeleteObjects, DeletionFails,
         catalog, threads, process
<1>7. ASSUME NEW s \in Snapshots, CommitSnapshot(s) \/ StartUpload(s) PROVE MarkInv'
  <2>1. \A t \in Snapshots : status'[t] = "none" => status[t] = "none"
    BY <1>7 DEF CommitSnapshot, StartUpload, TypeOK
  <2> QED BY <1>7, <2>1, MarksUntouched DEF CommitSnapshot, StartUpload, threads, process
<1>8. CASE Restart
  <2>1. /\ UNCHANGED <<status, streamVal, chainVal, leftover, pc, mode, target, recStep>>
        /\ server = "down" /\ server' = "reconciling" /\ recStep = 1
    BY <1>8 DEF Restart, catalog, threads, MarkInv, MarksBeforeRows
  <2> QED BY <2>1 DEF MarkInv, NoRowNoMark, Mark, JobsNeedServer, MarksBeforeRows, MarkHasJob,
     HasRunningJob
<1>9. CASE ReconcileStaleJobs
  BY <1>9, ReconcileMarked
<1>10. CASE Crash
  BY <1>10, CrashMarked
<1>11. ASSUME NEW r \in leftover, RowsAge(r) PROVE MarkInv'
  BY <1>11, AgeMarked
<1>12. ASSUME NEW s \in Snapshots, DeleteRow(s) PROVE MarkInv'
  BY <1>12, DeleteMarked
<1>13. ASSUME NEW S \in SUBSET Snapshots, InvalidateForDeletion(S) PROVE MarkInv'
  BY <1>13, InvalidateMarked
<1> QED
  BY <1>1, <1>2, <1>3, <1>4, <1>5, <1>6, <1>7, <1>8, <1>9, <1>10, <1>11, <1>12, <1>13
     DEF Next, RunDue, Environment, Jobs

\* The transactions of jobs, the cascade of a deletion and the order of the
\* reconciliation's four statements never leave a snapshot marked running
\* without a job row that is: nothing would ever settle the mark.
THEOREM RunningAlwaysHasJob == Spec => []RunningHasJob
<1>1. Init => MarkInv
  BY DEF Init, MarkInv, NoRowNoMark, JobsNeedServer, MarksBeforeRows, MarkHasJob, Mark
<1>2. MarkInv => RunningHasJob
  BY DEF MarkInv, MarkHasJob, Mark, Modes, RunningHasJob
<1> QED BY <1>1, <1>2, MarksKept, ValidationTypeCorrect, PTL DEF Spec

\* The server comes up only after the fourth statement: no stale job or operation
\* row is running then, although each may be there without the other, and the
\* marks still running are those of jobs too young to be failed.
THEOREM StartupAlwaysSettles == Spec => StartupSettlesStale
<1>1. TypeOK /\ MarkInv /\ TypeOK' /\ MarkInv' /\ [Next]_vars
        => [server = "reconciling" /\ server' = "up" =>
              /\ \A r \in leftover' : r.stale => ~r.job /\ ~r.op
              /\ \A s \in Snapshots, m \in {"stream", "chain"} :
                  (IF m = "stream" THEN streamVal' ELSE chainVal')[s] = "running" =>
                      \E r \in leftover' : r.job /\ ~r.stale /\ r.mode = m /\ r.target = s]_vars
  <2> SUFFICES ASSUME TypeOK, MarkInv, TypeOK', MarkInv', [Next]_vars,
                      server = "reconciling", server' = "up"
               PROVE  /\ \A r \in leftover' : r.stale => ~r.job /\ ~r.op
                      /\ \A s \in Snapshots, m \in {"stream", "chain"} :
                          (IF m = "stream" THEN streamVal' ELSE chainVal')[s] = "running" =>
                              \E r \in leftover' : r.job /\ ~r.stale /\ r.mode = m /\ r.target = s
    OBVIOUS
  <2>1. ReconcileStaleJobs
    BY DEF Next, vars, RunDue, SchedulerList, SchedulerRun, SchedulerSkip, RunJob, ListChain,
       VerifyManifestAndObjects, CheckStream, CheckLineage, RecordSuccess, RecordFailure,
       CreateJob, RequestValidation, CheckFails, ResultNotRecorded, Restart, Crash, RowsAge,
       Environment, DayPasses, StartUpload, CommitSnapshot, Rot, DeleteObjects, DeleteRow,
       DeletionFails, InvalidateForDeletion, process
  <2>2. recStep = 4 /\ leftover' = FailOperations /\ pc' = pc
    BY <2>1 DEF ReconcileStaleJobs, TypeOK, threads
  <2>3. \A q \in leftover : q.stale => ~q.job
    BY <2>2 DEF MarkInv, MarksBeforeRows
  <2>4. \A r \in leftover' : ~r.stale
    BY <2>2, <2>3, OperationsFailed
  <2>5. ASSUME NEW s \in Snapshots, NEW m \in Modes, Mark(s, m)' = "running"
        PROVE  \E r \in leftover' : r.job /\ ~r.stale /\ r.mode = m /\ r.target = s
    <3>1. HasRunningJob(s, m)'
      BY <2>5 DEF MarkInv, MarkHasJob
    <3>2. \A j \in Jobs : pc'[j] = "idle"
      BY <2>2 DEF MarkInv, JobsNeedServer
    <3> QED BY <2>4, <3>1, <3>2 DEF HasRunningJob
  <2> QED BY <2>4, <2>5 DEF Mark, Modes
<1>2. Init => MarkInv
  BY DEF Init, MarkInv, NoRowNoMark, JobsNeedServer, MarksBeforeRows, MarkHasJob, Mark
<1> QED BY <1>1, <1>2, MarksKept, ValidationTypeCorrect, PTL DEF Spec, StartupSettlesStale
=============================================================================
