---------------------------- MODULE PromiseProofs ---------------------------
(***************************************************************************)
(* Ingest and Deletion implement BackupStore.                              *)
(*                                                                         *)
(* Under the invariants of DeletionProofs a name is restorable exactly     *)
(* when a committed snapshot has it (RestorableIsCommitted).  So only the  *)
(* steps that change which snapshots are committed count: CommitUpload is  *)
(* a Store, InvalidateForDeletion a Remove, and every other step leaves    *)
(* the committed snapshots alone and is a Request or a stutter.            *)
(***************************************************************************)
EXTENDS DeletionProofs

USE DEF thread, catalog, bucket, recon, cleaner, vars, worker, delVars, allVars

\* Restoring a name yields the committed snapshot of the name, if there is one.
RestorableIsCommitted ==
    \A n \in Names :
        /\ \A u \in Uploads : Committed(u) /\ name[u] = n => RestorableAs(n) = u
        /\ (\A u \in Uploads : ~(Committed(u) /\ name[u] = n)) => RestorableAs(n) = None

\* The whole chain of a committed snapshot is there: every ancestor is committed
\* and its manifest and chunks are the ones its own Receive stored.
LEMMA CommittedIsRestorable ==
    ASSUME IndInv, CommittedManifestIntact, NEW u \in Uploads
    PROVE  RestorableChain(u) <=> Committed(u)
<1>1. u \in RestoreChain(u)
  BY RestoreChainIn, ChainIsClosed DEF IndInv, TypeOK, Parents
<1>2. ASSUME RestorableChain(u) PROVE Committed(u)
  BY <1>1, <1>2 DEF RestorableChain, Streamable, Committed
<1>3. ASSUME Committed(u) PROVE RestorableChain(u)
  <2> SUFFICES ASSUME NEW p \in RestoreChain(u)
               PROVE  Streamable(p) /\ StreamSnapshot(name[p]) = p
    BY DEF RestorableChain
  <2>1. p \in Uploads /\ Committed(p)
    BY <1>3, AncestorsCommitted
  <2>2. manifestObj[name[p]] = p /\ p # None
    BY <2>1, ConstantsAssumption DEF CommittedManifestIntact
  <2>3. \A i \in 0 .. idx[p] - 1 : chunkObj[name[p]][i] = p
    BY <2>1 DEF IndInv, CommittedChunksIntact
  <2> QED BY <2>1, <2>2, <2>3 DEF Streamable, StreamSnapshot, Committed
<1> QED BY <1>2, <1>3

LEMMA RestorableIsCommittedHolds ==
    IndInv /\ CommittedManifestIntact => RestorableIsCommitted
<1> SUFFICES ASSUME IndInv, CommittedManifestIntact, NEW n \in Names
             PROVE  RestorableIsCommitted!(n)
  BY DEF RestorableIsCommitted
<1> DEFINE found == {u \in RowNamed(n) : RestorableChain(u)}
<1>1. found = {u \in Uploads : Committed(u) /\ name[u] = n}
  BY CommittedIsRestorable DEF RowNamed, Committed
<1>2. RestorableAs(n) = IF found = {} THEN None ELSE CHOOSE u \in found : TRUE
  BY DEF RestorableAs
<1>3. ASSUME NEW u \in Uploads, Committed(u), name[u] = n PROVE RestorableAs(n) = u
  <2>1. found = {u}
    BY <1>1, <1>3 DEF IndInv, UniqueNames, Committed
  <2> QED BY <1>2, <2>1
<1>4. ASSUME \A u \in Uploads : ~(Committed(u) /\ name[u] = n) PROVE RestorableAs(n) = None
  BY <1>1, <1>2, <1>4
<1> QED BY <1>3, <1>4

-----------------------------------------------------------------------------
(* The three kinds of steps.                                               *)

Restorables == [n \in Names |-> RestorableAs(n)]
Acked == {u \in Uploads : pc[u] = "ok"}

\* The steps that change no committed snapshot.
LEMMA OtherStepsKeep ==
    ASSUME SafeInv, RestorableIsCommitted, RestorableIsCommitted',
           \A u \in Uploads : Committed(u)' <=> Committed(u),
           \A u \in Uploads : Committed(u) => name'[u] = name[u]
    PROVE  Restorables' = Restorables
<1> SUFFICES ASSUME NEW n \in Names PROVE RestorableAs(n)' = RestorableAs(n)
  BY DEF Restorables
<1>1. CASE \E u \in Uploads : Committed(u) /\ name[u] = n
  BY <1>1 DEF RestorableIsCommitted
<1>2. CASE ~\E u \in Uploads : Committed(u) /\ name[u] = n
  BY <1>2 DEF RestorableIsCommitted
<1> QED BY <1>1, <1>2

\* The names of attempts that have started do not change.
LEMMA NamesKept ==
    ASSUME SafeInv, [DeletionNext]_allVars, NEW u \in Uploads, pc[u] # "idle"
    PROVE  name'[u] = name[u]
<1>1. CASE [Next]_vars
  BY <1>1, NameFixed DEF SafeInv
<1>2. CASE OnlyFaults \/ WorkerWrites
  BY <1>2 DEF OnlyFaults, WorkerWrites, InvalidateForDeletion, DeleteChunkObject,
     DeleteManifestObject, DeleteRows
<1> QED BY <1>1, <1>2, StepOfIngest

\* CommitUpload stores the stream under its name, which was free.
LEMMA CommitIsStore ==
    ASSUME SafeInv, RestorableIsCommitted, RestorableIsCommitted',
           NEW u \in Uploads, NEW n \in Names, name[u] = n, CommitUpload(u), UNCHANGED delVars
    PROVE  Promise!Store(u, n)
<1> USE DEF SafeInv, IndInv, TypeOK
<1>1. /\ snap[u] = "uploading" /\ name[u] \in Names
      /\ snap' = [snap EXCEPT ![u] = "committed"] /\ UNCHANGED name
      /\ pc' = [pc EXCEPT ![u] = "ok"] /\ pc[u] = "commit"
  BY DEF CommitUpload, UpdateStatus, LiveOwnsRows, Live, LivePc, RowsNeedSnapshot
<1>2. \A v \in Uploads : name[v] = n => ~Committed(v)
  BY <1>1 DEF UniqueNames, Committed
<1>3. \A v \in Uploads : Committed(v)' <=> Committed(v) \/ v = u
  BY <1>1 DEF Committed
<1>4. RestorableAs(n) = None
  BY <1>1, <1>2 DEF RestorableIsCommitted
<1>5. \A m \in Names : RestorableAs(m)' = IF m = n THEN u ELSE RestorableAs(m)
  <2> SUFFICES ASSUME NEW m \in Names
               PROVE  RestorableAs(m)' = IF m = n THEN u ELSE RestorableAs(m)
    OBVIOUS
  <2>1. CASE m = n
    BY <1>1, <1>3, <2>1 DEF RestorableIsCommitted
  <2>2. CASE m # n /\ \E v \in Uploads : Committed(v) /\ name[v] = m
    BY <1>1, <1>3, <2>2 DEF RestorableIsCommitted
  <2>3. CASE m # n /\ ~\E v \in Uploads : Committed(v) /\ name[v] = m
    BY <1>1, <1>3, <2>3 DEF RestorableIsCommitted
  <2> QED BY <2>1, <2>2, <2>3
<1>6. Restorables' = [Restorables EXCEPT ![n] = u]
  BY <1>5 DEF Restorables
<1>7. u \notin Acked /\ Acked' = Acked \cup {u}
  BY <1>1 DEF Acked
<1>8. RequestedNames' = RequestedNames
  BY <1>1 DEF RequestedNames, Pending
<1> QED BY <1>1, <1>4, <1>6, <1>7, <1>8 DEF Promise!Store, Restorables, Acked

\* InvalidateForDeletion removes the names of its targets, all requested.
LEMMA InvalidateIsRemove ==
    ASSUME SafeInv, RestorableIsCommitted, RestorableIsCommitted', InvalidateForDeletion
    PROVE  \E removed \in SUBSET Names : Promise!Remove(removed)
<1> USE DEF SafeInv
<1> DEFINE removed == {n \in Names : \E u \in Targets : name[u] = n}
<1>1. removed \subseteq RequestedNames
  <2> SUFFICES ASSUME NEW n \in removed PROVE n \in RequestedNames
    OBVIOUS
  <2>1. PICK u \in Targets : name[u] = n
    OBVIOUS
  <2>2. wCur.op \in Pending /\ del[wCur.op].snap \in {u, None}
    BY TargetsAreRequested DEF InvalidateForDeletion, Busy
  <2> QED BY <2>1, <2>2 DEF RequestedNames
<1>2. \A u \in Uploads : Committed(u)' <=> Committed(u) /\ u \notin Targets
  BY DEF InvalidateForDeletion, Committed
<1>3. UNCHANGED <<name, pc, del>>
  BY DEF InvalidateForDeletion
<1>4. ASSUME NEW n \in Names
      PROVE  RestorableAs(n)' = IF n \in removed THEN None ELSE RestorableAs(n)
  <2>1. CASE n \in removed
    <3>1. PICK u \in Targets : name[u] = n
      BY <2>1
    <3>2. \A v \in Uploads : Committed(v)' => name[v] # n
      BY <1>2, <3>1 DEF Targets, IndInv, UniqueNames, Committed
    <3> QED BY <1>3, <2>1, <3>2 DEF RestorableIsCommitted
  <2>2. CASE n \notin removed /\ \E v \in Uploads : Committed(v) /\ name[v] = n
    BY <1>2, <1>3, <2>2 DEF RestorableIsCommitted
  <2>3. CASE n \notin removed /\ ~\E v \in Uploads : Committed(v) /\ name[v] = n
    BY <1>2, <1>3, <2>3 DEF RestorableIsCommitted
  <2> QED BY <2>1, <2>2, <2>3
<1>5. Restorables' = [n \in Names |-> IF n \in removed THEN None ELSE Restorables[n]]
  BY <1>4 DEF Restorables
<1>6. UNCHANGED <<Acked, RequestedNames>>
  BY <1>3 DEF Acked, RequestedNames, Pending
<1>7. removed \in SUBSET Names
  OBVIOUS
<1>8. Promise!Remove(removed)
  BY <1>1, <1>5, <1>6 DEF Promise!Remove, Restorables, Acked
<1> QED BY <1>7, <1>8

\* Every other step leaves what is restorable and what was acknowledged alone.
LEMMA OtherIsRequest ==
    ASSUME SafeInv, RestorableIsCommitted, RestorableIsCommitted',
           [DeletionNext]_allVars, ~InvalidateForDeletion, ~\E u \in Uploads : CommitUpload(u)
    PROVE  Promise!Request
<1>1. ASSUME NEW u \in Uploads PROVE Committed(u)' <=> Committed(u)
  <2>1. Committed(u) => Committed(u)'
    BY CommittedGoesOnlyByWorker
  <2>2. ASSUME Committed(u)', ~Committed(u) PROVE FALSE
    <3>1. ~[Next]_vars
      BY <2>2, OnlyCommitCommits DEF SafeInv
    <3>2. OnlyFaults \/ WorkerWrites
      BY <3>1, StepOfIngest
    <3> QED
      BY <2>2, <3>2 DEF OnlyFaults, WorkerWrites, DeleteChunkObject, DeleteManifestObject,
         DeleteRows, Committed
  <2> QED BY <2>1, <2>2
<1>2. \A u \in Uploads : Committed(u) => name'[u] = name[u]
  BY NamesKept DEF SafeInv, IndInv, CommittedIsAcked
<1>3. Restorables' = Restorables
  BY <1>1, <1>2, OtherStepsKeep
<1>4. Acked' = Acked
  <2>1. ASSUME NEW u \in Uploads PROVE pc'[u] = "ok" <=> pc[u] = "ok"
    <3>1. CASE [Next]_vars
      BY <3>1, OnlyCommitAcks DEF SafeInv
    <3>2. CASE OnlyFaults \/ WorkerWrites
      BY <3>2 DEF OnlyFaults, WorkerWrites, InvalidateForDeletion, DeleteChunkObject,
         DeleteManifestObject, DeleteRows
    <3> QED BY <3>1, <3>2, StepOfIngest
  <2> QED BY <2>1 DEF Acked
<1>5. RequestedNames' \in SUBSET Names
  BY DEF RequestedNames
<1> QED BY <1>3, <1>4, <1>5 DEF Promise!Request, Restorables, Acked

\* A commit is a step of the uploads, so it leaves the queue alone.
LEMMA CommitLeavesQueue ==
    ASSUME SafeInv, [DeletionNext]_allVars, NEW u \in Uploads, CommitUpload(u)
    PROVE  UNCHANGED delVars
<1>1. pc'[u] # pc[u] /\ pc'[u] = "ok" /\ pc[u] = "commit"
  BY DEF CommitUpload, SafeInv, IndInv, TypeOK
<1> QED
  BY <1>1 DEF DeletionNext, CrashWithWorker, Crash, QueueSnapshotDeletion,
     QueueDatasetDeletion, Queue, Work, WorkerList, WorkerListDone, RunOperation,
     CountDescendants, ListObjectKeys, InvalidateForDeletion, DeleteChunkObject,
     DeleteManifestObject, DeleteRows, DeleteRowsRefused, FailOperation, WorkerStepFails,
     OperationLeftPending, Live, LivePc, SafeInv, IndInv, TypeOK

LEMMA StepImplementsPromise ==
    /\ SafeInv /\ RestorableIsCommitted /\ RestorableIsCommitted'
    /\ [DeletionNext]_allVars
    => Promise!Next
<1> SUFFICES ASSUME SafeInv, RestorableIsCommitted, RestorableIsCommitted',
                    [DeletionNext]_allVars
             PROVE  Promise!Next
  OBVIOUS
<1>1. ASSUME NEW u \in Uploads, CommitUpload(u) PROVE Promise!Next
  <2>1. PICK n \in Names : n = name[u]
    BY <1>1 DEF CommitUpload, SafeInv, IndInv, LiveOwnsRows, Live, LivePc, RowsNeedSnapshot
  <2>2. Promise!Store(u, n)
    BY <1>1, <2>1, CommitLeavesQueue, CommitIsStore
  <2> QED BY <2>2 DEF Promise!Next
<1>2. CASE InvalidateForDeletion
  BY <1>2, InvalidateIsRemove DEF Promise!Next
<1>3. CASE ~InvalidateForDeletion /\ ~\E u \in Uploads : CommitUpload(u)
  BY <1>3, OtherIsRequest DEF Promise!Next
<1> QED BY <1>1, <1>2, <1>3

\* What zfs-s3nd promises a client holds of uploads and deletions together, for
\* every number of attempts, names, chunks, faults and requests: a snapshot
\* becomes restorable in the step that decides "ok", stays restorable as the
\* same stream whatever fails or restarts, and goes in one step, before its
\* first object, and only on request.
THEOREM PromiseKept ==
    ASSUME ~SlowChunks, ~CleanupEnabled, QuietDeletes
    PROVE  DeletionSpec => KeepsPromiseUntilRemoved
<1>1. DeletionInit => Promise!Init
  <2> SUFFICES ASSUME DeletionInit PROVE Promise!Init
    OBVIOUS
  <2>1. Restorables = [n \in Names |-> None]
    BY DEF DeletionInit, Init, Restorables, RestorableAs, RowNamed
  <2>2. Acked = {} /\ RequestedNames = {}
    BY DEF DeletionInit, Init, Acked, RequestedNames, Pending
  <2> QED BY <2>1, <2>2 DEF Promise!Init, Restorables, Acked
<1>2. SafeInv /\ CommittedManifestIntact => RestorableIsCommitted
  BY RestorableIsCommittedHolds DEF SafeInv
<1> QED
  BY <1>1, <1>2, SafeInvAlways, ManifestSurvivesDeletes, StepImplementsPromise, PTL
  DEF DeletionSpec, KeepsPromiseUntilRemoved, Promise!Spec

=============================================================================
