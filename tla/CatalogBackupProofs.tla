------------------------- MODULE CatalogBackupProofs ------------------------
(***************************************************************************)
(* Making and expiring catalog backups, for any number of overlapping      *)
(* runners, backups, ticks and faults and every retention.                 *)
(***************************************************************************)
EXTENDS CatalogBackup, TLAPS, WellFoundedInduction

MakingPc == MakePc \cup {"fail"}
DeletePc == {"delCopy", "delMeta", "delRow"}

\* A runner that makes a backup is the only one at work on it, its row is not
\* there yet, and what it has put is stored.
Making(r) ==
    /\ pc[r] \in MakingPc => cur[r] \in Backups /\ op[cur[r]] = "running"
    /\ pc[r] \in MakePc => now - started[cur[r]] <= Retention
    /\ pc[r] \in {"metadata", "record"} => copyObj[cur[r]] /\ cutoff[r] <= started[cur[r]]
    /\ pc[r] = "record" => metaObj[cur[r]]

MakersApart ==
    \A r, q \in Runners :
        r # q /\ pc[r] \in MakingPc /\ pc[q] \in MakingPc => cur[r] # cur[q]

\* A runner that expires has recorded a backup that its cutoff spares, and has
\* only recorded and older ones in hand.
Expiring(r) ==
    /\ cutoff[r] <= now - Retention
    /\ pc[r] \in ExpirePc =>
        cur[r] \in Backups /\ op[cur[r]] = "succeeded" /\ cutoff[r] <= started[cur[r]]
    /\ \A b \in todo[r] : op[b] = "succeeded" /\ started[b] < cutoff[r]
    /\ pc[r] \in DeletePc =>
        item[r] \in Backups /\ op[item[r]] = "succeeded" /\ started[item[r]] < cutoff[r]
    /\ pc[r] \in {"delMeta", "delRow"} => ~copyObj[item[r]]
    /\ pc[r] = "delRow" => ~metaObj[item[r]]

RowsSucceeded == \A b \in Backups : row[b] => op[b] = "succeeded"

\* An object of a recorded backup is deleted only past the retention, and only
\* once there is a newer recorded backup.
Superseded(b) == \E c \in Backups : op[c] = "succeeded" /\ started[b] < started[c]

OnlyOldGone ==
    \A b \in Backups : op[b] = "succeeded" /\ ~(copyObj[b] /\ metaObj[b]) =>
        started[b] < now - Retention /\ Superseded(b)

IndInv ==
    /\ TypeOK
    /\ \A r \in Runners : Making(r)
    /\ MakersApart
    /\ \A r \in Runners : Expiring(r)
    /\ RowsSucceeded
    /\ NothingLeaks
    /\ OnlyOldGone

LEMMA InitEstablishes == Init => IndInv
<1> SUFFICES ASSUME Init PROVE IndInv
  OBVIOUS
<1> USE CatalogBackupAssumption DEF Init, Backups
<1>1. TypeOK
  BY DEF TypeOK
<1>2. ASSUME NEW r \in Runners PROVE Making(r) /\ Expiring(r)
  BY DEF Making, Expiring, MakingPc, MakePc, ExpirePc, DeletePc
<1>3. MakersApart
  BY DEF MakersApart, MakingPc, MakePc
<1>4. RowsSucceeded /\ NothingLeaks /\ OnlyOldGone
  BY DEF RowsSucceeded, NothingLeaks, OnlyOldGone
<1> QED BY <1>1, <1>2, <1>3, <1>4 DEF IndInv

LEMMA TypeKept == TypeOK /\ [Next]_vars => TypeOK'
<1> SUFFICES ASSUME TypeOK, [Next]_vars PROVE TypeOK'
  OBVIOUS
<1> USE CatalogBackupAssumption DEF TypeOK, MakePc, ExpirePc, Backups
<1>1. CASE UNCHANGED vars
  BY <1>1 DEF vars, run, catalog, bucket
<1>2. CASE Tick
  BY <1>2 DEF Tick, run, catalog, bucket
<1>3. ASSUME NEW r \in Runners, NEW b \in Backups, StartRun(r, b) PROVE TypeOK'
  BY <1>3 DEF StartRun, Goto, bucket
<1>4. ASSUME NEW r \in Runners, MakeFails(r) \/ RunDies(r) PROVE TypeOK'
  <2>1. faults' \in 0 .. MaxFaults
    BY <1>4 DEF MakeFails, RunDies
  <2>2. CASE MakeFails(r)
    BY <2>1, <2>2 DEF MakeFails, Goto, catalog, bucket
  <2>3. CASE RunDies(r)
    <3>1. todo' \in [Runners -> SUBSET Backups]
      BY <2>3 DEF RunDies
    <3> QED BY <2>1, <2>3, <3>1 DEF RunDies, Goto, catalog, bucket
  <2> QED BY <1>4, <2>2, <2>3
<1>5. ASSUME NEW r \in Runners, PutCopy(r) PROVE TypeOK'
  <2>1. now - Retention \in -Retention .. MaxTime
    OBVIOUS
  <2>2. cutoff' \in [Runners -> -Retention .. MaxTime]
    BY <1>5, <2>1 DEF PutCopy
  <2>3. copyObj' \in [Backups -> BOOLEAN]
    BY <1>5 DEF PutCopy
  <2> QED BY <1>5, <2>2, <2>3 DEF PutCopy, Goto, catalog
<1>6. ASSUME NEW r \in Runners, PutMetadata(r) PROVE TypeOK'
  BY <1>6 DEF PutMetadata, Goto, catalog
<1>7. ASSUME NEW r \in Runners, RecordSucceededCatalogBackup(r) PROVE TypeOK'
  BY <1>7 DEF RecordSucceededCatalogBackup, Goto, bucket
<1>8. ASSUME NEW r \in Runners, FailCatalogBackupOperation(r) PROVE TypeOK'
  BY <1>8 DEF FailCatalogBackupOperation, Goto, bucket
<1>9. ASSUME NEW r \in Runners, ListExpired(r) PROVE TypeOK'
  <2>1. Expired(r) \in SUBSET Backups
    BY DEF Expired
  <2> QED BY <1>9, <2>1 DEF ListExpired, Goto, catalog, bucket
<1>10. ASSUME NEW r \in Runners, NEW b \in Backups, TakeExpired(r, b) PROVE TypeOK'
  <2>1. todo' \in [Runners -> SUBSET Backups]
    BY <1>10 DEF TakeExpired
  <2>2. item' \in [Runners -> 0 .. MaxBackups]
    BY <1>10 DEF TakeExpired
  <2> QED BY <1>10, <2>1, <2>2 DEF TakeExpired, Goto, catalog, bucket
<1>11. ASSUME NEW r \in Runners, DeleteCopy(r) \/ DeleteMetadata(r) \/ DeleteCatalogBackup(r)
       PROVE  TypeOK'
  BY <1>11 DEF DeleteCopy, DeleteMetadata, DeleteCatalogBackup, Goto, catalog, bucket
<1> QED BY <1>1, <1>2, <1>3, <1>4, <1>5, <1>6, <1>7, <1>8, <1>9, <1>10, <1>11 DEF Next, Work

\* One step per action and, under it, one per part of the invariant.
LEMMA Inductive == IndInv /\ [Next]_vars => IndInv'
<1> SUFFICES ASSUME IndInv, [Next]_vars PROVE IndInv'
  OBVIOUS
<1> USE CatalogBackupAssumption
<1> USE DEF MakePc, ExpirePc, MakingPc, DeletePc
<1>0. TypeOK /\ TypeOK'
  BY TypeKept DEF IndInv
<1>1. CASE Tick
  <2> USE <1>0, <1>1 DEF IndInv, TypeOK, Tick, run, catalog, bucket
  <2>1. ASSUME NEW q \in Runners PROVE Making(q)'
    BY DEF Making, MakersApart, Expiring
  <2>2. MakersApart'
    BY DEF Making, MakersApart
  <2>3. ASSUME NEW q \in Runners PROVE Expiring(q)'
    BY DEF Making, Expiring, RowsSucceeded
  <2>4. RowsSucceeded' /\ NothingLeaks'
    BY DEF Making, Expiring, RowsSucceeded, NothingLeaks
  <2>5. OnlyOldGone'
    BY DEF Making, Expiring, OnlyOldGone, Superseded
  <2> HIDE DEF TypeOK
  <2> QED BY <2>1, <2>2, <2>3, <2>4, <2>5
<1>2. ASSUME NEW r \in Runners, NEW b \in Backups, StartRun(r, b) PROVE IndInv'
  <2> USE <1>0, <1>2 DEF IndInv, TypeOK, StartRun, Goto, bucket
  <2>1. ASSUME NEW q \in Runners PROVE Making(q)'
    BY DEF Making, MakersApart, Expiring
  <2>2. MakersApart'
    BY DEF Making, MakersApart
  <2>3. ASSUME NEW q \in Runners PROVE Expiring(q)'
    BY DEF Making, Expiring, RowsSucceeded
  <2>4. RowsSucceeded' /\ NothingLeaks'
    BY DEF Making, Expiring, RowsSucceeded, NothingLeaks
  <2>5. OnlyOldGone'
    BY DEF Making, Expiring, OnlyOldGone, Superseded
  <2> HIDE DEF TypeOK
  <2> QED BY <2>1, <2>2, <2>3, <2>4, <2>5
<1>3. ASSUME NEW r \in Runners, PutCopy(r) PROVE IndInv'
  <2> USE <1>0, <1>3 DEF IndInv, TypeOK, PutCopy, Goto, catalog
  <2>1. ASSUME NEW q \in Runners PROVE Making(q)'
    BY DEF Making, MakersApart, Expiring
  <2>2. MakersApart'
    BY DEF Making, MakersApart
  <2>3. ASSUME NEW q \in Runners PROVE Expiring(q)'
    BY DEF Making, Expiring, RowsSucceeded
  <2>4. RowsSucceeded' /\ NothingLeaks'
    BY DEF Making, Expiring, RowsSucceeded, NothingLeaks
  <2>5. OnlyOldGone'
    BY DEF Making, Expiring, OnlyOldGone, Superseded
  <2> HIDE DEF TypeOK
  <2> QED BY <2>1, <2>2, <2>3, <2>4, <2>5
<1>4. ASSUME NEW r \in Runners, PutMetadata(r) PROVE IndInv'
  <2> USE <1>0, <1>4 DEF IndInv, TypeOK, PutMetadata, Goto, catalog
  <2>1. ASSUME NEW q \in Runners PROVE Making(q)'
    BY DEF Making, MakersApart, Expiring
  <2>2. MakersApart'
    BY DEF Making, MakersApart
  <2>3. ASSUME NEW q \in Runners PROVE Expiring(q)'
    BY DEF Making, Expiring, RowsSucceeded
  <2>4. RowsSucceeded' /\ NothingLeaks'
    BY DEF Making, Expiring, RowsSucceeded, NothingLeaks
  <2>5. OnlyOldGone'
    BY DEF Making, Expiring, OnlyOldGone, Superseded
  <2> HIDE DEF TypeOK
  <2> QED BY <2>1, <2>2, <2>3, <2>4, <2>5
<1>5. ASSUME NEW r \in Runners, RecordSucceededCatalogBackup(r) PROVE IndInv'
  <2> USE <1>0, <1>5 DEF IndInv, TypeOK, RecordSucceededCatalogBackup, Goto, bucket
  <2>1. ASSUME NEW q \in Runners PROVE Making(q)'
    BY DEF Making, MakersApart, Expiring
  <2>2. MakersApart'
    BY DEF Making, MakersApart
  <2>3. ASSUME NEW q \in Runners PROVE Expiring(q)'
    BY DEF Making, Expiring, RowsSucceeded
  <2>4. RowsSucceeded' /\ NothingLeaks'
    BY DEF Making, Expiring, RowsSucceeded, NothingLeaks
  <2>5. OnlyOldGone'
    BY DEF Making, Expiring, OnlyOldGone, Superseded
  <2> HIDE DEF TypeOK
  <2> QED BY <2>1, <2>2, <2>3, <2>4, <2>5
<1>6. ASSUME NEW r \in Runners, MakeFails(r) PROVE IndInv'
  <2> USE <1>0, <1>6 DEF IndInv, TypeOK, MakeFails, Goto, catalog, bucket
  <2>1. ASSUME NEW q \in Runners PROVE Making(q)'
    BY DEF Making, MakersApart, Expiring
  <2>2. MakersApart'
    BY DEF Making, MakersApart
  <2>3. ASSUME NEW q \in Runners PROVE Expiring(q)'
    BY DEF Making, Expiring, RowsSucceeded
  <2>4. RowsSucceeded' /\ NothingLeaks'
    BY DEF Making, Expiring, RowsSucceeded, NothingLeaks
  <2>5. OnlyOldGone'
    BY DEF Making, Expiring, OnlyOldGone, Superseded
  <2> HIDE DEF TypeOK
  <2> QED BY <2>1, <2>2, <2>3, <2>4, <2>5
<1>7. ASSUME NEW r \in Runners, FailCatalogBackupOperation(r) PROVE IndInv'
  <2> USE <1>0, <1>7 DEF IndInv, TypeOK, FailCatalogBackupOperation, Goto, bucket
  <2>1. ASSUME NEW q \in Runners PROVE Making(q)'
    BY DEF Making, MakersApart, Expiring
  <2>2. MakersApart'
    BY DEF Making, MakersApart
  <2>3. ASSUME NEW q \in Runners PROVE Expiring(q)'
    BY DEF Making, Expiring, RowsSucceeded
  <2>4. RowsSucceeded' /\ NothingLeaks'
    BY DEF Making, Expiring, RowsSucceeded, NothingLeaks
  <2>5. OnlyOldGone'
    BY DEF Making, Expiring, OnlyOldGone, Superseded
  <2> HIDE DEF TypeOK
  <2> QED BY <2>1, <2>2, <2>3, <2>4, <2>5
<1>8. ASSUME NEW r \in Runners, RunDies(r) PROVE IndInv'
  <2> USE <1>0, <1>8 DEF IndInv, TypeOK, RunDies, Goto, catalog, bucket
  <2>1. ASSUME NEW q \in Runners PROVE Making(q)'
    BY DEF Making, MakersApart, Expiring
  <2>2. MakersApart'
    BY DEF Making, MakersApart
  <2>3. ASSUME NEW q \in Runners PROVE Expiring(q)'
    BY DEF Making, Expiring, RowsSucceeded
  <2>4. RowsSucceeded' /\ NothingLeaks'
    BY DEF Making, Expiring, RowsSucceeded, NothingLeaks
  <2>5. OnlyOldGone'
    BY DEF Making, Expiring, OnlyOldGone, Superseded
  <2> HIDE DEF TypeOK
  <2> QED BY <2>1, <2>2, <2>3, <2>4, <2>5
<1>9. ASSUME NEW r \in Runners, ListExpired(r) PROVE IndInv'
  <2> USE <1>0, <1>9 DEF IndInv, TypeOK, ListExpired, Goto, catalog, bucket, Expired
  <2>1. ASSUME NEW q \in Runners PROVE Making(q)'
    BY DEF Making, MakersApart, Expiring
  <2>2. MakersApart'
    BY DEF Making, MakersApart
  <2>3. ASSUME NEW q \in Runners PROVE Expiring(q)'
    BY DEF Making, Expiring, RowsSucceeded
  <2>4. RowsSucceeded' /\ NothingLeaks'
    BY DEF Making, Expiring, RowsSucceeded, NothingLeaks
  <2>5. OnlyOldGone'
    BY DEF Making, Expiring, OnlyOldGone, Superseded
  <2> HIDE DEF TypeOK
  <2> QED BY <2>1, <2>2, <2>3, <2>4, <2>5
<1>10. ASSUME NEW r \in Runners, NEW b \in Backups, TakeExpired(r, b) PROVE IndInv'
  <2> USE <1>0, <1>10 DEF IndInv, TypeOK, TakeExpired, Goto, catalog, bucket
  <2>1. ASSUME NEW q \in Runners PROVE Making(q)'
    BY DEF Making, MakersApart, Expiring
  <2>2. MakersApart'
    BY DEF Making, MakersApart
  <2>3. ASSUME NEW q \in Runners PROVE Expiring(q)'
    BY DEF Making, Expiring, RowsSucceeded
  <2>4. RowsSucceeded' /\ NothingLeaks'
    BY DEF Making, Expiring, RowsSucceeded, NothingLeaks
  <2>5. OnlyOldGone'
    BY DEF Making, Expiring, OnlyOldGone, Superseded
  <2> HIDE DEF TypeOK
  <2> QED BY <2>1, <2>2, <2>3, <2>4, <2>5
<1>11. ASSUME NEW r \in Runners, DeleteCopy(r) PROVE IndInv'
  <2> USE <1>0, <1>11 DEF IndInv, TypeOK, DeleteCopy, Goto, catalog
  <2>1. ASSUME NEW q \in Runners PROVE Making(q)'
    BY DEF Making, MakersApart, Expiring
  <2>2. MakersApart'
    BY DEF Making, MakersApart
  <2>3. ASSUME NEW q \in Runners PROVE Expiring(q)'
    BY DEF Making, Expiring, RowsSucceeded
  <2>4. RowsSucceeded' /\ NothingLeaks'
    BY DEF Making, Expiring, RowsSucceeded, NothingLeaks
  <2>5. OnlyOldGone'
    BY DEF Making, Expiring, OnlyOldGone, Superseded
  <2> HIDE DEF TypeOK
  <2> QED BY <2>1, <2>2, <2>3, <2>4, <2>5
<1>12. ASSUME NEW r \in Runners, DeleteMetadata(r) PROVE IndInv'
  <2> USE <1>0, <1>12 DEF IndInv, TypeOK, DeleteMetadata, Goto, catalog
  <2>1. ASSUME NEW q \in Runners PROVE Making(q)'
    BY DEF Making, MakersApart, Expiring
  <2>2. MakersApart'
    BY DEF Making, MakersApart
  <2>3. ASSUME NEW q \in Runners PROVE Expiring(q)'
    BY DEF Making, Expiring, RowsSucceeded
  <2>4. RowsSucceeded' /\ NothingLeaks'
    BY DEF Making, Expiring, RowsSucceeded, NothingLeaks
  <2>5. OnlyOldGone'
    BY DEF Making, Expiring, OnlyOldGone, Superseded
  <2> HIDE DEF TypeOK
  <2> QED BY <2>1, <2>2, <2>3, <2>4, <2>5
<1>13. ASSUME NEW r \in Runners, DeleteCatalogBackup(r) PROVE IndInv'
  <2> USE <1>0, <1>13 DEF IndInv, TypeOK, DeleteCatalogBackup, Goto, bucket
  <2>1. ASSUME NEW q \in Runners PROVE Making(q)'
    BY DEF Making, MakersApart, Expiring
  <2>2. MakersApart'
    BY DEF Making, MakersApart
  <2>3. ASSUME NEW q \in Runners PROVE Expiring(q)'
    BY DEF Making, Expiring, RowsSucceeded
  <2>4. RowsSucceeded' /\ NothingLeaks'
    BY DEF Making, Expiring, RowsSucceeded, NothingLeaks
  <2>5. OnlyOldGone'
    BY DEF Making, Expiring, OnlyOldGone, Superseded
  <2> HIDE DEF TypeOK
  <2> QED BY <2>1, <2>2, <2>3, <2>4, <2>5
<1>14. CASE UNCHANGED vars
  BY <1>14 DEF vars, run, catalog, bucket, IndInv, TypeOK, Making, MakersApart, Expiring,
              RowsSucceeded, NothingLeaks, OnlyOldGone, Superseded
<1> QED BY <1>1, <1>2, <1>3, <1>4, <1>5, <1>6, <1>7, <1>8, <1>9, <1>10, <1>11, <1>12, <1>13, <1>14 DEF Next, Work

\* Among some backups there is one that was started last.
LEMMA HasNewest ==
    ASSUME TypeOK, NEW S \in SUBSET Backups, S # {}
    PROVE  \E b \in S : \A c \in S : started[c] <= started[b]
<1> DEFINE age(b) == MaxTime - started[b]
           T == {age(b) : b \in S}
<1>1. \A b \in S : age(b) \in Nat /\ started[b] \in Nat
  BY CatalogBackupAssumption DEF TypeOK
<1>2. T \subseteq Nat /\ T # {}
  BY <1>1
<1>3. PICK x \in T : \A y \in T : ~(<<y, x>> \in OpToRel(<, Nat))
  <2> HIDE DEF T
  <2> QED BY <1>2, NatLessThanWellFounded, WFMin
<1>4. \A y \in T : ~(y < x)
  BY <1>2, <1>3 DEF OpToRel
<1>5. PICK b \in S : x = age(b)
  OBVIOUS
<1>6. \A c \in S : ~(age(c) < age(b))
  BY <1>4, <1>5
<1>7. \A c \in S : started[c] <= started[b]
  BY <1>1, <1>6, CatalogBackupAssumption DEF TypeOK
<1> QED BY <1>7

\* Every variable of the runs, the rows and the bucket keeps its type.
THEOREM BackupTypeCorrect == Spec => []TypeOK
<1>1. Init => TypeOK
  BY InitEstablishes DEF IndInv
<1> QED BY <1>1, TypeKept, PTL DEF Spec

\* When DeleteCatalogBackup has removed a row, no object of the backup is left,
\* however many runners expire it and wherever they die.
THEOREM ExpiredLeaveNothing == Spec => []NothingLeaks
<1>1. IndInv => NothingLeaks
  BY DEF IndInv
<1> QED BY InitEstablishes, Inductive, <1>1, PTL DEF Spec

\* A row within the retention keeps both its objects, whoever else expires.
THEOREM ProtectedStayUsable == Spec => []UnexpiredUsable
<1>1. IndInv => UnexpiredUsable
  BY CatalogBackupAssumption
     DEF IndInv, TypeOK, RowsSucceeded, OnlyOldGone, UnexpiredUsable, Usable
<1> QED BY InitEstablishes, Inductive, <1>1, PTL DEF Spec

\* Once a backup has succeeded there is one to restore the catalog from.
THEOREM AUsableBackupRemains == Spec => []AlwaysOneUsable
<1>1. IndInv => AlwaysOneUsable
  <2> SUFFICES ASSUME IndInv, \E b \in Backups : op[b] = "succeeded"
               PROVE  \E b \in Backups : Usable(b)
    BY DEF AlwaysOneUsable
  <2> DEFINE S == {b \in Backups : op[b] = "succeeded"}
  <2>1. PICK b \in S : \A c \in S : started[c] <= started[b]
    BY HasNewest DEF IndInv
  <2>2. ~Superseded(b)
    BY <2>1 DEF Superseded, IndInv, TypeOK
  <2>3. copyObj[b] /\ metaObj[b]
    BY <2>2 DEF IndInv, OnlyOldGone
  <2>4. row[b]
    BY <2>3 DEF IndInv, NothingLeaks
  <2> QED BY <2>3, <2>4 DEF Usable
<1> QED BY InitEstablishes, Inductive, <1>1, PTL DEF Spec
=============================================================================
