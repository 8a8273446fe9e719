-------------------------- MODULE RetentionProofs --------------------------
(*************************************************************************)
(* Machine-checked proofs about Retention, for any catalogue, any number *)
(* of runs and any policy bounds: typing; the preservation floor;        *)
(* exclusion, recovery and the conditional transactions; and the         *)
(* refinement of MediaLifecycle.  The last part is about RetentionPolicy,*)
(* the planner: for any catalogue, day and configuration its plan is the *)
(* least one that satisfies the rules.                                   *)
(*************************************************************************)
EXTENDS Retention, RetentionPolicy, FiniteSetTheorems, TLAPS

\* Every variable of a run, of the database, of the files and of the locks
\* keeps its type.
THEOREM RetentionTyped == Spec => []TypeOK
<1>1. Init => TypeOK
  BY RetentionAssumption
     DEF Init, TypeOK, PC, RetentionLock!LockValue, BackupLock!LockValue,
         RetentionLock!Free, BackupLock!Free
<1>2. TypeOK /\ [Next]_vars => TypeOK'
  <2> SUFFICES ASSUME TypeOK, [Next]_vars
               PROVE  TypeOK'
    OBVIOUS
  <2> USE RetentionAssumption
      DEF TypeOK, PC, Working, Goto, Forget, Intent, database, files, locks,
          memory, CommitDeletion, RetentionLock!LockValue,
          BackupLock!LockValue, RetentionLock!Free, RetentionLock!Abandoned,
          RetentionLock!Stale, BackupLock!Free, BackupLock!Abandoned,
          BackupLock!Stale
  <2>1. ASSUME NEW p \in Runs, RunStep(p)
        PROVE  TypeOK'
    <3>1. CASE StartRun(p)
      BY <3>1 DEF StartRun
    <3>2. CASE TakeRetentionLock(p)
      BY <3>2 DEF TakeRetentionLock, RetentionLock!Acquire
    <3>3. CASE RetentionLockUnavailable(p)
      BY <3>3 DEF RetentionLockUnavailable
    <3>4. CASE ClearRetentionLock(p)
      BY <3>4 DEF ClearRetentionLock, RetentionLock!Clear
    <3>5. CASE TakeBackupLock(p)
      BY <3>5 DEF TakeBackupLock, BackupLock!Acquire
    <3>6. CASE BackupLockUnavailable(p)
      BY <3>6 DEF BackupLockUnavailable
    <3>7. CASE ClearBackupLock(p)
      BY <3>7 DEF ClearBackupLock, BackupLock!Clear
    <3>8. CASE ListRecords(p)
      <4> DEFINE Read == {[capture |-> c, at |-> requestedAt[c]] :
                            c \in {d \in catalogue : lifecycle[d] = "pending_delete"}}
      <4>1. Read \subseteq Intent
        <5> SUFFICES ASSUME NEW c \in catalogue
                     PROVE  [capture |-> c, at |-> requestedAt[c]] \in Intent
          OBVIOUS
        <5>1. c \in Captures /\ requestedAt[c] \in Instants
          OBVIOUS
        <5> QED
          BY <5>1
      <4>2. Managed \subseteq Captures
        BY DEF Managed
      <4> HIDE DEF Read
      <4>3. intents' = [intents EXCEPT ![p] = Read]
        BY <3>8 DEF ListRecords, Read
      <4>4. intents' \in [Runs -> SUBSET Intent]
        BY <4>1, <4>3 DEF TypeOK
      <4> QED
        BY <3>8, <4>2, <4>4 DEF ListRecords
    <3>9. ASSUME NEW i \in intents[p], RecoverInspects(p, i)
          PROVE  TypeOK'
      <4>1. i.capture \in Captures
        BY <3>9 DEF Intent
      <4>2. UNCHANGED <<catalogue, lifecycle, requestedAt, observed, media>>
        BY <3>9 DEF RecoverInspects
      <4>3. gone' \subseteq Captures
        BY <3>9, <4>1 DEF RecoverInspects
      <4>4. pc' \in [Runs -> PC] /\ UNCHANGED <<locks, memory>>
        BY <3>9 DEF RecoverInspects
      <4> QED
        BY <4>2, <4>3, <4>4
    <3>10. ASSUME NEW i \in intents[p], RecoverRefuses(p, i)
          PROVE  TypeOK'
      BY <3>10 DEF RecoverRefuses
    <3>11. ASSUME NEW i \in intents[p], RecoverUnlinks(p, i)
          PROVE  TypeOK'
      <4>1. i.capture \in Captures
        BY <3>11 DEF Intent
      <4> QED
        BY <3>11, <4>1 DEF RecoverUnlinks
    <3>12. ASSUME NEW i \in intents[p], FinalizeRecovered(p, i)
          PROVE  TypeOK'
      <4>1. i.capture \in Captures
        BY <3>12 DEF Intent
      <4> QED
        <5>1. lifecycle' \in [Captures -> {"present", "pending_delete", "deleted"}]
          BY <3>12, <4>1 DEF FinalizeRecovered
        <5>2. observed' \in [Captures -> Nat]
          <6>1. PICK d \in Captures : d = i.capture
            BY <4>1
          <6>2. observed' = [observed EXCEPT ![d] = observed[d] + 1]
            BY <3>12, <6>1 DEF FinalizeRecovered
          <6>3. observed[d] + 1 \in Nat
            OBVIOUS
          <6> QED
            BY <6>2, <6>3
        <5>3. intents' \in [Runs -> SUBSET Intent]
          BY <3>12 DEF FinalizeRecovered
        <5> QED
          BY <3>12, <5>1, <5>2, <5>3 DEF FinalizeRecovered
    <3>13. CASE RecoverUnlinkFails(p)
      BY <3>13 DEF RecoverUnlinkFails
    <3>14. CASE FinalizeFails(p)
      BY <3>14 DEF FinalizeFails
    <3>15. CASE PlanRetention(p)
      BY <3>15 DEF PlanRetention, Plans, Eligible
    <3>16. ASSUME NEW c \in plan[p], ValidatePasses(p, c)
          PROVE  TypeOK'
      BY <3>16 DEF ValidatePasses
    <3>17. ASSUME NEW c \in plan[p], ValidateRefuses(p, c)
          PROVE  TypeOK'
      BY <3>17 DEF ValidateRefuses
    <3>18. ASSUME NEW c \in plan[p], Claim(p, c)
          PROVE  TypeOK'
      BY <3>18 DEF Claim
    <3>19. ASSUME NEW c \in plan[p], Revalidate(p, c)
          PROVE  TypeOK'
      BY <3>19 DEF Revalidate
    <3>20. ASSUME NEW c \in plan[p], Unlink(p, c)
          PROVE  TypeOK'
      BY <3>20 DEF Unlink
    <3>21. ASSUME NEW c \in plan[p], Cancel(p, c)
          PROVE  TypeOK'
      BY <3>21 DEF Cancel
    <3>22. ASSUME NEW c \in plan[p], Finalize(p, c)
          PROVE  TypeOK'
      BY <3>22 DEF Finalize
    <3>23. CASE ClaimFails(p)
      BY <3>23 DEF ClaimFails
    <3>24. CASE UnlinkFails(p)
      BY <3>24 DEF UnlinkFails
    <3>25. CASE CancelFails(p)
      BY <3>25 DEF CancelFails
    <3>26. CASE RunCompletes(p)
      BY <3>26 DEF RunCompletes
    <3>27. CASE Abort(p)
      BY <3>27 DEF Abort
    <3>28. CASE ReleaseBackupLock(p)
      BY <3>28 DEF ReleaseBackupLock, BackupLock!Release, BackupLock!Abandon
    <3>29. CASE ReleaseRetentionLock(p)
      BY <3>29 DEF ReleaseRetentionLock, RetentionLock!Release, RetentionLock!Abandon
    <3>30. CASE Crash(p)
      BY <3>30 DEF Crash, RetentionLock!Abandon, BackupLock!Abandon
    <3> QED
      BY <2>1, <3>1, <3>2, <3>3, <3>4, <3>5, <3>6, <3>7, <3>8, <3>9,
         <3>10, <3>11, <3>12, <3>13, <3>14, <3>15, <3>16, <3>17,
         <3>18, <3>19, <3>20, <3>21, <3>22, <3>23, <3>24, <3>25,
         <3>26, <3>27, <3>28, <3>29, <3>30 DEF RunStep
  <2>2. CASE Environment
    <3>1. CASE StartBackup
      BY <3>1 DEF StartBackup, BackupLock!Acquire
    <3>2. CASE EndBackup
      BY <3>2 DEF EndBackup, BackupLock!Release, BackupLock!Abandon
    <3>3. CASE LockExpires
      BY <3>3 DEF LockExpires, BackupLock!Expire, RetentionLock!Expire
    <3>4. ASSUME NEW c \in Captures, Archive(c)
          PROVE  TypeOK'
      BY <3>4 DEF Archive
    <3>5. ASSUME NEW c \in Captures, FileChanges(c)
          PROVE  TypeOK'
      BY <3>5 DEF FileChanges
    <3> QED
      BY <2>2, <3>1, <3>2, <3>3, <3>4, <3>5 DEF Environment
  <2>3. CASE UNCHANGED vars
    BY <2>3 DEF vars
  <2> QED
    BY <2>1, <2>2, <2>3 DEF Next
<1> QED
  BY <1>1, <1>2, PTL DEF Spec

(*************************************************************************)
(* The preservation floor, for locks that may or may not exclude.        *)
(*************************************************************************)

\* The strengthening.  What a run may still delete -- its plan, and whatever a
\* plan may select from its snapshot -- is above the floor already, and stays
\* there: a capture leaves the managed set only when it is claimed, and the
\* newer ones that made it eligible make every older one eligible.
FloorInv ==
  /\ \A c \in Captures : lifecycle[c] # "present" => AboveFloor(c)
  /\ \A p \in Runs : \A c \in plan[p] : AboveFloor(c)
  /\ \A p \in Runs : \A c \in Eligible(snapshot[p]) : AboveFloor(c)

\* What is above the floor stays there while the managed set only grows.
LEMMA FloorGrows ==
  ASSUME TypeOK, TypeOK', Managed \subseteq Managed',
         NEW c \in Captures, AboveFloor(c)
  PROVE  AboveFloor(c)'
<1>1. IsFiniteSet(Captures) /\ MinimumKeep \in Nat
  BY RetentionAssumption
<1>2. Newer(Managed, c) \subseteq Newer(Managed', c)
  BY DEF Newer
<1>3. Newer(Managed', c) \subseteq Captures
  BY DEF TypeOK, Newer, Managed
<1>4. IsFiniteSet(Newer(Managed', c))
  BY <1>1, <1>3, FS_Subset
<1>5. Cardinality(Newer(Managed, c)) <= Cardinality(Newer(Managed', c))
  BY <1>2, <1>4, FS_Subset
<1>6. IsFiniteSet(Newer(Managed, c))
  BY <1>2, <1>4, FS_Subset
<1>7. /\ Cardinality(Newer(Managed, c)) \in Nat
      /\ Cardinality(Newer(Managed', c)) \in Nat
  BY <1>4, <1>6, FS_CardinalityType
<1>8. Newer(Managed, c)' = Newer(Managed', c)
  BY DEF Newer
<1> QED
  BY <1>1, <1>5, <1>7, <1>8 DEF AboveFloor

\* It also stays there when a capture d that is itself above the floor leaves
\* the managed set.
LEMMA FloorSurvivesClaim ==
  ASSUME TypeOK, TypeOK',
         NEW d \in Captures, AboveFloor(d), Managed' = Managed \ {d},
         NEW c \in Captures, AboveFloor(c)
  PROVE  AboveFloor(c)'
<1>1. /\ IsFiniteSet(Captures) /\ Captures \subseteq Nat
      /\ MinimumKeep \in Nat
  BY RetentionAssumption
<1>2. Managed \subseteq Captures
  BY DEF TypeOK, Managed
<1>3. PICK e \in Captures : /\ AboveFloor(e)
                            /\ Newer(Managed, e) \subseteq Newer(Managed', c)
  <2>1. CASE d > c
    <3>1. Newer(Managed, d) \subseteq Newer(Managed', c)
      <4> SUFFICES ASSUME NEW f \in Managed, f > d
                   PROVE  f \in Managed' /\ f > c
        BY DEF Newer
      <4> QED
        BY <1>1, <1>2, <2>1
    <3> QED
      BY <3>1
  <2>2. CASE ~(d > c)
    <3>1. Newer(Managed, c) \subseteq Newer(Managed', c)
      <4> SUFFICES ASSUME NEW f \in Managed, f > c
                   PROVE  f \in Managed' /\ f > c
        BY DEF Newer
      <4> QED
        BY <1>1, <1>2, <2>2
    <3> QED
      BY <3>1
  <2> QED
    BY <2>1, <2>2
<1>4. IsFiniteSet(Newer(Managed', c))
  BY <1>1, <1>2, FS_Subset DEF Newer
<1>5. /\ Cardinality(Newer(Managed, e)) <= Cardinality(Newer(Managed', c))
      /\ IsFiniteSet(Newer(Managed, e))
  BY <1>3, <1>4, FS_Subset
<1>6. /\ Cardinality(Newer(Managed, e)) \in Nat
      /\ Cardinality(Newer(Managed', c)) \in Nat
  BY <1>4, <1>5, FS_CardinalityType
<1>7. Newer(Managed, c)' = Newer(Managed', c)
  BY DEF Newer
<1> QED
  BY <1>1, <1>3, <1>5, <1>6, <1>7 DEF AboveFloor

\* Every step that neither claims a capture nor selects anything.
LEMMA FloorKeptByGrowth ==
  ASSUME TypeOK, TypeOK', FloorInv, Managed \subseteq Managed',
         \A c \in Captures : lifecycle'[c] # "present" => lifecycle[c] # "present",
         \A q \in Runs : plan'[q] \subseteq plan[q],
         \A q \in Runs : snapshot'[q] \in {snapshot[q], {}, Managed}
  PROVE  FloorInv'
<1>1. \A c \in Captures : AboveFloor(c) => AboveFloor(c)'
  BY FloorGrows
<1>2. ASSUME NEW q \in Runs, NEW c \in plan'[q]
      PROVE  AboveFloor(c)'
  <2>1. c \in plan[q] /\ c \in Captures
    BY <1>2 DEF TypeOK
  <2> QED
    BY <1>1, <2>1 DEF FloorInv
<1>3. ASSUME NEW q \in Runs, NEW c \in Eligible(snapshot'[q])
      PROVE  AboveFloor(c)'
  <2>1. c \in snapshot'[q] /\ c \in Captures
    BY <1>3 DEF TypeOK, Eligible
  <2>2. CASE snapshot'[q] = snapshot[q]
    BY <1>1, <1>3, <2>1, <2>2 DEF FloorInv
  <2>3. CASE snapshot'[q] = {}
    BY <2>1, <2>3
  <2>4. CASE snapshot'[q] = Managed
    BY <1>1, <1>3, <2>1, <2>4 DEF Eligible, AboveFloor, Managed
  <2> QED
    BY <2>2, <2>3, <2>4
<1>4. ASSUME NEW c \in Captures, lifecycle'[c] # "present"
      PROVE  AboveFloor(c)'
  BY <1>1, <1>4 DEF FloorInv
<1>5. \A q \in Runs : Eligible(snapshot[q])' = Eligible(snapshot'[q])
  BY DEF Eligible, Newer
<1> QED
  BY <1>2, <1>3, <1>4, <1>5 DEF FloorInv

\* Steps that leave the catalogue and its lifecycle rows alone.
LEMMA FloorUntouched ==
  ASSUME TypeOK, TypeOK', FloorInv, UNCHANGED <<catalogue, lifecycle>>,
         \A q \in Runs : plan'[q] \subseteq plan[q],
         \A q \in Runs : snapshot'[q] \in {snapshot[q], {}, Managed}
  PROVE  FloorInv'
BY FloorKeptByGrowth DEF Managed

\* FloorInv is inductive: only a claim shrinks the managed set, and only a new
\* plan adds to what may be deleted.
LEMMA FloorStep == TypeOK /\ TypeOK' /\ FloorInv /\ [Next]_vars => FloorInv'
<1> SUFFICES ASSUME TypeOK, TypeOK', FloorInv, [Next]_vars
             PROVE  FloorInv'
  OBVIOUS
<1>1. ASSUME NEW p \in Runs, RunStep(p)
      PROVE  FloorInv'
  <2>1. CASE StartRun(p)
    BY <2>1, FloorUntouched DEF StartRun, database, memory
  <2>2. CASE TakeRetentionLock(p)
    BY <2>2, FloorUntouched DEF TakeRetentionLock, database, memory
  <2>3. CASE RetentionLockUnavailable(p)
    BY <2>3, FloorUntouched DEF RetentionLockUnavailable, database, memory
  <2>4. CASE ClearRetentionLock(p)
    BY <2>4, FloorUntouched DEF ClearRetentionLock, database, memory
  <2>5. CASE TakeBackupLock(p)
    BY <2>5, FloorUntouched DEF TakeBackupLock, database, memory
  <2>6. CASE BackupLockUnavailable(p)
    BY <2>6, FloorUntouched DEF BackupLockUnavailable, database, memory
  <2>7. CASE ClearBackupLock(p)
    BY <2>7, FloorUntouched DEF ClearBackupLock, database, memory
  <2>8. CASE ListRecords(p)
    BY <2>8, FloorUntouched DEF ListRecords, database, TypeOK
  <2>9. ASSUME NEW i \in intents[p], RecoverInspects(p, i)
        PROVE  FloorInv'
    BY <2>9, FloorUntouched DEF RecoverInspects, database, memory
  <2>10. ASSUME NEW i \in intents[p], RecoverRefuses(p, i)
        PROVE  FloorInv'
    BY <2>10, FloorUntouched DEF RecoverRefuses, database, memory
  <2>11. ASSUME NEW i \in intents[p], RecoverUnlinks(p, i)
        PROVE  FloorInv'
    BY <2>11, FloorUntouched DEF RecoverUnlinks, database, memory
  <2>12. ASSUME NEW i \in intents[p], FinalizeRecovered(p, i)
        PROVE  FloorInv'
    <3>1. i.capture \in Captures /\ lifecycle[i.capture] = "pending_delete"
      BY <2>12 DEF TypeOK, Intent, FinalizeRecovered, CommitDeletion
    <3> QED
      BY <2>12, <3>1, FloorKeptByGrowth
         DEF FinalizeRecovered, CommitDeletion, TypeOK, Managed
  <2>13. CASE RecoverUnlinkFails(p)
    BY <2>13, FloorUntouched DEF RecoverUnlinkFails, database, memory
  <2>14. CASE FinalizeFails(p)
    BY <2>14, FloorUntouched DEF FinalizeFails, database, memory
  <2>15. CASE PlanRetention(p)
    <3>1. PICK T \in Plans(snapshot[p]) : plan' = [plan EXCEPT ![p] = T]
      BY <2>15 DEF PlanRetention
    <3>2. UNCHANGED <<catalogue, lifecycle>>
      BY <2>15 DEF PlanRetention, database
    <3>3. \A c \in Captures : AboveFloor(c) => AboveFloor(c)'
      BY <3>2, FloorGrows DEF Managed
    <3>4. ASSUME NEW q \in Runs, NEW c \in plan'[q]
          PROVE  AboveFloor(c)'
      <4>1. c \in Captures
        BY <3>4 DEF TypeOK
      <4>2. c \in plan[q] \/ (q = p /\ c \in Eligible(snapshot[p]))
        BY <3>1, <3>4 DEF TypeOK, Plans
      <4> QED
        BY <3>3, <4>1, <4>2 DEF FloorInv
    <3>5. ASSUME NEW q \in Runs, NEW c \in Eligible(snapshot'[q])
          PROVE  AboveFloor(c)'
      <4>1. c \in snapshot'[q] /\ c \in Captures
        BY <3>5 DEF TypeOK, Eligible
      <4>2. snapshot'[q] = snapshot[q]
        BY <2>15, <4>1 DEF PlanRetention, TypeOK
      <4> QED
        BY <3>3, <3>5, <4>1, <4>2 DEF FloorInv
    <3>6. \A q \in Runs : Eligible(snapshot[q])' = Eligible(snapshot'[q])
      BY DEF Eligible, Newer
    <3>7. \A c \in Captures : lifecycle'[c] # "present" => AboveFloor(c)'
      BY <3>2, <3>3 DEF FloorInv
    <3> QED
      BY <3>4, <3>5, <3>6, <3>7 DEF FloorInv
  <2>16. ASSUME NEW c \in plan[p], ValidatePasses(p, c)
        PROVE  FloorInv'
    BY <2>16, FloorUntouched DEF ValidatePasses, database, memory
  <2>17. ASSUME NEW c \in plan[p], ValidateRefuses(p, c)
        PROVE  FloorInv'
    BY <2>17, FloorUntouched DEF ValidateRefuses, database, memory
  <2>18. ASSUME NEW d \in plan[p], Claim(p, d)
        PROVE  FloorInv'
    <3>1. d \in Captures /\ AboveFloor(d)
      BY DEF TypeOK, FloorInv
    <3>2. Managed' = Managed \ {d}
      BY <2>18, <3>1 DEF Claim, Managed, TypeOK
    <3>3. \A c \in Captures : AboveFloor(c) => AboveFloor(c)'
      BY <3>1, <3>2, FloorSurvivesClaim
    <3>4. /\ plan' = plan /\ snapshot' = snapshot
          /\ \A c \in Captures \ {d} : lifecycle'[c] = lifecycle[c]
      BY <2>18 DEF Claim, memory, TypeOK
    <3>5. \A q \in Runs : Eligible(snapshot[q])' = Eligible(snapshot[q])
      BY <3>4 DEF Eligible, Newer
    <3>6. ASSUME NEW c \in Captures, lifecycle'[c] # "present"
          PROVE  AboveFloor(c)'
      BY <3>1, <3>3, <3>4, <3>6 DEF FloorInv
    <3>7. ASSUME NEW q \in Runs, NEW c \in plan'[q]
          PROVE  AboveFloor(c)'
      BY <3>3, <3>4, <3>7 DEF FloorInv, TypeOK
    <3>8. ASSUME NEW q \in Runs, NEW c \in Eligible(snapshot[q])
          PROVE  AboveFloor(c)'
      BY <3>3, <3>8 DEF FloorInv, TypeOK, Eligible
    <3> QED
      BY <3>4, <3>5, <3>6, <3>7, <3>8 DEF FloorInv
  <2>19. ASSUME NEW c \in plan[p], Revalidate(p, c)
        PROVE  FloorInv'
    BY <2>19, FloorUntouched DEF Revalidate, database, memory
  <2>20. ASSUME NEW c \in plan[p], Unlink(p, c)
        PROVE  FloorInv'
    BY <2>20, FloorUntouched DEF Unlink, database, memory
  <2>21. ASSUME NEW c \in plan[p], Cancel(p, c)
        PROVE  FloorInv'
    BY <2>21, FloorKeptByGrowth DEF Cancel, TypeOK, Managed, memory
  <2>22. ASSUME NEW c \in plan[p], Finalize(p, c)
        PROVE  FloorInv'
    <3>1. c \in Captures /\ lifecycle[c] = "pending_delete"
      BY <2>22 DEF TypeOK, Finalize, CommitDeletion
    <3>2. \A q \in Runs : plan'[q] \subseteq plan[q]
      BY <2>22 DEF Finalize, TypeOK
    <3> QED
      BY <2>22, <3>1, <3>2, FloorKeptByGrowth
         DEF Finalize, CommitDeletion, TypeOK, Managed
  <2>23. CASE ClaimFails(p)
    BY <2>23, FloorUntouched DEF ClaimFails, database, memory
  <2>24. CASE UnlinkFails(p)
    BY <2>24, FloorUntouched DEF UnlinkFails, database, memory
  <2>25. CASE CancelFails(p)
    BY <2>25, FloorUntouched DEF CancelFails, database, memory
  <2>26. CASE RunCompletes(p)
    BY <2>26, FloorUntouched DEF RunCompletes, database, memory
  <2>27. CASE Abort(p)
    BY <2>27, FloorUntouched DEF Abort, database, memory
  <2>28. CASE ReleaseBackupLock(p)
    BY <2>28, FloorUntouched DEF ReleaseBackupLock, database, Forget, TypeOK
  <2>29. CASE ReleaseRetentionLock(p)
    BY <2>29, FloorUntouched DEF ReleaseRetentionLock, database, memory
  <2>30. CASE Crash(p)
    BY <2>30, FloorUntouched DEF Crash, database, Forget, TypeOK
  <2> QED
    BY <1>1, <2>1, <2>2, <2>3, <2>4, <2>5, <2>6, <2>7, <2>8, <2>9,
       <2>10, <2>11, <2>12, <2>13, <2>14, <2>15, <2>16, <2>17, <2>18,
       <2>19, <2>20, <2>21, <2>22, <2>23, <2>24, <2>25, <2>26, <2>27,
       <2>28, <2>29, <2>30 DEF RunStep
<1>2. CASE Environment
  <2>1. CASE StartBackup
    BY <2>1, FloorUntouched DEF StartBackup, database, memory
  <2>2. CASE EndBackup
    BY <2>2, FloorUntouched DEF EndBackup, database, memory
  <2>3. CASE LockExpires
    BY <2>3, FloorUntouched DEF LockExpires, database, memory
  <2>4. ASSUME NEW c \in Captures, Archive(c)
        PROVE  FloorInv'
    BY <2>4, FloorKeptByGrowth DEF Archive, Managed, memory
  <2>5. ASSUME NEW c \in Captures, FileChanges(c)
        PROVE  FloorInv'
    BY <2>5, FloorUntouched DEF FileChanges, database, memory
  <2> QED
    BY <1>2, <2>1, <2>2, <2>3, <2>4, <2>5 DEF Environment
<1>3. CASE UNCHANGED vars
  BY <1>3, FloorUntouched DEF vars
<1> QED
  BY <1>1, <1>2, <1>3 DEF Next

LEMMA FloorHolds == Spec => []FloorInv
<1>1. Init => FloorInv
  BY DEF Init, FloorInv, Eligible
<1> QED
  BY <1>1, RetentionTyped, FloorStep, PTL DEF Spec

\* Nothing a run has condemned or deleted was among the MinimumKeep newest
\* managed captures: NewestKept holds of every behaviour, whether or not the
\* locks keep the runs apart.
THEOREM FloorIsKept == Spec => []NewestKept
<1>1. TypeOK /\ FloorInv => NewestKept
  BY DEF TypeOK, FloorInv, NewestKept
<1> QED
  BY <1>1, RetentionTyped, FloorHolds, PTL

(*************************************************************************)
(* What exclusion, recovery and the conditional transactions guarantee   *)
(* together when the locks exclude: one destructive run at a time, at    *)
(* most one undecided capture, no loss that the catalogue cannot         *)
(* explain, and exactly one observation per deletion.                    *)
(*************************************************************************)

\* The backup's lock file names the one process that works under it.
BackupLockInv ==
  /\ \A p \in Runs : pc[p] \in Working => backupLock = p
  /\ backup = "running" => backupLock = Backup

\* Only the process that holds the lock gives it back, and nobody clears or
\* ages a lock whose holder lives.
LEMMA BackupLockHeld ==
  ASSUME LocksExclude = TRUE
  PROVE  Spec => []BackupLockInv
<1>1. Init => BackupLockInv
  BY DEF Init, BackupLockInv, Working
<1>2. TypeOK /\ BackupLockInv /\ [Next]_vars => BackupLockInv'
  <2> SUFFICES ASSUME TypeOK, BackupLockInv, [Next]_vars
               PROVE  BackupLockInv'
    OBVIOUS
  <2> USE RetentionAssumption
      DEF TypeOK, BackupLockInv, Working, Goto, locks, BackupLock!Free,
          BackupLock!Abandoned, BackupLock!Stale
  <2>1. ASSUME NEW p \in Runs, RunStep(p)
        PROVE  BackupLockInv'
    <3>1. CASE StartRun(p)
      BY <3>1 DEF StartRun
    <3>2. CASE TakeRetentionLock(p)
      BY <3>2 DEF TakeRetentionLock
    <3>3. CASE RetentionLockUnavailable(p)
      BY <3>3 DEF RetentionLockUnavailable
    <3>4. CASE ClearRetentionLock(p)
      BY <3>4 DEF ClearRetentionLock
    <3>5. CASE TakeBackupLock(p)
      BY <3>5 DEF TakeBackupLock, BackupLock!Acquire
    <3>6. CASE BackupLockUnavailable(p)
      BY <3>6 DEF BackupLockUnavailable
    <3>7. CASE ClearBackupLock(p)
      BY <3>7 DEF ClearBackupLock, BackupLock!Clear
    <3>8. CASE ListRecords(p)
      BY <3>8 DEF ListRecords
    <3>9. ASSUME NEW i \in intents[p], RecoverInspects(p, i)
          PROVE  BackupLockInv'
      BY <3>9 DEF RecoverInspects
    <3>10. ASSUME NEW i \in intents[p], RecoverRefuses(p, i)
          PROVE  BackupLockInv'
      BY <3>10 DEF RecoverRefuses
    <3>11. ASSUME NEW i \in intents[p], RecoverUnlinks(p, i)
          PROVE  BackupLockInv'
      BY <3>11 DEF RecoverUnlinks
    <3>12. ASSUME NEW i \in intents[p], FinalizeRecovered(p, i)
          PROVE  BackupLockInv'
      BY <3>12 DEF FinalizeRecovered
    <3>13. CASE RecoverUnlinkFails(p)
      BY <3>13 DEF RecoverUnlinkFails
    <3>14. CASE FinalizeFails(p)
      BY <3>14 DEF FinalizeFails
    <3>15. CASE PlanRetention(p)
      BY <3>15 DEF PlanRetention
    <3>16. ASSUME NEW c \in plan[p], ValidatePasses(p, c)
          PROVE  BackupLockInv'
      BY <3>16 DEF ValidatePasses
    <3>17. ASSUME NEW c \in plan[p], ValidateRefuses(p, c)
          PROVE  BackupLockInv'
      BY <3>17 DEF ValidateRefuses
    <3>18. ASSUME NEW c \in plan[p], Claim(p, c)
          PROVE  BackupLockInv'
      BY <3>18 DEF Claim
    <3>19. ASSUME NEW c \in plan[p], Revalidate(p, c)
          PROVE  BackupLockInv'
      BY <3>19 DEF Revalidate
    <3>20. ASSUME NEW c \in plan[p], Unlink(p, c)
          PROVE  BackupLockInv'
      BY <3>20 DEF Unlink
    <3>21. ASSUME NEW c \in plan[p], Cancel(p, c)
          PROVE  BackupLockInv'
      BY <3>21 DEF Cancel
    <3>22. ASSUME NEW c \in plan[p], Finalize(p, c)
          PROVE  BackupLockInv'
      BY <3>22 DEF Finalize
    <3>23. CASE ClaimFails(p)
      BY <3>23 DEF ClaimFails
    <3>24. CASE UnlinkFails(p)
      BY <3>24 DEF UnlinkFails
    <3>25. CASE CancelFails(p)
      BY <3>25 DEF CancelFails
    <3>26. CASE RunCompletes(p)
      BY <3>26 DEF RunCompletes
    <3>27. CASE Abort(p)
      BY <3>27 DEF Abort
    <3>28. CASE ReleaseBackupLock(p)
      BY <3>28 DEF ReleaseBackupLock, BackupLock!Release, BackupLock!Abandon
    <3>29. CASE ReleaseRetentionLock(p)
      BY <3>29 DEF ReleaseRetentionLock
    <3>30. CASE Crash(p)
      BY <3>30 DEF Crash, BackupLock!Abandon
    <3> QED
      BY <2>1, <3>1, <3>2, <3>3, <3>4, <3>5, <3>6, <3>7, <3>8, <3>9,
         <3>10, <3>11, <3>12, <3>13, <3>14, <3>15, <3>16, <3>17, <3>18,
         <3>19, <3>20, <3>21, <3>22, <3>23, <3>24, <3>25, <3>26, <3>27,
         <3>28, <3>29, <3>30 DEF RunStep
  <2>2. CASE Environment
    <3>1. CASE StartBackup
      BY <3>1 DEF StartBackup, BackupLock!Acquire
    <3>2. CASE EndBackup
      BY <3>2 DEF EndBackup, BackupLock!Release, BackupLock!Abandon
    <3>3. CASE LockExpires
      BY <3>3 DEF LockExpires, BackupLock!Expire
    <3>4. ASSUME NEW c \in Captures, Archive(c) \/ FileChanges(c)
          PROVE  BackupLockInv'
      BY <3>4 DEF Archive, FileChanges
    <3> QED
      BY <2>2, <3>1, <3>2, <3>3, <3>4 DEF Environment
  <2>3. CASE UNCHANGED vars
    BY <2>3 DEF vars
  <2> QED
    BY <2>1, <2>2, <2>3 DEF Next
<1> QED
  BY <1>1, <1>2, RetentionTyped, PTL DEF Spec

\* run_once and create_backup are mutually exclusive for their whole
\* destructive part, whoever comes first.
THEOREM RunsExclude ==
  ASSUME LocksExclude = TRUE
  PROVE  Spec => []Exclusion
<1>1. TypeOK /\ BackupLockInv => Exclusion
  BY RetentionAssumption DEF TypeOK, BackupLockInv, Exclusion, Destructive
<1> QED
  BY <1>1, RetentionTyped, BackupLockHeld, PTL
-----------------------------------------------------------------------------
\* A run plans over and deletes from the catalogue only.
MemoryInv == \A p \in Runs : plan[p] \subseteq catalogue /\ snapshot[p] \subseteq catalogue

LEMMA MemoryIsCatalogued == Spec => []MemoryInv
<1>1. Init => MemoryInv
  BY DEF Init, MemoryInv
<1>2. TypeOK /\ MemoryInv /\ [Next]_vars => MemoryInv'
  <2> SUFFICES ASSUME TypeOK, MemoryInv, [Next]_vars
               PROVE  MemoryInv'
    OBVIOUS
  <2> USE DEF TypeOK, MemoryInv, Forget, database, memory
  <2>1. ASSUME NEW p \in Runs, RunStep(p)
        PROVE  MemoryInv'
    <3>1. CASE StartRun(p)
      BY <3>1 DEF StartRun
    <3>2. CASE TakeRetentionLock(p)
      BY <3>2 DEF TakeRetentionLock
    <3>3. CASE RetentionLockUnavailable(p)
      BY <3>3 DEF RetentionLockUnavailable
    <3>4. CASE ClearRetentionLock(p)
      BY <3>4 DEF ClearRetentionLock
    <3>5. CASE TakeBackupLock(p)
      BY <3>5 DEF TakeBackupLock
    <3>6. CASE BackupLockUnavailable(p)
      BY <3>6 DEF BackupLockUnavailable
    <3>7. CASE ClearBackupLock(p)
      BY <3>7 DEF ClearBackupLock
    <3>8. CASE ListRecords(p)
      BY <3>8 DEF ListRecords, Managed
    <3>9. ASSUME NEW i \in intents[p], RecoverInspects(p, i)
          PROVE  MemoryInv'
      BY <3>9 DEF RecoverInspects
    <3>10. ASSUME NEW i \in intents[p], RecoverRefuses(p, i)
          PROVE  MemoryInv'
      BY <3>10 DEF RecoverRefuses
    <3>11. ASSUME NEW i \in intents[p], RecoverUnlinks(p, i)
          PROVE  MemoryInv'
      BY <3>11 DEF RecoverUnlinks
    <3>12. ASSUME NEW i \in intents[p], FinalizeRecovered(p, i)
          PROVE  MemoryInv'
      BY <3>12 DEF FinalizeRecovered, CommitDeletion
    <3>13. CASE RecoverUnlinkFails(p)
      BY <3>13 DEF RecoverUnlinkFails
    <3>14. CASE FinalizeFails(p)
      BY <3>14 DEF FinalizeFails
    <3>15. CASE PlanRetention(p)
      BY <3>15 DEF PlanRetention, Plans, Eligible
    <3>16. ASSUME NEW c \in plan[p], ValidatePasses(p, c)
          PROVE  MemoryInv'
      BY <3>16 DEF ValidatePasses
    <3>17. ASSUME NEW c \in plan[p], ValidateRefuses(p, c)
          PROVE  MemoryInv'
      BY <3>17 DEF ValidateRefuses
    <3>18. ASSUME NEW c \in plan[p], Claim(p, c)
          PROVE  MemoryInv'
      BY <3>18 DEF Claim
    <3>19. ASSUME NEW c \in plan[p], Revalidate(p, c)
          PROVE  MemoryInv'
      BY <3>19 DEF Revalidate
    <3>20. ASSUME NEW c \in plan[p], Unlink(p, c)
          PROVE  MemoryInv'
      BY <3>20 DEF Unlink
    <3>21. ASSUME NEW c \in plan[p], Cancel(p, c)
          PROVE  MemoryInv'
      BY <3>21 DEF Cancel
    <3>22. ASSUME NEW c \in plan[p], Finalize(p, c)
          PROVE  MemoryInv'
      BY <3>22 DEF Finalize, CommitDeletion
    <3>23. CASE ClaimFails(p)
      BY <3>23 DEF ClaimFails
    <3>24. CASE UnlinkFails(p)
      BY <3>24 DEF UnlinkFails
    <3>25. CASE CancelFails(p)
      BY <3>25 DEF CancelFails
    <3>26. CASE RunCompletes(p)
      BY <3>26 DEF RunCompletes
    <3>27. CASE Abort(p)
      BY <3>27 DEF Abort
    <3>28. CASE ReleaseBackupLock(p)
      BY <3>28 DEF ReleaseBackupLock
    <3>29. CASE ReleaseRetentionLock(p)
      BY <3>29 DEF ReleaseRetentionLock
    <3>30. CASE Crash(p)
      BY <3>30 DEF Crash
    <3> QED
      BY <2>1, <3>1, <3>2, <3>3, <3>4, <3>5, <3>6, <3>7, <3>8, <3>9,
         <3>10, <3>11, <3>12, <3>13, <3>14, <3>15, <3>16, <3>17, <3>18,
         <3>19, <3>20, <3>21, <3>22, <3>23, <3>24, <3>25, <3>26, <3>27,
         <3>28, <3>29, <3>30 DEF RunStep
  <2>2. CASE Environment
    BY <2>2 DEF Environment, StartBackup, EndBackup, LockExpires, Archive,
                FileChanges
  <2>3. CASE UNCHANGED vars
    BY <2>3 DEF vars
  <2> QED
    BY <2>1, <2>2, <2>3 DEF Next
<1> QED
  BY <1>1, <1>2, RetentionTyped, PTL DEF Spec
-----------------------------------------------------------------------------
Pending(c) == lifecycle[c] = "pending_delete"

\* The durable state on its own.  What is condemned or deleted is catalogued,
\* what is deleted is recorded once and was unlinked or found gone, which only
\* the condemned and the deleted are, and one capture at most is undecided.
DurableInv ==
  /\ \A c \in Captures : lifecycle[c] # "present" => c \in catalogue
  /\ \A c \in Captures : observed[c] = IF lifecycle[c] = "deleted" THEN 1 ELSE 0
  /\ \A c \in Captures : lifecycle[c] = "deleted" => c \in gone
  /\ \A c \in gone : lifecycle[c] # "present"
  /\ \A c, d \in Captures : Pending(c) /\ Pending(d) => c = d

\* While a run recovers, the intents it has read are exactly the undecided
\* captures, and it finalises only what is gone.
RecoverInv(p) ==
  pc[p] \in {"recover", "recover_unlink", "recover_finalize"} =>
    /\ \A i \in intents[p] : Pending(i.capture)
    /\ \A i, j \in intents[p] : i.capture = j.capture => i = j
    /\ \A c \in Captures : Pending(c) => \E i \in intents[p] : i.capture = c
    /\ pc[p] = "recover_finalize" =>
         \A i \in intents[p] : i.capture \in gone

\* While it deletes, nothing is undecided but the candidate between its claim
\* and its finalisation, whose file this run has not removed before that.
DeleteInv(p) ==
  /\ pc[p] \in {"validate", "claim"} => \A c \in Captures : ~Pending(c)
  /\ pc[p] \in {"revalidate", "unlink", "cancel", "finalize"} =>
       \E c \in plan[p] :
         /\ Candidate(p, c)
         /\ \A d \in Captures : Pending(d) <=> d = c
         /\ pc[p] = "finalize" <=> c \in gone

SettledInv == DurableInv /\ \A p \in Runs : RecoverInv(p) /\ DeleteInv(p)

Inside(p) == RecoverInv(p) /\ DeleteInv(p)

\* A run that does not move keeps its part of the invariant while the rows
\* and the removals stand still.
LEMMA Bystander ==
  ASSUME TypeOK, lifecycle' = lifecycle, gone' = gone,
         NEW q \in Runs, Inside(q),
         pc'[q] = pc[q], intents'[q] = intents[q], plan'[q] = plan[q]
  PROVE  Inside(q)'
<1>1. RecoverInv(q)'
  BY DEF Inside, RecoverInv, Pending
<1>2. DeleteInv(q)'
  <2>1. CASE pc[q] \in {"revalidate", "unlink", "cancel", "finalize"}
    <3>1. PICK c \in plan[q] :
            /\ Candidate(q, c)
            /\ \A d \in Captures : Pending(d) <=> d = c
            /\ pc[q] = "finalize" <=> c \in gone
      BY <2>1 DEF Inside, DeleteInv
    <3>2. Candidate(q, c)'
      BY <3>1 DEF Candidate
    <3>3. \A d \in Captures : Pending(d)' <=> d = c
      BY <3>1 DEF Pending
    <3>4. pc'[q] = "finalize" <=> c \in gone'
      BY <3>1
    <3> QED
      BY <2>1, <3>2, <3>3, <3>4 DEF DeleteInv
  <2>2. CASE pc[q] \notin {"revalidate", "unlink", "cancel", "finalize"}
    BY <2>2 DEF Inside, DeleteInv, Pending
  <2> QED
    BY <2>1, <2>2
<1> QED
  BY <1>1, <1>2 DEF Inside

\* While one run works, no other is inside its destructive part.
LEMMA Aside ==
  ASSUME BackupLockInv, NEW p \in Runs, pc[p] \in Working,
         NEW q \in Runs \ {p}, pc'[q] = pc[q]
  PROVE  Inside(q)'
BY DEF BackupLockInv, Working, Inside, RecoverInv, DeleteInv

\* A step moves the run that takes it and no other.
LEMMA StepIsLocal ==
  ASSUME TypeOK, NEW p \in Runs, RunStep(p), NEW q \in Runs \ {p}
  PROVE  pc'[q] = pc[q] /\ intents'[q] = intents[q] /\ plan'[q] = plan[q]
<1> USE DEF TypeOK, Goto, Forget, memory
<1>1. CASE StartRun(p)
  BY <1>1 DEF StartRun
<1>2. CASE TakeRetentionLock(p)
  BY <1>2 DEF TakeRetentionLock
<1>3. CASE RetentionLockUnavailable(p)
  BY <1>3 DEF RetentionLockUnavailable
<1>4. CASE ClearRetentionLock(p)
  BY <1>4 DEF ClearRetentionLock
<1>5. CASE TakeBackupLock(p)
  BY <1>5 DEF TakeBackupLock
<1>6. CASE BackupLockUnavailable(p)
  BY <1>6 DEF BackupLockUnavailable
<1>7. CASE ClearBackupLock(p)
  BY <1>7 DEF ClearBackupLock
<1>8. CASE ListRecords(p)
  BY <1>8 DEF ListRecords
<1>9. ASSUME NEW i \in intents[p], RecoverInspects(p, i)
      PROVE  pc'[q] = pc[q] /\ intents'[q] = intents[q] /\ plan'[q] = plan[q]
  BY <1>9 DEF RecoverInspects
<1>10. ASSUME NEW i \in intents[p], RecoverRefuses(p, i)
      PROVE  pc'[q] = pc[q] /\ intents'[q] = intents[q] /\ plan'[q] = plan[q]
  BY <1>10 DEF RecoverRefuses
<1>11. ASSUME NEW i \in intents[p], RecoverUnlinks(p, i)
      PROVE  pc'[q] = pc[q] /\ intents'[q] = intents[q] /\ plan'[q] = plan[q]
  BY <1>11 DEF RecoverUnlinks
<1>12. ASSUME NEW i \in intents[p], FinalizeRecovered(p, i)
      PROVE  pc'[q] = pc[q] /\ intents'[q] = intents[q] /\ plan'[q] = plan[q]
  BY <1>12 DEF FinalizeRecovered
<1>13. CASE RecoverUnlinkFails(p)
  BY <1>13 DEF RecoverUnlinkFails
<1>14. CASE FinalizeFails(p)
  BY <1>14 DEF FinalizeFails
<1>15. CASE PlanRetention(p)
  BY <1>15 DEF PlanRetention
<1>16. ASSUME NEW c \in plan[p], ValidatePasses(p, c)
      PROVE  pc'[q] = pc[q] /\ intents'[q] = intents[q] /\ plan'[q] = plan[q]
  BY <1>16 DEF ValidatePasses
<1>17. ASSUME NEW c \in plan[p], ValidateRefuses(p, c)
      PROVE  pc'[q] = pc[q] /\ intents'[q] = intents[q] /\ plan'[q] = plan[q]
  BY <1>17 DEF ValidateRefuses
<1>18. ASSUME NEW c \in plan[p], Claim(p, c)
      PROVE  pc'[q] = pc[q] /\ intents'[q] = intents[q] /\ plan'[q] = plan[q]
  BY <1>18 DEF Claim
<1>19. ASSUME NEW c \in plan[p], Revalidate(p, c)
      PROVE  pc'[q] = pc[q] /\ intents'[q] = intents[q] /\ plan'[q] = plan[q]
  BY <1>19 DEF Revalidate
<1>20. ASSUME NEW c \in plan[p], Unlink(p, c)
      PROVE  pc'[q] = pc[q] /\ intents'[q] = intents[q] /\ plan'[q] = plan[q]
  BY <1>20 DEF Unlink
<1>21. ASSUME NEW c \in plan[p], Cancel(p, c)
      PROVE  pc'[q] = pc[q] /\ intents'[q] = intents[q] /\ plan'[q] = plan[q]
  BY <1>21 DEF Cancel
<1>22. ASSUME NEW c \in plan[p], Finalize(p, c)
      PROVE  pc'[q] = pc[q] /\ intents'[q] = intents[q] /\ plan'[q] = plan[q]
  BY <1>22 DEF Finalize
<1>23. CASE ClaimFails(p)
  BY <1>23 DEF ClaimFails
<1>24. CASE UnlinkFails(p)
  BY <1>24 DEF UnlinkFails
<1>25. CASE CancelFails(p)
  BY <1>25 DEF CancelFails
<1>26. CASE RunCompletes(p)
  BY <1>26 DEF RunCompletes
<1>27. CASE Abort(p)
  BY <1>27 DEF Abort
<1>28. CASE ReleaseBackupLock(p)
  BY <1>28 DEF ReleaseBackupLock
<1>29. CASE ReleaseRetentionLock(p)
  BY <1>29 DEF ReleaseRetentionLock
<1>30. CASE Crash(p)
  BY <1>30 DEF Crash
<1> QED
  BY <1>1, <1>2, <1>3, <1>4, <1>5, <1>6, <1>7, <1>8, <1>9, <1>10, <1>11,
     <1>12, <1>13, <1>14, <1>15, <1>16, <1>17, <1>18, <1>19, <1>20,
     <1>21, <1>22, <1>23, <1>24, <1>25, <1>26, <1>27, <1>28, <1>29,
     <1>30 DEF RunStep

\* A step of a run that touches neither the database nor the files.
LEMMA QuietStep ==
  ASSUME TypeOK, TypeOK', SettledInv, MemoryInv,
         NEW p \in Runs, RunStep(p), UNCHANGED <<database, files>>, Inside(p)'
  PROVE  SettledInv'
<1>1. DurableInv'
  BY DEF SettledInv, DurableInv, Pending, database, files
<1>2. ASSUME NEW q \in Runs \ {p}
      PROVE  Inside(q)'
  BY StepIsLocal, Bystander DEF SettledInv, Inside, database, files
<1> QED
  BY <1>1, <1>2 DEF SettledInv, Inside

\* A step of the working run that does.
LEMMA WorkingStep ==
  ASSUME TypeOK, BackupLockInv, NEW p \in Runs, RunStep(p),
         pc[p] \in Working, DurableInv', Inside(p)'
  PROVE  SettledInv'
<1>1. ASSUME NEW q \in Runs \ {p}
      PROVE  Inside(q)'
  BY StepIsLocal, Aside
<1> QED
  BY <1>1 DEF SettledInv, Inside

\* The oldest capture of a plan is unique.
LEMMA OneCandidate ==
  ASSUME TypeOK, NEW p \in Runs, NEW c, NEW d, Candidate(p, c), Candidate(p, d)
  PROVE  c = d
<1>1. c \in Nat /\ d \in Nat
  <2>1. plan[p] \subseteq Captures /\ Captures \subseteq Nat
    BY RetentionAssumption DEF TypeOK
  <2> QED
    BY <2>1 DEF Candidate
<1>2. c <= d /\ d <= c
  BY DEF Candidate
<1> QED
  BY <1>1, <1>2

\* The invariant is inductive, given the lock and the memory invariants.
LEMMA StepKeepsSettled ==
  TypeOK /\ TypeOK' /\ BackupLockInv /\ MemoryInv /\ SettledInv /\ [Next]_vars
    => SettledInv'
<1> SUFFICES ASSUME TypeOK, TypeOK', BackupLockInv, MemoryInv, SettledInv,
                    [Next]_vars
             PROVE  SettledInv'
  OBVIOUS
<1>1. ASSUME NEW p \in Runs, RunStep(p)
      PROVE  SettledInv'
  <2> USE <1>1 DEF Goto
  <2>0. DurableInv /\ RecoverInv(p) /\ DeleteInv(p)
    BY DEF SettledInv
  <2>1. CASE StartRun(p)
    BY <2>1, QuietStep DEF StartRun, Inside, RecoverInv, DeleteInv, TypeOK
  <2>2. CASE TakeRetentionLock(p)
    BY <2>2, QuietStep DEF TakeRetentionLock, Inside, RecoverInv, DeleteInv, TypeOK
  <2>3. CASE RetentionLockUnavailable(p)
    BY <2>3, QuietStep DEF RetentionLockUnavailable, Inside, RecoverInv, DeleteInv, TypeOK
  <2>4. CASE ClearRetentionLock(p)
    BY <2>4, QuietStep DEF ClearRetentionLock, Inside, RecoverInv, DeleteInv, TypeOK
  <2>5. CASE TakeBackupLock(p)
    BY <2>5, QuietStep DEF TakeBackupLock, Inside, RecoverInv, DeleteInv, TypeOK
  <2>6. CASE BackupLockUnavailable(p)
    BY <2>6, QuietStep DEF BackupLockUnavailable, Inside, RecoverInv, DeleteInv, TypeOK
  <2>7. CASE ClearBackupLock(p)
    BY <2>7, QuietStep DEF ClearBackupLock, Inside, RecoverInv, DeleteInv, TypeOK
  <2>8. CASE ListRecords(p)
    <3>1. intents'[p] = {[capture |-> c, at |-> requestedAt[c]] :
                           c \in {d \in catalogue : lifecycle[d] = "pending_delete"}}
      BY <2>8 DEF ListRecords, TypeOK
    <3>2. pc'[p] = "recover" /\ lifecycle' = lifecycle
      BY <2>8 DEF ListRecords, TypeOK, database
    <3>3. \A i \in intents'[p] : \E c \in Captures :
            Pending(c) /\ i = [capture |-> c, at |-> requestedAt[c]]
      BY <3>1 DEF TypeOK, Pending
    <3>4. \A i \in intents'[p] : Pending(i.capture)'
      BY <3>2, <3>3 DEF Pending
    <3>5. \A i, j \in intents'[p] : i.capture = j.capture => i = j
      BY <3>3
    <3>6. ASSUME NEW c \in Captures, Pending(c)'
          PROVE  \E i \in intents'[p] : i.capture = c
      <4>1. c \in catalogue /\ lifecycle[c] = "pending_delete"
        BY <2>0, <3>2, <3>6 DEF Pending, DurableInv
      <4>2. [capture |-> c, at |-> requestedAt[c]] \in intents'[p]
        BY <3>1, <4>1
      <4> QED
        BY <4>2
    <3>7. Inside(p)'
      BY <3>2, <3>4, <3>5, <3>6 DEF Inside, RecoverInv, DeleteInv
    <3> QED
      BY <2>8, <3>7, QuietStep DEF ListRecords
  <2>9. ASSUME NEW i \in intents[p], RecoverInspects(p, i)
        PROVE  SettledInv'
    <3>1. PICK d \in Captures : d = i.capture
      BY DEF TypeOK, Intent
    <3>2. /\ pc[p] = "recover" /\ pc'[p] \in {"recover_unlink", "recover_finalize"}
          /\ gone' \in {gone, gone \cup {d}}
          /\ pc'[p] = "recover_finalize" => d \in gone'
          /\ UNCHANGED <<catalogue, lifecycle, observed, intents>>
      BY <2>9, <3>1 DEF RecoverInspects, TypeOK, database, memory
    <3>3. Pending(d)
      BY <2>0, <3>1, <3>2 DEF RecoverInv
    <3>4. \A j \in intents[p] : j = i
      BY <2>0, <3>2 DEF RecoverInv, DurableInv, TypeOK, Intent
    <3>5. DurableInv'
      BY <2>0, <3>2, <3>3 DEF DurableInv, Pending
    <3>6. RecoverInv(p)'
      BY <2>0, <3>1, <3>2, <3>4 DEF RecoverInv, Pending
    <3>7. Inside(p)'
      BY <3>2, <3>6 DEF Inside, DeleteInv
    <3> QED
      BY <3>2, <3>5, <3>7, WorkingStep DEF Working
  <2>10. ASSUME NEW i \in intents[p], RecoverRefuses(p, i)
        PROVE  SettledInv'
    BY <2>10, QuietStep DEF RecoverRefuses, Inside, RecoverInv, DeleteInv, TypeOK
  <2>11. ASSUME NEW i \in intents[p], RecoverUnlinks(p, i)
        PROVE  SettledInv'
    <3>1. PICK d \in Captures : d = i.capture
      BY DEF TypeOK, Intent
    <3>2. /\ pc[p] = "recover_unlink" /\ pc'[p] = "recover_finalize"
          /\ gone' = gone \cup {d}
          /\ UNCHANGED <<catalogue, lifecycle, observed, intents>>
      BY <2>11, <3>1 DEF RecoverUnlinks, TypeOK, database, memory
    <3>3. Pending(d)
      BY <2>0, <3>1, <3>2 DEF RecoverInv
    <3>4. \A j \in intents[p] : j = i
      BY <2>0, <3>1, <3>2 DEF RecoverInv, DurableInv, TypeOK, Intent
    <3>5. DurableInv'
      BY <2>0, <3>2, <3>3 DEF DurableInv, Pending, TypeOK
    <3>6. RecoverInv(p)'
      BY <2>0, <3>1, <3>2, <3>4 DEF RecoverInv, Pending, TypeOK
    <3>7. Inside(p)'
      BY <3>2, <3>6 DEF Inside, DeleteInv
    <3> QED
      BY <3>2, <3>5, <3>7, WorkingStep DEF Working
  <2>12. ASSUME NEW i \in intents[p], FinalizeRecovered(p, i)
        PROVE  SettledInv'
    <3>1. PICK d \in Captures : d = i.capture
      BY DEF TypeOK, Intent
    <3>2. /\ pc[p] = "recover_finalize" /\ pc'[p] = "recover"
          /\ lifecycle' = [lifecycle EXCEPT ![d] = "deleted"]
          /\ observed' = [observed EXCEPT ![d] = @ + 1]
          /\ lifecycle[d] = "pending_delete"
          /\ intents'[p] = intents[p] \ {i}
          /\ UNCHANGED <<catalogue, gone>>
      BY <2>12, <3>1 DEF FinalizeRecovered, CommitDeletion, TypeOK, files
    <3>3. d \in gone
      BY <2>0, <3>1, <3>2 DEF RecoverInv
    <3>4. \A c \in Captures : ~Pending(c)'
      BY <2>0, <3>2 DEF DurableInv, Pending, TypeOK
    <3>5. intents'[p] = {}
      BY <2>0, <3>1, <3>2 DEF RecoverInv, DurableInv, TypeOK, Intent
    <3>6. DurableInv'
      <4>1. \A c \in Captures : lifecycle'[c] # "present" => c \in catalogue'
        BY <2>0, <3>2 DEF DurableInv, TypeOK
      <4>2. observed[d] = 0
        BY <2>0, <3>2 DEF DurableInv
      <4>3. \A c \in Captures :
              observed'[c] = IF lifecycle'[c] = "deleted" THEN 1 ELSE 0
        BY <2>0, <3>2, <4>2 DEF DurableInv, TypeOK
      <4>4. \A c \in Captures : lifecycle'[c] = "deleted" => c \in gone'
        BY <2>0, <3>2, <3>3 DEF DurableInv, TypeOK
      <4>5. \A c \in gone' : lifecycle'[c] # "present"
        BY <2>0, <3>2 DEF DurableInv, TypeOK
      <4> QED
        BY <3>4, <4>1, <4>3, <4>4, <4>5 DEF DurableInv
    <3>7. Inside(p)'
      BY <3>2, <3>4, <3>5 DEF Inside, RecoverInv, DeleteInv
    <3> QED
      BY <3>2, <3>6, <3>7, WorkingStep DEF Working
  <2>13. CASE RecoverUnlinkFails(p)
    BY <2>13, QuietStep DEF RecoverUnlinkFails, Inside, RecoverInv, DeleteInv, TypeOK
  <2>14. CASE FinalizeFails(p)
    BY <2>14, QuietStep DEF FinalizeFails, Inside, RecoverInv, DeleteInv, TypeOK
  <2>15. CASE PlanRetention(p)
    <3>1. /\ pc[p] = "recover" /\ pc'[p] = "validate" /\ intents[p] = {}
          /\ lifecycle' = lifecycle
      BY <2>15 DEF PlanRetention, TypeOK, database
    <3>2. \A c \in Captures : ~Pending(c)'
      BY <2>0, <3>1 DEF RecoverInv, Pending
    <3>3. Inside(p)'
      BY <3>1, <3>2 DEF Inside, RecoverInv, DeleteInv
    <3> QED
      BY <2>15, <3>3, QuietStep DEF PlanRetention
  <2>16. ASSUME NEW c \in plan[p], ValidatePasses(p, c)
        PROVE  SettledInv'
    <3>1. pc[p] = "validate" /\ pc'[p] = "claim" /\ lifecycle' = lifecycle
      BY <2>16 DEF ValidatePasses, TypeOK, database
    <3>2. Inside(p)'
      BY <2>0, <3>1 DEF Inside, RecoverInv, DeleteInv, Pending
    <3> QED
      BY <2>16, <3>2, QuietStep DEF ValidatePasses
  <2>17. ASSUME NEW c \in plan[p], ValidateRefuses(p, c)
        PROVE  SettledInv'
    BY <2>17, QuietStep DEF ValidateRefuses, Inside, RecoverInv, DeleteInv, TypeOK
  <2>18. ASSUME NEW c \in plan[p], Claim(p, c)
        PROVE  SettledInv'
    <3>1. /\ pc[p] = "claim" /\ pc'[p] = "revalidate"
          /\ lifecycle[c] = "present" /\ Candidate(p, c)
          /\ lifecycle' = [lifecycle EXCEPT ![c] = "pending_delete"]
          /\ UNCHANGED <<catalogue, observed, gone, plan>>
      BY <2>18 DEF Claim, TypeOK, files, memory
    <3>2. c \in Captures /\ c \in catalogue
      BY DEF TypeOK, MemoryInv
    <3>3. \A d \in Captures : Pending(d)' <=> d = c
      BY <2>0, <3>1, <3>2 DEF DeleteInv, Pending, TypeOK
    <3>4. c \notin gone
      BY <2>0, <3>1 DEF DurableInv
    <3>5. DurableInv'
      <4>1. \A d \in Captures : lifecycle'[d] # "present" => d \in catalogue'
        BY <2>0, <3>1, <3>2 DEF DurableInv, TypeOK
      <4>2. \A d \in Captures : lifecycle'[d] = "deleted" <=> lifecycle[d] = "deleted"
        BY <3>1, <3>2 DEF TypeOK
      <4>3. \A d \in gone' : lifecycle'[d] # "present"
        BY <2>0, <3>1, <3>4 DEF DurableInv, TypeOK
      <4> QED
        BY <2>0, <3>1, <3>3, <4>1, <4>2, <4>3 DEF DurableInv
    <3>6. Candidate(p, c)'
      BY <3>1 DEF Candidate
    <3>7. Inside(p)'
      BY <3>1, <3>3, <3>4, <3>6 DEF Inside, RecoverInv, DeleteInv, Candidate
    <3> QED
      BY <3>1, <3>5, <3>7, WorkingStep DEF Working
  <2>19. ASSUME NEW c \in plan[p], Revalidate(p, c)
        PROVE  SettledInv'
    <3>1. /\ pc[p] = "revalidate" /\ pc'[p] \in {"unlink", "cancel"}
          /\ UNCHANGED <<lifecycle, gone, plan>>
      BY <2>19 DEF Revalidate, TypeOK, database, files, memory
    <3>2. Inside(p)'
      BY <2>0, <3>1 DEF Inside, RecoverInv, DeleteInv, Pending, Candidate
    <3> QED
      BY <2>19, <3>2, QuietStep DEF Revalidate
  <2>20. ASSUME NEW c \in plan[p], Unlink(p, c)
        PROVE  SettledInv'
    <3>1. /\ pc[p] = "unlink" /\ pc'[p] = "finalize" /\ Candidate(p, c)
          /\ gone' = gone \cup {c}
          /\ UNCHANGED <<catalogue, lifecycle, observed, plan>>
      BY <2>20 DEF Unlink, TypeOK, database, memory
    <3>2. c \in Captures
      BY DEF TypeOK
    <3>3. \A d \in Captures : Pending(d) <=> d = c
      BY <2>0, <3>1, <3>2, OneCandidate DEF DeleteInv
    <3>4. DurableInv'
      BY <2>0, <3>1, <3>2, <3>3 DEF DurableInv, Pending, TypeOK
    <3>5. Inside(p)'
      BY <3>1, <3>2, <3>3 DEF Inside, RecoverInv, DeleteInv, Pending, Candidate, TypeOK
    <3> QED
      BY <3>1, <3>4, <3>5, WorkingStep DEF Working
  <2>21. ASSUME NEW c \in plan[p], Cancel(p, c)
        PROVE  SettledInv'
    <3>1. /\ pc[p] = "cancel" /\ pc'[p] = "release_backup_lock"
          /\ Candidate(p, c)
          /\ lifecycle' = [lifecycle EXCEPT ![c] = "present"]
          /\ UNCHANGED <<catalogue, observed, gone>>
      BY <2>21 DEF Cancel, TypeOK, files
    <3>2. c \in Captures
      BY DEF TypeOK
    <3>3. c \notin gone /\ \A d \in Captures : Pending(d) <=> d = c
      BY <2>0, <3>1, <3>2, OneCandidate DEF DeleteInv
    <3>4. DurableInv'
      <4>1. \A d \in Captures : lifecycle'[d] # "present" => d \in catalogue'
        BY <2>0, <3>1 DEF DurableInv, TypeOK
      <4>2. \A d \in Captures : lifecycle'[d] = "deleted" <=> lifecycle[d] = "deleted"
        BY <3>1, <3>2, <3>3 DEF Pending, TypeOK
      <4>3. \A d \in gone' : lifecycle'[d] # "present"
        BY <2>0, <3>1, <3>3 DEF DurableInv, TypeOK
      <4>4. \A d \in Captures : ~Pending(d)'
        BY <3>1, <3>3 DEF Pending, TypeOK
      <4> QED
        BY <2>0, <3>1, <4>1, <4>2, <4>3, <4>4 DEF DurableInv
    <3>5. Inside(p)'
      BY <3>1 DEF Inside, RecoverInv, DeleteInv
    <3> QED
      BY <3>1, <3>4, <3>5, WorkingStep DEF Working
  <2>22. ASSUME NEW c \in plan[p], Finalize(p, c)
        PROVE  SettledInv'
    <3>1. /\ pc[p] = "finalize" /\ pc'[p] = "validate" /\ Candidate(p, c)
          /\ lifecycle' = [lifecycle EXCEPT ![c] = "deleted"]
          /\ observed' = [observed EXCEPT ![c] = @ + 1]
          /\ UNCHANGED <<catalogue, gone>>
      BY <2>22 DEF Finalize, CommitDeletion, TypeOK, files
    <3>2. c \in Captures
      BY DEF TypeOK
    <3>3. c \in gone /\ \A d \in Captures : Pending(d) <=> d = c
      BY <2>0, <3>1, <3>2, OneCandidate DEF DeleteInv
    <3>4. \A d \in Captures : ~Pending(d)'
      BY <3>1, <3>3 DEF Pending, TypeOK
    <3>5. DurableInv'
      <4>1. \A d \in Captures : lifecycle'[d] # "present" => d \in catalogue'
        BY <2>0, <3>1, <3>3 DEF DurableInv, Pending, TypeOK
      <4>2. observed[c] = 0
        BY <2>0, <3>2, <3>3 DEF DurableInv, Pending
      <4>3. \A d \in Captures :
              observed'[d] = IF lifecycle'[d] = "deleted" THEN 1 ELSE 0
        BY <2>0, <3>1, <4>2 DEF DurableInv, TypeOK
      <4>4. \A d \in Captures : lifecycle'[d] = "deleted" => d \in gone'
        BY <2>0, <3>1, <3>3 DEF DurableInv, TypeOK
      <4>5. \A d \in gone' : lifecycle'[d] # "present"
        BY <2>0, <3>1 DEF DurableInv, TypeOK
      <4> QED
        BY <3>4, <4>1, <4>3, <4>4, <4>5 DEF DurableInv
    <3>6. Inside(p)'
      BY <3>1, <3>4 DEF Inside, RecoverInv, DeleteInv
    <3> QED
      BY <3>1, <3>5, <3>6, WorkingStep DEF Working
  <2>23. CASE ClaimFails(p)
    BY <2>23, QuietStep DEF ClaimFails, Inside, RecoverInv, DeleteInv, TypeOK
  <2>24. CASE UnlinkFails(p)
    <3>1. /\ pc[p] = "unlink" /\ pc'[p] = "cancel"
          /\ UNCHANGED <<lifecycle, gone, plan>>
      BY <2>24 DEF UnlinkFails, TypeOK, database, files, memory
    <3>2. Inside(p)'
      BY <2>0, <3>1 DEF Inside, RecoverInv, DeleteInv, Pending, Candidate
    <3> QED
      BY <2>24, <3>2, QuietStep DEF UnlinkFails
  <2>25. CASE CancelFails(p)
    BY <2>25, QuietStep DEF CancelFails, Inside, RecoverInv, DeleteInv, TypeOK
  <2>26. CASE RunCompletes(p)
    BY <2>26, QuietStep DEF RunCompletes, Inside, RecoverInv, DeleteInv, TypeOK
  <2>27. CASE Abort(p)
    BY <2>27, QuietStep DEF Abort, Working, Inside, RecoverInv, DeleteInv, TypeOK
  <2>28. CASE ReleaseBackupLock(p)
    BY <2>28, QuietStep DEF ReleaseBackupLock, Inside, RecoverInv, DeleteInv, TypeOK
  <2>29. CASE ReleaseRetentionLock(p)
    BY <2>29, QuietStep DEF ReleaseRetentionLock, Inside, RecoverInv, DeleteInv, TypeOK
  <2>30. CASE Crash(p)
    BY <2>30, QuietStep DEF Crash, Inside, RecoverInv, DeleteInv, TypeOK
  <2> QED
    BY <1>1, <2>1, <2>2, <2>3, <2>4, <2>5, <2>6, <2>7, <2>8, <2>9,
       <2>10, <2>11, <2>12, <2>13, <2>14, <2>15, <2>16, <2>17, <2>18,
       <2>19, <2>20, <2>21, <2>22, <2>23, <2>24, <2>25, <2>26, <2>27,
       <2>28, <2>29, <2>30 DEF RunStep
<1>2. ASSUME Environment \/ UNCHANGED vars
      PROVE  SettledInv'
  <2>1. UNCHANGED <<lifecycle, observed, gone, pc, intents, plan>>
    BY <1>2 DEF Environment, StartBackup, EndBackup, LockExpires, Archive,
                FileChanges, database, files, memory, vars
  <2>2. catalogue \subseteq catalogue'
    BY <1>2 DEF Environment, StartBackup, EndBackup, LockExpires, Archive,
                FileChanges, database, vars
  <2>3. DurableInv'
    BY <2>1, <2>2 DEF SettledInv, DurableInv, Pending
  <2>4. \A q \in Runs : Inside(q)'
    BY <2>1, Bystander DEF SettledInv, Inside
  <2> QED
    BY <2>3, <2>4 DEF SettledInv, Inside
<1> QED
  BY <1>1, <1>2 DEF Next

LEMMA Settled ==
  ASSUME LocksExclude = TRUE
  PROVE  Spec => []SettledInv
<1>1. Init => SettledInv
  BY DEF Init, SettledInv, DurableInv, Pending, RecoverInv, DeleteInv
<1> QED
  BY <1>1, StepKeepsSettled, RetentionTyped, BackupLockHeld, MemoryIsCatalogued,
     PTL DEF Spec

\* Media a run has removed is never an unexplained loss, through any sequence
\* of crashes and failures.
THEOREM LossIsExplained ==
  ASSUME LocksExclude = TRUE
  PROVE  Spec => []NoUnexplainedLoss
<1>1. TypeOK /\ SettledInv => NoUnexplainedLoss
  BY DEF TypeOK, SettledInv, DurableInv, NoUnexplainedLoss
<1> QED
  BY <1>1, RetentionTyped, Settled, PTL

\* However often runs die, one capture at most is undecided.
THEOREM OneIntentAtMost ==
  ASSUME LocksExclude = TRUE
  PROVE  Spec => []AtMostOneIntent
<1>1. TypeOK /\ SettledInv => AtMostOneIntent
  BY DEF TypeOK, SettledInv, DurableInv, Pending, AtMostOneIntent
<1> QED
  BY <1>1, RetentionTyped, Settled, PTL

(*************************************************************************)
(* The observations, whatever the locks do: what a run is about to       *)
(* finalise it has unlinked or found gone.                               *)
(*************************************************************************)
\* A row that says anything is of a catalogued capture; a deleted one has one
\* observation, and its file was unlinked or found gone.
Rows ==
  /\ \A c \in Captures : lifecycle[c] # "present" => c \in catalogue
  /\ \A c \in Captures : observed[c] = IF lifecycle[c] = "deleted" THEN 1 ELSE 0
  /\ \A c \in Captures : lifecycle[c] = "deleted" => c \in gone

\* A run that comes to finalise has found the file missing, or removed it.
Removed(p) ==
  /\ \A i \in intents[p] : i.capture \in catalogue
  /\ pc[p] = "finalize" => \A c \in plan[p] : Candidate(p, c) => c \in gone
  /\ pc[p] = "recover_finalize" =>
       \A i \in intents[p] : FirstIntent(p, i) => i.capture \in gone

RecordedInv == Rows /\ \A p \in Runs : Removed(p)

\* The first of some intents is of one capture.
LEMMA OneFirstIntent ==
  ASSUME TypeOK, NEW p \in Runs, NEW i \in intents[p], FirstIntent(p, i)
  PROVE  \A j \in intents[p] : FirstIntent(p, j) => j.capture = i.capture
<1> SUFFICES ASSUME NEW j \in intents[p], FirstIntent(p, j) PROVE j.capture = i.capture
  OBVIOUS
<1>1. i \in Intent /\ j \in Intent
  BY DEF TypeOK
<1>2. i.at \in Nat /\ j.at \in Nat /\ i.capture \in Nat /\ j.capture \in Nat
  BY <1>1, RetentionAssumption DEF Intent
<1>3. Precedes(i, j) /\ Precedes(j, i)
  BY DEF FirstIntent
<1> QED
  BY <1>2, <1>3 DEF Precedes

LEMMA RowsUndisturbed ==
  ASSUME Rows, UNCHANGED <<database, files>>
  PROVE  Rows'
BY DEF Rows, database, files

\* The transaction that records a deletion finds a pending row, so it records the
\* first one.
LEMMA CommitKeepsRows ==
  ASSUME TypeOK, Rows, NEW c \in Captures, CommitDeletion(c), UNCHANGED files,
         c \in gone, c \in catalogue
  PROVE  Rows'
<1>1. /\ lifecycle[c] = "pending_delete" /\ observed[c] = 0
      /\ lifecycle' = [lifecycle EXCEPT ![c] = "deleted"]
      /\ observed' = [observed EXCEPT ![c] = @ + 1]
      /\ catalogue' = catalogue /\ gone' = gone
  BY DEF CommitDeletion, Rows, files
<1>2. ASSUME NEW d \in Captures
      PROVE  /\ lifecycle'[d] # "present" => d \in catalogue'
             /\ observed'[d] = IF lifecycle'[d] = "deleted" THEN 1 ELSE 0
             /\ lifecycle'[d] = "deleted" => d \in gone'
  <2>1. CASE d = c
    BY <1>1, <2>1 DEF TypeOK
  <2>2. CASE d # c
    BY <1>1, <2>2 DEF TypeOK, Rows
  <2> QED
    BY <2>1, <2>2
<1> QED
  BY <1>2 DEF Rows

\* No step takes a capture out of the catalogue, or its removal back.
LEMMA GoneIsGone ==
  ASSUME TypeOK, [Next]_vars
  PROVE  /\ catalogue \subseteq catalogue'
         /\ gone \subseteq gone'
<1> USE DEF TypeOK, Intent
<1>1. ASSUME NEW p \in Runs, RunStep(p)
      PROVE  /\ catalogue' = catalogue
             /\ gone \subseteq gone'
  <2> USE DEF database, files
  <2>1. CASE StartRun(p)
    BY <2>1 DEF StartRun
  <2>2. CASE TakeRetentionLock(p)
    BY <2>2 DEF TakeRetentionLock
  <2>3. CASE RetentionLockUnavailable(p)
    BY <2>3 DEF RetentionLockUnavailable
  <2>4. CASE ClearRetentionLock(p)
    BY <2>4 DEF ClearRetentionLock
  <2>5. CASE TakeBackupLock(p)
    BY <2>5 DEF TakeBackupLock
  <2>6. CASE BackupLockUnavailable(p)
    BY <2>6 DEF BackupLockUnavailable
  <2>7. CASE ClearBackupLock(p)
    BY <2>7 DEF ClearBackupLock
  <2>8. CASE ListRecords(p)
    BY <2>8 DEF ListRecords
  <2>9. ASSUME NEW i \in intents[p], RecoverInspects(p, i)
        PROVE  /\ catalogue' = catalogue
               /\ gone \subseteq gone'
    BY <2>9 DEF RecoverInspects
  <2>10. ASSUME NEW i \in intents[p], RecoverRefuses(p, i)
        PROVE  /\ catalogue' = catalogue
               /\ gone \subseteq gone'
    BY <2>10 DEF RecoverRefuses
  <2>11. ASSUME NEW i \in intents[p], RecoverUnlinks(p, i)
        PROVE  /\ catalogue' = catalogue
               /\ gone \subseteq gone'
    BY <2>11 DEF RecoverUnlinks
  <2>12. ASSUME NEW i \in intents[p], FinalizeRecovered(p, i)
        PROVE  /\ catalogue' = catalogue
               /\ gone \subseteq gone'
    BY <2>12 DEF FinalizeRecovered, CommitDeletion
  <2>13. CASE RecoverUnlinkFails(p)
    BY <2>13 DEF RecoverUnlinkFails
  <2>14. CASE FinalizeFails(p)
    BY <2>14 DEF FinalizeFails
  <2>15. CASE PlanRetention(p)
    BY <2>15 DEF PlanRetention
  <2>16. ASSUME NEW c \in plan[p], ValidatePasses(p, c)
        PROVE  /\ catalogue' = catalogue
               /\ gone \subseteq gone'
    BY <2>16 DEF ValidatePasses
  <2>17. ASSUME NEW c \in plan[p], ValidateRefuses(p, c)
        PROVE  /\ catalogue' = catalogue
               /\ gone \subseteq gone'
    BY <2>17 DEF ValidateRefuses
  <2>18. ASSUME NEW c \in plan[p], Claim(p, c)
        PROVE  /\ catalogue' = catalogue
               /\ gone \subseteq gone'
    BY <2>18 DEF Claim
  <2>19. ASSUME NEW c \in plan[p], Revalidate(p, c)
        PROVE  /\ catalogue' = catalogue
               /\ gone \subseteq gone'
    BY <2>19 DEF Revalidate
  <2>20. ASSUME NEW c \in plan[p], Unlink(p, c)
        PROVE  /\ catalogue' = catalogue
               /\ gone \subseteq gone'
    BY <2>20 DEF Unlink
  <2>21. ASSUME NEW c \in plan[p], Cancel(p, c)
        PROVE  /\ catalogue' = catalogue
               /\ gone \subseteq gone'
    BY <2>21 DEF Cancel
  <2>22. ASSUME NEW c \in plan[p], Finalize(p, c)
        PROVE  /\ catalogue' = catalogue
               /\ gone \subseteq gone'
    BY <2>22 DEF Finalize, CommitDeletion
  <2>23. CASE ClaimFails(p)
    BY <2>23 DEF ClaimFails
  <2>24. CASE UnlinkFails(p)
    BY <2>24 DEF UnlinkFails
  <2>25. CASE CancelFails(p)
    BY <2>25 DEF CancelFails
  <2>26. CASE RunCompletes(p)
    BY <2>26 DEF RunCompletes
  <2>27. CASE Abort(p)
    BY <2>27 DEF Abort
  <2>28. CASE ReleaseBackupLock(p)
    BY <2>28 DEF ReleaseBackupLock
  <2>29. CASE ReleaseRetentionLock(p)
    BY <2>29 DEF ReleaseRetentionLock
  <2>30. CASE Crash(p)
    BY <2>30 DEF Crash
  <2> QED
    BY <1>1, <2>1, <2>2, <2>3, <2>4, <2>5, <2>6, <2>7, <2>8, <2>9, <2>10, <2>11, <2>12, <2>13, <2>14, <2>15, <2>16, <2>17, <2>18, <2>19, <2>20, <2>21, <2>22, <2>23, <2>24, <2>25, <2>26, <2>27, <2>28, <2>29, <2>30 DEF RunStep
<1>2. CASE Environment
  <2>1. CASE StartBackup \/ EndBackup \/ LockExpires
    BY <2>1 DEF StartBackup, EndBackup, LockExpires, database, files
  <2>2. ASSUME NEW c \in Captures, Archive(c)
        PROVE  /\ catalogue \subseteq catalogue'
               /\ gone \subseteq gone'
    BY <2>2 DEF Archive
  <2>3. ASSUME NEW c \in Captures, FileChanges(c)
        PROVE  /\ catalogue \subseteq catalogue'
               /\ gone \subseteq gone'
    BY <2>3 DEF FileChanges, database
  <2> QED
    BY <1>2, <2>1, <2>2, <2>3 DEF Environment
<1>3. CASE UNCHANGED vars
  BY <1>3 DEF vars
<1> QED
  BY <1>1, <1>2, <1>3 DEF Next

\* The run that takes a step.
LEMMA StepRecords ==
  ASSUME TypeOK, MemoryInv, Rows, NEW p \in Runs, RunStep(p), Removed(p)
  PROVE  Rows' /\ Removed(p)'
<1>1. CASE StartRun(p)
  <2>1. /\ UNCHANGED <<database, files>> /\ pc'[p] \notin {"finalize", "recover_finalize"}
        /\ intents'[p] \subseteq intents[p]
    BY <1>1 DEF StartRun, TypeOK, Goto, memory
  <2> QED
    BY <2>1, RowsUndisturbed DEF Removed, database, files
<1>2. CASE TakeRetentionLock(p)
  <2>1. /\ UNCHANGED <<database, files>> /\ pc'[p] \notin {"finalize", "recover_finalize"}
        /\ intents'[p] \subseteq intents[p]
    BY <1>2 DEF TakeRetentionLock, TypeOK, Goto, memory
  <2> QED
    BY <2>1, RowsUndisturbed DEF Removed, database, files
<1>3. CASE RetentionLockUnavailable(p)
  <2>1. /\ UNCHANGED <<database, files>> /\ pc'[p] \notin {"finalize", "recover_finalize"}
        /\ intents'[p] \subseteq intents[p]
    BY <1>3 DEF RetentionLockUnavailable, TypeOK, Goto, memory
  <2> QED
    BY <2>1, RowsUndisturbed DEF Removed, database, files
<1>4. CASE ClearRetentionLock(p)
  <2>1. /\ UNCHANGED <<database, files>> /\ pc'[p] \notin {"finalize", "recover_finalize"}
        /\ intents'[p] \subseteq intents[p]
    BY <1>4 DEF ClearRetentionLock, TypeOK, Goto, memory
  <2> QED
    BY <2>1, RowsUndisturbed DEF Removed, database, files
<1>5. CASE TakeBackupLock(p)
  <2>1. /\ UNCHANGED <<database, files>> /\ pc'[p] \notin {"finalize", "recover_finalize"}
        /\ intents'[p] \subseteq intents[p]
    BY <1>5 DEF TakeBackupLock, TypeOK, Goto, memory
  <2> QED
    BY <2>1, RowsUndisturbed DEF Removed, database, files
<1>6. CASE BackupLockUnavailable(p)
  <2>1. /\ UNCHANGED <<database, files>> /\ pc'[p] \notin {"finalize", "recover_finalize"}
        /\ intents'[p] \subseteq intents[p]
    BY <1>6 DEF BackupLockUnavailable, TypeOK, Goto, memory
  <2> QED
    BY <2>1, RowsUndisturbed DEF Removed, database, files
<1>7. CASE ClearBackupLock(p)
  <2>1. /\ UNCHANGED <<database, files>> /\ pc'[p] \notin {"finalize", "recover_finalize"}
        /\ intents'[p] \subseteq intents[p]
    BY <1>7 DEF ClearBackupLock, TypeOK, Goto, memory
  <2> QED
    BY <2>1, RowsUndisturbed DEF Removed, database, files
<1>8. CASE ListRecords(p)
  <2>1. /\ intents'[p] = {[capture |-> c, at |-> requestedAt[c]] :
                            c \in {d \in catalogue : lifecycle[d] = "pending_delete"}}
        /\ pc'[p] = "recover" /\ UNCHANGED <<database, files>>
    BY <1>8 DEF ListRecords, TypeOK, Goto
  <2>2. \A i \in intents'[p] : i.capture \in catalogue
    BY <2>1
  <2> QED
    BY <2>1, <2>2, RowsUndisturbed DEF Removed, database, files
<1>9. ASSUME NEW i \in intents[p], RecoverInspects(p, i)
      PROVE  Rows' /\ Removed(p)'
  <2>1. /\ UNCHANGED <<database, memory>> /\ gone \subseteq gone'
        /\ pc'[p] # "finalize" /\ FirstIntent(p, i)
        /\ pc'[p] = "recover_finalize" => i.capture \in gone'
    BY <1>9 DEF RecoverInspects, TypeOK, Goto
  <2>2. Rows'
    BY <2>1 DEF Rows, database
  <2>3. \A j \in intents[p] : FirstIntent(p, j) => j.capture = i.capture
    BY <2>1, OneFirstIntent
  <2> QED
    BY <2>1, <2>2, <2>3 DEF Removed, FirstIntent, database, memory
<1>10. ASSUME NEW i \in intents[p], RecoverRefuses(p, i)
      PROVE  Rows' /\ Removed(p)'
  <2>1. /\ UNCHANGED <<database, files>> /\ pc'[p] \notin {"finalize", "recover_finalize"}
        /\ intents'[p] \subseteq intents[p]
    BY <1>10 DEF RecoverRefuses, TypeOK, Goto, memory
  <2> QED
    BY <2>1, RowsUndisturbed DEF Removed, database, files
<1>11. ASSUME NEW i \in intents[p], RecoverUnlinks(p, i)
      PROVE  Rows' /\ Removed(p)'
  <2>1. /\ gone' = gone \cup {i.capture}
        /\ UNCHANGED <<database, memory>> /\ pc'[p] = "recover_finalize"
        /\ FirstIntent(p, i)
    BY <1>11 DEF RecoverUnlinks, TypeOK, Goto
  <2>2. Rows'
    BY <2>1 DEF Rows, database
  <2>3. \A j \in intents[p] : FirstIntent(p, j) => j.capture = i.capture
    BY <2>1, OneFirstIntent
  <2> QED
    BY <2>1, <2>2, <2>3 DEF Removed, FirstIntent, database, memory
<1>12. ASSUME NEW i \in intents[p], FinalizeRecovered(p, i)
      PROVE  Rows' /\ Removed(p)'
  <2>1. /\ FirstIntent(p, i) /\ i.capture \in Captures /\ i.capture \in gone
        /\ i.capture \in catalogue
    BY <1>12 DEF FinalizeRecovered, TypeOK, Intent, Removed
  <2>2. CommitDeletion(i.capture) /\ UNCHANGED files
    BY <1>12 DEF FinalizeRecovered
  <2>3. Rows'
    BY <2>1, <2>2, CommitKeepsRows
  <2>4. /\ intents'[p] \subseteq intents[p] /\ pc'[p] = "recover" /\ catalogue' = catalogue
    BY <1>12, <2>2 DEF FinalizeRecovered, CommitDeletion, TypeOK, Goto
  <2> QED
    BY <2>3, <2>4 DEF Removed
<1>13. CASE RecoverUnlinkFails(p)
  <2>1. /\ UNCHANGED <<database, files>> /\ pc'[p] \notin {"finalize", "recover_finalize"}
        /\ intents'[p] \subseteq intents[p]
    BY <1>13 DEF RecoverUnlinkFails, TypeOK, Goto, memory
  <2> QED
    BY <2>1, RowsUndisturbed DEF Removed, database, files
<1>14. CASE FinalizeFails(p)
  <2>1. /\ UNCHANGED <<database, files>> /\ pc'[p] \notin {"finalize", "recover_finalize"}
        /\ intents'[p] \subseteq intents[p]
    BY <1>14 DEF FinalizeFails, TypeOK, Goto, memory
  <2> QED
    BY <2>1, RowsUndisturbed DEF Removed, database, files
<1>15. CASE PlanRetention(p)
  <2>1. /\ UNCHANGED <<database, files>> /\ pc'[p] \notin {"finalize", "recover_finalize"}
        /\ intents'[p] \subseteq intents[p]
    BY <1>15 DEF PlanRetention, TypeOK, Goto, memory
  <2> QED
    BY <2>1, RowsUndisturbed DEF Removed, database, files
<1>16. ASSUME NEW c \in plan[p], ValidatePasses(p, c)
      PROVE  Rows' /\ Removed(p)'
  <2>1. /\ UNCHANGED <<database, files>> /\ pc'[p] \notin {"finalize", "recover_finalize"}
        /\ intents'[p] \subseteq intents[p]
    BY <1>16 DEF ValidatePasses, TypeOK, Goto, memory
  <2> QED
    BY <2>1, RowsUndisturbed DEF Removed, database, files
<1>17. ASSUME NEW c \in plan[p], ValidateRefuses(p, c)
      PROVE  Rows' /\ Removed(p)'
  <2>1. /\ UNCHANGED <<database, files>> /\ pc'[p] \notin {"finalize", "recover_finalize"}
        /\ intents'[p] \subseteq intents[p]
    BY <1>17 DEF ValidateRefuses, TypeOK, Goto, memory
  <2> QED
    BY <2>1, RowsUndisturbed DEF Removed, database, files
<1>18. ASSUME NEW c \in plan[p], Claim(p, c)
      PROVE  Rows' /\ Removed(p)'
  <2>1. /\ lifecycle' = [lifecycle EXCEPT ![c] = "pending_delete"]
        /\ UNCHANGED <<catalogue, observed, files, memory>> /\ pc'[p] = "revalidate"
        /\ lifecycle[c] = "present" /\ c \in Captures /\ c \in catalogue
    BY <1>18 DEF Claim, TypeOK, MemoryInv, Goto
  <2>2. Rows'
    BY <2>1 DEF Rows, TypeOK, files
  <2> QED
    BY <2>1, <2>2 DEF Removed, memory
<1>19. ASSUME NEW c \in plan[p], Revalidate(p, c)
      PROVE  Rows' /\ Removed(p)'
  <2>1. /\ UNCHANGED <<database, files>> /\ pc'[p] \notin {"finalize", "recover_finalize"}
        /\ intents'[p] \subseteq intents[p]
    BY <1>19 DEF Revalidate, TypeOK, Goto, memory
  <2> QED
    BY <2>1, RowsUndisturbed DEF Removed, database, files
<1>20. ASSUME NEW c \in plan[p], Unlink(p, c)
      PROVE  Rows' /\ Removed(p)'
  <2>1. /\ gone' = gone \cup {c}
        /\ UNCHANGED <<database, memory>> /\ pc'[p] = "finalize"
        /\ Candidate(p, c)
    BY <1>20 DEF Unlink, TypeOK, Goto
  <2>2. Rows'
    BY <2>1 DEF Rows, database
  <2>3. \A d \in plan[p] : Candidate(p, d) => d = c
    BY <2>1, OneCandidate
  <2> QED
    BY <2>1, <2>2, <2>3 DEF Removed, Candidate, database, memory
<1>21. ASSUME NEW c \in plan[p], Cancel(p, c)
      PROVE  Rows' /\ Removed(p)'
  <2>1. /\ lifecycle' = [lifecycle EXCEPT ![c] = "present"]
        /\ UNCHANGED <<catalogue, observed, files, memory>> /\ pc'[p] = "release_backup_lock"
        /\ lifecycle[c] = "pending_delete" /\ c \in Captures
    BY <1>21 DEF Cancel, TypeOK, Goto
  <2>2. Rows'
    BY <2>1 DEF Rows, TypeOK, files
  <2> QED
    BY <2>1, <2>2 DEF Removed, memory
<1>22. ASSUME NEW c \in plan[p], Finalize(p, c)
      PROVE  Rows' /\ Removed(p)'
  <2>1. /\ Candidate(p, c) /\ c \in Captures /\ c \in gone /\ c \in catalogue
    BY <1>22 DEF Finalize, TypeOK, MemoryInv, Removed
  <2>2. CommitDeletion(c) /\ UNCHANGED files
    BY <1>22 DEF Finalize
  <2>3. Rows'
    BY <2>1, <2>2, CommitKeepsRows
  <2>4. /\ intents'[p] = intents[p] /\ pc'[p] = "validate" /\ catalogue' = catalogue
    BY <1>22, <2>2 DEF Finalize, CommitDeletion, TypeOK, Goto
  <2> QED
    BY <2>3, <2>4 DEF Removed
<1>23. CASE ClaimFails(p)
  <2>1. /\ UNCHANGED <<database, files>> /\ pc'[p] \notin {"finalize", "recover_finalize"}
        /\ intents'[p] \subseteq intents[p]
    BY <1>23 DEF ClaimFails, TypeOK, Goto, memory
  <2> QED
    BY <2>1, RowsUndisturbed DEF Removed, database, files
<1>24. CASE UnlinkFails(p)
  <2>1. /\ UNCHANGED <<database, files>> /\ pc'[p] \notin {"finalize", "recover_finalize"}
        /\ intents'[p] \subseteq intents[p]
    BY <1>24 DEF UnlinkFails, TypeOK, Goto, memory
  <2> QED
    BY <2>1, RowsUndisturbed DEF Removed, database, files
<1>25. CASE CancelFails(p)
  <2>1. /\ UNCHANGED <<database, files>> /\ pc'[p] \notin {"finalize", "recover_finalize"}
        /\ intents'[p] \subseteq intents[p]
    BY <1>25 DEF CancelFails, TypeOK, Goto, memory
  <2> QED
    BY <2>1, RowsUndisturbed DEF Removed, database, files
<1>26. CASE RunCompletes(p)
  <2>1. /\ UNCHANGED <<database, files>> /\ pc'[p] \notin {"finalize", "recover_finalize"}
        /\ intents'[p] \subseteq intents[p]
    BY <1>26 DEF RunCompletes, TypeOK, Goto, memory
  <2> QED
    BY <2>1, RowsUndisturbed DEF Removed, database, files
<1>27. CASE Abort(p)
  <2>1. /\ UNCHANGED <<database, files>> /\ pc'[p] \notin {"finalize", "recover_finalize"}
        /\ intents'[p] \subseteq intents[p]
    BY <1>27 DEF Abort, TypeOK, Goto, memory
  <2> QED
    BY <2>1, RowsUndisturbed DEF Removed, database, files
<1>28. CASE ReleaseBackupLock(p)
  <2>1. /\ UNCHANGED <<database, files>> /\ pc'[p] \notin {"finalize", "recover_finalize"}
        /\ intents'[p] \subseteq intents[p]
    BY <1>28 DEF ReleaseBackupLock, TypeOK, Goto, memory, Forget
  <2> QED
    BY <2>1, RowsUndisturbed DEF Removed, database, files
<1>29. CASE ReleaseRetentionLock(p)
  <2>1. /\ UNCHANGED <<database, files>> /\ pc'[p] \notin {"finalize", "recover_finalize"}
        /\ intents'[p] \subseteq intents[p]
    BY <1>29 DEF ReleaseRetentionLock, TypeOK, Goto, memory
  <2> QED
    BY <2>1, RowsUndisturbed DEF Removed, database, files
<1>30. CASE Crash(p)
  <2>1. /\ UNCHANGED <<database, files>> /\ pc'[p] \notin {"finalize", "recover_finalize"}
        /\ intents'[p] \subseteq intents[p]
    BY <1>30 DEF Crash, TypeOK, Goto, memory, Forget
  <2> QED
    BY <2>1, RowsUndisturbed DEF Removed, database, files
<1> QED
  BY <1>1, <1>2, <1>3, <1>4, <1>5, <1>6, <1>7, <1>8, <1>9, <1>10, <1>11, <1>12, <1>13, <1>14, <1>15, <1>16, <1>17, <1>18, <1>19, <1>20, <1>21, <1>22, <1>23, <1>24, <1>25, <1>26, <1>27, <1>28, <1>29, <1>30 DEF RunStep

\* Every other run, and every run while the rest of the world moves.
LEMMA OthersRecord ==
  ASSUME NEW q \in Runs, Removed(q),
         pc'[q] = pc[q], intents'[q] = intents[q], plan'[q] = plan[q],
         catalogue \subseteq catalogue',
         gone \subseteq gone'
  PROVE  Removed(q)'
BY DEF Removed, Candidate, FirstIntent

\* One deletion, one observation, and no deleted row whose file was not unlinked
\* or found gone, even when locks that were reclaimed twice let runs overlap.
THEOREM OneObservation == Spec => []OneObservationPerDeletion
<1>1. Init => RecordedInv
  BY DEF Init, RecordedInv, Rows, Removed
<1>2. TypeOK /\ MemoryInv /\ RecordedInv /\ [Next]_vars => RecordedInv'
  <2> SUFFICES ASSUME TypeOK, MemoryInv, RecordedInv, [Next]_vars
               PROVE  RecordedInv'
    OBVIOUS
  <2>1. /\ catalogue \subseteq catalogue'
        /\ gone \subseteq gone'
    BY GoneIsGone
  <2>2. ASSUME NEW p \in Runs, RunStep(p)
        PROVE  RecordedInv'
    <3>1. Rows' /\ Removed(p)'
      BY <2>2, StepRecords DEF RecordedInv
    <3>2. ASSUME NEW q \in Runs \ {p} PROVE Removed(q)'
      BY <2>1, <2>2, StepIsLocal, OthersRecord DEF RecordedInv
    <3> QED
      BY <3>1, <3>2 DEF RecordedInv
  <2>3. CASE Environment \/ UNCHANGED vars
    <3>1. UNCHANGED <<lifecycle, observed, pc, memory>>
      BY <2>3 DEF Environment, StartBackup, EndBackup, LockExpires, Archive,
                  FileChanges, vars, database, memory
    <3>2. Rows'
      BY <2>1, <3>1 DEF RecordedInv, Rows
    <3>3. ASSUME NEW q \in Runs PROVE Removed(q)'
      BY <2>1, <3>1, OthersRecord DEF RecordedInv, memory
    <3> QED
      BY <3>2, <3>3 DEF RecordedInv
  <2> QED
    BY <2>2, <2>3 DEF Next
<1>3. TypeOK /\ RecordedInv => OneObservationPerDeletion
  BY DEF TypeOK, RecordedInv, Rows, OneObservationPerDeletion
<1> QED
  BY <1>1, <1>2, <1>3, RetentionTyped, MemoryIsCatalogued, PTL DEF Spec

(*************************************************************************)
(* Retention implements MediaLifecycle: whatever a run, a crash, a       *)
(* failure or the world outside does to a row and a file is one move, or *)
(* none, in the abstract lifecycle of that capture's media.              *)
(*************************************************************************)

LEMMA FateOf ==
  ASSUME NEW c \in Captures
  PROVE  /\ c \notin catalogue => Fate[c] = "uncatalogued"
         /\ c \in catalogue /\ lifecycle[c] = "deleted" => Fate[c] = "reclaimed"
         /\ c \in catalogue /\ lifecycle[c] = "pending_delete" =>
              Fate[c] = IF c \in gone THEN "removed"
                        ELSE IF media[c] = "missing" THEN "vanished" ELSE "condemned"
         /\ c \in catalogue /\ lifecycle[c] = "present" =>
              Fate[c] = IF media[c] # "missing" THEN "kept" ELSE "lost"
BY DEF Fate

LEMMA FateOfNext ==
  ASSUME NEW c \in Captures
  PROVE  /\ c \notin catalogue' => Fate'[c] = "uncatalogued"
         /\ c \in catalogue' /\ lifecycle'[c] = "deleted" => Fate'[c] = "reclaimed"
         /\ c \in catalogue' /\ lifecycle'[c] = "pending_delete" =>
              Fate'[c] = IF c \in gone' THEN "removed"
                         ELSE IF media'[c] = "missing" THEN "vanished" ELSE "condemned"
         /\ c \in catalogue' /\ lifecycle'[c] = "present" =>
              Fate'[c] = IF media'[c] # "missing" THEN "kept" ELSE "lost"
BY DEF Fate

\* Nothing about d changes.
Untouched(d) == /\ d \in catalogue' <=> d \in catalogue
                /\ lifecycle'[d] = lifecycle[d]
                /\ media'[d] = media[d]
                /\ d \in gone' <=> d \in gone

\* A step that touches one capture changes one fate.
LEMMA FateChangesAt ==
  ASSUME NEW c \in Captures, \A d \in Captures \ {c} : Untouched(d)
  PROVE  Fate' = [Fate EXCEPT ![c] = Fate'[c]]
<1>1. \A d \in Captures \ {c} : Fate'[d] = Fate[d]
  BY DEF Fate, Untouched
<1>2. /\ Fate = [d \in Captures |-> Fate[d]]
      /\ Fate' = [d \in Captures |-> Fate'[d]]
  BY DEF Fate
<1> HIDE DEF Fate
<1> QED
  BY <1>1, <1>2

LEMMA FateStays ==
  ASSUME \A d \in Captures : Untouched(d)
  PROVE  Fate' = Fate
BY DEF Fate, Untouched

\* A step that touches one capture and leaves its fate changes none.
LEMMA FateRests ==
  ASSUME NEW c \in Captures, \A d \in Captures \ {c} : Untouched(d),
         Fate'[c] = Fate[c]
  PROVE  Fate' = Fate
<1>1. Fate' = [Fate EXCEPT ![c] = Fate[c]]
  BY FateChangesAt
<1>2. Fate = [d \in Captures |-> Fate[d]]
  BY DEF Fate
<1> HIDE DEF Fate
<1> QED
  BY <1>1, <1>2

\* One way to read a move off a step.
LEMMA FateMoves ==
  ASSUME NEW c \in Captures, \A d \in Captures \ {c} : Untouched(d),
         NEW from, NEW to, Fate[c] = from, Fate'[c] = to
  PROVE  Lifecycle!Move(c, from, to)
BY FateChangesAt DEF Lifecycle!Move

\* The captures the abstract floor counts are the managed ones.
LEMMA PresentIsManaged == TypeOK => Lifecycle!Present = Managed
<1> SUFFICES ASSUME TypeOK, NEW c \in Captures
             PROVE  Fate[c] \in {"kept", "lost"} <=>
                      c \in catalogue /\ lifecycle[c] = "present"
  <2> HIDE DEF Fate
  <2> QED
    BY DEF Lifecycle!Present, Managed, TypeOK
<1> QED
  BY FateOf DEF TypeOK

\* The two modules mean the same cardinality.
LEMMA SameCardinality ==
  ASSUME NEW S
  PROVE  Lifecycle!Cardinality(S) = Cardinality(S)
BY DEF Lifecycle!Cardinality, Cardinality

\* Every step of a run or of the world is one move of one capture's media, or
\* none.
LEMMA StepIsMove ==
  TypeOK /\ TypeOK' /\ BackupLockInv /\ MemoryInv /\ SettledInv /\ FloorInv
    /\ [Next]_vars => [Lifecycle!Next]_Fate
<1> SUFFICES ASSUME TypeOK, TypeOK', BackupLockInv, MemoryInv, SettledInv,
                    FloorInv, [Next]_vars
             PROVE  [Lifecycle!Next]_Fate
  OBVIOUS
<1>0. UNCHANGED <<catalogue, lifecycle, media, gone>> => Fate' = Fate
  BY FateStays DEF Untouched
<1> HIDE DEF Fate
<1>1. ASSUME NEW p \in Runs, RunStep(p)
      PROVE  [Lifecycle!Next]_Fate
  <2>0. DurableInv /\ RecoverInv(p) /\ DeleteInv(p)
    BY DEF SettledInv
  <2>1. CASE StartRun(p)
    BY <1>0, <2>1 DEF StartRun, database, files
  <2>2. CASE TakeRetentionLock(p)
    BY <1>0, <2>2 DEF TakeRetentionLock, database, files
  <2>3. CASE RetentionLockUnavailable(p)
    BY <1>0, <2>3 DEF RetentionLockUnavailable, database, files
  <2>4. CASE ClearRetentionLock(p)
    BY <1>0, <2>4 DEF ClearRetentionLock, database, files
  <2>5. CASE TakeBackupLock(p)
    BY <1>0, <2>5 DEF TakeBackupLock, database, files
  <2>6. CASE BackupLockUnavailable(p)
    BY <1>0, <2>6 DEF BackupLockUnavailable, database, files
  <2>7. CASE ClearBackupLock(p)
    BY <1>0, <2>7 DEF ClearBackupLock, database, files
  <2>8. CASE ListRecords(p)
    BY <1>0, <2>8 DEF ListRecords, database, files
  <2>9. ASSUME NEW i \in intents[p], RecoverInspects(p, i)
        PROVE  [Lifecycle!Next]_Fate
    <3>1. PICK d \in Captures : d = i.capture
      BY DEF TypeOK, Intent
    <3>2. /\ pc[p] = "recover"
          /\ gone' = gone \/ (media[d] = "missing" /\ gone' = gone \cup {d})
          /\ UNCHANGED <<catalogue, lifecycle, media>>
      BY <2>9, <3>1 DEF RecoverInspects, database
    <3>3. CASE gone' = gone
      BY <1>0, <3>2, <3>3
    <3>4. CASE gone' # gone
      <4>1. media[d] = "missing" /\ d \notin gone /\ gone' = gone \cup {d}
        BY <3>2, <3>4
      <4>2. lifecycle[d] = "pending_delete" /\ d \in catalogue
        BY <2>0, <3>1, <3>2 DEF RecoverInv, DurableInv, Pending
      <4>3. Fate[d] = "vanished" /\ Fate'[d] = "removed"
        BY <3>2, <4>1, <4>2, FateOf, FateOfNext
      <4>4. \A e \in Captures \ {d} : Untouched(e)
        BY <3>2, <4>1 DEF Untouched
      <4>5. Lifecycle!Remove(d)
        BY <4>3, <4>4, FateMoves DEF Lifecycle!Remove
      <4> QED
        BY <4>5 DEF Lifecycle!Next
    <3> QED
      BY <3>3, <3>4
  <2>10. ASSUME NEW i \in intents[p], RecoverRefuses(p, i)
        PROVE  [Lifecycle!Next]_Fate
    BY <1>0, <2>10 DEF RecoverRefuses, database, files
  <2>11. ASSUME NEW i \in intents[p], RecoverUnlinks(p, i)
        PROVE  [Lifecycle!Next]_Fate
    <3>1. PICK d \in Captures : d = i.capture
      BY DEF TypeOK, Intent
    <3>2. /\ pc[p] = "recover_unlink"
          /\ media[d] # "missing"
          /\ media' = [media EXCEPT ![d] = "missing"]
          /\ gone' = gone \cup {d}
          /\ UNCHANGED <<catalogue, lifecycle>>
      BY <2>11, <3>1 DEF RecoverUnlinks, TypeOK, database
    <3>3. lifecycle[d] = "pending_delete" /\ d \in catalogue
      BY <2>0, <3>1, <3>2 DEF RecoverInv, DurableInv, Pending
    <3>4. Fate[d] \in {"condemned", "removed"} /\ Fate'[d] = "removed"
      BY <3>2, <3>3, FateOf, FateOfNext
    <3>5. \A e \in Captures \ {d} : Untouched(e)
      BY <3>2 DEF Untouched, TypeOK
    <3>6. CASE Fate[d] = "removed"
      BY <3>4, <3>5, <3>6, FateRests
    <3>7. CASE Fate[d] = "condemned"
      <4>1. Lifecycle!Remove(d)
        BY <3>4, <3>5, <3>7, FateMoves DEF Lifecycle!Remove
      <4> QED
        BY <4>1 DEF Lifecycle!Next
    <3> QED
      BY <3>4, <3>6, <3>7
  <2>12. ASSUME NEW i \in intents[p], FinalizeRecovered(p, i)
        PROVE  [Lifecycle!Next]_Fate
    <3>1. PICK d \in Captures : d = i.capture
      BY DEF TypeOK, Intent
    <3>2. /\ pc[p] = "recover_finalize"
          /\ lifecycle[d] = "pending_delete"
          /\ lifecycle' = [lifecycle EXCEPT ![d] = "deleted"]
          /\ UNCHANGED <<catalogue, media, gone>>
      BY <2>12, <3>1 DEF FinalizeRecovered, CommitDeletion, files
    <3>3. d \in gone /\ d \in catalogue
      BY <2>0, <3>1, <3>2 DEF RecoverInv, DurableInv
    <3>4. Fate[d] = "removed" /\ Fate'[d] = "reclaimed"
      BY <3>2, <3>3, FateOf, FateOfNext DEF TypeOK
    <3>5. \A e \in Captures \ {d} : Untouched(e)
      BY <3>2 DEF Untouched, TypeOK
    <3>6. Lifecycle!Settle(d)
      BY <3>4, <3>5, FateMoves DEF Lifecycle!Settle
    <3> QED
      BY <3>6 DEF Lifecycle!Next
  <2>13. CASE RecoverUnlinkFails(p)
    BY <1>0, <2>13 DEF RecoverUnlinkFails, database, files
  <2>14. CASE FinalizeFails(p)
    BY <1>0, <2>14 DEF FinalizeFails, database, files
  <2>15. CASE PlanRetention(p)
    BY <1>0, <2>15 DEF PlanRetention, database, files
  <2>16. ASSUME NEW c \in plan[p], ValidatePasses(p, c)
        PROVE  [Lifecycle!Next]_Fate
    BY <1>0, <2>16 DEF ValidatePasses, database, files
  <2>17. ASSUME NEW c \in plan[p], ValidateRefuses(p, c)
        PROVE  [Lifecycle!Next]_Fate
    BY <1>0, <2>17 DEF ValidateRefuses, database, files
  <2>18. ASSUME NEW c \in plan[p], Claim(p, c)
        PROVE  [Lifecycle!Next]_Fate
    <3>1. /\ lifecycle[c] = "present"
          /\ lifecycle' = [lifecycle EXCEPT ![c] = "pending_delete"]
          /\ UNCHANGED <<catalogue, media, gone>>
      BY <2>18 DEF Claim, files
    <3>2. c \in Captures /\ c \in catalogue /\ AboveFloor(c)
      BY DEF TypeOK, MemoryInv, FloorInv
    <3>3. c \notin gone
      BY <2>0, <3>1 DEF DurableInv
    <3>4. \/ Fate[c] = "kept" /\ Fate'[c] = "condemned"
          \/ Fate[c] = "lost" /\ Fate'[c] = "vanished"
      BY <3>1, <3>2, <3>3, FateOf, FateOfNext DEF TypeOK
    <3>5. \A e \in Captures \ {c} : Untouched(e)
      BY <3>1 DEF Untouched, TypeOK
    <3>6. /\ c \in Motion
          /\ Cardinality({d \in Lifecycle!Present : d > c}) >= MinimumKeep
      BY <3>2, PresentIsManaged DEF AboveFloor, Newer
    <3>7. Lifecycle!Move(c, "kept", "condemned") \/ Lifecycle!Move(c, "lost", "vanished")
      BY <3>2, <3>4, <3>5, FateMoves
    <3>8. Lifecycle!Condemn(c)
      BY <3>6, <3>7, SameCardinality DEF Lifecycle!Condemn
    <3> QED
      BY <3>2, <3>8 DEF Lifecycle!Next
  <2>19. ASSUME NEW c \in plan[p], Revalidate(p, c)
        PROVE  [Lifecycle!Next]_Fate
    BY <1>0, <2>19 DEF Revalidate, database, files
  <2>20. ASSUME NEW c \in plan[p], Unlink(p, c)
        PROVE  [Lifecycle!Next]_Fate
    <3>1. /\ pc[p] = "unlink" /\ Candidate(p, c)
          /\ media[c] # "missing"
          /\ media' = [media EXCEPT ![c] = "missing"]
          /\ gone' = gone \cup {c}
          /\ UNCHANGED <<catalogue, lifecycle>>
      BY <2>20 DEF Unlink, database
    <3>2. c \in Captures /\ c \in catalogue
      BY DEF TypeOK, MemoryInv
    <3>3. lifecycle[c] = "pending_delete"
      BY <2>0, <3>1, <3>2, OneCandidate DEF DeleteInv, Pending
    <3>4. c \notin gone
      BY <2>0, <3>1, <3>2, OneCandidate DEF DeleteInv
    <3>5. Fate[c] = "condemned" /\ Fate'[c] = "removed"
      BY <3>1, <3>2, <3>3, <3>4, FateOf, FateOfNext
    <3>6. \A e \in Captures \ {c} : Untouched(e)
      BY <3>1 DEF Untouched, TypeOK
    <3>7. Lifecycle!Remove(c)
      BY <3>2, <3>5, <3>6, FateMoves DEF Lifecycle!Remove
    <3> QED
      BY <3>2, <3>7 DEF Lifecycle!Next
  <2>21. ASSUME NEW c \in plan[p], Cancel(p, c)
        PROVE  [Lifecycle!Next]_Fate
    <3>1. /\ pc[p] = "cancel" /\ Candidate(p, c)
          /\ lifecycle[c] = "pending_delete"
          /\ lifecycle' = [lifecycle EXCEPT ![c] = "present"]
          /\ UNCHANGED <<catalogue, media, gone>>
      BY <2>21 DEF Cancel, files
    <3>2. c \in Captures /\ c \in catalogue
      BY DEF TypeOK, MemoryInv
    <3>3. c \notin gone
      BY <2>0, <3>1, <3>2, OneCandidate DEF DeleteInv
    <3>4. \/ Fate[c] = "condemned" /\ Fate'[c] = "kept"
          \/ Fate[c] = "vanished" /\ Fate'[c] = "lost"
      BY <3>1, <3>2, <3>3, FateOf, FateOfNext DEF TypeOK
    <3>5. \A e \in Captures \ {c} : Untouched(e)
      BY <3>1 DEF Untouched, TypeOK
    <3>6. Lifecycle!Pardon(c)
      BY <3>2, <3>4, <3>5, FateMoves DEF Lifecycle!Pardon
    <3> QED
      BY <3>2, <3>6 DEF Lifecycle!Next
  <2>22. ASSUME NEW c \in plan[p], Finalize(p, c)
        PROVE  [Lifecycle!Next]_Fate
    <3>1. /\ pc[p] = "finalize" /\ Candidate(p, c)
          /\ lifecycle[c] = "pending_delete"
          /\ lifecycle' = [lifecycle EXCEPT ![c] = "deleted"]
          /\ UNCHANGED <<catalogue, media, gone>>
      BY <2>22 DEF Finalize, CommitDeletion, files
    <3>2. c \in Captures /\ c \in catalogue
      BY DEF TypeOK, MemoryInv
    <3>3. c \in gone
      BY <2>0, <3>1, <3>2, OneCandidate DEF DeleteInv
    <3>4. Fate[c] = "removed" /\ Fate'[c] = "reclaimed"
      BY <3>1, <3>2, <3>3, FateOf, FateOfNext DEF TypeOK
    <3>5. \A e \in Captures \ {c} : Untouched(e)
      BY <3>1 DEF Untouched, TypeOK
    <3>6. Lifecycle!Settle(c)
      BY <3>2, <3>4, <3>5, FateMoves DEF Lifecycle!Settle
    <3> QED
      BY <3>2, <3>6 DEF Lifecycle!Next
  <2>23. CASE ClaimFails(p)
    BY <1>0, <2>23 DEF ClaimFails, database, files
  <2>24. CASE UnlinkFails(p)
    BY <1>0, <2>24 DEF UnlinkFails, database, files
  <2>25. CASE CancelFails(p)
    BY <1>0, <2>25 DEF CancelFails, database, files
  <2>26. CASE RunCompletes(p)
    BY <1>0, <2>26 DEF RunCompletes, database, files
  <2>27. CASE Abort(p)
    BY <1>0, <2>27 DEF Abort, database, files
  <2>28. CASE ReleaseBackupLock(p)
    BY <1>0, <2>28 DEF ReleaseBackupLock, database, files
  <2>29. CASE ReleaseRetentionLock(p)
    BY <1>0, <2>29 DEF ReleaseRetentionLock, database, files
  <2>30. CASE Crash(p)
    BY <1>0, <2>30 DEF Crash, database, files
  <2> QED
    BY <1>1, <2>1, <2>2, <2>3, <2>4, <2>5, <2>6, <2>7, <2>8, <2>9,
       <2>10, <2>11, <2>12, <2>13, <2>14, <2>15, <2>16, <2>17, <2>18,
       <2>19, <2>20, <2>21, <2>22, <2>23, <2>24, <2>25, <2>26, <2>27,
       <2>28, <2>29, <2>30 DEF RunStep
<1>2. CASE Environment
  <2>0. DurableInv
    BY DEF SettledInv
  <2>1. CASE StartBackup \/ EndBackup \/ LockExpires
    BY <1>0, <2>1 DEF StartBackup, EndBackup, LockExpires, database, files
  <2>2. ASSUME NEW c \in Captures, Archive(c)
        PROVE  [Lifecycle!Next]_Fate
    <3>1. /\ c \notin catalogue /\ catalogue' = catalogue \cup {c}
          /\ media' = [media EXCEPT ![c] = "ok"]
          /\ UNCHANGED <<lifecycle, gone>>
      BY <2>2 DEF Archive
    <3>2. lifecycle[c] = "present"
      BY <2>0, <3>1 DEF DurableInv
    <3>3. Fate[c] = "uncatalogued" /\ Fate'[c] = "kept"
      BY <3>1, <3>2, FateOf, FateOfNext DEF TypeOK
    <3>4. \A e \in Captures \ {c} : Untouched(e)
      BY <3>1 DEF Untouched, TypeOK
    <3>5. Lifecycle!Archive(c)
      BY <3>3, <3>4, FateMoves DEF Lifecycle!Archive
    <3> QED
      BY <3>5 DEF Lifecycle!Next
  <2>3. ASSUME NEW c \in Captures, FileChanges(c)
        PROVE  [Lifecycle!Next]_Fate
    <3>1. PICK m \in {"ok", "missing", "unverifiable"} :
            media' = [media EXCEPT ![c] = m]
      BY <2>3 DEF FileChanges
    <3>2. c \in catalogue /\ UNCHANGED <<catalogue, lifecycle, gone>>
      BY <2>3 DEF FileChanges, database
    <3>3. \A e \in Captures \ {c} : Untouched(e)
      BY <3>1, <3>2 DEF Untouched, TypeOK
    <3>4. CASE lifecycle[c] = "deleted" \/ c \in gone
      <4>1. Fate[c] = Fate'[c]
        BY <2>0, <3>2, <3>4, FateOf, FateOfNext DEF DurableInv, TypeOK
      <4> QED
        BY <3>3, <4>1, FateRests
    <3>5. CASE lifecycle[c] = "present" /\ c \notin gone
      <4>1. Fate[c] \in {"kept", "lost"} /\ Fate'[c] \in {"kept", "lost"}
        BY <3>2, <3>5, FateOf, FateOfNext
      <4>2. Fate[c] = Fate'[c] \/ Lifecycle!Lose(c) \/ Lifecycle!Return(c)
        BY <3>3, <4>1, FateMoves DEF Lifecycle!Lose, Lifecycle!Return
      <4> QED
        BY <3>3, <4>2, FateRests DEF Lifecycle!Next
    <3>6. CASE lifecycle[c] = "pending_delete" /\ c \notin gone
      <4>1. /\ Fate[c] \in {"condemned", "vanished"}
            /\ Fate'[c] \in {"condemned", "vanished"}
        BY <3>2, <3>6, FateOf, FateOfNext
      <4>2. Fate[c] = Fate'[c] \/ Lifecycle!Lose(c) \/ Lifecycle!Return(c)
        BY <3>3, <4>1, FateMoves DEF Lifecycle!Lose, Lifecycle!Return
      <4> QED
        BY <3>3, <4>2, FateRests DEF Lifecycle!Next
    <3> QED
      BY <3>4, <3>5, <3>6 DEF TypeOK
  <2> QED
    BY <1>2, <2>1, <2>2, <2>3 DEF Environment
<1>3. CASE UNCHANGED vars
  BY <1>0, <1>3 DEF vars
<1> QED
  BY <1>1, <1>2, <1>3 DEF Next

\* The whole run -- recovery, plan, three-stage deletion, with its crashes and
\* failures -- is an implementation of the media lifecycle.
THEOREM RunImplementsLifecycle ==
  ASSUME LocksExclude = TRUE
  PROVE  Spec => ImplementsMediaLifecycle
<1>1. Init => Lifecycle!Init
  BY DEF Init, Lifecycle!Init, Fate
<1> HIDE DEF Fate
<1> QED
  BY <1>1, StepIsMove, RetentionTyped, BackupLockHeld, MemoryIsCatalogued,
     Settled, FloorHolds, PTL DEF Spec, ImplementsMediaLifecycle, Lifecycle!Spec

\* A run unlinks a file, or takes it for deleted because it is not there, only
\* while the intent to delete it is durable.
THEOREM UnlinkIsCondemned ==
  ASSUME LocksExclude = TRUE
  PROVE  Spec => UnlinkOnlyCondemned
<1> DEFINE Condemned == \A c \in Captures : c \in gone' \ gone =>
                          lifecycle[c] = "pending_delete"
<1>1. TypeOK /\ SettledInv /\ [Next]_vars => [Condemned]_vars
  <2> SUFFICES ASSUME TypeOK, SettledInv, [Next]_vars
               PROVE  Condemned
    OBVIOUS
  <2>1. ASSUME NEW p \in Runs, RunStep(p)
        PROVE  Condemned
    <3>0. RecoverInv(p) /\ DeleteInv(p)
      BY DEF SettledInv
    <3>1. ASSUME NEW i \in intents[p], RecoverUnlinks(p, i)
          PROVE  Condemned
      <4>1. lifecycle[i.capture] = "pending_delete"
        BY <3>0, <3>1 DEF RecoverUnlinks, RecoverInv, Pending
      <4> QED
        BY <3>1, <4>1 DEF RecoverUnlinks
    <3>2. ASSUME NEW c \in plan[p], Unlink(p, c)
          PROVE  Condemned
      <4>1. c \in Captures /\ pc[p] = "unlink" /\ Candidate(p, c)
        BY <3>2 DEF TypeOK, Unlink
      <4>2. lifecycle[c] = "pending_delete"
        BY <3>0, <4>1, OneCandidate DEF DeleteInv, Pending
      <4> QED
        BY <3>2, <4>2 DEF Unlink
    <3>3. ASSUME NEW i \in intents[p], RecoverInspects(p, i)
          PROVE  Condemned
      <4>1. lifecycle[i.capture] = "pending_delete"
        BY <3>0, <3>3 DEF RecoverInspects, RecoverInv, Pending
      <4> QED
        BY <3>3, <4>1 DEF RecoverInspects
    <3>4. CASE gone' = gone
      BY <3>4
    <3> QED
      BY <2>1, <3>1, <3>2, <3>3, <3>4
         DEF RunStep, files, StartRun, TakeRetentionLock, RetentionLockUnavailable,
             ClearRetentionLock, TakeBackupLock, BackupLockUnavailable,
             ClearBackupLock, ListRecords, RecoverRefuses, FinalizeRecovered,
             RecoverUnlinkFails, FinalizeFails, PlanRetention,
             ValidatePasses, ValidateRefuses, Claim, Revalidate, Cancel, Finalize,
             ClaimFails, UnlinkFails, CancelFails, RunCompletes, Abort,
             ReleaseBackupLock, ReleaseRetentionLock, Crash
  <2>2. CASE Environment \/ UNCHANGED vars
    BY <2>2 DEF Environment, StartBackup, EndBackup, LockExpires, Archive,
                FileChanges, files, vars
  <2> QED
    BY <2>1, <2>2 DEF Next
<1> QED
  BY <1>1, RetentionTyped, Settled, PTL DEF Spec, UnlinkOnlyCondemned

(***************************************************************************)
(* The planner of RetentionPolicy.                                         *)
(***************************************************************************)
\* A set of captures as the catalogue may hold it.
Catalogue(R) == /\ R \subseteq Record
                /\ IsFiniteSet(R)
                /\ \A r, s \in R : r.id = s.id => r = s

\* The m oldest of the managed captures.
Oldest(R, m) == {Ordered(R)[i] : i \in 1..m}

\* How many captures the floor leaves eligible.
EligibleCount(R, q) ==
  LET n == Cardinality(ManagedIn(R)) IN IF n > q.keep THEN n - q.keep ELSE 0

\* Some indices have a least one: the intervals below them are well-founded.
LEMMA LeastIndex ==
  ASSUME NEW N \in Nat, NEW S \in SUBSET (0..N), S # {}
  PROVE  \E m \in S : \A x \in S : m <= x
<1> DEFINE T == {0..x : x \in S}
<1>1. T \subseteq FiniteSubsetsOf(Nat) /\ T # {}
  <2>1. ASSUME NEW x \in S PROVE (0..x) \in FiniteSubsetsOf(Nat)
    <3>1. x \in Nat
      OBVIOUS
    <3>2. (0..x) \in SUBSET Nat /\ IsFiniteSet(0..x)
      BY <3>1, FS_Interval
    <3> QED
      BY <3>2 DEF FiniteSubsetsOf
  <2> QED
    BY <2>1
<1>2. \E U \in T : \A V \in T : ~(<<V, U>> \in StrictSubsetOrdering(Nat))
  <2> HIDE DEF T
  <2> QED
    BY <1>1, FS_StrictSubsetOrderingWellFounded, WFMin
<1>3. PICK m \in S : \A V \in T : ~(<<V, 0..m>> \in StrictSubsetOrdering(Nat))
  BY <1>2
<1>4. ASSUME NEW x \in S, x < m
      PROVE  FALSE
  <2>1. (0..x) \in T
    OBVIOUS
  <2>2. x \in Nat /\ m \in Nat
    OBVIOUS
  <2>3. (0..x) \subseteq (0..m) /\ (0..x) \in SUBSET Nat /\ (0..m) \in SUBSET Nat
    BY <1>4, <2>2
  <2>4. m \in 0..m /\ m \notin 0..x
    BY <1>4, <2>2
  <2> QED
    BY <1>3, <2>1, <2>3, <2>4 DEF StrictSubsetOrdering
<1>5. \A x \in S : m <= x
  <2> SUFFICES ASSUME NEW x \in S PROVE m <= x
    OBVIOUS
  <2>1. x \in Nat /\ m \in Nat
    OBVIOUS
  <2> QED
    BY <1>4, <2>1
<1> QED
  BY <1>5

\* Indices that are closed downwards are an initial segment.
LEMMA InitialSegment ==
  ASSUME NEW k \in Nat, NEW D \in SUBSET (1..k),
         \A j \in D : \A i \in 1..j : i \in D
  PROVE  \E m \in 0..k : D = 1..m
<1> DEFINE S == {m \in 0..k : m + 1 \notin D}
<1>1. k \in S
  OBVIOUS
<1>2. PICK m \in S : \A x \in S : m <= x
  <2>1. S \in SUBSET (0..k) /\ S # {}
    BY <1>1
  <2> HIDE DEF S
  <2> QED
    BY <2>1, LeastIndex
<1>3. m \in 0..k /\ m + 1 \notin D
  BY <1>2
<1>4. ASSUME NEW i \in 1..m PROVE i \in D
  <2>1. i - 1 \in 0..k /\ i - 1 < m /\ (i - 1) + 1 = i
    BY <1>3
  <2>2. i - 1 \notin S
    BY <1>2, <2>1, <1>3
  <2> QED
    BY <2>1, <2>2
<1>5. ASSUME NEW j \in D PROVE j \in 1..m
  <2>1. j \in 1..k
    OBVIOUS
  <2>2. CASE j > m
    <3>1. m + 1 \in 1..j
      BY <1>3, <2>1, <2>2
    <3> QED
      BY <1>3, <3>1
  <2> QED
    BY <1>3, <2>1, <2>2
<1>6. D = 1..m
  BY <1>4, <1>5
<1> QED
  BY <1>3, <1>6

\* The numbers of a record.
LEMMA RecordNumbers ==
  ASSUME NEW r \in Record
  PROVE  r.at \in Nat /\ r.id \in Nat /\ r.size \in Nat /\ r.at \in 0..LastDay
<1>1. r.at \in 0..LastDay /\ r.id \in Ids /\ r.size \in Sizes
  BY DEF Record
<1>2. LastDay \in Nat /\ Ids \subseteq Nat /\ Sizes \subseteq Nat
  BY PolicyAssumption
<1>3. r.at \in Nat
  BY <1>1, <1>2
<1> QED
  BY <1>1, <1>2, <1>3

\* Records are ordered by day, and by id within a day.
LEMMA BeforeOrders ==
  ASSUME NEW r \in Record, NEW s \in Record, NEW t \in Record
  PROVE  /\ ~Before(r, r)
         /\ Before(r, s) => ~Before(s, r)
         /\ Before(r, s) /\ Before(s, t) => Before(r, t)
         /\ r.id # s.id => Before(r, s) \/ Before(s, r)
         /\ Before(r, s) => r.at <= s.at
<1>1. /\ r.at \in Int /\ s.at \in Int /\ t.at \in Int
      /\ r.id \in Int /\ s.id \in Int /\ t.id \in Int
  BY RecordNumbers
<1> QED
  BY <1>1 DEF Before

\* A catalogue and its parts.
LEMMA Parts ==
  ASSUME NEW R, Catalogue(R), NEW S \in SUBSET R
  PROVE  Catalogue(S)
BY FS_Subset DEF Catalogue

LEMMA ManagedParts ==
  ASSUME NEW R, Catalogue(R)
  PROVE  Catalogue(ManagedIn(R))
BY Parts DEF ManagedIn

\* Sorting lists every capture of a set once, oldest first: the rank of a
\* capture, how many are before it, is its index.
LEMMA SortedIs ==
  ASSUME NEW S, Catalogue(S)
  PROVE  /\ Cardinality(S) \in Nat
         /\ Sorted(S) \in [1..Cardinality(S) -> S]
         /\ \A i, j \in 1..Cardinality(S) : i < j => Before(Sorted(S)[i], Sorted(S)[j])
         /\ \A r \in S : \E i \in 1..Cardinality(S) : Sorted(S)[i] = r
<1> DEFINE n == Cardinality(S)
           Earlier(r) == {s \in S : Before(s, r)}
           rank == [r \in S |-> Cardinality(Earlier(r)) + 1]
<1>1. n \in Nat /\ IsFiniteSet(S) /\ \A r \in S : r \in Record
  BY FS_CardinalityType DEF Catalogue
<1>2. ASSUME NEW r \in S
      PROVE  /\ IsFiniteSet(Earlier(r)) /\ Cardinality(Earlier(r)) \in Nat
             /\ Cardinality(Earlier(r)) + 1 \in 1..n
  <2>1. Earlier(r) \in SUBSET (S \ {r})
    BY <1>1, BeforeOrders
  <2>2. IsFiniteSet(S \ {r}) /\ Cardinality(S \ {r}) = n - 1
    BY <1>1, FS_RemoveElement
  <2>3. IsFiniteSet(Earlier(r)) /\ Cardinality(Earlier(r)) <= n - 1
    <3> HIDE DEF n, Earlier
    <3> QED
      BY <2>1, <2>2, FS_Subset
  <2>4. Cardinality(Earlier(r)) \in Nat
    BY <2>3, FS_CardinalityType
  <2> HIDE DEF n, Earlier
  <2> QED
    BY <1>1, <2>3, <2>4
<1>3. ASSUME NEW r \in S, NEW t \in S, Before(r, t)
      PROVE  rank[r] < rank[t]
  <2>1. Earlier(r) \cup {r} \in SUBSET Earlier(t) /\ r \notin Earlier(r)
    BY <1>1, <1>3, BeforeOrders
  <2>2. Cardinality(Earlier(r) \cup {r}) = Cardinality(Earlier(r)) + 1
    <3> HIDE DEF Earlier
    <3> QED
      BY <1>2, <2>1, FS_AddElement
  <2>3. Cardinality(Earlier(r) \cup {r}) <= Cardinality(Earlier(t))
    <3> HIDE DEF Earlier
    <3> QED
      BY <1>2, <2>1, FS_Subset
  <2>4. rank[r] = Cardinality(Earlier(r)) + 1 /\ rank[t] = Cardinality(Earlier(t)) + 1
    OBVIOUS
  <2> HIDE DEF Earlier, rank
  <2> QED
    BY <1>2, <2>2, <2>3, <2>4
<1>4. rank \in [S -> 1..n]
  <2> HIDE DEF n, Earlier
  <2> QED
    BY <1>2
<1>5. ASSUME NEW r \in S, NEW t \in S, r # t
      PROVE  Before(r, t) \/ Before(t, r)
  BY <1>1, <1>5, BeforeOrders DEF Catalogue
<1> HIDE DEF rank
<1>6. ASSUME NEW r \in S, NEW t \in S, r # t
      PROVE  rank[r] # rank[t]
  <2>1. rank[r] \in Int /\ rank[t] \in Int
    BY <1>4
  <2>2. rank[r] < rank[t] \/ rank[t] < rank[r]
    BY <1>3, <1>5, <1>6
  <2> HIDE DEF n
  <2> QED
    BY <2>1, <2>2
<1>7. rank \in Surjection(S, 1..n)
  <2>1. rank \in Injection(S, 1..n)
    BY <1>4, <1>6 DEF Injection, IsInjective
  <2>2. IsFiniteSet(1..n) /\ Cardinality(1..n) = n
    BY <1>1, FS_Interval
  <2> QED
    BY <1>1, <2>1, <2>2, FS_Injection
<1>8. \A i \in 1..n : \E r \in S : rank[r] = i
  BY <1>7 DEF Surjection
<1> DEFINE f == [i \in 1..n |-> CHOOSE r \in S : rank[r] = i]
<1>9. \A i \in 1..n : f[i] \in S /\ rank[f[i]] = i
  BY <1>8
<1>10. \E s \in [1..n -> S] : \A i, j \in DOMAIN s : i < j => Before(s[i], s[j])
  <2>1. f \in [1..n -> S] /\ DOMAIN f = 1..n
    BY <1>9
  <2>2. ASSUME NEW i \in 1..n, NEW j \in 1..n, i < j
        PROVE  Before(f[i], f[j])
    <3> HIDE DEF f
    <3>1. f[i] # f[j]
      <4>1. i # j
        BY <1>1, <2>2
      <4> QED
        BY <1>9, <4>1
    <3>2. ~Before(f[j], f[i])
      <4> SUFFICES ASSUME Before(f[j], f[i]) PROVE FALSE
        OBVIOUS
      <4>1. rank[f[j]] < rank[f[i]]
        BY <1>3, <1>9
      <4>2. j < i
        BY <1>9, <4>1
      <4> QED
        BY <2>2, <4>2
    <3> QED
      BY <1>5, <1>9, <3>1, <3>2
  <2> QED
    BY <2>1, <2>2
<1>11. /\ Sorted(S) \in [1..n -> S]
       /\ \A i, j \in DOMAIN Sorted(S) : i < j => Before(Sorted(S)[i], Sorted(S)[j])
  BY <1>10 DEF Sorted
<1>12. \A i, j \in 1..n : i < j => Before(Sorted(S)[i], Sorted(S)[j])
  BY <1>11
<1>13. \A r \in S : \E i \in 1..n : Sorted(S)[i] = r
  <2> DEFINE g == Sorted(S)
  <2>1. g \in [1..n -> S]
    BY <1>11
  <2>2. ASSUME NEW i \in 1..n, NEW j \in 1..n, g[i] = g[j] PROVE i = j
    <3>1. g[i] \in S /\ g[j] \in S
      BY <2>1
    <3>2. ~Before(g[i], g[j]) /\ ~Before(g[j], g[i])
      <4> HIDE DEF g
      <4> QED
        BY <1>1, <2>2, <3>1, BeforeOrders
    <3>3. ~(i < j) /\ ~(j < i)
      BY <1>12, <3>2
    <3> QED
      BY <3>3
  <2> HIDE DEF g
  <2>3. g \in Injection(1..n, S)
    BY <2>1, <2>2 DEF Injection, IsInjective
  <2>4. IsFiniteSet(1..n) /\ Cardinality(1..n) = n
    BY <1>1, FS_Interval
  <2>5. g \in Surjection(1..n, S)
    BY <1>1, <2>3, <2>4, FS_Injection
  <2> QED
    BY <2>5 DEF Surjection, g
<1> QED
  BY <1>1, <1>11, <1>12, <1>13

\* The managed captures in order: every one has one index, and is before those
\* of greater index and before no other.
LEMMA OrderedIs ==
  ASSUME NEW R, Catalogue(R)
  PROVE  /\ Cardinality(ManagedIn(R)) \in Nat
         /\ Ordered(R) \in [1..Cardinality(ManagedIn(R)) -> ManagedIn(R)]
         /\ \A i, j \in 1..Cardinality(ManagedIn(R)) :
              Before(Ordered(R)[i], Ordered(R)[j]) <=> i < j
         /\ \A r \in ManagedIn(R) :
              \E i \in 1..Cardinality(ManagedIn(R)) : Ordered(R)[i] = r
<1> DEFINE M == ManagedIn(R)
           n == Cardinality(M)
           o == Ordered(R)
<1>1. Catalogue(M) /\ o = Sorted(M)
  BY ManagedParts DEF Ordered
<1> HIDE DEF M, o
<1>2. /\ n \in Nat /\ o \in [1..n -> M]
      /\ \A i, j \in 1..n : i < j => Before(o[i], o[j])
      /\ \A r \in M : \E i \in 1..n : o[i] = r
  BY <1>1, SortedIs
<1>3. ASSUME NEW i \in 1..n, NEW j \in 1..n
      PROVE  Before(o[i], o[j]) <=> i < j
  <2>1. o[i] \in Record /\ o[j] \in Record
    BY <1>1, <1>2 DEF Catalogue
  <2>2. CASE i < j
    BY <1>2, <2>2
  <2>3. CASE i = j
    BY <2>1, <2>3, BeforeOrders
  <2>4. CASE j < i
    <3>1. Before(o[j], o[i])
      BY <1>2, <2>4
    <3>2. ~Before(o[i], o[j])
      BY <2>1, <3>1, BeforeOrders
    <3> QED
      BY <2>4, <3>2
  <2> QED
    BY <2>2, <2>3, <2>4
<1> QED
  BY <1>2, <1>3 DEF M, o

\* The m oldest are m managed captures, those of index up to m.
LEMMA OldestIs ==
  ASSUME NEW R, Catalogue(R), NEW m \in 0..Cardinality(ManagedIn(R))
  PROVE  /\ Oldest(R, m) \in SUBSET ManagedIn(R)
         /\ Catalogue(Oldest(R, m))
         /\ Cardinality(Oldest(R, m)) = m
         /\ \A i \in 1..Cardinality(ManagedIn(R)) :
              Ordered(R)[i] \in Oldest(R, m) <=> i <= m
<1> DEFINE M == ManagedIn(R)
           n == Cardinality(M)
           o == Ordered(R)
           g == [i \in 1..m |-> o[i]]
<1>1. /\ n \in Nat /\ o \in [1..n -> M]
      /\ \A i, j \in 1..n : Before(o[i], o[j]) <=> i < j
  BY OrderedIs
<1>2. Catalogue(M) /\ m \in Nat /\ m <= n /\ m \in 0..n
  BY <1>1, ManagedParts
<1>3. Oldest(R, m) = {o[i] : i \in 1..m}
  BY DEF Oldest
<1> HIDE DEF M, n, o
<1>4. \A i \in 1..m : i \in 1..n
  BY <1>1, <1>2
<1>5. Oldest(R, m) \in SUBSET M
  BY <1>1, <1>3, <1>4
<1>6. Catalogue(Oldest(R, m))
  BY <1>2, <1>5, Parts
<1>7. ASSUME NEW i \in 1..n, NEW j \in 1..n, o[i] = o[j] PROVE i = j
  <2>1. ~(i < j) /\ ~(j < i)
    BY <1>1, <1>7
  <2> QED
    BY <2>1
<1>8. Cardinality(Oldest(R, m)) = m
  <2>1. g \in [1..m -> Oldest(R, m)]
    BY <1>3
  <2>2. \A i, j \in 1..m : g[i] = g[j] => i = j
    BY <1>4, <1>7
  <2>3. \A r \in Oldest(R, m) : \E i \in 1..m : g[i] = r
    BY <1>3
  <2> HIDE DEF g
  <2>4. g \in Bijection(1..m, Oldest(R, m))
    BY <2>1, <2>2, <2>3 DEF Bijection, Injection, IsInjective, Surjection
  <2> QED
    BY <1>2, <2>4, FS_CountingElements DEF ExistsBijection
<1>9. ASSUME NEW i \in 1..n
      PROVE  o[i] \in Oldest(R, m) <=> i <= m
  <2>1. ASSUME o[i] \in Oldest(R, m) PROVE i <= m
    <3>1. PICK j \in 1..m : o[i] = o[j]
      BY <1>3, <2>1
    <3>2. i = j
      BY <1>4, <1>7, <3>1
    <3> QED
      BY <1>2, <3>2
  <2>2. ASSUME i <= m PROVE o[i] \in Oldest(R, m)
    <3>1. i \in 1..m
      BY <1>1, <1>2, <2>2
    <3> QED
      BY <1>3, <3>1
  <2> QED
    BY <2>1, <2>2
<1> QED
  BY <1>5, <1>6, <1>8, <1>9 DEF M, n, o

\* The i-th managed capture has all but the i oldest after it.
LEMMA NewerThan ==
  ASSUME NEW R, Catalogue(R), NEW i \in 1..Cardinality(ManagedIn(R))
  PROVE  Cardinality({s \in ManagedIn(R) : Before(Ordered(R)[i], s)}) =
           Cardinality(ManagedIn(R)) - i
<1> DEFINE M == ManagedIn(R)
           n == Cardinality(M)
           o == Ordered(R)
           After == {s \in M : Before(o[i], s)}
<1>1. /\ n \in Nat /\ o \in [1..n -> M]
      /\ \A a, b \in 1..n : Before(o[a], o[b]) <=> a < b
      /\ \A r \in M : \E a \in 1..n : o[a] = r
  BY OrderedIs
<1>2. /\ Oldest(R, i) \in SUBSET M /\ Cardinality(Oldest(R, i)) = i
      /\ \A a \in 1..n : o[a] \in Oldest(R, i) <=> a <= i
  <2>1. i \in 0..n
    BY <1>1
  <2> QED
    BY <2>1, OldestIs
<1>3. IsFiniteSet(M)
  BY ManagedParts DEF Catalogue
<1> HIDE DEF M, n, o
<1>4. After = M \ Oldest(R, i)
  <2> SUFFICES ASSUME NEW s \in M
               PROVE  Before(o[i], s) <=> s \notin Oldest(R, i)
    OBVIOUS
  <2>1. PICK a \in 1..n : o[a] = s
    BY <1>1
  <2>2. i < a <=> ~(a <= i)
    OBVIOUS
  <2>3. i \in 1..n
    BY DEF n, M
  <2> QED
    BY <1>1, <1>2, <2>1, <2>2, <2>3
<1>5. Cardinality(M \ Oldest(R, i)) = Cardinality(M) - Cardinality(M \cap Oldest(R, i))
  BY <1>3, FS_Difference
<1>6. M \cap Oldest(R, i) = Oldest(R, i)
  BY <1>2
<1>7. Cardinality(After) = n - i
  BY <1>2, <1>4, <1>5, <1>6 DEF n
<1> QED
  BY <1>7 DEF M, n, o

\* Sorting the m oldest gives the first m of the order: the index of a capture
\* is told by how many are after it.
LEMMA SortedOldest ==
  ASSUME NEW R, Catalogue(R), NEW m \in 0..Cardinality(ManagedIn(R))
  PROVE  Sorted(Oldest(R, m)) = [i \in 1..m |-> Ordered(R)[i]]
<1> DEFINE M == ManagedIn(R)
           n == Cardinality(M)
           o == Ordered(R)
           P == Oldest(R, m)
           s == Sorted(P)
<1>1. /\ n \in Nat /\ o \in [1..n -> M]
      /\ \A a, b \in 1..n : Before(o[a], o[b]) <=> a < b
      /\ \A r \in M : \E a \in 1..n : o[a] = r
  BY OrderedIs
<1>2. /\ P \in SUBSET M /\ Catalogue(P) /\ Cardinality(P) = m
      /\ \A a \in 1..n : o[a] \in P <=> a <= m
  BY OldestIs
<1>3. ManagedIn(P) = P /\ Ordered(P) = s
  BY <1>2 DEF ManagedIn, Ordered
<1> HIDE DEF P, s
<1>4. s \in [1..m -> P]
  BY <1>2, <1>3, OrderedIs
<1>5. ASSUME NEW i \in 1..m PROVE s[i] = o[i]
  <2>1. s[i] \in P /\ s[i] \in M
    BY <1>2, <1>4
  <2>2. PICK j \in 1..n : o[j] = s[i]
    BY <1>1, <2>1
  <2>3. m \in 0..n /\ j <= m /\ j \in 0..n
    BY <1>1, <1>2, <2>1, <2>2
  <2> DEFINE After == {r \in P : Before(s[i], r)}
  <2>4. Cardinality(After) = m - i
    <3> HIDE DEF After
    <3>1. Cardinality({r \in P : Before(s[i], r)}) = m - i
      BY <1>2, <1>3, NewerThan
    <3> QED
      BY <3>1 DEF After
  <2>5. After = P \ Oldest(R, j)
    <3> SUFFICES ASSUME NEW r \in P
                 PROVE  Before(o[j], r) <=> r \notin Oldest(R, j)
      BY <2>2
    <3>1. PICK a \in 1..n : o[a] = r
      BY <1>1, <1>2
    <3>2. o[a] \in Oldest(R, j) <=> a <= j
      BY <2>3, OldestIs
    <3>3. Before(o[j], o[a]) <=> j < a
      BY <1>1
    <3>4. j < a <=> ~(a <= j)
      OBVIOUS
    <3> QED
      BY <3>1, <3>2, <3>3, <3>4
  <2>6. Oldest(R, j) \in SUBSET P /\ Cardinality(Oldest(R, j)) = j
    <3>1. Cardinality(Oldest(R, j)) = j /\ Oldest(R, j) = {o[a] : a \in 1..j}
      BY <2>3, OldestIs DEF Oldest
    <3>2. ASSUME NEW a \in 1..j PROVE o[a] \in P
      <4>1. a \in 1..n /\ a <= m
        <5> HIDE DEF n
        <5> QED
          BY <1>1, <2>3
      <4> QED
        BY <1>2, <4>1
    <3> QED
      BY <3>1, <3>2
  <2>7. Cardinality(P \ Oldest(R, j)) = Cardinality(P) - Cardinality(P \cap Oldest(R, j))
    BY <1>2, FS_Difference DEF Catalogue
  <2>8. P \cap Oldest(R, j) = Oldest(R, j)
    BY <2>6
  <2>9. m - i = m - j
    BY <1>2, <2>4, <2>5, <2>6, <2>7, <2>8
  <2>10. i = j
    BY <2>3, <2>9
  <2> QED
    BY <2>2, <2>10
<1>6. s = [i \in 1..m |-> o[i]]
  BY <1>4, <1>5
<1> QED
  BY <1>6 DEF s, P

\* The greater of zero and a number, the lesser of two.
LEMMA MaxMin ==
  ASSUME NEW a \in Int, NEW b \in Int
  PROVE  /\ Max({0, a}) = IF a > 0 THEN a ELSE 0
         /\ Min({a, b}) = IF a <= b THEN a ELSE b
<1>1. \E x \in {0, a} : \A y \in {0, a} : x >= y
  OBVIOUS
<1>2. Max({0, a}) \in {0, a} /\ \A y \in {0, a} : Max({0, a}) >= y
  BY <1>1 DEF Max
<1>3. \E x \in {a, b} : \A y \in {a, b} : x =< y
  OBVIOUS
<1>4. Min({a, b}) \in {a, b} /\ \A y \in {a, b} : Min({a, b}) =< y
  BY <1>3 DEF Min
<1> QED
  BY <1>2, <1>4

\* The first so many of a sequence.
LEMMA Shortened ==
  ASSUME NEW n \in Nat, NEW T, NEW s \in [1..n -> T], NEW k \in 0..n
  PROVE  /\ s \in Seq(T) /\ Len(s) = n
         /\ SubSeq(s, 1, k) = [i \in 1..k |-> s[i]]
         /\ Len(SubSeq(s, 1, k)) = k
<1>1. s \in Seq(T) /\ Len(s) = n
  OBVIOUS
<1>2. SubSeq(s, 1, k) = [i \in 1..k |-> s[i + 1 - 1]]
  BY <1>1, SMTT(30)
<1>3. ASSUME NEW i \in 1..k PROVE s[i + 1 - 1] = s[i]
  <2>1. i + 1 - 1 = i
    OBVIOUS
  <2> QED
    BY <2>1
<1>4. SubSeq(s, 1, k) = [i \in 1..k |-> s[i]]
  BY <1>2, <1>3
<1> DEFINE t == [i \in 1..k |-> s[i]]
<1>5. t \in [1..k -> T]
  <2>1. \A i \in 1..k : i \in 1..n
    OBVIOUS
  <2> QED
    BY <2>1
<1>6. Len(t) = k
  <2>1. k \in Nat
    OBVIOUS
  <2> HIDE DEF t
  <2> QED
    BY <1>5, <2>1
<1> QED
  BY <1>1, <1>4, <1>6

\* The eligible records are the oldest, all but the floor's.
LEMMA EligibleIs ==
  ASSUME NEW R, Catalogue(R), NEW q, q.keep \in Nat
  PROVE  /\ EligibleCount(R, q) \in 0..Cardinality(ManagedIn(R))
         /\ EligibleRecords(R, q) = [i \in 1..EligibleCount(R, q) |-> Ordered(R)[i]]
         /\ Len(EligibleRecords(R, q)) = EligibleCount(R, q)
         /\ ToSet(EligibleRecords(R, q)) = Oldest(R, EligibleCount(R, q))
<1> DEFINE n == Cardinality(ManagedIn(R))
           o == Ordered(R)
           k == EligibleCount(R, q)
<1>1. n \in Nat /\ o \in [1..n -> ManagedIn(R)]
  BY OrderedIs
<1>2. k \in 0..n
  BY <1>1 DEF EligibleCount
<1>3. Max({0, n - q.keep}) = k
  <2>1. n - q.keep \in Int
    BY <1>1
  <2>2. k = IF n - q.keep > 0 THEN n - q.keep ELSE 0
    <3>1. k = IF n > q.keep THEN n - q.keep ELSE 0
      BY DEF EligibleCount
    <3> HIDE DEF n, k
    <3> QED
      BY <1>1, <3>1
  <2> HIDE DEF n, k
  <2> QED
    BY <2>1, <2>2, MaxMin
<1> HIDE DEF n, k, o
<1>4. Len(o) = n /\ SubSeq(o, 1, k) = [i \in 1..k |-> o[i]] /\ Len(SubSeq(o, 1, k)) = k
  BY <1>1, <1>2, Shortened
<1>5. EligibleRecords(R, q) = [i \in 1..k |-> o[i]] /\ Len(EligibleRecords(R, q)) = k
  BY <1>3, <1>4 DEF EligibleRecords, o
<1>6. ToSet(EligibleRecords(R, q)) = Oldest(R, k)
  BY <1>5 DEF ToSet, Oldest, o
<1> QED
  BY <1>2, <1>5, <1>6 DEF n, k, o

\* They are those with at least the floor's number of managed captures after them.
LEMMA EligibleIsBelowFloor ==
  ASSUME NEW R, Catalogue(R), NEW q, q.keep \in Nat
  PROVE  ToSet(EligibleRecords(R, q)) =
           {r \in ManagedIn(R) :
              ~(Cardinality({s \in ManagedIn(R) : Before(r, s)}) < q.keep)}
<1> DEFINE M == ManagedIn(R)
           n == Cardinality(M)
           o == Ordered(R)
           k == EligibleCount(R, q)
<1>1. /\ n \in Nat /\ o \in [1..n -> M]
      /\ \A r \in M : \E a \in 1..n : o[a] = r
  BY OrderedIs
<1>2. k \in 0..n /\ ToSet(EligibleRecords(R, q)) = Oldest(R, k)
  BY EligibleIs
<1>3. /\ Oldest(R, k) \in SUBSET M
      /\ \A a \in 1..n : o[a] \in Oldest(R, k) <=> a <= k
  BY <1>2, OldestIs
<1>4. ASSUME NEW r \in M
      PROVE  r \in Oldest(R, k) <=> ~(Cardinality({s \in M : Before(r, s)}) < q.keep)
  <2>1. PICK a \in 1..n : o[a] = r
    BY <1>1
  <2>2. Cardinality({s \in M : Before(o[a], s)}) = n - a
    BY NewerThan
  <2>3. a <= k <=> ~(n - a < q.keep)
    <3>1. k = IF n > q.keep THEN n - q.keep ELSE 0
      BY DEF EligibleCount
    <3> HIDE DEF n, k
    <3> QED
      BY <1>1, <3>1
  <2>4. Cardinality({s \in M : Before(r, s)}) = n - a
    BY <2>1, <2>2
  <2> HIDE DEF M, n, k, o
  <2> QED
    BY <1>3, <2>1, <2>3, <2>4
<1> HIDE DEF k
<1> QED
  BY <1>2, <1>3, <1>4

\* The bytes of some captures are counted, no fewer than those of a part, and
\* taking a capture away takes its size away.
LEMMA BytesCounted ==
  ASSUME NEW S, Catalogue(S)
  PROVE  /\ Bytes(S) \in Nat
         /\ \A T \in SUBSET S : Bytes(T) <= Bytes(S)
         /\ \A r \in S : Bytes(S \ {r}) = Bytes(S) - r.size
<1> DEFINE Media(r) == {r} \X (1..r.size)
           All(T) == UNION {Media(r) : r \in T}
<1>1. ASSUME NEW r \in S
      PROVE  IsFiniteSet(Media(r)) /\ Cardinality(Media(r)) = r.size
  <2>1. r.size \in Nat
    BY RecordNumbers DEF Catalogue
  <2>2. IsFiniteSet(1..r.size) /\ Cardinality(1..r.size) = r.size
    BY <2>1, FS_Interval
  <2>3. IsFiniteSet({r}) /\ Cardinality({r}) = 1
    BY FS_Singleton
  <2>4. /\ IsFiniteSet({r} \X (1..r.size))
        /\ Cardinality({r} \X (1..r.size)) = 1 * r.size
    BY <2>2, <2>3, FS_Product
  <2> QED
    BY <2>1, <2>4
<1>2. ASSUME NEW T \in SUBSET S
      PROVE  IsFiniteSet(All(T)) /\ Cardinality(All(T)) \in Nat /\ Bytes(T) = Cardinality(All(T))
  <2> DEFINE U == {Media(r) : r \in T}
             f == [r \in T |-> Media(r)]
  <2>1. f \in Surjection(T, U)
    <3>1. f \in [T -> U]
      OBVIOUS
    <3>2. \A x \in U : \E r \in T : f[r] = x
      OBVIOUS
    <3> HIDE DEF f, U
    <3> QED
      BY <3>1, <3>2 DEF Surjection
  <2>2. IsFiniteSet(T)
    BY FS_Subset DEF Catalogue
  <2>3. IsFiniteSet(U)
    <3> HIDE DEF f, U
    <3> QED
      BY <2>1, <2>2, FS_Surjection
  <2>4. \A x \in U : IsFiniteSet(x)
    <3> HIDE DEF Media
    <3> QED
      BY <1>1
  <2>5. IsFiniteSet(UNION U)
    <3> HIDE DEF U
    <3> QED
      BY <2>3, <2>4, FS_UNION
  <2>6. Bytes(T) = Cardinality(All(T))
    BY DEF Bytes
  <2> QED
    BY <2>5, <2>6, FS_CardinalityType
<1>3. ASSUME NEW T \in SUBSET S
      PROVE  Bytes(T) <= Bytes(S)
  <2>1. All(T) \in SUBSET All(S)
    <3> HIDE DEF Media
    <3> QED
      OBVIOUS
  <2> HIDE DEF All
  <2> QED
    BY <1>2, <2>1, FS_Subset
<1>4. ASSUME NEW r \in S
      PROVE  Bytes(S \ {r}) = Bytes(S) - r.size
  <2>1. All(S) = All(S \ {r}) \cup Media(r)
    <3> HIDE DEF Media
    <3> QED
      OBVIOUS
  <2>2. All(S \ {r}) \cap Media(r) = {}
    <3> SUFFICES ASSUME NEW s \in S \ {r}, NEW x \in Media(s), x \in Media(r)
                 PROVE  FALSE
      OBVIOUS
    <3>1. x[1] = s /\ x[1] = r
      OBVIOUS
    <3> QED
      BY <3>1
  <2>3. S \ {r} \in SUBSET S /\ S \in SUBSET S
    OBVIOUS
  <2>4. Cardinality(All(S \ {r}) \cap Media(r)) = 0
    BY <2>2, FS_EmptySet
  <2> HIDE DEF All, Media
  <2>5. Cardinality(All(S)) = Cardinality(All(S \ {r})) + Cardinality(Media(r))
                                - Cardinality(All(S \ {r}) \cap Media(r))
    BY <1>1, <1>2, <2>1, <2>3, FS_Union
  <2>6. r.size \in Nat
    BY RecordNumbers DEF Catalogue
  <2> QED
    BY <1>1, <1>2, <2>3, <2>4, <2>5, <2>6
<1>5. S \in SUBSET S
  OBVIOUS
<1> HIDE DEF All
<1> QED
  BY <1>2, <1>3, <1>4, <1>5

\* The running totals of the planner are the bytes that would be left.
LEMMA RunningIs ==
  ASSUME NEW R, Catalogue(R), NEW q, q.keep \in Nat
  PROVE  Running(R, q) = [i \in 0..EligibleCount(R, q) |->
                            Bytes(ManagedIn(R) \ Oldest(R, i))]
<1> DEFINE M == ManagedIn(R)
           n == Cardinality(M)
           o == Ordered(R)
           k == EligibleCount(R, q)
           e == EligibleRecords(R, q)
           Left(i) == Bytes(M \ Oldest(R, i))
           Step(f) == [i \in 0..k |-> IF i = 0 THEN Bytes(M) ELSE f[i - 1] - e[i].size]
           total == [i \in 0..k |-> Left(i)]
<1>1. n \in Nat /\ k \in 0..n /\ Len(e) = k /\ e = [i \in 1..k |-> o[i]]
  BY EligibleIs, OrderedIs
<1>2. Running(R, q) = CHOOSE f : f = Step(f)
  <2> HIDE DEF e, k
  <2>1. Running(R, q) = CHOOSE f : f = [i \in 0..Len(e) |->
           IF i = 0 THEN Bytes(M) ELSE f[i - 1] - e[i].size]
    BY DEF Running, e
  <2> QED
    BY <1>1, <2>1
<1>3. Left(0) = Bytes(M)
  <2>1. Oldest(R, 0) = {}
    BY DEF Oldest
  <2>2. M \ Oldest(R, 0) = M
    BY <2>1
  <2> QED
    BY <2>2
<1>4. ASSUME NEW i \in 1..k
      PROVE  Left(i) = Left(i - 1) - e[i].size
  <2>1. i \in 1..n /\ i - 1 \in 0..n /\ i \in 0..n
    <3> HIDE DEF n, k
    <3> QED
      BY <1>1
  <2>2. o[i] \in M /\ o[i] \notin Oldest(R, i - 1)
    <3>1. o[i] \in M
      BY <2>1, OrderedIs
    <3>2. o[i] \in Oldest(R, i - 1) <=> i <= i - 1
      BY <2>1, OldestIs
    <3> QED
      BY <3>1, <3>2
  <2>3. Oldest(R, i) = Oldest(R, i - 1) \cup {o[i]}
    <3>1. 1..i = (1..(i - 1)) \cup {i}
      BY <2>1
    <3> QED
      BY <3>1 DEF Oldest
  <2>4. M \ Oldest(R, i) = (M \ Oldest(R, i - 1)) \ {o[i]}
    BY <2>3
  <2>5. Catalogue(M \ Oldest(R, i - 1))
    BY ManagedParts, Parts
  <2>6. Bytes((M \ Oldest(R, i - 1)) \ {o[i]}) = Left(i - 1) - o[i].size
    BY <2>2, <2>5, BytesCounted
  <2>7. e[i] = o[i]
    BY <1>1
  <2> QED
    BY <2>4, <2>6, <2>7
<1>5. ASSUME NEW i \in 0..n PROVE Left(i) \in Nat
  BY ManagedParts, Parts, BytesCounted
<1> HIDE DEF Left, k, n, e
<1>6. total = Step(total)
  <2>1. ASSUME NEW i \in 0..k
        PROVE  total[i] = Step(total)[i]
    <3>1. CASE i = 0
      BY <1>3, <3>1
    <3>2. CASE i # 0
      <4>1. i \in 1..k /\ i - 1 \in 0..k
        BY <1>1, <3>2
      <4>2. total[i - 1] = Left(i - 1) /\ total[i] = Left(i)
        BY <4>1
      <4>3. Step(total)[i] = total[i - 1] - e[i].size
        BY <3>2
      <4> QED
        BY <1>4, <4>1, <4>2, <4>3
    <3> QED
      BY <3>1, <3>2
  <2>2. total = [i \in 0..k |-> total[i]] /\ Step(total) = [i \in 0..k |-> Step(total)[i]]
    OBVIOUS
  <2> HIDE DEF total, Step
  <2> QED
    BY <2>1, <2>2
<1> DEFINE chosen == CHOOSE f : f = Step(f)
<1>7. chosen = Step(chosen)
  <2> HIDE DEF total, Step
  <2> QED
    BY <1>6
<1> HIDE DEF chosen
<1>8. ASSUME NEW i \in 0..k PROVE chosen[i] = total[i]
  <2> DEFINE Wrong == {j \in 0..k : chosen[j] # total[j]}
  <2> SUFFICES ASSUME Wrong # {} PROVE FALSE
    OBVIOUS
  <2>1. PICK j \in Wrong : \A x \in Wrong : j <= x
    <3>1. k \in Nat /\ Wrong \in SUBSET (0..k)
      BY <1>1
    <3> HIDE DEF Wrong
    <3> QED
      BY <3>1, LeastIndex
  <2>2. j \in 0..k /\ chosen[j] # total[j]
    OBVIOUS
  <2>3. Step(chosen)[j] # Step(total)[j]
    BY <1>6, <1>7, <2>2
  <2>4. j # 0
    BY <2>2, <2>3
  <2>5. chosen[j - 1] # total[j - 1]
    <3>1. Step(chosen)[j] = chosen[j - 1] - e[j].size
      BY <2>2, <2>4
    <3>2. Step(total)[j] = total[j - 1] - e[j].size
      BY <2>2, <2>4
    <3> HIDE DEF total, Step
    <3> QED
      BY <2>3, <3>1, <3>2
  <2>6. j - 1 \in 0..k /\ ~(j <= j - 1)
    BY <1>1, <2>2, <2>4
  <2> QED
    BY <2>1, <2>5, <2>6
<1>9. chosen = [i \in 0..k |-> chosen[i]]
  BY <1>7
<1>10. chosen = total
  BY <1>8, <1>9
<1> QED
  BY <1>2, <1>10 DEF chosen, Left, k

\* The age rule selects the oldest of the eligible captures, up to one.
LEMMA AgeIs ==
  ASSUME NEW R, Catalogue(R), NEW q, Valid(q), NEW t \in Int
  PROVE  \E a \in 0..EligibleCount(R, q) :
           /\ ByAge(R, q, t) = Oldest(R, a)
           /\ \A i \in 1..EligibleCount(R, q) :
                i <= a <=> (q.age # Unlimited /\ Ordered(R)[i].at <= t - q.age)
<1> DEFINE M == ManagedIn(R)
           n == Cardinality(M)
           o == Ordered(R)
           k == EligibleCount(R, q)
           D == {i \in 1..k : q.age # Unlimited /\ o[i].at <= t - q.age}
<1>1. q.keep \in Nat /\ (q.age # Unlimited => q.age \in Nat)
  BY DEF Valid
<1>2. n \in Nat /\ k \in 0..n /\ k \in Nat /\ ToSet(EligibleRecords(R, q)) = Oldest(R, k)
  <2>1. n \in Nat /\ k \in 0..n /\ ToSet(EligibleRecords(R, q)) = Oldest(R, k)
    BY <1>1, EligibleIs, OrderedIs
  <2> HIDE DEF n, k
  <2> QED
    BY <2>1
<1> HIDE DEF k, n
<1>3. \A i \in 1..k : i \in 1..n
  BY <1>2
<1>4. ASSUME NEW i \in 1..k PROVE o[i] \in Record /\ o[i].at \in Nat
  <2>1. o[i] \in M /\ M \subseteq Record
    BY <1>3, OrderedIs, ManagedParts DEF n, Catalogue
  <2> QED
    BY <2>1, RecordNumbers
<1>5. ASSUME NEW j \in D, NEW i \in 1..j PROVE i \in D
  <2>1. i \in 1..k /\ j \in 1..k
    BY <1>2
  <2>2. o[i].at <= o[j].at
    <3>1. CASE i = j
      BY <3>1, <1>4, <2>1
    <3>2. CASE i # j
      <4>1. i < j
        BY <3>2, <2>1
      <4>2. Before(o[i], o[j])
        BY <4>1, <2>1, <1>3, OrderedIs DEF n
      <4> QED
        BY <4>2, <1>4, <2>1, BeforeOrders
    <3> QED
      BY <3>1, <3>2
  <2>3. q.age # Unlimited /\ o[j].at <= t - q.age
    OBVIOUS
  <2>4. o[i].at <= t - q.age
    <3>1. o[i].at \in Nat /\ o[j].at \in Nat /\ q.age \in Nat
      BY <1>1, <1>4, <2>1, <2>3
    <3> HIDE DEF o
    <3> QED
      BY <2>2, <2>3, <3>1
  <2> QED
    BY <2>1, <2>3, <2>4
<1>6. PICK a \in 0..k : D = 1..a
  <2>1. D \in SUBSET (1..k) /\ \A j \in D : \A i \in 1..j : i \in D
    BY <1>5
  <2> HIDE DEF D
  <2> QED
    BY <1>2, <2>1, InitialSegment
<1>7. ByAge(R, q, t) = {o[i] : i \in D}
  <2>1. CASE q.age = Unlimited
    BY <2>1 DEF ByAge
  <2>2. CASE q.age # Unlimited
    BY <1>2, <2>2 DEF ByAge, Oldest
  <2> QED
    BY <2>1, <2>2
<1>8. ByAge(R, q, t) = Oldest(R, a)
  BY <1>6, <1>7 DEF Oldest
<1>9. \A i \in 1..k : i <= a <=> i \in D
  <2> HIDE DEF D
  <2> QED
    BY <1>2, <1>6
<1> QED
  BY <1>8, <1>9 DEF k

\* The byte rule selects the fewest of the oldest that bring the total within the
\* limit, or all the eligible ones when that many do not.
LEMMA BytesIs ==
  ASSUME NEW R, Catalogue(R), NEW q, Valid(q)
  PROVE  \E b \in 0..EligibleCount(R, q) :
           /\ ByBytes(R, q) = Oldest(R, b)
           /\ b # 0 => /\ q.bytes # Unlimited
                       /\ \A i \in 0..(b - 1) : Bytes(ManagedIn(R) \ Oldest(R, i)) > q.bytes
           /\ q.bytes # Unlimited /\ b # EligibleCount(R, q)
                => Bytes(ManagedIn(R) \ Oldest(R, b)) <= q.bytes
<1> DEFINE M == ManagedIn(R)
           n == Cardinality(M)
           o == Ordered(R)
           k == EligibleCount(R, q)
           Left(i) == Bytes(M \ Oldest(R, i))
           D == {j \in 1..k : \A i \in 0..(j - 1) : Left(i) > q.bytes}
<1>1. q.keep \in Nat /\ (q.bytes # Unlimited => q.bytes \in Nat)
  BY DEF Valid
<1>2. /\ n \in Nat /\ k \in 0..n
      /\ EligibleRecords(R, q) = [i \in 1..k |-> o[i]]
  BY <1>1, EligibleIs, OrderedIs
<1>3. Running(R, q) = [i \in 0..k |-> Left(i)]
  BY <1>1, RunningIs
<1>4. \A i \in 0..k : Left(i) \in Nat
  BY ManagedParts, Parts, BytesCounted
<1> HIDE DEF k, n, Left
<1>5. k \in Nat
  BY <1>2
<1>6. CASE q.bytes = Unlimited
  <2>1. ByBytes(R, q) = Oldest(R, 0) /\ 0 \in 0..k
    BY <1>5, <1>6 DEF ByBytes, Oldest
  <2> QED
    BY <1>6, <2>1 DEF k
<1>7. CASE q.bytes # Unlimited
  <2>1. D \in SUBSET (1..k) /\ \A j \in D : \A i \in 1..j : i \in D
    <3> SUFFICES ASSUME NEW j \in D, NEW i \in 1..j PROVE i \in D
      OBVIOUS
    <3>1. i \in 1..k /\ \A m \in 0..(i - 1) : m \in 0..(j - 1)
      BY <1>5
    <3> QED
      BY <3>1
  <2>2. PICK b \in 0..k : D = 1..b
    <3> HIDE DEF D
    <3> QED
      BY <1>5, <2>1, InitialSegment
  <2>3. ByBytes(R, q) = {o[i] : i \in D}
    <3>1. ByBytes(R, q) = {o[i] : i \in {j \in 1..k : \A m \in 0..(j - 1) : Running(R, q)[m] > q.bytes}}
      BY <1>2, <1>7 DEF ByBytes
    <3>2. ASSUME NEW j \in 1..k, NEW m \in 0..(j - 1)
          PROVE  Running(R, q)[m] = Left(m)
      <4>1. m \in 0..k
        BY <1>5
      <4> QED
        BY <1>3, <4>1
    <3>3. {j \in 1..k : \A m \in 0..(j - 1) : Running(R, q)[m] > q.bytes} = D
      BY <3>2
    <3> QED
      BY <3>1, <3>3
  <2>4. ByBytes(R, q) = Oldest(R, b)
    BY <2>2, <2>3 DEF Oldest
  <2>5. ASSUME b # 0, NEW i \in 0..(b - 1)
        PROVE  Left(i) > q.bytes
    <3>1. b \in D
      <4> HIDE DEF D
      <4> QED
        BY <1>5, <2>2, <2>5
    <3> QED
      BY <3>1
  <2>6. ASSUME b # k
        PROVE  Left(b) <= q.bytes
    <3> SUFFICES ASSUME ~(Left(b) <= q.bytes) PROVE FALSE
      OBVIOUS
    <3>1. Left(b) > q.bytes
      BY <1>1, <1>4, <1>7
    <3>2. b + 1 \in 1..k /\ b + 1 \notin 1..b
      BY <1>5, <2>6
    <3>3. ASSUME NEW i \in 0..((b + 1) - 1) PROVE Left(i) > q.bytes
      <4>1. i = b \/ (i \in 0..(b - 1) /\ b # 0)
        <5>1. b \in Nat
          BY <1>5
        <5> QED
          BY <5>1
      <4> QED
        BY <2>5, <3>1, <4>1
    <3>4. b + 1 \in D
      BY <3>2, <3>3
    <3> QED
      BY <2>2, <3>2, <3>4
  <2> QED
    BY <1>7, <2>4, <2>5, <2>6 DEF k, Left
<1> QED
  BY <1>6, <1>7

\* The plan is the m oldest: everything expired is among them, what they leave is
\* within the limit unless they are all that is eligible, and one rule or the other
\* needs the last of them.
PlanStopsAt(R, q, t, m) ==
  /\ ByAge(R, q, t) \cup ByBytes(R, q) = Oldest(R, m)
  /\ Selected(R, q, t) = [i \in 1..m |-> Ordered(R)[i]]
  /\ \A i \in 1..EligibleCount(R, q) :
       q.age # Unlimited /\ Ordered(R)[i].at <= t - q.age => i <= m
  /\ \/ q.bytes = Unlimited \/ m = EligibleCount(R, q)
     \/ Bytes(ManagedIn(R) \ Oldest(R, m)) <= q.bytes
  /\ \/ m = 0
     \/ q.age # Unlimited /\ Ordered(R)[m].at <= t - q.age
     \/ q.bytes # Unlimited /\ Bytes(ManagedIn(R) \ Oldest(R, m - 1)) > q.bytes

\* Together the rules select such a segment of the eligible captures.
LEMMA PlanIs ==
  ASSUME NEW R, Catalogue(R), NEW q, Valid(q), NEW t \in Int
  PROVE  \E m \in 0..EligibleCount(R, q) : PlanStopsAt(R, q, t, m)
<1> DEFINE M == ManagedIn(R)
           n == Cardinality(M)
           o == Ordered(R)
           k == EligibleCount(R, q)
           Left(i) == Bytes(M \ Oldest(R, i))
           Due(i) == q.age # Unlimited /\ o[i].at <= t - q.age
<1>1. q.keep \in Nat /\ (q.bytes # Unlimited => q.bytes \in Nat)
  BY DEF Valid
<1>2. n \in Nat /\ k \in 0..n
  BY <1>1, EligibleIs, OrderedIs
<1>3. \A i \in 0..k : Left(i) \in Nat
  BY ManagedParts, Parts, BytesCounted
<1>4. PICK a \in 0..k : /\ ByAge(R, q, t) = Oldest(R, a)
                        /\ \A i \in 1..k : i <= a <=> Due(i)
  BY AgeIs
<1>5. PICK b \in 0..k : /\ ByBytes(R, q) = Oldest(R, b)
                        /\ b # 0 => /\ q.bytes # Unlimited
                                    /\ \A i \in 0..(b - 1) : Left(i) > q.bytes
                        /\ q.bytes # Unlimited /\ b # k => Left(b) <= q.bytes
  BY BytesIs
<1>6. PICK m \in 0..k : /\ m = a \/ m = b
                        /\ a <= m /\ b <= m
  <2>1. a \in Nat /\ b \in Nat
    BY <1>2, <1>4, <1>5
  <2>2. a <= b \/ b <= a
    BY <2>1
  <2> HIDE DEF k
  <2> QED
    BY <1>4, <1>5, <2>1, <2>2
<1>7. ByAge(R, q, t) \cup ByBytes(R, q) = Oldest(R, m)
  <2>1. 1..m = (1..a) \cup (1..b)
    BY <1>4, <1>5, <1>6
  <2>2. Oldest(R, m) = Oldest(R, a) \cup Oldest(R, b)
    BY <2>1 DEF Oldest
  <2> QED
    BY <1>4, <1>5, <2>2
<1>8. m \in 0..n
  <2> HIDE DEF k, n
  <2> QED
    BY <1>2, <1>6
<1>9. Selected(R, q, t) = [i \in 1..m |-> o[i]]
  BY <1>7, <1>8, SortedOldest DEF Selected
<1>10. ASSUME NEW i \in 1..k, Due(i) PROVE i <= m
  <2>1. i <= a
    BY <1>4, <1>10
  <2> HIDE DEF k, Due
  <2> QED
    BY <1>4, <1>6, <2>1
<1>11. ASSUME q.bytes # Unlimited, m # k PROVE Left(m) <= q.bytes
  <2>1. b # k /\ b \in 0..n
    <3> HIDE DEF k, n
    <3> QED
      BY <1>2, <1>5, <1>6, <1>11
  <2>2. Left(b) <= q.bytes
    BY <1>5, <1>11, <2>1
  <2>3. Oldest(R, b) \subseteq Oldest(R, m)
    <3>1. \A i \in 1..b : i \in 1..m
      BY <1>5, <1>6
    <3> QED
      BY <3>1 DEF Oldest
  <2>4. Catalogue(M \ Oldest(R, b))
    BY ManagedParts, Parts
  <2>5. M \ Oldest(R, m) \in SUBSET (M \ Oldest(R, b))
    BY <2>3
  <2>6. Left(m) <= Left(b)
    BY <2>4, <2>5, BytesCounted
  <2>7. Left(m) \in Nat /\ Left(b) \in Nat /\ q.bytes \in Nat
    BY <1>1, <1>3, <1>5, <1>6, <1>11
  <2> HIDE DEF Left
  <2> QED
    BY <2>2, <2>6, <2>7
<1>12. ASSUME m # 0
       PROVE  Due(m) \/ (q.bytes # Unlimited /\ Left(m - 1) > q.bytes)
  <2>1. CASE m = a
    <3>1. m \in 1..k /\ m <= a
      <4> HIDE DEF k
      <4> QED
        BY <1>6, <1>12, <2>1
    <3> QED
      BY <1>4, <3>1
  <2>2. CASE m = b
    <3>1. b # 0 /\ m - 1 \in 0..(b - 1)
      <4> HIDE DEF k
      <4> QED
        BY <1>5, <1>12, <2>2
    <3> QED
      BY <1>5, <3>1
  <2> QED
    BY <1>6, <2>1, <2>2
<1> HIDE DEF k, Left
<1>13. q.bytes = Unlimited \/ m = k \/ Left(m) <= q.bytes
  BY <1>11
<1>14. m = 0 \/ Due(m) \/ (q.bytes # Unlimited /\ Left(m - 1) > q.bytes)
  BY <1>12
<1> QED
  BY <1>6, <1>7, <1>9, <1>10, <1>13, <1>14 DEF PlanStopsAt, k, Left

\* The candidates are the oldest of the selection, as many as the cap allows.
LEMMA CandidatesAre ==
  ASSUME NEW R, Catalogue(R), NEW q, Valid(q), NEW t \in Int
  PROVE  LET s == Selected(R, q, t)
             c == Candidates(R, q, t)
             m == Len(s)
         IN /\ m \in Nat /\ s \in [1..m -> ManagedIn(R)] /\ s \in Seq(ManagedIn(R))
            /\ c = [i \in 1..Len(c) |-> s[i]]
            /\ Len(c) = IF m <= q.cap THEN m ELSE q.cap
            /\ Len(c) \in 0..m
            /\ c = SubSeq(s, 1, Len(c))
<1> DEFINE M == ManagedIn(R)
           n == Cardinality(M)
           o == Ordered(R)
           s == Selected(R, q, t)
           c == Candidates(R, q, t)
<1>1. PICK m \in 0..EligibleCount(R, q) : s = [i \in 1..m |-> o[i]]
  <2>1. PICK m \in 0..EligibleCount(R, q) : PlanStopsAt(R, q, t, m)
    BY PlanIs
  <2> QED
    BY <2>1 DEF PlanStopsAt
<1>2. /\ n \in Nat /\ o \in [1..n -> M] /\ m \in 0..n
      /\ q.cap \in Nat
  <2>1. n \in Nat /\ o \in [1..n -> M] /\ EligibleCount(R, q) \in 0..n /\ q.cap \in Nat
    BY EligibleIs, OrderedIs DEF Valid
  <2> HIDE DEF n, o
  <2> QED
    BY <1>1, <2>1
<1> HIDE DEF M, n, o, s
<1>3. s \in [1..m -> M] /\ m \in Nat
  <2>1. \A i \in 1..m : i \in 1..n
    BY <1>2
  <2> QED
    BY <1>1, <1>2, <2>1
<1>4. Len(s) = m /\ s \in Seq(M)
  BY <1>3
<1>5. Min({m, q.cap}) = IF m <= q.cap THEN m ELSE q.cap
  <2>1. m \in Int /\ q.cap \in Int
    BY <1>2, <1>3
  <2> QED
    BY <2>1, MaxMin, Zenon
<1> DEFINE l == IF m <= q.cap THEN m ELSE q.cap
<1>6. l \in 0..m
  BY <1>2, <1>3
<1>7. c = SubSeq(s, 1, l)
  BY <1>4, <1>5 DEF Candidates, s
<1> HIDE DEF l, c
<1>8. c = [i \in 1..l |-> s[i]] /\ Len(c) = l
  BY <1>3, <1>6, <1>7, Shortened
<1> QED
  BY <1>3, <1>4, <1>6, <1>7, <1>8 DEF M, l, s, c

(***************************************************************************)
(* The catalogue over time.                                                *)
(***************************************************************************)
\* What is present is always a finite catalogue.
Present == PolicyTypeOK /\ IsFiniteSet(records)

LEMMA PresentIs ==
  ASSUME Present
  PROVE  Catalogue(records) /\ Valid(policy) /\ now \in Int /\ now \in 0..LastDay
<1>1. records \subseteq Record /\ now \in 0..LastDay /\ policy \in Policies
  BY DEF Present, PolicyTypeOK
<1>2. LastDay \in Nat
  BY PolicyAssumption
<1>3. now \in Int
  BY <1>1, <1>2
<1> QED
  BY <1>1, <1>3, PolicyAssumption DEF Present, PolicyTypeOK, Catalogue

\* Candidates are managed captures that are present.
LEMMA CandidatesPresent ==
  ASSUME Present
  PROVE  ToSet(Candidates(records, policy, now)) \subseteq ManagedIn(records)
<1> DEFINE s == Selected(records, policy, now)
           c == Candidates(records, policy, now)
<1>1. Catalogue(records) /\ Valid(policy) /\ now \in Int
  BY PresentIs
<1>2. /\ Len(s) \in Nat /\ s \in [1..Len(s) -> ManagedIn(records)]
      /\ c = [i \in 1..Len(c) |-> s[i]] /\ Len(c) \in 0..Len(s)
  BY <1>1, CandidatesAre
<1> HIDE DEF s, c
<1>3. ASSUME NEW i \in DOMAIN c PROVE c[i] \in ManagedIn(records)
  <2>1. i \in 1..Len(c) /\ c[i] = s[i]
    BY <1>2
  <2>2. i \in 1..Len(s)
    BY <1>2, <2>1
  <2> QED
    BY <1>2, <2>1, <2>2
<1> QED
  BY <1>3 DEF ToSet, c

LEMMA PresentInit == PolicyInit => Present
<1> SUFFICES ASSUME PolicyInit PROVE Present
  OBVIOUS
<1>1. LastDay \in Nat
  BY PolicyAssumption
<1>2. now \in 0..LastDay
  BY <1>1 DEF PolicyInit
<1> QED
  BY <1>2, FS_EmptySet DEF PolicyInit, Present, PolicyTypeOK

LEMMA PresentNext == Present /\ [PolicyNext]_policyVars => Present'
<1> SUFFICES ASSUME Present, [PolicyNext]_policyVars PROVE Present'
  OBVIOUS
<1>1. /\ policy \in Policies /\ now \in 0..LastDay /\ records \subseteq Record
      /\ reclaimed \subseteq Ids /\ IsFiniteSet(records)
      /\ \A r, s \in records : r.id = s.id => r = s
  BY DEF Present, PolicyTypeOK
<1>2. ASSUME NEW id \in Ids, NEW size \in Sizes, NEW origin \in {"motion", "manual"},
             Arrive(id, size, origin)
      PROVE  Present'
  <2> DEFINE new == [id |-> id, at |-> now, size |-> size, origin |-> origin]
  <2>1. new \in Record /\ new.id = id
    BY <1>1 DEF Record
  <2> HIDE DEF new
  <2>2. records' = records \cup {new} /\ \A r \in records : r.id # id
    BY <1>2 DEF Arrive, new
  <2>3. IsFiniteSet(records') /\ records' \subseteq Record
    BY <1>1, <2>1, <2>2, FS_AddElement
  <2>4. \A r, s \in records' : r.id = s.id => r = s
    BY <1>1, <2>1, <2>2
  <2>5. policy' = policy /\ now' = now /\ reclaimed' = reclaimed
    BY <1>2 DEF Arrive
  <2> QED
    BY <1>1, <2>3, <2>4, <2>5 DEF Present, PolicyTypeOK
<1>3. CASE Tick
  <2>1. LastDay \in Nat
    BY PolicyAssumption
  <2>2. now' \in 0..LastDay
    BY <1>1, <1>3, <2>1 DEF Tick
  <2> QED
    BY <1>1, <1>3, <2>2 DEF Tick, Present, PolicyTypeOK
<1>4. CASE Run
  <2> DEFINE doomed == ToSet(Candidates(records, policy, now))
  <2>1. doomed \subseteq records
    BY CandidatesPresent DEF ManagedIn
  <2>2. /\ records' = records \ doomed /\ reclaimed' = reclaimed \cup {r.id : r \in doomed}
        /\ policy' = policy /\ now' = now
    BY <1>4 DEF Run
  <2> HIDE DEF doomed
  <2>3. IsFiniteSet(records') /\ records' \subseteq records
    <3>1. records' \in SUBSET records
      BY <2>2
    <3> QED
      BY <1>1, <3>1, FS_Subset
  <2>4. ASSUME NEW r \in doomed PROVE r.id \in Ids
    BY <1>1, <2>1 DEF Record
  <2>5. reclaimed' \subseteq Ids
    BY <1>1, <2>2, <2>4
  <2> QED
    BY <1>1, <2>2, <2>3, <2>5 DEF Present, PolicyTypeOK
<1>5. CASE UNCHANGED policyVars
  BY <1>1, <1>5 DEF policyVars, Present, PolicyTypeOK
<1> QED
  BY <1>2, <1>3, <1>4, <1>5 DEF PolicyNext

LEMMA AlwaysPresent == PolicySpec => []Present
<1> QED
  BY PresentInit, PresentNext, PTL DEF PolicySpec

\* What is eligible is what the floor does not hold.
LEMMA EligibleIsOffFloor ==
  ASSUME Present
  PROVE  /\ ToSet(EligibleRecords(records, policy)) = ManagedRecords \ Floor
         /\ Oldest(records, EligibleCount(records, policy)) = ManagedRecords \ Floor
<1> DEFINE M == ManagedIn(records)
           After(r) == {s \in M : Before(r, s)}
<1>1. Catalogue(records) /\ Valid(policy)
  BY PresentIs
<1>2. policy.keep \in Nat
  BY <1>1 DEF Valid
<1>3. ToSet(EligibleRecords(records, policy)) = {r \in M : ~(Cardinality(After(r)) < policy.keep)}
  BY <1>1, <1>2, EligibleIsBelowFloor
<1>4. ToSet(EligibleRecords(records, policy)) = Oldest(records, EligibleCount(records, policy))
  BY <1>1, <1>2, EligibleIs
<1>5. Floor = {r \in M : Cardinality(After(r)) < policy.keep} /\ ManagedRecords = M
  BY DEF Floor, ManagedRecords
<1> HIDE DEF M, After
<1> QED
  BY <1>3, <1>4, <1>5

\* The plan is the least remedy, for every catalogue, policy and day.
LEMMA PlanHolds ==
  ASSUME Present
  PROVE  PlanIsLeastRemedy
<1> DEFINE M == ManagedRecords
           n == Cardinality(M)
           o == Ordered(records)
           k == EligibleCount(records, policy)
           s == Selected(records, policy, now)
           c == Candidates(records, policy, now)
           Left(i) == Bytes(M \ Oldest(records, i))
           Due(i) == policy.age # Unlimited /\ o[i].at <= now - policy.age
<1>1. /\ Catalogue(records) /\ Valid(policy) /\ now \in Int
      /\ policy.keep \in Nat /\ policy.cap \in Nat \ {0}
      /\ policy.age # Unlimited => policy.age \in Nat
      /\ policy.bytes # Unlimited => policy.bytes \in Nat
      /\ M = ManagedIn(records)
  BY PresentIs DEF Valid, ManagedRecords
<1>2. /\ n \in Nat /\ k \in 0..n /\ o \in [1..n -> M] /\ M \subseteq Record
      /\ \A i, j \in 1..n : Before(o[i], o[j]) <=> i < j
      /\ \A r \in M : \E i \in 1..n : o[i] = r
  BY <1>1, EligibleIs, OrderedIs, ManagedParts DEF Catalogue
<1>3. PICK m \in 0..k : PlanStopsAt(records, policy, now, m)
  BY <1>1, PlanIs
<1>4. /\ s = [i \in 1..m |-> o[i]]
      /\ \A i \in 1..k : Due(i) => i <= m
      /\ policy.bytes = Unlimited \/ m = k \/ Left(m) <= policy.bytes
      /\ m = 0 \/ Due(m) \/ (policy.bytes # Unlimited /\ Left(m - 1) > policy.bytes)
  BY <1>1, <1>3 DEF PlanStopsAt
<1>5. M \ Floor = Oldest(records, k)
  BY EligibleIsOffFloor
<1>6. ASSUME NEW i \in 0..n, NEW j \in 1..n
      PROVE  o[j] \in Oldest(records, i) <=> j <= i
  BY <1>1, OldestIs
<1>7. ASSUME NEW i \in 0..n PROVE Left(i) \in Nat /\ Oldest(records, i) \in SUBSET M
  BY <1>1, ManagedParts, Parts, BytesCounted, OldestIs
<1>8. ASSUME NEW i \in 1..n PROVE Expired(o[i]) <=> Due(i)
  <2>1. o[i].at \in Nat
    <3>1. o[i] \in Record
      BY <1>2
    <3> QED
      BY <3>1, RecordNumbers
  <2>2. policy.age # Unlimited => (o[i].at + policy.age <= now <=> o[i].at <= now - policy.age)
    <3> HIDE DEF o
    <3> QED
      BY <1>1, <2>1
  <2> QED
    BY <2>2 DEF Expired
<1>9. m \in 0..n /\ m \in Nat /\ n \in Nat /\ k \in Nat /\ m <= k /\ k <= n /\ k \in 0..n
  <2> HIDE DEF n, k
  <2> QED
    BY <1>2, <1>3
<1> HIDE DEF M, n, o, k, s, c, Left, Due
<1>10. ToSet(s) = Oldest(records, m)
  BY <1>4 DEF ToSet, Oldest, o
<1>11. ToSet(s) \subseteq M \ Floor
  <2>1. ASSUME NEW r \in ToSet(s) PROVE r \in Oldest(records, k)
    <3>1. PICK i \in 1..m : r = o[i]
      BY <1>10, <2>1 DEF Oldest, o
    <3>2. i \in 1..n /\ i <= k
      BY <1>9
    <3> QED
      BY <1>6, <1>9, <3>1, <3>2
  <2> QED
    BY <1>5, <2>1
<1>12. ASSUME NEW r \in ToSet(s), NEW p \in M, Before(p, r) PROVE p \in ToSet(s)
  <2>1. PICK i \in 1..m : r = o[i]
    BY <1>10 DEF Oldest, o
  <2>2. PICK j \in 1..n : p = o[j]
    BY <1>2
  <2>3. i \in 1..n
    BY <1>9
  <2>4. j < i
    BY <1>2, <1>12, <2>1, <2>2, <2>3
  <2>5. j <= m
    BY <1>9, <2>4
  <2> QED
    BY <1>6, <1>9, <1>10, <2>2, <2>5
<1>13. Remedy(ToSet(s))
  <2>1. ASSUME NEW r \in M \ Floor, Expired(r) PROVE r \in ToSet(s)
    <3>1. PICK i \in 1..n : r = o[i]
      BY <1>2
    <3>2. i <= k
      BY <1>5, <1>6, <1>9, <3>1
    <3>3. i \in 1..k /\ Due(i)
      BY <1>8, <1>9, <2>1, <3>1, <3>2
    <3>4. i <= m
      BY <1>4, <3>3
    <3> QED
      BY <1>6, <1>9, <1>10, <3>1, <3>4
  <2>2. WithinLimit(M \ ToSet(s)) \/ ToSet(s) = M \ Floor
    BY <1>4, <1>5, <1>10 DEF WithinLimit, Left
  <2> QED
    BY <2>1, <2>2 DEF Remedy, M
<1>14. s \in [1..m -> M] /\ s \in Seq(M) /\ Len(s) = m
  <2>1. \A i \in 1..m : i \in 1..n
    BY <1>9
  <2>2. s \in [1..m -> M]
    BY <1>2, <1>4, <2>1
  <2> QED
    BY <1>9, <2>2
<1>15. ASSUME s # <<>> PROVE ~Remedy(ToSet(Front(s)))
  <2>1. m # 0
    BY <1>14, <1>15
  <2>2. m - 1 \in 0..m /\ m - 1 \in 0..n /\ m \in 1..n /\ m \in 1..k /\ m - 1 \in Nat
    BY <1>9, <2>1
  <2>3. Front(s) = [i \in 1..(m - 1) |-> s[i]]
    BY <1>9, <1>14, <2>2, Shortened DEF Front
  <2>4. ToSet(Front(s)) = Oldest(records, m - 1)
    <3>1. \A i \in 1..(m - 1) : i \in 1..m
      BY <1>9
    <3>2. ToSet(Front(s)) = {s[i] : i \in 1..(m - 1)}
      BY <2>3 DEF ToSet
    <3>3. \A i \in 1..(m - 1) : s[i] = o[i]
      BY <1>4, <3>1
    <3> QED
      BY <3>2, <3>3 DEF Oldest, o
  <2>5. o[m] \in M /\ o[m] \in M \ Floor /\ o[m] \notin Oldest(records, m - 1)
    <3>1. o[m] \in Oldest(records, k) /\ o[m] \notin Oldest(records, m - 1)
      BY <1>6, <1>9, <2>2
    <3> QED
      BY <1>5, <3>1
  <2>6. CASE Due(m)
    BY <1>8, <2>2, <2>4, <2>5, <2>6 DEF Remedy, M
  <2>7. CASE policy.bytes # Unlimited /\ Left(m - 1) > policy.bytes
    <3>1. ~(Left(m - 1) <= policy.bytes)
      BY <1>1, <1>7, <2>2, <2>7
    <3>2. ~WithinLimit(M \ ToSet(Front(s)))
      BY <2>4, <2>7, <3>1 DEF WithinLimit, Left
    <3> QED
      BY <2>4, <2>5, <3>2 DEF Remedy, M
  <2> QED
    BY <1>4, <2>1, <2>6, <2>7
<1>16. /\ c = [i \in 1..Len(c) |-> s[i]]
       /\ Len(c) = IF m <= policy.cap THEN m ELSE policy.cap
       /\ Len(c) \in 0..m /\ c = SubSeq(s, 1, Len(c))
  BY <1>1, <1>14, CandidatesAre DEF s, c
<1>17. IsPrefix(c, s)
  <2>1. Len(c) \in Nat /\ Len(c) <= Len(s)
    BY <1>9, <1>14, <1>16
  <2>2. c \in [1..Len(c) -> M]
    <3>1. \A i \in 1..Len(c) : i \in 1..m
      BY <1>9, <1>16
    <3> QED
      BY <1>14, <1>16, <3>1
  <2>3. Len(c) \in 0..Len(c)
    BY <2>1
  <2>4. SubSeq(c, 1, Len(c)) = [i \in 1..Len(c) |-> c[i]]
    BY <2>1, <2>2, <2>3, Shortened
  <2>5. SubSeq(c, 1, Len(c)) = c
    BY <2>2, <2>4
  <2> QED
    BY <1>16, <2>1, <2>5 DEF IsPrefix
<1>18. Len(c) = policy.cap \/ c = s
  <2>1. CASE m <= policy.cap
    <3>1. c = [i \in 1..m |-> s[i]]
      BY <1>16, <2>1
    <3> QED
      BY <1>14, <3>1
  <2> QED
    BY <1>16, <2>1
<1> QED
  BY <1>11, <1>12, <1>13, <1>15, <1>17, <1>18 DEF PlanIsLeastRemedy, M, s, c

\* The catalogue keeps its types, and the plan computed from it at any moment is
\* the least remedy: the oldest captures, as few as the bounds require, none that
\* the floor protects.
THEOREM PlanIsMinimal == PolicySpec => []PolicyInv
<1>1. Present => PolicyInv
  BY PlanHolds DEF PolicyInv, Present
<1> QED
  BY <1>1, AlwaysPresent, PTL

\* Sorting loses nothing and adds nothing.
LEMMA SortedSet ==
  ASSUME NEW R, Catalogue(R), NEW S \in SUBSET R
  PROVE  ToSet(Sorted(S)) = S
<1>1. /\ Sorted(S) \in [1..Cardinality(S) -> S]
      /\ \A r \in S : \E i \in 1..Cardinality(S) : Sorted(S)[i] = r
  BY Parts, SortedIs
<1> QED
  BY <1>1 DEF ToSet

\* What a rule selects is eligible.
LEMMA RulesSelectEligible ==
  ASSUME NEW R, Catalogue(R), NEW q, Valid(q), NEW t \in Int
  PROVE  ByAge(R, q, t) \subseteq R /\ ByBytes(R, q) \subseteq R
<1>1. EligibleCount(R, q) \in 0..Cardinality(ManagedIn(R))
  BY EligibleIs DEF Valid
<1>2. \A i \in 0..EligibleCount(R, q) : Oldest(R, i) \subseteq R
  <2>1. ASSUME NEW i \in 0..EligibleCount(R, q) PROVE Oldest(R, i) \subseteq R
    <3>1. i \in 0..Cardinality(ManagedIn(R))
      <4>1. Cardinality(ManagedIn(R)) \in Nat
        BY OrderedIs
      <4> QED
        BY <1>1, <4>1
    <3>2. Oldest(R, i) \in SUBSET ManagedIn(R)
      BY <3>1, OldestIs
    <3> QED
      BY <3>2 DEF ManagedIn
  <2> QED
    BY <2>1
<1>3. \E a \in 0..EligibleCount(R, q) : ByAge(R, q, t) = Oldest(R, a)
  BY AgeIs
<1>4. \E b \in 0..EligibleCount(R, q) : ByBytes(R, q) = Oldest(R, b)
  BY BytesIs
<1> QED
  BY <1>2, <1>3, <1>4

\* The reason recorded with each deletion says what either bound alone would
\* have done: age_and_managed_bytes that both would have deleted the capture,
\* age or managed_bytes that only that one would.
THEOREM ReasonsTellWhy == PolicySpec => []ReasonIsCounterfactual
<1>1. Present => ReasonIsCounterfactual
  <2> SUFFICES ASSUME Present, NEW r \in ToSet(Candidates(records, policy, now))
               PROVE  LET reason == Reason(r, records, policy, now)
                          ageOnly == [policy EXCEPT !.bytes = Unlimited]
                          bytesOnly == [policy EXCEPT !.age = Unlimited]
                      IN /\ reason \in {"age", "age_and_managed_bytes"} <=>
                              r \in ToSet(Selected(records, ageOnly, now))
                         /\ reason \in {"managed_bytes", "age_and_managed_bytes"} <=>
                              r \in ToSet(Selected(records, bytesOnly, now))
    BY DEF ReasonIsCounterfactual
  <2> DEFINE ageOnly == [policy EXCEPT !.bytes = Unlimited]
             bytesOnly == [policy EXCEPT !.age = Unlimited]
             A == ByAge(records, policy, now)
             B == ByBytes(records, policy)
             s == Selected(records, policy, now)
             c == Candidates(records, policy, now)
  <2>1. Catalogue(records) /\ Valid(policy) /\ now \in Int
    BY PresentIs
  <2>2. A \in SUBSET records /\ B \in SUBSET records
    BY <2>1, RulesSelectEligible
  <2>3. /\ ageOnly.keep = policy.keep /\ ageOnly.age = policy.age /\ ageOnly.bytes = Unlimited
        /\ bytesOnly.keep = policy.keep /\ bytesOnly.bytes = policy.bytes /\ bytesOnly.age = Unlimited
    BY <2>1 DEF Valid
  <2> HIDE DEF ageOnly, bytesOnly
  <2>4. /\ EligibleRecords(records, ageOnly) = EligibleRecords(records, policy)
        /\ EligibleRecords(records, bytesOnly) = EligibleRecords(records, policy)
    BY <2>3 DEF EligibleRecords
  <2>5. ByAge(records, ageOnly, now) = A /\ ByAge(records, bytesOnly, now) = {}
    BY <2>3, <2>4 DEF ByAge
  <2>6. ByBytes(records, ageOnly) = {} /\ ByBytes(records, bytesOnly) = B
    <3>1. ByBytes(records, ageOnly) = {}
      BY <2>3 DEF ByBytes
    <3>2. Running(records, bytesOnly) = Running(records, policy)
      BY <2>4 DEF Running
    <3>3. ByBytes(records, bytesOnly) = B
      BY <2>3, <2>4, <3>2 DEF ByBytes
    <3> QED
      BY <3>1, <3>3
  <2> HIDE DEF A, B, s, c
  <2>7. /\ ToSet(Selected(records, ageOnly, now)) = A
        /\ ToSet(Selected(records, bytesOnly, now)) = B
    <3>1. /\ Selected(records, ageOnly, now) = Sorted(A)
          /\ Selected(records, bytesOnly, now) = Sorted(B)
      <4>1. A \cup {} = A /\ {} \cup B = B
        OBVIOUS
      <4> QED
        BY <2>5, <2>6, <4>1 DEF Selected
    <3> QED
      BY <2>1, <2>2, <3>1, SortedSet
  <2>8. r \in A \cup B
    <3>1. /\ Len(s) \in Nat /\ s \in [1..Len(s) -> ManagedIn(records)]
          /\ c = [i \in 1..Len(c) |-> s[i]] /\ Len(c) \in 0..Len(s)
      BY <2>1, CandidatesAre DEF s, c
    <3>2. PICK i \in 1..Len(c) : r = s[i]
      <4>1. PICK i \in DOMAIN c : r = c[i]
        BY DEF ToSet, c
      <4> QED
        BY <3>1, <4>1
    <3>3. i \in 1..Len(s)
      BY <3>1
    <3>4. r \in ToSet(s)
      BY <3>1, <3>2, <3>3 DEF ToSet
    <3>5. s = Sorted(A \cup B) /\ A \cup B \in SUBSET records
      BY <2>2 DEF s, Selected, A, B
    <3> QED
      BY <2>1, <3>4, <3>5, SortedSet
  <2>9. Reason(r, records, policy, now) =
          IF r \in A THEN IF r \in B THEN "age_and_managed_bytes" ELSE "age"
          ELSE "managed_bytes"
    BY DEF Reason, A, B
  <2> QED
    BY <2>7, <2>8, <2>9 DEF ageOnly, bytesOnly
<1> QED
  BY <1>1, AlwaysPresent, PTL

\* Deleting a plan that the cap did not cut short leaves an empty plan, and leaves
\* the total within the limit exactly when the plan was satisfiable.
LEMMA PlanSettles ==
  ASSUME NEW R, Catalogue(R), NEW q, Valid(q), NEW t \in Int,
         ~MoreWorkRemains(R, q, t)
  PROVE  LET rest == R \ ToSet(Candidates(R, q, t))
         IN /\ Candidates(rest, q, t) = <<>>
            /\ (q.bytes = Unlimited \/ Bytes(ManagedIn(rest)) <= q.bytes)
                 <=> ByteTargetSatisfiable(R, q)
<1> DEFINE M == ManagedIn(R)
           n == Cardinality(M)
           o == Ordered(R)
           k == EligibleCount(R, q)
           s == Selected(R, q, t)
           D == ToSet(Candidates(R, q, t))
           rest == R \ D
           Mr == ManagedIn(rest)
           nr == Cardinality(Mr)
           kr == EligibleCount(rest, q)
           or == Ordered(rest)
           E == ToSet(EligibleRecords(R, q))
           Er == ToSet(EligibleRecords(rest, q))
<1>1. q.keep \in Nat /\ q.cap \in Nat /\ (q.bytes # Unlimited => q.bytes \in Nat)
  BY DEF Valid
<1>2. PICK m \in 0..k : PlanStopsAt(R, q, t, m)
  BY PlanIs
<1>3. /\ n \in Nat /\ k \in 0..n /\ o \in [1..n -> M] /\ E = Oldest(R, k)
      /\ \A i, j \in 1..n : Before(o[i], o[j]) <=> i < j
      /\ \A r \in M : \E i \in 1..n : o[i] = r
  BY <1>1, EligibleIs, OrderedIs
<1> HIDE DEF n, k
<1>4. m \in 0..n /\ m \in Nat /\ n \in Nat /\ k \in Nat /\ m <= k /\ k <= n /\ k \in 0..n
  BY <1>2, <1>3
<1>5. /\ \A i \in 0..n, j \in 1..n : o[j] \in Oldest(R, i) <=> j <= i
      /\ Oldest(R, m) \in SUBSET M
  BY <1>4, OldestIs DEF n
<1>6. D = Oldest(R, m)
  <2>1. s = [i \in 1..m |-> o[i]]
    BY <1>2 DEF PlanStopsAt
  <2>2. /\ Len(s) \in Nat /\ s \in [1..Len(s) -> M]
        /\ Candidates(R, q, t) = [i \in 1..Len(Candidates(R, q, t)) |-> s[i]]
        /\ Len(Candidates(R, q, t)) = IF Len(s) <= q.cap THEN Len(s) ELSE q.cap
    BY CandidatesAre
  <2>3. Len(s) <= q.cap
    <3>1. ~(Len(s) > q.cap)
      BY DEF MoreWorkRemains
    <3> HIDE DEF s
    <3> QED
      BY <1>1, <2>2, <3>1
  <2> HIDE DEF s, o
  <2>4. Candidates(R, q, t) = [i \in 1..Len(s) |-> s[i]]
    BY <2>2, <2>3
  <2>5. Candidates(R, q, t) = s
    BY <2>2, <2>4
  <2> QED
    BY <2>1, <2>5 DEF ToSet, Oldest, o
<1>7. Catalogue(rest) /\ Mr = M \ Oldest(R, m) /\ Mr \in SUBSET M
  <2>1. Catalogue(rest)
    <3>1. rest \in SUBSET R
      OBVIOUS
    <3> QED
      BY <3>1, Parts
  <2>2. Mr = M \ D
    BY DEF ManagedIn
  <2> HIDE DEF Mr, rest, D
  <2> QED
    BY <1>6, <2>1, <2>2
<1> HIDE DEF D, rest
<1>8. Er = E \ Oldest(R, m)
  <2> DEFINE After(r) == {p \in M : Before(r, p)}
             AfterLeft(r) == {p \in Mr : Before(r, p)}
  <2>1. E = {r \in M : ~(Cardinality(After(r)) < q.keep)}
    BY <1>1, EligibleIsBelowFloor
  <2>2. Er = {r \in Mr : ~(Cardinality(AfterLeft(r)) < q.keep)}
    BY <1>1, <1>7, EligibleIsBelowFloor
  <2>3. ASSUME NEW r \in Mr PROVE AfterLeft(r) = After(r)
    <3> SUFFICES ASSUME NEW p \in M, Before(r, p) PROVE p \in Mr
      BY <1>7
    <3>1. PICK i \in 1..n : o[i] = r
      BY <1>3, <1>7
    <3>2. PICK j \in 1..n : o[j] = p
      BY <1>3
    <3>3. ~(i <= m) /\ i < j
      BY <1>3, <1>4, <1>5, <1>7, <3>1, <3>2
    <3>4. ~(j <= m)
      BY <1>4, <3>3
    <3> QED
      BY <1>4, <1>5, <1>7, <3>2, <3>4
  <2> HIDE DEF After, AfterLeft, E, Er, Mr, M
  <2> QED
    BY <1>7, <2>1, <2>2, <2>3
<1>9. /\ Catalogue(M) /\ Catalogue(Mr)
      /\ Bytes(Mr) \in Nat
      /\ \A T \in SUBSET Mr : Bytes(T) \in Nat /\ Bytes(T) <= Bytes(Mr)
  <2>1. Catalogue(M) /\ Catalogue(Mr)
    BY <1>7, ManagedParts
  <2>2. \A T \in SUBSET Mr : Catalogue(T)
    BY <2>1, Parts
  <2> HIDE DEF Mr, M
  <2> QED
    BY <2>1, <2>2, BytesCounted
<1>10. q.bytes = Unlimited \/ m = k \/ Bytes(Mr) <= q.bytes
  BY <1>2, <1>7 DEF PlanStopsAt, k
<1>11. PICK mr \in 0..kr : PlanStopsAt(rest, q, t, mr)
  BY <1>7, PlanIs
<1>12. /\ nr \in Nat /\ kr \in 0..nr /\ or \in [1..nr -> Mr] /\ Er = Oldest(rest, kr)
  BY <1>1, <1>7, EligibleIs, OrderedIs
<1>13. mr = 0
  <2> SUFFICES ASSUME mr # 0 PROVE FALSE
    OBVIOUS
  <2>1. mr \in 1..kr /\ mr \in 1..nr /\ kr \in 0..nr
    <3> HIDE DEF kr, nr
    <3> QED
      BY <1>11, <1>12
  <2>2. or[mr] \in Er
    <3>1. or[mr] \in Oldest(rest, kr)
      BY <2>1 DEF Oldest
    <3> QED
      BY <1>12, <3>1
  <2>3. or[mr] \in E /\ or[mr] \notin Oldest(R, m) /\ or[mr] \in M
    <3>1. Oldest(R, k) \in SUBSET M
      BY <1>4, OldestIs DEF n
    <3> HIDE DEF or, E, Er, M
    <3> QED
      BY <1>3, <1>8, <2>2, <3>1
  <2>4. PICK i \in 1..n : o[i] = or[mr]
    BY <1>3, <2>3
  <2>5. i <= k /\ ~(i <= m)
    BY <1>3, <1>4, <1>5, <2>3, <2>4
  <2>6. i \in 1..k /\ m # k
    BY <1>4, <2>5
  <2>7. ~(q.age # Unlimited /\ or[mr].at <= t - q.age)
    <3>1. q.age # Unlimited /\ o[i].at <= t - q.age => i <= m
      BY <1>2, <2>6 DEF PlanStopsAt, k
    <3> QED
      BY <2>4, <2>5, <3>1
  <2>8. q.bytes # Unlimited /\ Bytes(Mr \ Oldest(rest, mr - 1)) > q.bytes
    <3>1. \/ mr = 0
          \/ q.age # Unlimited /\ or[mr].at <= t - q.age
          \/ q.bytes # Unlimited /\ Bytes(Mr \ Oldest(rest, mr - 1)) > q.bytes
      BY <1>11 DEF PlanStopsAt
    <3> HIDE DEF Mr, or
    <3> QED
      BY <2>7, <3>1
  <2>9. Bytes(Mr) <= q.bytes
    BY <1>10, <2>6, <2>8
  <2>10. /\ Bytes(Mr \ Oldest(rest, mr - 1)) <= Bytes(Mr)
         /\ Bytes(Mr \ Oldest(rest, mr - 1)) \in Nat
    <3> HIDE DEF Mr
    <3> QED
      BY <1>9
  <2> HIDE DEF Mr
  <2> QED
    BY <1>1, <1>9, <2>8, <2>9, <2>10
<1>14. Candidates(rest, q, t) = <<>>
  <2> DEFINE sr == Selected(rest, q, t)
             cr == Candidates(rest, q, t)
  <2>1. sr = [i \in 1..0 |-> or[i]]
    BY <1>11, <1>13 DEF PlanStopsAt
  <2>2. /\ Len(sr) \in Nat /\ sr \in [1..Len(sr) -> Mr]
        /\ cr = [i \in 1..Len(cr) |-> sr[i]] /\ Len(cr) \in 0..Len(sr)
    BY <1>7, CandidatesAre
  <2>3. 1..Len(sr) = {}
    <3>1. DOMAIN sr = {}
      BY <2>1
    <3> HIDE DEF sr
    <3> QED
      BY <2>2, <3>1
  <2> HIDE DEF sr, cr, Mr
  <2>4. Len(sr) = 0
    BY <2>2, <2>3
  <2>5. Len(cr) = 0 /\ cr = [i \in 1..0 |-> sr[i]]
    BY <2>2, <2>4
  <2>6. cr = <<>>
    BY <2>5
  <2> QED
    BY <2>6 DEF cr
<1>15. (q.bytes = Unlimited \/ Bytes(Mr) <= q.bytes) <=> ByteTargetSatisfiable(R, q)
  <2>1. ByteTargetSatisfiable(R, q) <=> (q.bytes = Unlimited \/ Bytes(M \ E) <= q.bytes)
    BY DEF ByteTargetSatisfiable
  <2>2. M \ E \in SUBSET Mr
    <3>1. \A i \in 1..m : i \in 1..k
      BY <1>4
    <3>2. Oldest(R, m) \subseteq Oldest(R, k)
      BY <3>1 DEF Oldest
    <3> HIDE DEF Mr, M, E
    <3> QED
      BY <1>3, <1>7, <3>2
  <2>3. m = k => M \ E = Mr
    <3> HIDE DEF Mr, M, E
    <3> QED
      BY <1>3, <1>7
  <2> HIDE DEF Mr, M, E
  <2>4. Bytes(M \ E) \in Nat /\ Bytes(M \ E) <= Bytes(Mr) /\ Bytes(Mr) \in Nat
    BY <1>9, <2>2
  <2> QED
    BY <1>1, <1>10, <2>1, <2>3, <2>4
<1> QED
  BY <1>14, <1>15 DEF D, rest

\* A run that deletes everything it planned leaves nothing to do at that instant,
\* and meets the byte bound exactly when its plan said it could be met.
THEOREM RunSettles == PolicySpec => CompleteRunSettles
<1>1. ASSUME Present, [PolicyNext]_policyVars,
             reclaimed' # reclaimed, ~MoreWorkRemains(records, policy, now)
      PROVE  /\ (Candidates(records, policy, now) = <<>>)'
             /\ WithinLimit(ManagedRecords)' <=> ByteTargetSatisfiable(records, policy)
  <2>1. Run
    <3>1. reclaimed' # reclaimed
      BY <1>1
    <3>2. ASSUME NEW id \in Ids, NEW size \in Sizes, NEW origin \in {"motion", "manual"},
                 Arrive(id, size, origin)
          PROVE  FALSE
      BY <3>1, <3>2 DEF Arrive
    <3>3. ~Tick /\ ~UNCHANGED policyVars
      BY <3>1 DEF Tick, policyVars
    <3> QED
      BY <1>1, <3>2, <3>3 DEF PolicyNext
  <2>2. /\ records' = records \ ToSet(Candidates(records, policy, now))
        /\ policy' = policy /\ now' = now
    BY <2>1 DEF Run
  <2>3. Catalogue(records) /\ Valid(policy) /\ now \in Int
    BY <1>1, PresentIs
  <2>4. /\ Candidates(records', policy, now) = <<>>
        /\ (policy.bytes = Unlimited \/ Bytes(ManagedIn(records')) <= policy.bytes)
             <=> ByteTargetSatisfiable(records, policy)
    BY <1>1, <2>2, <2>3, PlanSettles
  <2>5. (Candidates(records, policy, now) = <<>>)' <=> Candidates(records', policy', now') = <<>>
    OBVIOUS
  <2>6. WithinLimit(ManagedRecords)' <=>
          (policy'.bytes = Unlimited \/ Bytes(ManagedIn(records')) <= policy'.bytes)
    BY DEF WithinLimit, ManagedRecords
  <2> QED
    BY <2>2, <2>4, <2>5, <2>6
<1>2. Present /\ [PolicyNext]_policyVars =>
        [reclaimed' # reclaimed /\ ~MoreWorkRemains(records, policy, now) =>
           /\ (Candidates(records, policy, now) = <<>>)'
           /\ WithinLimit(ManagedRecords)' <=> ByteTargetSatisfiable(records, policy)
        ]_policyVars
  BY <1>1
<1> QED
  BY <1>2, AlwaysPresent, PTL DEF PolicySpec, CompleteRunSettles
=============================================================================
