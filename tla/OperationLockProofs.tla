------------------------ MODULE OperationLockProofs ------------------------
(***************************************************************************)
(* Machine-checked proofs about OperationLock, for any set of contenders.  *)
(***************************************************************************)
EXTENDS OperationLock, TLAPS

\* The lock file is always absent or well formed, and every contender is at
\* one of the steps of acquire, its job or release.
THEOREM LockTyped == Spec => []TypeOK
<1>1. Init => TypeOK
  BY DEF Init, TypeOK, PC
<1>2. TypeOK /\ [Next]_vars => TypeOK'
  <2> SUFFICES ASSUME TypeOK, [Next]_vars
               PROVE  TypeOK'
    OBVIOUS
  <2> USE ContendersAssumption DEF TypeOK, LockFile, PC, Goto, Disowned, OwnedBy
  <2>1. ASSUME NEW p \in Contenders, Attempt(p)
        PROVE  TypeOK'
    <3>1. CASE Begin(p)
      BY <3>1 DEF Begin
    <3>2. CASE CreateSucceeds(p)
      BY <3>2 DEF CreateSucceeds
    <3>3. CASE CreateFindsFile(p)
      BY <3>3 DEF CreateFindsFile
    <3>4. CASE CreateFails(p)
      BY <3>4 DEF CreateFails
    <3>5. CASE InspectRefuses(p)
      BY <3>5 DEF InspectRefuses
    <3>6. CASE InspectJudgesStale(p)
      BY <3>6 DEF InspectJudgesStale
    <3>7. CASE Reclaim(p)
      BY <3>7 DEF Reclaim
    <3>8. CASE WriteSucceeds(p)
      BY <3>8 DEF WriteSucceeds
    <3>9. CASE WriteFails(p)
      BY <3>9 DEF WriteFails
    <3> QED
      BY <2>1, <3>1, <3>2, <3>3, <3>4, <3>5, <3>6, <3>7, <3>8, <3>9 DEF Attempt
  <2>2. ASSUME NEW p \in Contenders, Finish(p)
        PROVE  TypeOK'
    BY <2>2 DEF Finish, ReleaseReadsToken, ReleaseUnlinks
  <2>3. ASSUME NEW p \in Contenders, Crash(p)
        PROVE  TypeOK'
    BY <2>3 DEF Crash
  <2>4. CASE Age
    BY <2>4 DEF Age
  <2>5. CASE UNCHANGED vars
    BY <2>5 DEF vars
  <2> QED
    BY <2>1, <2>2, <2>3, <2>4, <2>5 DEF Next
<1> QED
  BY <1>1, <1>2, PTL DEF Spec

\* While reclamations do not overlap, LockInv is inductive: a contender past
\* its O_EXCL creation stays the owner of the file at the path, because only
\* an abandoned, old file is ever removed by anybody else.
THEOREM LockInvariant == SoloReclaim = TRUE => (Spec => []LockInv)
<1> SUFFICES ASSUME SoloReclaim = TRUE
             PROVE  Spec => []LockInv
  OBVIOUS
<1>1. Init => LockInv
  BY ContendersAssumption DEF Init, LockInv, OwnedBy
<1>2. TypeOK /\ LockInv /\ [Next]_vars => LockInv'
  <2> SUFFICES ASSUME TypeOK, LockInv, [Next]_vars
               PROVE  LockInv'
    OBVIOUS
  <2> USE ContendersAssumption
      DEF TypeOK, LockFile, LockInv, PC, Goto, Disowned, OwnedBy
  <2>1. ASSUME NEW p \in Contenders, Attempt(p)
        PROVE  LockInv'
    <3>1. CASE Begin(p)            BY <3>1 DEF Begin
    <3>2. CASE CreateSucceeds(p)
      <4>1. \A q \in Contenders :
              pc[q] \notin {"created", "held", "unlinkOwn", "reclaim"}
        BY <3>2 DEF CreateSucceeds
      <4>2. file' \in LockFile /\ file'.owner = p /\ ~file'.old
        BY <3>2 DEF CreateSucceeds
      <4>3. file' # NoFile
        BY <4>2
      <4>4. \A q \in Contenders : q # p => pc'[q] = pc[q]
        BY <3>2 DEF CreateSucceeds
      <4>5. pc'[p] = "created"
        BY <3>2 DEF CreateSucceeds
      <4> QED
        BY <4>1, <4>2, <4>3, <4>4, <4>5
    <3>3. CASE CreateFindsFile(p)  BY <3>3 DEF CreateFindsFile
    <3>4. CASE CreateFails(p)      BY <3>4 DEF CreateFails
    <3>5. CASE InspectRefuses(p)   BY <3>5 DEF InspectRefuses
    <3>6. CASE InspectJudgesStale(p)
      BY <3>6 DEF InspectJudgesStale
    <3>7. CASE Reclaim(p)          BY <3>7 DEF Reclaim
    <3>8. CASE WriteSucceeds(p)    BY <3>8 DEF WriteSucceeds
    <3>9. CASE WriteFails(p)       BY <3>9 DEF WriteFails
    <3> QED
      BY <2>1, <3>1, <3>2, <3>3, <3>4, <3>5, <3>6, <3>7, <3>8, <3>9 DEF Attempt
  <2>2. ASSUME NEW p \in Contenders, Finish(p)
        PROVE  LockInv'
    BY <2>2 DEF Finish, ReleaseReadsToken, ReleaseUnlinks
  <2>3. ASSUME NEW p \in Contenders, Crash(p)
        PROVE  LockInv'
    BY <2>3 DEF Crash
  <2>4. CASE Age
    BY <2>4 DEF Age
  <2>5. CASE UNCHANGED vars
    BY <2>5 DEF vars
  <2> QED
    BY <2>1, <2>2, <2>3, <2>4, <2>5 DEF Next
<1> QED
  BY <1>1, <1>2, LockTyped, PTL DEF Spec

\* Two jobs never both hold the lock, for any number of contenders, as long
\* as no two of them reclaim an abandoned file at the same time.
THEOREM LockExcludes == SoloReclaim = TRUE => (Spec => []MutualExclusion)
<1> SUFFICES ASSUME SoloReclaim = TRUE
             PROVE  Spec => []MutualExclusion
  OBVIOUS
<1>1. TypeOK /\ LockInv => MutualExclusion
  BY DEF LockInv, MutualExclusion, OwnedBy
<1> QED
  BY <1>1, LockTyped, LockInvariant, PTL

\* A release never deletes another job's lock, under the same condition.
THEOREM ReleaseIsSafe == SoloReclaim = TRUE => (Spec => []ReleaseRemovesOwnLock)
<1> SUFFICES ASSUME SoloReclaim = TRUE
             PROVE  Spec => []ReleaseRemovesOwnLock
  OBVIOUS
<1>1. LockInv => ReleaseRemovesOwnLock
  BY DEF LockInv, ReleaseRemovesOwnLock
<1> QED
  BY <1>1, LockInvariant, PTL

\* What the abstract lock promises a job: whoever has taken it and not given it up
\* is the one it belongs to, so there are never two.
THEOREM HeldLockExcludes == Abstract!Spec => []Abstract!Held
<1> USE DEF Abstract!Held, Abstract!Free, Abstract!Abandoned, Abstract!Stale
<1> DEFINE JobsHold == Abstract!Held /\ Holders \subseteq Contenders
<1>1. Abstract!Init => JobsHold
  BY DEF Abstract!Init
<1>2. JobsHold /\ [Abstract!Next]_<<AbstractLock, Holders>> => JobsHold'
  <2> SUFFICES ASSUME JobsHold, [Abstract!Next]_<<AbstractLock, Holders>>
               PROVE  JobsHold'
    OBVIOUS
  <2>1. ASSUME NEW j \in Contenders, Abstract!Take(j)
        PROVE  JobsHold'
    BY <2>1, ContendersAssumption DEF Abstract!Take, Abstract!Acquire
  <2>2. ASSUME NEW j \in Contenders, Abstract!GiveUp(j)
        PROVE  JobsHold'
    BY <2>2 DEF Abstract!GiveUp, Abstract!Release, Abstract!Abandon
  <2>3. CASE (Abstract!Expire \/ Abstract!Clear) /\ UNCHANGED Holders
    BY <2>3, ContendersAssumption DEF Abstract!Expire, Abstract!Clear
  <2> QED
    BY <2>1, <2>2, <2>3 DEF Abstract!Next
<1> QED
  BY <1>1, <1>2, PTL DEF Abstract!Spec

\* Under the same condition every step of the protocol is a step of the abstract
\* lock, or leaves that lock and its holders as they are.
THEOREM LockRefines == SoloReclaim = TRUE => (Spec => ImplementsHeldLock)
<1> SUFFICES ASSUME SoloReclaim = TRUE
             PROVE  Spec => ImplementsHeldLock
  OBVIOUS
<1>1. Init => Abstract!Init
  BY DEF Init, Abstract!Init, Abstract!Free, AbstractLock, Holders
<1>2. TypeOK /\ LockInv /\ [Next]_vars => [Abstract!Next]_<<AbstractLock, Holders>>
  <2> SUFFICES ASSUME TypeOK, LockInv, [Next]_vars
               PROVE  Abstract!Next \/ UNCHANGED <<AbstractLock, Holders>>
    OBVIOUS
  <2> USE ContendersAssumption
      DEF TypeOK, LockFile, Goto, Disowned, OwnedBy, AbstractLock, Holders,
          Abstract!Free, Abstract!Abandoned, Abstract!Stale
  <2>1. ASSUME NEW p \in Contenders, p \in Holders, p \notin Holders',
               \A q \in Contenders : q # p => pc'[q] = pc[q],
               file' \in {NoFile, Disowned(p)}
        PROVE  Abstract!Next
    <3>1. OwnedBy(p) /\ AbstractLock = p /\ ~file.old
      BY <2>1 DEF LockInv
    <3>2. AbstractLock' \in {"free", "abandoned"}
      BY <2>1, <3>1
    <3>3. Holders' = Holders \ {p}
      BY <2>1
    <3> HIDE DEF AbstractLock, Holders
    <3>4. Abstract!GiveUp(p)
      BY <2>1, <3>1, <3>2, <3>3 DEF Abstract!GiveUp, Abstract!Release, Abstract!Abandon
    <3> QED
      BY <3>4 DEF Abstract!Next
  <2>2. ASSUME NEW p \in Contenders, Attempt(p)
        PROVE  Abstract!Next \/ UNCHANGED <<AbstractLock, Holders>>
    <3>1. CASE CreateSucceeds(p)
      <4>1. file' \in LockFile /\ file'.owner = p
        BY <3>1 DEF CreateSucceeds
      <4>2. AbstractLock = "free" /\ p \notin Holders
        BY <3>1 DEF CreateSucceeds
      <4>3. AbstractLock' = p
        BY <4>1
      <4>4. Holders' = Holders \cup {p}
        BY <3>1 DEF CreateSucceeds
      <4> HIDE DEF AbstractLock, Holders
      <4>5. Abstract!Take(p)
        BY <4>2, <4>3, <4>4 DEF Abstract!Take, Abstract!Acquire
      <4> QED
        BY <4>5 DEF Abstract!Next
    <3>2. CASE Reclaim(p)
      <4>1. Holders' = Holders
        BY <3>2 DEF Reclaim
      <4>2. AbstractLock = "stale" /\ AbstractLock' \in {"free", AbstractLock}
        BY <3>2 DEF Reclaim, LockInv
      <4> HIDE DEF AbstractLock, Holders
      <4> QED
        BY <4>1, <4>2 DEF Abstract!Next, Abstract!Clear
    <3>3. CASE WriteFails(p)
      BY <2>1, <3>3 DEF WriteFails
    <3>4. CASE UNCHANGED file /\ Holders' = Holders
      BY <3>4
    <3> QED
      BY <2>2, <3>1, <3>2, <3>3, <3>4
         DEF Attempt, Begin, CreateFindsFile, CreateFails, InspectRefuses,
             InspectJudgesStale, WriteSucceeds
  <2>3. ASSUME NEW p \in Contenders, Finish(p)
        PROVE  Abstract!Next \/ UNCHANGED <<AbstractLock, Holders>>
    <3>1. CASE ReleaseReadsToken(p)
      <4>1. OwnedBy(p)
        BY <3>1 DEF ReleaseReadsToken, LockInv
      <4>2. file' = file /\ Holders' = Holders
        BY <3>1, <4>1 DEF ReleaseReadsToken
      <4> QED
        BY <4>2
    <3>2. CASE ReleaseUnlinks(p)
      BY <2>1, <3>2 DEF ReleaseUnlinks
    <3> QED
      BY <2>3, <3>1, <3>2 DEF Finish
  <2>4. ASSUME NEW p \in Contenders, Crash(p)
        PROVE  Abstract!Next \/ UNCHANGED <<AbstractLock, Holders>>
    <3>1. CASE p \in Holders
      BY <2>1, <2>4, <3>1 DEF Crash
    <3>2. CASE p \notin Holders
      <4>1. Holders' = Holders
        BY <2>4, <3>2 DEF Crash
      <4>2. AbstractLock' = AbstractLock
        BY <2>4, <3>2 DEF LockInv, Crash
      <4> QED
        BY <4>1, <4>2
    <3> QED
      BY <3>1, <3>2
  <2>5. CASE Age
    <3>1. Holders' = Holders /\ AbstractLock = "abandoned" /\ AbstractLock' = "stale"
      BY <2>5 DEF Age
    <3> HIDE DEF AbstractLock, Holders
    <3> QED
      BY <3>1 DEF Abstract!Next, Abstract!Expire
  <2>6. CASE UNCHANGED vars
    BY <2>6 DEF vars
  <2> QED
    BY <2>2, <2>3, <2>4, <2>5, <2>6 DEF Next
<1> QED
  BY <1>1, <1>2, LockTyped, LockInvariant, PTL
     DEF Spec, ImplementsHeldLock, Abstract!Spec
=============================================================================
