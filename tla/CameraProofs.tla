---------------------------- MODULE CameraProofs ----------------------------
(***************************************************************************)
(* Machine-checked proofs about Preview and CameraCoordinator, for any set *)
(* of callers and any number of launches.                                  *)
(*                                                                         *)
(* The steps of the preview service are treated first, on their own: its   *)
(* promises hold for callers that interleave freely.  The coordinator adds *)
(* that a start has its process to itself.                                 *)
(***************************************************************************)
EXTENDS CameraCoordinator, FiniteSetTheorems, TLAPS

PreviewStep ==
  \/ Observe
  \/ Stop
  \/ ProcessDies
  \/ \E t \in Callers : \/ Launch(t)
                        \/ LaunchRefused(t)
                        \/ LaunchBreaks(t)
                        \/ ValidationBreaks(t)
                        \/ FinishStart(t)

\* Every step of the coordinator's system is a step of the service or leaves
\* the service alone.
LEMMA StepIsPreviewStep == [Next]_vars => PreviewStep \/ UNCHANGED preview
<1> SUFFICES ASSUME [Next]_vars
             PROVE  PreviewStep \/ UNCHANGED preview
  OBVIOUS
<1> USE DEF PreviewStep, ReleaseForCapture
<1>1. ASSUME NEW t \in Callers, StartPreview(t)
      PROVE  PreviewStep
  BY <1>1 DEF StartPreview
<1>2. ASSUME NEW t \in Callers, CaptureImage(t)
      PROVE  PreviewStep
  BY <1>2 DEF CaptureImage
<1>3. ASSUME NEW t \in Callers, Continue(t)
      PROVE  PreviewStep \/ UNCHANGED preview
  BY <1>3 DEF Continue, HandsOver, TakesCamera, CaptureEnds, Restore, Finish
<1>4. ASSUME NEW t \in Callers, Breaks(t)
      PROVE  PreviewStep
  BY <1>4 DEF Breaks
<1>5. CASE Passing
  BY <1>5 DEF Passing
<1>6. CASE Direct
  BY <1>6 DEF Direct
<1>7. CASE LookOn
  BY <1>7 DEF LookOn
<1>8. CASE Dies
  BY <1>8 DEF Dies
<1>9. CASE UNCHANGED vars
  BY <1>9 DEF vars, preview
<1> QED
  BY <1>1, <1>2, <1>3, <1>4, <1>5, <1>6, <1>7, <1>8, <1>9 DEF Next
-----------------------------------------------------------------------------
\* What a start has in hand is its own, and was launched before.
HandsInv ==
  /\ process \in 0..launched
  /\ \A t \in Callers :
       /\ mine[t] \in 0..launched
       /\ call[t] = "none" => mine[t] = NoProcess
       /\ call[t] = "validating" => mine[t] # NoProcess
       /\ \A u \in Callers : (mine[t] = mine[u] /\ mine[t] # NoProcess) => t = u

PreviewInv ==
  /\ PreviewTypeOK
  /\ HandsInv
  /\ TruthfulState
  /\ NoStrayProcess

\* A preview that is not busy supervises nothing that runs.
LEMMA IdleIsEmpty ==
  ASSUME PreviewInv, ~Busy
  PROVE  process \notin alive /\ SeenProcess = NoProcess
BY LaunchAssumption
   DEF PreviewInv, PreviewTypeOK, TruthfulState, Busy, SeenState, SeenProcess, Gone,
       NoProcess, Processes

\* The four ways in which a start comes to its end keep the invariant.
LEMMA FinishKeepsPreviewInv ==
  ASSUME PreviewInv, NEW t \in Callers, FinishStart(t)
  PROVE  PreviewInv'
<1> USE LaunchAssumption DEF PreviewInv, PreviewTypeOK, HandsInv, NoProcess, Processes
<1>1. CASE Overtaken(t)
  <2>1. PreviewTypeOK'
    BY <1>1 DEF Overtaken, Return
  <2>2. HandsInv'
    BY <1>1 DEF Overtaken, Return
  <2>3. TruthfulState'
    BY <1>1 DEF Overtaken, Return, TruthfulState
  <2>4. NoStrayProcess'
    BY <1>1 DEF Overtaken, Return, NoStrayProcess
  <2> QED
    BY <2>1, <2>2, <2>3, <2>4
<1>2. CASE Validated(t)
  <2>1. PreviewTypeOK'
    BY <1>2 DEF Validated, Return
  <2>2. HandsInv'
    BY <1>2 DEF Validated, Return
  <2>3. TruthfulState'
    BY <1>2 DEF Validated, Return, TruthfulState
  <2>4. NoStrayProcess'
    BY <1>2 DEF Validated, Return, NoStrayProcess
  <2> QED
    BY <2>1, <2>2, <2>3, <2>4
<1>3. CASE ValidationFails(t)
  <2>1. PreviewTypeOK'
    BY <1>3 DEF ValidationFails, Return, Fail
  <2>2. HandsInv'
    BY <1>3 DEF ValidationFails, Return, Fail
  <2>3. TruthfulState'
    BY <1>3 DEF ValidationFails, Return, Fail, TruthfulState
  <2>4. NoStrayProcess'
    BY <1>3 DEF ValidationFails, Return, Fail, NoStrayProcess
  <2> QED
    BY <2>1, <2>2, <2>3, <2>4
<1>4. CASE Settle(t)
  <2>1. PreviewTypeOK'
    BY <1>4 DEF Settle, Return, Fail
  <2>2. HandsInv'
    BY <1>4 DEF Settle, Return, Fail
  <2>3. TruthfulState'
    BY <1>4 DEF Settle, Return, Fail, TruthfulState
  <2>4. NoStrayProcess'
    BY <1>4 DEF Settle, Return, Fail, NoStrayProcess, TruthfulState
  <2> QED
    BY <2>1, <2>2, <2>3, <2>4
<1> QED
  BY <1>1, <1>2, <1>3, <1>4 DEF FinishStart

\* So do the ways in which one begins.
LEMMA LaunchKeepsPreviewInv ==
  ASSUME PreviewInv, NEW t \in Callers,
         Launch(t) \/ LaunchRefused(t) \/ LaunchBreaks(t)
  PROVE  PreviewInv'
<1>1. process \notin alive /\ SeenProcess = NoProcess
  BY IdleIsEmpty DEF Launch, LaunchRefused, LaunchBreaks
<1> USE LaunchAssumption DEF PreviewInv, PreviewTypeOK, HandsInv, NoProcess, Processes
<1>2. CASE Launch(t)
  <2>1. PreviewTypeOK' /\ HandsInv'
    BY <1>2 DEF Launch
  <2>2. TruthfulState'
    BY <1>2 DEF Launch, TruthfulState
  <2>3. NoStrayProcess'
    BY <1>1, <1>2 DEF Launch, NoStrayProcess
  <2> QED
    BY <2>1, <2>2, <2>3
<1>3. CASE LaunchRefused(t)
  <2>1. PreviewTypeOK' /\ HandsInv'
    BY <1>3 DEF LaunchRefused, Fail
  <2>2. TruthfulState'
    BY <1>3 DEF LaunchRefused, Fail, TruthfulState
  <2>3. NoStrayProcess'
    BY <1>1, <1>3 DEF LaunchRefused, Fail, NoStrayProcess
  <2> QED
    BY <2>1, <2>2, <2>3
<1>4. CASE LaunchBreaks(t)
  <2>1. PreviewTypeOK' /\ HandsInv'
    BY <1>1, <1>4 DEF LaunchBreaks
  <2>2. TruthfulState'
    BY <1>1, <1>4 DEF LaunchBreaks, TruthfulState
  <2>3. NoStrayProcess'
    BY <1>1, <1>4 DEF LaunchBreaks, NoStrayProcess
  <2> QED
    BY <2>1, <2>2, <2>3
<1> QED
  BY <1>2, <1>3, <1>4

\* So does everything else the service does.
LEMMA StepKeepsPreviewInv ==
  ASSUME PreviewInv, PreviewStep
  PROVE  PreviewInv'
<1> USE LaunchAssumption DEF PreviewInv, PreviewTypeOK, HandsInv, NoProcess, Processes
<1>1. CASE Observe
  BY <1>1 DEF Observe, SeenState, SeenProcess, Gone, TruthfulState, NoStrayProcess
<1>2. CASE Stop
  BY <1>2 DEF Stop, SeenProcess, Gone, TruthfulState, NoStrayProcess
<1>3. CASE ProcessDies
  BY <1>3 DEF ProcessDies, TruthfulState, NoStrayProcess
<1>4. ASSUME NEW t \in Callers, ValidationBreaks(t)
      PROVE  PreviewInv'
  BY <1>4 DEF ValidationBreaks, TruthfulState, NoStrayProcess
<1> QED
  BY <1>1, <1>2, <1>3, <1>4, FinishKeepsPreviewInv, LaunchKeepsPreviewInv
     DEF PreviewStep

\* What the service promises is inductive, for callers behind the coordinator
\* and for those who are not.
THEOREM PreviewInvariant == Spec => []PreviewInv
<1>1. Init => PreviewInv
  BY LaunchAssumption
     DEF Init, PreviewInit, PreviewInv, PreviewTypeOK, HandsInv, TruthfulState,
         NoStrayProcess, NoProcess, Processes
<1>2. PreviewInv /\ UNCHANGED preview => PreviewInv'
  BY DEF preview, PreviewInv, PreviewTypeOK, HandsInv, TruthfulState, NoStrayProcess
<1>3. PreviewInv /\ [Next]_vars => PreviewInv'
  BY <1>2, StepIsPreviewStep, StepKeepsPreviewInv
<1> QED
  BY <1>1, <1>3, PTL DEF Spec

\* No start, however it breaks and whoever overtakes it, leaves the preview in
\* a state that says something untrue of its process.
THEOREM StateIsTruthful == Spec => []TruthfulState
<1>1. PreviewInv => TruthfulState
  BY DEF PreviewInv
<1> QED
  BY <1>1, PreviewInvariant, PTL

\* Every process that runs is supervised, or in the hands of a start that has
\* yet to return.
THEOREM NothingIsLeftBehind == Spec => []NoStrayProcess
<1>1. PreviewInv => NoStrayProcess
  BY DEF PreviewInv
<1> QED
  BY <1>1, PreviewInvariant, PTL
-----------------------------------------------------------------------------
Operations == {"none", "start", "release", "released", "capture", "restore"}

\* Behind the coordinator only the holder of the lock is in an operation; its
\* start works on the process that is supervised; and between release and
\* restoration there is none.
CoordinatorInv ==
  /\ holder \in Callers \cup {Nobody}
  /\ op \in [Callers -> Operations]
  /\ coordinated =>
       \A t \in Callers :
         /\ op[t] # "none" <=> holder = t
         /\ call[t] # "none" => /\ op[t] \in {"start", "restore"}
                                /\ state = "starting"
                                /\ process = mine[t]
         /\ op[t] \in {"released", "capture"} => process = NoProcess

\* A caller does not change sides.
LEMMA ModeIsFixed == [Next]_vars => UNCHANGED coordinated
BY DEF Next, vars, StartPreview, CaptureImage, Continue, HandsOver, TakesCamera,
       CaptureEnds, Restore, Finish, Breaks, Passing, Direct, LookOn, Dies

\* While nobody is in an operation, no start is under way.
LEMMA FreeLockMeansIdle ==
  ASSUME CoordinatorInv, coordinated, holder = Nobody
  PROVE  \A t \in Callers : op[t] = "none" /\ call[t] = "none"
BY CallersAssumption DEF CoordinatorInv

\* What the holder of the lock does leaves the others where they are.
LEMMA ContinueKeepsCoordinatorInv ==
  ASSUME PreviewInv, CoordinatorInv, coordinated, coordinated',
         NEW t \in Callers, Continue(t)
  PROVE  CoordinatorInv'
<1> USE CallersAssumption DEF CoordinatorInv, PreviewInv, PreviewTypeOK, HandsInv,
        Operations, NoProcess, Processes
<1>1. CASE HandsOver(t)
  <2>1. process' = NoProcess
    BY <1>1 DEF HandsOver, ReleaseForCapture, Stop, Observe, Busy, SeenState,
       SeenProcess, Gone, TruthfulState
  <2>2. UNCHANGED <<call, mine, holder>>
    BY <1>1 DEF HandsOver, ReleaseForCapture, Stop, Observe, Proceed
  <2> QED
    BY <1>1, <2>1, <2>2 DEF HandsOver, Proceed
<1>2. CASE TakesCamera(t)
  BY <1>2 DEF TakesCamera, Proceed, preview
<1>3. CASE CaptureEnds(t)
  <2>1. UNCHANGED preview /\ op[t] = "capture" /\ (Proceed(t, "restore") \/ Release(t))
    BY <1>3 DEF CaptureEnds
  <2> QED
    BY <2>1 DEF Proceed, Release, preview
<1>4. CASE Restore(t)
  <2>1. CASE Launch(t) /\ UNCHANGED <<holder, op>>
    BY <1>4, <2>1 DEF Restore, Launch
  <2>2. CASE LaunchBreaks(t) /\ UNCHANGED <<holder, op>>
    BY <1>4, <2>2, IdleIsEmpty DEF Restore, LaunchBreaks
  <2>3. CASE LaunchRefused(t) /\ Release(t)
    BY <1>4, <2>3 DEF Restore, LaunchRefused, Fail, Release
  <2> QED
    BY <1>4, <2>1, <2>2, <2>3 DEF Restore
<1>5. CASE Finish(t)
  <2>1. holder = t /\ \A u \in Callers \ {t} : op[u] = "none" /\ call[u] = "none"
    BY <1>5 DEF Finish, FinishStart, Overtaken, Validated, ValidationFails, Settle
  <2>2. call' = [call EXCEPT ![t] = "none"]
    BY <1>5 DEF Finish, FinishStart, Overtaken, Validated, ValidationFails, Settle, Return
  <2> QED
    BY <1>5, <2>1, <2>2 DEF Finish, Release
<1> QED
  BY <1>1, <1>2, <1>3, <1>4, <1>5 DEF Continue

\* And so does every step.
LEMMA StepKeepsCoordinatorInv ==
  ASSUME PreviewInv, CoordinatorInv, [Next]_vars
  PROVE  CoordinatorInv'
<1>1. UNCHANGED coordinated
  BY ModeIsFixed
<1> USE CallersAssumption DEF CoordinatorInv, PreviewInv, PreviewTypeOK, HandsInv,
        Operations, NoProcess, Processes
<1>2. CASE ~coordinated
  BY <1>1, <1>2
     DEF Next, vars, StartPreview, CaptureImage, Continue, HandsOver, TakesCamera,
         CaptureEnds, Restore, Finish, Breaks, Passing, Direct, LookOn, Dies, Acquire,
         Proceed, Release
<1>3. CASE coordinated
  <2>1. ASSUME NEW t \in Callers, StartPreview(t)
        PROVE  CoordinatorInv'
    <3>1. \A u \in Callers : op[u] = "none" /\ call[u] = "none"
      BY <1>3, <2>1, FreeLockMeansIdle DEF StartPreview, Acquire
    <3>2. CASE Launch(t)
      BY <1>3, <2>1, <3>1, <3>2 DEF StartPreview, Acquire, Launch
    <3>3. CASE LaunchBreaks(t)
      BY <1>3, <2>1, <3>1, <3>3, IdleIsEmpty DEF StartPreview, Acquire, LaunchBreaks
    <3> QED
      BY <2>1, <3>2, <3>3 DEF StartPreview
  <2>2. ASSUME NEW t \in Callers, CaptureImage(t)
        PROVE  CoordinatorInv'
    <3>1. \A u \in Callers : op[u] = "none" /\ call[u] = "none"
      BY <1>3, <2>2, FreeLockMeansIdle DEF CaptureImage, Acquire
    <3> QED
      BY <1>3, <2>2, <3>1 DEF CaptureImage, Acquire, Observe
  <2>3. ASSUME NEW t \in Callers, Continue(t)
        PROVE  CoordinatorInv'
    BY <1>1, <1>3, <2>3, ContinueKeepsCoordinatorInv
  <2>4. ASSUME NEW t \in Callers, Breaks(t)
        PROVE  CoordinatorInv'
    BY <1>3, <2>4 DEF Breaks, ValidationBreaks
  <2>5. CASE Passing
    <3>1. \A u \in Callers : op[u] = "none" /\ call[u] = "none"
      BY <1>3, <2>5, FreeLockMeansIdle DEF Passing
    <3>2. UNCHANGED <<call, holder, op>>
      BY <2>5 DEF Passing, Stop, LaunchRefused
    <3> QED
      BY <1>3, <3>1, <3>2
  <2>6. CASE Direct
    BY <1>3, <2>6 DEF Direct
  <2>7. CASE LookOn
    BY <1>3, <2>7 DEF LookOn, Observe, SeenState, SeenProcess, Gone
  <2>8. CASE Dies
    BY <1>3, <2>8 DEF Dies, ProcessDies
  <2>9. CASE UNCHANGED vars
    BY <1>3, <2>9 DEF vars
  <2> QED
    BY <2>1, <2>2, <2>3, <2>4, <2>5, <2>6, <2>7, <2>8, <2>9 DEF Next
<1> QED
  BY <1>2, <1>3

\* The lock and the order of capture_image keep starts, captures and the rest
\* apart.
THEOREM CoordinatorInvariant == Spec => []CoordinatorInv
<1>1. Init => CoordinatorInv
  BY CallersAssumption DEF Init, PreviewInit, CoordinatorInv, Operations
<1>2. PreviewInv /\ CoordinatorInv /\ [Next]_vars => CoordinatorInv'
  BY StepKeepsCoordinatorInv
<1> QED
  BY <1>1, <1>2, PreviewInvariant, PTL DEF Spec
\* capture_image remembers whether the preview was running.
LEMMA RemembersTruth ==
  [Next]_vars /\ wasRunning \in [Callers -> BOOLEAN]
    => wasRunning' \in [Callers -> BOOLEAN]
<1> SUFFICES ASSUME [Next]_vars, wasRunning \in [Callers -> BOOLEAN]
             PROVE  wasRunning' \in [Callers -> BOOLEAN]
  OBVIOUS
<1>1. UNCHANGED wasRunning \/ \E t \in Callers : CaptureImage(t)
  BY DEF Next, vars, StartPreview, Continue, HandsOver, TakesCamera, CaptureEnds,
         Restore, Finish, Breaks, Passing, Direct, LookOn, Dies
<1>2. ASSUME NEW t \in Callers, CaptureImage(t)
      PROVE  wasRunning' \in [Callers -> BOOLEAN]
  <2>1. wasRunning' = [wasRunning EXCEPT ![t] = SeenState = "running"]
    BY <1>2, Zenon DEF CaptureImage
  <2>2. (SeenState = "running") \in BOOLEAN
    BY Zenon
  <2> QED
    BY <2>1, <2>2, Zenon
<1> QED
  BY <1>1, <1>2, Zenon

\* Type correctness of service and coordinator, and the lock is held by exactly
\* the caller that is in an operation.
THEOREM CameraTyped == Spec => []TypeOK
<1> DEFINE Modes == coordinated \in BOOLEAN /\ wasRunning \in [Callers -> BOOLEAN]
<1>1. Init => Modes
  BY DEF Init
<1>2. Modes /\ [Next]_vars => Modes'
  BY ModeIsFixed, RemembersTruth
<1>3. PreviewInv /\ CoordinatorInv /\ Modes => TypeOK
  BY DEF PreviewInv, CoordinatorInv, Operations, TypeOK
<1> QED
  BY <1>1, <1>2, <1>3, PreviewInvariant, CoordinatorInvariant, PTL DEF Spec
-----------------------------------------------------------------------------
(* One owner *)

\* What CameraOwnership says of the camera, in the coordinator's terms.
OneUser == /\ alive = {} \/ (process \in Processes /\ alive = {process})
           /\ Capturing => alive = {}

\* Behind the coordinator at most one process runs, and none during a capture.
LEMMA OneUserAtATime ==
  (PreviewInv /\ CoordinatorInv /\ coordinated) => OneUser
<1> SUFFICES ASSUME PreviewInv, CoordinatorInv, coordinated
             PROVE  OneUser
  OBVIOUS
<1>1. alive \subseteq {process} /\ alive \subseteq Processes
  BY LaunchAssumption
     DEF PreviewInv, PreviewTypeOK, NoStrayProcess, CoordinatorInv, Processes
<1>2. Capturing => process = NoProcess
  BY DEF Capturing, CoordinatorInv
<1>3. NoProcess \notin Processes
  BY DEF NoProcess, Processes
<1>4. alive = {} \/ alive = {process}
  BY <1>1
<1>5. Capturing => alive = {}
  BY <1>1, <1>2, <1>3, Zenon
<1> QED
  BY <1>1, <1>4, <1>5 DEF OneUser

OwnerValues ==
  (coordinated /\ OneUser) =>
     /\ (alive = {} /\ ~Capturing) => Owner = 0
     /\ (alive = {} /\ Capturing) => Owner = MaxLaunches + 1
     /\ \A p \in Processes : alive = {p} => Owner = p
     /\ Launches = launched

\* What the mapped owner is, before and after a step.
LEMMA OwnerIs == OwnerValues
<1> SUFFICES ASSUME coordinated, OneUser
             PROVE  OwnerValues
  BY DEF OwnerValues
<1>1. \A p \in Processes : alive = {p} => ~Capturing /\ Cardinality(alive) = 1
  BY FS_Singleton DEF OneUser
<1> QED
  BY <1>1 DEF OwnerValues, Owner, Launches

\* The same after a step.
LEMMA OwnerWillBe == OwnerValues'
BY OwnerIs, PTL

OwnershipStep == [Ownership!CameraNext]_<<Owner, Launches>>

\* A step that changes nobody's use of the camera, or only ends a process.
LEMMA FewerProcesses ==
  ASSUME coordinated, OneUser, coordinated', OneUser',
         alive' \subseteq alive, Capturing' <=> Capturing, launched' = launched
  PROVE  OwnershipStep
<1> USE OwnerIs, OwnerWillBe
        DEF OwnerValues, OwnershipStep, Ownership!CameraNext, Ownership!PreviewReleases,
            Ownership!Processes, Ownership!Free, Processes
<1>1. CASE alive' = alive
  <2>1. Owner' = Owner
    BY <1>1 DEF OneUser
  <2> QED
    BY <2>1
<1>2. CASE alive' # alive
  <2>1. PICK p \in Processes : alive = {p} /\ alive' = {}
    BY <1>2 DEF OneUser
  <2>2. Owner = p /\ Owner' = 0 /\ Launches' = Launches
    BY <2>1 DEF OneUser
  <2> QED
    BY <2>1, <2>2
<1> QED
  BY <1>1, <1>2

\* A launch by whoever holds the lock, outside a capture.
LEMMA LaunchTakesCamera ==
  ASSUME PreviewInv, coordinated, OneUser, coordinated', OneUser',
         NEW t \in Callers, Launch(t), ~Capturing, ~Capturing'
  PROVE  OwnershipStep
<1>1. alive = {} /\ alive' = {launched'} /\ launched' = launched + 1
  BY IdleIsEmpty DEF Launch, OneUser
<1>2. launched' \in Processes /\ launched < MaxLaunches
  BY LaunchAssumption, <1>1 DEF Launch, PreviewInv, PreviewTypeOK, Processes
<1>3. Owner = 0 /\ Owner' = launched' /\ Launches = launched /\ Launches' = launched'
  BY <1>1, <1>2, OwnerIs, OwnerWillBe DEF OwnerValues
<1> QED
  BY <1>1, <1>2, <1>3
     DEF OwnershipStep, Ownership!CameraNext, Ownership!PreviewTakes, Ownership!Free

\* Outside "capture", going on with an operation is no capture.
LEMMA CaptureIsTaken ==
  ASSUME CoordinatorInv, coordinated, [Next]_vars,
         \A t \in Callers : ~TakesCamera(t) /\ ~CaptureEnds(t)
  PROVE  Capturing' <=> Capturing
<1> USE DEF CoordinatorInv, Operations, Capturing
<1>1. ASSUME NEW t \in Callers, NEW operation \in Operations \ {"capture"},
             op[t] # "capture", op' = [op EXCEPT ![t] = operation]
      PROVE  Capturing' <=> Capturing
  BY <1>1
<1>2. ASSUME NEW t \in Callers,
             StartPreview(t) \/ CaptureImage(t) \/ Continue(t) \/ Breaks(t)
      PROVE  Capturing' <=> Capturing
  <2>1. CASE StartPreview(t) \/ CaptureImage(t)
    <3>1. op[t] # "capture"
      BY <2>1, CallersAssumption DEF StartPreview, CaptureImage, Acquire
    <3>2. op' = [op EXCEPT ![t] = "start"] \/ op' = [op EXCEPT ![t] = "release"]
      BY <2>1 DEF StartPreview, CaptureImage, Acquire
    <3> QED
      BY <3>1, <3>2, <1>1
  <2>2. CASE HandsOver(t)
    BY <2>2, <1>1 DEF HandsOver, Proceed
  <2>3. CASE Restore(t)
    <3>1. op[t] # "capture" /\ (UNCHANGED op \/ op' = [op EXCEPT ![t] = "none"])
      BY <2>3 DEF Restore, Release
    <3> QED
      BY <3>1, <1>1
  <2>4. CASE Finish(t)
    <3>1. op[t] # "capture" /\ op' = [op EXCEPT ![t] = "none"]
      BY <2>4 DEF Finish, Release, FinishStart, Overtaken, Validated, ValidationFails,
         Settle
    <3> QED
      BY <3>1, <1>1
  <2>5. CASE Breaks(t)
    BY <2>5 DEF Breaks
  <2> QED
    BY <1>2, <2>1, <2>2, <2>3, <2>4, <2>5 DEF Continue
<1>3. CASE Passing \/ Direct \/ LookOn \/ Dies \/ UNCHANGED vars
  BY <1>3 DEF Passing, Direct, LookOn, Dies, vars
<1> QED
  BY <1>2, <1>3 DEF Next

\* Nothing but a launch adds a process.
LEMMA OnlyLaunchesAdd ==
  ASSUME PreviewStep, \A t \in Callers : ~Launch(t)
  PROVE  alive' \subseteq alive /\ launched' = launched
BY DEF PreviewStep, Observe, Stop, ProcessDies, LaunchRefused, LaunchBreaks,
       ValidationBreaks, FinishStart, Overtaken, Validated, ValidationFails, Settle

\* A launch happens outside a capture.
LEMMA LaunchIsNoCapture ==
  ASSUME PreviewInv, CoordinatorInv, coordinated, [Next]_vars,
         NEW t \in Callers, Launch(t)
  PROVE  /\ ~Capturing
         /\ \A u \in Callers : ~TakesCamera(u) /\ ~CaptureEnds(u)
<1>1. launched' # launched
  BY DEF Launch, PreviewInv, PreviewTypeOK
<1>2. \A u \in Callers : ~TakesCamera(u) /\ ~CaptureEnds(u)
  BY <1>1 DEF TakesCamera, CaptureEnds, preview
<1>3. \E u \in Callers : StartPreview(u) \/ Restore(u)
  BY <1>1, <1>2
     DEF Next, vars, CaptureImage, Continue, HandsOver, ReleaseForCapture, Finish, Breaks,
         Passing, Direct, LookOn, Dies, Observe, Stop, ProcessDies, LaunchRefused,
         ValidationBreaks, FinishStart, Overtaken, Validated, ValidationFails, Settle
<1>4. ~Capturing
  BY <1>3, CallersAssumption
     DEF StartPreview, Acquire, Restore, CoordinatorInv, Capturing
<1> QED
  BY <1>2, <1>4

\* The photograph begins with the camera free, and ends by freeing it.
LEMMA CaptureUsesCamera ==
  ASSUME PreviewInv, CoordinatorInv, coordinated, OneUser, coordinated', OneUser',
         NEW t \in Callers, TakesCamera(t) \/ CaptureEnds(t)
  PROVE  OwnershipStep
<1> USE DEF OwnershipStep, Ownership!CameraNext, Ownership!Free, Ownership!Capture
<1>1. alive' = alive /\ launched' = launched
  BY DEF TakesCamera, CaptureEnds, preview
<1>2. \A u \in Callers \ {t} : op[u] = "none"
  BY DEF TakesCamera, CaptureEnds, CoordinatorInv
<1>3. CASE TakesCamera(t)
  <2>1. ~Capturing
    BY <1>2, <1>3 DEF Capturing, TakesCamera
  <2>2. Capturing'
    BY <1>3 DEF Capturing, TakesCamera, Proceed, CoordinatorInv
  <2>3. alive = {}
    BY <1>1, <2>2 DEF OneUser
  <2>4. Owner = 0 /\ Owner' = MaxLaunches + 1 /\ Launches' = Launches
    BY <1>1, <2>1, <2>2, <2>3, OwnerIs, OwnerWillBe DEF OwnerValues
  <2> QED
    BY <2>4 DEF Ownership!CaptureTakes
<1>4. CASE CaptureEnds(t)
  <2>1. Capturing
    BY <1>4 DEF Capturing, CaptureEnds
  <2>2. op' = [op EXCEPT ![t] = "restore"] \/ op' = [op EXCEPT ![t] = "none"]
    BY <1>4 DEF CaptureEnds, Proceed, Release
  <2>3. ~Capturing'
    BY <1>2, <2>2 DEF Capturing, CoordinatorInv
  <2>4. alive = {}
    BY <2>1 DEF OneUser
  <2>5. Owner = MaxLaunches + 1 /\ Owner' = 0 /\ Launches' = Launches
    BY <1>1, <2>1, <2>3, <2>4, OwnerIs, OwnerWillBe DEF OwnerValues
  <2> QED
    BY <2>5 DEF Ownership!CaptureReleases
<1> QED
  BY <1>3, <1>4

\* The coordinator implements the camera with one owner: its callers never use
\* it with a preview process and a capture, or with two processes, at once.
THEOREM CameraHasOneOwner == Spec => ImplementsOwnership
<1>1. Init => Ownership!CameraInit
  BY DEF Init, PreviewInit, Ownership!CameraInit, Ownership!Free, Owner, Launches,
         Capturing
<1>2. ASSUME PreviewInv, PreviewInv', CoordinatorInv, CoordinatorInv', [Next]_vars
      PROVE  OwnershipStep
  <2>1. UNCHANGED coordinated
    BY <1>2, ModeIsFixed
  <2>2. CASE ~coordinated
    BY <2>1, <2>2 DEF OwnershipStep, Owner, Launches
  <2>3. CASE coordinated
    <3>1. OneUser /\ coordinated'
      BY <1>2, <2>1, <2>3, OneUserAtATime
    <3>2. OneUser'
      <4>1. (PreviewInv' /\ CoordinatorInv' /\ coordinated') => OneUser'
        BY OneUserAtATime, PTL
      <4> QED
        BY <1>2, <3>1, <4>1
    <3>3. CASE \E t \in Callers : TakesCamera(t) \/ CaptureEnds(t)
      BY <1>2, <2>3, <3>1, <3>2, <3>3, CaptureUsesCamera
    <3>4. CASE \E t \in Callers : Launch(t)
      <4>1. PICK t \in Callers : Launch(t)
        BY <3>4
      <4>2. ~Capturing /\ \A u \in Callers : ~TakesCamera(u) /\ ~CaptureEnds(u)
        BY <1>2, <2>3, <4>1, LaunchIsNoCapture
      <4>3. ~Capturing'
        BY <1>2, <2>3, <4>2, CaptureIsTaken
      <4> QED
        BY <1>2, <2>3, <3>1, <3>2, <4>1, <4>2, <4>3, LaunchTakesCamera
    <3>5. CASE \A t \in Callers : ~TakesCamera(t) /\ ~CaptureEnds(t) /\ ~Launch(t)
      <4>1. alive' \subseteq alive /\ launched' = launched
        BY <1>2, <3>5, StepIsPreviewStep, OnlyLaunchesAdd DEF preview
      <4>2. Capturing' <=> Capturing
        BY <1>2, <2>3, <3>5, CaptureIsTaken
      <4> QED
        BY <2>3, <3>1, <3>2, <4>1, <4>2, FewerProcesses
    <3> QED
      BY <3>3, <3>4, <3>5
  <2> QED
    BY <2>2, <2>3
<1> QED
  BY <1>1, <1>2, PreviewInvariant, CoordinatorInvariant, PTL
     DEF Spec, ImplementsOwnership, Ownership!CameraSpec, OwnershipStep
=============================================================================
