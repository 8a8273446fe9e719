------------------------- MODULE CameraCoordinator -------------------------
(***************************************************************************)
(* The coordinator (mgo.camera.coordinator): one operation lock around     *)
(* each preview start, stop, shutdown and still capture, the last with the *)
(* preview released before and restored after it.                          *)
(*                                                                         *)
(* The preview service promises a truthful state and no stray process to   *)
(* callers that interleave freely, too.  `coordinated` chooses, once,      *)
(* between callers behind the coordinator and callers without it.          *)
(***************************************************************************)
EXTENDS Preview

CONSTANT RestoreAfterCapture   \* preview.restore_after_capture

ASSUME RestoreAssumption == RestoreAfterCapture \in BOOLEAN

VARIABLES
  coordinated,   \* whether the callers go through the coordinator
  holder,        \* who holds _operation_lock
  op,            \* the operation a caller is in
  wasRunning     \* capture_image: what the preview was when it began

vars == <<state, process, alive, launched, call, mine, coordinated, holder, op,
          wasRunning>>

Nobody == "nobody"

ASSUME CallersAssumption == Nobody \notin Callers

TypeOK ==
  /\ PreviewTypeOK
  /\ coordinated \in BOOLEAN
  /\ holder \in Callers \cup {Nobody}
  /\ op \in [Callers -> {"none", "start", "release", "released", "capture",
                           "restore"}]
  /\ wasRunning \in [Callers -> BOOLEAN]
  /\ coordinated => \A t \in Callers : op[t] # "none" <=> holder = t

Init == /\ PreviewInit
        /\ coordinated \in BOOLEAN
        /\ holder = Nobody
        /\ op = [t \in Callers |-> "none"]
        /\ wasRunning = [t \in Callers |-> FALSE]
-----------------------------------------------------------------------------
Acquire(t, operation) == /\ coordinated
                         /\ holder = Nobody
                         /\ holder' = t
                         /\ op' = [op EXCEPT ![t] = operation]

Release(t) == /\ holder' = Nobody
              /\ op' = [op EXCEPT ![t] = "none"]

Proceed(t, operation) == /\ op' = [op EXCEPT ![t] = operation]
                         /\ UNCHANGED holder

StartPreview(t) == /\ Acquire(t, "start")
                   /\ Launch(t) \/ LaunchBreaks(t)
                   /\ UNCHANGED <<coordinated, wasRunning>>

\* A start that is refused, a stop, and the application's shutdown hold the
\* lock for one critical section of the service.
Passing == /\ coordinated
           /\ holder = Nobody
           /\ Stop \/ \E t \in Callers : LaunchRefused(t)
           /\ UNCHANGED <<coordinated, holder, op, wasRunning>>

\* capture_image: look, ...
CaptureImage(t) == /\ Acquire(t, "release")
                   /\ wasRunning' = [wasRunning EXCEPT ![t] = SeenState = "running"]
                   /\ Observe
                   /\ UNCHANGED coordinated

\* Fault: the preview keeps running.
CapturesBeside(t) == /\ op[t] = "release"
                     /\ Proceed(t, "released")
                     /\ Observe
                     /\ UNCHANGED <<coordinated, wasRunning>>

\* ... release the preview, ...
HandsOver(t) == /\ op[t] = "release"
                /\ Proceed(t, "released")
                /\ ReleaseForCapture
                /\ UNCHANGED <<coordinated, wasRunning>>

\* ... take the photograph, ...
TakesCamera(t) == /\ op[t] = "released"
                  /\ Proceed(t, "capture")
                  /\ UNCHANGED <<preview, coordinated, wasRunning>>

\* Fault: a failed capture does not bring the preview back.
RestoresAfterSuccess(t, succeeded) == RestoreAfterCapture /\ wasRunning[t] /\ succeeded

\* ... and restore, whether the photograph was taken or not.
Restores(t, succeeded) == RestoreAfterCapture /\ wasRunning[t]

CaptureEnds(t) == /\ op[t] = "capture"
                  /\ \E succeeded \in BOOLEAN :
                       IF Restores(t, succeeded) THEN Proceed(t, "restore")
                                                 ELSE Release(t)
                  /\ UNCHANGED <<preview, coordinated, wasRunning>>

Restore(t) == /\ op[t] = "restore"
              /\ \/ (Launch(t) \/ LaunchBreaks(t)) /\ UNCHANGED <<holder, op>>
                 \/ LaunchRefused(t) /\ Release(t)
              /\ UNCHANGED <<coordinated, wasRunning>>

Breaks(t) == /\ ValidationBreaks(t)
             /\ UNCHANGED <<coordinated, holder, op, wasRunning>>

\* The start or the restoration returns; a failed restoration is swallowed.
Finish(t) == /\ coordinated
             /\ FinishStart(t)
             /\ Release(t)
             /\ UNCHANGED <<coordinated, wasRunning>>

\* status, /health and the stream go past the coordinator.
LookOn == Observe /\ UNCHANGED <<coordinated, holder, op, wasRunning>>

\* Callers of the service itself.
Direct == /\ ~coordinated
          /\ \/ Stop
             \/ ReleaseForCapture
             \/ \E t \in Callers : \/ Launch(t)
                                   \/ LaunchRefused(t)
                                   \/ LaunchBreaks(t)
                                   \/ FinishStart(t)
          /\ UNCHANGED <<coordinated, holder, op, wasRunning>>

Dies == ProcessDies /\ UNCHANGED <<coordinated, holder, op, wasRunning>>

\* The operations that the holder of the lock goes on with.
Continue(t) == \/ HandsOver(t)
               \/ TakesCamera(t)
               \/ CaptureEnds(t)
               \/ Restore(t)
               \/ Finish(t)

Next == \/ \E t \in Callers : \/ StartPreview(t)
                              \/ CaptureImage(t)
                              \/ Continue(t)
                              \/ Breaks(t)
        \/ Passing
        \/ Direct
        \/ LookOn
        \/ Dies

Spec == Init /\ [][Next]_vars

\* Each operation that holds the lock ends: the capture command, the wait for a
\* first frame and the wait for a killed process all have timeouts.
Fairness == \A t \in Callers : WF_vars(Continue(t))

FairSpec == Spec /\ Fairness
-----------------------------------------------------------------------------
Capturing == \E t \in Callers : op[t] = "capture"

\* The camera as the coordinator's callers share it; callers that go past the
\* coordinator are promised no exclusion, and are shown none.
Owner == IF ~coordinated THEN 0
         ELSE IF Capturing /\ alive = {} THEN MaxLaunches + 1
         ELSE IF Capturing THEN MaxLaunches + 2
         ELSE IF alive = {} THEN 0
         ELSE IF Cardinality(alive) = 1 THEN CHOOSE p \in alive : TRUE
         ELSE MaxLaunches + 2

Launches == IF coordinated THEN launched ELSE 0

Ownership == INSTANCE CameraOwnership WITH owner <- Owner, launched <- Launches

\* At any instant either one preview process or one still capture uses the
\* camera.
ImplementsOwnership == Ownership!CameraSpec

\* A preview that was running when a capture began comes back after it, whether
\* the capture succeeded or not, or is reported as failed.
PreviewReturns ==
  \A t \in Callers :
    (op[t] = "capture" /\ wasRunning[t] /\ RestoreAfterCapture)
      ~> (op[t] = "none" /\ state \in {"running", "failed"})
=============================================================================
