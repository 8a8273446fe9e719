---------------------------- MODULE Application ----------------------------
(***************************************************************************)
(* The life of the service: the lifespan of src/mgo/api/app.py starts its  *)
(* parts one after the other, serves, and takes them down again in an      *)
(* order in which each still has what it needs, attempting every stage     *)
(* whatever the ones before it did.                                        *)
(*                                                                         *)
(* The motion monitor is the one of MotionMonitor; its transitions reach   *)
(* the event-capture worker, which is here what it is to its neighbours: a *)
(* producer may hand it work, a photograph in progress needs the camera,   *)
(* and its retirement waits for that photograph.  The other monitors are   *)
(* loops that end when their stop event is set.  EventCapture,             *)
(* CameraCoordinator and DatabaseMonitor model the insides.                *)
(***************************************************************************)
EXTENDS MotionMonitor

CONSTANTS
  Settings,     \* the configurations: each the set of what it enables
  MaxFaults     \* bound: the failures of one life

Parts == {"camera", "preview", "preview.auto_start",
          "preview.restore_after_capture", "motion", "event_capture"}

\* _validate_managed_preview_policy: a preview that starts or comes back by
\* itself needs the camera and the preview.
ManagedPreviewPolicy(E) ==
  E \cap {"preview.auto_start", "preview.restore_after_capture"} # {}
    => {"camera", "preview"} \subseteq E

\* _validate_event_capture_policy: automatic captures need everything that
\* makes triggers and keeps them coming.
EventCapturePolicy(E) == "event_capture" \in E => Parts \subseteq E

Monitors == {"health", "database", "camera"}

ASSUME ApplicationAssumption ==
  /\ \A E \in Settings : /\ E \subseteq Parts
                         /\ ManagedPreviewPolicy(E) /\ EventCapturePolicy(E)
  /\ MaxFaults \in Nat

VARIABLES
  enabled,      \* the configuration this life was given
  stage,        \* where the lifespan is
  monitors,     \* the state of each monitor's task
  stopping,     \* their stop events
  worker,       \* the event-capture worker
  accepting,    \* it takes triggers
  waiting,      \* a trigger waits in its queue
  preview,      \* a preview process runs
  closed,       \* the camera coordinator has been shut down
  primary,      \* what went wrong in startup or serving: {} or {stage}
  cleanup,      \* the first failure of a cleanup stage: {} or {stage}
  failed,       \* history: the cleanup stages that failed
  raised,       \* what the lifespan ended with: {} or {stage}
  faults

lifeVars == <<enabled, stage, monitors, stopping, worker, accepting, waiting, preview, closed,
              primary, cleanup, failed, raised, faults>>

allVars == <<motionVars, lifeVars>>

\* The stages of the start, and those of the shutdown in the order in which their
\* failures count.
Startup == <<"migrate", "observe", "check camera", "preview", "worker", "motion">>
Shutdown == <<"drain motion", "retire", "drain monitors", "release camera", "notify stop",
              "record stop">>

CleanupStages == {Shutdown[i] : i \in DOMAIN Shutdown}
Stages == {Startup[i] : i \in DOMAIN Startup} \cup CleanupStages
            \cup {"serving", "cleanup", "retiring", "signal", "ended"}

LifeTypeOK ==
  /\ enabled \in Settings
  /\ stage \in Stages
  /\ monitors \in [Monitors -> {"absent", "running", "ended", "broken"}]
  /\ stopping \in BOOLEAN
  /\ worker \in {"absent", "parked", "busy", "ended"}
  /\ accepting \in BOOLEAN /\ waiting \in BOOLEAN
  /\ preview \in BOOLEAN /\ closed \in BOOLEAN
  /\ primary \in AtMostOne(Stages)
  /\ cleanup \in AtMostOne(CleanupStages)
  /\ failed \subseteq CleanupStages
  /\ raised \in AtMostOne(Stages)
  /\ faults \in 0..MaxFaults

LifeInit == /\ enabled \in Settings
            /\ stage = "migrate"
            /\ monitors = [m \in Monitors |-> "absent"]
            /\ stopping = FALSE
            /\ worker = "absent" /\ accepting = FALSE /\ waiting = FALSE
            /\ preview = FALSE /\ closed = FALSE
            /\ primary = {} /\ cleanup = {} /\ failed = {} /\ raised = {}
            /\ faults = 0

Fault == faults < MaxFaults /\ faults' = faults + 1

-----------------------------------------------------------------------------
(* Startup.                                                                *)

\* The database is migrated, or the application refuses to start.
Migrate == /\ stage = "migrate"
           /\ stage' = "observe"
           /\ UNCHANGED <<motionVars, enabled, monitors, stopping, worker, accepting, waiting,
                          preview, closed, primary, cleanup, failed, raised, faults>>

\* Its first health check, which raises nothing, and the observation of the start;
\* then the health and database monitors.
Observe == /\ stage = "observe"
           /\ monitors' = [monitors EXCEPT !["health"] = "running", !["database"] = "running"]
           /\ stage' = "check camera"
           /\ UNCHANGED <<motionVars, enabled, stopping, worker, accepting, waiting, preview,
                          closed, primary, cleanup, failed, raised, faults>>

\* The first readiness check, and the camera monitor.
CheckCamera == /\ stage = "check camera"
               /\ monitors' = [monitors EXCEPT !["camera"] = "running"]
               /\ stage' = "preview"
               /\ UNCHANGED <<motionVars, enabled, stopping, worker, accepting, waiting, preview,
                              closed, primary, cleanup, failed, raised, faults>>

\* A failure before the cleanup scope opens leaves the lifespan at once: whatever
\* has been started by then is left to the process, which ends with it.
StartupFails == /\ stage \in {"migrate", "observe", "check camera"}
                /\ Fault
                /\ raised' = {stage}
                /\ stage' = "ended"
                /\ UNCHANGED <<motionVars, enabled, monitors, stopping, worker, accepting, waiting,
                               preview, closed, primary, cleanup, failed>>

\* _attempt_preview_auto_start: a preview that cannot start is logged, and the
\* application serves without it.
StartPreview == /\ stage = "preview"
                /\ preview' \in IF "preview.auto_start" \in enabled THEN BOOLEAN ELSE {FALSE}
                /\ stage' = "worker"
                /\ UNCHANGED <<motionVars, enabled, monitors, stopping, worker, accepting, waiting,
                               closed, primary, cleanup, failed, raised, faults>>

\* The worker is there before anything can produce a trigger.
StartWorker == /\ stage = "worker"
               /\ IF "event_capture" \in enabled
                  THEN worker' = "parked" /\ accepting' = TRUE
                  ELSE UNCHANGED <<worker, accepting>>
               /\ stage' = "motion"
               /\ UNCHANGED <<motionVars, enabled, monitors, stopping, waiting, preview, closed,
                              primary, cleanup, failed, raised, faults>>

StartMotion == /\ stage = "motion"
               /\ motion' = IF "motion" \in enabled THEN "pacing" ELSE "absent"
               /\ stage' = "serving"
               /\ UNCHANGED <<broken, halt, subscribed, frame, reference, now, latest,
                              lastPersisted, lastMotionAt, row, motionRow>>
               /\ UNCHANGED <<enabled, monitors, stopping, worker, accepting, waiting, preview,
                              closed, primary, cleanup, failed, raised, faults>>

\* An unexpected failure of the preview start, of the first look at the admission
\* facts, or of serving: held, and cleanup runs first.
PrimaryFailure == /\ stage \in {"preview", "motion", "serving"}
                  /\ Fault
                  /\ primary' = {stage}
                  /\ preview' \in IF stage = "preview" THEN BOOLEAN ELSE {preview}
                  /\ stage' = "cleanup"
                  /\ UNCHANGED <<motionVars, enabled, monitors, stopping, worker, accepting, waiting,
                                 closed, cleanup, failed, raised>>

\* The server asks the application to stop.
StopServing == /\ stage = "serving"
               /\ stage' = "cleanup"
               /\ UNCHANGED <<motionVars, enabled, monitors, stopping, worker, accepting, waiting,
                              preview, closed, primary, cleanup, failed, raised, faults>>

-----------------------------------------------------------------------------
(* Shutdown: _shutdown_lifespan.                                           *)

\* Fault: a later failure takes the place of the first.
RecordsLast(f) == /\ failed' = failed \cup f
                  /\ cleanup' = IF f = {} THEN cleanup ELSE f

\* _record: every failure counts, the first one is kept.
Records(f) == /\ failed' = failed \cup f
              /\ cleanup' = IF cleanup = {} THEN f ELSE cleanup

\* Fault: everything is signalled at once.
SignalAll == /\ stage = "cleanup"
             /\ halt' = TRUE
             /\ stopping' = TRUE
             /\ stage' = "drain motion"
             /\ UNCHANGED <<motion, broken, subscribed, frame, reference, now, latest,
                            lastPersisted, lastMotionAt, row, motionRow>>
             /\ UNCHANGED <<enabled, monitors, worker, accepting, waiting, preview, closed,
                            primary, cleanup, failed, raised, faults>>

\* The motion monitor is signalled first, alone.
SignalMotion == /\ stage = "cleanup"
                /\ halt' = TRUE
                /\ stage' = "drain motion"
                /\ UNCHANGED <<motion, broken, subscribed, frame, reference, now, latest,
                               lastPersisted, lastMotionAt, row, motionRow>>
                /\ UNCHANGED <<enabled, monitors, stopping, worker, accepting, waiting, preview,
                               closed, primary, cleanup, failed, raised, faults>>

\* Its task has come to an end, with or without an exception.
DrainMotion == /\ stage = "drain motion"
               /\ motion \in {"absent", "done"}
               /\ Records(IF broken THEN {stage} ELSE {})
               /\ stage' = "retire"
               /\ UNCHANGED <<motionVars, enabled, monitors, stopping, worker, accepting, waiting,
                              preview, closed, primary, raised, faults>>

\* EventCaptureService.shutdown refuses new triggers and drops the waiting one...
RetireWorker == /\ stage = "retire"
                /\ accepting' = FALSE
                /\ waiting' = FALSE
                /\ stage' = "retiring"
                /\ UNCHANGED <<motionVars, enabled, monitors, stopping, worker, preview, closed,
                               primary, cleanup, failed, raised, faults>>

\* ...and waits for the worker to end.
WorkerRetired == /\ stage = "retiring" /\ worker # "busy"
                 /\ worker' = IF worker = "absent" THEN "absent" ELSE "ended"
                 /\ \/ failed' = failed /\ cleanup' = cleanup /\ UNCHANGED faults
                    \/ worker # "absent" /\ Fault /\ Records({"retire"})
                 /\ stage' = "signal"
                 /\ UNCHANGED <<motionVars, enabled, monitors, stopping, accepting, waiting, preview,
                                closed, primary, raised>>

\* Fault: the stop event of one monitor stands for all of them.
SignalOne == /\ stage = "signal"
             /\ stage' = "drain monitors"
             /\ monitors' = [monitors EXCEPT !["health"] = IF @ = "running" THEN "ended" ELSE @]
             /\ UNCHANGED <<motionVars, enabled, stopping, worker, accepting, waiting, preview,
                            closed, primary, cleanup, failed, raised, faults>>

\* Only now are the other monitors asked to stop.
SignalMonitors == /\ stage = "signal"
                  /\ stopping' = TRUE
                  /\ stage' = "drain monitors"
                  /\ UNCHANGED <<motionVars, enabled, monitors, worker, accepting, waiting, preview,
                                 closed, primary, cleanup, failed, raised, faults>>

\* Fault: gather without return_exceptions goes on at the first failure.
DrainUntilFailure ==
  /\ stage = "drain monitors"
  /\ LET ill == \E m \in Monitors : monitors[m] = "broken"
     IN /\ ill \/ \A m \in Monitors : monitors[m] # "running"
        /\ Records(IF ill THEN {stage} ELSE {})
  /\ stage' = "release camera"
  /\ UNCHANGED <<motionVars, enabled, monitors, stopping, worker, accepting, waiting,
                 preview, closed, primary, raised, faults>>

\* gather with return_exceptions: all of them have ended, however they did.
DrainMonitors == /\ stage = "drain monitors"
                 /\ \A m \in Monitors : monitors[m] # "running"
                 /\ Records(IF \E m \in Monitors : monitors[m] = "broken" THEN {stage} ELSE {})
                 /\ stage' = "release camera"
                 /\ UNCHANGED <<motionVars, enabled, monitors, stopping, worker, accepting, waiting,
                                preview, closed, primary, raised, faults>>

\* coordinator.shutdown releases the preview, or raises.
ReleaseCamera == /\ stage = "release camera"
                 /\ closed' = TRUE
                 /\ \/ preview' = FALSE /\ UNCHANGED <<cleanup, failed, faults>>
                    \/ Fault /\ Records({stage}) /\ preview' \in {FALSE, preview}
                 /\ stage' = "notify stop"
                 /\ UNCHANGED <<motionVars, enabled, monitors, stopping, worker, accepting, waiting,
                                primary, raised>>

\* The stop event is published.
NotifyStop == /\ stage = "notify stop"
              /\ \/ UNCHANGED <<cleanup, failed, faults>>
                 \/ Fault /\ Records({stage})
              /\ stage' = "record stop"
              /\ UNCHANGED <<motionVars, enabled, monitors, stopping, worker, accepting, waiting,
                             preview, closed, primary, raised>>

\* What leaves the lifespan: the failure of startup or serving before any of the
\* cleanup.
Outcome == IF primary # {} THEN primary ELSE cleanup'

\* The last observation is written, and the first failure of all is raised.
RecordStop == /\ stage = "record stop"
              /\ \/ UNCHANGED <<cleanup, failed, faults>>
                 \/ Fault /\ Records({stage})
              /\ raised' = Outcome
              /\ stage' = "ended"
              /\ UNCHANGED <<motionVars, enabled, monitors, stopping, worker, accepting, waiting,
                             preview, closed, primary>>

-----------------------------------------------------------------------------
(* What runs meanwhile.                                                    *)

\* A monitor's loop sees its stop event.
MonitorEnds(m) == /\ monitors[m] = "running" /\ stopping
                  /\ monitors' = [monitors EXCEPT ![m] = "ended"]
                  /\ UNCHANGED <<motionVars, enabled, stage, stopping, worker, accepting, waiting,
                                 preview, closed, primary, cleanup, failed, raised, faults>>

\* It is cancelled, or ended by a defect.
MonitorBreaks(m) == /\ monitors[m] = "running" /\ stage # "ended" /\ Fault
                    /\ monitors' = [monitors EXCEPT ![m] = "broken"]
                    /\ UNCHANGED <<motionVars, enabled, stage, stopping, worker, accepting, waiting,
                                   preview, closed, primary, cleanup, failed, raised>>

\* _publish_motion_transition: a notification, and motion becomes a trigger unless
\* the worker no longer accepts any or one is waiting already.
Triggers ==
  row' # row /\ (\E r \in row' : r.status = "motion_detected") /\ accepting

RunMotion == /\ MotionStep
             /\ waiting' = (waiting \/ Triggers)
             /\ UNCHANGED <<enabled, stage, monitors, stopping, worker, accepting, preview, closed,
                            primary, cleanup, failed, raised, faults>>

BreakMotion == /\ MotionFails
               /\ Fault
               /\ UNCHANGED <<enabled, stage, monitors, stopping, worker, accepting, waiting, preview,
                              closed, primary, cleanup, failed, raised>>

\* The worker takes the trigger and photographs through the coordinator...
BeginCapture == /\ worker = "parked" /\ waiting
                /\ worker' = "busy"
                /\ waiting' = FALSE
                /\ UNCHANGED <<motionVars, enabled, stage, monitors, stopping, accepting, preview,
                               closed, primary, cleanup, failed, raised, faults>>

\* ...and its threads come back.
EndCapture == /\ worker = "busy"
              /\ worker' = "parked"
              /\ UNCHANGED <<motionVars, enabled, stage, monitors, stopping, accepting, waiting,
                             preview, closed, primary, cleanup, failed, raised, faults>>

StartupStep == Migrate \/ Observe \/ CheckCamera \/ StartPreview \/ StartWorker \/ StartMotion

ShutdownStep == SignalMotion \/ DrainMotion \/ RetireWorker \/ WorkerRetired
                  \/ SignalMonitors \/ DrainMonitors \/ ReleaseCamera \/ NotifyStop
                  \/ RecordStop

Next == \/ StartupStep \/ StartupFails \/ PrimaryFailure \/ StopServing
        \/ ShutdownStep
        \/ RunMotion \/ BreakMotion \/ BeginCapture \/ EndCapture
        \/ \E m \in Monitors : MonitorEnds(m) \/ MonitorBreaks(m)

Init == MotionInit /\ LifeInit

\* The lifespan's coroutine and each task go on when what they wait for is there,
\* and a thread comes back: the read of a frame has a timeout, and so have the
\* processes of the camera.
Spec == /\ Init /\ [][Next]_allVars
        /\ WF_allVars(StartupStep \/ ShutdownStep)
        /\ WF_allVars(RunMotion \/ BreakMotion)
        /\ WF_allVars(EndCapture)
        /\ WF_allVars(\E m \in Monitors : MonitorEnds(m))

-----------------------------------------------------------------------------
(* Properties.                                                             *)

TypeOK == MotionTypeOK /\ LifeTypeOK


\* "Camera shutdown cannot begin while an automatic capture still owns -- or could
\* still ask for -- the camera", and the health picture stays current for as long
\* as one does: every part is stopped after those that use it.
UsersStopFirst ==
  /\ closed => worker \in {"absent", "ended"} /\ motion \in {"absent", "done"}
  /\ closed => \A m \in Monitors : monitors[m] # "running"
  /\ stopping => worker # "busy" /\ motion \in {"absent", "done"} /\ ~waiting
  /\ accepting => worker \in {"parked", "busy"}
  /\ worker = "ended" => motion \in {"absent", "done"}

\* What holds of the life of the service at any moment.
LifeInv == TypeOK /\ UsersStopFirst

\* A life that got as far as its cleanup scope ends with nothing of it running,
\* whichever stages failed: no task, no worker, no subscription, and no preview
\* process unless releasing the camera is what failed.
NothingIsLeftRunning ==
  stage = "ended" /\ closed =>
    /\ motion \in {"absent", "done"} /\ ~subscribed
    /\ worker \in {"absent", "ended"}
    /\ \A m \in Monitors : monitors[m] # "running"
    /\ preview => "release camera" \in failed

\* The failure that leaves the lifespan is the one an operator has to diagnose: the
\* one of startup or serving, else the first of the shutdown in stage order; and a
\* life without failures ends without an exception.
FirstFailureIsRaised ==
  stage = "ended" /\ closed =>
    raised = IF primary # {} THEN primary
             ELSE {Shutdown[i] : i \in {j \in DOMAIN Shutdown :
                     Shutdown[j] \in failed /\ \A k \in 1..(j - 1) : Shutdown[k] \notin failed}}

\* The docstring of run_motion_monitor: it analyses one frame per interval,
\* "isolating every per-cycle failure so the monitor -- and the application --
\* survive".
MotionSurvivesItsCycles ==
  stage = "serving" /\ "motion" \in enabled => motion \notin {"close", "done"}

\* A shutdown that has begun comes to its end.
ShutdownCompletes == stage = "cleanup" ~> stage = "ended"
=============================================================================
