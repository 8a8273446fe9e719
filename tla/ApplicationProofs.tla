------------------------- MODULE ApplicationProofs -------------------------
(***************************************************************************)
(* Machine-checked proofs about MotionMonitor and Application, for frames  *)
(* of any size, any thresholds, cooldown and clock, any configuration and  *)
(* any failures: what the motion timeline and its triggers say, what a     *)
(* verdict means, and in which order the service is taken down.            *)
(***************************************************************************)
EXTENDS Application, FiniteSetTheorems, TLAPS

Observed(S) == {[status |-> s, again |-> FALSE] : s \in S}

\* For as long as the monitor lives the observer's memory is what the database holds,
\* also after a write that failed, and no two observations in succession have the
\* same status; a monitor that has not begun, or is done, holds no subscription.
ObserverInv ==
  /\ motion # "done" => row = Observed(lastPersisted) /\ motionRow = lastMotionAt
  /\ motion = "absent" => row = {}
  /\ motion \in {"absent", "done"} => ~subscribed

Early == {"migrate", "observe", "check camera", "preview", "worker"}
Retired == {"signal", "drain monitors", "release camera", "notify stop", "record stop",
            "ended"}

\* What is running, by the stage the lifespan has reached.
StageInv ==
  /\ stage \in Early \cup {"motion"} => motion = "absent"
  /\ stage \in Early => worker = "absent" /\ ~accepting /\ ~waiting
  /\ stage \in {"retire", "retiring"} \cup Retired => motion \in {"absent", "done"}
  /\ stage \in {"retiring"} \cup Retired => ~accepting /\ ~waiting
  /\ stage \in Retired => worker \in {"absent", "ended"}
  /\ worker = "ended" => stage \in Retired
  /\ accepting => worker \in {"parked", "busy"}
  /\ stopping => stage \in Retired
  /\ closed => stage \in {"notify stop", "record stop", "ended"}
  /\ stage \in {"release camera", "notify stop", "record stop"} \/ closed
       => \A m \in Monitors : monitors[m] # "running"
  /\ stage \in {"notify stop", "record stop"} \/ closed
       => (preview => "release camera" \in failed)

FirstOf(F) == {Shutdown[i] : i \in {j \in DOMAIN Shutdown :
                 Shutdown[j] \in F /\ \A k \in 1..(j - 1) : Shutdown[k] \notin F}}

\* The stages of the shutdown fail in the order in which their failures count, and
\* the first of them is kept.
FailureInv ==
  /\ stage \in Early \cup {"motion", "serving", "cleanup", "drain motion"} => failed = {}
  /\ stage \in {"retire", "retiring"} => failed \subseteq {"drain motion"}
  /\ stage \in {"signal", "drain monitors"} => failed \subseteq {"drain motion", "retire"}
  /\ stage = "release camera" => failed \subseteq {"drain motion", "retire", "drain monitors"}
  /\ stage = "notify stop"
       => failed \subseteq {"drain motion", "retire", "drain monitors", "release camera"}
  /\ stage = "record stop"
       => failed \subseteq {"drain motion", "retire", "drain monitors", "release camera",
                            "notify stop"}
  /\ cleanup = FirstOf(failed)
  /\ stage = "ended" /\ closed => raised = IF primary # {} THEN primary ELSE cleanup

AppInv == TypeOK /\ ObserverInv /\ TimelineShowsActivity /\ StageInv /\ FailureInv

(***************************************************************************)
(* The stages.                                                             *)
(***************************************************************************)
LEMMA StagesAre ==
  /\ CleanupStages = {"drain motion", "retire", "drain monitors", "release camera",
                       "notify stop", "record stop"}
  /\ Stages = {"migrate", "observe", "check camera", "preview", "worker", "motion", "serving",
               "cleanup", "retiring", "signal", "ended"} \cup CleanupStages
<1>1. DOMAIN Shutdown = 1..6 /\ DOMAIN Startup = 1..6
  BY DEF Shutdown, Startup
<1>2. /\ Shutdown[1] = "drain motion" /\ Shutdown[2] = "retire"
      /\ Shutdown[3] = "drain monitors" /\ Shutdown[4] = "release camera"
      /\ Shutdown[5] = "notify stop" /\ Shutdown[6] = "record stop"
  BY DEF Shutdown
<1>3. /\ Startup[1] = "migrate" /\ Startup[2] = "observe" /\ Startup[3] = "check camera"
      /\ Startup[4] = "preview" /\ Startup[5] = "worker" /\ Startup[6] = "motion"
  BY DEF Startup
<1>4. 1..6 = {1, 2, 3, 4, 5, 6}
  OBVIOUS
<1>5. CleanupStages = {"drain motion", "retire", "drain monitors", "release camera",
                       "notify stop", "record stop"}
  BY <1>1, <1>2, <1>4 DEF CleanupStages
<1>6. {Startup[i] : i \in DOMAIN Startup}
        = {"migrate", "observe", "check camera", "preview", "worker", "motion"}
  BY <1>1, <1>3, <1>4
<1> QED
  BY <1>5, <1>6 DEF Stages

\* The first of the shutdown's stages that is in F.
LEMMA FirstOfIs ==
  ASSUME NEW F
  PROVE  FirstOf(F) = IF "drain motion" \in F THEN {"drain motion"}
                      ELSE IF "retire" \in F THEN {"retire"}
                      ELSE IF "drain monitors" \in F THEN {"drain monitors"}
                      ELSE IF "release camera" \in F THEN {"release camera"}
                      ELSE IF "notify stop" \in F THEN {"notify stop"}
                      ELSE IF "record stop" \in F THEN {"record stop"} ELSE {}
<1> DEFINE Firsts == {j \in DOMAIN Shutdown :
                        Shutdown[j] \in F /\ \A k \in 1..(j - 1) : Shutdown[k] \notin F}
<1>1. DOMAIN Shutdown = {1, 2, 3, 4, 5, 6}
  BY DEF Shutdown
<1>2. /\ Shutdown[1] = "drain motion" /\ Shutdown[2] = "retire"
      /\ Shutdown[3] = "drain monitors" /\ Shutdown[4] = "release camera"
      /\ Shutdown[5] = "notify stop" /\ Shutdown[6] = "record stop"
  BY DEF Shutdown
<1>3. /\ 1..(1 - 1) = {} /\ 1..(2 - 1) = {1} /\ 1..(3 - 1) = {1, 2}
      /\ 1..(4 - 1) = {1, 2, 3} /\ 1..(5 - 1) = {1, 2, 3, 4}
      /\ 1..(6 - 1) = {1, 2, 3, 4, 5}
  OBVIOUS
<1>4. Firsts = IF "drain motion" \in F THEN {1}
               ELSE IF "retire" \in F THEN {2}
               ELSE IF "drain monitors" \in F THEN {3}
               ELSE IF "release camera" \in F THEN {4}
               ELSE IF "notify stop" \in F THEN {5}
               ELSE IF "record stop" \in F THEN {6} ELSE {}
  <2>1. /\ 1 \in Firsts <=> "drain motion" \in F
        /\ 2 \in Firsts <=> "retire" \in F /\ "drain motion" \notin F
        /\ 3 \in Firsts <=> "drain monitors" \in F /\ "drain motion" \notin F /\ "retire" \notin F
        /\ 4 \in Firsts <=> "release camera" \in F /\ "drain motion" \notin F
                              /\ "retire" \notin F /\ "drain monitors" \notin F
        /\ 5 \in Firsts <=> "notify stop" \in F /\ "drain motion" \notin F
                              /\ "retire" \notin F /\ "drain monitors" \notin F
                              /\ "release camera" \notin F
        /\ 6 \in Firsts <=> "record stop" \in F /\ "drain motion" \notin F
                              /\ "retire" \notin F /\ "drain monitors" \notin F
                              /\ "release camera" \notin F /\ "notify stop" \notin F
    BY <1>1, <1>2, <1>3
  <2>2. Firsts \subseteq {1, 2, 3, 4, 5, 6}
    BY <1>1
  <2> HIDE DEF Firsts
  <2> QED
    BY <2>1, <2>2
<1>5. FirstOf(F) = {Shutdown[i] : i \in Firsts}
  BY DEF FirstOf
<1> HIDE DEF Firsts
<1>6. (\A k : Firsts = {k} => FirstOf(F) = {Shutdown[k]}) /\ (Firsts = {} => FirstOf(F) = {})
  BY <1>5
<1> QED
  BY <1>2, <1>4, <1>6

(***************************************************************************)
(* The motion monitor.                                                     *)
(***************************************************************************)
\* Only the lifespan's own signals reach the motion monitor from outside.
LEMMA MotionChanges ==
  ASSUME [Next]_allVars
  PROVE  \/ UNCHANGED motionVars
         \/ MotionStep \/ MotionFails
         \/ StartMotion \/ SignalMotion
BY DEF Next, allVars, motionVars, StartupStep, ShutdownStep, Migrate, Observe, CheckCamera,
   StartPreview, StartWorker, StartupFails, PrimaryFailure, StopServing, DrainMotion,
   RetireWorker, WorkerRetired, SignalMonitors, DrainMonitors, ReleaseCamera, NotifyStop,
   RecordStop, RunMotion, BreakMotion, BeginCapture, EndCapture, MonitorEnds, MonitorBreaks

LEMMA EvaluatesTo ==
  ASSUME MotionTypeOK, NEW status, Evaluates(status)
  PROVE  status \in Statuses /\ (reference' = reference \/ reference' = frame)
<1>1. ASSUME NEW r \in Frames, NEW f \in Frames
      PROVE  Verdicts[r][f] \in {"global_change", "motion_detected", "no_motion"}
  <2>1. PICK g \in BOOLEAN : g <=> IsGlobalChange(Compare(r, f))
    OBVIOUS
  <2>2. PICK m \in BOOLEAN : m <=> IsMotion(Compare(r, f))
    OBVIOUS
  <2>3. Verdict(r, f) \in {"global_change", "motion_detected", "no_motion"}
    BY <2>1, <2>2, Zenon DEF Verdict
  <2> QED
    BY <2>3 DEF Verdicts
<1> QED
  BY <1>1 DEF Evaluates, Statuses, MotionTypeOK, AtMostOne

LEMMA MotionTyped ==
  ASSUME MotionTypeOK, MotionStep \/ MotionFails
  PROVE  MotionTypeOK'
<1> USE DEF MotionTypeOK, AtMostOne
<1>1. CASE BeginCycle \/ LeaveLoop \/ CloseSource
  BY <1>1 DEF BeginCycle, LeaveLoop, CloseSource
<1>2. CASE ReadFrame
  BY <1>2 DEF ReadFrame
<1>3. ASSUME NEW status \in Statuses, NEW t \in Times,
             Conclude(status, t) \/ ConcludeFails(status, t),
             subscribed' \in BOOLEAN, reference' \in AtMostOne(Frames)
      PROVE  MotionTypeOK'
  BY <1>3 DEF Conclude, ConcludeFails, Persists, Observes
<1>4. CASE Evaluate \/ EvaluateFails
  <2>1. PICK status \in Statuses, t \in now :
          Evaluates(status) /\ (Conclude(status, t) \/ ConcludeFails(status, t))
    BY <1>4 DEF Evaluate, EvaluateFails
  <2>2. subscribed' \in BOOLEAN /\ reference' \in AtMostOne(Frames)
    BY <1>4, <2>1, EvaluatesTo DEF Evaluate, EvaluateFails
  <2> QED
    BY <1>3, <2>1, <2>2
<1>5. ASSUME NEW t \in Times, NoFrame(t) \/ NoFrameFails(t)
      PROVE  MotionTypeOK'
  <2>1. subscribed' \in BOOLEAN /\ reference' \in AtMostOne(Frames)
    BY <1>5 DEF NoFrame, NoFrameFails
  <2> QED
    BY <1>3, <1>5, <2>1 DEF NoFrame, NoFrameFails, Statuses
<1> QED
  BY <1>1, <1>2, <1>4, <1>5, <1>3 DEF MotionStep, MotionFails

LEMMA MotionObserved ==
  ASSUME MotionTypeOK, ObserverInv, TimelineShowsActivity, MotionStep \/ MotionFails
  PROVE  ObserverInv' /\ TimelineShowsActivity' /\ motion \notin {"absent", "done"}
           /\ motion' # "absent"
<1> USE DEF ObserverInv, TimelineShowsActivity
<1>1. CASE BeginCycle \/ LeaveLoop \/ CloseSource
  BY <1>1 DEF BeginCycle, LeaveLoop, CloseSource
<1>2. CASE ReadFrame
  BY <1>2 DEF ReadFrame
\* A status that is persisted is another than the one before.
<1>6. ASSUME NEW status, NEW t, ShouldPersist(status, t), Persists(status, t),
             row = Observed(lastPersisted), motionRow = lastMotionAt
      PROVE  /\ row' = {[status |-> status, again |-> FALSE]}
             /\ row' = Observed(lastPersisted') /\ motionRow' = lastMotionAt'
  <2>1. \A r \in row : r.status # status
    BY <1>6 DEF ShouldPersist, MotionTypeOK, AtMostOne, Observed
  <2> QED
    BY <1>6, <2>1 DEF Persists, Observes, Observed
<1>3. ASSUME NEW status \in Statuses, NEW t \in Times, motion \in {"read", "evaluate"},
             Conclude(status, t) \/ ConcludeFails(status, t)
      PROVE  ObserverInv' /\ TimelineShowsActivity'
  <2>1. CASE ConcludeFails(status, t)
    BY <1>3, <2>1 DEF ConcludeFails
  <2>2. CASE Conclude(status, t) /\ ShouldPersist(status, t)
    <3>1. /\ row' = {[status |-> status, again |-> FALSE]}
          /\ row' = Observed(lastPersisted') /\ motionRow' = lastMotionAt'
      BY <1>3, <1>6, <2>2 DEF Conclude
    <3> QED
      BY <2>2, <3>1 DEF Conclude
  <2>3. CASE Conclude(status, t) /\ ~ShouldPersist(status, t)
    <3>1. /\ latest' = status /\ now' = {t} /\ motion' = "pacing"
          /\ UNCHANGED <<lastPersisted, lastMotionAt, row, motionRow>>
      BY <2>3 DEF Conclude
    <3>2. \/ row = Observed({status})
          \/ status = "motion_detected" /\ \E m \in motionRow : ~(t - m >= Cooldown)
      BY <1>3, <2>3 DEF ShouldPersist
    <3>3. \A m \in motionRow : m \in Nat /\ t \in Nat /\ Cooldown \in Nat
      BY MotionAssumption DEF MotionTypeOK, AtMostOne, ValidThresholds
    <3>4. row = Observed({status}) => \E r \in row : r.status = status
      <4>1. [status |-> status, again |-> FALSE] \in Observed({status})
        BY DEF Observed
      <4>2. [status |-> status, again |-> FALSE].status = status
        OBVIOUS
      <4> QED
        BY <4>1, <4>2
    <3> QED
      BY <1>3, <3>1, <3>2, <3>3, <3>4
  <2> QED
    BY <1>3, <2>1, <2>2, <2>3
<1>4. CASE Evaluate \/ EvaluateFails
  <2>1. PICK status \in Statuses, t \in now : Conclude(status, t) \/ ConcludeFails(status, t)
    BY <1>4 DEF Evaluate, EvaluateFails
  <2>2. t \in Times
    BY DEF MotionTypeOK, AtMostOne
  <2>3. motion = "evaluate" /\ motion' \in {"pacing", "close"}
    BY <1>4, <2>1 DEF Evaluate, EvaluateFails, Conclude, ConcludeFails
  <2> QED
    BY <1>3, <2>1, <2>2, <2>3
<1>5. ASSUME NEW t \in Times, NoFrame(t) \/ NoFrameFails(t)
      PROVE  ObserverInv' /\ TimelineShowsActivity' /\ motion \notin {"absent", "done"}
               /\ motion' # "absent"
  BY <1>3, <1>5 DEF NoFrame, NoFrameFails, Conclude, ConcludeFails, Statuses
<1> QED
  BY <1>1, <1>2, <1>4, <1>5 DEF MotionStep, MotionFails

LEMMA ObserverStays ==
  ASSUME MotionTypeOK, ObserverInv, TimelineShowsActivity, StageInv, [Next]_allVars
  PROVE  MotionTypeOK' /\ ObserverInv' /\ TimelineShowsActivity'
<1>1. CASE UNCHANGED motionVars
  BY <1>1 DEF MotionTypeOK, ObserverInv, TimelineShowsActivity, motionVars
<1>2. CASE StartMotion
  BY <1>2 DEF StartMotion, MotionTypeOK, ObserverInv, TimelineShowsActivity, StageInv
<1>3. CASE SignalMotion
  BY <1>3 DEF SignalMotion, MotionTypeOK, ObserverInv, TimelineShowsActivity
<1> QED
  BY <1>1, <1>2, <1>3, MotionTyped, MotionObserved, MotionChanges

(***************************************************************************)
(* The life of the service.                                                *)
(***************************************************************************)
LEMMA LifeTyped ==
  ASSUME LifeTypeOK, MotionTypeOK, [Next]_allVars
  PROVE  LifeTypeOK'
<1>1. /\ {} \in AtMostOne(Stages) /\ {} \in AtMostOne(CleanupStages)
      /\ \A st \in Stages : {st} \in AtMostOne(Stages)
      /\ \A st \in CleanupStages : {st} \in AtMostOne(CleanupStages)
      /\ AtMostOne(CleanupStages) \subseteq AtMostOne(Stages)
  BY StagesAre DEF AtMostOne
<1>2. Fault => faults' \in 0..MaxFaults
  BY ApplicationAssumption DEF Fault, LifeTypeOK
<1>3. /\ {"migrate", "observe", "check camera", "preview", "worker", "motion", "serving",
          "cleanup", "retiring", "signal", "ended"} \subseteq Stages
      /\ {"drain motion", "retire", "drain monitors", "release camera", "notify stop",
          "record stop"} \subseteq CleanupStages
      /\ CleanupStages \subseteq Stages
  BY StagesAre
<1>4. ASSUME NEW st \in CleanupStages, NEW f \in {{}, {st}}, Records(f)
      PROVE  cleanup' \in AtMostOne(CleanupStages) /\ failed' \subseteq CleanupStages
  BY <1>1, <1>4 DEF Records, LifeTypeOK
<1> USE DEF LifeTypeOK
<1>5. CASE Migrate \/ Observe \/ CheckCamera \/ StopServing
  BY <1>3, <1>5 DEF Migrate, Observe, CheckCamera, StopServing
<1>6. CASE StartPreview
  BY <1>3, <1>6 DEF StartPreview
<1>7. CASE StartWorker \/ StartMotion
  BY <1>3, <1>7 DEF StartWorker, StartMotion
<1>8. CASE StartupFails
  BY <1>1, <1>2, <1>3, <1>8 DEF StartupFails
<1>9. CASE PrimaryFailure
  BY <1>1, <1>2, <1>3, <1>9 DEF PrimaryFailure
<1>10. CASE SignalMotion \/ RetireWorker \/ SignalMonitors
  BY <1>3, <1>10 DEF SignalMotion, RetireWorker, SignalMonitors
<1>11. CASE DrainMotion
  <2>1. cleanup' \in AtMostOne(CleanupStages) /\ failed' \subseteq CleanupStages
    BY <1>3, <1>4, <1>11 DEF DrainMotion
  <2> QED
    BY <1>3, <1>11, <2>1 DEF DrainMotion
<1>12. CASE DrainMonitors
  <2>1. cleanup' \in AtMostOne(CleanupStages) /\ failed' \subseteq CleanupStages
    BY <1>3, <1>4, <1>12 DEF DrainMonitors
  <2> QED
    BY <1>3, <1>12, <2>1 DEF DrainMonitors
<1>13. CASE WorkerRetired
  <2>1. cleanup' \in AtMostOne(CleanupStages) /\ failed' \subseteq CleanupStages
    BY <1>3, <1>4, <1>13 DEF WorkerRetired
  <2> QED
    BY <1>2, <1>3, <1>13, <2>1 DEF WorkerRetired
<1>14. CASE ReleaseCamera
  <2>1. cleanup' \in AtMostOne(CleanupStages) /\ failed' \subseteq CleanupStages
    BY <1>3, <1>4, <1>14 DEF ReleaseCamera
  <2> QED
    BY <1>2, <1>3, <1>14, <2>1 DEF ReleaseCamera
<1>22. CASE NotifyStop
  <2>1. cleanup' \in AtMostOne(CleanupStages) /\ failed' \subseteq CleanupStages
    BY <1>3, <1>4, <1>22 DEF NotifyStop
  <2> QED
    BY <1>2, <1>3, <1>22, <2>1 DEF NotifyStop
<1>15. CASE RecordStop
  <2>1. cleanup' \in AtMostOne(CleanupStages) /\ failed' \subseteq CleanupStages
    BY <1>3, <1>4, <1>15 DEF RecordStop
  <2>2. raised' \in AtMostOne(Stages)
    BY <1>1, <1>15, <2>1 DEF RecordStop, Outcome
  <2> QED
    BY <1>2, <1>3, <1>15, <2>1, <2>2 DEF RecordStop
<1>16. CASE RunMotion
  BY <1>16 DEF RunMotion
<1>17. CASE BreakMotion
  BY <1>2, <1>17 DEF BreakMotion
<1>18. CASE BeginCapture \/ EndCapture
  BY <1>18 DEF BeginCapture, EndCapture
<1>19. ASSUME NEW m \in Monitors, MonitorEnds(m)
       PROVE  LifeTypeOK'
  BY <1>19 DEF MonitorEnds
<1>20. ASSUME NEW m \in Monitors, MonitorBreaks(m)
       PROVE  LifeTypeOK'
  BY <1>2, <1>20 DEF MonitorBreaks
<1>21. CASE UNCHANGED allVars
  BY <1>21 DEF allVars, lifeVars
<1> QED
  BY <1>5, <1>6, <1>7, <1>8, <1>9, <1>10, <1>11, <1>12, <1>13, <1>14, <1>15, <1>16, <1>17,
     <1>18, <1>19, <1>20, <1>21, <1>22 DEF Next, StartupStep, ShutdownStep

LEMMA StageStays ==
  ASSUME TypeOK, ObserverInv, TimelineShowsActivity, StageInv, [Next]_allVars
  PROVE  StageInv'
<1> USE DEF StageInv, Early, Retired
<1>0. ASSUME NEW st \in (Early \cup {"motion"}) \ {"migrate"}, stage \in Early, stage' = st,
             UNCHANGED <<motion, worker, accepting, waiting, stopping, closed>>
      PROVE  StageInv'
  BY <1>0
<1>1. CASE Migrate \/ CheckCamera \/ StartPreview \/ Observe
  BY <1>0, <1>1 DEF Migrate, CheckCamera, StartPreview, Observe, motionVars
<1>2. CASE StartWorker
  BY <1>2 DEF StartWorker, motionVars
<1>3. CASE StartMotion
  BY <1>3 DEF StartMotion
<1>4. CASE StartupFails
  BY <1>4 DEF StartupFails, motionVars
<1>5. CASE PrimaryFailure \/ StopServing
  <2>1. CASE StopServing
    BY <1>5, <2>1 DEF StopServing, motionVars
  <2>2. CASE PrimaryFailure
    <3>1. UNCHANGED <<motion, worker, accepting, waiting, monitors, stopping, closed>>
      BY <2>2 DEF PrimaryFailure, motionVars
    <3>2. stage \in {"preview", "motion", "serving"} /\ stage' = "cleanup" /\ ~closed
      BY <2>2 DEF PrimaryFailure, motionVars
    <3>3. (stage \in Early \cup {"motion"} => motion = "absent")'
      BY <3>1, <3>2
    <3>4. (worker = "ended" => stage \in Retired)'
      BY <3>1, <3>2
    <3>5. (accepting => worker \in {"parked", "busy"})'
      BY <3>1, <3>2
    <3>6. (stopping => stage \in Retired)'
      BY <3>1, <3>2
    <3>7. ~closed'
      BY <3>1, <3>2
    <3> QED
      BY <3>1, <3>2, <3>3, <3>4, <3>5, <3>6, <3>7
  <2> QED
    BY <1>5, <2>1, <2>2
<1>6. CASE SignalMotion
  BY <1>6 DEF SignalMotion
<1>7. CASE DrainMotion
  BY <1>7 DEF DrainMotion, motionVars
<1>8. CASE RetireWorker
  BY <1>8 DEF RetireWorker, motionVars
<1>9. CASE WorkerRetired
  BY <1>9 DEF WorkerRetired, motionVars, TypeOK, LifeTypeOK
<1>10. CASE SignalMonitors
  BY <1>10 DEF SignalMonitors, motionVars
<1>11. CASE DrainMonitors
  BY <1>11 DEF DrainMonitors, motionVars
<1>12. CASE ReleaseCamera
  BY <1>12 DEF ReleaseCamera, Records, motionVars
<1>13. CASE NotifyStop \/ RecordStop
  <2>1. CASE NotifyStop
    <3>1. /\ stage = "notify stop" /\ stage' = "record stop" /\ failed \subseteq failed'
          /\ UNCHANGED <<motion, monitors, stopping, worker, accepting, waiting, preview, closed>>
      BY <2>1 DEF NotifyStop, Records, motionVars
    <3> QED
      BY <3>1
  <2>2. CASE RecordStop
    BY <2>2 DEF RecordStop, Records, motionVars
  <2> QED
    BY <1>13, <2>1, <2>2
<1>14. CASE RunMotion
  <2>1. motion \notin {"absent", "done"} /\ motion' # "absent"
    BY <1>14, MotionObserved DEF RunMotion, TypeOK
  <2> QED
    BY <1>14, <2>1 DEF RunMotion, Triggers
<1>15. CASE BreakMotion
  <2>1. motion \notin {"absent", "done"} /\ motion' # "absent"
    BY <1>15, MotionObserved DEF BreakMotion, TypeOK
  <2> QED
    BY <1>15, <2>1 DEF BreakMotion
<1>16. CASE BeginCapture \/ EndCapture
  <2>1. UNCHANGED <<motion, stage, accepting, stopping, closed, monitors, preview, failed>>
    BY <1>16 DEF BeginCapture, EndCapture, motionVars
  <2>2. /\ worker \in {"parked", "busy"} /\ worker' \in {"parked", "busy"}
        /\ waiting' = waiting \/ waiting' = FALSE
    BY <1>16 DEF BeginCapture, EndCapture, motionVars
  <2>3. stage' \notin Early /\ stage' \notin Retired /\ ~stopping'
    BY <2>1, <2>2
  <2>4. ~closed' /\ stage' \notin {"release camera", "notify stop", "record stop"}
    BY <2>1, <2>3
  <2>5. (/\ stage \in Early \cup {"motion"} => motion = "absent"
         /\ stage \in {"retire", "retiring"} \cup Retired => motion \in {"absent", "done"})'
    BY <2>1
  <2>6. (stage \in {"retiring"} \cup Retired => ~accepting /\ ~waiting)'
    BY <2>1, <2>2, <2>3
  <2> QED
    BY <2>2, <2>3, <2>4, <2>5, <2>6
<1>17. ASSUME NEW m \in Monitors, MonitorEnds(m) \/ MonitorBreaks(m)
       PROVE  StageInv'
  <2>1. UNCHANGED <<motion, stage, worker, accepting, waiting, stopping, closed, preview, failed>>
    BY <1>17 DEF MonitorEnds, MonitorBreaks, motionVars
  <2>2. monitors[m] = "running" /\ \A n \in Monitors : monitors'[n] = "running" => monitors[n] = "running"
    BY <1>17 DEF MonitorEnds, MonitorBreaks, TypeOK, LifeTypeOK
  <2> QED
    BY <2>1, <2>2
<1>18. CASE UNCHANGED allVars
  BY <1>18 DEF allVars, lifeVars, motionVars
<1> QED
  BY <1>1, <1>2, <1>3, <1>4, <1>5, <1>6, <1>7, <1>8, <1>9, <1>10, <1>11, <1>12, <1>13, <1>14,
     <1>15, <1>16, <1>17, <1>18 DEF Next, StartupStep, ShutdownStep

\* A stage that fails after F is the first to fail only when nothing of F has failed.
LEMMA LaterFailure ==
  ASSUME NEW F, NEW st,
         \/ st = "drain motion" /\ F = {}
         \/ st = "retire" /\ F \subseteq {"drain motion"}
         \/ st = "drain monitors" /\ F \subseteq {"drain motion", "retire"}
         \/ st = "release camera" /\ F \subseteq {"drain motion", "retire", "drain monitors"}
         \/ st = "notify stop"
              /\ F \subseteq {"drain motion", "retire", "drain monitors", "release camera"}
         \/ st = "record stop"
              /\ F \subseteq {"drain motion", "retire", "drain monitors", "release camera",
                              "notify stop"}
  PROVE  FirstOf(F \cup {st}) = IF FirstOf(F) = {} THEN {st} ELSE FirstOf(F)
BY FirstOfIs

LEMMA FailureStays ==
  ASSUME TypeOK, StageInv, FailureInv, [Next]_allVars
  PROVE  FailureInv'
<1> USE DEF FailureInv, Early
<1>0. ASSUME UNCHANGED <<stage, failed, cleanup, primary, raised, closed>>
      PROVE  FailureInv'
  BY <1>0
<1>1. CASE StartupStep \/ StartupFails \/ StopServing \/ PrimaryFailure
  <2>1. UNCHANGED <<failed, cleanup, closed>> /\ failed = {} /\ ~closed
    BY <1>1 DEF StartupStep, Migrate, Observe, CheckCamera, StartPreview, StartWorker, StartMotion,
       StartupFails, StopServing, PrimaryFailure, StageInv
  <2> QED
    BY <2>1
<1>2. CASE SignalMotion \/ RetireWorker \/ SignalMonitors
  BY <1>2 DEF SignalMotion, RetireWorker, SignalMonitors
<1>3. ASSUME NEW st, NEW f \in {{}, {st}}, Records(f),
             \/ st = "drain motion" /\ failed = {}
             \/ st = "retire" /\ failed \subseteq {"drain motion"}
             \/ st = "drain monitors" /\ failed \subseteq {"drain motion", "retire"}
             \/ st = "release camera"
                  /\ failed \subseteq {"drain motion", "retire", "drain monitors"}
             \/ st = "notify stop" /\ failed
                  \subseteq {"drain motion", "retire", "drain monitors", "release camera"}
             \/ st = "record stop" /\ failed
                  \subseteq {"drain motion", "retire", "drain monitors", "release camera",
                             "notify stop"}
      PROVE  cleanup' = FirstOf(failed') /\ failed' \subseteq failed \cup {st}
  <2>1. CASE f = {}
    <3>1. failed' = failed /\ cleanup' = cleanup
      BY <1>3, <2>1 DEF Records
    <3> QED
      BY <3>1
  <2>2. CASE f = {st}
    <3>1. failed' = failed \cup {st} /\ cleanup' = IF cleanup = {} THEN {st} ELSE cleanup
      BY <1>3, <2>2 DEF Records
    <3>2. FirstOf(failed \cup {st}) = IF FirstOf(failed) = {} THEN {st} ELSE FirstOf(failed)
      BY <1>3, LaterFailure
    <3> QED
      BY <3>1, <3>2
  <2> QED
    BY <1>3, <2>1, <2>2
<1>4. CASE DrainMotion
  BY <1>3, <1>4 DEF DrainMotion
<1>5. CASE WorkerRetired
  BY <1>3, <1>5 DEF WorkerRetired
<1>6. CASE DrainMonitors
  BY <1>3, <1>6 DEF DrainMonitors
<1>7. CASE ReleaseCamera
  BY <1>3, <1>7 DEF ReleaseCamera
<1>12. CASE NotifyStop
  BY <1>3, <1>12 DEF NotifyStop
<1>8. CASE RecordStop
  <2>1. cleanup' = FirstOf(failed')
    BY <1>3, <1>8 DEF RecordStop
  <2> QED
    BY <1>8, <2>1 DEF RecordStop, Outcome
<1>9. CASE RunMotion \/ BreakMotion \/ BeginCapture \/ EndCapture
  BY <1>0, <1>9 DEF RunMotion, BreakMotion, BeginCapture, EndCapture
<1>10. ASSUME NEW m \in Monitors, MonitorEnds(m) \/ MonitorBreaks(m)
       PROVE  FailureInv'
  BY <1>0, <1>10 DEF MonitorEnds, MonitorBreaks
<1>11. CASE UNCHANGED allVars
  BY <1>11 DEF allVars, lifeVars
<1> QED
  BY <1>1, <1>2, <1>4, <1>5, <1>6, <1>7, <1>8, <1>9, <1>10, <1>11, <1>12 DEF Next, ShutdownStep

(***************************************************************************)
(* The verdict: when more than half of the scene changes by one amount,    *)
(* that amount is the median, which is what the comparison subtracts.      *)
(***************************************************************************)
LEMMA PixelSets ==
  ASSUME NEW A \in SUBSET (1..Pixels), NEW B \in SUBSET (1..Pixels)
  PROVE  /\ Cardinality(A) \in Nat /\ Cardinality(B) \in Nat
         /\ A \subseteq B => Cardinality(A) <= Cardinality(B)
         /\ A \cap B = {} => Cardinality(A) + Cardinality(B) <= Pixels
<1>1. Pixels \in Nat
  BY MotionAssumption DEF ValidThresholds
<1>2. IsFiniteSet(1..Pixels) /\ Cardinality(1..Pixels) = Pixels
  BY <1>1, FS_Interval
<1>3. IsFiniteSet(A) /\ IsFiniteSet(B) /\ IsFiniteSet(A \cup B)
  BY <1>2, FS_Subset
<1>4. Cardinality(A) \in Nat /\ Cardinality(B) \in Nat
  BY <1>3, FS_CardinalityType
<1>5. A \subseteq B => Cardinality(A) <= Cardinality(B)
  BY <1>3, FS_Subset
<1>6. ASSUME A \cap B = {}
      PROVE  Cardinality(A) + Cardinality(B) <= Pixels
  <2>1. Cardinality(A \cup B) = Cardinality(A) + Cardinality(B) - Cardinality(A \cap B)
    BY <1>3, FS_Union
  <2>2. Cardinality(A \cap B) = 0
    BY <1>6, FS_EmptySet
  <2>3. Cardinality(A \cup B) <= Cardinality(1..Pixels)
    BY <1>2, FS_Subset
  <2> QED
    BY <1>2, <1>4, <2>1, <2>2, <2>3
<1> QED
  BY <1>4, <1>5, <1>6

LEMMA BackgroundIsMedian ==
  ASSUME NEW d \in [1..Pixels -> Int], NEW c \in Backgrounds(d)
  PROVE  Median(d) = c
<1> DEFINE Values == {d[p] : p \in 1..Pixels}
           At == {p \in 1..Pixels : d[p] = c}
           UpTo(m) == {p \in 1..Pixels : d[p] <= m}
           Below(m) == {p \in 1..Pixels : d[p] < m}
           IsMedian(m) == /\ 2 * Cardinality(UpTo(m)) >= Pixels
                          /\ 2 * Cardinality(Below(m)) < Pixels
<1>1. Pixels \in Nat
  BY MotionAssumption DEF ValidThresholds
<1>2. c \in Values /\ 2 * Cardinality(At) > Pixels
  BY DEF Backgrounds
<1>3. Values \subseteq Int
  OBVIOUS
<1>4. At \in SUBSET (1..Pixels) /\ \A m : /\ UpTo(m) \in SUBSET (1..Pixels)
                                          /\ Below(m) \in SUBSET (1..Pixels)
  OBVIOUS
<1>5. /\ At \subseteq UpTo(c) /\ Below(c) \cap At = {}
      /\ \A m \in Values : m < c => UpTo(m) \cap At = {}
      /\ \A m \in Values : c < m => At \subseteq Below(m)
  BY <1>2, <1>3
<1> HIDE DEF Values, At, UpTo, Below
<1>6. Cardinality(At) \in Nat /\ \A m : /\ Cardinality(UpTo(m)) \in Nat
                                        /\ Cardinality(Below(m)) \in Nat
  BY <1>4, PixelSets
<1>7. IsMedian(c)
  <2>1. Cardinality(At) <= Cardinality(UpTo(c))
    BY <1>4, <1>5, PixelSets
  <2>2. Cardinality(Below(c)) + Cardinality(At) <= Pixels
    BY <1>4, <1>5, PixelSets
  <2> QED
    BY <1>1, <1>2, <1>6, <2>1, <2>2
<1>8. ASSUME NEW m \in Values, IsMedian(m)
      PROVE  m = c
  <2>1. CASE m < c
    <3>1. Cardinality(UpTo(m)) + Cardinality(At) <= Pixels
      BY <1>4, <1>5, <2>1, PixelSets
    <3> QED
      BY <1>1, <1>2, <1>6, <1>8, <3>1
  <2>2. CASE c < m
    <3>1. Cardinality(At) <= Cardinality(Below(m))
      BY <1>4, <1>5, <2>2, PixelSets
    <3> QED
      BY <1>1, <1>2, <1>6, <1>8, <3>1
  <2> QED
    BY <1>2, <1>3, <2>1, <2>2
<1>9. Median(d) = CHOOSE m \in Values : IsMedian(m)
  BY DEF Median, Values, UpTo, Below
<1> HIDE DEF IsMedian
<1> QED
  BY <1>2, <1>7, <1>8, <1>9

LEMMA DifferencesTyped ==
  ASSUME NEW r \in Frames, NEW f \in Frames
  PROVE  Differences(r, f) \in [1..Pixels -> Int]
<1>1. r \in [1..Pixels -> Luma] /\ f \in [1..Pixels -> Luma]
  BY MotionAssumption
<1>2. ASSUME NEW p \in 1..Pixels
      PROVE  f[p] - r[p] \in Int
  <2>1. PICK x \in 0..255, y \in 0..255 : x = f[p] /\ y = r[p]
    BY <1>1 DEF Luma
  <2>2. x - y \in Int
    OBVIOUS
  <2> QED
    BY <2>1, <2>2, Zenon
<1> QED
  BY <1>2 DEF Differences

\* Whatever the exposure has added to the whole scene, motion is a large subject.
LEMMA VerdictIsSubject ==
  ASSUME NEW r \in Frames, NEW f \in Frames, NEW c \in Backgrounds(Differences(r, f)),
         Verdict(r, f) \in {"motion_detected", "no_motion"}
  PROVE  Verdict(r, f) = "motion_detected"
           <=> Cardinality(Subject(Differences(r, f), c)) > MotionThreshold
<1> DEFINE d == Differences(r, f)
           cmp == Compare(r, f)
<1>1. d \in [1..Pixels -> Int]
  BY DifferencesTyped
<1>2. cmp.ratio = Cardinality(Subject(d, c))
  <2>1. cmp.ratio = ChangedPixels(d, Median(d))
    BY DEF Compare
  <2>2. Median(d) = c
    BY <1>1, BackgroundIsMedian
  <2> QED
    BY <2>1, <2>2 DEF ChangedPixels, Subject
<1>3. Verdict(r, f) = CASE IsGlobalChange(cmp) -> "global_change"
                        [] ~IsGlobalChange(cmp) /\ IsMotion(cmp) -> "motion_detected"
                        [] OTHER -> "no_motion"
  BY DEF Verdict
<1> HIDE DEF cmp
<1>4. PICK g \in BOOLEAN : g <=> IsGlobalChange(cmp)
  OBVIOUS
<1>5. PICK b \in BOOLEAN : b <=> IsMotion(cmp)
  OBVIOUS
<1>6. Verdict(r, f) = "motion_detected" <=> IsMotion(cmp)
  BY <1>3, <1>4, <1>5, Zenon
<1> QED
  BY <1>2, <1>6 DEF IsMotion

\* A row of motion, and its distance from the one before.
RowOfMotion == row' # row /\ \E r \in row' : r.status = "motion_detected"

Distant == RowOfMotion => \A m \in motionRow, n \in motionRow' : n - m >= Cooldown

\* One step of the motion monitor: what it records and what it concludes.
LEMMA MotionActs ==
  ASSUME MotionTypeOK, ObserverInv, MotionStep \/ MotionFails
  PROVE  /\ Distant
         /\ motion = "evaluate" /\ latest' \in {"motion_detected", "no_motion"} =>
              \E r \in reference, f \in frame : latest' = Verdict(r, f)
<1>1. ASSUME NEW status, NEW t, motion # "done",
             Conclude(status, t) \/ ConcludeFails(status, t)
      PROVE  latest' = status /\ Distant
  <2>1. CASE ConcludeFails(status, t) \/ ~ShouldPersist(status, t)
    BY <1>1, <2>1 DEF Conclude, ConcludeFails, Distant, RowOfMotion
  <2>2. CASE Conclude(status, t) /\ ShouldPersist(status, t)
    <3>1. latest' = status /\ Persists(status, t)
      BY <2>2 DEF Conclude
    <3>2. \A r \in row' : r.status = status
      BY <3>1 DEF Persists, Observes
    <3>3. CASE status = "motion_detected"
      BY <1>1, <2>2, <3>1, <3>3 DEF Persists, ShouldPersist, ObserverInv, Distant
    <3>4. CASE status # "motion_detected"
      BY <3>1, <3>2, <3>4 DEF Distant, RowOfMotion
    <3> QED
      BY <3>1, <3>3, <3>4
  <2> QED
    BY <1>1, <2>1, <2>2
<1>2. CASE BeginCycle \/ ReadFrame \/ LeaveLoop \/ CloseSource
  BY <1>2 DEF BeginCycle, ReadFrame, LeaveLoop, CloseSource, Distant, RowOfMotion
<1>3. CASE Evaluate \/ EvaluateFails
  <2>1. PICK status \in Statuses, t \in now :
          Evaluates(status) /\ (Conclude(status, t) \/ ConcludeFails(status, t))
    BY <1>3 DEF Evaluate, EvaluateFails
  <2>2. status \in {"motion_detected", "no_motion"} =>
          \E r \in reference, f \in frame : status = Verdict(r, f)
    BY <2>1 DEF Evaluates, Verdicts, MotionTypeOK, AtMostOne
  <2>3. motion = "evaluate"
    BY <1>3 DEF Evaluate, EvaluateFails
  <2> QED
    BY <1>1, <2>1, <2>2, <2>3
<1>4. ASSUME NEW t \in Times, NoFrame(t) \/ NoFrameFails(t)
      PROVE  motion = "read" /\ Distant
  BY <1>1, <1>4 DEF NoFrame, NoFrameFails
<1> QED
  BY <1>2, <1>3, <1>4 DEF MotionStep, MotionFails

LEMMA AppHolds == Spec => []AppInv
<1>1. Init => AppInv
  <2> SUFFICES ASSUME Init PROVE AppInv
    OBVIOUS
  <2> USE DEF Init, MotionInit, LifeInit
  <2>1. MotionTypeOK
    BY DEF MotionTypeOK, AtMostOne, Statuses
  <2>2. LifeTypeOK
    <3>1. {} \in AtMostOne(Stages) /\ {} \in AtMostOne(CleanupStages)
      BY DEF AtMostOne
    <3>2. "migrate" \in Stages /\ MaxFaults \in Nat
      BY StagesAre, ApplicationAssumption
    <3>3. /\ primary = {} /\ cleanup = {} /\ failed = {} /\ raised = {} /\ faults = 0
          /\ enabled \in Settings /\ stage = "migrate"
      OBVIOUS
    <3>4. monitors \in [Monitors -> {"absent", "running", "ended", "broken"}]
      OBVIOUS
    <3>5. /\ stopping = FALSE /\ accepting = FALSE /\ waiting = FALSE
          /\ preview = FALSE /\ closed = FALSE /\ worker = "absent"
      OBVIOUS
    <3> HIDE DEF Init, MotionInit, LifeInit
    <3>6. failed \subseteq CleanupStages /\ faults \in 0..MaxFaults /\ stage \in Stages
      BY <3>2, <3>3
    <3> QED
      BY <3>1, <3>3, <3>4, <3>5, <3>6 DEF LifeTypeOK
  <2>3. ObserverInv /\ TimelineShowsActivity
    BY DEF ObserverInv, TimelineShowsActivity, Observed
  <2>4. StageInv
    BY DEF StageInv, Early, Retired
  <2>5. FailureInv
    BY FirstOfIs DEF FailureInv, Early
  <2> QED
    BY <2>1, <2>2, <2>3, <2>4, <2>5 DEF AppInv, TypeOK
<1>2. AppInv /\ [Next]_allVars => AppInv'
  BY ObserverStays, LifeTyped, StageStays, FailureStays DEF AppInv, TypeOK
<1> QED
  BY <1>1, <1>2, PTL DEF Spec

(***************************************************************************)
(* Theorems.                                                               *)
(***************************************************************************)
\* LifeInv: at every moment of the life of the service each part is stopped only after
\* those that use it: the camera is released when no capture, no motion reader and no
\* monitor runs, and the monitors are asked to stop after the producers of triggers.
THEOREM UsersStop == Spec => []LifeInv
<1>1. AppInv => LifeInv
  BY DEF AppInv, LifeInv, UsersStopFirst, StageInv, Early, Retired, TypeOK, LifeTypeOK
<1> QED
  BY <1>1, AppHolds, PTL

\* NothingIsLeftRunning: a life that reached its cleanup scope leaves nothing running,
\* whichever of the stages failed.
THEOREM NothingLeft == Spec => []NothingIsLeftRunning
<1>1. AppInv => NothingIsLeftRunning
  BY DEF AppInv, NothingIsLeftRunning, StageInv, ObserverInv, Retired
<1> QED
  BY <1>1, AppHolds, PTL

\* FirstFailureIsRaised: what leaves the lifespan is the failure of startup or serving,
\* else the first of the shutdown in stage order.
THEOREM FirstFailure == Spec => []FirstFailureIsRaised
<1>1. AppInv => FirstFailureIsRaised
  BY DEF AppInv, FirstFailureIsRaised, FailureInv, FirstOf
<1> QED
  BY <1>1, AppHolds, PTL

\* TimelineShowsActivity: between two cycles the last observation on record is the
\* status the state reports, except for motion within the cooldown.
THEOREM TimelineHolds == Spec => []TimelineShowsActivity
<1>1. AppInv => TimelineShowsActivity
  BY DEF AppInv
<1> QED
  BY <1>1, AppHolds, PTL

\* MotionRowsKeepDistance: two motions on record are a cooldown apart, whatever is
\* recorded in between, whichever writes fail and whatever the clock does.
THEOREM MotionsKeepDistance == Spec => MotionRowsKeepDistance
<1>1. AppInv /\ [Next]_allVars => [Distant]_motionVars
  <2> SUFFICES ASSUME AppInv, [Next]_allVars PROVE Distant
    OBVIOUS
  <2>1. CASE UNCHANGED row
    BY <2>1 DEF Distant, RowOfMotion
  <2>2. CASE MotionStep \/ MotionFails
    BY <2>2, MotionActs DEF AppInv, TypeOK
  <2> QED
    BY <2>1, <2>2, MotionChanges DEF motionVars, StartMotion, SignalMotion
<1>2. MotionRowsKeepDistance <=> [][Distant]_motionVars
  BY PTL DEF MotionRowsKeepDistance, Distant, RowOfMotion
<1> QED
  BY <1>1, <1>2, AppHolds, PTL DEF Spec

\* VerdictFitsScene: for frames of any size, when more than half of the scene has changed
\* by one amount a comparison reports motion exactly when the rest, the subject, is large
\* enough, unless it reports that the frame as a whole has changed.
THEOREM VerdictFits == Spec => VerdictFitsScene
<1> DEFINE Fits == motion = "evaluate" /\ motion' # motion
                     /\ latest' \in {"motion_detected", "no_motion"} =>
                       \A r \in reference, f \in frame :
                         LET d == Differences(r, f)
                         IN \A c \in Backgrounds(d) :
                              latest' = "motion_detected"
                                <=> Cardinality(Subject(d, c)) > MotionThreshold
<1>1. AppInv /\ [Next]_allVars => [Fits]_motionVars
  <2> SUFFICES ASSUME AppInv, [Next]_allVars, motion = "evaluate", motion' # motion,
                      latest' \in {"motion_detected", "no_motion"},
                      NEW r \in reference, NEW f \in frame,
                      NEW c \in Backgrounds(Differences(r, f))
               PROVE  latest' = "motion_detected"
                        <=> Cardinality(Subject(Differences(r, f), c)) > MotionThreshold
    OBVIOUS
  <2>1. MotionStep \/ MotionFails
    BY MotionChanges DEF motionVars, StartMotion, SignalMotion, AppInv, StageInv
  <2>2. PICK s \in reference, g \in frame : latest' = Verdict(s, g)
    BY <2>1, MotionActs DEF AppInv, TypeOK
  <2>3. r = s /\ f = g /\ r \in Frames /\ f \in Frames
    BY DEF AppInv, TypeOK, MotionTypeOK, AtMostOne
  <2> QED
    BY <2>2, <2>3, VerdictIsSubject
<1> QED
  BY <1>1, AppHolds, PTL DEF Spec, VerdictFitsScene
=============================================================================
