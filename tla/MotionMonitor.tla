--------------------------- MODULE MotionMonitor ---------------------------
(***************************************************************************)
(* The motion monitor of src/mgo/motion: once per interval it takes a      *)
(* frame from its subscription to the stream broker, compares it with the  *)
(* frame before in a worker thread, publishes the result as the state and  *)
(* writes an observation, and so a trigger, when the activity has changed. *)
(* The waits for the frame and for the comparison are its only suspension  *)
(* points; what follows them is one step of the event loop.                *)
(*                                                                         *)
(* Data abstraction.  A frame is its luminance values at the analysis      *)
(* resolution and a ratio is a number of pixels.  A result is its status.  *)
(***************************************************************************)
EXTENDS Integers, FiniteSets

CONSTANTS
  Pixels,            \* analysis_width * analysis_height
  Frames,            \* the frames the camera delivers
  PixelThreshold,    \* pixel_difference_threshold
  MotionThreshold,   \* changed_pixel_ratio_threshold
  GlobalThreshold,   \* global_change_ratio_threshold
  Times,             \* bound: the readings of the clock
  Cooldown           \* cooldown_seconds

Luma == 0..255

\* _validate_motion_config: no threshold is above the whole frame, and the
\* ceiling is above the floor, or nothing could ever be taken for motion.
ValidThresholds ==
  /\ Pixels \in Nat \ {0}
  /\ PixelThreshold \in Luma
  /\ {MotionThreshold, GlobalThreshold} \subseteq 0..Pixels
  /\ MotionThreshold < GlobalThreshold
  /\ Cooldown \in Nat

ASSUME MotionAssumption == /\ ValidThresholds
                           /\ Frames \subseteq [1..Pixels -> Luma]
                           /\ Times \subseteq Nat

VARIABLES
  motion,         \* where the monitor task is
  broken,         \* it ended with an exception
  halt,           \* its stop event
  subscribed,     \* BrokerFrameSource holds a subscription
  frame,          \* the frame under comparison, {} for none
  reference,      \* _MotionEvaluator._reference
  now,            \* the time of the current or the last cycle, {} for none
  latest,         \* MotionState
  lastPersisted,  \* _MotionObserver._last_persisted
  lastMotionAt,   \* _MotionObserver._last_motion_at
  row,            \* the last observation in the database, {} for none: its status,
                  \* and what tells it from one before it with the same status
  motionRow       \* when the last one of motion_detected was made, {} for none

motionVars == <<motion, broken, halt, subscribed, frame, reference, now, latest,
                lastPersisted, lastMotionAt, row, motionRow>>

Statuses == {"waiting_for_frames", "establishing_baseline", "no_motion",
             "motion_detected", "global_change", "error"}

AtMostOne(S) == {{}} \cup {{e} : e \in S}

MotionTypeOK ==
  /\ motion \in {"absent", "pacing", "read", "evaluate", "close", "done"}
  /\ broken \in BOOLEAN /\ halt \in BOOLEAN /\ subscribed \in BOOLEAN
  /\ frame \in AtMostOne(Frames)
  /\ reference \in AtMostOne(Frames)
  /\ now \in AtMostOne(Times)
  /\ latest \in Statuses
  /\ lastPersisted \in AtMostOne(Statuses)
  /\ lastMotionAt \in AtMostOne(Times)
  /\ row \in AtMostOne([status : Statuses, again : BOOLEAN])
  /\ motionRow \in AtMostOne(Times)

\* The application attaches default_motion_result before it starts the monitor.
MotionInit == /\ motion = "absent"
              /\ broken = FALSE /\ halt = FALSE /\ subscribed = FALSE
              /\ frame = {}
              /\ reference = {}
              /\ now = {}
              /\ latest = "waiting_for_frames"
              /\ lastPersisted = {}
              /\ lastMotionAt = {}
              /\ row = {}
              /\ motionRow = {}

-----------------------------------------------------------------------------
(* FrameDifferenceDetector.                                                *)

Distance(a, b) == IF a < b THEN b - a ELSE a - b

Differences(r, f) == [p \in 1..Pixels |-> f[p] - r[p]]

\* The lower median of the differences.
Median(d) ==
  CHOOSE m \in {d[p] : p \in 1..Pixels} :
    /\ 2 * Cardinality({p \in 1..Pixels : d[p] <= m}) >= Pixels
    /\ 2 * Cardinality({p \in 1..Pixels : d[p] < m}) < Pixels

\* How many pixels moved by more than the noise floor, once the frame's common
\* shift is subtracted.
ChangedPixels(d, shift) ==
  Cardinality({p \in 1..Pixels : Distance(d[p], shift) > PixelThreshold})

\* Fault: the common shift is not subtracted.
CompareRaw(r, f) ==
  LET d == Differences(r, f)
  IN [ratio |-> ChangedPixels(d, 0), raw |-> ChangedPixels(d, 0)]

\* compare: the compensated number and the raw one.
Compare(r, f) ==
  LET d == Differences(r, f)
  IN [ratio |-> ChangedPixels(d, Median(d)), raw |-> ChangedPixels(d, 0)]

IsGlobalChange(c) == c.ratio > GlobalThreshold \/ c.raw > GlobalThreshold

IsMotion(c) == c.ratio > MotionThreshold

\* The ceiling is tested first.
Verdict(r, f) ==
  LET c == Compare(r, f)
  IN CASE IsGlobalChange(c) -> "global_change"
       [] ~IsGlobalChange(c) /\ IsMotion(c) -> "motion_detected"
       [] OTHER -> "no_motion"

\* What compare and _evaluate make of each frame after each other one.
Verdicts == [r \in Frames |-> [f \in Frames |-> Verdict(r, f)]]

-----------------------------------------------------------------------------
(* The observer.                                                           *)

\* Fault: the cooldown holds back every change.
ShouldPersistAfterCooldown(status, t) ==
  /\ {status} # lastPersisted
  /\ \A m \in lastMotionAt : t - m >= Cooldown

\* Fault: motion counts as any other change of status.
ShouldPersistAtOnce(status, t) == {status} # lastPersisted

\* _should_persist: a change of status, but not motion again within the cooldown
\* of the last motion on record.
ShouldPersist(status, t) ==
  /\ {status} # lastPersisted
  /\ status = "motion_detected" => \A m \in lastMotionAt : t - m >= Cooldown

\* A row more: no two in succession are equal.
Observes(status) ==
  row' = {[status |-> status, again |-> \E r \in row : r.status = status /\ ~r.again]}

\* record, with the row in the database.
Persists(status, t) ==
  /\ lastPersisted' = {status}
  /\ Observes(status)
  /\ IF status = "motion_detected" THEN lastMotionAt' = {t} /\ motionRow' = {t}
     ELSE UNCHANGED <<lastMotionAt, motionRow>>

\* The rest of a cycle: the state is set, and the change goes on record.
Conclude(status, t) ==
  /\ latest' = status
  /\ now' = {t}
  /\ frame' = {}
  /\ motion' = "pacing"
  /\ IF ShouldPersist(status, t) THEN Persists(status, t)
     ELSE UNCHANGED <<lastPersisted, lastMotionAt, row, motionRow>>
  /\ UNCHANGED <<broken, halt>>

\* The write of the observation raises: nothing on its way out of the cycle or of
\* the loop handles that, and the monitor ends.
ConcludeFails(status, t) ==
  /\ ShouldPersist(status, t)
  /\ latest' = status
  /\ now' = {t}
  /\ frame' = {}
  /\ motion' = "close"
  /\ broken' = TRUE
  /\ UNCHANGED <<halt, lastPersisted, lastMotionAt, row, motionRow>>

-----------------------------------------------------------------------------
(* One cycle.                                                              *)

\* The interval passes without the stop event being set.
BeginCycle == /\ motion = "pacing" /\ ~halt
              /\ motion' = "read"
              /\ UNCHANGED <<broken, halt, subscribed, frame, reference, now, latest,
                             lastPersisted, lastMotionAt, row, motionRow>>

\* BrokerFrameSource.read: it subscribes when it has no subscription, and a frame
\* arrives within the interval.
ReadFrame == /\ motion = "read"
             /\ subscribed' = TRUE
             /\ frame' \in {{f} : f \in Frames}
             /\ now' \in {{t} : t \in Times}
             /\ motion' = "evaluate"
             /\ UNCHANGED <<broken, halt, reference, latest, lastPersisted,
                            lastMotionAt, row, motionRow>>

\* Nothing arrives and the subscription is kept, or the stream has ended and it is
\* given up, or the read raises: on_no_frame forgets the reference.
NoFrame(t) == /\ motion = "read"
              /\ subscribed' \in BOOLEAN
              /\ reference' = {}
              /\ Conclude("waiting_for_frames", t)

NoFrameFails(t) == /\ motion = "read"
                   /\ subscribed' \in BOOLEAN
                   /\ reference' = {}
                   /\ ConcludeFails("waiting_for_frames", t)

\* _MotionEvaluator.evaluate, for a frame that cannot be decoded and for one that
\* can; the frame compared is the next reference whatever the verdict.
Evaluates(status) ==
  \/ status = "error" /\ UNCHANGED reference
  \/ /\ reference' = frame
     /\ \/ reference = {} /\ status = "establishing_baseline"
        \/ \E r \in reference, f \in frame : status = Verdicts[r][f]

Evaluate == /\ motion = "evaluate"
            /\ \E status \in Statuses, t \in now : Evaluates(status) /\ Conclude(status, t)
            /\ UNCHANGED subscribed

EvaluateFails == /\ motion = "evaluate"
                 /\ \E status \in Statuses, t \in now :
                      Evaluates(status) /\ ConcludeFails(status, t)
                 /\ UNCHANGED subscribed

\* The stop event ends the loop, and its finally releases the subscription.
LeaveLoop == /\ motion = "pacing" /\ halt
             /\ motion' = "close"
             /\ UNCHANGED <<broken, halt, subscribed, frame, reference, now, latest,
                            lastPersisted, lastMotionAt, row, motionRow>>

\* The task ends, and its evaluator, its observer and its time with it.
CloseSource == /\ motion = "close"
               /\ subscribed' = FALSE
               /\ motion' = "done"
               /\ reference' = {} /\ now' = {}
               /\ lastPersisted' = {} /\ lastMotionAt' = {}
               /\ UNCHANGED <<broken, halt, frame, latest, row, motionRow>>

\* run_motion_monitor, as far as it succeeds...
MotionStep == \/ BeginCycle \/ ReadFrame \/ Evaluate \/ LeaveLoop \/ CloseSource
              \/ \E t \in Times : NoFrame(t)

\* ...and the failures that end it.
MotionFails == EvaluateFails \/ \E t \in Times : NoFrameFails(t)

-----------------------------------------------------------------------------
(* Properties.                                                             *)

\* Between two cycles the timeline ends with the status the state reports, except
\* for motion that came back within the cooldown of the motion on record; in
\* particular the cooldown never hides the end of a motion that was recorded.
TimelineShowsActivity ==
  motion = "pacing" /\ row # {} =>
    \/ \E r \in row : r.status = latest
    \/ latest = "motion_detected" /\ \E m \in motionRow, t \in now : t - m < Cooldown

\* Two motions on record, and so two triggers, are a cooldown apart, whatever is
\* recorded in between and whatever the clock does.
MotionRowsKeepDistance ==
  [][row' # row /\ (\E r \in row' : r.status = "motion_detected") =>
       \A m \in motionRow, n \in motionRow' : n - m >= Cooldown]_motionVars

\* More than half of the scene changes by one amount...
Backgrounds(d) == {c \in {d[p] : p \in 1..Pixels} :
                     2 * Cardinality({p \in 1..Pixels : d[p] = c}) > Pixels}

\* ...and the pixels that do not are the subject.
Subject(d, c) == {p \in 1..Pixels : Distance(d[p], c) > PixelThreshold}

\* A change of exposure is never taken for motion, and neither hides nor enlarges
\* a subject in front of it: unless the frame as a whole has changed, motion is
\* reported exactly when the subject is large enough.
VerdictFitsScene ==
  [][motion = "evaluate" /\ motion' # motion /\ latest' \in {"motion_detected", "no_motion"} =>
       \A r \in reference, f \in frame :
         LET d == Differences(r, f)
         IN \A c \in Backgrounds(d) :
              latest' = "motion_detected" <=> Cardinality(Subject(d, c)) > MotionThreshold
    ]_motionVars
=============================================================================
