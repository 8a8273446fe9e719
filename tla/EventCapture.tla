---------------------------- MODULE EventCapture ---------------------------
(***************************************************************************)
(* Motion-triggered capture (mgo.event_capture.service): triggers submitted*)
(* on the event loop, a queue with one slot, the single worker that asks   *)
(* the gate, runs the capture workflow in a thread and releases the        *)
(* reservation, and the shutdown that closes the queue and retires the     *)
(* worker with a sentinel.  The gate and the workflow are Admission's: each*)
(* step of the worker that touches them is a step of Admission.            *)
(*                                                                         *)
(* Of what is only reported the totals of the status endpoint are here;    *)
(* observations and the last reason, error and decision are left out.      *)
(***************************************************************************)
EXTENDS Admission, Sequences

CONSTANT MaxTriggers   \* bound: what the motion monitor submits to one process

ASSUME MaxTriggersAssumption == MaxTriggers \in Nat

VARIABLES
  accepting,     \* _accepting
  queue,         \* _queue: a trigger or the sentinel, or nothing
  worker,        \* what the worker task is doing
  received,      \* total_triggers_received
  dropped,       \* total_triggers_dropped
  discarded,     \* history: triggers the shutdown took off the queue
  globalChanges, \* total_global_scene_changes
  suppressed,    \* total_triggers_suppressed
  oversized,     \* history: failures that were counted as suppressions too
  succeeded,     \* total_captures_succeeded
  failed         \* total_captures_failed

counters == <<received, dropped, discarded, globalChanges, suppressed, oversized,
              succeeded, failed>>
vars == <<now, latest, issued, admitted, reservedAt, photographedAt, markers,
          rows, held, phase, accepting, queue, worker, received, dropped,
          discarded, globalChanges, suppressed, oversized, succeeded, failed>>

QueueCapacity == 1

\* The worker task: not there, parked on the queue, awaiting one of its
\* threads, or done.
Worker == {"none", "waiting", "admitting", "capturing", "archiving",
           "releasing", "failing", "reporting", "suppressing", "ended"}

TypeOK ==
  /\ GateTypeOK
  /\ accepting \in BOOLEAN
  /\ queue \in Seq({"trigger", "stop"}) /\ Len(queue) <= QueueCapacity
  /\ worker \in Worker
  /\ {received, dropped, discarded, globalChanges, suppressed, oversized,
      succeeded, failed} \subseteq Nat

Fresh == /\ accepting' = FALSE
         /\ queue' = <<>>
         /\ worker' = "none"
         /\ received' = 0 /\ dropped' = 0 /\ discarded' = 0
         /\ globalChanges' = 0 /\ suppressed' = 0 /\ oversized' = 0
         /\ succeeded' = 0 /\ failed' = 0

Init == /\ GateInit
        /\ accepting = FALSE
        /\ queue = <<>>
        /\ worker = "none"
        /\ received = 0 /\ dropped = 0 /\ discarded = 0
        /\ globalChanges = 0 /\ suppressed = 0 /\ oversized = 0
        /\ succeeded = 0 /\ failed = 0
-----------------------------------------------------------------------------
(* The event loop. *)

\* The lifespan starts the worker and evaluates the gate once, before the
\* motion monitor can submit anything.
Start == /\ worker = "none"
         /\ accepting' = TRUE
         /\ worker' = "waiting"
         /\ Evaluate
         /\ UNCHANGED <<queue, counters>>

\* Fault: the newer trigger takes the place of the one that waits.
SubmitReplaces ==
  /\ accepting
  /\ received + globalChanges < MaxTriggers
  /\ received' = received + 1
  /\ queue' = <<"trigger">>
  /\ UNCHANGED <<gate, accepting, worker, dropped, discarded, globalChanges,
                 suppressed, oversized, succeeded, failed>>

\* submit: put_nowait, and a trigger that finds the slot taken is dropped.
Submit ==
  /\ accepting
  /\ received + globalChanges < MaxTriggers
  /\ received' = received + 1
  /\ \/ /\ Len(queue) < QueueCapacity
        /\ queue' = Append(queue, "trigger")
        /\ UNCHANGED dropped
     \/ /\ Len(queue) = QueueCapacity
        /\ dropped' = dropped + 1
        /\ UNCHANGED queue
  /\ UNCHANGED <<gate, accepting, worker, discarded, globalChanges, suppressed,
                 oversized, succeeded, failed>>

\* submit, of a change of the whole frame: no trigger, and no question whether any
\* are accepted.
SubmitGlobalChange ==
  /\ worker # "none"
  /\ received + globalChanges < MaxTriggers
  /\ globalChanges' = globalChanges + 1
  /\ suppressed' = suppressed + 1
  /\ UNCHANGED <<gate, accepting, queue, worker, received, dropped, discarded,
                 oversized, succeeded, failed>>

\* Fault: the sentinel waits behind the trigger in the slot.
ShutdownKeepsQueue ==
  /\ accepting
  /\ accepting' = FALSE
  /\ queue' = Append(queue, "stop")
  /\ UNCHANGED <<gate, worker, counters>>

\* Fault: the drain comes last and takes the sentinel with it.
ShutdownLosesSentinel ==
  /\ accepting
  /\ accepting' = FALSE
  /\ discarded' = discarded + Len(queue)
  /\ queue' = <<>>
  /\ UNCHANGED <<gate, worker, received, dropped, globalChanges, suppressed,
                 oversized, succeeded, failed>>

\* Close, drain, queue the sentinel; no await before the worker is awaited.
Shutdown ==
  /\ accepting
  /\ accepting' = FALSE
  /\ discarded' = discarded + Len(queue)
  /\ queue' = <<"stop">>
  /\ UNCHANGED <<gate, worker, received, dropped, globalChanges, suppressed,
                 oversized, succeeded, failed>>

\* The worker has been awaited and the process goes.
Exit == /\ worker = "ended"
        /\ Fresh
        /\ UNCHANGED gate
-----------------------------------------------------------------------------
(* The worker. *)

Take ==
  /\ worker = "waiting"
  /\ queue # <<>>
  /\ queue' = Tail(queue)
  /\ worker' = IF Head(queue) = "stop" THEN "ended" ELSE "admitting"
  /\ UNCHANGED <<gate, accepting, counters>>

Admitted ==
  /\ worker = "admitting"
  /\ worker' = "capturing"
  /\ \E n \in Attempts : Admit(n)
  /\ UNCHANGED <<accepting, queue, counters>>

\* Refused for any reason, or the marker cannot be written.
Suppressed ==
  /\ worker = "admitting"
  /\ worker' = "suppressing"
  /\ suppressed' = suppressed + 1
  /\ Evaluate \/ \E n \in Attempts : ReserveLeavesMarker(n)
  /\ UNCHANGED <<accepting, queue, received, dropped, discarded, globalChanges,
                 oversized, succeeded, failed>>

\* The observation of it is written, or not.
SuppressionReported ==
  /\ worker = "suppressing"
  /\ worker' = "waiting"
  /\ UNCHANGED <<gate, accepting, queue, counters>>

Photographed ==
  /\ worker = "capturing"
  /\ worker' = "archiving"
  /\ Photograph
  /\ UNCHANGED <<accepting, queue, counters>>

Archived ==
  /\ worker = "archiving"
  /\ worker' = "releasing"
  /\ Archive
  /\ UNCHANGED <<accepting, queue, counters>>

\* _handle_failure: a photograph that the publication guard refuses as oversize is a
\* suppression as well.
CountsFailure(oversize) ==
  /\ failed' = failed + 1
  /\ suppressed' = suppressed + (IF oversize THEN 1 ELSE 0)
  /\ oversized' = oversized + (IF oversize THEN 1 ELSE 0)

\* The workflow raises: the failure is counted and reported ...
CaptureFails ==
  /\ worker \in {"capturing", "archiving"}
  /\ worker' = "failing"
  /\ \E oversize \in BOOLEAN : /\ oversize => worker = "archiving"
                              /\ CountsFailure(oversize)
  /\ AttemptFails
  /\ UNCHANGED <<accepting, queue, received, dropped, discarded, globalChanges,
                 succeeded>>

\* ... and only then does the finally clause end the reservation.
FailureReported ==
  /\ worker = "failing"
  /\ worker' = "waiting"
  /\ Release(FALSE)
  /\ UNCHANGED <<accepting, queue, counters>>

\* The row is committed: release, then report.
Succeeded ==
  /\ worker = "releasing"
  /\ worker' = "reporting"
  /\ succeeded' = succeeded + 1
  /\ Release(TRUE)
  /\ UNCHANGED <<accepting, queue, received, dropped, discarded, globalChanges,
                 suppressed, oversized, failed>>

\* A success evaluates the gate once more; then its observation is written, or
\* not.
Reported ==
  /\ worker = "reporting"
  /\ worker' = "waiting"
  /\ Evaluate
  /\ UNCHANGED <<accepting, queue, counters>>

WorkerStep == \/ Take
              \/ Admitted
              \/ Suppressed
              \/ SuppressionReported
              \/ Photographed
              \/ Archived
              \/ CaptureFails
              \/ FailureReported
              \/ Succeeded
              \/ Reported
-----------------------------------------------------------------------------
ClockTicks == /\ Tick
              /\ UNCHANGED <<accepting, queue, worker, counters>>

ProcessDies == Crash /\ Fresh

Next == \/ Start
        \/ Submit
        \/ SubmitGlobalChange
        \/ Shutdown
        \/ Exit
        \/ WorkerStep
        \/ ClockTicks
        \/ ProcessDies

Spec == Init /\ [][Next]_vars

\* The loop schedules the worker, and every call the worker awaits in a thread
\* returns: the camera is driven with timeouts, SQLite with a busy timeout.
Fairness == WF_vars(WorkerStep) /\ WF_vars(Exit)

FairSpec == Spec /\ Fairness
-----------------------------------------------------------------------------
\* Triggers in the queue and in the worker's hands.
Queued == IF queue = <<"trigger">> THEN 1 ELSE 0

InHand == IF worker \in {"admitting", "capturing", "archiving", "releasing"}
          THEN 1 ELSE 0

\* What is left of the total of suppressions without the whole-frame changes, which
\* are no triggers, and the oversize photographs, which count as failures too.
Refusals == suppressed - globalChanges - oversized

\* Every trigger that was received is waiting, in hand, or has come to exactly one
\* end; and the totals of the status endpoint tell how many came to which, but for
\* what a shutdown discards and for the failures that were oversize.
EveryTriggerIsAccounted ==
  received = dropped + discarded + Queued + InHand + Refusals + succeeded + failed

\* Once shutdown has closed the queue the worker does not begin another
\* trigger: what it awaits next is its end.
NothingStartsAfterShutdown ==
  [][~accepting /\ worker = "waiting" => worker' \in {"waiting", "ended", "none"}]_vars

\* Shutdown does not hang: a worker whose queue has been closed comes to its
\* end, with whatever it had in hand.
ShutdownCompletes == (worker # "none" /\ ~accepting) ~> (worker = "none")
=============================================================================
