------------------------------ MODULE Preview ------------------------------
(***************************************************************************)
(* The preview service (mgo.camera.preview): it supervises at most one     *)
(* preview process.  A start launches under the service's lock, waits      *)
(* for the first frame without it, and settles under it again; stop,       *)
(* release and status take the lock at any moment in between.              *)
(*                                                                         *)
(* Each action is one critical section.  STOPPING is never seen outside    *)
(* one.  A kill reaps its process (SIGTERM, then SIGKILL).  The error text *)
(* and the start time follow the state and are left out, and so is a       *)
(* preview that the configuration disables.                                *)
(***************************************************************************)
EXTENDS Naturals, FiniteSets

CONSTANTS
  Callers,       \* the threads that call the service
  MaxLaunches    \* bound: the preview processes launched

ASSUME LaunchAssumption == MaxLaunches \in Nat

VARIABLES
  state,       \* _state
  process,     \* _process: the process supervised, or NoProcess
  alive,       \* the preview processes that run, supervised or not
  launched,    \* how many have been launched; they are numbered
  call,        \* how far a caller's start has come
  mine         \* the process a caller's start has launched, if any

preview == <<state, process, alive, launched, call, mine>>

NoProcess == 0
Processes == 1..MaxLaunches

PreviewTypeOK ==
  /\ state \in {"stopped", "starting", "running", "failed"}
  /\ process \in Processes \cup {NoProcess}
  /\ alive \subseteq 1..launched
  /\ launched \in 0..MaxLaunches
  /\ call \in [Callers -> {"none", "validating", "settling"}]
  /\ mine \in [Callers -> Processes \cup {NoProcess}]

PreviewInit ==
  /\ state = "stopped"
  /\ process = NoProcess
  /\ alive = {}
  /\ launched = 0
  /\ call = [t \in Callers |-> "none"]
  /\ mine = [t \in Callers |-> NoProcess]
-----------------------------------------------------------------------------
\* _reconcile_locked, with which every critical section begins: a process that
\* has gone by itself is noticed only while the preview is RUNNING.
Gone == state = "running" /\ process \notin alive
SeenState == IF Gone THEN "failed" ELSE state
SeenProcess == IF Gone THEN NoProcess ELSE process

\* status, frame_stream, and a start or a release that finds nothing to do.
Observe == /\ state' = SeenState
           /\ process' = SeenProcess
           /\ UNCHANGED <<alive, launched, call, mine>>

Busy == SeenProcess # NoProcess /\ SeenState \in {"running", "starting"}

Fail == state' = "failed" /\ process' = NoProcess

\* The call returns, or raises.
Return(t) == /\ call' = [call EXCEPT ![t] = "none"]
             /\ mine' = [mine EXCEPT ![t] = NoProcess]
-----------------------------------------------------------------------------
(* start *)

Launch(t) ==
  /\ call[t] = "none"
  /\ ~Busy
  /\ launched < MaxLaunches
  /\ launched' = launched + 1
  /\ alive' = alive \cup {launched'}
  /\ state' = "starting"
  /\ process' = launched'
  /\ call' = [call EXCEPT ![t] = "validating"]
  /\ mine' = [mine EXCEPT ![t] = launched']

\* The backend refuses: no tool, no camera, no permission.
LaunchRefused(t) ==
  /\ call[t] = "none"
  /\ ~Busy
  /\ Fail
  /\ UNCHANGED <<alive, launched, call, mine>>

\* The backend raises what it should not; the state is settled in a critical
\* section of its own.
LaunchBreaks(t) ==
  /\ call[t] = "none"
  /\ ~Busy
  /\ state' = "starting"
  /\ process' = SeenProcess
  /\ call' = [call EXCEPT ![t] = "settling"]
  /\ UNCHANGED <<alive, launched, mine>>

\* Fault: an overtaken start leaves its process to whoever overtook it.
OvertakenLeavesProcess(t) ==
  /\ call[t] = "validating" /\ process # mine[t]
  /\ Return(t)
  /\ UNCHANGED <<state, process, alive, launched>>

\* A stop or a release has overtaken the start during its validation.
Overtaken(t) ==
  /\ call[t] = "validating" /\ process # mine[t]
  /\ alive' = alive \ {mine[t]}
  /\ Return(t)
  /\ UNCHANGED <<state, process, launched>>

\* The first frame has arrived; the process may be gone again.
Validated(t) ==
  /\ call[t] = "validating" /\ process = mine[t]
  /\ state' = "running"
  /\ Return(t)
  /\ UNCHANGED <<process, alive, launched>>

\* End of stream, no frame in time, or the stream cannot be read.
ValidationFails(t) ==
  /\ call[t] = "validating" /\ process = mine[t]
  /\ alive' = alive \ {mine[t]}
  /\ Fail
  /\ Return(t)
  /\ UNCHANGED launched

\* The reader raises what it should not.
ValidationBreaks(t) ==
  /\ call[t] = "validating"
  /\ call' = [call EXCEPT ![t] = "settling"]
  /\ UNCHANGED <<state, process, alive, launched, mine>>

\* Fault: only a start that has a process is settled.
SettleOwned(t) ==
  /\ call[t] = "settling"
  /\ alive' = alive \ {mine[t]}
  /\ IF mine[t] # NoProcess /\ process = mine[t]
     THEN Fail
     ELSE UNCHANGED <<state, process>>
  /\ Return(t)
  /\ UNCHANGED launched

\* _settle_unexpected_start: reap what this start has launched; rewrite the
\* state only if it is still this start's.
Settle(t) ==
  /\ call[t] = "settling"
  /\ alive' = alive \ {mine[t]}
  /\ IF IF mine[t] = NoProcess THEN state = "starting" ELSE process = mine[t]
     THEN Fail
     ELSE UNCHANGED <<state, process>>
  /\ Return(t)
  /\ UNCHANGED launched

FinishStart(t) == \/ Overtaken(t)
                  \/ Validated(t)
                  \/ ValidationFails(t)
                  \/ Settle(t)
-----------------------------------------------------------------------------
\* stop, shutdown.
Stop == /\ alive' = alive \ {SeenProcess}
        /\ state' = "stopped"
        /\ process' = NoProcess
        /\ UNCHANGED <<launched, call, mine>>

ReleaseForCapture == IF Busy THEN Stop ELSE Observe

ProcessDies == /\ \E p \in alive : alive' = alive \ {p}
               /\ UNCHANGED <<state, process, launched, call, mine>>
-----------------------------------------------------------------------------
\* "A start can never leave preview reporting STARTING with a live process and
\* no error", and what the other states say of the process is true as well.
TruthfulState ==
  /\ state \in {"stopped", "failed"} => process = NoProcess
  /\ state = "running" => process # NoProcess /\ \A t \in Callers : mine[t] # process
  /\ state = "starting" => \E t \in Callers : call[t] # "none" /\ mine[t] = process

\* No process is left behind: one that runs is supervised, or in the hands of a
\* start that has yet to return.
NoStrayProcess ==
  \A p \in alive : p = process \/ \E t \in Callers : call[t] # "none" /\ mine[t] = p
=============================================================================
