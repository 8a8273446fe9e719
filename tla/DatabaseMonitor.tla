-------------------------- MODULE DatabaseMonitor --------------------------
(***************************************************************************)
(* A service after its migrations: src/mgo/core/database_health.py checks  *)
(* the file through a read-only connection, in several reads, and          *)
(* database_monitor.py repeats that on a timer, keeps the latest result    *)
(* for /health and writes an observation of a material change into the     *)
(* very database it is about.  The state is set before the observation is  *)
(* written, and the file may turn, or the service die, between the two.    *)
(***************************************************************************)
EXTENDS Migrations

VARIABLES
  check,        \* where a service's current check is
  latest,       \* DatabaseHealthState: {}, or the result of the last check
  row,          \* the last observation the service wrote
  outage,       \* it has reported unhealthy since, with no observation of it
  unwritten     \* its last attempt at an observation failed

monitorVars == <<check, latest, row, outage, unwritten>>

allVars == <<vars, monitorVars>>

\* The two fields by which a change is material.
Result(status, migration) == [status |-> status, migration |-> migration]

Results == [status : {"healthy", "degraded", "unhealthy"},
            migration : {"current", "pending", "ahead", "unknown"}]

AtMostOne(S) == {{}} \cup {{e} : e \in S}

MonitorTypeOK ==
  /\ check \in [Services -> {"idle", "integrity", "schema", "record"}]
  /\ latest \in [Services -> AtMostOne(Results)]
  /\ row \in [Services -> AtMostOne(Results)]
  /\ outage \in [Services -> BOOLEAN]
  /\ unwritten \in [Services -> BOOLEAN]

MonitorInit == /\ check = [s \in Services |-> "idle"]
               /\ latest = [s \in Services |-> {}]
               /\ row = [s \in Services |-> {}]
               /\ outage = [s \in Services |-> FALSE]
               /\ unwritten = [s \in Services |-> FALSE]

-----------------------------------------------------------------------------

\* _unhealthy, where the file cannot be opened, read or trusted.
Unusable == Result("unhealthy", "unknown")

\* _inspect, once the integrity check has passed.
Inspected ==
  LET v == RecordedVersion(db)
  IN CASE v = 0 -> Unusable
       [] v > Current -> Result("unhealthy", "ahead")
       [] 0 < v /\ v < Current -> Result("degraded", "pending")
       [] v = Current -> Result(IF file = "wal" THEN "healthy" ELSE "degraded", "current")

\* _PERSISTABLE: the states in which the write can be expected to succeed.
Persistable(h) == h.status \in {"healthy", "degraded"}

\* Fault: the change is judged against the last observation.
MaterialByTimeline(s, h) == row[s] # {h}

\* is_material_change: the first result, or another status or migration.
Material(s, h) == latest[s] # {h}

\* The initial check of a start, and each tick of the timer.
BeginCheck(s) == /\ pc[s] = "started" /\ check[s] = "idle"
                 /\ check' = [check EXCEPT ![s] = "integrity"]
                 /\ UNCHANGED <<vars, latest, row, outage, unwritten>>

\* Fault: only what can be persisted becomes the state.
ConcludesIfPersistable(s, h) ==
  /\ latest' = [latest EXCEPT ![s] = IF Persistable(h) THEN {h} ELSE @]
  /\ outage' = [outage EXCEPT ![s] = @ \/ h.status = "unhealthy"]
  /\ check' = [check EXCEPT ![s] = IF Material(s, h) /\ Persistable(h) THEN "record"
                                   ELSE "idle"]
  /\ UNCHANGED <<vars, row, unwritten>>

\* perform_database_check has its result: the state is replaced at once, and an
\* observation is due when the change is material and the database usable.
Concludes(s, h) ==
  /\ latest' = [latest EXCEPT ![s] = {h}]
  /\ outage' = [outage EXCEPT ![s] = @ \/ h.status = "unhealthy"]
  /\ check' = [check EXCEPT ![s] = IF Material(s, h) /\ Persistable(h) THEN "record"
                                   ELSE "idle"]
  /\ UNCHANGED <<vars, row, unwritten>>

\* connect_readonly and quick_check.
CheckIntegrity(s) ==
  /\ check[s] = "integrity"
  /\ IF Readable
     THEN /\ check' = [check EXCEPT ![s] = "schema"]
          /\ UNCHANGED <<vars, latest, row, outage, unwritten>>
     ELSE Concludes(s, Unusable)

\* The journal mode and the recorded version, read on the same connection later.
CheckSchema(s) == /\ check[s] = "schema"
                  /\ Concludes(s, IF Readable THEN Inspected ELSE Unusable)

\* record_observation opens a connection and commits a row of its own.
RecordObservation(s) ==
  /\ check[s] = "record" /\ Readable /\ draft = {}
  /\ Connects
  /\ row' = [row EXCEPT ![s] = latest[s]]
  /\ outage' = [outage EXCEPT ![s] = FALSE]
  /\ unwritten' = [unwritten EXCEPT ![s] = FALSE]
  /\ check' = [check EXCEPT ![s] = "idle"]
  /\ UNCHANGED latest

\* The file has turned meanwhile, or a migration holds the write lock for longer
\* than the busy timeout: logged and swallowed.
ObservationFails(s) ==
  /\ check[s] = "record" /\ (~Readable \/ draft # {})
  /\ unwritten' = [unwritten EXCEPT ![s] = TRUE]
  /\ check' = [check EXCEPT ![s] = "idle"]
  /\ UNCHANGED <<vars, latest, row, outage>>

MonitorStep(s) == \/ BeginCheck(s) \/ CheckIntegrity(s) \/ CheckSchema(s)
                  \/ RecordObservation(s) \/ ObservationFails(s)

\* A service that dies takes its monitor and what that remembers along.
MonitorDies(s) == /\ Dies(s)
                  /\ check' = [check EXCEPT ![s] = "idle"]
                  /\ latest' = [latest EXCEPT ![s] = {}]
                  /\ row' = [row EXCEPT ![s] = {}]
                  /\ outage' = [outage EXCEPT ![s] = FALSE]
                  /\ unwritten' = [unwritten EXCEPT ![s] = FALSE]

ServiceNext == \/ \E s \in Services : StartStep(s) /\ UNCHANGED monitorVars
               \/ \E s \in Services : MonitorStep(s)
               \/ \E s \in Services : MonitorDies(s)
               \/ (Connects \/ Turns) /\ UNCHANGED monitorVars

ServiceInit == Init /\ MonitorInit

\* systemd restarts a service that failed (Restart=on-failure), a thread's next
\* statement runs, a holder of the write lock goes on, and the timer ticks.
ServiceSpec ==
  /\ ServiceInit /\ [][ServiceNext]_allVars
  /\ \A s \in Services : /\ WF_allVars(StartStep(s) /\ UNCHANGED monitorVars)
                         /\ WF_allVars(MonitorStep(s))

-----------------------------------------------------------------------------
(* Properties.                                                             *)

ServiceTypeOK == TypeOK /\ MonitorTypeOK

\* Between two checks the last observation says what the state says, unless the
\* database could not take it, and an outage that was reported is on record:
\* the recovery is never taken for an unchanged status.
TimelineFollowsState ==
  \A s \in Services : \A h \in latest[s] :
    check[s] = "idle" /\ Persistable(h) /\ ~unwritten[s]
      => row[s] = {h} /\ ~outage[s]

\* A database that any start may recognise is one every service gets to run on,
\* after deaths, lost races for the write lock and half-finished migrations, as
\* soon as the file stays readable.
EveryServiceStarts ==
  ~Unrecognised(db) =>
    \A s \in Services : []<>(pc[s] = "started" \/ file = "damaged")

\* /health catches up with the file: a running service does not keep reporting
\* an older state of a file that has turned and stays so.
StatusCatchesUp ==
  \A s \in Services :
    /\ (pc[s] = "started" /\ file = "damaged")
         ~> (latest[s] = {Unusable} \/ file # "damaged" \/ pc[s] # "started")
    /\ (pc[s] = "started" /\ file = "wal")
         ~> (latest[s] = {Result("healthy", "current")} \/ file # "wal" \/ pc[s] # "started")

\* What holds of every running service, between the file and its timeline.
MonitorInv == ServiceTypeOK /\ TimelineFollowsState
=============================================================================
