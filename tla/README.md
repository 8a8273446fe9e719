# Garden Observatory: a verification project

MGO (`src/src/mgo`) runs unattended on a Raspberry Pi: it watches a camera
preview for motion, takes photographs, records them in a SQLite catalogue,
backs the catalogue up, and deletes old photographs again to keep the disk
usable. This directory holds TLA+ models of its core logic, TLC
configurations that check them on small instances, and TLAPS proofs of the
properties that matter most.

Source paths are relative to the repository; `mgo/` is short for `src/mgo/`.

- [1. Inventory](#1-inventory): components, state, interactions, hard behaviours
- [2. Plan](#2-plan): modules, order, runs, theorems
- [3. The models](#3-the-models): how state and actions correspond to the code
- [4. The runs](#4-the-runs): what is checked, with which bounds
- [5. Fairness](#5-fairness)
- [6. The proofs](#6-the-proofs)
- [7. What is not covered](#7-what-is-not-covered)

## 1. Inventory

| component | state | operations | hard behaviour | correct when |
|---|---|---|---|---|
| Lock file `mgo/operations/locking.py` | one file: absent, or a token and an mtime | acquire, reclaim an abandoned file, release | several processes, system calls that interleave, crash while held, a reclaim that races a reclaim | one holder; a release never takes away another job's lock; an abandoned file does not block for ever |
| Retention run `mgo/retention/service.py`, `repository.py` | lifecycle rows, files, two lock files, a run's snapshot and plan | recovery, plan, claim, unlink, finalise, cancel | crash between any two steps, files changing behind MGO's back, overlapping runs, arrivals while a run works | the newest captures survive; what was removed is never taken for a loss; one intent at a time; each deletion recorded once |
| Retention policy `mgo/retention/policy.py` | none (a function of catalogue, clock and settings) | age rule, byte rule, floor, cap, reason | boundaries; the truncated plan; two overlapping rules | the plan is the least remedy; its reason is true; a backlog drains |
| Admission `mgo/event_capture/admission.py` | reservation markers on disk, held reservations, catalogue counts, cooldown clock | evaluate, admit, release, sweep | crash with a reservation held, a marker that cannot be removed, catalogue and ledger read at different moments | quotas are never exceeded; a reservation is not lost or counted for ever |
| Event capture `mgo/event_capture/service.py` | a one-slot queue, worker thread, counters | start, submit, run, shutdown | submit on the event loop against the worker thread, the sentinel at shutdown | a request is executed at most once; shutdown ends the worker |
| Capture workflow `mgo/captures`, `mgo/camera/capture.py` | files and catalogue rows | capture, archive, discard | file written but row refused; a collision of names | a row never points at a file that was not completely written |
| Coordinator, preview `mgo/camera/coordinator.py`, `preview.py` | preview state, process, operation lock | start, stop, capture, shutdown, reconcile | start that is overtaken by stop, process that dies, capture that fails with the preview released | at most one camera process; the preview returns exactly when it had been running |
| Stream broker `mgo/camera/streaming.py` | subscribers, pump thread, generation | subscribe, unsubscribe, pump, broadcast | last subscriber leaves while another arrives | one pump per preview; no subscriber left behind |
| Motion `mgo/motion` | reference frame, subscription, latest result, last persisted status, time of the last motion | one cycle: read, compare, publish, record | exposure steps against real motion; cooldown over suppressed and recorded changes; a write that fails inside a cycle | a change of light is no motion; the timeline shows every activity and its end; triggers keep their distance; one bad cycle does not end the monitor |
| Lifespan `mgo/api/app.py` | background tasks, stop events, worker, the failures so far | start-up, serving, eight stages of shutdown | failure half way through start-up or shutdown, a photograph in progress, a trigger in the queue | parts outlive those that use them; every stage is attempted; the first failure is the one raised |
| Backup `mgo/operations/backup.py`, `source_identity.py` | recovery sets of three files, the lock file, what a run has captured, opened and published | capture the configuration, copy the database, publish, roll back, expire, verify, rehearse a restore | a configuration or a database replaced under the run, a crash or an error between two files, readers without the lock | a set that reads as complete is complete and is of one configuration and the database it chose; no file is left unaccounted for |
| Database `mgo/core/database.py`, `migrations/` | tables, history rows, SQLite's write lock | recognise, adopt, refuse, migrate | two services starting at once, deaths and failing statements between any two, unversioned and newer files | history and tables agree; what is not recognised is not touched; every service gets to run in the end |
| Database monitor `mgo/core/database_health.py`, `database_monitor.py` | latest result, last observation | check, compare, record | the observation goes into the file it is about; state set before it is written | the state follows the file, the timeline follows the state |
| Health and camera monitors `mgo/core/*_monitor.py` | last observed status | poll, compare, record | a record that fails after the state was set | see section 7; their tasks are part of the lifespan |
| Configuration `mgo/core/config.py` | none | parse, validate | settings of one part that another needs | nothing is enabled without what it depends on |
| Deployment gateway `scripts/deploy/mgo-validate` | the working tree, the service, marker files | validate, update, recover | interruption at any command | a failed update leaves the old version running |
| Notifications, health probes, identity, support bundle, pages, installers | little or none | readers and one-shot tools | pure I/O | not modelled, section 7 |

How they interact. The motion monitor hands a result to event capture
(`submit`, a queue), whose worker asks admission, then takes the photograph
through the coordinator (`capture_image`, a lock in the process) and archives it
(a row in the catalogue). Admission counts catalogue rows and its own marker
files. The nightly retention process shares only the catalogue, the image
directory and the backup's lock file with everybody else; a backup shares that
lock file and the catalogue. Nothing but SQLite's transactions and the two lock
files orders separate processes. Inside the service, the lifespan starts the
database, the monitors, the preview, the worker and the motion monitor one after
the other, and takes them down in an order of its own.

The hazards, each at the line where it bites and with the properties aimed
at it, are the list `hazards` of `PROJECT.json`.

## 2. Plan

In order of what a fault would cost: deleting photographs comes first, taking
them second, the camera process third, everything that only records last.

1. **`ExclusiveLock`, `HeldLock`, `OperationLock`** - the lock file. *Done, proved.*
2. **`MediaLifecycle`, `Retention`, `RetentionPolicy`** - the deletion of media,
   composed of two `ExclusiveLock`s, the recovery and the planner. *Done,
   proved.*
3. **`Admission`, `EventCapture`** - reservations and quotas; queue, worker and
   capture workflow composed with them. *Done, proved.*
4. **`CameraOwnership`, `Preview`, `CameraCoordinator`, `StreamBroker`** - the
   abstract camera with one owner, the preview service and the coordinator that
   implement it, and the broker that reads from it. *Done, proved.*
5. **`RecoverySets`, `Backup`** - the abstract directory of recovery sets, and
   the job that publishes and expires them file by file. *Done, proved.*
6. **`SchemaVersions`, `Migrations`, `DatabaseMonitor`** - the abstract schema,
   the start-up that migrates to it, and the monitor that watches the file
   afterwards. *Done, proved.*
7. **`MotionMonitor`, `Application`** - the motion monitor by itself, and the
   lifespan that composes it with the worker, the other monitors and the
   camera. *Done, proved.*

"Proved" is said of safety and of refinement: every invariant, every action
property and every refinement that a passing run checks is also a theorem, for
any value of the constants. Liveness is model-checked. What a next step could
add: the pieces that section 7 leaves out, foremost which file a failed capture
leaves behind, and the deployment gateway.

## 3. The models

### Lock file

`ExclusiveLock` has the moves of a lock file as its users see it: it is free,
held by one job, or abandoned by a job that is gone (`abandoned`, then `stale`
once six hours old), and only a stale lock is cleared. `Retention` and `Backup`
build their locks from these moves. `HeldLock` adds the jobs: who has taken the
lock and not given it up (`holders`). Each of its steps says what becomes of one
job and of the lock together, and a job gives up only a lock that is its own. So
whoever has the lock is the one it belongs to (`Held`), there are never two, and
nobody else's is ever removed.

`OperationLock` is `OperationLock.acquire` and `release` (`locking.py`), one
action per system call: the `O_CREAT | O_EXCL` open, the `stat` of an existing
file, its `unlink` when judged stale, the single retry, the token read and the
`unlink` of a release. The `unlink` removes **whatever is at the path by then**,
which is the point of the model. Any call may fail; a process may die
between any two. With `SoloReclaim = TRUE` no two processes
are between the age check and the unlink at once.

`Holders` and `AbstractLock` map the contenders' positions and the file to
`HeldLock`: a contender holds the lock from the open that creates its file until
it has removed that file, failed to, or died. What `operation_lock_race` finds is
not a behaviour of `HeldLock`.

### Retention

| `Retention` | code |
|---|---|
| `TakeRetentionLock`, `TakeBackupLock`, `Clear...`, `Release...` | `service.py` `run_once`, `_acquire_backup_lock`, and the `finally` blocks; each lock is an `ExclusiveLock`, as `OperationLock` implements it with its holders (`HeldLock`) |
| `ListRecords` | `repository.list_lifecycle_records`: one read gives the pending intents and the captures to plan over |
| `RecoverInspects ... FinalizeRecovered` | `_recover_pending` |
| `PlanRetention` | `plan_retention` over the snapshot taken before recovery |
| `ValidatePasses`, `Claim`, `Revalidate`, `Unlink`, `Finalize`, `Cancel` | `_delete_candidate`, stages A, B, C and `_cancel` |
| `CommitDeletion` | `repository.finalize_deletion`, one transaction |
| `Crash`, `Abort` | the process dies; an exception nobody expected |
| `Archive` | the catalogue insert of a successful capture |
| `FileChanges` | somebody else removes, alters, repairs or restores a file; one that `lexists` cannot see for an error (`service.py:109`) reads as missing, and may be there again |

A run's `pc` names the step it will execute next, so every other process, a
crash, and the world outside may act between any two. Captures are natural
numbers in the planner's oldest-first order. The validation of a path has three
outcomes (the file as catalogued, missing, unverifiable), which is all the run
distinguishes. `LocksExclude = FALSE` lets a lock be taken while it is held:
that is what overlapping reclamations of `OperationLock` do.

`MediaLifecycle` is the abstract specification: seven fates of a capture's
media and the moves between them. `Fate` in `Retention` maps row and file to
a fate, and `ImplementsMediaLifecycle` says the run makes no other move. A file
that is missing may return as long as no run has taken it for deleted: `gone`
holds the captures whose file a run has unlinked or, on finishing an interrupted
deletion, found gone. A deletion is recorded only of those.

`RetentionPolicy` is the planner as the code computes it: sort, floor, age
rule, byte rule with its running total, reasons, cap, the `complete` flag, on
a day counter. Records arrive, days pass, runs execute the plan. A policy is one
that `_validate_retention_config` admits (`Valid`). `sorted` is the one sequence
of a set in the order of `_ordering_key` (`Sorted`); the `sum` of the sizes is the
number of bytes that the records own between them (`Bytes`); the loop of the byte
rule is a recursive function (`Running`) and the prefix it selects (`ByBytes`).

### Event capture

| `Admission` | code |
|---|---|
| `Admit`, `ReserveLeavesMarker` | `admission.py` `admit`, `_decide(reserve=True)`, `ReservationLedger.reserve`: the sweep, the two counts, the cooldown, the marker |
| `Evaluate` | a refusal for any reason, and `evaluate`: nothing but the sweep |
| `Photograph`, `Archive`, `AttemptFails` | `CaptureWorkflow.capture`: the camera transaction, the row, and each way to raise |
| `Release` | `release(succeeded=...)`: the marker goes only if a row carries the count |
| `Crash` | the process, or the board, dies; the clock of a board without a battery may come up behind |

A capture attempt is a number, its marker and its row two sets it may be a
member of, with an instant each. Free space, camera readiness and read errors
are reasons to refuse that may or may not be there, so a refusal needs no cause
in the model. `StepBack` is how far a restarted clock may lag; the sweep margin
of the code (48 h against a window of 24 h) covers a lag of up to 24 h, which
`AdmissionAssumption` states as `Day + StepBack <= SweepAfter`. The cooldown may
be of any length, as in `config.py:536`. One that is longer than a marker is kept
outlasts the memory of an attempt that failed: its marker is swept, it has no
row, and nothing holds the next one back. `CooldownKept` excepts exactly those
attempts (`Forgotten`).

`EventCapture` extends it with the service: `Submit` is the synchronous handler
on the event loop, `Shutdown` the part of `shutdown` before its first await,
`Exit` its return; the worker's actions cut `_run` and `_execute` at every
`await`, so a submission, a shutdown, a clock tick or the end of the process may
come between any two. Each worker action that touches the gate contains the
corresponding action of `Admission`.

The totals are those of the status endpoint. They do not simply add up: a change
of the whole frame is a suppression of a trigger that was never received
(`SubmitGlobalChange`, `service.py:239-241`), a photograph that turns out too
large counts as failed and as suppressed (`CountsFailure`, `532-541`), and what a
shutdown discards is not among them. `EveryTriggerIsAccounted` says what does:
once `Refusals` has taken the two off the suppressions, every trigger received
is waiting, in hand, or has come to exactly one end.

### Camera

`CameraOwnership` is what the package promises: the camera is free, or used by
one preview process, or by one still capture.

| module | code |
|---|---|
| `Preview`: `Launch`, `LaunchRefused`, `LaunchBreaks` | `preview.py` `_begin_start`, under the service's lock |
| `Preview`: `Overtaken`, `Validated`, `ValidationFails`, `ValidationBreaks` | the wait for the first frame without the lock, and `_finish_start` |
| `Preview`: `Settle` | `_settle_unexpected_start` |
| `Preview`: `Stop`, `ReleaseForCapture`, `Observe` | `stop`, `shutdown`, `release_for_capture`, `status`, `frame_stream`; each begins with `_reconcile_locked` (`Gone`) |
| `CameraCoordinator` | `coordinator.py`: `start_preview`, `capture_image` with release, capture and restoration, `stop_preview`, `shutdown` |
| `StreamBroker` | `streaming.py`: `MjpegBroker`, `Subscriber`, `PreviewProcessFrameSource` |

Processes are numbered in the order of their launch, and `alive` holds those
that run, whoever knows of them. `coordinated` is chosen once: either the
callers go through the coordinator, or they call the service as freely as its
docstrings allow. `Owner` maps a coordinated camera to `CameraOwnership`; two
processes, or a process beside a capture, map to no owner at all.

`StreamBroker` extends `CameraOwnership`: the broker only sees that the process
whose pipe it reads is gone. Its pump thread is cut wherever it reads or
waits without the lock; the check `source is not self._source` is one such
place. Browsers (`Viewing` is `app.py`'s `_mjpeg_stream`) and the motion monitor's
`BrokerFrameSource` are viewers.

### Backup

`RecoverySets` is the promise: a set (a database, the configuration that chose
it, the manifest that binds the two) appears whole, replaces none, and goes only
once `Keep` newer ones are there.

| `Backup` | code |
|---|---|
| `OpenConfiguration`, `ReadConfiguration`, `CaptureFails` | `capture_configuration` and `source_identity.read_regular_file`: open without following links, read, compare the path with the opened file |
| `ValidateSource ... NoTemporary` | `_validated_source`, `_prepared_destination`, the lock, the name taken from the clock |
| `AnchorSource`, `OpenSource`, `VerifyAnchor`, `CopyFails` | `anchored_source`, `_copy_database`: the file is held open, SQLite opens it by name, and the two are compared before and after the copy |
| `PublishDatabase`, `PublishConfiguration`, `PublishManifest` | the three renames, the manifest last |
| `PublicationFails`, `RollBack`, `TemporaryFails` | `_rollback_partial_set`, and the one error that passes by it |
| `ListSets`, `ApplyRetention`, `ListingFails`, `Retained` | `_run_retention`, `list_backups`, `apply_retention` |
| `StartRestoreTest ... FinishRestoreTest` | `verify_backup` and `restore_test`, which take no lock |
| `ChangeConfiguration`, `ChangeSource`, `Crash`, `LockExpires` | the administrator, a power cut, time |

A configuration's bytes are a version number and a database file is the
filesystem object it was copied from, so equal checksums are equal numbers. The
three files of a set are three functions of its timestamp. Which objects an
inspection finds unusable (`Sound`) and what rows they hold are constants.
`reported`, `crashed` and `escaped` are history: a file outside any complete
set must be explained by one of them or by a live run.

### Database

`SchemaVersions` is the promise: the schema goes up one released version at a
time with the record of it, and a file that is not recognised, or is newer, is
not touched. `Migrations` is `apply_migrations` statement by statement: the
tables are read, then the version, and the decision (adopt, refuse, start
afresh) is made on what may have changed since. SQLite is external: one writer
at a time holds a `draft`, which a commit puts in place. Each read-write
connection first asks for the write-ahead log (`RequestsWal`, `database.py:248`)
and does not ask whether it was granted; `Connects` is a connection of a service
that runs already. `Presented` is every database a deployment can bring: tables
of this or of another application without a history, or the file of a service of
this or of a newer build. A version of this schema is a table, and its shape who
created it.

`DatabaseMonitor` extends it with what a started service does: `CheckIntegrity`
and `CheckSchema` are the reads of `check_database_health`, `Concludes` the
comparison and the state, `RecordObservation` and `ObservationFails` the write
into the very file, which has a draft of its own to wait for.

### Motion and the lifespan

| module | code |
|---|---|
| `MotionMonitor`: `Compare`, `Median`, `Verdict` | `detector.py` `compare`, `is_motion`, `is_global_change`; `monitor.py` `_MotionEvaluator.evaluate` |
| `MotionMonitor`: `BeginCycle ... CloseSource` | `run_motion_monitor`, `_analyse_once`, cut at its two awaits; `BrokerFrameSource` |
| `MotionMonitor`: `ShouldPersist`, `Persists`, `ConcludeFails` | `_MotionObserver`; the write that raises |
| `Application`: `Migrate ... StartMotion`, `StartupFails`, `PrimaryFailure` | `app.py` `lifespan` up to `yield`, and the failures of each stage |
| `Application`: `SignalMotion ... NotifyStop`, `RecordStop` | `_shutdown_lifespan`, one action per await or stage that may fail; `Records` is `_record` |
| `Application`: `Triggers`, `RunMotion` | `_publish_motion_transition`, the listener that hands motion to the worker |
| `Application`: `ManagedPreviewPolicy`, `EventCapturePolicy` | the validators of `config.py` that tie parts together |

A frame is its luminance values at the analysis resolution, and a ratio a number
of pixels (`Verdicts` has the verdict of each frame after each other). The
timeline's last row is told from an equal one before it (`again`), so that every
row is a change of state and each motion row is judged. The worker is what it is
to its neighbours: it takes a trigger, is busy with the camera, and comes back;
`EventCapture` has its insides. Each life starts under one of the admissible
configurations `Settings`.

### Fault operators

Definitions whose comment begins with "Fault:" are not part of the
specification. Each is a plausible mistake in the definition it stands before;
with the mistake in place TLC finds the property named in `PROJECT.json`
violated, which shows that the property can fail.

## 4. The runs

| run | bounds | distinct states | shows |
|---|---|---|---|
| `operation_lock` | 3 contenders | 382 | with reclamations that do not overlap the file and its holders implement `HeldLock`, and the file is reclaimed when abandoned |
| `operation_lock_race` | 2 contenders | - | **violated**: two overlapping reclamations give two holders |
| `retention` | 2 runs, 1 backup, 4 captures (3 automatic), floor 1, cap 2 | 221,856 | exclusion, floor, recoverability, one intent, the abstract lifecycle |
| `retention_overlap` | 2 runs that may overlap, 2 captures | 245,674 | one observation per deletion without the locks; an interrupted deletion is settled |
| `retention_policy` | catalogues of up to 4 captures, 3 days, 6 configurations | 259,276 | the plan is the least remedy, the reasons are true, backlogs drain |
| `event_capture` | 3 attempts, 3 triggers a process, hourly limit 2, daily limit 2, cooldown 1, hour 2, day 4, sweep 5, lag 1, instants 0..6 | 3,334,112 | quotas, cooldown and count survive crashes, failures and clocks that come up behind; triggers are accounted for; shutdown starts nothing and ends |
| `camera` | 3 callers, 4 launches, coordinated or not, restoration on | 11,218 | the preview's state is truthful, no process is left behind; behind the coordinator the camera has one user, and an interrupted preview comes back or reads as failed |
| `stream` | 2 viewers, 2 launches, 3 generations | 146,233 | generations do not feed or end each other, no false end, no viewer left waiting |
| `backup` | 2 producers (symmetric), 2 runs, 2 stamps, `--keep 1`, 2 database paths, 2 configuration versions, 3 objects | 649,041 | a complete set is of one configuration and the database it chose; loose files are accounted for; a rehearsal proves a set; sets appear whole and expire in order |
| `database` | 2 services, schema version 2, 1 newer version, 2 faults | 162,698 | history and tables agree; what is not recognised is not touched; every service gets to run; observations follow the file |
| `application` | 3 pixels, 3 frames, 4 instants, cooldown 2, 3 configurations, 2 faults | 647,034 | parts outlive those that use them, every stage is attempted, the first failure is raised, shutdown ends; the timeline shows the activity, and a change of light is no motion |
| `motion_survives` | the same, everything enabled | - | **violated**: one failed write ends the motion monitor |

A conjunction such as `PolicyInv`, `LimitsKept`, `BrokerInv`, `BackupInv`,
`MonitorInv` or `LifeInv` joins the type invariant of a module, or several
limits of one kind, to the invariant that says something. Deadlock is not
checked where the system may really stop: when the runs a model allows are over
(`backup`), when a file is refused by every service (`database`), when the
catalogue is full and the days are over (`retention_policy`), and when the life
has ended (`application`, `motion_survives`).

Why the bounds are enough. Two runs are the first number at which locks,
claims and transactions can collide; a third adds only another collision of
the same pair, because every shared step is a conditional update of one row or
file. Four captures with a floor of one leave room for a condemned capture,
one that is being condemned, one above the floor and one manual capture that
must not count. The cap of two makes plans that are truncated and plans that
are not. For the policy, four captures with sizes and days around each limit
contain every case of the two rules (neither, each alone, both, the cap, a
total exactly at the limit, an age exactly at the limit).

For event capture, three attempts are one more than either limit admits; the
instants reach past one hour, one midnight and the sweep horizon, and one hour
spans the midnight, so a reservation and its photograph may fall on
different days. The run's cooldown is shorter than a marker's life; a longer
one, and with it the exception `Forgotten`, is left to the proof. Three triggers
fill the worker, the slot, and overflow it.

For the camera, three callers are a start, what overtakes it, and what comes
after both; four launches let each of them launch and one relaunch. A
third generation of pumps is current while two older ones, one from each
preview, are still on their way out.

For the backup, two runs are one that publishes and one that expires what it
published, or that comes upon what a dead one left; a lock abandoned by the
first may be cleared by the second. One change of the configuration and one
replacement of each path are all that can come between two looks at either;
the third object has the row counts of the first, so counts alone do not tell
them apart. Two stamps let the clock go forward, stand still and go back. With
`--keep 1` the second set expires the first.

For the database, the second service is the one that overtakes the first
between its reads and its transaction. Version 2 has a predecessor to adopt
from and a middle at which to die; the version ahead is what a newer build
leaves. Two faults let a recovery fail once. One migration is written with `IF
NOT EXISTS` and the other is not: the repository has both kinds.

For the lifespan, two faults are one in start-up or serving and one in the
cleanup that follows, or two in the cleanup, of which only the first may be
raised. The frames are one that only brightens, with noise, one in which a part
of the scene moves and one that changes whole; their three pixels are the least
number at which a median, a minority and a majority differ. Four instants and a
cooldown of two let one reading lie at another, within its cooldown, at the end
of it and beyond, and let the clock be set back. Configurations are
nothing, motion over a preview that is started by hand, and everything.

The proofs of section 6 remove the bounds for every safety property and every
refinement; liveness alone rests on them.

Two findings are recorded in `PROJECT.json`, each with a violation run:

- The doc comments at `locking.py:45-48` and `service.py:402-404` say that two
  processes cannot both hold the lock. Two processes that judge the same
  abandoned file stale can: the slower one's `unlink` removes the faster one's
  fresh file. It takes a file six hours old and two jobs inside the same
  instant; `retention_overlap` shows what still holds then.
- The docstring of `run_motion_monitor` (`motion/monitor.py:373-375`) says that
  every failure of a cycle is isolated. Only the read of the frame is: an
  observation that cannot be written (`monitor.py:355`) leaves the cycle and
  the loop, and the monitor is gone until the next start of the service. Its
  siblings catch the same failure (`database_monitor.py:84-94`).

Further disagreements met while modelling, which the models contain and no run
is devoted to:

- The docstring of `_cancel` (`retention/service.py:881-882`) says it is only
  reached while the file is on disk. It is also reached when revalidation finds
  the file missing and when the unlink fails because the file has vanished
  (826-844); the row then claims a present capture whose media is gone.
- The docstrings of the preview's `start` and `_settle_unexpected_start`
  (`preview.py:237-238`, `280-283`) promise that no call launches a duplicate
  process. A start that breaks in the backend settles in a second critical
  section, where it may take the `STARTING` of a later start for its own
  (299-305). The coordinator keeps the application from it: its lock spans both.
- The stream's source is called the sole consumer of the pipe
  (`streaming.py:185`). The broker does not wait for the pump it stops (283), so
  a viewer that comes before that pump's read returns brings a second reader. A
  subscribed motion monitor hides this: then no viewer is ever the last.
- `create_backup` turns the failures of publication into a report and a rollback,
  but its two `mkstemp` calls (`backup.py:941`, `1283`) raise an `OSError` that
  its handler of `OperationError` does not know: the files of the set stay and
  are not named (`escaped` in `Backup`).
- `record_suppression` says that it counts one suppressed trigger
  (`event_capture/models.py:291`). It is also called for a change of the whole
  frame, which is no trigger (`service.py:239-241`), and for a photograph that is too
  large and counts as failed already (on purpose: `532-541`).
- `apply_retention` says the newest set can never be removed
  (`backup.py:1440-1441`). Newest is by name: after the clock has been set back
  the set just published is the oldest, and goes (`Retained` in `Backup`;
  `SetsAreTrue` and `ImplementsRecoverySets` hold all the same).

## 5. Fairness

`OperationLock` assumes that contenders keep trying and that a system call of
an attempt does not fail for ever. `Retention!Fairness` is strong fairness of
the four recovery steps, whichever run takes them: runs that come to recovery
infinitely often are not killed, and their transactions not refused, every
single time. Nothing is assumed
of the operator, the backup or the file system otherwise. That runs get both
locks again and again (`RunsGetThrough`) is the premise of `IntentIsSettled`
rather than a fairness condition: it follows from the timers, which fire hours
apart and are bounded by `TimeoutStartSec` (900 s for a backup, 600 s for a
run: `scripts/deploy/mgo-*.service.template`), far less than the six hours
after which a lock file counts as abandoned. For the same reason a lock whose
owner is alive never becomes stale in the models.

`EventCapture!Fairness` is weak fairness of the worker and of the process exit.
The event loop schedules a ready task, and each call the worker awaits in a
thread returns: the camera commands have timeouts, SQLite a busy timeout.
Nothing is assumed of the motion monitor, the operator or the clock.

`CameraCoordinator!Fairness` is weak fairness of whoever holds the operation
lock: the capture command, the wait for the first frame and the wait for a
killed process have timeouts. Callers owe nothing, and may wait for the lock
for ever. `StreamBroker!Fairness` lets a pump thread run when it does not wait
for a frame, and lets it come to the end of a pipe whose process is gone
(strong fairness, because the pipe may still hold finitely many frames). No
frame is owed by the camera, no departure by a viewer.

`DatabaseMonitor!ServiceSpec` is weak fairness of each service's start and of
its monitor. A service that died is started again by systemd
(`Restart=on-failure`, `scripts/deploy/mgo.service.template:43`), a process runs,
and a monitor's timer fires. No statement is promised to succeed: the number of
faults is bounded instead, and `EveryServiceStarts` excepts a file that stays
damaged and one that is refused.

`Application!Spec` is weak fairness of the lifespan's coroutine, of the motion
monitor's task, of the end of a photograph and of the end of a monitor whose
stop event is set. The event loop runs what is ready; the read of a frame, the
camera's commands and SQLite have timeouts. Nothing makes the service stop, fail
or see motion. `RetentionPolicy` assumes that the timer fires: `TimerFires` is
weak fairness of `Run` with what enables a run, that there are candidates,
written out. `Backup` states safety only: no run is promised to come to its end.

## 6. The proofs

Eight modules hold the theorems; each extends the modules it is about:

| module | about |
|---|---|
| `OperationLockProofs` | `OperationLock`, `HeldLock`, `ExclusiveLock` |
| `RetentionProofs` | `Retention`, `MediaLifecycle`, `RetentionPolicy` |
| `EventCaptureProofs` | `Admission`, `EventCapture` |
| `CameraProofs` | `Preview`, `CameraCoordinator`, `CameraOwnership` |
| `StreamBrokerProofs` | `StreamBroker` |
| `BackupProofs` | `Backup`, `RecoverySets` |
| `DatabaseProofs` | `Migrations`, `SchemaVersions`, `DatabaseMonitor` |
| `ApplicationProofs` | `MotionMonitor`, `Application` |

Everything in them holds for every value of the constants that satisfies the
assumptions of the modules:

- `RetentionAssumption`: a finite catalogue, floor and cap positive, distinct
  names. `PolicyAssumption`: configurations that `config.py` admits.
- `AdmissionAssumption`: `ValidLimits`, which is what `config.py` admits; an hour
  within a day; a sweep horizon that covers a day and the lag of the clock.
  Nothing is assumed of the length of the cooldown.
- `LaunchAssumption`, `RestoreAssumption`, `CallersAssumption` (no caller is
  `Nobody`), `BrokerAssumption`: numbers are numbers.
- `BackupAssumption`: positive timestamps, finitely many of them and of
  configurations, each selecting one database path; at least one set is kept.
- `MigrationsAssumption`: at least one migration, finitely many services.
- `MotionAssumption`: the order of thresholds `config.py` enforces.
  `ApplicationAssumption`: its rules about which part needs which.

The catalogue of `RetentionPolicy` is not assumed to be finite: captures arrive
one at a time, so it always is (`Present`).

- **Lock.** `LockInvariant` adds to mutual exclusion that a held lock carries
  its holder's token, that a contender past the open owns the file, and
  that with a lone reclaimer a stale file is still stale when it is unlinked.
  From it `LockExcludes`, `ReleaseIsSafe`, and the refinement `LockRefines` to
  `HeldLock`, of which `HeldLockExcludes` says that whoever holds the lock is the
  one it belongs to: what the jobs rely on.
- **Floor.** `NewestKept` is not inductive: a plan was computed over an older
  catalogue. `FloorInv` adds that every candidate of a plan, and whatever a plan
  may still select from a run's snapshot, is above the floor now. It stays
  there because a capture leaves the managed set only when it is claimed, and
  whatever made the claimed capture eligible is newer than it: if that was
  counted for an older candidate, it still is (`FloorSurvivesClaim`). No lock is
  needed: `FloorIsKept` holds for either value of `LocksExclude`.
- **Recovery.** With `LocksExclude = TRUE`, `BackupLockInv` (who is between
  the locks holds them) gives `RunsExclude`. `MemoryInv` (what a run remembers is
  catalogued) and `SettledInv` (where a run stands determines which rows may
  be pending, which files unlinked, which observations written) are inductive
  together, and from them follow `LossIsExplained`, `OneIntentAtMost` and
  `UnlinkIsCondemned`. `OneObservation` needs no lock: `RecordedInv` says that a
  run that comes to finalise has removed the file or, in recovery, found it gone,
  and `gone` only grows (`GoneIsGone`), whoever else is at work, even if a file is
  put back; the conditional transaction (`CommitKeepsRows`) does the rest.
- **Refinement.** `RunImplementsLifecycle`: each action changes the fate of at
  most one capture (`FateChangesAt`), and that change is one of the moves of
  `MediaLifecycle`. The invariants above supply the guards; the floor is the
  one of `Condemn`.
- **Gate.** `HourlyQuota` and `DailyQuota` are not inductive: they say nothing of
  what the ledgers still hold. `GateInv` adds that an attempt is counted by its
  marker or row until the sweep horizon has passed over it (`CountedInv`, which
  gives `NothingUncounted` and, with `TimedInv`, that an admission sees every
  attempt of its windows: `AttemptsCounted`), that one reservation is in hand,
  the newest (`HandInv`), and that it was admitted with room for a photograph
  that is not yet a row (`RoomInv`). The clock may step back at a restart: only
  its lag against its latest reading matters. `HourInv` and `DayInv` are the
  quotas without the bound on instants.
- **Service.** `ServiceDrivesGate`: every step of `EventCapture` is a step of
  `Admission` or leaves it alone, because the worker's state follows the phase
  of the attempt (`WorkerInv`). The quotas and the cooldown are thus theorems of
  the service, `LimitsAreKept` for all of them. `QueueInv` (the sentinel is alone
  in the slot of a closed queue) gives `ClosedMeansClosed`, and with the counters
  `TriggersAreAccounted`.
- **Preview.** `PreviewInv` adds to `TruthfulState` and `NoStrayProcess` who has
  which process in hand (`HandsInv`): no two starts the same, and none a process
  that was not launched. It is inductive for callers that interleave freely,
  and `StepIsPreviewStep` carries it to the coordinator.
- **Coordinator.** `CoordinatorInv`: while a start is under way behind the lock, its
  process is the one supervised, and from the release to the end of the capture there
  is none. So there is one user at a time (`OneUserAtATime`), a launch finds
  the camera free (`LaunchTakesCamera`), and `CameraHasOneOwner` follows.
- **Planner.** No induction over data is needed. `Sorted` exists because the rank
  of a capture, how many are before it, is an injection into the indices
  (`SortedIs`), and is unique because an index is told by how many captures come
  after it (`SortedOldest`). Each rule selects indices that are closed downwards,
  hence an initial segment (`InitialSegment`, from the well-foundedness of the
  naturals), and so does their union (`PlanIs`). `Running` is the total of
  what would be left (`RunningIs`): that function satisfies the recursive
  equation, and the least index where another solution differed would contradict
  it. From these follow `PlanIsMinimal`, `ReasonsTellWhy` and, since a deletion
  changes neither the floor nor who is newer than whom among the rest,
  `RunSettles`, the action part of `RunsSettle`.
- **Broker.** `PumpInv` adds to `BrokerInv` that a pump that reads has a
  process to read from (`StreamInv`), that a pump that is not current is on its way
  out or has nobody left to hear it (`PlaceInv`), and that one leaves only for want of a
  preview, of its process or of listeners (`LeavingInv`). So `BrokerHolds`.
- **Backup.** The lock excludes two producers wherever one may touch the
  directory (`LockInv`). No path names an older object than it once did, so a path
  that still names the anchor after the copy has named it throughout (`AnchorInv`).
  Whatever lies under a name with a manifest is what the manifest says, also
  half removed (`DescribedInv`), and what a run has still to remove are files of its
  own or whole sets with `Keep` newer ones that it spares (`DoomedInv`); every
  loose file is in somebody's hands or in a report (`InHandInv`). They give
  `SetsHold` and `OrphansAccounted`; `BackupRefines` maps the directory to its
  complete sets. A rehearsal takes no lock, so `KeptInv` follows the name it reads
  by: `RehearsalProves`, as long as at most one run has taken the name meanwhile.
  With two, the set copied, the one compared and the one checksummed again may be
  three; the attempt to prove the property without that condition found this.
- **Database.** `FileInv` (tables and history of the committed file), `NamesInv`,
  `PlanInv` (what a service still intends was right when it read, and stays
  harmless: versions only go up) and `TransactionInv` (the one open draft
  continues the committed file) are inductive together and give
  `HistoryDescribes`, `StartedIsCurrent` and the refinement `VersionsRefined`;
  `ObservedInv` and `MonitorsInv` add the monitors (`MonitorHolds`). The proof showed two
  cases of `Inspected` to overlap for an empty history; the order of the code's
  tests is now in their conditions.
- **Lifespan and motion.** `StageInv` ties the stage of the lifespan to which
  parts live and which stop events are set, `FailureInv` the failures recorded to
  the first of them; `UsersStop`, `NothingLeft` and `FirstFailure` follow. `ObserverInv`
  relates what the motion observer remembers to the timeline: `TimelineHolds`,
  `MotionsKeepDistance`. `VerdictFits` rests on the one fact about data: when a
  majority of pixels change by the same amount, that amount is the median
  (`BackgroundIsMedian`).

Only model-checked: liveness, which is out of the prover's reach
(`AbandonedLockIsReclaimed`, `IntentIsSettled`, `BacklogDrains` in `RunsSettle`, both
`ShutdownCompletes`, `PreviewReturns`, `ViewersAreReleased`,
`EveryServiceStarts`, `StatusCatchesUp`), and the two violations, which are about
particular behaviours.

## 7. What is not covered

Abstracted in the modelled parts:

- **Lock and retention.** The metadata text in a lock file, the five separate
  checks of the safety boundary (one outcome), failure observations and
  status counters of a run, the dry run, the run lock inside one process (the
  lock file already excludes), SQLite's own recovery (a transaction is one step).
- **Camera.** A disabled preview, the error texts and times of its status, a
  kill that does not reap its process within its timeout, a start that arrives
  at the lock after the application's shutdown (the server has drained its
  requests by then), the bytes of a frame.
- **Event capture.** Manual captures (no limit counts them), the amount of free
  space, the observations and the status fields other than the counters.
- **Backup.** The `--database` override and the temporary files (nothing reads
  them), the fields of a manifest other than the two checksums, events. A
  replaced file does not come back as itself, so the comparison of identities is
  by object and not by inode number. A directory that cannot be listed
  (`ListingFails`) fails the run although its set is published, as in the code.
- **Database.** Each schema version introduces one table, as all of the
  repository's do; column lists are a supported or an unsupported shape. A
  migration file beyond `CURRENT_SCHEMA_VERSION` is not modelled: the build is
  one. The verdicts of the health check for an older schema, a newer
  one and a missing history cannot be reached while a service that has started
  checks its own file: `Inspected` has them, and no state shows them.
- **Motion and lifespan.** Decoding and rescaling of frames; a failure between
  the first task and the cleanup scope, which leaves its tasks to the ending
  process (`NothingIsLeftRunning` is about lives with `closed`); routes.
- **Configuration.** The rules that tie settings together are assumptions
  (`ValidLimits`, `Valid`, `ValidThresholds`, `ApplicationAssumption`); reading the
  text of the file is left out.

Not modelled: rendering, command lines, probes of hardware tools and the camera
readiness they feed, readings of the host, the simulator's image arithmetic,
notification providers, the support bundle, build identity, installers. They
keep no state that a sequence of steps could corrupt, or are pure I/O. The
deployment gateway is not modelled either, although it has states worth
checking: it is a shell script whose steps are commands of git, uv and systemd,
and a model of it needs models of those first.
