----------------------------- MODULE Retention -----------------------------
(***************************************************************************)
(* The destructive retention run of src/mgo/retention, step by step: two   *)
(* lock files, the catalogue snapshot, the recovery of interrupted         *)
(* deletions, the plan, and the three-stage deletion of each candidate,    *)
(* with every failure and every crash point between two of its steps.      *)
(* Several processes run it (the nightly timer, an operator), a backup     *)
(* shares one of its locks, captures keep arriving, and files may be       *)
(* removed or altered behind MGO's back.                                   *)
(*                                                                         *)
(* Data abstraction.  A capture is its position in the planner's           *)
(* oldest-first order.  The safety boundary (path and file validation) has *)
(* three outcomes: the file is there as catalogued, it is missing, or it   *)
(* cannot be verified.  Which captures are old or heavy enough to go is    *)
(* RetentionPolicy's concern: a plan here is any selection of the shape    *)
(* the planner can return.                                                 *)
(***************************************************************************)
EXTENDS Naturals, FiniteSets

CONSTANTS
  Captures,            \* capture numbers, oldest first
  Motion,              \* the captures of origin "motion"
  Runs,                \* the processes that execute run_once
  Backup,              \* the process that takes a backup
  MinimumKeep,         \* minimum_keep_count
  MaxDeletionsPerRun,  \* max_deletions_per_run
  Instants,            \* the readings the wall clock may give to an intent
  LocksExclude         \* FALSE: a lock may be taken while it is held, which
                       \* is what OperationLock's overlapping reclamations do

ASSUME RetentionAssumption ==
  /\ IsFiniteSet(Captures) /\ Captures \subseteq Nat
  /\ Motion \subseteq Captures
  /\ MinimumKeep \in Nat \ {0}
  /\ MaxDeletionsPerRun \in Nat \ {0}
  /\ Instants \subseteq Nat
  /\ Backup \notin Runs
  /\ {"free", "abandoned", "stale"} \cap (Runs \cup {Backup}) = {}
  /\ LocksExclude \in BOOLEAN

VARIABLES
  catalogue,      \* the captures table: rows are added, never removed
  lifecycle,      \* capture_media_lifecycle: absence of a row is "present"
  requestedAt,    \* its requested_at_utc column
  observed,       \* how many success observations each capture has
  media,          \* what validation finds at each catalogued path
  gone,           \* history: the captures whose media a run has unlinked or,
                  \* finishing an interrupted deletion, found to be gone
  retentionLock,  \* .mgo-retention.lock
  backupLock,     \* the backup's lock file
  backup,         \* the backup process
  pc,             \* where each run is
  snapshot,       \* the managed captures of a run's catalogue snapshot
  intents,        \* the pending intents of that snapshot still to recover
  plan            \* the candidates a run has still to delete

database == <<catalogue, lifecycle, requestedAt, observed>>
files == <<media, gone>>
locks == <<retentionLock, backupLock, backup>>
memory == <<snapshot, intents, plan>>
vars == <<catalogue, lifecycle, requestedAt, observed, media, gone,
          retentionLock, backupLock, backup, pc, snapshot, intents, plan>>

RetentionLock == INSTANCE ExclusiveLock WITH Jobs <- Runs, lock <- retentionLock
BackupLock == INSTANCE ExclusiveLock
                WITH Jobs <- Runs \cup {Backup}, lock <- backupLock

Intent == [capture : Captures, at : Instants]

\* The steps between taking the second lock and giving it back.
Working == {"list_records", "recover", "recover_unlink", "recover_finalize",
            "validate", "claim", "revalidate", "unlink", "cancel", "finalize",
            "release_backup_lock"}

PC == {"idle", "take_retention_lock", "take_backup_lock",
       "release_retention_lock"} \cup Working

TypeOK ==
  /\ catalogue \subseteq Captures
  /\ lifecycle \in [Captures -> {"present", "pending_delete", "deleted"}]
  /\ requestedAt \in [Captures -> Instants]
  /\ observed \in [Captures -> Nat]
  /\ media \in [Captures -> {"ok", "missing", "unverifiable"}]
  /\ gone \subseteq Captures
  /\ retentionLock \in RetentionLock!LockValue
  /\ backupLock \in BackupLock!LockValue
  /\ backup \in {"idle", "running"}
  /\ pc \in [Runs -> PC]
  /\ snapshot \in [Runs -> SUBSET Captures]
  /\ intents \in [Runs -> SUBSET Intent]
  /\ plan \in [Runs -> SUBSET Captures]

Init ==
  /\ catalogue = {}
  /\ lifecycle = [c \in Captures |-> "present"]
  /\ requestedAt \in {[c \in Captures |-> t] : t \in Instants}
  /\ observed = [c \in Captures |-> 0]
  /\ media = [c \in Captures |-> "missing"]
  /\ gone = {}
  /\ retentionLock = RetentionLock!Free
  /\ backupLock = BackupLock!Free
  /\ backup = "idle"
  /\ pc = [p \in Runs |-> "idle"]
  /\ snapshot = [p \in Runs |-> {}]
  /\ intents = [p \in Runs |-> {}]
  /\ plan = [p \in Runs |-> {}]

Goto(p, label) == pc' = [pc EXCEPT ![p] = label]

\* A run's local variables go with the run.
Forget(p) == /\ snapshot' = [snapshot EXCEPT ![p] = {}]
             /\ intents' = [intents EXCEPT ![p] = {}]
             /\ plan' = [plan EXCEPT ![p] = {}]
-----------------------------------------------------------------------------
(* The planner, as far as a run depends on it. *)

\* Exactly the origin "motion", and no lifecycle row.
Managed == {c \in catalogue \cap Motion : lifecycle[c] = "present"}

Newer(S, c) == {d \in S : d > c}

\* Fault: the floor is one capture short.
EligibleOneShort(S) == {c \in S : Cardinality(Newer(S, c)) + 1 >= MinimumKeep}

\* All but the newest MinimumKeep.
Eligible(S) == {c \in S : Cardinality(Newer(S, c)) >= MinimumKeep}

\* Both rules select an oldest-first prefix, and the cap shortens it.
Plans(S) == {T \in SUBSET Eligible(S) :
               /\ Cardinality(T) <= MaxDeletionsPerRun
               /\ \A c \in T, d \in Eligible(S) : d < c => d \in T}

\* The candidate a run deals with next: the oldest left in its plan.
Candidate(p, c) == c \in plan[p] /\ \A d \in plan[p] : c <= d

\* The intent a run recovers next: the oldest request, the capture id breaking
\* ties.
Precedes(i, j) == i.at < j.at \/ (i.at = j.at /\ i.capture <= j.capture)

FirstIntent(p, i) == i \in intents[p] /\ \A j \in intents[p] : Precedes(i, j)
-----------------------------------------------------------------------------
(* Taking the locks. *)

StartRun(p) == /\ pc[p] = "idle"
               /\ Goto(p, "take_retention_lock")
               /\ UNCHANGED <<database, files, locks, memory>>

TakeRetentionLock(p) ==
  /\ pc[p] = "take_retention_lock"
  /\ \/ RetentionLock!Acquire(p)
     \/ ~LocksExclude /\ retentionLock' = p
  /\ Goto(p, "take_backup_lock")
  /\ UNCHANGED <<database, files, backupLock, backup, memory>>

\* Held by another run, or it cannot be created: LOCK_UNAVAILABLE.
RetentionLockUnavailable(p) ==
  /\ pc[p] = "take_retention_lock"
  /\ Goto(p, "idle")
  /\ UNCHANGED <<database, files, locks, memory>>

\* Fault: the run looks whether a backup holds the lock but does not take it.
TakeBackupLockLooks(p) ==
  /\ pc[p] = "take_backup_lock"
  /\ backupLock = BackupLock!Free
  /\ Goto(p, "list_records")
  /\ UNCHANGED <<database, files, locks, memory>>

TakeBackupLock(p) ==
  /\ pc[p] = "take_backup_lock"
  /\ \/ BackupLock!Acquire(p)
     \/ ~LocksExclude /\ backupLock' = p
  /\ Goto(p, "list_records")
  /\ UNCHANGED <<database, files, retentionLock, backup, memory>>

\* BACKUP_IN_PROGRESS or LOCK_UNAVAILABLE: the run gives its first lock back.
BackupLockUnavailable(p) ==
  /\ pc[p] = "take_backup_lock"
  /\ Goto(p, "release_retention_lock")
  /\ UNCHANGED <<database, files, locks, memory>>

\* An attempt that judges the file abandoned removes it before it retries.
ClearRetentionLock(p) ==
  /\ pc[p] = "take_retention_lock"
  /\ RetentionLock!Clear
  /\ UNCHANGED <<database, files, backupLock, backup, pc, memory>>

ClearBackupLock(p) ==
  /\ pc[p] = "take_backup_lock"
  /\ BackupLock!Clear
  /\ UNCHANGED <<database, files, retentionLock, backup, pc, memory>>
-----------------------------------------------------------------------------
(* Recovering interrupted deletions. *)

\* One read gives both the pending intents and the captures to plan over.
ListRecords(p) ==
  /\ pc[p] = "list_records"
  /\ intents' = [intents EXCEPT ![p] =
       {[capture |-> c, at |-> requestedAt[c]] :
          c \in {d \in catalogue : lifecycle[d] = "pending_delete"}}]
  /\ snapshot' = [snapshot EXCEPT ![p] = Managed]
  /\ Goto(p, "recover")
  /\ UNCHANGED <<database, files, locks, plan>>

\* Fault: missing media is refused instead of finalised.
RecoverInspectsPresent(p, i) ==
  /\ pc[p] = "recover"
  /\ FirstIntent(p, i)
  /\ media[i.capture] = "ok"
  /\ Goto(p, "recover_unlink")
  /\ UNCHANGED <<database, files, locks, memory>>

RecoverInspects(p, i) ==
  /\ pc[p] = "recover"
  /\ FirstIntent(p, i)
  /\ \/ /\ media[i.capture] = "ok"
        /\ UNCHANGED gone
        /\ Goto(p, "recover_unlink")
     \/ /\ media[i.capture] = "missing"
        /\ gone' = gone \cup {i.capture}
        /\ Goto(p, "recover_finalize")
  /\ UNCHANGED <<database, media, locks, memory>>

\* Fault: the unverifiable intent is skipped and the run goes on.
RecoverSkips(p, i) ==
  /\ pc[p] = "recover"
  /\ FirstIntent(p, i)
  /\ media[i.capture] = "unverifiable"
  /\ intents' = [intents EXCEPT ![p] = @ \ {i}]
  /\ UNCHANGED <<database, files, locks, pc, snapshot, plan>>

\* The intent is left standing for a human and the run stops.
RecoverRefuses(p, i) ==
  /\ pc[p] = "recover"
  /\ FirstIntent(p, i)
  /\ media[i.capture] = "unverifiable"
  /\ Goto(p, "release_backup_lock")
  /\ UNCHANGED <<database, files, locks, memory>>

\* unlink takes away whatever has the name by now, but not nothing.
RecoverUnlinks(p, i) ==
  /\ pc[p] = "recover_unlink"
  /\ FirstIntent(p, i)
  /\ media[i.capture] # "missing"
  /\ media' = [media EXCEPT ![i.capture] = "missing"]
  /\ gone' = gone \cup {i.capture}
  /\ Goto(p, "recover_finalize")
  /\ UNCHANGED <<database, locks, memory>>

RecoverUnlinkFails(p) ==
  /\ pc[p] = "recover_unlink"
  /\ Goto(p, "release_backup_lock")
  /\ UNCHANGED <<database, files, locks, memory>>

\* Fault: the update does not ask for a pending row.
CommitUnconditionally(c) ==
  /\ lifecycle' = [lifecycle EXCEPT ![c] = "deleted"]
  /\ observed' = [observed EXCEPT ![c] = @ + 1]
  /\ UNCHANGED <<catalogue, requestedAt>>

\* One transaction: the row moves if it is still pending, and only then is
\* the success observation written.
CommitDeletion(c) ==
  /\ lifecycle[c] = "pending_delete"
  /\ lifecycle' = [lifecycle EXCEPT ![c] = "deleted"]
  /\ observed' = [observed EXCEPT ![c] = @ + 1]
  /\ UNCHANGED <<catalogue, requestedAt>>

FinalizeRecovered(p, i) ==
  /\ pc[p] = "recover_finalize"
  /\ FirstIntent(p, i)
  /\ CommitDeletion(i.capture)
  /\ intents' = [intents EXCEPT ![p] = @ \ {i}]
  /\ Goto(p, "recover")
  /\ UNCHANGED <<files, locks, snapshot, plan>>

\* Fault: a failed finalisation withdraws the intent, as a failed unlink does.
FinalizeFailureCancels(p) ==
  /\ pc[p] = "finalize"
  /\ Goto(p, "cancel")
  /\ UNCHANGED <<database, files, locks, memory>>

\* The transaction fails, or finds no pending row: FINALIZATION_FAILED, and
\* the row is left exactly as it is.
FinalizeFails(p) ==
  /\ pc[p] \in {"recover_finalize", "finalize"}
  /\ Goto(p, "release_backup_lock")
  /\ UNCHANGED <<database, files, locks, memory>>
-----------------------------------------------------------------------------
(* Deleting the candidates of a new plan. *)

\* Only once every intent of the snapshot is settled.
PlanRetention(p) ==
  /\ pc[p] = "recover"
  /\ intents[p] = {}
  /\ \E T \in Plans(snapshot[p]) : plan' = [plan EXCEPT ![p] = T]
  /\ snapshot' = [snapshot EXCEPT ![p] = {}]
  /\ Goto(p, "validate")
  /\ UNCHANGED <<database, files, locks, intents>>

ValidatePasses(p, c) ==
  /\ pc[p] = "validate"
  /\ Candidate(p, c)
  /\ media[c] = "ok"
  /\ Goto(p, "claim")
  /\ UNCHANGED <<database, files, locks, memory>>

\* No intent is recorded and the run stops.
ValidateRefuses(p, c) ==
  /\ pc[p] = "validate"
  /\ Candidate(p, c)
  /\ media[c] # "ok"
  /\ Goto(p, "release_backup_lock")
  /\ UNCHANGED <<database, files, locks, memory>>

\* Stage A: INSERT ... ON CONFLICT DO NOTHING, committed.
Claim(p, c) ==
  /\ pc[p] = "claim"
  /\ Candidate(p, c)
  /\ lifecycle[c] = "present"
  /\ lifecycle' = [lifecycle EXCEPT ![c] = "pending_delete"]
  /\ \E t \in Instants : requestedAt' = [requestedAt EXCEPT ![c] = t]
  /\ Goto(p, "revalidate")
  /\ UNCHANGED <<catalogue, observed, files, locks, memory>>

\* The transaction fails, or the capture already has a row.
ClaimFails(p) ==
  /\ pc[p] = "claim"
  /\ Goto(p, "release_backup_lock")
  /\ UNCHANGED <<database, files, locks, memory>>

\* Stage B: validate again, then remove one file.
Revalidate(p, c) ==
  /\ pc[p] = "revalidate"
  /\ Candidate(p, c)
  /\ Goto(p, IF media[c] = "ok" THEN "unlink" ELSE "cancel")
  /\ UNCHANGED <<database, files, locks, memory>>

Unlink(p, c) ==
  /\ pc[p] = "unlink"
  /\ Candidate(p, c)
  /\ media[c] # "missing"
  /\ media' = [media EXCEPT ![c] = "missing"]
  /\ gone' = gone \cup {c}
  /\ Goto(p, "finalize")
  /\ UNCHANGED <<database, locks, memory>>

\* Fault: a failed unlink is taken for a file that was already gone.
UnlinkFailureFinalizes(p) ==
  /\ pc[p] = "unlink"
  /\ Goto(p, "finalize")
  /\ UNCHANGED <<database, files, locks, memory>>

UnlinkFails(p) ==
  /\ pc[p] = "unlink"
  /\ Goto(p, "cancel")
  /\ UNCHANGED <<database, files, locks, memory>>

\* DELETE ... WHERE state = 'pending_delete'; the run stops either way.
Cancel(p, c) ==
  /\ pc[p] = "cancel"
  /\ Candidate(p, c)
  /\ lifecycle[c] = "pending_delete"
  /\ lifecycle' = [lifecycle EXCEPT ![c] = "present"]
  /\ Goto(p, "release_backup_lock")
  /\ UNCHANGED <<catalogue, requestedAt, observed, files, locks, memory>>

CancelFails(p) ==
  /\ pc[p] = "cancel"
  /\ Goto(p, "release_backup_lock")
  /\ UNCHANGED <<database, files, locks, memory>>

\* Stage C.
Finalize(p, c) ==
  /\ pc[p] = "finalize"
  /\ Candidate(p, c)
  /\ CommitDeletion(c)
  /\ plan' = [plan EXCEPT ![p] = @ \ {c}]
  /\ Goto(p, "validate")
  /\ UNCHANGED <<files, locks, snapshot, intents>>

RunCompletes(p) ==
  /\ pc[p] = "validate"
  /\ plan[p] = {}
  /\ Goto(p, "release_backup_lock")
  /\ UNCHANGED <<database, files, locks, memory>>
-----------------------------------------------------------------------------
(* The end of a run. *)

\* An unusable capture root, an unreadable catalogue, or any exception that
\* is not one of the expected failures: the run stops where it is.
Abort(p) ==
  /\ pc[p] \in Working \ {"release_backup_lock"}
  /\ Goto(p, "release_backup_lock")
  /\ UNCHANGED <<database, files, locks, memory>>

\* In reverse order of acquisition; a file that cannot be removed stays.
ReleaseBackupLock(p) ==
  /\ pc[p] = "release_backup_lock"
  /\ BackupLock!Release(p) \/ BackupLock!Abandon(p)
  /\ Forget(p)
  /\ Goto(p, "release_retention_lock")
  /\ UNCHANGED <<database, files, retentionLock, backup>>

ReleaseRetentionLock(p) ==
  /\ pc[p] = "release_retention_lock"
  /\ RetentionLock!Release(p) \/ RetentionLock!Abandon(p)
  /\ Goto(p, "idle")
  /\ UNCHANGED <<database, files, backupLock, backup, memory>>

\* SIGKILL or a power cut, between any two steps.
Crash(p) ==
  /\ pc[p] # "idle"
  /\ RetentionLock!Abandon(p)
  /\ BackupLock!Abandon(p)
  /\ Forget(p)
  /\ Goto(p, "idle")
  /\ UNCHANGED <<database, files, backup>>
-----------------------------------------------------------------------------
(* The backup, and the rest of the world. *)

StartBackup ==
  /\ backup = "idle"
  /\ BackupLock!Acquire(Backup)
  /\ backup' = "running"
  /\ UNCHANGED <<database, files, retentionLock, pc, memory>>

EndBackup ==
  /\ backup = "running"
  /\ BackupLock!Release(Backup) \/ BackupLock!Abandon(Backup)
  /\ backup' = "idle"
  /\ UNCHANGED <<database, files, retentionLock, pc, memory>>

\* Six hours after its process is gone a lock file counts as abandoned.
LockExpires ==
  /\ \/ RetentionLock!Expire /\ UNCHANGED backupLock
     \/ BackupLock!Expire /\ UNCHANGED retentionLock
  /\ UNCHANGED <<database, files, backup, pc, memory>>

\* CaptureWorkflow.capture: the file is complete before its row exists.
Archive(c) ==
  /\ c \notin catalogue
  /\ catalogue' = catalogue \cup {c}
  /\ media' = [media EXCEPT ![c] = "ok"]
  /\ UNCHANGED <<lifecycle, requestedAt, observed, gone, locks, pc, memory>>

\* Somebody removes, alters, repairs or restores a file behind MGO's back.  A
\* file that lexists cannot see for an error reads as missing, so one that was
\* missing may be there again.
FileChanges(c) ==
  /\ c \in catalogue
  /\ \E m \in {"ok", "missing", "unverifiable"} \ {media[c]} :
       media' = [media EXCEPT ![c] = m]
  /\ UNCHANGED <<database, gone, locks, pc, memory>>

RunStep(p) ==
  \/ StartRun(p)
  \/ TakeRetentionLock(p)
  \/ RetentionLockUnavailable(p)
  \/ ClearRetentionLock(p)
  \/ TakeBackupLock(p)
  \/ BackupLockUnavailable(p)
  \/ ClearBackupLock(p)
  \/ ListRecords(p)
  \/ \E i \in intents[p] : \/ RecoverInspects(p, i)
                           \/ RecoverRefuses(p, i)
                           \/ RecoverUnlinks(p, i)
                           \/ FinalizeRecovered(p, i)
  \/ RecoverUnlinkFails(p)
  \/ FinalizeFails(p)
  \/ PlanRetention(p)
  \/ \E c \in plan[p] : \/ ValidatePasses(p, c)
                        \/ ValidateRefuses(p, c)
                        \/ Claim(p, c)
                        \/ Revalidate(p, c)
                        \/ Unlink(p, c)
                        \/ Cancel(p, c)
                        \/ Finalize(p, c)
  \/ ClaimFails(p)
  \/ UnlinkFails(p)
  \/ CancelFails(p)
  \/ RunCompletes(p)
  \/ Abort(p)
  \/ ReleaseBackupLock(p)
  \/ ReleaseRetentionLock(p)
  \/ Crash(p)

Environment == \/ StartBackup
               \/ EndBackup
               \/ LockExpires
               \/ \E c \in Captures : Archive(c) \/ FileChanges(c)

Next == (\E p \in Runs : RunStep(p)) \/ Environment

Spec == Init /\ [][Next]_vars

\* A step of recovery is not cut short by a crash, nor its transaction or its
\* unlink refused, every single time one of the runs comes to it.
Fairness ==
  /\ SF_vars(\E p \in Runs : ListRecords(p))
  /\ SF_vars(\E p \in Runs : \E i \in intents[p] : RecoverInspects(p, i))
  /\ SF_vars(\E p \in Runs : \E i \in intents[p] : RecoverUnlinks(p, i))
  /\ SF_vars(\E p \in Runs : \E i \in intents[p] : FinalizeRecovered(p, i))

FairSpec == Spec /\ Fairness
-----------------------------------------------------------------------------
(* Safety. *)

Destructive(p) == pc[p] \in Working \ {"release_backup_lock"}

\* At most one run is between its two locks and their release, and none of
\* them while a backup is running.
Exclusion ==
  /\ \A p, q \in Runs : Destructive(p) /\ Destructive(q) => p = q
  /\ \A p \in Runs : Destructive(p) => backup = "idle"

\* The floor.  Whatever the interleaving of runs, arrivals and cancellations,
\* a capture condemned or deleted is a motion capture with at least MinimumKeep
\* newer managed captures still present.
AboveFloor(c) == c \in Motion /\ Cardinality(Newer(Managed, c)) >= MinimumKeep

NewestKept == \A c \in catalogue : lifecycle[c] # "present" => AboveFloor(c)

\* Media a run has removed, or has found gone while it finished a deletion, is
\* never taken for an unexplained loss: its row says pending (recoverable) or
\* deleted.
NoUnexplainedLoss ==
  \A c \in gone : lifecycle[c] \in {"pending_delete", "deleted"}

\* A run settles what an earlier one left before it condemns anything new, so
\* a crash never leaves more than one capture undecided.
AtMostOneIntent ==
  \A c, d \in catalogue :
    lifecycle[c] = "pending_delete" /\ lifecycle[d] = "pending_delete" => c = d

\* One deletion, one success observation, and no row says deleted unless a run
\* has unlinked the file or, recovering the deletion, found it gone.
OneObservationPerDeletion ==
  \A c \in catalogue :
    /\ observed[c] = IF lifecycle[c] = "deleted" THEN 1 ELSE 0
    /\ lifecycle[c] = "deleted" => c \in gone

\* No file is unlinked, or taken for deleted because it is not there, unless
\* the intent to delete it is already durable.
UnlinkOnlyCondemned ==
  [][\A c \in Captures : c \in gone' \ gone =>
       lifecycle[c] = "pending_delete"]_vars

\* The timers keep starting runs, and again and again one of them gets both
\* locks: retention and backup fire hours apart, and OperationLock shows that
\* an abandoned file does not stop them.
RunsGetThrough == []<>(\E p \in Runs : pc[p] = "list_records")

\* An interrupted deletion does not stay interrupted: as long as runs get
\* through, every intent is settled, or its file has become one that only a
\* human can judge.
IntentIsSettled ==
  RunsGetThrough =>
    \A c \in Captures : lifecycle[c] = "pending_delete" ~>
      (lifecycle[c] # "pending_delete" \/ media[c] = "unverifiable")

\* The abstract lifecycle of each capture's media.
Fate == [c \in Captures |->
  IF c \notin catalogue THEN "uncatalogued"
  ELSE IF lifecycle[c] = "deleted" THEN "reclaimed"
  ELSE IF lifecycle[c] = "pending_delete"
       THEN IF c \in gone THEN "removed"
            ELSE IF media[c] = "missing" THEN "vanished" ELSE "condemned"
       ELSE IF media[c] # "missing" THEN "kept" ELSE "lost"]

Lifecycle == INSTANCE MediaLifecycle WITH fate <- Fate

\* The run as a whole implements the lifecycle.
ImplementsMediaLifecycle == Lifecycle!Spec
=============================================================================
