------------------------------- MODULE Backup -------------------------------
(***************************************************************************)
(* The backup job of src/mgo/operations/backup.py: the configuration is    *)
(* captured once, the database it names is copied under an identity        *)
(* anchor, and the three files of a recovery set are published one by one, *)
(* the manifest last; then older sets expire.  Several processes may run   *)
(* it against one directory, each may die between two steps, the           *)
(* administrator may change the configuration or the database file under   *)
(* it, and an operator verifies and rehearses the restore of a set without *)
(* taking the lock.                                                        *)
(*                                                                         *)
(* Data abstraction.  A configuration's bytes are a version number and a   *)
(* database file is the filesystem object it was copied from, so equal     *)
(* checksums are equal numbers.  The three files of a set are three        *)
(* functions of its timestamp, each giving {} where there is no such file. *)
(***************************************************************************)
EXTENDS Naturals, FiniteSets

CONSTANTS
  Producers,    \* the processes that run `backup`
  Stamps,       \* the names the clock may give, to the second
  Keep,         \* --keep
  Databases,    \* the database paths a configuration may name
  Versions,     \* the successive contents of the configuration file
  Selects,      \* the database path that each of them names
  MaxObject,    \* bound: the filesystem objects a database path ever names
  Unsound,      \* the objects an inspection finds unusable
  Rows,         \* the row counts of each object
  MaxRuns       \* bound: the runs that are started

Objects == 1..MaxObject

ASSUME BackupAssumption ==
  /\ Stamps \subseteq Nat \ {0} /\ IsFiniteSet(Stamps)
  /\ Keep \in Nat \ {0}
  /\ Versions \subseteq Nat /\ IsFiniteSet(Versions) /\ 1 \in Versions
  /\ Selects \in [Versions -> Databases]
  /\ Databases = 1..Cardinality(Databases)
  /\ MaxObject \in Nat /\ Databases \subseteq Objects
  /\ Unsound \subseteq Objects \ {Selects[1]}
  /\ Rows \in [Objects -> Nat]
  /\ MaxRuns \in Nat
  /\ {"free", "abandoned", "stale"} \cap Producers = {}

VARIABLES
  configuration,  \* the production configuration: which file, which bytes
  source,         \* the object each database path names
  database,       \* mgo-<stamp>.db
  snapshot,       \* mgo-<stamp>.toml: the versions its bytes come from
  manifest,       \* mgo-<stamp>.json: what it says of the other two
  lock,           \* the directory's lock file
  pc,             \* where each run is
  opened,         \* the configuration file as a run opened it
  captured,       \* the versions a run's captured bytes come from
  target,         \* the database path they name
  stamp,          \* the name a run has chosen for its set
  anchor,         \* the object a run holds open to compare against
  handle,         \* the object SQLite opened
  doomed,         \* the files a run has still to remove
  started,        \* how many runs have been started
  reported,       \* history: the files a run has reported it left behind
  crashed,        \* history: the sets a run was working on when it died
  escaped,        \* history: the sets left by an error no handler expects
  reader          \* the operator's verification or restore rehearsal

production == <<configuration, source>>
directory == <<database, snapshot, manifest>>
memory == <<opened, captured, target, stamp, anchor, handle, doomed>>
history == <<reported, crashed, escaped>>
vars == <<configuration, source, database, snapshot, manifest, lock, pc,
          opened, captured, target, stamp, anchor, handle, doomed, started,
          reported, crashed, escaped, reader>>

Lock == INSTANCE ExclusiveLock WITH Jobs <- Producers

NoObject == 0
NoStamp == 0      \* stamps are positive
Kinds == {"manifest", "database", "configuration"}

\* _inspect_database and _require_sound_database: integrity, a schema version
\* this build supports, and the expected tables.
Sound(o) == o \notin Unsound

\* What a manifest says: the checksums of the two files beside it.
Binding == [database : Objects, configuration : SUBSET Versions]

PC == {"idle", "read", "validate", "lock", "choose", "anchor", "open",
       "check_open", "check_copy", "inspect", "publish_configuration",
       "publish_manifest", "rollback", "retain", "remove", "succeeded",
       "failed"}

ReaderPC == {"idle", "load", "measure", "checksum", "copy_database",
             "copy_configuration", "compare", "recheck", "proved"}

ReaderState == [at : ReaderPC, stamp : Stamps \cup {NoStamp},
                says : SUBSET Binding, before : SUBSET Binding,
                copy : SUBSET Objects, toml : SUBSET Versions,
                reused : 0..2]

AtRest == [at |-> "idle", stamp |-> NoStamp, says |-> {}, before |-> {},
           copy |-> {}, toml |-> {}, reused |-> 0]

TypeOK ==
  /\ configuration \in [object : Nat, version : Versions]
  /\ source \in [Databases -> Objects]
  /\ database \in [Stamps -> SUBSET Objects]
  /\ snapshot \in [Stamps -> SUBSET Versions]
  /\ manifest \in [Stamps -> SUBSET Binding]
  /\ lock \in Lock!LockValue
  /\ pc \in [Producers -> PC]
  /\ opened \in [Producers -> [object : Nat, version : Versions]]
  /\ captured \in [Producers -> SUBSET Versions]
  /\ target \in [Producers -> Databases]
  /\ stamp \in [Producers -> Stamps \cup {NoStamp}]
  /\ anchor \in [Producers -> Objects \cup {NoObject}]
  /\ handle \in [Producers -> Objects \cup {NoObject}]
  /\ doomed \in [Producers -> SUBSET (Stamps \X Kinds)]
  /\ started \in 0..MaxRuns
  /\ reported \subseteq Stamps \X Kinds
  /\ crashed \subseteq Stamps
  /\ escaped \subseteq Stamps
  /\ reader \in ReaderState

FirstConfiguration == [object |-> 1, version |-> 1]

\* The directory as earlier runs left it: sets of the first configuration.
HoldsSets(earlier) ==
  /\ database = [s \in Stamps |-> IF s \in earlier THEN {Selects[1]} ELSE {}]
  /\ snapshot = [s \in Stamps |-> IF s \in earlier THEN {1} ELSE {}]
  /\ manifest = [s \in Stamps |-> IF s \in earlier
       THEN {[database |-> Selects[1], configuration |-> {1}]} ELSE {}]

Init ==
  /\ configuration = FirstConfiguration
  /\ source = [d \in Databases |-> d]
  /\ \E earlier \in SUBSET Stamps : HoldsSets(earlier)
  /\ lock = Lock!Free
  /\ pc = [p \in Producers |-> "idle"]
  /\ opened = [p \in Producers |-> FirstConfiguration]
  /\ captured = [p \in Producers |-> {}]
  /\ target = [p \in Producers |-> 1]
  /\ stamp = [p \in Producers |-> NoStamp]
  /\ anchor = [p \in Producers |-> NoObject]
  /\ handle = [p \in Producers |-> NoObject]
  /\ doomed = [p \in Producers |-> {}]
  /\ started = 0
  /\ reported = {}
  /\ crashed = {}
  /\ escaped = {}
  /\ reader = AtRest

Goto(p, label) == pc' = [pc EXCEPT ![p] = label]

\* A run's local variables go with the run.
Forget(p) == /\ opened' = [opened EXCEPT ![p] = FirstConfiguration]
             /\ captured' = [captured EXCEPT ![p] = {}]
             /\ target' = [target EXCEPT ![p] = 1]
             /\ stamp' = [stamp EXCEPT ![p] = NoStamp]
             /\ anchor' = [anchor EXCEPT ![p] = NoObject]
             /\ handle' = [handle EXCEPT ![p] = NoObject]
             /\ doomed' = [doomed EXCEPT ![p] = {}]
-----------------------------------------------------------------------------
(* The directory. *)

FilesOf(s) == {k \in Kinds : \/ k = "manifest" /\ manifest[s] # {}
                             \/ k = "database" /\ database[s] # {}
                             \/ k = "configuration" /\ snapshot[s] # {}}

\* Only a timestamp with all three files names a set.
CompleteSets == {s \in Stamps : FilesOf(s) = Kinds}

Orphans == {f \in Stamps \X Kinds : /\ f[2] \in FilesOf(f[1])
                                    /\ f[1] \notin CompleteSets}

BindingOf(s) == {[database |-> o, configuration |-> snapshot[s]] :
                   o \in database[s]}

NewerThan(s) == {t \in CompleteSets : t > s}

\* Fault: retention counts one set too few.
ExpiringOneMore == {s \in CompleteSets : Cardinality(NewerThan(s)) + 1 >= Keep}

\* The sets beyond the newest Keep, by name.
Expiring == {s \in CompleteSets : Cardinality(NewerThan(s)) >= Keep}

\* Files are removed newest set first and, in a set, the manifest first.
Rank(k) == CASE k = "manifest" -> 0 [] k = "database" -> 1 [] OTHER -> 2

First(p, f) == /\ f \in doomed[p]
               /\ \A g \in doomed[p] :
                    g[1] < f[1] \/ (g[1] = f[1] /\ Rank(f[2]) <= Rank(g[2]))

\* Some file of that name exists already.
Taken(s) == FilesOf(s) # {}
-----------------------------------------------------------------------------
(* Capturing the configuration, before the lock is taken. *)

\* The file is opened and its identity, size and time of change are noted.
OpenConfiguration(p) ==
  /\ pc[p] = "idle"
  /\ started < MaxRuns
  /\ started' = started + 1
  /\ opened' = [opened EXCEPT ![p] = configuration]
  /\ captured' = [captured EXCEPT ![p] = {configuration.version}]
  /\ Goto(p, "read")
  /\ UNCHANGED <<production, directory, lock, target, stamp, anchor, handle,
                 doomed, history, reader>>

\* What the descriptor still delivers: an edit in place shows through it, a
\* file renamed over the path does not.
DeliveredVersion(p) == IF configuration.object = opened[p].object
                       THEN configuration.version ELSE opened[p].version

\* The path must still name the opened file, and the file be unmodified; the
\* database path is parsed from these very bytes.
ReadConfiguration(p) ==
  /\ pc[p] = "read"
  /\ configuration = opened[p]
  /\ captured' = [captured EXCEPT ![p] = @ \cup {DeliveredVersion(p)}]
  /\ target' = [target EXCEPT ![p] = Selects[DeliveredVersion(p)]]
  /\ Goto(p, "validate")
  /\ UNCHANGED <<production, directory, lock, opened, stamp, anchor, handle,
                 doomed, started, history, reader>>

\* Nothing has been created yet, so there is nothing to undo.
GiveUp(p) == /\ Goto(p, "idle")
             /\ Forget(p)
             /\ UNCHANGED <<production, directory, lock, started, history,
                            reader>>

\* Unreadable, too large, changed while it was read, or not a configuration.
CaptureFails(p) == pc[p] = "read" /\ GiveUp(p)

ValidateSource(p) ==
  /\ pc[p] = "validate"
  /\ Goto(p, "lock")
  /\ UNCHANGED <<production, directory, lock, memory, started, history, reader>>

\* In memory, missing, a symbolic link, not a file.
SourceRefused(p) == pc[p] = "validate" /\ GiveUp(p)

DestinationUnwritable(p) == pc[p] = "validate" /\ GiveUp(p)
-----------------------------------------------------------------------------
(* The lock, and a name for the set. *)

TakeLock(p) ==
  /\ pc[p] = "lock"
  /\ Lock!Acquire(p)
  /\ Goto(p, "choose")
  /\ UNCHANGED <<production, directory, memory, started, history, reader>>

LockUnavailable(p) == pc[p] = "lock" /\ GiveUp(p)

\* An attempt that judges the lock file abandoned removes it first.
ClearLock(p) ==
  /\ pc[p] = "lock"
  /\ Lock!Clear
  /\ UNCHANGED <<production, directory, pc, memory, started, history, reader>>

\* The clock gives the name, and may have been set back since the last run.
ChooseName(p) ==
  /\ pc[p] = "choose"
  /\ \E s \in Stamps : /\ ~Taken(s)
                       /\ stamp' = [stamp EXCEPT ![p] = s]
  /\ Goto(p, "anchor")
  /\ UNCHANGED <<production, directory, lock, opened, captured, target,
                 anchor, handle, doomed, started, history, reader>>

\* The run is over, and its lock has still to be given back.
Fail(p) == /\ Goto(p, "failed")
           /\ UNCHANGED <<production, directory, lock, memory, started, history,
                          reader>>

NameTaken(p) == /\ pc[p] = "choose"
                /\ \E s \in Stamps : Taken(s)
                /\ Fail(p)

\* mkstemp raises: nothing has been published.
NoTemporary(p) == pc[p] = "choose" /\ Fail(p)
-----------------------------------------------------------------------------
(* Copying the database. *)

AnchorSource(p) ==
  /\ pc[p] = "anchor"
  /\ anchor' = [anchor EXCEPT ![p] = source[target[p]]]
  /\ Goto(p, "open")
  /\ UNCHANGED <<production, directory, lock, opened, captured, target, stamp,
                 handle, doomed, started, history, reader>>

\* SQLite opens the path by name.
OpenSource(p) ==
  /\ pc[p] = "open"
  /\ handle' = [handle EXCEPT ![p] = source[target[p]]]
  /\ Goto(p, "check_open")
  /\ UNCHANGED <<production, directory, lock, opened, captured, target, stamp,
                 anchor, doomed, started, history, reader>>

\* Once when SQLite has opened the path, once when the copy has been read.
VerifyAnchor(p) ==
  /\ \/ pc[p] = "check_open" /\ Goto(p, "check_copy")
     \/ pc[p] = "check_copy" /\ Goto(p, "inspect")
  /\ source[target[p]] = anchor[p]
  /\ UNCHANGED <<production, directory, lock, memory, started, history, reader>>

\* Every error up to the first rename removes the temporary file and reports.
CopyFails(p) ==
  /\ pc[p] \in {"anchor", "open", "check_open", "check_copy", "inspect"}
  /\ Fail(p)
-----------------------------------------------------------------------------
(* Publishing the three files. *)

\* The copy is opened on its own and found sound, then renamed into place.  The
\* history of the rehearsal counts, up to two, the sets begun under its name.
PublishDatabase(p) ==
  /\ pc[p] = "inspect"
  /\ Sound(handle[p])
  /\ database' = [database EXCEPT ![stamp[p]] = {handle[p]}]
  /\ reader' = IF reader.before # {} /\ reader.stamp = stamp[p] /\ reader.reused < 2
               THEN [reader EXCEPT !.reused = @ + 1] ELSE reader
  /\ Goto(p, "publish_configuration")
  /\ UNCHANGED <<production, snapshot, manifest, lock, memory, started,
                 history>>

\* Fault: the configuration is read a second time.
PublishConfigurationReread(p) ==
  /\ pc[p] = "publish_configuration"
  /\ snapshot' = [snapshot EXCEPT ![stamp[p]] = {configuration.version}]
  /\ Goto(p, "publish_manifest")
  /\ UNCHANGED <<production, database, manifest, lock, memory, started,
                 history, reader>>

PublishConfiguration(p) ==
  /\ pc[p] = "publish_configuration"
  /\ snapshot' = [snapshot EXCEPT ![stamp[p]] = captured[p]]
  /\ Goto(p, "publish_manifest")
  /\ UNCHANGED <<production, database, manifest, lock, memory, started,
                 history, reader>>

\* The completion marker, last.
PublishManifest(p) ==
  /\ pc[p] = "publish_manifest"
  /\ manifest' = [manifest EXCEPT ![stamp[p]] =
       {[database |-> handle[p], configuration |-> captured[p]]}]
  /\ Goto(p, "retain")
  /\ UNCHANGED <<production, database, snapshot, lock, memory, started,
                 history, reader>>

\* Fault: the failure is raised without rolling the set back.
PublicationJustFails(p) ==
  /\ pc[p] \in {"publish_configuration", "publish_manifest"}
  /\ Fail(p)

\* An OSError while the file is written or renamed: what this run has
\* published is taken back.
PublicationFails(p) ==
  /\ pc[p] \in {"publish_configuration", "publish_manifest"}
  /\ doomed' = [doomed EXCEPT ![p] = {stamp[p]} \X
       (IF pc[p] = "publish_manifest" THEN {"database", "configuration"}
        ELSE {"database"})]
  /\ Goto(p, "rollback")
  /\ UNCHANGED <<production, directory, lock, opened, captured, target, stamp,
                 anchor, handle, started, history, reader>>

\* The temporary file cannot be created.  mkstemp is called before the try of
\* _write_configuration_snapshot and of _write_manifest, so the error is no
\* OperationError and passes every handler of create_backup.
TemporaryFails(p) ==
  /\ pc[p] \in {"publish_configuration", "publish_manifest"}
  /\ escaped' = escaped \cup {stamp[p]}
  /\ Goto(p, "failed")
  /\ UNCHANGED <<production, directory, lock, memory, started, reported,
                 crashed, reader>>
-----------------------------------------------------------------------------
(* Removing files: the rollback of a partial set, and retention. *)

Unlink(p, f) ==
  /\ First(p, f)
  /\ doomed' = [doomed EXCEPT ![p] = @ \ {f}]
  /\ manifest' = IF f[2] = "manifest"
                 THEN [manifest EXCEPT ![f[1]] = {}] ELSE manifest
  /\ database' = IF f[2] = "database"
                 THEN [database EXCEPT ![f[1]] = {}] ELSE database
  /\ snapshot' = IF f[2] = "configuration"
                 THEN [snapshot EXCEPT ![f[1]] = {}] ELSE snapshot
  /\ UNCHANGED <<production, lock, pc, opened, captured, target, stamp,
                 anchor, handle, started, history, reader>>

\* The file stays, its name goes into the report, and the pass goes on.
UnlinkFails(p, f) ==
  /\ First(p, f)
  /\ doomed' = [doomed EXCEPT ![p] = @ \ {f}]
  /\ reported' = reported \cup {f}
  /\ UNCHANGED <<production, directory, lock, pc, opened, captured, target,
                 stamp, anchor, handle, started, crashed, escaped, reader>>

RollBack(p) == /\ pc[p] = "rollback"
               /\ \E f \in doomed[p] : Unlink(p, f) \/ UnlinkFails(p, f)

RolledBack(p) == pc[p] = "rollback" /\ doomed[p] = {} /\ Fail(p)

\* One listing, taken after the new set is complete.
ListSets(p) ==
  /\ pc[p] = "retain"
  /\ doomed' = [doomed EXCEPT ![p] = Expiring \X Kinds]
  /\ Goto(p, "remove")
  /\ UNCHANGED <<production, directory, lock, opened, captured, target, stamp,
                 anchor, handle, started, history, reader>>

\* The directory cannot be read: an OSError, so the run ends as a failure
\* although its set is published.
ListingFails(p) == pc[p] = "retain" /\ Fail(p)

ApplyRetention(p) == /\ pc[p] = "remove"
                     /\ \E f \in doomed[p] : Unlink(p, f) \/ UnlinkFails(p, f)

Retained(p) ==
  /\ pc[p] = "remove"
  /\ doomed[p] = {}
  /\ Goto(p, "succeeded")
  /\ UNCHANGED <<production, directory, lock, memory, started, history, reader>>

\* The lock file goes, or cannot be removed and is left to age.
ReleaseLock(p) ==
  /\ pc[p] \in {"succeeded", "failed"}
  /\ Lock!Release(p) \/ Lock!Abandon(p)
  /\ Goto(p, "idle")
  /\ Forget(p)
  /\ UNCHANGED <<production, directory, started, history, reader>>
-----------------------------------------------------------------------------
(* The environment of a run. *)

\* The sets whose files a run is in the middle of adding or removing.
InHand(p) == {stamp[p]} \cup {f[1] : f \in doomed[p]}

\* SIGKILL or a power cut; every rename is flushed before the next step.  A run
\* that dies before it has the lock leaves nothing, like one that gives up.
Crash(p) ==
  /\ pc[p] # "idle"
  /\ crashed' = crashed \cup (InHand(p) \cap Stamps)
  /\ Lock!Abandon(p)
  /\ Goto(p, "idle")
  /\ Forget(p)
  /\ UNCHANGED <<production, directory, started, reported, escaped, reader>>

LockExpires ==
  /\ Lock!Expire
  /\ UNCHANGED <<production, directory, pc, memory, started, history, reader>>

\* The administrator rewrites the configuration in place, or renames a new
\* file over it.
ChangeConfiguration ==
  /\ configuration.version + 1 \in Versions
  /\ \E o \in {0, 1} :
       configuration' = [object |-> configuration.object + o,
                         version |-> configuration.version + 1]
  /\ UNCHANGED <<source, directory, lock, pc, memory, started, history,
                 reader>>

\* A path comes to name a file that no path has named before: an object held
\* open is not recycled, and nobody renames the old file back.
ChangeSource(d) ==
  /\ \E o \in Objects :
       /\ \A e \in Databases : source[e] < o
       /\ source' = [source EXCEPT ![d] = o]
  /\ UNCHANGED <<configuration, directory, lock, pc, memory, started, history,
                 reader>>
-----------------------------------------------------------------------------
(* Verifying a set and rehearsing its restore, without the lock. *)

ReaderOnly == UNCHANGED <<production, directory, lock, pc, memory, started,
                          history>>

\* All three files are there.
StartRestoreTest ==
  /\ reader.at = "idle"
  /\ \E s \in CompleteSets :
       reader' = [AtRest EXCEPT !.at = "load", !.stamp = s]
  /\ ReaderOnly

LoadManifest ==
  /\ reader.at = "load"
  /\ manifest[reader.stamp] # {}
  /\ reader' = [reader EXCEPT !.at = "measure", !.says = manifest[reader.stamp]]
  /\ ReaderOnly

\* Sizes and checksums are what the manifest says, and the database is sound.
VerifySet ==
  /\ reader.at = "measure"
  /\ BindingOf(reader.stamp) = reader.says
  /\ \A o \in database[reader.stamp] : Sound(o)
  /\ reader' = [reader EXCEPT !.at = "checksum"]
  /\ ReaderOnly

\* The two files are checksummed before they are copied.
ChecksumSources ==
  /\ reader.at = "checksum"
  /\ {"database", "configuration"} \subseteq FilesOf(reader.stamp)
  /\ reader' = [reader EXCEPT !.at = "copy_database",
                              !.before = BindingOf(reader.stamp)]
  /\ ReaderOnly

CopyDatabase ==
  /\ reader.at = "copy_database"
  /\ database[reader.stamp] # {}
  /\ reader' = [reader EXCEPT !.at = "copy_configuration",
                              !.copy = database[reader.stamp]]
  /\ ReaderOnly

CopyConfiguration ==
  /\ reader.at = "copy_configuration"
  /\ snapshot[reader.stamp] # {}
  /\ reader' = [reader EXCEPT !.at = "compare",
                              !.toml = snapshot[reader.stamp]]
  /\ ReaderOnly

\* The copies against the manifest, loaded a second time: soundness and row
\* counts of the database, the checksum of the configuration.
CompareRestored ==
  /\ reader.at = "compare"
  /\ \A o \in reader.copy : Sound(o)
  /\ \E b \in manifest[reader.stamp] :
       /\ \A o \in reader.copy : Rows[o] = Rows[b.database]
       /\ reader.toml = b.configuration
  /\ reader' = [reader EXCEPT !.at = "recheck",
                              !.says = manifest[reader.stamp]]
  /\ ReaderOnly

\* Fault: the backup is not checksummed again after the rehearsal.
SourcesAssumedUnchanged ==
  /\ reader.at = "recheck"
  /\ reader' = [reader EXCEPT !.at = "proved"]
  /\ ReaderOnly

\* The two files must still be what they were before they were copied.
SourcesUnchanged ==
  /\ reader.at = "recheck"
  /\ BindingOf(reader.stamp) = reader.before
  /\ reader' = [reader EXCEPT !.at = "proved"]
  /\ ReaderOnly

\* A refusal, an error, or the end: the restored copies are removed.
FinishRestoreTest ==
  /\ reader.at # "idle"
  /\ reader' = AtRest
  /\ ReaderOnly
-----------------------------------------------------------------------------
RunStep(p) ==
  \/ OpenConfiguration(p) \/ ReadConfiguration(p) \/ CaptureFails(p)
  \/ ValidateSource(p) \/ SourceRefused(p) \/ DestinationUnwritable(p)
  \/ TakeLock(p) \/ LockUnavailable(p) \/ ClearLock(p)
  \/ ChooseName(p) \/ NameTaken(p) \/ NoTemporary(p)
  \/ AnchorSource(p) \/ OpenSource(p) \/ VerifyAnchor(p) \/ CopyFails(p)
  \/ PublishDatabase(p) \/ PublishConfiguration(p) \/ PublishManifest(p)
  \/ PublicationFails(p) \/ TemporaryFails(p)
  \/ RollBack(p) \/ RolledBack(p)
  \/ ListSets(p) \/ ListingFails(p) \/ ApplyRetention(p) \/ Retained(p)
  \/ ReleaseLock(p) \/ Crash(p)

RestoreTest ==
  \/ StartRestoreTest \/ LoadManifest \/ VerifySet \/ ChecksumSources
  \/ CopyDatabase \/ CopyConfiguration
  \/ CompareRestored \/ SourcesUnchanged \/ FinishRestoreTest

Next == \/ \E p \in Producers : RunStep(p)
        \/ RestoreTest
        \/ LockExpires
        \/ ChangeConfiguration
        \/ \E d \in Databases : ChangeSource(d)

Spec == Init /\ [][Next]_vars
-----------------------------------------------------------------------------
(* Properties. *)

Described(s) == manifest[s] = BindingOf(s)

\* Whatever crash, failure or administration came in between, a timestamp with
\* all three files names a set whose manifest describes those files, whose
\* configuration is one version and not a mixture, whose database is sound,
\* and whose database is the one that configuration selected; and the copy a
\* run publishes is of the very file it anchored (create_backup,
\* ConfigurationSnapshot, SourceAnchor).
SetsAreTrue ==
  /\ \A s \in CompleteSets :
       /\ Described(s)
       /\ Cardinality(snapshot[s]) = 1
       /\ database[s] \cap Unsound = {}
  /\ \A p \in Producers :
       pc[p] \in {"publish_manifest", "retain"} =>
         /\ database[stamp[p]] = {anchor[p]}
         /\ snapshot[stamp[p]] = captured[p]
         /\ \A v \in snapshot[stamp[p]] : target[p] = Selects[v]

\* What holds of the backup directory and of every run over it.
BackupInv == TypeOK /\ SetsAreTrue

Busy(p) == pc[p] \notin {"idle", "succeeded", "failed"}

InProgress == UNION {InHand(p) : p \in {q \in Producers : Busy(q)}}

\* A file that belongs to no complete set is in the hands of a live run, or a
\* run has named it in its report, or was killed over it -- or met the one
\* error no handler expects (_rollback_partial_set, apply_retention).
OrphansAreAccountedFor ==
  \A f \in Orphans : \/ f[1] \in InProgress \cup crashed \cup escaped
                     \/ f \in reported

\* A rehearsal that ends well has restored what the manifest it last read
\* binds together, although retention may remove the set and a run reuse its
\* name between the two checksums.  It is not so when two runs have: the set
\* copied, the set compared and the set checksummed again may then be three
\* (restore_test).
RestoreProvesASet ==
  (reader.at = "proved" /\ reader.reused <= 1) =>
    reader.says = {[database |-> o, configuration |-> reader.toml] :
                     o \in reader.copy}

\* The three files seen as one: a set is there when all three are.
Content(s) == IF FilesOf(s) = Kinds THEN BindingOf(s) ELSE {}

Sets == INSTANCE RecoverySets
          WITH Contents <- Binding, sets <- [s \in Stamps |-> Content(s)]

\* Publication file by file and removal file by file implement sets that
\* appear at once, replace none, and expire only when Keep newer ones stand.
ImplementsRecoverySets == Sets!Spec
=============================================================================
