---------------------------- MODULE BackupProofs ----------------------------
(***************************************************************************)
(* Machine-checked proofs about Backup, for any number of processes, runs, *)
(* names, configurations and database files: what every complete set is    *)
(* made of, what loose files are accounted for by, what a rehearsal has    *)
(* restored, and the refinement of RecoverySets.                           *)
(***************************************************************************)
EXTENDS Backup, FiniteSetTheorems, TLAPS

Copying == {"anchor", "open", "check_open", "check_copy", "inspect"}
Publishing == {"publish_configuration", "publish_manifest"}
Locked == Copying \cup Publishing
            \cup {"choose", "rollback", "retain", "remove", "succeeded", "failed"}

\* A run that may touch the directory holds its lock, so at most one does.
LockInv == \A p \in Producers : pc[p] \in Locked => lock = p

\* What is captured is one version, and the target is the path it selects.
CaptureInv ==
  \A p \in Producers :
    /\ pc[p] # "idle" => captured[p] = {opened[p].version}
    /\ pc[p] \notin {"idle", "read"} => target[p] = Selects[opened[p].version]

\* No path names an older object than it once did, so a path that names the anchor
\* still has named it throughout, and the object SQLite opened is the anchor.
AnchorInv ==
  \A p \in Producers :
    /\ pc[p] \in {"open", "check_open"} => anchor[p] <= source[target[p]]
    /\ pc[p] = "check_open" => anchor[p] <= handle[p] /\ handle[p] <= source[target[p]]
    /\ pc[p] \in {"check_copy", "inspect"} \cup Publishing \cup {"retain"}
         => handle[p] \in Objects /\ handle[p] = anchor[p]
    /\ pc[p] \in Publishing \cup {"retain"} => Sound(handle[p])

\* The files of the name a run has chosen are those it has published.
PublicationInv ==
  \A p \in Producers :
    LET s == stamp[p]
    IN  /\ pc[p] \in Copying \cup Publishing \cup {"rollback", "retain"} => s \in Stamps
        /\ pc[p] \in Copying => database[s] = {}
        /\ pc[p] \in Publishing \cup {"retain"} => database[s] = {handle[p]}
        /\ pc[p] \in Copying \cup {"publish_configuration"} => snapshot[s] = {}
        /\ pc[p] \in {"publish_manifest", "retain"} => snapshot[s] = captured[p]
        /\ pc[p] \in Copying \cup Publishing \cup {"rollback"} => manifest[s] = {}
        /\ pc[p] = "retain"
             => manifest[s] = {[database |-> handle[p], configuration |-> captured[p]]}

\* Whatever is there under a name with a manifest is what the manifest says, also
\* when some of it has been removed; and it is one sound object and one version.
DescribedInv ==
  \A s \in Stamps :
    /\ \A o \in database[s] : database[s] = {o}
    /\ \A b \in manifest[s] : /\ manifest[s] = {b}
                              /\ Sound(b.database)
                              /\ \E v \in Versions : b.configuration = {v}
                              /\ database[s] \subseteq {b.database}
                              /\ snapshot[s] \in {{}, b.configuration}

Dooms(p, s) == \E k \in Kinds : <<s, k>> \in doomed[p]

\* The complete sets a run has not set out to remove.
Spared(p, s) == {t \in NewerThan(s) : ~Dooms(p, t)}

\* What a run has still to remove: its own files, none of them a manifest, or whole
\* sets, each with Keep newer ones that it spares.
DoomedInv ==
  \A p \in Producers :
    /\ pc[p] \notin {"rollback", "remove"} => doomed[p] = {}
    /\ pc[p] = "rollback" => \A f \in doomed[p] : f[1] = stamp[p]
    /\ \A s \in CompleteSets, k \in Kinds :
         Dooms(p, s) => <<s, k>> \in doomed[p] \cup reported
    /\ pc[p] = "remove" => \A f \in doomed[p] : Cardinality(Spared(p, f[1])) >= Keep

\* OrphansAreAccountedFor, naming the very files a run has in hand.
InHandInv ==
  \A f \in Orphans :
    \/ f[1] \in crashed \cup escaped
    \/ f \in reported
    \/ \E p \in Producers : \/ pc[p] \in Publishing /\ f[1] = stamp[p]
                            \/ f \in doomed[p]

\* What a rehearsal has read after the first checksums is of the set they are of, or
\* of the one that has taken its name since.
Begun(s) == \E p \in Producers : pc[p] \in Publishing /\ stamp[p] = s
HalfBegun(s) == \E p \in Producers : pc[p] = "publish_configuration" /\ stamp[p] = s

Same(b) == LET s == reader.stamp
           IN  /\ database[s] \subseteq {b.database}
               /\ snapshot[s] \in {{}, b.configuration}
               /\ manifest[s] \subseteq {b}

ReadBy(b) ==
  LET s == reader.stamp
  IN  /\ reader.copy # {} => \/ reader.copy = {b.database}
                             \/ reader.copy = database[s]
                             \/ database[s] = {}
      /\ reader.toml # {} => \/ reader.toml = b.configuration
                             \/ ~HalfBegun(s) /\ snapshot[s] \in {{}, reader.toml}
      /\ reader.at = "recheck"
           => \/ reader.says = {b}
              \/ ~Begun(s) /\ \E c \in reader.says :
                   /\ reader.says = {c}
                   /\ database[s] \subseteq {c.database}
                   /\ snapshot[s] \in {{}, c.configuration}

Proved == reader.says = {[database |-> o, configuration |-> reader.toml] : o \in reader.copy}

PlacesInv ==
  /\ reader.at # "idle" => reader.stamp \in Stamps
  /\ reader.at \in {"idle", "load", "measure", "checksum"} => reader.before = {}
  /\ reader.at \in {"copy_database", "copy_configuration", "compare", "recheck"}
       => reader.before # {}
  /\ reader.at \in {"load", "measure", "checksum", "copy_database"} => reader.copy = {}
  /\ reader.at \in {"load", "measure", "checksum", "copy_database", "copy_configuration"}
       => reader.toml = {}
  /\ reader.at \in {"copy_configuration", "compare", "recheck"} => reader.copy # {}
  /\ reader.at \in {"compare", "recheck"} => reader.toml # {}

KeptInv ==
  \A b \in reader.before :
    /\ b.configuration # {}
    /\ reader.before = {b}
    /\ reader.reused = 0 /\ reader.at # "proved"
         => /\ Same(b) /\ ~HalfBegun(reader.stamp)
            /\ reader.copy \subseteq {b.database}
            /\ reader.toml \in {{}, b.configuration}
            /\ reader.at = "recheck" => reader.says = {b}
    /\ reader.reused = 1 /\ reader.at # "proved" => ReadBy(b)

RehearsalInv == PlacesInv /\ KeptInv /\ RestoreProvesASet

DirectoryInv == TypeOK /\ LockInv /\ CaptureInv /\ AnchorInv /\ PublicationInv
                  /\ DescribedInv /\ DoomedInv /\ InHandInv

(***************************************************************************)
(* Typing.                                                                 *)
(***************************************************************************)
\* The first configuration is one there may be, and selects a path that there is.
LEMMA FirstIsSound ==
  /\ 1 \in Versions /\ 1 \in Databases
  /\ Selects[1] \in Databases /\ Selects[1] \in Objects /\ Sound(Selects[1])
  /\ FirstConfiguration \in [object : Nat, version : Versions]
<1>1. 1 \in Versions /\ Selects[1] \in Databases /\ Selects[1] \in Objects
      /\ Sound(Selects[1])
  BY BackupAssumption DEF Sound
<1>2. IsFiniteSet(Databases)
  <2>1. IsFiniteSet(Objects)
    BY BackupAssumption, FS_Interval DEF Objects
  <2> QED
    BY BackupAssumption, <2>1, FS_Subset
<1>3. Cardinality(Databases) \in Nat /\ Databases = 1..Cardinality(Databases)
  BY BackupAssumption, <1>2, FS_CardinalityType
<1>4. 1 \in Databases
  BY <1>1, <1>3
<1> QED
  BY <1>1, <1>4 DEF FirstConfiguration

LEMMA BackupStarts == Init => TypeOK
<1> SUFFICES ASSUME Init PROVE TypeOK
  OBVIOUS
<1> USE BackupAssumption DEF Init, Objects
<1>1. PICK earlier \in SUBSET Stamps : HoldsSets(earlier)
  OBVIOUS
<1>2. FirstConfiguration \in [object : Nat, version : Versions] /\ 1 \in Databases
  BY FirstIsSound
<1>3. [database |-> Selects[1], configuration |-> {1}] \in Binding
  BY FirstIsSound DEF Binding
<1>4. /\ database \in [Stamps -> SUBSET Objects]
      /\ snapshot \in [Stamps -> SUBSET Versions]
      /\ manifest \in [Stamps -> SUBSET Binding]
  BY FirstIsSound, <1>1, <1>3 DEF HoldsSets
<1>5. source \in [Databases -> Objects]
  OBVIOUS
<1>6. reader \in ReaderState
  BY DEF AtRest, ReaderState, ReaderPC, NoStamp
<1> QED
  BY <1>2, <1>4, <1>5, <1>6 DEF TypeOK, PC, Lock!LockValue, Lock!Free, NoStamp, NoObject

LEMMA ReaderTyped ==
  ASSUME TypeOK, RehearsalInv, RestoreTest
  PROVE  reader' \in ReaderState
<1>1. reader \in ReaderState /\ (reader.at # "idle" => reader.stamp \in Stamps)
  BY DEF TypeOK, RehearsalInv, PlacesInv, KeptInv
<1> USE <1>1 DEF ReaderState, ReaderPC
<1>2. CASE StartRestoreTest \/ FinishRestoreTest
  <2>1. AtRest \in ReaderState
    BY DEF AtRest, NoStamp
  <2> QED
    BY <1>2, <2>1 DEF StartRestoreTest, FinishRestoreTest, CompleteSets
<1>3. CASE LoadManifest \/ CompareRestored
  <2>1. reader.at # "idle" => manifest[reader.stamp] \in SUBSET Binding
    BY DEF TypeOK
  <2> QED
    BY <1>3, <2>1 DEF LoadManifest, CompareRestored
<1>4. CASE VerifySet \/ SourcesUnchanged
  BY <1>4 DEF VerifySet, SourcesUnchanged
<1>5. CASE ChecksumSources
  <2>1. BindingOf(reader.stamp) \in SUBSET Binding
    BY <1>5 DEF ChecksumSources, BindingOf, Binding, TypeOK
  <2> QED
    BY <1>5, <2>1 DEF ChecksumSources
<1>6. CASE CopyDatabase \/ CopyConfiguration
  BY <1>6 DEF CopyDatabase, CopyConfiguration, TypeOK
<1> QED
  BY <1>2, <1>3, <1>4, <1>5, <1>6 DEF RestoreTest

LEMMA ReuseTyped ==
  \A r \in ReaderState : r.reused < 2 => [r EXCEPT !.reused = @ + 1] \in ReaderState
BY DEF ReaderState

LEMMA BackupTyped ==
  ASSUME TypeOK, AnchorInv, PublicationInv, RehearsalInv, [Next]_vars
  PROVE  TypeOK'
<1> USE BackupAssumption, FirstIsSound
    DEF TypeOK, production, directory, memory, history, Goto, NoObject, NoStamp
<1>1. ASSUME NEW p \in Producers, RunStep(p)
      PROVE  TypeOK'
  <2> USE DEF PC
  <2>1. CASE OpenConfiguration(p)
    BY <2>1 DEF OpenConfiguration
  <2>2. CASE ReadConfiguration(p)
    BY <2>2 DEF ReadConfiguration, DeliveredVersion
  <2>3. CASE CaptureFails(p)
    BY <2>3 DEF CaptureFails, GiveUp, Forget
  <2>4. CASE ValidateSource(p)
    BY <2>4 DEF ValidateSource
  <2>5. CASE SourceRefused(p)
    BY <2>5 DEF SourceRefused, GiveUp, Forget
  <2>6. CASE DestinationUnwritable(p)
    BY <2>6 DEF DestinationUnwritable, GiveUp, Forget
  <2>7. CASE TakeLock(p)
    BY <2>7 DEF TakeLock, Lock!Acquire, Lock!LockValue
  <2>8. CASE LockUnavailable(p)
    BY <2>8 DEF LockUnavailable, GiveUp, Forget
  <2>9. CASE ClearLock(p)
    BY <2>9 DEF ClearLock, Lock!Clear, Lock!LockValue, Lock!Free
  <2>10. CASE ChooseName(p)
    BY <2>10 DEF ChooseName
  <2>11. CASE NameTaken(p)
    BY <2>11 DEF NameTaken, Fail
  <2>12. CASE NoTemporary(p)
    BY <2>12 DEF NoTemporary, Fail
  <2>13. CASE AnchorSource(p)
    BY <2>13 DEF AnchorSource
  <2>14. CASE OpenSource(p)
    BY <2>14 DEF OpenSource
  <2>15. CASE VerifyAnchor(p)
    BY <2>15 DEF VerifyAnchor
  <2>16. CASE CopyFails(p)
    BY <2>16 DEF CopyFails, Fail
  <2>17. CASE PublishDatabase(p)
    <3>1. handle[p] \in Objects
      BY <2>17 DEF PublishDatabase, AnchorInv
    <3>2. reader' \in ReaderState
      BY <2>17, ReuseTyped DEF PublishDatabase
    <3> QED
      BY <2>17, <3>1, <3>2 DEF PublishDatabase
  <2>18. CASE PublishConfiguration(p)
    BY <2>18 DEF PublishConfiguration
  <2>19. CASE PublishManifest(p)
    BY <2>19 DEF PublishManifest, Binding, AnchorInv, PublicationInv, Publishing
  <2>20. CASE PublicationFails(p)
    BY <2>20 DEF PublicationFails, Kinds, PublicationInv, Publishing
  <2>21. CASE TemporaryFails(p)
    <3>1. stamp[p] \in Stamps
      BY <2>21 DEF TemporaryFails, PublicationInv, Publishing
    <3> QED
      BY <2>21, <3>1 DEF TemporaryFails
  <2>22. CASE RollBack(p)
    <3>1. PICK f \in doomed[p] : Unlink(p, f) \/ UnlinkFails(p, f)
      BY <2>22 DEF RollBack
    <3>2. CASE Unlink(p, f)
      BY <3>1, <3>2 DEF Unlink
    <3>3. CASE UnlinkFails(p, f)
      BY <3>1, <3>3 DEF UnlinkFails
    <3> QED
      BY <3>1, <3>2, <3>3
  <2>23. CASE RolledBack(p)
    BY <2>23 DEF RolledBack, Fail
  <2>24. CASE ListSets(p)
    BY <2>24 DEF ListSets, Expiring, CompleteSets, Kinds
  <2>25. CASE ListingFails(p)
    BY <2>25 DEF ListingFails, Fail
  <2>26. CASE ApplyRetention(p)
    <3>1. PICK f \in doomed[p] : Unlink(p, f) \/ UnlinkFails(p, f)
      BY <2>26 DEF ApplyRetention
    <3>2. CASE Unlink(p, f)
      BY <3>1, <3>2 DEF Unlink
    <3>3. CASE UnlinkFails(p, f)
      BY <3>1, <3>3 DEF UnlinkFails
    <3> QED
      BY <3>1, <3>2, <3>3
  <2>27. CASE Retained(p)
    BY <2>27 DEF Retained
  <2>28. CASE ReleaseLock(p)
    BY <2>28 DEF ReleaseLock, Lock!Release, Lock!Abandon, Lock!LockValue, Lock!Free, Lock!Abandoned, Forget
  <2>29. CASE Crash(p)
    BY <2>29 DEF Crash, Lock!Abandon, Lock!LockValue, Lock!Abandoned, Forget, InHand
  <2> QED
    BY <1>1, <2>1, <2>2, <2>3, <2>4, <2>5, <2>6, <2>7, <2>8, <2>9, <2>10, <2>11, <2>12, <2>13, <2>14, <2>15, <2>16, <2>17, <2>18, <2>19, <2>20, <2>21, <2>22, <2>23, <2>24, <2>25, <2>26, <2>27, <2>28, <2>29
       DEF RunStep
<1>2. CASE RestoreTest
  <2>1. reader' \in ReaderState
    BY <1>2, ReaderTyped
  <2> QED
    BY <1>2, <2>1 DEF RestoreTest, ReaderOnly, StartRestoreTest, LoadManifest, VerifySet,
       ChecksumSources, CopyDatabase, CopyConfiguration, CompareRestored, SourcesUnchanged,
       FinishRestoreTest
<1>3. CASE LockExpires
  BY <1>3 DEF LockExpires, Lock!Expire, Lock!LockValue, Lock!Stale
<1>4. CASE ChangeConfiguration
  BY <1>4 DEF ChangeConfiguration
<1>5. ASSUME NEW d \in Databases, ChangeSource(d)
      PROVE  TypeOK'
  BY <1>5 DEF ChangeSource
<1>6. CASE UNCHANGED vars
  BY <1>6 DEF vars
<1> QED
  BY <1>1, <1>2, <1>3, <1>4, <1>5, <1>6 DEF Next

(***************************************************************************)
(* The lock, the capture and the anchor.                                   *)
(***************************************************************************)
\* What a step of a run does to the other runs, and where it may lead.
Quiet(p) ==
  \/ OpenConfiguration(p) \/ ReadConfiguration(p) \/ CaptureFails(p)
  \/ ValidateSource(p) \/ SourceRefused(p) \/ DestinationUnwritable(p)
  \/ TakeLock(p) \/ LockUnavailable(p) \/ ClearLock(p)

Copies(p) == ChooseName(p) \/ NameTaken(p) \/ NoTemporary(p) \/ AnchorSource(p)
               \/ OpenSource(p) \/ VerifyAnchor(p) \/ CopyFails(p)

Publishes(p) == PublishDatabase(p) \/ PublishConfiguration(p) \/ PublishManifest(p)
                  \/ PublicationFails(p) \/ TemporaryFails(p)

Removes(p) == RollBack(p) \/ RolledBack(p) \/ ListSets(p) \/ ListingFails(p)
                \/ ApplyRetention(p) \/ Retained(p)

Ends(p) == ReleaseLock(p) \/ Crash(p)

LEMMA FourPhases ==
  \A p \in Producers :
    RunStep(p) <=> Quiet(p) \/ Copies(p) \/ Publishes(p) \/ Removes(p) \/ Ends(p)
BY DEF RunStep, Quiet, Copies, Publishes, Removes, Ends

\* A step that may touch the directory is one of the run that holds the lock.
LEMMA WorkersHoldTheLock ==
  ASSUME TypeOK, NEW p \in Producers, Copies(p) \/ Publishes(p) \/ Removes(p)
  PROVE  /\ pc[p] \in Locked /\ pc' = [pc EXCEPT ![p] = pc'[p]] /\ pc'[p] \in Locked
         /\ UNCHANGED <<lock, opened, captured, target, production>>
<1> USE DEF Locked, Copying, Publishing, Goto, Fail, memory, production, TypeOK
<1>1. CASE Copies(p)
  BY <1>1 DEF Copies, ChooseName, NameTaken, NoTemporary, AnchorSource, OpenSource,
     VerifyAnchor, CopyFails
<1>2. CASE Publishes(p)
  BY <1>2 DEF Publishes, PublishDatabase, PublishConfiguration, PublishManifest,
     PublicationFails, TemporaryFails
<1>3. CASE Removes(p)
  BY <1>3 DEF Removes, RollBack, RolledBack, ListSets, ListingFails, ApplyRetention,
     Retained, Unlink, UnlinkFails
<1> QED
  BY <1>1, <1>2, <1>3

LEMMA LockStays ==
  ASSUME TypeOK, LockInv, [Next]_vars
  PROVE  LockInv'
<1> USE BackupAssumption DEF LockInv, Lock!Free, Lock!Abandoned, Lock!Stale
<1>1. ASSUME NEW p \in Producers, Quiet(p)
      PROVE  LockInv'
  BY <1>1 DEF Quiet, OpenConfiguration, ReadConfiguration, CaptureFails, ValidateSource,
     SourceRefused, DestinationUnwritable, TakeLock, LockUnavailable, ClearLock, GiveUp, Goto,
     Locked, Copying, Publishing, Lock!Acquire, Lock!Clear, TypeOK
<1>2. ASSUME NEW p \in Producers, Copies(p) \/ Publishes(p) \/ Removes(p)
      PROVE  LockInv'
  BY <1>2, WorkersHoldTheLock DEF TypeOK
<1>3. ASSUME NEW p \in Producers, Ends(p)
      PROVE  LockInv'
  BY <1>3 DEF Ends, ReleaseLock, Crash, Goto, Lock!Release, Lock!Abandon, Locked, Copying,
     Publishing, TypeOK
<1>4. CASE RestoreTest \/ ChangeConfiguration \/ (\E d \in Databases : ChangeSource(d))
  BY <1>4 DEF RestoreTest, ReaderOnly, StartRestoreTest, LoadManifest, VerifySet,
     ChecksumSources, CopyDatabase, CopyConfiguration, CompareRestored, SourcesUnchanged,
     FinishRestoreTest, ChangeConfiguration, ChangeSource
<1>5. CASE LockExpires
  BY <1>5 DEF LockExpires, Lock!Expire
<1>6. CASE UNCHANGED vars
  BY <1>6 DEF vars
<1> QED
  BY <1>1, <1>2, <1>3, <1>4, <1>5, <1>6, FourPhases DEF Next

LEMMA EnvironmentOnly ==
  ASSUME RestoreTest \/ LockExpires
           \/ ChangeConfiguration \/ (\E d \in Databases : ChangeSource(d)) \/ UNCHANGED vars
  PROVE  UNCHANGED <<directory, pc, memory, history>>
BY DEF RestoreTest, ReaderOnly, StartRestoreTest, LoadManifest, VerifySet, ChecksumSources,
   CopyDatabase, CopyConfiguration, CompareRestored, SourcesUnchanged, FinishRestoreTest,
   ChangeConfiguration, ChangeSource, LockExpires, vars, directory, memory, history

\* A run that has not the lock, or no longer, has no files in hand.
LEMMA OutsidersOnly ==
  ASSUME TypeOK, DoomedInv, NEW p \in Producers, Quiet(p) \/ ReleaseLock(p)
  PROVE  /\ UNCHANGED <<directory, history, doomed, production>>
         /\ pc' = [pc EXCEPT ![p] = pc'[p]]
         /\ pc'[p] \in {"idle", "read", "validate", "lock", "choose"}
         /\ \A q \in Producers \ {p} :
              stamp'[q] = stamp[q] /\ handle'[q] = handle[q] /\ anchor'[q] = anchor[q]
                /\ captured'[q] = captured[q] /\ target'[q] = target[q]
<1> USE DEF Goto, memory, production, directory, history, TypeOK
<1>1. CASE GiveUp(p) /\ pc[p] \notin {"rollback", "remove"}
  BY <1>1 DEF GiveUp, Forget, DoomedInv
<1>2. CASE ReleaseLock(p)
  BY <1>2 DEF ReleaseLock, Forget, DoomedInv
<1>3. CASE \/ OpenConfiguration(p) \/ ReadConfiguration(p) \/ ValidateSource(p)
           \/ TakeLock(p) \/ ClearLock(p)
  BY <1>3 DEF OpenConfiguration, ReadConfiguration, ValidateSource, TakeLock, ClearLock
<1> QED
  BY <1>1, <1>2, <1>3 DEF Quiet, CaptureFails, SourceRefused, DestinationUnwritable,
     LockUnavailable

LEMMA CaptureStays ==
  ASSUME TypeOK, CaptureInv, [Next]_vars
  PROVE  CaptureInv'
<1> USE DEF CaptureInv
<1>1. ASSUME NEW p \in Producers, Quiet(p)
      PROVE  CaptureInv'
  BY <1>1 DEF Quiet, OpenConfiguration, ReadConfiguration, CaptureFails, ValidateSource,
     SourceRefused, DestinationUnwritable, TakeLock, LockUnavailable, ClearLock, GiveUp, Goto,
     Forget, memory, DeliveredVersion, TypeOK
<1>2. ASSUME NEW p \in Producers, Copies(p) \/ Publishes(p) \/ Removes(p)
      PROVE  CaptureInv'
  BY <1>2, WorkersHoldTheLock DEF TypeOK, Locked, Copying, Publishing
<1>3. ASSUME NEW p \in Producers, Ends(p)
      PROVE  CaptureInv'
  BY <1>3 DEF Ends, ReleaseLock, Crash, Goto, Forget, TypeOK
<1> QED
  BY <1>1, <1>2, <1>3, FourPhases, EnvironmentOnly DEF Next, memory

LEMMA AnchorStays ==
  ASSUME TypeOK, AnchorInv, PublicationInv, DoomedInv, [Next]_vars
  PROVE  AnchorInv'
<1> USE DEF AnchorInv, Publishing
<1>1. ASSUME NEW p \in Producers, Copies(p)
      PROVE  AnchorInv'
  <2> USE DEF Goto, Fail, memory, production
  <2>1. CASE ChooseName(p) \/ NameTaken(p) \/ NoTemporary(p) \/ CopyFails(p)
    BY <2>1 DEF ChooseName, NameTaken, NoTemporary, CopyFails, TypeOK
  <2>2. \A q \in Producers : /\ target[q] \in Databases /\ source[target[q]] \in Objects
                             /\ anchor[q] \in Nat /\ handle[q] \in Nat
    BY DEF TypeOK, Objects, NoObject
  <2>3. CASE AnchorSource(p)
    BY <2>2, <2>3 DEF AnchorSource, TypeOK, Objects
  <2>4. CASE OpenSource(p)
    BY <2>2, <2>4 DEF OpenSource, TypeOK, Objects
  <2>5. CASE VerifyAnchor(p)
    <3>1. handle[p] = anchor[p] /\ handle[p] \in Objects
      BY <2>2, <2>5 DEF VerifyAnchor
    <3> QED
      BY <2>5, <3>1 DEF VerifyAnchor, TypeOK
  <2> QED
    BY <1>1, <2>1, <2>3, <2>4, <2>5 DEF Copies
<1>2. ASSUME NEW p \in Producers, Publishes(p)
      PROVE  AnchorInv'
  BY <1>2 DEF Publishes, PublishDatabase, PublishConfiguration, PublishManifest,
     PublicationFails, TemporaryFails, Goto, TypeOK, memory, production
<1>3. ASSUME NEW p \in Producers, Removes(p)
      PROVE  AnchorInv'
  BY <1>3 DEF Removes, RollBack, RolledBack, ListSets, ListingFails, ApplyRetention, Retained,
     Unlink, UnlinkFails, Goto, Fail, TypeOK, memory, production
<1>4. ASSUME NEW p \in Producers, Quiet(p) \/ ReleaseLock(p)
      PROVE  AnchorInv'
  BY <1>4, OutsidersOnly DEF TypeOK, production
<1>5. ASSUME NEW p \in Producers, Crash(p)
      PROVE  AnchorInv'
  BY <1>5 DEF Crash, Goto, Forget, TypeOK, production
<1>6. ASSUME NEW d \in Databases, ChangeSource(d)
      PROVE  AnchorInv'
  <2>1. \A e \in Databases : source[e] \in Nat /\ source'[e] \in Nat /\ source[e] <= source'[e]
    BY <1>6 DEF ChangeSource, TypeOK, Objects
  <2>2. \A p \in Producers : target[p] \in Databases /\ anchor[p] \in Nat /\ handle[p] \in Nat
    BY DEF TypeOK, Objects, NoObject
  <2> QED
    BY <1>6, <2>1, <2>2 DEF ChangeSource, memory
<1>7. CASE RestoreTest \/ LockExpires \/ ChangeConfiguration \/ UNCHANGED vars
  BY <1>7 DEF RestoreTest, ReaderOnly, StartRestoreTest, LoadManifest, VerifySet,
     ChecksumSources, CopyDatabase, CopyConfiguration, CompareRestored, SourcesUnchanged,
     FinishRestoreTest, ChangeConfiguration, LockExpires, vars, production, memory
<1> QED
  BY <1>1, <1>2, <1>3, <1>4, <1>5, <1>6, <1>7, FourPhases DEF Next, Ends

(***************************************************************************)
(* The directory.                                                          *)
(***************************************************************************)
LEMMA OnlyOneWorks ==
  ASSUME LockInv, NEW p \in Producers, pc[p] \in Locked, NEW q \in Producers, q # p
  PROVE  pc[q] \notin Locked
BY DEF LockInv

LEMMA PublicationStays ==
  ASSUME TypeOK, LockInv, PublicationInv, DoomedInv, [Next]_vars
  PROVE  PublicationInv'
<1> USE DEF PublicationInv, Copying, Publishing
<1>1. ASSUME NEW p \in Producers, Quiet(p) \/ ReleaseLock(p)
      PROVE  PublicationInv'
  BY <1>1, OutsidersOnly DEF TypeOK, directory
<1>2. ASSUME NEW p \in Producers, Crash(p)
      PROVE  PublicationInv'
  BY <1>2 DEF Crash, Goto, Forget, TypeOK, directory
<1>3. ASSUME NEW p \in Producers, Copies(p)
      PROVE  PublicationInv'
  <2> USE DEF Goto, Fail, memory, directory
  <2>1. CASE ChooseName(p)
    <3>1. PICK s \in Stamps : ~Taken(s) /\ stamp' = [stamp EXCEPT ![p] = s]
      BY <2>1 DEF ChooseName
    <3>2. database[s] = {} /\ snapshot[s] = {} /\ manifest[s] = {}
      BY <3>1 DEF Taken, FilesOf, Kinds
    <3> QED
      BY <2>1, <3>1, <3>2 DEF ChooseName, TypeOK
  <2>2. CASE Copies(p) /\ ~ChooseName(p)
    BY <2>2 DEF Copies, NameTaken, NoTemporary, AnchorSource, OpenSource, VerifyAnchor,
       CopyFails, TypeOK
  <2> QED
    BY <1>3, <2>1, <2>2
<1>4. ASSUME NEW p \in Producers, Publishes(p)
      PROVE  PublicationInv'
  <2>1. pc[p] \in Locked /\ pc' = [pc EXCEPT ![p] = pc'[p]]
    BY <1>4, WorkersHoldTheLock
  <2>2. \A q \in Producers \ {p} : pc'[q] \notin Locked
    BY <2>1, OnlyOneWorks DEF TypeOK
  <2> SUFFICES LET s == stamp[p]
               IN  /\ pc'[p] \in Copying \cup Publishing \cup {"rollback", "retain"}
                        => s \in Stamps
                   /\ pc'[p] \notin Copying
                   /\ pc'[p] \in Publishing \cup {"retain"} => database'[s] = {handle[p]}
                   /\ pc'[p] = "publish_configuration" => snapshot'[s] = {}
                   /\ pc'[p] \in {"publish_manifest", "retain"} => snapshot'[s] = captured[p]
                   /\ pc'[p] \in Publishing \cup {"rollback"} => manifest'[s] = {}
                   /\ pc'[p] = "retain" => manifest'[s] =
                        {[database |-> handle[p], configuration |-> captured[p]]}
    BY <1>4, <2>2 DEF Locked, Publishes, PublishDatabase, PublishConfiguration, PublishManifest,
       PublicationFails, TemporaryFails, memory
  <2> QED
    BY <1>4 DEF Publishes, PublishDatabase, PublishConfiguration, PublishManifest,
       PublicationFails, TemporaryFails, memory, directory, Goto, TypeOK
<1>5. ASSUME NEW p \in Producers, Removes(p)
      PROVE  PublicationInv'
  <2>1. pc[p] \in Locked /\ pc' = [pc EXCEPT ![p] = pc'[p]]
    BY <1>5, WorkersHoldTheLock
  <2>2. \A q \in Producers \ {p} : pc'[q] \notin Locked
    BY <2>1, OnlyOneWorks DEF TypeOK
  <2>3. /\ stamp' = stamp
        /\ pc'[p] \in {"rollback", "remove", "failed", "succeeded"}
        /\ pc'[p] = "rollback" => pc[p] = "rollback"
    BY <1>5 DEF Removes, RollBack, RolledBack, ListSets, ListingFails, ApplyRetention, Retained,
       Unlink, UnlinkFails, Goto, Fail, TypeOK, memory
  <2>4. pc'[p] = "rollback" /\ manifest[stamp[p]] = {} => manifest'[stamp[p]] = {}
    BY <1>5 DEF Removes, RollBack, RolledBack, ListSets, ListingFails, ApplyRetention, Retained,
       Unlink, UnlinkFails, Goto, Fail, TypeOK, memory, directory
  <2> QED
    BY <2>2, <2>3, <2>4 DEF Locked
<1> QED
  BY <1>1, <1>2, <1>3, <1>4, <1>5, FourPhases, EnvironmentOnly
     DEF Next, Ends, memory, directory

LEMMA DirectoryChanges ==
  ASSUME TypeOK, DoomedInv, NEW p \in Producers, RunStep(p)
  PROVE  \/ UNCHANGED directory
         \/ PublishDatabase(p) \/ PublishConfiguration(p) \/ PublishManifest(p)
         \/ \E f \in doomed[p] : Unlink(p, f)
<1>1. CASE Quiet(p) \/ Ends(p)
  BY <1>1, OutsidersOnly DEF Ends, Crash
<1>2. CASE Copies(p)
  BY <1>2 DEF Copies, ChooseName, NameTaken, NoTemporary, AnchorSource, OpenSource,
     VerifyAnchor, CopyFails, Fail, directory
<1>3. CASE Publishes(p)
  BY <1>3 DEF Publishes, PublicationFails, TemporaryFails
<1>4. CASE Removes(p)
  BY <1>4 DEF Removes, RollBack, RolledBack, ListSets, ListingFails, ApplyRetention, Retained,
     UnlinkFails, Fail
<1> QED
  BY <1>1, <1>2, <1>3, <1>4, FourPhases

LEMMA DescribedStays ==
  ASSUME TypeOK, CaptureInv, AnchorInv, PublicationInv, DescribedInv, DoomedInv, [Next]_vars
  PROVE  DescribedInv'
<1> USE DEF DescribedInv
<1>1. CASE UNCHANGED directory
  BY <1>1 DEF directory
<1>2. ASSUME NEW p \in Producers, PublishDatabase(p)
      PROVE  DescribedInv'
  BY <1>2 DEF PublishDatabase, PublicationInv, Copying, TypeOK
<1>3. ASSUME NEW p \in Producers, PublishConfiguration(p)
      PROVE  DescribedInv'
  BY <1>3 DEF PublishConfiguration, PublicationInv, Publishing, TypeOK
<1>4. ASSUME NEW p \in Producers, PublishManifest(p)
      PROVE  DescribedInv'
  <2>1. captured[p] = {opened[p].version} /\ opened[p].version \in Versions
    BY <1>4 DEF PublishManifest, CaptureInv, TypeOK
  <2>2. /\ Sound(handle[p]) /\ database[stamp[p]] = {handle[p]}
        /\ snapshot[stamp[p]] = captured[p]
    BY <1>4 DEF PublishManifest, AnchorInv, PublicationInv, Publishing
  <2> QED
    <3> SUFFICES ASSUME NEW s \in Stamps, NEW b \in manifest'[s]
                 PROVE  /\ manifest'[s] = {b} /\ Sound(b.database)
                        /\ \E v \in Versions : b.configuration = {v}
                        /\ database[s] \subseteq {b.database}
                        /\ snapshot[s] \in {{}, b.configuration}
      BY <1>4 DEF PublishManifest
    <3>1. CASE s = stamp[p]
      <4>1. manifest'[s] = {[database |-> handle[p], configuration |-> captured[p]]}
        BY <1>4, <3>1 DEF PublishManifest, TypeOK
      <4>2. b.database = handle[p] /\ b.configuration = captured[p]
        BY <4>1
      <4> QED
        <5>1. manifest'[s] = {b} /\ Sound(b.database) /\ database[s] \subseteq {b.database}
          BY <2>2, <3>1, <4>1, <4>2
        <5>2. \E v \in Versions : b.configuration = {v}
          BY <2>1, <4>2
        <5>3. snapshot[s] = b.configuration
          BY <2>2, <3>1, <4>2
        <5> QED
          BY <5>1, <5>2, <5>3
    <3>2. CASE s # stamp[p]
      BY <1>4, <3>2 DEF PublishManifest, TypeOK
    <3> QED
      BY <3>1, <3>2
<1>5. ASSUME NEW p \in Producers, NEW f \in doomed[p], Unlink(p, f)
      PROVE  DescribedInv'
  BY <1>5 DEF Unlink, TypeOK
<1> QED
  BY <1>1, <1>2, <1>3, <1>4, <1>5, DirectoryChanges, EnvironmentOnly DEF Next

(***************************************************************************)
(* Retention: the newest sets are spared.                                  *)
(***************************************************************************)
\* A finite set of numbers has a greatest one: the sets of greater members are
\* well-founded under inclusion.
LEMMA Greatest ==
  ASSUME NEW S \in SUBSET Nat, IsFiniteSet(S), S # {}
  PROVE  \E m \in S : \A x \in S : x <= m
<1> DEFINE Above(x) == {y \in S : y > x}
           T == {Above(x) : x \in S}
<1>1. T \subseteq FiniteSubsetsOf(S) /\ T # {}
  <2>1. ASSUME NEW x \in S PROVE Above(x) \in FiniteSubsetsOf(S)
    <3>1. Above(x) \in SUBSET S
      OBVIOUS
    <3> QED
      BY <3>1, FS_Subset DEF FiniteSubsetsOf
  <2> QED
    BY <2>1
<1>2. \E U \in T : \A V \in T : ~(<<V, U>> \in StrictSubsetOrdering(S))
  <2> HIDE DEF T
  <2> QED
    BY <1>1, FS_StrictSubsetOrderingWellFounded, WFMin
<1>3. PICK m \in S : \A V \in T : ~(<<V, Above(m)>> \in StrictSubsetOrdering(S))
  BY <1>2
<1>4. ASSUME NEW x \in S, x > m
      PROVE  FALSE
  <2>1. Above(x) \in T
    OBVIOUS
  <2>2. \A y \in S : y \in Nat
    OBVIOUS
  <2>3. Above(x) \subseteq Above(m)
    <3> SUFFICES ASSUME NEW y \in S, y > x PROVE y > m
      OBVIOUS
    <3> QED
      BY <1>4, <2>2
  <2>4. x \in Above(m) /\ x \notin Above(x)
    BY <1>4, <2>2
  <2> QED
    BY <1>3, <2>1, <2>3, <2>4 DEF StrictSubsetOrdering
<1> QED
  BY <1>4

LEMMA NewestAreSpared ==
  ASSUME NEW s \in Expiring
  PROVE  Cardinality({t \in NewerThan(s) : t \notin Expiring}) >= Keep
<1> USE BackupAssumption
<1> DEFINE E == {t \in Expiring : t >= s}
<1>1. IsFiniteSet(CompleteSets) /\ CompleteSets \in SUBSET Nat
  BY FS_Subset DEF CompleteSets
<1>2. E \in SUBSET Nat /\ E \in SUBSET CompleteSets /\ s \in E
  <2>1. Expiring \subseteq CompleteSets
    BY DEF Expiring
  <2>2. s \in Nat
    BY <1>1, <2>1
  <2>3. E \subseteq Expiring
    OBVIOUS
  <2>4. s \in E
    BY <2>2
  <2> HIDE DEF E
  <2> QED
    BY <1>1, <2>1, <2>3, <2>4
<1>3. PICK m \in E : \A x \in E : x <= m
  BY <1>1, <1>2, FS_Subset, Greatest
<1>4. NewerThan(m) \subseteq {t \in NewerThan(s) : t \notin Expiring}
  <2> SUFFICES ASSUME NEW t \in CompleteSets, t > m
               PROVE  t > s /\ t \notin Expiring
    BY DEF NewerThan
  <2>1. s \in Nat /\ m \in Nat /\ t \in Nat /\ s <= m
    BY <1>1, <1>2, <1>3
  <2> QED
    BY <1>3, <2>1
<1>5. Cardinality(NewerThan(m)) >= Keep
  BY <1>3 DEF Expiring
<1>6. IsFiniteSet({t \in NewerThan(s) : t \notin Expiring})
  BY <1>1, FS_Subset DEF NewerThan
<1> QED
  BY <1>4, <1>5, <1>6, FS_Subset, FS_CardinalityType

\* A set is complete when none of its three files is missing.
LEMMA CompleteIs ==
  /\ \A s : s \in CompleteSets
              <=> s \in Stamps /\ manifest[s] # {} /\ database[s] # {} /\ snapshot[s] # {}
  /\ \A s : s \in CompleteSets'
              <=> s \in Stamps /\ manifest'[s] # {} /\ database'[s] # {} /\ snapshot'[s] # {}
<1>1. ASSUME NEW s \in Stamps
      PROVE  s \in CompleteSets <=> manifest[s] # {} /\ database[s] # {} /\ snapshot[s] # {}
  <2>1. FilesOf(s) = Kinds <=> \A k \in Kinds : k \in FilesOf(s)
    BY DEF FilesOf
  <2> QED
    BY <2>1 DEF CompleteSets, FilesOf, Kinds
<1>2. ASSUME NEW s \in Stamps
      PROVE  s \in CompleteSets'
               <=> manifest'[s] # {} /\ database'[s] # {} /\ snapshot'[s] # {}
  <2>1. FilesOf(s)' = Kinds <=> \A k \in Kinds : k \in FilesOf(s)'
    BY DEF FilesOf
  <2> QED
    BY <2>1 DEF CompleteSets, FilesOf, Kinds
<1> QED
  BY <1>1, <1>2 DEF CompleteSets

\* Removing a file, or failing to, spares what was spared and completes no set.
LEMMA UnlinkSpares ==
  ASSUME TypeOK, NEW p \in Producers, NEW f \in doomed[p], Unlink(p, f) \/ UnlinkFails(p, f)
  PROVE  /\ CompleteSets' \subseteq CompleteSets
         /\ doomed' = [doomed EXCEPT ![p] = @ \ {f}]
         /\ \A s \in Stamps : Spared(p, s) \subseteq Spared(p, s)'
                               /\ Cardinality(Spared(p, s)) <= Cardinality(Spared(p, s)')
         /\ Unlink(p, f) => f[1] \notin CompleteSets'
         /\ f \in Stamps \X Kinds
<1>1. f \in Stamps \X Kinds /\ f[1] \in Stamps /\ f[2] \in Kinds
  BY DEF TypeOK
<1>2. doomed' = [doomed EXCEPT ![p] = @ \ {f}]
  BY DEF Unlink, UnlinkFails
<1>3. \A s \in Stamps :
        /\ s # f[1] => /\ manifest'[s] = manifest[s] /\ database'[s] = database[s]
                       /\ snapshot'[s] = snapshot[s]
        /\ \/ UNCHANGED directory
           \/ Unlink(p, f) /\ manifest'[s] \in {{}, manifest[s]}
                /\ database'[s] \in {{}, database[s]} /\ snapshot'[s] \in {{}, snapshot[s]}
        /\ Unlink(p, f) /\ s = f[1]
             => manifest'[s] = {} \/ database'[s] = {} \/ snapshot'[s] = {}
  <2>1. CASE Unlink(p, f)
    BY <1>1, <2>1 DEF Unlink, Kinds, TypeOK
  <2>2. CASE UnlinkFails(p, f) /\ ~Unlink(p, f)
    BY <2>2 DEF UnlinkFails, directory
  <2> QED
    BY <2>1, <2>2
<1>4. CompleteSets' \subseteq CompleteSets /\ (Unlink(p, f) => f[1] \notin CompleteSets')
  BY <1>1, <1>3, CompleteIs DEF directory
<1>5. ASSUME NEW s \in Stamps
      PROVE  /\ Spared(p, s) \subseteq Spared(p, s)'
             /\ Cardinality(Spared(p, s)) <= Cardinality(Spared(p, s)')
  <2>1. Spared(p, s) \subseteq Spared(p, s)'
    <3> SUFFICES ASSUME NEW t \in Spared(p, s)
                 PROVE  t \in CompleteSets' /\ ~Dooms(p, t)'
      BY DEF Spared, NewerThan
    <3>1. t \in CompleteSets /\ ~Dooms(p, t)
      BY DEF Spared, NewerThan
    <3>2. f = <<f[1], f[2]>>
      BY <1>1
    <3>3. t # f[1]
      BY <1>1, <3>1, <3>2 DEF Dooms
    <3>4. t \in CompleteSets'
      BY <1>3, <3>1, <3>3, CompleteIs DEF directory
    <3>5. doomed'[p] \subseteq doomed[p]
      BY <1>2 DEF TypeOK
    <3> QED
      BY <3>1, <3>4, <3>5 DEF Dooms
  <2>2. IsFiniteSet(Spared(p, s)')
    <3>1. Spared(p, s)' \in SUBSET Stamps
      BY DEF Spared, NewerThan, CompleteSets
    <3> QED
      BY <3>1, BackupAssumption, FS_Subset
  <2> QED
    BY <2>1, <2>2, FS_Subset, FS_CardinalityType
<1> QED
  BY <1>1, <1>2, <1>4, <1>5

LEMMA DoomedStays ==
  ASSUME TypeOK, LockInv, PublicationInv, DoomedInv, [Next]_vars
  PROVE  DoomedInv'
<1>1. ASSUME UNCHANGED <<directory, doomed, reported>>,
             \A p \in Producers :
               /\ pc'[p] \notin {"rollback", "remove"} => doomed[p] = {}
               /\ pc'[p] = "rollback" => pc[p] = "rollback" /\ stamp'[p] = stamp[p]
               /\ pc'[p] = "remove" => pc[p] = "remove"
      PROVE  DoomedInv'
  <2>1. /\ \A s : FilesOf(s)' = FilesOf(s)
        /\ CompleteSets' = CompleteSets
    BY <1>1 DEF FilesOf, CompleteSets, directory
  <2>2. \A p, s : Dooms(p, s)' <=> Dooms(p, s)
    BY <1>1 DEF Dooms
  <2>3. \A p, s : Spared(p, s)' = Spared(p, s)
    BY <2>1, <2>2 DEF Spared, NewerThan
  <2> QED
    BY <1>1, <2>1, <2>2, <2>3 DEF DoomedInv
<1>2. ASSUME NEW p \in Producers, Quiet(p) \/ ReleaseLock(p)
      PROVE  DoomedInv'
  <2>1. pc[p] \notin {"rollback", "remove"}
    BY <1>2 DEF Quiet, OpenConfiguration, ReadConfiguration, CaptureFails, ValidateSource,
       SourceRefused, DestinationUnwritable, TakeLock, LockUnavailable, ClearLock, ReleaseLock
  <2> QED
    BY <1>1, <1>2, <2>1, OutsidersOnly DEF DoomedInv, history, TypeOK
<1>3. ASSUME NEW p \in Producers, Copies(p)
      PROVE  DoomedInv'
  <2>1. pc[p] \notin {"rollback", "remove"} /\ pc'[p] \notin {"rollback", "remove"}
        /\ UNCHANGED <<directory, doomed, reported>> /\ pc' = [pc EXCEPT ![p] = pc'[p]]
        /\ \A q \in Producers \ {p} : stamp'[q] = stamp[q]
    BY <1>3 DEF Copies, ChooseName, NameTaken, NoTemporary, AnchorSource, OpenSource,
       VerifyAnchor, CopyFails, Fail, Goto, memory, history, TypeOK
  <2> QED
    BY <1>1, <2>1 DEF DoomedInv, TypeOK
<1>4. ASSUME NEW p \in Producers, Publishes(p) \/ Removes(p)
      PROVE  DoomedInv'
  <2>1. pc[p] \in Locked /\ pc' = [pc EXCEPT ![p] = pc'[p]]
    BY <1>4, WorkersHoldTheLock
  <2>2. ASSUME NEW q \in Producers, q # p
        PROVE  pc[q] \notin Locked /\ pc'[q] = pc[q] /\ doomed[q] = {} /\ doomed'[q] = {}
    <3>1. pc[q] \notin Locked /\ pc'[q] = pc[q]
      BY <2>1, <2>2, OnlyOneWorks DEF TypeOK
    <3>2. doomed'[q] = doomed[q]
      BY <1>4, <2>2 DEF Publishes, PublishDatabase, PublishConfiguration, PublishManifest,
         PublicationFails, TemporaryFails, Removes, RollBack, RolledBack, ListSets, ListingFails,
         ApplyRetention, Retained, Unlink, UnlinkFails, Fail, memory, TypeOK
    <3> QED
      BY <3>1, <3>2 DEF DoomedInv, Locked
  <2> SUFFICES /\ pc'[p] \notin {"rollback", "remove"} => doomed'[p] = {}
               /\ pc'[p] = "rollback" => \A f \in doomed'[p] : f[1] = stamp'[p]
               /\ \A s \in CompleteSets', k \in Kinds :
                    Dooms(p, s)' => <<s, k>> \in doomed'[p] \cup reported'
               /\ pc'[p] = "remove"
                    => \A f \in doomed'[p] : Cardinality(Spared(p, f[1])') >= Keep
    BY <2>2 DEF DoomedInv, Dooms, Locked
  <2>3. CASE Publishes(p) /\ ~PublicationFails(p)
    <3>1. doomed'[p] = {} /\ pc'[p] \notin {"rollback", "remove"}
      BY <2>3 DEF Publishes, PublishDatabase, PublishConfiguration, PublishManifest,
         TemporaryFails, Goto, memory, TypeOK, DoomedInv
    <3> QED
      BY <3>1 DEF Dooms
  <2>4. CASE PublicationFails(p)
    <3>1. pc'[p] = "rollback" /\ stamp'[p] = stamp[p] /\ UNCHANGED directory
          /\ \A f \in doomed'[p] : f[1] = stamp[p]
      BY <2>4 DEF PublicationFails, Goto, TypeOK
    <3>2. stamp[p] \notin CompleteSets'
      BY <2>4, <3>1 DEF PublicationFails, PublicationInv, Publishing, CompleteSets, FilesOf,
         Kinds, directory
    <3> QED
      BY <3>1, <3>2 DEF Dooms
  <2>5. CASE ListSets(p)
    <3>1. doomed'[p] = Expiring \X Kinds /\ pc'[p] = "remove" /\ UNCHANGED directory
      BY <2>5 DEF ListSets, Goto, TypeOK
    <3>2. CompleteSets' = CompleteSets /\ \A s : NewerThan(s)' = NewerThan(s)
      BY <3>1 DEF CompleteSets, NewerThan, FilesOf, directory
    <3>3. \A s : Dooms(p, s)' <=> s \in Expiring
      BY <3>1 DEF Dooms, Kinds
    <3>4. \A s : Spared(p, s)' = {t \in NewerThan(s) : t \notin Expiring}
      BY <3>2, <3>3 DEF Spared
    <3> QED
      BY <3>1, <3>3, <3>4, NewestAreSpared
  <2>6. CASE \/ RolledBack(p) \/ ListingFails(p) \/ Retained(p)
    <3>1. doomed'[p] = {} /\ pc'[p] \notin {"rollback", "remove"}
      BY <2>6 DEF RolledBack, ListingFails, Retained, Goto, Fail, memory, TypeOK, DoomedInv
    <3> QED
      BY <3>1 DEF Dooms
  <2>7. ASSUME NEW f \in doomed[p], Unlink(p, f) \/ UnlinkFails(p, f),
               pc[p] \in {"rollback", "remove"}
        PROVE  /\ pc'[p] \notin {"rollback", "remove"} => doomed'[p] = {}
               /\ pc'[p] = "rollback" => \A g \in doomed'[p] : g[1] = stamp'[p]
               /\ \A s \in CompleteSets', k \in Kinds :
                    Dooms(p, s)' => <<s, k>> \in doomed'[p] \cup reported'
               /\ pc'[p] = "remove"
                    => \A g \in doomed'[p] : Cardinality(Spared(p, g[1])') >= Keep
    <3>1. pc' = pc /\ stamp' = stamp
      BY <2>7 DEF Unlink, UnlinkFails
    <3>2. /\ CompleteSets' \subseteq CompleteSets
          /\ doomed'[p] = doomed[p] \ {f}
          /\ \A s \in Stamps : Cardinality(Spared(p, s)) <= Cardinality(Spared(p, s)')
          /\ Unlink(p, f) => f[1] \notin CompleteSets'
          /\ f \in Stamps \X Kinds
      BY <2>7, UnlinkSpares DEF TypeOK
    <3>3. ASSUME NEW s \in CompleteSets', NEW k \in Kinds, Dooms(p, s)'
          PROVE  <<s, k>> \in doomed'[p] \cup reported'
      <4>1. Dooms(p, s) /\ <<s, k>> \in doomed[p] \cup reported
        BY <3>2, <3>3 DEF Dooms, DoomedInv
      <4>2. CASE Unlink(p, f)
        BY <3>2, <4>1, <4>2 DEF Unlink, history
      <4>3. CASE UnlinkFails(p, f)
        BY <3>2, <4>1, <4>3 DEF UnlinkFails
      <4> QED
        BY <2>7, <4>2, <4>3
    <3>4. ASSUME pc[p] = "remove", NEW g \in doomed'[p]
          PROVE  Cardinality(Spared(p, g[1])') >= Keep
      <4>1. g \in doomed[p] /\ g[1] \in Stamps
        BY <3>2 DEF TypeOK
      <4>2. Spared(p, g[1]) \in SUBSET Stamps /\ Spared(p, g[1])' \in SUBSET Stamps
        BY DEF Spared, NewerThan, CompleteSets
      <4>3. Cardinality(Spared(p, g[1])) \in Nat /\ Cardinality(Spared(p, g[1])') \in Nat
        BY <4>2, BackupAssumption, FS_Subset, FS_CardinalityType
      <4>4. Cardinality(Spared(p, g[1])) >= Keep
        BY <3>4, <4>1 DEF DoomedInv
      <4>5. Cardinality(Spared(p, g[1])) <= Cardinality(Spared(p, g[1])')
        BY <3>2, <4>1
      <4> QED
        BY <4>3, <4>4, <4>5, BackupAssumption
    <3> QED
      BY <2>7, <3>1, <3>2, <3>3, <3>4 DEF DoomedInv
  <2> QED
    BY <1>4, <2>3, <2>4, <2>5, <2>6, <2>7 DEF Publishes, Removes, RollBack, ApplyRetention
<1>5. ASSUME NEW p \in Producers, Crash(p)
      PROVE  DoomedInv'
  <2>1. /\ doomed'[p] = {} /\ pc'[p] = "idle"
        /\ \A q \in Producers \ {p} : doomed'[q] = doomed[q] /\ pc'[q] = pc[q]
                                       /\ stamp'[q] = stamp[q]
        /\ UNCHANGED <<directory, reported>>
    BY <1>5 DEF Crash, Goto, Forget, TypeOK
  <2>2. CompleteSets' = CompleteSets /\ \A s : NewerThan(s)' = NewerThan(s)
    BY <2>1 DEF CompleteSets, NewerThan, FilesOf, directory
  <2>3. \A q \in Producers \ {p} : \A s : (Dooms(q, s)' <=> Dooms(q, s)) /\ Spared(q, s)' = Spared(q, s)
    BY <2>1, <2>2 DEF Dooms, Spared
  <2>4. \A s, k : ~Dooms(p, s)'
    BY <2>1 DEF Dooms
  <2> QED
    BY <2>1, <2>2, <2>3, <2>4 DEF DoomedInv
<1> QED
  BY <1>1, <1>2, <1>3, <1>4, <1>5, FourPhases, EnvironmentOnly
     DEF Next, Ends, memory, history, DoomedInv

(***************************************************************************)
(* Loose files.                                                            *)
(***************************************************************************)
LEMMA OrphanIs ==
  /\ \A f : f \in Orphans <=>
       /\ f \in Stamps \X Kinds /\ f[1] \notin CompleteSets
       /\ \/ f[2] = "manifest" /\ manifest[f[1]] # {}
          \/ f[2] = "database" /\ database[f[1]] # {}
          \/ f[2] = "configuration" /\ snapshot[f[1]] # {}
  /\ \A f : f \in Orphans' <=>
       /\ f \in Stamps \X Kinds /\ f[1] \notin CompleteSets'
       /\ \/ f[2] = "manifest" /\ manifest'[f[1]] # {}
          \/ f[2] = "database" /\ database'[f[1]] # {}
          \/ f[2] = "configuration" /\ snapshot'[f[1]] # {}
<1>1. ASSUME NEW f \in Stamps \X Kinds
      PROVE  f \in Orphans <=> /\ f[1] \notin CompleteSets
                              /\ \/ f[2] = "manifest" /\ manifest[f[1]] # {}
                                 \/ f[2] = "database" /\ database[f[1]] # {}
                                 \/ f[2] = "configuration" /\ snapshot[f[1]] # {}
  BY DEF Orphans, FilesOf, Kinds
<1>2. ASSUME NEW f \in Stamps \X Kinds
      PROVE  f \in Orphans' <=> /\ f[1] \notin CompleteSets'
                               /\ \/ f[2] = "manifest" /\ manifest'[f[1]] # {}
                                  \/ f[2] = "database" /\ database'[f[1]] # {}
                                  \/ f[2] = "configuration" /\ snapshot'[f[1]] # {}
  BY DEF Orphans, FilesOf, Kinds
<1> QED
  BY <1>1, <1>2 DEF Orphans

LEMMA InHandStays ==
  ASSUME TypeOK, LockInv, CaptureInv, PublicationInv, DoomedInv, InHandInv, [Next]_vars
  PROVE  InHandInv'
<1>1. UNCHANGED directory => Orphans' = Orphans
  BY OrphanIs, CompleteIs DEF directory
<1>2. ASSUME UNCHANGED <<directory, doomed, history>>,
             \A p \in Producers :
               pc[p] \in Publishing => pc'[p] \in Publishing /\ stamp'[p] = stamp[p]
      PROVE  InHandInv'
  BY <1>1, <1>2 DEF InHandInv, history
<1>3. ASSUME NEW p \in Producers, Quiet(p) \/ ReleaseLock(p)
      PROVE  InHandInv'
  <2>1. pc[p] \notin Publishing
    BY <1>3 DEF Quiet, OpenConfiguration, ReadConfiguration, CaptureFails, ValidateSource,
       SourceRefused, DestinationUnwritable, TakeLock, LockUnavailable, ClearLock, ReleaseLock,
       Publishing
  <2> QED
    BY <1>2, <1>3, <2>1, OutsidersOnly DEF TypeOK
<1>4. ASSUME NEW p \in Producers, Copies(p)
      PROVE  InHandInv'
  <2>1. pc[p] \notin Publishing
        /\ UNCHANGED <<directory, doomed, history>> /\ pc' = [pc EXCEPT ![p] = pc'[p]]
        /\ \A q \in Producers \ {p} : stamp'[q] = stamp[q]
    BY <1>4 DEF Copies, ChooseName, NameTaken, NoTemporary, AnchorSource, OpenSource,
       VerifyAnchor, CopyFails, Fail, Goto, memory, history, TypeOK, Publishing
  <2> QED
    BY <1>2, <2>1 DEF TypeOK
<1>5. ASSUME NEW p \in Producers, Publishes(p) \/ Removes(p) \/ Crash(p), UNCHANGED directory,
             \A f \in Orphans :
               (pc[p] \in Publishing /\ f[1] = stamp[p]) \/ f \in doomed[p]
                 => f[1] \in crashed' \cup escaped' \/ f \in reported' \/ f \in doomed'[p]
      PROVE  InHandInv'
  <2>1. /\ \A q \in Producers \ {p} : pc'[q] = pc[q] /\ doomed'[q] = doomed[q]
                                       /\ stamp'[q] = stamp[q]
        /\ crashed \subseteq crashed' /\ escaped \subseteq escaped' /\ reported \subseteq reported'
    BY <1>5 DEF Publishes, PublishDatabase, PublishConfiguration, PublishManifest,
       PublicationFails, TemporaryFails, Removes, RollBack, RolledBack, ListSets, ListingFails,
       ApplyRetention, Retained, Unlink, UnlinkFails, Crash, Forget, Fail, Goto, memory, history,
       TypeOK
  <2> QED
    BY <1>1, <1>5, <2>1 DEF InHandInv
<1>6. ASSUME NEW p \in Producers, PublishDatabase(p) \/ PublishConfiguration(p)
      PROVE  InHandInv'
  <2>1. stamp[p] \in Stamps /\ UNCHANGED <<doomed, history, stamp>>
        /\ pc' = [pc EXCEPT ![p] = pc'[p]] /\ pc'[p] \in Publishing
    BY <1>6 DEF PublishDatabase, PublishConfiguration, PublicationInv, Copying, Publishing,
       memory, Goto, TypeOK
  <2>2. \A s \in Stamps : s # stamp[p] =>
          manifest'[s] = manifest[s] /\ database'[s] = database[s] /\ snapshot'[s] = snapshot[s]
    BY <1>6 DEF PublishDatabase, PublishConfiguration, TypeOK
  <2>3. \A f \in Orphans' : f[1] # stamp[p] => f \in Orphans
    BY <2>2, OrphanIs, CompleteIs
  <2> QED
    BY <2>1, <2>3 DEF InHandInv, history, TypeOK
<1>7. ASSUME NEW p \in Producers, PublishManifest(p)
      PROVE  InHandInv'
  <2>1. stamp[p] \in Stamps /\ UNCHANGED <<doomed, history, stamp>>
        /\ \A q \in Producers \ {p} : pc'[q] = pc[q]
    BY <1>7 DEF PublishManifest, PublicationInv, Publishing, memory, Goto, TypeOK
  <2>2. \A s \in Stamps : s # stamp[p] =>
          manifest'[s] = manifest[s] /\ database'[s] = database[s] /\ snapshot'[s] = snapshot[s]
    BY <1>7 DEF PublishManifest, TypeOK
  <2>3. stamp[p] \in CompleteSets'
    <3>1. database[stamp[p]] # {} /\ snapshot[stamp[p]] # {}
      BY <1>7 DEF PublishManifest, PublicationInv, Publishing, CaptureInv
    <3>2. manifest'[stamp[p]] # {} /\ database' = database /\ snapshot' = snapshot
      BY <1>7, <2>1 DEF PublishManifest, TypeOK
    <3> QED
      BY <2>1, <3>1, <3>2, CompleteIs
  <2>4. \A f \in Orphans' : f[1] # stamp[p] /\ f \in Orphans
    BY <2>2, <2>3, OrphanIs, CompleteIs
  <2> QED
    BY <2>1, <2>4 DEF InHandInv, history
<1>8. ASSUME NEW p \in Producers, PublicationFails(p)
      PROVE  InHandInv'
  <2>1. ASSUME NEW f \in Orphans, (pc[p] \in Publishing /\ f[1] = stamp[p]) \/ f \in doomed[p]
        PROVE  f \in doomed'[p]
    <3>1. doomed[p] = {}
      BY <1>8 DEF PublicationFails, DoomedInv
    <3>2. f[1] = stamp[p] /\ f = <<f[1], f[2]>> /\ stamp[p] \in Stamps
      BY <2>1, <3>1, OrphanIs
    <3>3. f[2] # "manifest" /\ (pc[p] = "publish_configuration" => f[2] = "database")
          /\ f[2] \in Kinds
      BY <1>8, <3>2, OrphanIs DEF PublicationFails, PublicationInv, Publishing
    <3> QED
      BY <1>8, <3>2, <3>3 DEF PublicationFails, TypeOK, Kinds
  <2> QED
    BY <1>5, <1>8, <2>1 DEF Publishes, PublicationFails
<1>9. ASSUME NEW p \in Producers, TemporaryFails(p)
      PROVE  InHandInv'
  <2>1. doomed' = doomed /\ stamp[p] \in escaped' /\ UNCHANGED directory
    BY <1>9 DEF TemporaryFails, memory
  <2> QED
    BY <1>5, <1>9, <2>1 DEF Publishes
<1>10. ASSUME NEW p \in Producers, RolledBack(p) \/ ListingFails(p) \/ Retained(p) \/ ListSets(p)
       PROVE  InHandInv'
  <2>1. doomed[p] = {} /\ pc[p] \notin Publishing /\ UNCHANGED directory
    BY <1>10 DEF RolledBack, ListingFails, Retained, ListSets, Fail, DoomedInv, Publishing
  <2> QED
    BY <1>5, <1>10, <2>1 DEF Removes
<1>11. ASSUME NEW p \in Producers, NEW f \in doomed[p], Unlink(p, f) \/ UnlinkFails(p, f),
              Removes(p), pc[p] \in {"rollback", "remove"}
       PROVE  InHandInv'
  <2>1. doomed' = [doomed EXCEPT ![p] = @ \ {f}] /\ f \in Stamps \X Kinds
    BY <1>11, UnlinkSpares
  <2>2. CASE UnlinkFails(p, f)
    BY <1>5, <1>11, <2>1, <2>2 DEF UnlinkFails, Publishing, TypeOK
  <2>3. CASE Unlink(p, f)
    <3>1. UNCHANGED <<pc, stamp, history>>
      BY <2>3 DEF Unlink
    <3>2. ASSUME NEW g \in Orphans'
          PROVE  g # f /\ (g \in Orphans \/ (Dooms(p, g[1]) /\ g[1] \in CompleteSets))
      <4>1. g \in Stamps \X Kinds /\ g # f
        BY <2>1, <2>3, OrphanIs DEF Unlink, TypeOK
      <4>2. CASE g[1] = f[1]
        <5>1. f = <<f[1], f[2]>> /\ f[2] \in Kinds
          BY <2>1
        <5>2. Dooms(p, g[1])
          BY <4>2, <5>1 DEF Dooms
        <5>3. g \in Orphans \/ g[1] \in CompleteSets
          BY <2>1, <2>3, <4>1, <4>2, OrphanIs DEF Unlink, TypeOK
        <5> QED
          BY <4>1, <5>2, <5>3
      <4>3. CASE g[1] # f[1]
        <5>1. g[1] \in Stamps /\ manifest'[g[1]] = manifest[g[1]]
              /\ database'[g[1]] = database[g[1]] /\ snapshot'[g[1]] = snapshot[g[1]]
          BY <2>3, <4>1, <4>3 DEF Unlink, TypeOK
        <5>2. g[1] \notin CompleteSets
          BY <5>1, OrphanIs, CompleteIs
        <5> QED
          BY <4>1, <5>1, <5>2, OrphanIs
      <4> QED
        BY <4>2, <4>3
    <3>3. ASSUME NEW g \in Orphans', Dooms(p, g[1]), g[1] \in CompleteSets
          PROVE  g \in doomed[p] \cup reported
      BY <3>3, OrphanIs DEF DoomedInv
    <3> QED
      BY <2>1, <3>1, <3>2, <3>3 DEF InHandInv, history, TypeOK
  <2> QED
    BY <1>11, <2>2, <2>3
<1>12. ASSUME NEW p \in Producers, Crash(p)
       PROVE  InHandInv'
  <2>1. ASSUME NEW f \in Orphans, (pc[p] \in Publishing /\ f[1] = stamp[p]) \/ f \in doomed[p]
        PROVE  f[1] \in crashed'
    BY <1>12, <2>1, OrphanIs DEF Crash, InHand
  <2> QED
    BY <1>5, <1>12, <2>1 DEF Crash
<1> QED
  BY <1>2, <1>3, <1>4, <1>6, <1>7, <1>8, <1>9, <1>10, <1>11, <1>12, FourPhases, EnvironmentOnly
     DEF Next, Ends, Publishes, Removes, RollBack, ApplyRetention, memory

(***************************************************************************)
(* The rehearsal.                                                          *)
(***************************************************************************)
\* What a rehearsal has read stays explained as files go and while nothing new is
\* begun.
LEMMA RehearsalUndisturbed ==
  ASSUME RehearsalInv, reader' = reader,
         reader.at # "idle" =>
           LET s == reader.stamp
           IN  /\ database'[s] \in {{}, database[s]}
               /\ snapshot'[s] \in {{}, snapshot[s]}
               /\ manifest'[s] \in {{}, manifest[s]},
         \A p \in Producers : /\ pc'[p] \in Publishing => pc'[p] = pc[p] /\ stamp'[p] = stamp[p]
  PROVE  RehearsalInv'
<1>1. /\ Begun(reader.stamp)' => Begun(reader.stamp)
      /\ HalfBegun(reader.stamp)' => HalfBegun(reader.stamp)
  BY DEF Begun, HalfBegun, Publishing
<1>2. ASSUME NEW b \in reader.before, reader.at # "idle"
      PROVE  (Same(b) => Same(b)') /\ (ReadBy(b) => ReadBy(b)')
  <2>1. Same(b) => Same(b)'
    BY <1>2 DEF Same
  <2>2. ReadBy(b) => ReadBy(b)'
    BY <1>1, <1>2 DEF ReadBy
  <2> QED
    BY <2>1, <2>2
<1>3. \A b \in reader.before : reader.at # "idle"
  BY DEF RehearsalInv, PlacesInv, KeptInv
<1>4. RestoreProvesASet'
  BY DEF RehearsalInv, PlacesInv, KeptInv, RestoreProvesASet
<1> QED
  BY <1>1, <1>2, <1>3, <1>4 DEF RehearsalInv, PlacesInv, KeptInv

LEMMA RehearsalPublishes ==
  ASSUME TypeOK, LockInv, CaptureInv, PublicationInv, RehearsalInv, NEW p \in Producers,
         PublishDatabase(p) \/ PublishConfiguration(p) \/ PublishManifest(p)
  PROVE  RehearsalInv'
<1>1. stamp[p] \in Stamps /\ pc[p] \in Locked /\ pc' = [pc EXCEPT ![p] = pc'[p]] /\ stamp' = stamp
  BY DEF PublishDatabase, PublishConfiguration, PublishManifest, PublicationInv, Copying,
     Publishing, Goto, memory, Locked, TypeOK
<1>2. \A q \in Producers \ {p} : pc[q] \notin Publishing /\ pc'[q] \notin Publishing
  BY <1>1, OnlyOneWorks DEF Locked, TypeOK
<1>3. CASE reader.stamp # stamp[p] \/ reader.before = {}
  <2>1. reader' = reader
    BY <1>3 DEF PublishDatabase, PublishConfiguration, PublishManifest
  <2>2. CASE reader.before = {}
    BY <2>1, <2>2 DEF RehearsalInv, PlacesInv, KeptInv, RestoreProvesASet
  <2>3. CASE reader.stamp # stamp[p]
    <3>1. \A s \in Stamps : s # stamp[p] =>
            manifest'[s] = manifest[s] /\ database'[s] = database[s] /\ snapshot'[s] = snapshot[s]
      BY DEF PublishDatabase, PublishConfiguration, PublishManifest, TypeOK
    <3>2. reader.at # "idle" => reader.stamp \in Stamps
      BY DEF RehearsalInv, PlacesInv, KeptInv
    <3>3. ASSUME NEW b \in reader.before
          PROVE  (Same(b) => Same(b)') /\ (ReadBy(b) => ReadBy(b)')
      <4>1. reader.stamp \in Stamps
        BY <3>2 DEF RehearsalInv, PlacesInv, KeptInv
      <4>2. Begun(reader.stamp)' => Begun(reader.stamp)
        BY <1>1, <1>2, <2>1, <2>3 DEF Begun
      <4>3. HalfBegun(reader.stamp)' => HalfBegun(reader.stamp)
        BY <1>1, <1>2, <2>1, <2>3 DEF HalfBegun, Publishing
      <4> QED
        BY <2>1, <2>3, <3>1, <4>1, <4>2, <4>3 DEF Same, ReadBy
    <3>4. reader.before # {} => (HalfBegun(reader.stamp)' => HalfBegun(reader.stamp))
      BY <1>1, <1>2, <2>1, <2>3 DEF HalfBegun, Publishing
    <3> QED
      BY <2>1, <3>2, <3>3, <3>4 DEF RehearsalInv, PlacesInv, KeptInv, RestoreProvesASet
  <2> QED
    BY <1>3, <2>2, <2>3
<1>4. CASE reader.stamp = stamp[p] /\ reader.before # {}
  <2> DEFINE s == stamp[p]
  <2>1. PICK b \in reader.before : reader.before = {b} /\ b.configuration # {}
    BY <1>4 DEF RehearsalInv, PlacesInv, KeptInv
  <2>2. /\ reader'.before = reader.before /\ reader'.stamp = reader.stamp
        /\ reader'.at = reader.at /\ reader'.says = reader.says
        /\ reader'.copy = reader.copy /\ reader'.toml = reader.toml
    BY DEF PublishDatabase, PublishConfiguration, PublishManifest, TypeOK, ReaderState
  <2>3. reader'.reused # 0 => reader.reused \in {reader'.reused, reader'.reused - 1}
    BY DEF PublishDatabase, PublishConfiguration, PublishManifest, TypeOK, ReaderState
  <2>4. RestoreProvesASet'
    BY <2>2, <2>3 DEF RehearsalInv, PlacesInv, KeptInv, RestoreProvesASet, TypeOK, ReaderState,
       PublishDatabase, PublishConfiguration, PublishManifest
  <2> SUFFICES ASSUME reader'.at # "proved"
               PROVE  /\ reader'.reused = 0
                           => /\ Same(b)' /\ ~HalfBegun(reader.stamp)'
                              /\ reader'.copy \subseteq {b.database}
                              /\ reader'.toml \in {{}, b.configuration}
                              /\ reader'.at = "recheck" => reader'.says = {b}
                      /\ reader'.reused = 1 => ReadBy(b)'
    BY <2>1, <2>2, <2>4 DEF RehearsalInv, PlacesInv, KeptInv, HalfBegun
  <2>5. CASE PublishDatabase(p)
    <3>1. reader.reused < 2 => reader'.reused = reader.reused + 1
      BY <1>4, <2>5 DEF PublishDatabase, TypeOK, ReaderState
    <3>2. reader'.reused # 0 /\ (reader'.reused = 1 => reader.reused = 0)
      BY <1>4, <2>5, <3>1 DEF PublishDatabase, TypeOK, ReaderState
    <3>3. ASSUME reader.reused = 0
          PROVE  ReadBy(b)'
      BY <2>1, <2>2, <3>3 DEF RehearsalInv, PlacesInv, KeptInv, ReadBy
    <3> QED
      BY <3>2, <3>3
  <2>6. CASE PublishConfiguration(p)
    <3>1. reader' = reader /\ HalfBegun(reader.stamp) /\ Begun(reader.stamp)
          /\ database' = database
      BY <1>4, <2>6 DEF PublishConfiguration, HalfBegun, Begun, Publishing
    <3>2. reader.reused # 0
      BY <2>1, <2>2, <3>1 DEF RehearsalInv, PlacesInv, KeptInv
    <3>3. ReadBy(b) => ReadBy(b)'
      BY <3>1 DEF ReadBy
    <3> QED
      BY <2>1, <3>1, <3>2, <3>3 DEF RehearsalInv, PlacesInv, KeptInv
  <2>7. CASE PublishManifest(p)
    <3>1. reader' = reader /\ Begun(reader.stamp) /\ database' = database
          /\ snapshot' = snapshot
      BY <1>4, <2>7 DEF PublishManifest, Begun, Publishing
    <3>2. ~HalfBegun(reader.stamp)'
      BY <1>1, <1>2, <2>7 DEF PublishManifest, HalfBegun, Goto, TypeOK, Publishing
    <3>3. ~HalfBegun(reader.stamp)
      BY <1>1, <1>2, <2>7 DEF PublishManifest, HalfBegun, Publishing
    <3>4. ReadBy(b) => ReadBy(b)'
      BY <3>1, <3>2, <3>3 DEF ReadBy
    <3>5. Same(b) => Same(b)'
      <4>1. manifest'[s] = {[database |-> handle[p], configuration |-> captured[p]]}
            /\ database[s] = {handle[p]} /\ snapshot[s] = captured[p] /\ captured[p] # {}
        <5>1. database[s] = {handle[p]} /\ snapshot[s] = captured[p] /\ captured[p] # {}
          BY <2>7 DEF PublishManifest, PublicationInv, Publishing, CaptureInv
        <5>2. manifest'[s] = {[database |-> handle[p], configuration |-> captured[p]]}
          BY <1>1, <2>7 DEF PublishManifest, TypeOK
        <5> QED
          BY <5>1, <5>2
      <4>2. b \in Binding
        BY DEF TypeOK, ReaderState
      <4>3. ASSUME Same(b)
            PROVE  b = [database |-> handle[p], configuration |-> captured[p]]
        BY <1>4, <4>1, <4>2, <4>3 DEF Same, Binding
      <4> QED
        BY <1>4, <3>1, <4>1, <4>3 DEF Same
    <3> QED
      BY <2>1, <2>2, <3>1, <3>2, <3>4, <3>5 DEF RehearsalInv, PlacesInv, KeptInv
  <2> QED
    BY <2>5, <2>6, <2>7
<1> QED
  BY <1>3, <1>4

LEMMA RehearsalReads ==
  ASSUME TypeOK, PublicationInv, DescribedInv, RehearsalInv, RestoreTest
  PROVE  RehearsalInv'
<1>1. UNCHANGED <<database, snapshot, manifest, pc, stamp>>
  BY DEF RestoreTest, ReaderOnly, StartRestoreTest, LoadManifest, VerifySet, ChecksumSources,
     CopyDatabase, CopyConfiguration, CompareRestored, SourcesUnchanged, FinishRestoreTest,
     directory, memory
<1>2. reader \in ReaderState /\ (reader.at # "idle" => reader.stamp \in Stamps)
  BY DEF TypeOK, RehearsalInv, PlacesInv, KeptInv
<1>3. /\ snapshot[reader.stamp] # {} => ~HalfBegun(reader.stamp)
      /\ manifest[reader.stamp] # {} => ~Begun(reader.stamp)
  BY DEF HalfBegun, Begun, PublicationInv, Copying, Publishing
<1>4. CASE StartRestoreTest \/ LoadManifest \/ VerifySet \/ FinishRestoreTest
  <2>1. /\ reader'.before = {} /\ reader'.copy = {} /\ reader'.toml = {}
        /\ reader'.at \in {"idle", "load", "measure", "checksum"}
        /\ reader'.at # "idle" => reader'.stamp \in Stamps
    <3>1. CASE StartRestoreTest \/ FinishRestoreTest
      <4>1. CASE StartRestoreTest
        <5>1. PICK s \in CompleteSets :
                reader' = [AtRest EXCEPT !.at = "load", !.stamp = s]
          BY <4>1 DEF StartRestoreTest
        <5> QED
          BY <5>1 DEF AtRest, CompleteSets
      <4>2. CASE FinishRestoreTest
        BY <4>2 DEF FinishRestoreTest, AtRest
      <4> QED
        BY <3>1, <4>1, <4>2
    <3>2. CASE LoadManifest \/ VerifySet
      <4>1. /\ reader \in ReaderState /\ reader.stamp \in Stamps
            /\ reader.before = {} /\ reader.copy = {} /\ reader.toml = {}
        BY <1>2, <3>2 DEF LoadManifest, VerifySet, RehearsalInv, PlacesInv
      <4> QED
        BY <3>2, <4>1 DEF LoadManifest, VerifySet, ReaderState
    <3> QED
      BY <1>4, <3>1, <3>2
  <2> QED
    BY <2>1 DEF RehearsalInv, PlacesInv, KeptInv, RestoreProvesASet
<1>5. CASE ChecksumSources
  <2>1. reader.stamp \in Stamps /\ database[reader.stamp] # {} /\ snapshot[reader.stamp] # {}
    BY <1>2, <1>5 DEF ChecksumSources, FilesOf
  <2>2. PICK o \in database[reader.stamp] : database[reader.stamp] = {o}
    BY <2>1 DEF DescribedInv
  <2>3. PICK b : b = [database |-> o, configuration |-> snapshot[reader.stamp]]
    OBVIOUS
  <2>4. reader' = [reader EXCEPT !.at = "copy_database", !.before = {b}]
    BY <1>5, <2>2, <2>3 DEF ChecksumSources, BindingOf
  <2>5. manifest[reader.stamp] \subseteq {b}
    <3> SUFFICES ASSUME NEW c \in manifest[reader.stamp] PROVE c = b
      OBVIOUS
    <3>1. c.database = o /\ c.configuration = snapshot[reader.stamp]
      BY <2>1, <2>2 DEF DescribedInv
    <3>2. c \in Binding
      BY <2>1 DEF TypeOK
    <3> QED
      BY <2>3, <3>1, <3>2 DEF Binding
  <2>6. Same(b)' /\ ~HalfBegun(reader.stamp)' /\ b.configuration # {}
    <3>1. reader'.stamp = reader.stamp
      BY <1>2, <2>4 DEF ReaderState
    <3>2. b.database = o /\ b.configuration = snapshot[reader.stamp]
      BY <2>3
    <3>3. ~HalfBegun(reader.stamp)'
      <4>1. ~HalfBegun(reader.stamp)
        BY <1>3, <2>1 DEF HalfBegun
      <4> QED
        BY <1>1, <3>1, <4>1 DEF HalfBegun
    <3> QED
      BY <1>1, <2>1, <2>2, <2>5, <3>1, <3>2, <3>3 DEF Same
  <2>7. reader.copy = {} /\ reader.toml = {}
    BY <1>5 DEF RehearsalInv, PlacesInv, KeptInv, ChecksumSources
  <2>8. /\ reader'.at = "copy_database" /\ reader'.before = {b} /\ reader'.copy = {}
        /\ reader'.toml = {} /\ reader'.stamp = reader.stamp
    BY <1>2, <2>4, <2>7 DEF ReaderState
  <2>9. ReadBy(b)'
    BY <2>8 DEF ReadBy
  <2>10. PlacesInv' /\ RestoreProvesASet'
    BY <2>1, <2>8 DEF PlacesInv, RestoreProvesASet
  <2>11. KeptInv'
    <3> SUFFICES ASSUME NEW c \in reader'.before
                 PROVE  /\ c.configuration # {} /\ reader'.before = {c}
                        /\ Same(c)' /\ ~HalfBegun(reader.stamp)' /\ ReadBy(c)'
                        /\ reader'.copy \subseteq {c.database}
                        /\ reader'.toml \in {{}, c.configuration}
                        /\ reader'.at # "recheck"
      BY DEF KeptInv
    <3>1. c = b
      BY <2>8
    <3> QED
      BY <2>6, <2>8, <2>9, <3>1
  <2> QED
    BY <2>10, <2>11 DEF RehearsalInv
<1>6. CASE CopyDatabase \/ CopyConfiguration \/ CompareRestored
  <2>1. reader.stamp \in Stamps
    BY <1>2, <1>6 DEF CopyDatabase, CopyConfiguration, CompareRestored
  <2>2. reader.before # {} /\ reader.at # "proved"
    BY <1>6 DEF CopyDatabase, CopyConfiguration, CompareRestored, RehearsalInv, PlacesInv, KeptInv
  <2>3. PICK b \in reader.before : reader.before = {b} /\ b.configuration # {}
    BY <2>2 DEF RehearsalInv, PlacesInv, KeptInv
  <2>4. /\ reader'.stamp = reader.stamp /\ reader'.before = {b} /\ reader'.reused = reader.reused
        /\ reader'.at \notin {"idle", "load", "measure", "checksum", "proved"}
    BY <1>2, <1>6, <2>3 DEF CopyDatabase, CopyConfiguration, CompareRestored, ReaderState
  <2>5. (Same(b) => Same(b)') /\ (~HalfBegun(reader.stamp) => ~HalfBegun(reader.stamp)')
    BY <1>1, <2>4 DEF Same, HalfBegun
  <2>6. CASE CopyDatabase
    <3>1. /\ reader'.at = "copy_configuration" /\ reader'.copy = database[reader.stamp]
          /\ database[reader.stamp] # {} /\ reader'.toml = reader.toml /\ reader.toml = {}
      BY <1>2, <2>6 DEF CopyDatabase, ReaderState, RehearsalInv, PlacesInv, KeptInv
    <3>2. ReadBy(b)'
      BY <1>1, <2>4, <3>1 DEF ReadBy
    <3>3. PlacesInv' /\ RestoreProvesASet'
      BY <2>1, <2>4, <3>1 DEF PlacesInv, RestoreProvesASet
    <3>4. KeptInv'
      BY <2>2, <2>3, <2>4, <2>5, <3>1, <3>2 DEF RehearsalInv, KeptInv, Same
    <3> QED
      BY <3>3, <3>4 DEF RehearsalInv
  <2>7. CASE CopyConfiguration
    <3>1. /\ reader'.at = "compare" /\ reader'.copy = reader.copy /\ reader.copy # {}
          /\ reader'.toml = snapshot[reader.stamp] /\ snapshot[reader.stamp] # {} /\ ~HalfBegun(reader.stamp)
      <4>1. snapshot[reader.stamp] # {} /\ reader.copy # {} /\ reader \in ReaderState
        BY <1>2, <2>7 DEF CopyConfiguration, RehearsalInv, PlacesInv
      <4>2. ~HalfBegun(reader.stamp)
        BY <1>3, <2>1, <4>1 DEF HalfBegun
      <4> QED
        BY <2>7, <4>1, <4>2 DEF CopyConfiguration, ReaderState
    <3>2. ReadBy(b) => ReadBy(b)'
      BY <1>1, <2>4, <2>5, <3>1 DEF ReadBy
    <3>3. PlacesInv' /\ RestoreProvesASet'
      BY <2>1, <2>4, <3>1 DEF PlacesInv, RestoreProvesASet
    <3>4. KeptInv'
      BY <2>2, <2>3, <2>4, <2>5, <3>1, <3>2 DEF RehearsalInv, KeptInv, Same
    <3> QED
      BY <3>3, <3>4 DEF RehearsalInv
  <2>8. CASE CompareRestored
    <3>1. /\ reader'.at = "recheck" /\ reader'.copy = reader.copy /\ reader.copy # {}
          /\ reader'.toml = reader.toml /\ reader.toml # {}
          /\ reader'.says = manifest[reader.stamp] /\ manifest[reader.stamp] # {} /\ ~Begun(reader.stamp)
      <4>1. manifest[reader.stamp] # {} /\ reader.copy # {} /\ reader.toml # {} /\ reader \in ReaderState
        BY <1>2, <2>8 DEF CompareRestored, RehearsalInv, PlacesInv
      <4>2. ~Begun(reader.stamp)
        BY <1>3, <2>1, <4>1 DEF Begun
      <4> QED
        BY <2>8, <4>1, <4>2 DEF CompareRestored, ReaderState
    <3>2. \E c \in manifest[reader.stamp] : /\ manifest[reader.stamp] = {c}
                                 /\ database[reader.stamp] \subseteq {c.database}
                                 /\ snapshot[reader.stamp] \in {{}, c.configuration}
      BY <2>1, <3>1 DEF DescribedInv
    <3>3. ~Begun(reader.stamp)'
      BY <1>1, <2>4, <3>1 DEF Begun
    <3>4. ReadBy(b) => ReadBy(b)'
      BY <1>1, <2>4, <2>5, <3>1, <3>2, <3>3 DEF ReadBy
    <3>5. PlacesInv' /\ RestoreProvesASet'
      BY <2>1, <2>4, <3>1 DEF PlacesInv, RestoreProvesASet
    <3>6. KeptInv'
      BY <2>2, <2>3, <2>4, <2>5, <3>1, <3>4 DEF RehearsalInv, KeptInv, Same
    <3> QED
      BY <3>5, <3>6 DEF RehearsalInv
  <2> QED
    BY <1>6, <2>6, <2>7, <2>8
<1>7. CASE SourcesUnchanged
  <2>1. reader.stamp \in Stamps /\ reader.at = "recheck" /\ BindingOf(reader.stamp) = reader.before
    BY <1>2, <1>7 DEF SourcesUnchanged
  <2>2. PICK b \in reader.before : reader.before = {b} /\ b.configuration # {}
    BY <2>1 DEF RehearsalInv, PlacesInv, KeptInv
  <2>3. PICK o \in database[reader.stamp] : b = [database |-> o, configuration |-> snapshot[reader.stamp]]
    BY <2>1, <2>2 DEF BindingOf
  <2>4. database[reader.stamp] = {b.database} /\ snapshot[reader.stamp] = b.configuration /\ snapshot[reader.stamp] # {}
    BY <2>1, <2>2, <2>3 DEF DescribedInv
  <2>5. reader.copy # {} /\ reader.toml # {}
    BY <2>1 DEF RehearsalInv, PlacesInv, KeptInv
  <2>6. CASE reader.reused <= 1
    <3>1. reader.reused \in {0, 1}
      BY <1>2, <2>6 DEF ReaderState
    <3>2. reader.copy = {b.database} /\ reader.toml = b.configuration
      BY <2>1, <2>2, <2>4, <2>5, <3>1 DEF RehearsalInv, PlacesInv, KeptInv, ReadBy
    <3>3. reader.says = {b}
      <4>1. CASE reader.reused = 0
        BY <2>1, <2>2, <4>1 DEF RehearsalInv, PlacesInv, KeptInv
      <4>2. CASE reader.reused = 1 /\ reader.says # {b}
        <5>1. PICK c \in reader.says : /\ reader.says = {c} /\ database[reader.stamp] \subseteq {c.database}
                                      /\ snapshot[reader.stamp] \in {{}, c.configuration}
          BY <2>1, <2>2, <4>2 DEF RehearsalInv, PlacesInv, KeptInv, ReadBy
        <5>2. c \in Binding /\ b \in Binding
          BY <1>2, <2>2 DEF ReaderState
        <5>3. c = b
          BY <2>4, <5>1, <5>2 DEF Binding
        <5> QED
          BY <4>2, <5>1, <5>3
      <4> QED
        BY <3>1, <4>1, <4>2
    <3>4. b \in Binding
      BY <1>2, <2>2 DEF ReaderState
    <3>5. b = [database |-> b.database, configuration |-> b.configuration]
      BY <3>4 DEF Binding
    <3>6. reader.says = {[database |-> x, configuration |-> reader.toml] : x \in reader.copy}
      BY <3>2, <3>3, <3>5
    <3> QED
      BY <1>2, <1>7, <2>1, <2>2, <3>6 DEF SourcesUnchanged, RehearsalInv, PlacesInv, KeptInv,
         RestoreProvesASet,
         ReaderState
  <2>7. CASE ~(reader.reused <= 1)
    BY <1>2, <1>7, <2>1, <2>2, <2>7 DEF SourcesUnchanged, RehearsalInv, PlacesInv, KeptInv,
         RestoreProvesASet,
       ReaderState
  <2> QED
    BY <2>6, <2>7
<1> QED
  BY <1>4, <1>5, <1>6, <1>7 DEF RestoreTest

LEMMA RehearsalStays ==
  ASSUME TypeOK, LockInv, CaptureInv, PublicationInv, DescribedInv, DoomedInv, RehearsalInv,
         [Next]_vars
  PROVE  RehearsalInv'
<1> USE RehearsalUndisturbed
<1>1. ASSUME NEW p \in Producers, Quiet(p) \/ ReleaseLock(p)
      PROVE  RehearsalInv'
  <2>1. reader' = reader
    BY <1>1 DEF Quiet, OpenConfiguration, ReadConfiguration, CaptureFails, ValidateSource,
       SourceRefused, DestinationUnwritable, TakeLock, LockUnavailable, ClearLock, ReleaseLock,
       GiveUp
  <2> QED
    BY <1>1, <2>1, OutsidersOnly DEF Publishing, directory, TypeOK
<1>2. ASSUME NEW p \in Producers, Copies(p)
      PROVE  RehearsalInv'
  BY <1>2 DEF Copies, ChooseName, NameTaken, NoTemporary, AnchorSource, OpenSource,
     VerifyAnchor, CopyFails, Fail, Goto, memory, directory, TypeOK, Publishing
<1>3. ASSUME NEW p \in Producers, PublicationFails(p) \/ TemporaryFails(p) \/ Crash(p)
      PROVE  RehearsalInv'
  BY <1>3 DEF PublicationFails, TemporaryFails, Crash, Forget, Goto, memory, directory, TypeOK,
     Publishing
<1>4. ASSUME NEW p \in Producers, Removes(p)
      PROVE  RehearsalInv'
  <2>1. CASE RolledBack(p) \/ ListSets(p) \/ ListingFails(p) \/ Retained(p)
    BY <2>1 DEF RolledBack, ListSets, ListingFails, Retained, Fail, Goto, memory, directory,
       TypeOK, Publishing
  <2>2. ASSUME NEW f \in doomed[p], Unlink(p, f) \/ UnlinkFails(p, f)
        PROVE  RehearsalInv'
    <3>1. reader' = reader /\ pc' = pc /\ stamp' = stamp
      BY <2>2 DEF Unlink, UnlinkFails
    <3>2. \A s \in Stamps : /\ database'[s] \in {{}, database[s]}
                             /\ snapshot'[s] \in {{}, snapshot[s]}
                             /\ manifest'[s] \in {{}, manifest[s]}
      BY <2>2 DEF Unlink, UnlinkFails, directory, TypeOK
    <3>3. reader.at # "idle" => reader.stamp \in Stamps
      BY DEF RehearsalInv, PlacesInv, KeptInv
    <3> QED
      BY <3>1, <3>2, <3>3
  <2> QED
    BY <1>4, <2>1, <2>2 DEF Removes, RollBack, ApplyRetention
<1>5. CASE LockExpires \/ ChangeConfiguration \/ (\E d \in Databases : ChangeSource(d))
             \/ UNCHANGED vars
  BY <1>5 DEF LockExpires, ChangeConfiguration, ChangeSource, vars, memory, directory
<1> QED
  BY <1>1, <1>2, <1>3, <1>4, <1>5, RehearsalPublishes, RehearsalReads, FourPhases
     DEF Next, Ends, Publishes

(***************************************************************************)
(* What holds of the directory.                                            *)
(***************************************************************************)
LEMMA DirectoryStarts == Init => DirectoryInv /\ RehearsalInv
<1> SUFFICES ASSUME Init PROVE DirectoryInv /\ RehearsalInv
  OBVIOUS
<1>1. TypeOK
  BY BackupStarts
<1>2. PICK earlier \in SUBSET Stamps : HoldsSets(earlier)
  BY DEF Init
<1>3. \A p \in Producers : pc[p] = "idle" /\ doomed[p] = {}
  BY DEF Init
<1>4. LockInv /\ CaptureInv /\ AnchorInv /\ PublicationInv
  BY <1>3 DEF LockInv, CaptureInv, AnchorInv, PublicationInv, Locked, Copying, Publishing
<1>5. DescribedInv
  <2> SUFFICES ASSUME NEW s \in Stamps
               PROVE  /\ \A o \in database[s] : database[s] = {o}
                      /\ \A b \in manifest[s] :
                           /\ manifest[s] = {b} /\ Sound(b.database)
                           /\ \E v \in Versions : b.configuration = {v}
                           /\ database[s] \subseteq {b.database}
                           /\ snapshot[s] \in {{}, b.configuration}
    BY DEF DescribedInv
  <2>1. CASE s \in earlier
    <3>1. /\ database[s] = {Selects[1]} /\ snapshot[s] = {1}
          /\ manifest[s] = {[database |-> Selects[1], configuration |-> {1}]}
      BY <1>2, <2>1 DEF HoldsSets
    <3> QED
      BY <3>1, FirstIsSound
  <2>2. CASE s \notin earlier
    BY <1>2, <2>2 DEF HoldsSets
  <2> QED
    BY <2>1, <2>2
<1>6. DoomedInv
  BY <1>3 DEF DoomedInv, Dooms
<1>7. InHandInv
  <2>1. Orphans = {}
    <3> SUFFICES ASSUME NEW f \in Orphans PROVE FALSE
      OBVIOUS
    <3>1. f[1] \in Stamps /\ f[1] \notin CompleteSets
      BY OrphanIs
    <3>2. CASE f[1] \in earlier
      BY <1>2, <3>1, <3>2, CompleteIs DEF HoldsSets
    <3>3. CASE f[1] \notin earlier
      BY <1>2, <3>1, <3>3, OrphanIs DEF HoldsSets
    <3> QED
      BY <3>2, <3>3
  <2> QED
    BY <2>1 DEF InHandInv
<1>8. RehearsalInv
  BY DEF Init, AtRest, RehearsalInv, PlacesInv, KeptInv, RestoreProvesASet
<1> QED
  BY <1>1, <1>4, <1>5, <1>6, <1>7, <1>8 DEF DirectoryInv

LEMMA DirectoryHolds == Spec => [](DirectoryInv /\ RehearsalInv)
<1>1. DirectoryInv /\ RehearsalInv /\ [Next]_vars => DirectoryInv' /\ RehearsalInv'
  BY BackupTyped, LockStays, CaptureStays, AnchorStays, PublicationStays, DescribedStays,
     DoomedStays, InHandStays, RehearsalStays DEF DirectoryInv
<1> QED
  BY <1>1, DirectoryStarts, PTL DEF Spec

\* Whatever crashes, failures and administration come in between: a complete set is
\* described by its manifest, is of one version of the configuration, and holds a
\* sound copy of the very database that version selected.
THEOREM SetsHold == Spec => []BackupInv
<1>1. DirectoryInv => SetsAreTrue
  <2> SUFFICES ASSUME DirectoryInv PROVE SetsAreTrue
    OBVIOUS
  <2> USE DEF DirectoryInv
  <2>1. ASSUME NEW s \in CompleteSets
        PROVE  /\ Described(s) /\ Cardinality(snapshot[s]) = 1
               /\ database[s] \cap Unsound = {}
    <3>1. s \in Stamps /\ manifest[s] # {} /\ database[s] # {} /\ snapshot[s] # {}
      BY CompleteIs
    <3>2. PICK b \in manifest[s] : manifest[s] = {b}
      BY <3>1 DEF DescribedInv
    <3>3. Sound(b.database) /\ database[s] = {b.database} /\ snapshot[s] = b.configuration
          /\ \E v \in Versions : b.configuration = {v}
      BY <3>1, <3>2 DEF DescribedInv
    <3>4. b \in Binding
      BY <3>1 DEF TypeOK
    <3>5. BindingOf(s) = {b}
      BY <3>3, <3>4 DEF BindingOf, Binding
    <3>6. Cardinality(snapshot[s]) = 1
      BY <3>3, FS_Singleton
    <3> QED
      BY <3>2, <3>3, <3>5, <3>6 DEF Described, Sound
  <2>2. ASSUME NEW p \in Producers, pc[p] \in {"publish_manifest", "retain"}
        PROVE  /\ database[stamp[p]] = {anchor[p]}
               /\ snapshot[stamp[p]] = captured[p]
               /\ \A v \in snapshot[stamp[p]] : target[p] = Selects[v]
    BY <2>2 DEF PublicationInv, AnchorInv, CaptureInv, Publishing
  <2> QED
    BY <2>1, <2>2 DEF SetsAreTrue
<1> QED
  BY <1>1, DirectoryHolds, PTL DEF DirectoryInv, BackupInv

\* A file of no complete set is in the hands of a live run, has been reported, or is
\* of a name over which a run was killed or met the one unexpected error.
THEOREM OrphansAccounted == Spec => []OrphansAreAccountedFor
<1>1. DirectoryInv => OrphansAreAccountedFor
  <2> SUFFICES ASSUME DirectoryInv, NEW f \in Orphans
               PROVE  \/ f[1] \in InProgress \cup crashed \cup escaped
                      \/ f \in reported
    BY DEF OrphansAreAccountedFor
  <2>1. ASSUME NEW p \in Producers, (pc[p] \in Publishing /\ f[1] = stamp[p]) \/ f \in doomed[p]
        PROVE  f[1] \in InProgress
    <3>1. Busy(p)
      BY <2>1 DEF DirectoryInv, DoomedInv, Busy, Publishing
    <3>2. f[1] \in InHand(p)
      BY <2>1 DEF InHand
    <3> QED
      BY <3>1, <3>2 DEF InProgress
  <2> QED
    BY <2>1 DEF DirectoryInv, InHandInv
<1> QED
  BY <1>1, DirectoryHolds, PTL

\* A rehearsal that ends well has restored one set, the one its last reading of the
\* manifest describes, unless two runs have taken the name between its checksums.
THEOREM RehearsalProves == Spec => []RestoreProvesASet
<1>1. RehearsalInv => RestoreProvesASet
  BY DEF RehearsalInv
<1> QED
  BY <1>1, DirectoryHolds, PTL

(***************************************************************************)
(* The three files seen as one.                                            *)
(***************************************************************************)
\* A complete set is worth what its manifest says.
LEMMA ContentIs ==
  ASSUME TypeOK, DescribedInv, NEW s \in Stamps
  PROVE  /\ s \in CompleteSets => \E b \in Binding : manifest[s] = {b} /\ Content(s) = {b}
         /\ s \notin CompleteSets => Content(s) = {}
<1>1. s \notin CompleteSets => Content(s) = {}
  BY DEF CompleteSets, Content
<1>2. ASSUME s \in CompleteSets
      PROVE  \E b \in Binding : manifest[s] = {b} /\ Content(s) = {b}
  <2>1. manifest[s] # {} /\ database[s] # {} /\ snapshot[s] # {}
    BY <1>2, CompleteIs
  <2>2. PICK b \in manifest[s] : manifest[s] = {b}
    BY <2>1 DEF DescribedInv
  <2>3. database[s] = {b.database} /\ snapshot[s] = b.configuration
    BY <2>1, <2>2 DEF DescribedInv
  <2>4. b \in Binding
    BY DEF TypeOK
  <2>5. BindingOf(s) = {b}
    BY <2>3, <2>4 DEF BindingOf, Binding
  <2> QED
    BY <1>2, <2>2, <2>4, <2>5 DEF Content, CompleteSets
<1> QED
  BY <1>1, <1>2

LEMMA ContentPrimed ==
  ASSUME TypeOK', DescribedInv', NEW s \in Stamps
  PROVE  /\ s \in CompleteSets'
              => \E b \in Binding : manifest'[s] = {b} /\ Content(s)' = {b}
         /\ s \notin CompleteSets' => Content(s)' = {}
<1>1. s \notin CompleteSets' => Content(s)' = {}
  BY DEF CompleteSets, Content
<1>2. ASSUME s \in CompleteSets'
      PROVE  \E b \in Binding : manifest'[s] = {b} /\ Content(s)' = {b}
  <2>1. manifest'[s] # {} /\ database'[s] # {} /\ snapshot'[s] # {}
    BY <1>2, CompleteIs
  <2>2. PICK b \in manifest'[s] : manifest'[s] = {b}
    BY <2>1 DEF DescribedInv
  <2>3. database'[s] = {b.database} /\ snapshot'[s] = b.configuration
    BY <2>1, <2>2 DEF DescribedInv
  <2>4. b \in Binding
    BY DEF TypeOK
  <2>5. BindingOf(s)' = {b}
    BY <2>3, <2>4 DEF BindingOf, Binding
  <2> QED
    BY <1>2, <2>2, <2>4, <2>5 DEF Content, CompleteSets
<1> QED
  BY <1>1, <1>2

\* A name keeps its set, or its lack of one, unless the run that works there changes it.
LEMMA OtherNames ==
  ASSUME TypeOK, TypeOK', DescribedInv, DescribedInv', NEW s \in Stamps,
         manifest'[s] = manifest[s], s \in CompleteSets' <=> s \in CompleteSets
  PROVE  Content(s)' = Content(s)
BY ContentIs, ContentPrimed

\* The abstract specification counts as this one does.
LEMMA SameCount == \A S : Sets!Cardinality(S) = Cardinality(S)
BY DEF Sets!Cardinality, Cardinality

LEMMA PublicationRefines ==
  ASSUME DirectoryInv, DirectoryInv', NEW p \in Producers, PublishManifest(p)
  PROVE  Sets!Publish(stamp[p])
<1> USE DEF DirectoryInv
<1>1. stamp[p] \in Stamps /\ stamp[p] \notin CompleteSets
  BY CompleteIs DEF PublishManifest, PublicationInv, Publishing
<1>2. database[stamp[p]] # {} /\ snapshot[stamp[p]] # {}
  BY DEF PublishManifest, PublicationInv, Publishing, CaptureInv
<1>3. stamp[p] \in CompleteSets'
  BY <1>1, <1>2, CompleteIs DEF PublishManifest, TypeOK
<1>4. PICK t \in Stamps : t = stamp[p]
  BY <1>1
<1>5. PICK b \in Binding : Content(t)' = {b}
  BY <1>3, <1>4, ContentPrimed
<1>6. ASSUME NEW s \in Stamps, s # t
      PROVE  Content(s)' = Content(s)
  BY <1>4, <1>6, OtherNames, CompleteIs DEF PublishManifest, TypeOK
<1>7. Content(t) = {}
  BY <1>1, <1>4, ContentIs
<1>8. Sets!Publish(t)
  BY <1>5, <1>6, <1>7 DEF Sets!Publish
<1> QED
  BY <1>4, <1>8

LEMMA RemovalRefines ==
  ASSUME DirectoryInv, DirectoryInv', NEW p \in Producers, NEW f \in doomed[p], Unlink(p, f)
  PROVE  Sets!Expire(f[1]) \/ \A s \in Stamps : Content(s)' = Content(s)
<1> USE DEF DirectoryInv
<1>1. f[1] \in Stamps /\ f[1] \notin CompleteSets' /\ CompleteSets' \subseteq CompleteSets
  BY UnlinkSpares DEF TypeOK
<1>2. ASSUME NEW s \in Stamps, s # f[1]
      PROVE  Content(s)' = Content(s)
  <2>1. manifest'[s] = manifest[s] /\ database'[s] = database[s] /\ snapshot'[s] = snapshot[s]
    BY <1>2 DEF Unlink, TypeOK
  <2> QED
    BY <2>1, OtherNames, CompleteIs
<1>3. Content(f[1])' = {}
  BY <1>1, ContentPrimed
<1>4. CASE f[1] \notin CompleteSets
  BY <1>1, <1>2, <1>3, <1>4, ContentIs
<1>5. CASE f[1] \in CompleteSets
  <2>1. Cardinality(Spared(p, f[1])) >= Keep
    <3>1. pc[p] # "rollback"
      BY <1>5, CompleteIs DEF DoomedInv, PublicationInv
    <3> QED
      BY <3>1 DEF DoomedInv
  <2>2. Spared(p, f[1]) \subseteq Sets!NewerSets(f[1])
    <3>1. Spared(p, f[1]) \subseteq {t \in Stamps : t > f[1] /\ Content(t) # {}}
      BY ContentIs DEF Spared, NewerThan, CompleteSets
    <3> QED
      BY <3>1 DEF Sets!NewerSets
  <2>3. IsFiniteSet(Sets!NewerSets(f[1]))
    <3>1. Sets!NewerSets(f[1]) \subseteq Stamps
      BY DEF Sets!NewerSets
    <3> QED
      BY <3>1, BackupAssumption, FS_Subset
  <2>4. Cardinality(Sets!NewerSets(f[1])) >= Keep
    <3>1. /\ Cardinality(Spared(p, f[1])) \in Nat
          /\ Cardinality(Sets!NewerSets(f[1])) \in Nat
          /\ Cardinality(Spared(p, f[1])) <= Cardinality(Sets!NewerSets(f[1]))
      BY <2>2, <2>3, FS_Subset, FS_CardinalityType
    <3> QED
      BY <2>1, <3>1, BackupAssumption
  <2>5. Content(f[1]) # {}
    BY <1>1, <1>5, ContentIs
  <2> QED
    BY <1>1, <1>2, <1>3, <2>4, <2>5, SameCount DEF Sets!Expire
<1> QED
  BY <1>4, <1>5

\* The files of a set are published one by one and removed one by one, by runs that
\* may die in between: what a reader of complete sets sees is sets that appear at
\* once, replace none, and go only when Keep newer ones stand.
THEOREM BackupRefines == Spec => ImplementsRecoverySets
<1>1. Init => Sets!Init
  <2> SUFFICES ASSUME Init PROVE Sets!Init
    OBVIOUS
  <2>1. TypeOK /\ DescribedInv
    BY DirectoryStarts DEF DirectoryInv
  <2>2. \A s \in Stamps : Content(s) \in {{}} \cup {{b} : b \in Binding}
    BY <2>1, ContentIs
  <2> QED
    BY <2>2 DEF Sets!Init
<1>2. DirectoryInv /\ DirectoryInv' /\ [Next]_vars
        => [Sets!Next]_([s \in Stamps |-> Content(s)])
  <2> SUFFICES ASSUME DirectoryInv, DirectoryInv', [Next]_vars
               PROVE  \/ \E s \in Stamps : Sets!Expire(s) \/ Sets!Publish(s)
                      \/ \A s \in Stamps : Content(s)' = Content(s)
    BY DEF Sets!Next
  <2> USE DEF DirectoryInv
  <2>1. CASE UNCHANGED directory
    BY <2>1 DEF Content, FilesOf, BindingOf, directory
  <2>2. ASSUME NEW p \in Producers, PublishDatabase(p) \/ PublishConfiguration(p)
        PROVE  \A s \in Stamps : Content(s)' = Content(s)
    <3>1. stamp[p] \in Stamps /\ manifest[stamp[p]] = {} /\ manifest' = manifest
      BY <2>2 DEF PublishDatabase, PublishConfiguration, PublicationInv, Copying, Publishing
    <3>2. \A s \in Stamps : s \in CompleteSets' <=> s \in CompleteSets
      BY <2>2, <3>1, CompleteIs DEF PublishDatabase, PublishConfiguration, TypeOK
    <3> QED
      BY <3>1, <3>2, OtherNames
  <2>3. ASSUME NEW p \in Producers, PublishManifest(p)
        PROVE  \E s \in Stamps : Sets!Expire(s) \/ Sets!Publish(s)
    BY <2>3, PublicationRefines DEF PublishManifest, PublicationInv, Publishing
  <2>4. ASSUME NEW p \in Producers, NEW f \in doomed[p], Unlink(p, f)
        PROVE  \/ \E s \in Stamps : Sets!Expire(s) \/ Sets!Publish(s)
               \/ \A s \in Stamps : Content(s)' = Content(s)
    <3>1. f[1] \in Stamps
      BY <2>4 DEF TypeOK
    <3> QED
      BY <2>4, <3>1, RemovalRefines
  <2> QED
    BY <2>1, <2>2, <2>3, <2>4, DirectoryChanges, EnvironmentOnly DEF Next
<1> QED
  BY <1>1, <1>2, DirectoryHolds, PTL DEF Spec, ImplementsRecoverySets, Sets!Spec
=============================================================================
