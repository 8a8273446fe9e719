--------------------------- MODULE OperationLock ---------------------------
(***************************************************************************)
(* The lock file protocol of src/mgo/operations/locking.py, one action per *)
(* system call that reads or changes the file.  The backup and the         *)
(* retention run contend for one such file, each contender a process that  *)
(* makes one attempt, does its job and releases.                           *)
(*                                                                         *)
(* Data abstraction.  The random token of an acquisition is the identity   *)
(* of the contender as long as that acquisition lives; once its process is *)
(* gone no run knows the token any more and the file belongs to Nobody.    *)
(* The age of a file is one bit: past the stale threshold or not.          *)
(***************************************************************************)
EXTENDS Naturals, FiniteSets

CONSTANTS
  Contenders,   \* the processes: backup timer, retention timer, operator
  Nobody,       \* the owner of a file whose process is gone
  NoFile,       \* the lock file does not exist
  SoloReclaim   \* TRUE: at most one contender at a time is between judging
                \* the file abandoned and removing it

ASSUME ContendersAssumption ==
  /\ Nobody \notin Contenders
  /\ {"free", "abandoned", "stale"} \cap Contenders = {}
  /\ NoFile \notin [owner : Contenders \cup {Nobody}, old : BOOLEAN]
  /\ SoloReclaim \in BOOLEAN

VARIABLES
  file,   \* the lock file
  pc      \* where each contender is in acquire, its job, or release

vars == <<file, pc>>

LockFile == [owner : Contenders \cup {Nobody}, old : BOOLEAN]

PC == {"idle", "create", "inspect", "reclaim", "recreate", "created",
       "held", "unlinkOwn"}

TypeOK == /\ file \in LockFile \cup {NoFile}
          /\ pc \in [Contenders -> PC]

Init == /\ file = NoFile
        /\ pc = [p \in Contenders |-> "idle"]

Goto(p, label) == pc' = [pc EXCEPT ![p] = label]

OwnedBy(p) == file # NoFile /\ file.owner = p

\* The file a finished or dead process leaves behind.
Disowned(p) == IF OwnedBy(p) THEN [file EXCEPT !.owner = Nobody] ELSE file
-----------------------------------------------------------------------------
(* acquire *)

Begin(p) == /\ pc[p] = "idle"
            /\ Goto(p, "create")
            /\ UNCHANGED file

\* os.open with O_CREAT | O_EXCL finds no file.
CreateSucceeds(p) == /\ pc[p] \in {"create", "recreate"}
                     /\ file = NoFile
                     /\ file' = [owner |-> p, old |-> FALSE]
                     /\ Goto(p, "created")

\* FileExistsError: the first attempt goes on to look at the file's age, the
\* attempt after a reclamation gives up.
CreateFindsFile(p) == /\ file # NoFile
                      /\ \/ pc[p] = "create" /\ Goto(p, "inspect")
                         \/ pc[p] = "recreate" /\ Goto(p, "idle")
                      /\ UNCHANGED file

\* Any other OSError: the lock cannot be created at all.
CreateFails(p) == /\ pc[p] \in {"create", "recreate"}
                  /\ Goto(p, "idle")
                  /\ UNCHANGED file

\* A file that has vanished or is young is "already running".
InspectRefuses(p) == /\ pc[p] = "inspect"
                     /\ file # NoFile => ~file.old
                     /\ Goto(p, "idle")
                     /\ UNCHANGED file

\* Fault: a file is reclaimed whatever its age.
InspectIgnoresAge(p) ==
  /\ pc[p] = "inspect"
  /\ file # NoFile
  /\ SoloReclaim => \A q \in Contenders : pc[q] # "reclaim"
  /\ Goto(p, "reclaim")
  /\ UNCHANGED file

InspectJudgesStale(p) ==
  /\ pc[p] = "inspect"
  /\ file # NoFile
  /\ file.old
  /\ SoloReclaim => \A q \in Contenders : pc[q] # "reclaim"
  /\ Goto(p, "reclaim")
  /\ UNCHANGED file

\* Fault: the stale file is reported but not removed.
ReclaimKeepsFile(p) == /\ pc[p] = "reclaim"
                       /\ file' = file
                       /\ Goto(p, "recreate")

\* unlink removes whatever file is there now; OSError is suppressed.
Reclaim(p) == /\ pc[p] = "reclaim"
              /\ file' \in {NoFile, file}
              /\ Goto(p, "recreate")

WriteSucceeds(p) == /\ pc[p] = "created"
                    /\ Goto(p, "held")
                    /\ UNCHANGED file

\* The token could not be written: the file at the path is removed again
\* (or left behind, when that fails too).
WriteFails(p) == /\ pc[p] = "created"
                 /\ file' \in {NoFile, Disowned(p)}
                 /\ Goto(p, "idle")
-----------------------------------------------------------------------------
(* release *)

\* The token is read first, the unlink is a later call.
ReleaseReadsToken(p) == /\ pc[p] = "held"
                        /\ Goto(p, IF OwnedBy(p) THEN "unlinkOwn" ELSE "idle")
                        /\ UNCHANGED file

ReleaseUnlinks(p) == /\ pc[p] = "unlinkOwn"
                     /\ file' \in {NoFile, Disowned(p)}
                     /\ Goto(p, "idle")
-----------------------------------------------------------------------------
(* the environment *)

\* SIGKILL or a power cut.
Crash(p) == /\ pc[p] # "idle"
            /\ file' = Disowned(p)
            /\ Goto(p, "idle")

\* Six hours pass.  A live job is never that old: both timers bound a run to
\* minutes (TimeoutStartSec), which is the assumption the threshold states.
Age == /\ file # NoFile
       /\ file.owner = Nobody
       /\ ~file.old
       /\ file' = [file EXCEPT !.old = TRUE]
       /\ UNCHANGED pc

Attempt(p) == \/ Begin(p)
              \/ CreateSucceeds(p)
              \/ CreateFindsFile(p)
              \/ CreateFails(p)
              \/ InspectRefuses(p)
              \/ InspectJudgesStale(p)
              \/ Reclaim(p)
              \/ WriteSucceeds(p)
              \/ WriteFails(p)

Finish(p) == ReleaseReadsToken(p) \/ ReleaseUnlinks(p)

Next == \/ \E p \in Contenders : Attempt(p) \/ Finish(p) \/ Crash(p)
        \/ Age

Spec == Init /\ [][Next]_vars

\* The timers keep starting jobs, jobs run to their end, time passes, and an
\* attempt is not killed, nor its unlink refused, every single time.
Fairness == /\ WF_vars(Age)
            /\ \A p \in Contenders :
                 /\ WF_vars(Attempt(p) \/ Finish(p))
                 /\ SF_vars(CreateFindsFile(p))
                 /\ SF_vars(InspectJudgesStale(p))
                 /\ SF_vars(Reclaim(p) /\ file' = NoFile)

FairSpec == Spec /\ Fairness
-----------------------------------------------------------------------------
\* Two jobs never both believe they hold the lock: the exclusion that
\* retention/service.py's run_once and backup.py's create_backup rest on.
MutualExclusion ==
  \A p, q \in Contenders : pc[p] = "held" /\ pc[q] = "held" => p = q

\* A release removes only the releaser's own lock: between reading the token
\* and the unlink nobody can have put another file at the path.
ReleaseRemovesOwnLock == \A p \in Contenders : pc[p] = "unlinkOwn" => OwnedBy(p)

\* An abandoned lock does not block the jobs for ever: once its process is
\* gone, the file is in the end removed or taken over.
AbandonedLockIsReclaimed ==
  (file # NoFile /\ file.owner = Nobody) ~> (file = NoFile)
-----------------------------------------------------------------------------
\* The inductive strengthening: the file at the path belongs to the contender that
\* created it and has not yet given it up, and the file a contender is about to
\* reclaim is still the abandoned one it looked at.
LockInv ==
  /\ \A p \in Contenders : pc[p] \in {"created", "held", "unlinkOwn"} <=> OwnedBy(p)
  /\ \A p \in Contenders : pc[p] = "reclaim" => OwnedBy(Nobody) /\ file.old
  /\ \A p, q \in Contenders : pc[p] = "reclaim" /\ pc[q] = "reclaim" => p = q
  /\ \A p \in Contenders : OwnedBy(p) => ~file.old

\* The abstract lock this protocol implements...
AbstractLock == IF file = NoFile THEN "free"
                ELSE IF file.owner # Nobody THEN file.owner
                ELSE IF file.old THEN "stale" ELSE "abandoned"

\* ...and the contenders that have created the file and not yet given it up.
Holders == {p \in Contenders : pc[p] \in {"created", "held", "unlinkOwn"}}

Abstract == INSTANCE HeldLock WITH Jobs <- Contenders, lock <- AbstractLock,
                                   holders <- Holders

\* As long as reclamations do not overlap, the protocol is an exclusive lock: one
\* contender at a time is past its creation of the file, the file stays its own
\* until it gives it up, and only an abandoned one is cleared away.
ImplementsHeldLock == Abstract!Spec
=============================================================================
