--------------------------- MODULE ExclusiveLock ---------------------------
(***************************************************************************)
(* What the lock files of mgo.operations.locking go through, as the jobs   *)
(* that take them see it: a file with at most one owner, which a job that  *)
(* dies leaves behind, and which becomes takeable again once it is old     *)
(* enough to be judged abandoned.                                          *)
(*                                                                         *)
(* Retention and Backup build their locks from these actions; HeldLock     *)
(* adds the jobs themselves, and OperationLock is shown to implement it.   *)
(***************************************************************************)
CONSTANT Jobs          \* the processes that may hold the lock

VARIABLE lock          \* a member of Jobs while a live job holds the lock

Free == "free"         \* no lock file
Abandoned == "abandoned"   \* a lock file whose job is gone, still young
Stale == "stale"       \* the same file, older than the stale threshold

LockValue == Jobs \cup {Free, Abandoned, Stale}

\* A single O_EXCL creation: it succeeds only when there is no file.
Acquire(j) == lock = Free /\ lock' = j

\* Release removes the file only when its token is still the releaser's.
Release(j) == lock' = IF lock = j THEN Free ELSE lock

\* The job dies, or cannot remove its file on the way out.
Abandon(j) == lock' = IF lock = j THEN Abandoned ELSE lock

\* The abandoned file passes the stale threshold.
Expire == lock = Abandoned /\ lock' = Stale

\* A contender removes the file it judged stale.
Clear == lock = Stale /\ lock' = Free
=============================================================================
