------------------------------ MODULE HeldLock ------------------------------
(***************************************************************************)
(* What mgo.operations.locking promises to the jobs that use it.  Beside   *)
(* the lock there are the jobs that took it and have not given it up; each *)
(* action but the passing of time is one job's, and says what becomes of   *)
(* that job and of the lock in the same step.  A job gives up only a lock  *)
(* that is its own, so nobody else's is ever taken away.                   *)
(***************************************************************************)
EXTENDS ExclusiveLock

VARIABLE holders       \* the jobs that took the lock and have not given it up

Init == lock = Free /\ holders = {}

Take(j) == /\ j \notin holders
           /\ Acquire(j)
           /\ holders' = holders \cup {j}

\* It ends with the file removed or, when that fails, left behind.
GiveUp(j) == /\ j \in holders /\ lock = j
             /\ Release(j) \/ Abandon(j)
             /\ holders' = holders \ {j}

Next == \/ \E j \in Jobs : Take(j) \/ GiveUp(j)
        \/ (Expire \/ Clear) /\ UNCHANGED holders

Spec == Init /\ [][Next]_<<lock, holders>>

\* Whoever has taken the lock and not given it up is the one it belongs to: there
\* are never two, and the holder's lock is not cleared away under it.
Held == \A j \in holders : lock = j
=============================================================================
