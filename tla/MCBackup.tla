------------------------------ MODULE MCBackup ------------------------------
(* Backup over one replacement of a database file and one change of the    *)
(* configuration, from the version that names path 1 to one that names 2.  *)
EXTENDS Backup, TLC

MCSelects == [v \in Versions |-> v]

\* Path 2 starts out unsound; the object that comes later looks like the first
\* one by its row counts.
MCRows == [o \in Objects |-> o % 2]
\* Which process executes a run makes no difference.
Interchangeable == Permutations(Producers)
=============================================================================
