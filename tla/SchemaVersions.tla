--------------------------- MODULE SchemaVersions ---------------------------
(***************************************************************************)
(* What mgo.core.database promises of a database file: its schema is one   *)
(* of the released versions, goes up one version at a time with the record *)
(* of it, and never past the one this build expects; what an older build   *)
(* left in it stays where it is; and a file whose schema it does not       *)
(* recognise, or whose version is newer, is not touched.                   *)
(***************************************************************************)
EXTENDS Naturals

CONSTANT Current       \* CURRENT_SCHEMA_VERSION

VARIABLES
  level,               \* {the version the tables amount to}, {} if unrecognised
  history,             \* the versions the file has on record
  inherited            \* the versions whose tables hold an older build's rows

Init == /\ level \subseteq Nat /\ \A m, n \in level : m = n
        /\ history \subseteq Nat
        /\ inherited \subseteq Nat

\* A file from before versions were recorded is given the record of what it holds.
Adopt == \E n \in level : /\ history = {} /\ n > 0
                         /\ history' = 1..n
                         /\ UNCHANGED <<level, inherited>>

Upgrade == \E n \in level : /\ history = 1..n /\ n < Current
                           /\ level' = {n + 1}
                           /\ history' = 1..(n + 1)
                           /\ UNCHANGED inherited

Spec == Init /\ [][Adopt \/ Upgrade]_<<level, history, inherited>>
=============================================================================
