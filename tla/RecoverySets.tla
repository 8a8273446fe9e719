---------------------------- MODULE RecoverySets ----------------------------
(***************************************************************************)
(* What mgo.operations.backup promises about its directory: a recovery set *)
(* (a database, the configuration that chose it, and the manifest binding  *)
(* the two) appears whole or not at all, never replaces another, and goes  *)
(* only once enough newer ones are there.                                  *)
(***************************************************************************)
EXTENDS Naturals, FiniteSets

CONSTANTS
  Stamps,     \* the timestamps a set may be named by
  Contents,   \* what a set may hold
  Keep        \* the retention count

VARIABLE sets   \* the content of the set of each name, {} where there is none

\* Whatever sets earlier runs have left.
Init == sets \in [Stamps -> {{}} \cup {{c} : c \in Contents}]

NewerSets(s) == {t \in Stamps : t > s /\ sets[t] # {}}

Publish(s) == /\ sets[s] = {}
              /\ sets'[s] # {}
              /\ \E c \in Contents : sets' = [sets EXCEPT ![s] = {c}]

Expire(s) == /\ sets[s] # {}
             /\ sets'[s] = {}
             /\ Cardinality(NewerSets(s)) >= Keep
             /\ sets' = [sets EXCEPT ![s] = {}]

Next == \E s \in Stamps : Expire(s) \/ Publish(s)

Spec == Init /\ [][Next]_sets
=============================================================================
