-------------------------- MODULE RetentionPolicy --------------------------
(***************************************************************************)
(* The planner of src/mgo/retention/policy.py over a growing catalogue:    *)
(* captures arrive, time passes, and a run deletes what the plan selects.  *)
(* Retention takes the shape of a plan for granted; this module computes   *)
(* the plan the way the code does and compares it with what it promises.   *)
(*                                                                         *)
(* Data abstraction.  A day is a tick.  The creation time and the id of a  *)
(* capture, which only break ties, are one number, its "id".               *)
(***************************************************************************)
EXTENDS Integers, FiniteSets, FiniteSetsExt, Sequences, SequencesExt

CONSTANTS
  Ids,        \* the captures that may arrive, in any order
  Sizes,      \* the file sizes they may have
  LastDay,    \* the clock stops here
  Policies,   \* the configurations to plan under
  Unlimited   \* max_age_days or max_managed_bytes left out

Policy == [keep : Nat \ {0}, age : Nat \cup {Unlimited},
           bytes : Nat \cup {Unlimited}, cap : Nat \ {0}]

\* _validate_retention_config, for a policy that is enabled: a floor, a cap, and
\* at least one bound that makes media eligible.
Valid(q) == /\ DOMAIN q = {"keep", "age", "bytes", "cap"}
            /\ q.keep \in Nat \ {0} /\ q.cap \in Nat \ {0}
            /\ {q.age, q.bytes} \subseteq (Nat \ {0}) \cup {Unlimited}
            /\ {q.age, q.bytes} # {Unlimited}

ASSUME PolicyAssumption ==
  /\ Ids \subseteq Nat /\ Sizes \subseteq Nat /\ LastDay \in Nat
  /\ Unlimited \notin Nat
  /\ \A q \in Policies : Valid(q)

VARIABLES
  policy,    \* the configuration of this installation
  now,       \* today
  records,   \* the captures whose media is present
  reclaimed  \* the ids of those a run has deleted

policyVars == <<policy, now, records, reclaimed>>

Record == [id : Ids, at : 0..LastDay, size : Sizes, origin : {"motion", "manual"}]

PolicyTypeOK ==
  /\ policy \in Policies
  /\ now \in 0..LastDay
  /\ records \subseteq Record
  /\ reclaimed \subseteq Ids
  /\ \A r, s \in records : r.id = s.id => r = s

PolicyInit ==
  /\ policy \in Policies
  /\ now = 0
  /\ records = {}
  /\ reclaimed = {}
-----------------------------------------------------------------------------
(* The plan. *)

IsManaged(r) == r.origin = "motion"

Before(r, s) == r.at < s.at \/ (r.at = s.at /\ r.id < s.id)

ManagedIn(R) == {r \in R : IsManaged(r)}

\* sorted by _ordering_key.
Sorted(S) == CHOOSE s \in [1..Cardinality(S) -> S] :
               \A i, j \in DOMAIN s : i < j => Before(s[i], s[j])

Ordered(R) == Sorted(ManagedIn(R))

EligibleRecords(R, q) ==
  LET o == Ordered(R) IN SubSeq(o, 1, Max({0, Len(o) - q.keep}))

\* The bytes of a record's media are the record with an offset each.
Bytes(S) == Cardinality(UNION {{r} \X (1..r.size) : r \in S})

ByAge(R, q, t) ==
  IF q.age = Unlimited THEN {}
  ELSE {r \in ToSet(EligibleRecords(R, q)) : r.at <= t - q.age}

\* The projected total after each of the eligible captures, oldest first.
Running(R, q) ==
  LET e == EligibleRecords(R, q)
      running[n \in 0..Len(e)] ==
        IF n = 0 THEN Bytes(ManagedIn(R)) ELSE running[n - 1] - e[n].size
  IN running

\* Fault: a total that is exactly the limit still counts as over it.
ByBytesExclusive(R, q) ==
  IF q.bytes = Unlimited THEN {}
  ELSE LET e == EligibleRecords(R, q)
           running == Running(R, q)
       IN {e[i] : i \in {j \in DOMAIN e : \A n \in 0..(j - 1) : running[n] >= q.bytes}}

\* The loop over the eligible captures stops as soon as the running total is
\* within the limit.
ByBytes(R, q) ==
  IF q.bytes = Unlimited THEN {}
  ELSE LET e == EligibleRecords(R, q)
           running == Running(R, q)
       IN {e[i] : i \in {j \in DOMAIN e : \A n \in 0..(j - 1) : running[n] > q.bytes}}

\* The eligible records that either rule selects, oldest first.
Selected(R, q, t) == Sorted(ByAge(R, q, t) \cup ByBytes(R, q))

\* Fault: a truncated plan reads as a complete one.
MoreWorkRemainsNever(R, q, t) == FALSE

MoreWorkRemains(R, q, t) == Len(Selected(R, q, t)) > q.cap

Candidates(R, q, t) ==
  LET s == Selected(R, q, t) IN SubSeq(s, 1, Min({Len(s), q.cap}))

\* Fault: age is reported whenever age applies.
ReasonAgeFirst(r, R, q, t) ==
  IF r \in ByAge(R, q, t) THEN "age" ELSE "managed_bytes"

Reason(r, R, q, t) ==
  IF r \in ByAge(R, q, t)
  THEN IF r \in ByBytes(R, q) THEN "age_and_managed_bytes" ELSE "age"
  ELSE "managed_bytes"

ByteTargetSatisfiable(R, q) ==
  q.bytes = Unlimited
    \/ Bytes(ManagedIn(R) \ ToSet(EligibleRecords(R, q))) <= q.bytes
-----------------------------------------------------------------------------
Arrive(id, size, origin) ==
  /\ id \notin reclaimed /\ \A r \in records : r.id # id
  /\ records' = records \cup
       {[id |-> id, at |-> now, size |-> size, origin |-> origin]}
  /\ UNCHANGED <<policy, now, reclaimed>>

Tick == /\ now < LastDay
        /\ now' = now + 1
        /\ UNCHANGED <<policy, records, reclaimed>>

\* A run in which nothing fails: every candidate is deleted.
Run == LET doomed == ToSet(Candidates(records, policy, now)) IN
         /\ doomed # {}
         /\ records' = records \ doomed
         /\ reclaimed' = reclaimed \cup {r.id : r \in doomed}
         /\ UNCHANGED <<policy, now>>

PolicyNext ==
  \/ \E id \in Ids, size \in Sizes, origin \in {"motion", "manual"} :
       Arrive(id, size, origin)
  \/ Tick
  \/ Run

\* Weak fairness of Run, with what enables it spelled out: there are candidates.
TimerFires == \/ []<>(Candidates(records, policy, now) = <<>>)
            \/ []<><<Run>>_policyVars

PolicySpec == PolicyInit /\ [][PolicyNext]_policyVars /\ TimerFires
-----------------------------------------------------------------------------
(* What the planner promises. *)

ManagedRecords == ManagedIn(records)

\* The newest keep managed captures, which no pressure may touch.
Floor == {r \in ManagedRecords :
            Cardinality({s \in ManagedRecords : Before(r, s)}) < policy.keep}

Expired(r) == policy.age # Unlimited /\ r.at + policy.age <= now

WithinLimit(S) == policy.bytes = Unlimited \/ Bytes(S) <= policy.bytes

\* Deleting D, a run of oldest captures, satisfies both rules as far as the
\* floor permits.
Remedy(D) == /\ \A r \in ManagedRecords \ Floor :
                  Expired(r) => r \in D
             /\ WithinLimit(ManagedRecords \ D) \/ D = ManagedRecords \ Floor

\* "It selects the minimal oldest prefix -- never one capture more than the
\* bound requires": the selection is a remedy, no shorter prefix is one, and
\* the candidates are its oldest members, as many as the cap allows.
PlanIsLeastRemedy ==
  LET s == Selected(records, policy, now)
      c == Candidates(records, policy, now) IN
  /\ ToSet(s) \subseteq ManagedRecords \ Floor
  /\ \A r \in ToSet(s), o \in ManagedRecords : Before(o, r) => o \in ToSet(s)
  /\ Remedy(ToSet(s))
  /\ s # <<>> => ~Remedy(ToSet(Front(s)))
  /\ IsPrefix(c, s)
  /\ Len(c) = policy.cap \/ c = s

\* Each recorded reason is what the policy would have done without the other
\* rule: "age" appears exactly when the age bound alone selects the capture,
\* "managed_bytes" exactly when the byte bound alone does.
ReasonIsCounterfactual ==
  \A r \in ToSet(Candidates(records, policy, now)) :
    LET reason == Reason(r, records, policy, now)
        ageOnly == [policy EXCEPT !.bytes = Unlimited]
        bytesOnly == [policy EXCEPT !.age = Unlimited]
    IN /\ reason \in {"age", "age_and_managed_bytes"} <=>
            r \in ToSet(Selected(records, ageOnly, now))
       /\ reason \in {"managed_bytes", "age_and_managed_bytes"} <=>
            r \in ToSet(Selected(records, bytesOnly, now))

\* A run that reports no remaining work leaves none at this instant, and the
\* byte bound is met afterwards exactly when the plan called it satisfiable.
CompleteRunSettles ==
  [][reclaimed' # reclaimed /\ ~MoreWorkRemains(records, policy, now) =>
       /\ (Candidates(records, policy, now) = <<>>)'
       /\ WithinLimit(ManagedRecords)' <=> ByteTargetSatisfiable(records, policy)
    ]_policyVars

\* However small the cap, repeated runs work off every backlog.
BacklogDrains == <>[](Candidates(records, policy, now) = <<>>)

\* The plan of every catalogue, and the types it is made of.
PolicyInv == PolicyTypeOK /\ PlanIsLeastRemedy

\* What a run leaves behind, alone and repeated.
RunsSettle == CompleteRunSettles /\ BacklogDrains
=============================================================================
