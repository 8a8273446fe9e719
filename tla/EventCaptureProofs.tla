------------------------ MODULE EventCaptureProofs -------------------------
(*************************************************************************)
(* Motion-triggered capture: the gate, for any limits, any number of     *)
(* attempts, any failures and restarts, and clocks that come up behind   *)
(* by no more than the sweep horizon allows for; then the service, whose *)
(* worker drives the gate as Admission allows, its queue, its counters   *)
(* and what follows a shutdown.                                          *)
(*************************************************************************)
EXTENDS EventCapture, FiniteSetTheorems, TLAPS

(*************************************************************************)
(* The gate.                                                             *)
(*************************************************************************)

USE DEF ValidLimits

(***************************************************************************)
(* The strengthening.                                                      *)
(***************************************************************************)

\* One reservation at a time is in hand, the newest, and it has a row exactly
\* when the attempt has been catalogued.
HandInv ==
  /\ phase = "idle" => held = {}
  /\ phase # "idle" =>
       \E n \in admitted : held = {n} /\ \A m \in issued : m <= n
  /\ phase = "catalogued" => held \subseteq rows
  /\ phase \notin {"idle", "catalogued"} => held \cap rows = {}

\* A photograph is never older than the reservation it was taken under.
TimedInv ==
  /\ \A n \in rows : reservedAt[n] <= photographedAt[n]
  /\ phase = "admitted" => \A n \in held : reservedAt[n] <= now
  /\ phase = "photographed" => \A n \in held : reservedAt[n] <= photographedAt[n]

\* An attempt is counted by its marker or its row until the sweep horizon has
\* passed over it.
CountedInv ==
  \A n \in admitted :
    n \in markers \cup rows \/ reservedAt[n] + SweepAfter < latest

\* The attempt in hand was admitted with room for its photograph.
RoomInv ==
  phase \in {"admitted", "photographed"} =>
    \A n \in held :
      /\ Cardinality({m \in rows : reservedAt[n] <= photographedAt[m] + Hour})
           < HourlyLimit
      /\ Cardinality(Since(rows, photographedAt, reservedAt[n] - (reservedAt[n] % Day)))
           < DailyLimit

\* The quotas, at every instant and on every day rather than up to a bound.
Within(S, at, t) == {n \in S : at[n] \in t..(t + Hour)}

OnDay(S, at, d) == {n \in S : at[n] \div Day = d}

HourInv ==
  \A t \in Nat : /\ Cardinality(Within(admitted, reservedAt, t)) <= HourlyLimit
                 /\ Cardinality(Within(rows, photographedAt, t)) <= HourlyLimit

DayInv ==
  \A d \in Nat : /\ Cardinality(OnDay(admitted, reservedAt, d)) <= DailyLimit
                 /\ Cardinality(OnDay(rows, photographedAt, d)) <= DailyLimit

GateInv == /\ GateTypeOK
           /\ HandInv
           /\ TimedInv
           /\ CountedInv
           /\ RoomInv
           /\ HourInv
           /\ DayInv
           /\ CooldownKept
-----------------------------------------------------------------------------
(* Counting. *)

\* A subset of a finite set counts no more than the set.
LEMMA CountsNoMore ==
  ASSUME NEW T, IsFiniteSet(T), NEW S \in SUBSET T
  PROVE  /\ IsFiniteSet(S)
         /\ Cardinality(S) \in Nat
         /\ Cardinality(T) \in Nat
         /\ Cardinality(S) <= Cardinality(T)
BY FS_Subset, FS_CardinalityType

\* A set that a new element may join, and that had room without it.
LEMMA OneMore ==
  ASSUME NEW T, IsFiniteSet(T), NEW limit \in Nat, Cardinality(T) < limit,
         NEW x, NEW S \in SUBSET (T \cup {x})
  PROVE  Cardinality(S) <= limit
<1>1. /\ IsFiniteSet(T \cup {x})
      /\ Cardinality(T \cup {x}) \in {Cardinality(T), Cardinality(T) + 1}
  BY FS_AddElement
<1>2. Cardinality(S) \in Nat /\ Cardinality(S) <= Cardinality(T \cup {x})
  BY <1>1, CountsNoMore
<1>3. Cardinality(T) \in Nat
  BY FS_CardinalityType
<1> QED
  BY <1>1, <1>2, <1>3

\* The start of the day: an instant of the same day, no later than any other
\* instant of it and less than a day before the latest.
LEMMA DayBegins ==
  ASSUME NEW a \in Nat, NEW b \in Nat, a \div Day = b \div Day
  PROVE  /\ a - (a % Day) \in Nat
         /\ a - (a % Day) <= b
         /\ a < a - (a % Day) + Day
<1>1. Day \in Nat \ {0}
  BY AdmissionAssumption
<1>2. /\ a = Day * (a \div Day) + (a % Day)
      /\ b = Day * (b \div Day) + (b % Day)
      /\ a % Day \in 0..(Day - 1)
      /\ b % Day \in 0..(Day - 1)
      /\ a \div Day \in Nat
  BY <1>1
<1> QED
  BY <1>1, <1>2

\* The day of an earlier instant begins before every instant of a later one's.
LEMMA LaterDay ==
  ASSUME NEW a \in Nat, NEW b \in Nat, NEW c \in Nat,
         a <= b, b \div Day = c \div Day
  PROVE  a - (a % Day) <= c
<1>1. Day \in Nat \ {0}
  BY AdmissionAssumption
<1>2. a \div Day \in Nat /\ b \div Day \in Nat
  BY <1>1
<1>3. /\ a = Day * (a \div Day) + (a % Day) /\ a % Day \in 0..(Day - 1)
      /\ b = Day * (b \div Day) + (b % Day) /\ b % Day \in 0..(Day - 1)
      /\ c = Day * (c \div Day) + (c % Day) /\ c % Day \in 0..(Day - 1)
  BY <1>1
<1>4. Day * (a \div Day) <= Day * (b \div Day)
  <2>1. a \div Day <= b \div Day
    BY <1>1, <1>2, <1>3
  <2> QED
    BY <1>1, <1>2, <2>1
<1> QED
  BY <1>1, <1>2, <1>3, <1>4

\* Whatever a sweep removes, every attempt of the last day is counted, by its
\* row or by its marker.
LEMMA AttemptsCounted ==
  ASSUME GateTypeOK, TimedInv, CountedInv,
         NEW M \in Swept, NEW t \in Nat, now <= t + Day
  PROVE  /\ Cardinality(Since(admitted, reservedAt, t)) <= CountedSince(M, t)
         /\ Cardinality(Since(rows, photographedAt, t)) <= CountedSince(M, t)
         /\ IsFiniteSet(Since(admitted, reservedAt, t))
         /\ IsFiniteSet(Since(rows, photographedAt, t))
         /\ Cardinality(Since(admitted, reservedAt, t)) \in Nat
         /\ Cardinality(Since(rows, photographedAt, t)) \in Nat
         /\ CountedSince(M, t) \in Nat
<1> DEFINE R == Since(rows, photographedAt, t)
           K == Since(M, reservedAt, t)
           A == Since(admitted, reservedAt, t)
<1>1. /\ IsFiniteSet(Attempts) /\ Attempts \subseteq Nat
      /\ {Day, StepBack, SweepAfter} \subseteq Nat
      /\ Day + StepBack <= SweepAfter
  BY AdmissionAssumption
<1>2. /\ admitted \subseteq Attempts /\ rows \subseteq Attempts
      /\ M \subseteq Attempts /\ markers \subseteq Attempts
  BY DEF GateTypeOK, Swept
<1>3. /\ now \in Nat /\ latest \in Nat /\ latest <= now + StepBack
      /\ \A n \in Attempts : reservedAt[n] \in Nat /\ photographedAt[n] \in Nat
  BY <1>1 DEF GateTypeOK
<1>4. A \subseteq R \cup K
  <2> SUFFICES ASSUME NEW n \in admitted, reservedAt[n] >= t
               PROVE  n \in R \/ n \in K
    BY DEF Since
  <2>1. CASE n \in rows
    BY <1>2, <1>3, <2>1 DEF TimedInv, Since
  <2>2. CASE n \notin rows
    <3>1. n \in markers
      BY <1>1, <1>2, <1>3, <2>2 DEF CountedInv
    <3>2. n \notin Stale
      BY <1>1, <1>2, <1>3 DEF Stale
    <3> QED
      BY <3>1, <3>2 DEF Swept, Since
  <2> QED
    BY <2>1, <2>2
<1>5. /\ IsFiniteSet(R) /\ Cardinality(R) \in Nat
      /\ IsFiniteSet(K) /\ Cardinality(K) \in Nat
  BY <1>1, <1>2, CountsNoMore DEF Since
<1>6. IsFiniteSet(R \cup K)
  BY <1>5, FS_Union
<1>7. Cardinality(R \cup K) = Cardinality(R) + Cardinality(K) - Cardinality(R \cap K)
  BY <1>5, FS_Union
<1>8. Cardinality(R \cap K) \in Nat
  BY <1>5, CountsNoMore
<1>9. /\ IsFiniteSet(A) /\ Cardinality(A) \in Nat
      /\ Cardinality(A) <= Cardinality(R \cup K)
  BY <1>4, <1>6, CountsNoMore
<1>10. CountedSince(M, t) = Cardinality(R) + Cardinality(K)
  BY DEF CountedSince
<1> HIDE DEF R, K, A
<1>11. /\ Cardinality(A) <= CountedSince(M, t)
       /\ Cardinality(R) <= CountedSince(M, t)
       /\ CountedSince(M, t) \in Nat
  BY <1>5, <1>6, <1>7, <1>8, <1>9, <1>10, FS_CardinalityType
<1> QED
  BY <1>5, <1>9, <1>11 DEF A, R
-----------------------------------------------------------------------------
(* What each step preserves. *)

\* A marker is new, is stamped with the present, and outlives the sweep that
\* precedes it; nothing that is not stale is swept.
LEMMA Marking ==
  ASSUME GateTypeOK, NEW n \in Attempts, NextAttempt(n),
         NEW M \in Swept, Mark(n, M)
  PROVE  /\ issued' = issued \cup {n} /\ issued' \subseteq Attempts
         /\ n \notin issued /\ \A m \in issued : m < n
         /\ reservedAt' \in [Attempts -> Nat]
         /\ reservedAt'[n] = now
         /\ \A m \in Attempts \ {n} : reservedAt'[m] = reservedAt[m]
         /\ M \subseteq markers /\ markers \ Stale \subseteq M
         /\ markers' = M \cup {n} /\ markers' \subseteq issued'
<1>1. M \subseteq markers /\ markers \ Stale \subseteq M
  BY DEF Swept
<1>2. now \in Nat /\ reservedAt \in [Attempts -> Nat]
  BY AdmissionAssumption DEF GateTypeOK
<1>3. /\ reservedAt' \in [Attempts -> Nat]
      /\ reservedAt'[n] = now
      /\ \A m \in Attempts \ {n} : reservedAt'[m] = reservedAt[m]
  BY <1>2 DEF Mark
<1>4. /\ issued' = issued \cup {n} /\ issued' \subseteq Attempts
      /\ n \notin issued /\ \A m \in issued : m < n
  BY DEF Mark, NextAttempt, GateTypeOK
<1> QED
  BY <1>1, <1>3, <1>4 DEF Mark, GateTypeOK

LEMMA TypeKept == GateTypeOK /\ [GateNext]_gate => GateTypeOK'
<1> SUFFICES ASSUME GateTypeOK, [GateNext]_gate PROVE GateTypeOK'
  OBVIOUS
<1> USE AdmissionAssumption DEF GateTypeOK, Phase
<1>1. ASSUME NEW n \in Attempts, Admit(n) PROVE GateTypeOK'
  <2>1. PICK M \in Swept : WithinLimits(M) /\ Mark(n, M)
    BY <1>1 DEF Admit
  <2>2. /\ issued' = issued \cup {n} /\ issued' \subseteq Attempts
        /\ reservedAt' \in [Attempts -> Nat]
        /\ markers' \subseteq issued'
    BY <1>1, <2>1, Marking DEF Admit
  <2> QED
    BY <1>1, <2>2 DEF Admit, clock
<1>2. ASSUME NEW n \in Attempts, ReserveLeavesMarker(n) PROVE GateTypeOK'
  <2>1. PICK M \in Swept : WithinLimits(M) /\ Mark(n, M)
    BY <1>2 DEF ReserveLeavesMarker
  <2>2. /\ issued' = issued \cup {n} /\ issued' \subseteq Attempts
        /\ reservedAt' \in [Attempts -> Nat]
        /\ markers' \subseteq issued'
    BY <1>2, <2>1, Marking DEF ReserveLeavesMarker
  <2> QED
    BY <1>2, <2>2 DEF ReserveLeavesMarker, clock
<1>3. CASE Evaluate
  BY <1>3 DEF Evaluate, Swept, clock
<1>4. CASE Photograph
  BY <1>4 DEF Photograph, clock, marks
<1>5. CASE Archive
  BY <1>5 DEF Archive, clock, marks
<1>6. CASE AttemptFails
  BY <1>6 DEF AttemptFails, Disregard, clock, marks
<1>7. CASE EndAttempt
  BY <1>7 DEF EndAttempt, Release, clock
<1>8. CASE Tick
  BY <1>8 DEF Tick, marks
<1>9. CASE Crash
  BY <1>9 DEF Crash, Disregard, marks
<1>10. CASE UNCHANGED gate
  BY <1>10 DEF gate
<1> QED
  BY <1>1, <1>2, <1>3, <1>4, <1>5, <1>6, <1>7, <1>8, <1>9, <1>10 DEF GateNext

LEMMA HandKept == GateTypeOK /\ HandInv /\ [GateNext]_gate => HandInv'
<1> SUFFICES ASSUME GateTypeOK, HandInv, [GateNext]_gate PROVE HandInv'
  OBVIOUS
<1>a. Attempts \subseteq Nat /\ rows \subseteq admitted /\ admitted \subseteq issued
      /\ issued \subseteq Attempts /\ phase \in Phase
  BY AdmissionAssumption DEF GateTypeOK
<1>1. ASSUME NEW n \in Attempts, Admit(n) PROVE HandInv'
  <2>1. PICK M \in Swept : WithinLimits(M) /\ Mark(n, M)
    BY <1>1 DEF Admit
  <2>2. /\ issued' = issued \cup {n}
        /\ n \notin issued /\ \A m \in issued : m < n
    BY <1>1, <2>1, Marking DEF Admit
  <2>3. held' = {n} /\ phase' = "admitted" /\ admitted' = admitted \cup {n}
        /\ rows' = rows
    BY <1>1 DEF Admit, HandInv
  <2>4. \A m \in issued' : m <= n
    BY <1>a, <2>2
  <2>5. held' \cap rows' = {}
    BY <1>a, <2>2, <2>3
  <2> QED
    BY <2>3, <2>4, <2>5 DEF HandInv
<1>2. ASSUME NEW n \in Attempts, ReserveLeavesMarker(n) PROVE HandInv'
  BY <1>2 DEF ReserveLeavesMarker, HandInv
<1>3. CASE Evaluate
  BY <1>3 DEF Evaluate, HandInv
<1>4. CASE Photograph
  BY <1>4 DEF Photograph, marks, HandInv
<1>5. CASE Archive
  BY <1>5 DEF Archive, marks, HandInv
<1>6. CASE AttemptFails
  BY <1>6 DEF AttemptFails, marks, HandInv
<1>7. CASE EndAttempt
  <2>1. phase # "idle" /\ phase' = "idle"
    BY <1>7 DEF EndAttempt, Release
  <2>2. held' = {}
    BY <1>7, <2>1 DEF EndAttempt, Release, HandInv
  <2> QED
    BY <2>1, <2>2 DEF HandInv
<1>8. CASE Tick
  BY <1>8 DEF Tick, marks, HandInv
<1>9. CASE Crash
  BY <1>9 DEF Crash, HandInv
<1>10. CASE UNCHANGED gate
  BY <1>10 DEF gate, HandInv
<1> QED
  BY <1>1, <1>2, <1>3, <1>4, <1>5, <1>6, <1>7, <1>8, <1>9, <1>10 DEF GateNext

LEMMA TimedKept ==
  GateTypeOK /\ HandInv /\ TimedInv /\ [GateNext]_gate => TimedInv'
<1> SUFFICES ASSUME GateTypeOK, HandInv, TimedInv, [GateNext]_gate PROVE TimedInv'
  OBVIOUS
<1>a. /\ rows \subseteq admitted /\ admitted \subseteq issued
      /\ issued \subseteq Attempts /\ held \subseteq Attempts /\ phase \in Phase
      /\ now \in Nat
      /\ reservedAt \in [Attempts -> Nat] /\ photographedAt \in [Attempts -> Nat]
  BY AdmissionAssumption DEF GateTypeOK
<1>1. ASSUME NEW n \in Attempts, Admit(n) PROVE TimedInv'
  <2>1. PICK M \in Swept : WithinLimits(M) /\ Mark(n, M)
    BY <1>1 DEF Admit
  <2>2. /\ n \notin issued /\ reservedAt'[n] = now
        /\ \A m \in Attempts \ {n} : reservedAt'[m] = reservedAt[m]
    BY <1>1, <2>1, Marking DEF Admit
  <2>3. /\ held' = {n} /\ phase' = "admitted" /\ rows' = rows
        /\ now' = now /\ photographedAt' = photographedAt
    BY <1>1 DEF Admit, HandInv, clock
  <2> QED
    BY <1>a, <2>2, <2>3 DEF TimedInv
<1>2. ASSUME NEW n \in Attempts, ReserveLeavesMarker(n) PROVE TimedInv'
  <2>1. PICK M \in Swept : WithinLimits(M) /\ Mark(n, M)
    BY <1>2 DEF ReserveLeavesMarker
  <2>2. /\ n \notin issued
        /\ \A m \in Attempts \ {n} : reservedAt'[m] = reservedAt[m]
    BY <1>2, <2>1, Marking DEF ReserveLeavesMarker
  <2>3. /\ held' = {} /\ phase' = "idle" /\ rows' = rows
        /\ photographedAt' = photographedAt
    BY <1>2 DEF ReserveLeavesMarker, HandInv
  <2> QED
    BY <1>a, <2>2, <2>3 DEF TimedInv
<1>3. CASE Evaluate
  BY <1>3 DEF Evaluate, clock, TimedInv
<1>4. CASE Photograph
  <2>1. PICK n \in held : photographedAt' = [photographedAt EXCEPT ![n] = now]
    BY <1>4 DEF Photograph
  <2>2. held = {n} /\ n \notin rows /\ reservedAt[n] <= now
    BY <1>4 DEF Photograph, HandInv, TimedInv
  <2>3. /\ phase' = "photographed" /\ rows' = rows /\ held' = held
        /\ reservedAt' = reservedAt
    BY <1>4 DEF Photograph, marks
  <2> QED
    BY <1>a, <2>1, <2>2, <2>3 DEF TimedInv
<1>5. CASE Archive
  BY <1>5 DEF Archive, marks, TimedInv
<1>6. CASE AttemptFails
  <2>1. \A n \in rows : n \in Attempts /\ n \notin held
    BY <1>a, <1>6 DEF AttemptFails, HandInv
  <2>2. \A n \in rows : photographedAt'[n] = photographedAt[n]
    BY <1>6, <2>1 DEF AttemptFails, Disregard
  <2> QED
    BY <1>6, <2>2 DEF AttemptFails, marks, TimedInv
<1>7. CASE EndAttempt
  BY <1>7 DEF EndAttempt, Release, TimedInv
<1>8. CASE Tick
  BY <1>a, <1>8 DEF Tick, marks, TimedInv
<1>9. CASE Crash
  <2>1. \A n \in rows : photographedAt'[n] = photographedAt[n]
    BY <1>a, <1>9 DEF Crash, Disregard
  <2> QED
    BY <1>9, <2>1 DEF Crash, marks, TimedInv
<1>10. CASE UNCHANGED gate
  BY <1>10 DEF gate, TimedInv
<1> QED
  BY <1>1, <1>2, <1>3, <1>4, <1>5, <1>6, <1>7, <1>8, <1>9, <1>10 DEF GateNext

LEMMA CountedKept ==
  GateTypeOK /\ HandInv /\ CountedInv /\ [GateNext]_gate => CountedInv'
<1> SUFFICES ASSUME GateTypeOK, HandInv, CountedInv, [GateNext]_gate
             PROVE  CountedInv'
  OBVIOUS
<1>a. /\ {StepBack, SweepAfter} \subseteq Nat
      /\ Attempts \subseteq Nat /\ admitted \subseteq issued
      /\ issued \subseteq Attempts /\ markers \subseteq Attempts
      /\ held \subseteq Attempts /\ now \in Nat /\ latest \in Nat /\ now <= latest
      /\ \A n \in Attempts : reservedAt[n] \in Nat
  BY AdmissionAssumption DEF GateTypeOK
\* What is swept is older than the horizon.
<1>b. ASSUME NEW M \in Swept, M \subseteq markers', rows' = rows, latest' = latest,
             NEW n \in admitted, reservedAt'[n] = reservedAt[n]
      PROVE  n \in markers' \cup rows' \/ reservedAt'[n] + SweepAfter < latest'
  BY <1>a, <1>b DEF CountedInv, Swept, Stale
<1>1. ASSUME NEW n \in Attempts, Admit(n) PROVE CountedInv'
  <2>1. PICK M \in Swept : WithinLimits(M) /\ Mark(n, M)
    BY <1>1 DEF Admit
  <2>2. /\ n \notin issued /\ markers' = M \cup {n}
        /\ \A m \in Attempts \ {n} : reservedAt'[m] = reservedAt[m]
    BY <1>1, <2>1, Marking DEF Admit
  <2>3. admitted' = admitted \cup {n} /\ rows' = rows /\ latest' = latest
    BY <1>1 DEF Admit, clock
  <2> QED
    BY <1>a, <1>b, <2>2, <2>3 DEF CountedInv
<1>2. ASSUME NEW n \in Attempts, ReserveLeavesMarker(n) PROVE CountedInv'
  <2>1. PICK M \in Swept : WithinLimits(M) /\ Mark(n, M)
    BY <1>2 DEF ReserveLeavesMarker
  <2>2. /\ n \notin issued /\ markers' = M \cup {n}
        /\ \A m \in Attempts \ {n} : reservedAt'[m] = reservedAt[m]
    BY <1>2, <2>1, Marking DEF ReserveLeavesMarker
  <2>3. admitted' = admitted /\ rows' = rows /\ latest' = latest
    BY <1>2 DEF ReserveLeavesMarker, clock
  <2> QED
    BY <1>a, <1>b, <2>2, <2>3 DEF CountedInv
<1>3. CASE Evaluate
  <2>1. /\ markers' \in Swept /\ rows' = rows /\ latest' = latest
        /\ admitted' = admitted /\ reservedAt' = reservedAt
    BY <1>3 DEF Evaluate, clock
  <2> QED
    BY <1>b, <2>1 DEF CountedInv
<1>4. CASE Photograph
  BY <1>4 DEF Photograph, clock, marks, CountedInv
<1>5. CASE Archive
  BY <1>5 DEF Archive, clock, marks, CountedInv
<1>6. CASE AttemptFails
  BY <1>6 DEF AttemptFails, clock, marks, CountedInv
<1>7. CASE EndAttempt
  \* A marker goes only when its row is there.
  <2>1. markers \ rows \subseteq markers'
    BY <1>7 DEF EndAttempt, Release, HandInv
  <2>2. /\ rows' = rows /\ latest' = latest
        /\ admitted' = admitted /\ reservedAt' = reservedAt
    BY <1>7 DEF EndAttempt, Release, clock
  <2> QED
    BY <2>1, <2>2 DEF CountedInv
<1>8. CASE Tick
  BY <1>a, <1>8 DEF Tick, marks, CountedInv
<1>9. CASE Crash
  BY <1>9 DEF Crash, marks, CountedInv
<1>10. CASE UNCHANGED gate
  BY <1>10 DEF gate, CountedInv
<1> QED
  BY <1>1, <1>2, <1>3, <1>4, <1>5, <1>6, <1>7, <1>8, <1>9, <1>10 DEF GateNext

\* The past is not rewritten: an admitted attempt keeps its reservation, a row
\* its timestamp; only Admit admits, and only Archive adds a row.
LEMMA HistoryStands ==
  ASSUME GateTypeOK, HandInv, [GateNext]_gate
  PROVE  /\ \A n \in admitted : reservedAt'[n] = reservedAt[n]
         /\ \A n \in rows : photographedAt'[n] = photographedAt[n]
         /\ admitted' = admitted \/ \E n \in Attempts : Admit(n)
         /\ rows' = rows \/ Archive
<1>a. /\ admitted \subseteq issued /\ rows \subseteq Attempts
      /\ issued \subseteq Attempts
      /\ reservedAt \in [Attempts -> Nat] /\ photographedAt \in [Attempts -> Nat]
  BY DEF GateTypeOK
<1>1. ASSUME NEW n \in Attempts, Admit(n) \/ ReserveLeavesMarker(n)
      PROVE  /\ \A m \in admitted : reservedAt'[m] = reservedAt[m]
             /\ photographedAt' = photographedAt /\ rows' = rows
             /\ admitted' = admitted \/ Admit(n)
  <2>1. /\ NextAttempt(n)
        /\ \E M \in Swept : WithinLimits(M) /\ Mark(n, M)
    BY <1>1 DEF Admit, ReserveLeavesMarker
  <2>2. n \notin issued /\ \A m \in Attempts \ {n} : reservedAt'[m] = reservedAt[m]
    BY <2>1, Marking
  <2> QED
    BY <1>a, <1>1, <2>2 DEF Admit, ReserveLeavesMarker
<1>2. CASE Evaluate \/ EndAttempt \/ Tick \/ UNCHANGED gate
  BY <1>2 DEF Evaluate, EndAttempt, Release, Tick, marks, gate
<1>3. CASE Photograph
  <2>1. PICK n \in held : photographedAt' = [photographedAt EXCEPT ![n] = now]
    BY <1>3 DEF Photograph
  <2>2. n \notin rows
    BY <1>3 DEF Photograph, HandInv
  <2> QED
    BY <1>a, <1>3, <2>1, <2>2 DEF Photograph, marks
<1>4. CASE Archive
  BY <1>4 DEF Archive, marks
<1>5. CASE AttemptFails
  BY <1>a, <1>5 DEF AttemptFails, HandInv, Disregard, marks
<1>6. CASE Crash
  BY <1>a, <1>6 DEF Crash, Disregard, marks
<1> QED
  BY <1>1, <1>2, <1>3, <1>4, <1>5, <1>6 DEF GateNext

\* What an admission looks at and does.
LEMMA Admitting ==
  ASSUME GateTypeOK, HandInv, TimedInv, CountedInv,
         NEW n \in Attempts, Admit(n)
  PROVE  /\ n \notin admitted /\ n \notin rows /\ \A m \in admitted : m < n
         /\ admitted' = admitted \cup {n} /\ held' = {n} /\ rows' = rows
         /\ photographedAt' = photographedAt
         /\ phase' = "admitted"
         /\ reservedAt'[n] = now
         /\ \A m \in admitted : reservedAt'[m] = reservedAt[m]
         /\ \E M \in Swept : WithinLimits(M) /\ markers \ Stale \subseteq M
<1>1. PICK M \in Swept : WithinLimits(M) /\ Mark(n, M)
  BY DEF Admit
<1>2. /\ n \notin issued /\ \A m \in issued : m < n
      /\ reservedAt'[n] = now
      /\ \A m \in Attempts \ {n} : reservedAt'[m] = reservedAt[m]
      /\ markers \ Stale \subseteq M
  BY <1>1, Marking DEF Admit
<1>3. rows \subseteq admitted /\ admitted \subseteq issued /\ issued \subseteq Attempts
  BY DEF GateTypeOK
<1>4. /\ admitted' = admitted \cup {n} /\ held' = {n} /\ rows' = rows
      /\ photographedAt' = photographedAt
      /\ phase' = "admitted"
  BY DEF Admit, HandInv
<1> QED
  BY <1>1, <1>2, <1>3, <1>4

\* A cooldown runs from every reservation that is not forgotten, and from every
\* photograph that has its row.
Apart(m, n) == /\ \/ reservedAt[n] >= reservedAt[m] + Cooldown
                  \/ Forgotten(m, reservedAt[n])
               /\ m \in rows => reservedAt[n] >= photographedAt[m] + Cooldown

LEMMA CooldownStands ==
  /\ GateTypeOK /\ HandInv /\ TimedInv /\ CountedInv /\ CooldownKept
  /\ [GateNext]_gate
  => CooldownKept'
<1> SUFFICES ASSUME GateTypeOK, HandInv, TimedInv, CountedInv, CooldownKept,
                    [GateNext]_gate, Cooldown > 0,
                    NEW m \in admitted', NEW n \in admitted', m < n
             PROVE  Apart(m, n)'
  BY DEF CooldownKept, Apart
<1>a. /\ {Cooldown, StepBack, SweepAfter} \subseteq Nat
      /\ Attempts \subseteq Nat /\ admitted \subseteq Attempts
      /\ rows \subseteq admitted /\ held \subseteq admitted
      /\ now \in Nat /\ latest \in Nat /\ latest <= now + StepBack
      /\ \A a \in Attempts : reservedAt[a] \in Nat /\ photographedAt[a] \in Nat
  BY AdmissionAssumption DEF GateTypeOK
<1>b. /\ \A a \in admitted : reservedAt'[a] = reservedAt[a]
      /\ \A a \in rows : photographedAt'[a] = photographedAt[a]
      /\ admitted' = admitted \/ \E a \in Attempts : Admit(a)
      /\ rows' = rows \/ Archive
  BY HistoryStands
\* Two attempts that are both admitted, unless the earlier gets its row now.
<1>c. ASSUME m \in admitted, n \in admitted, m \in rows' <=> m \in rows
      PROVE  Apart(m, n)'
  <2>1. Apart(m, n)
    BY <1>c DEF CooldownKept, Apart
  <2> QED
    BY <1>a, <1>b, <1>c, <2>1 DEF Apart, Forgotten
<1>1. ASSUME NEW k \in Attempts, Admit(k)
      PROVE  Apart(m, n)'
  <2>1. /\ k \notin admitted /\ \A a \in admitted : a < k
        /\ admitted' = admitted \cup {k} /\ rows' = rows
        /\ reservedAt'[k] = now
    BY <1>1, Admitting
  <2>2. PICK M \in Swept : WithinLimits(M) /\ markers \ Stale \subseteq M
    BY <1>1, Admitting
  <2>3. /\ \A a \in rows : photographedAt[a] + Cooldown <= now
        /\ \A a \in M : reservedAt[a] + Cooldown <= now
    <3>1. M \subseteq Attempts
      BY DEF Swept, GateTypeOK
    <3> QED
      BY <1>a, <2>2, <3>1 DEF WithinLimits, Cooling, RowCools, MarkerCools
  <2>4. m \in admitted
    BY <1>1, <1>a, <2>1
  <2>5. reservedAt[m] + Cooldown <= now \/ Forgotten(m, now)
    <3>1. CASE m \in rows
      BY <1>a, <2>3, <3>1 DEF TimedInv
    <3>2. CASE m \in M
      BY <2>3, <3>2
    <3>3. CASE m \notin rows /\ m \notin M
      <4>1. m \in Stale \/ reservedAt[m] + SweepAfter < latest
        BY <2>2, <2>4, <3>3 DEF CountedInv
      <4>2. reservedAt[m] + SweepAfter < now + StepBack
        BY <1>a, <2>4, <4>1 DEF Stale
      <4> QED
        BY <3>3, <4>2 DEF Forgotten
    <3> QED
      BY <3>1, <3>2, <3>3
  <2>6. CASE n = k
    BY <1>a, <1>b, <2>1, <2>3, <2>4, <2>5, <2>6 DEF Apart, Forgotten
  <2>7. CASE n \in admitted
    BY <1>c, <2>1, <2>4, <2>7
  <2> QED
    BY <2>1, <2>6, <2>7
<1>2. CASE Archive
  <2>1. admitted' = admitted /\ rows' = rows \cup held
    BY <1>2 DEF Archive, marks
  \* What is archived now is the newest attempt.
  <2>2. m \notin held
    BY <1>2, <1>a, <2>1 DEF Archive, HandInv, GateTypeOK
  <2> QED
    BY <1>c, <2>1, <2>2
<1>3. CASE admitted' = admitted /\ rows' = rows
  BY <1>c, <1>3
<1>4. admitted' = admitted \/ ~Archive
  BY DEF Archive, marks
<1> QED
  BY <1>1, <1>2, <1>3, <1>b

\* The instants from which the windows that end now are counted.
LEMMA Cutoffs ==
  ASSUME GateTypeOK
  PROVE  /\ HourAgo \in Nat /\ now <= HourAgo + Day
         /\ StartOfDay \in Nat /\ now <= StartOfDay + Day
         /\ \A i \in Nat : i + Hour >= now => i >= HourAgo
<1>1. now \in Nat
  BY AdmissionAssumption DEF GateTypeOK
<1>2. StartOfDay \in Nat /\ now <= StartOfDay + Day
  BY <1>1, DayBegins, AdmissionAssumption DEF StartOfDay
<1>3. HourAgo \in Nat /\ now <= HourAgo + Day
  BY <1>1, AdmissionAssumption DEF HourAgo
<1>4. \A i \in Nat : i + Hour >= now => i >= HourAgo
  BY <1>1, AdmissionAssumption DEF HourAgo
<1> QED
  BY <1>2, <1>3, <1>4

\* An admission finds room in the hour and in the day, among the attempts and
\* among the photographs.
LEMMA RoomToAdmit ==
  ASSUME GateTypeOK, HandInv, TimedInv, CountedInv,
         NEW n \in Attempts, Admit(n)
  PROVE  /\ Cardinality(Since(admitted, reservedAt, HourAgo)) < HourlyLimit
         /\ Cardinality(Since(rows, photographedAt, HourAgo)) < HourlyLimit
         /\ Cardinality(Since(admitted, reservedAt, StartOfDay)) < DailyLimit
         /\ Cardinality(Since(rows, photographedAt, StartOfDay)) < DailyLimit
         /\ IsFiniteSet(Since(admitted, reservedAt, HourAgo))
         /\ IsFiniteSet(Since(rows, photographedAt, HourAgo))
         /\ IsFiniteSet(Since(admitted, reservedAt, StartOfDay))
         /\ IsFiniteSet(Since(rows, photographedAt, StartOfDay))
<1>1. PICK M \in Swept : WithinLimits(M)
  BY Admitting
<1>2. CountedSince(M, HourAgo) < HourlyLimit /\ CountedSince(M, StartOfDay) < DailyLimit
  BY <1>1 DEF WithinLimits
<1>3. HourlyLimit \in Nat /\ DailyLimit \in Nat
  BY AdmissionAssumption
<1>4. /\ Cardinality(Since(admitted, reservedAt, HourAgo)) < HourlyLimit
      /\ Cardinality(Since(rows, photographedAt, HourAgo)) < HourlyLimit
      /\ IsFiniteSet(Since(admitted, reservedAt, HourAgo))
      /\ IsFiniteSet(Since(rows, photographedAt, HourAgo))
  <2>1. HourAgo \in Nat /\ now <= HourAgo + Day
    BY Cutoffs
  <2> HIDE DEF HourAgo
  <2> QED
    BY <1>2, <1>3, <2>1, AttemptsCounted
<1>5. /\ Cardinality(Since(admitted, reservedAt, StartOfDay)) < DailyLimit
      /\ Cardinality(Since(rows, photographedAt, StartOfDay)) < DailyLimit
      /\ IsFiniteSet(Since(admitted, reservedAt, StartOfDay))
      /\ IsFiniteSet(Since(rows, photographedAt, StartOfDay))
  <2>1. StartOfDay \in Nat /\ now <= StartOfDay + Day
    BY Cutoffs
  <2> HIDE DEF StartOfDay
  <2> QED
    BY <1>2, <1>3, <2>1, AttemptsCounted
<1> QED
  BY <1>4, <1>5

LEMMA RoomKept ==
  /\ GateTypeOK /\ HandInv /\ TimedInv /\ CountedInv /\ RoomInv
  /\ [GateNext]_gate
  => RoomInv'
<1> SUFFICES ASSUME GateTypeOK, HandInv, TimedInv, CountedInv, RoomInv,
                    [GateNext]_gate,
                    phase' \in {"admitted", "photographed"}
             PROVE  \A n \in held' :
                      /\ Cardinality({m \in rows' : reservedAt'[n] <= photographedAt'[m] + Hour})
                           < HourlyLimit
                      /\ Cardinality(Since(rows', photographedAt',
                                           reservedAt'[n] - (reservedAt'[n] % Day)))
                           < DailyLimit
  BY DEF RoomInv, Since
<1>a. /\ {Hour, Day, HourlyLimit} \subseteq Nat
      /\ now \in Nat /\ rows \subseteq Attempts /\ held \subseteq admitted
      /\ \A m \in Attempts : photographedAt[m] \in Nat
  BY AdmissionAssumption DEF GateTypeOK
<1>1. ASSUME NEW k \in Attempts, Admit(k)
      PROVE  \A n \in held' :
               /\ Cardinality({m \in rows' : reservedAt'[n] <= photographedAt'[m] + Hour})
                    < HourlyLimit
               /\ Cardinality(Since(rows', photographedAt',
                                    reservedAt'[n] - (reservedAt'[n] % Day)))
                    < DailyLimit
  <2>1. /\ held' = {k} /\ reservedAt'[k] = now
        /\ rows' = rows /\ photographedAt' = photographedAt
    BY <1>1, Admitting
  <2>2. /\ Cardinality(Since(rows, photographedAt, HourAgo)) < HourlyLimit
        /\ Cardinality(Since(rows, photographedAt, StartOfDay)) < DailyLimit
        /\ IsFiniteSet(Since(rows, photographedAt, HourAgo))
    BY <1>1, RoomToAdmit
  <2> DEFINE near == {m \in rows : now <= photographedAt[m] + Hour}
  <2>3. near \subseteq Since(rows, photographedAt, HourAgo)
    BY <1>a, Cutoffs DEF Since
  <2>4. Cardinality(near) < HourlyLimit
    <3> HIDE DEF near
    <3>1. /\ Cardinality(near) <= Cardinality(Since(rows, photographedAt, HourAgo))
          /\ Cardinality(near) \in Nat
          /\ Cardinality(Since(rows, photographedAt, HourAgo)) \in Nat
      BY <2>2, <2>3, CountsNoMore
    <3> QED
      BY <1>a, <2>2, <3>1
  <2> QED
    BY <2>1, <2>2, <2>4 DEF StartOfDay
<1>2. CASE ~\E k \in Attempts : Admit(k)
  <2>1. /\ phase \in {"admitted", "photographed"}
        /\ held' = held /\ rows' = rows
    BY <1>2 DEF GateNext, ReserveLeavesMarker, Evaluate, Photograph, Archive,
                AttemptFails, EndAttempt, Release, Tick, Crash, gate
  <2>2. /\ \A n \in held : reservedAt'[n] = reservedAt[n]
        /\ \A m \in rows : photographedAt'[m] = photographedAt[m]
    BY <1>a, HistoryStands
  <2>3. ASSUME NEW n \in held
        PROVE  /\ {m \in rows' : reservedAt'[n] <= photographedAt'[m] + Hour}
                    = {m \in rows : reservedAt[n] <= photographedAt[m] + Hour}
               /\ Since(rows', photographedAt', reservedAt'[n] - (reservedAt'[n] % Day))
                    = Since(rows, photographedAt, reservedAt[n] - (reservedAt[n] % Day))
    BY <2>1, <2>2 DEF Since
  <2> QED
    BY <2>1, <2>3 DEF RoomInv
<1> QED
  BY <1>1, <1>2

LEMMA HourKept ==
  /\ GateTypeOK /\ HandInv /\ TimedInv /\ CountedInv /\ RoomInv /\ HourInv
  /\ [GateNext]_gate
  => HourInv'
<1> SUFFICES ASSUME GateTypeOK, HandInv, TimedInv, CountedInv, RoomInv, HourInv,
                    [GateNext]_gate, NEW t \in Nat
             PROVE  /\ Cardinality(Within(admitted', reservedAt', t)) <= HourlyLimit
                    /\ Cardinality(Within(rows', photographedAt', t)) <= HourlyLimit
  BY DEF HourInv, Within
<1>a. /\ {Hour, HourlyLimit} \subseteq Nat /\ IsFiniteSet(Attempts)
      /\ now \in Nat /\ rows \subseteq Attempts /\ held \subseteq Attempts
      /\ admitted \subseteq Attempts
      /\ \A m \in Attempts : reservedAt[m] \in Nat /\ photographedAt[m] \in Nat
  BY AdmissionAssumption DEF GateTypeOK
<1>b. /\ \A n \in admitted : reservedAt'[n] = reservedAt[n]
      /\ \A n \in rows : photographedAt'[n] = photographedAt[n]
      /\ admitted' = admitted \/ \E n \in Attempts : Admit(n)
      /\ rows' = rows \/ Archive
  BY HistoryStands
<1>1. Cardinality(Within(admitted', reservedAt', t)) <= HourlyLimit
  <2>1. CASE admitted' = admitted
    <3>1. Within(admitted', reservedAt', t) = Within(admitted, reservedAt, t)
      BY <1>b, <2>1 DEF Within
    <3> QED
      BY <3>1 DEF HourInv
  <2>2. ASSUME NEW k \in Attempts, Admit(k)
        PROVE  Cardinality(Within(admitted', reservedAt', t)) <= HourlyLimit
    <3>1. admitted' = admitted \cup {k} /\ reservedAt'[k] = now
      BY <2>2, Admitting
    <3>2. CASE now \in t..(t + Hour)
      <4>1. Within(admitted', reservedAt', t)
              \subseteq Since(admitted, reservedAt, HourAgo) \cup {k}
        BY <1>a, <1>b, <3>1, <3>2, Cutoffs DEF Within, Since
      <4>2. /\ Cardinality(Since(admitted, reservedAt, HourAgo)) < HourlyLimit
            /\ IsFiniteSet(Since(admitted, reservedAt, HourAgo))
        BY <2>2, RoomToAdmit
      <4> QED
        BY <1>a, <4>1, <4>2, OneMore
    <3>3. CASE now \notin t..(t + Hour)
      <4>1. Within(admitted', reservedAt', t) = Within(admitted, reservedAt, t)
        BY <1>b, <3>1, <3>3 DEF Within
      <4> QED
        BY <4>1 DEF HourInv
    <3> QED
      BY <3>2, <3>3
  <2> QED
    BY <1>b, <2>1, <2>2
<1>2. Cardinality(Within(rows', photographedAt', t)) <= HourlyLimit
  <2>1. CASE rows' = rows
    <3>1. Within(rows', photographedAt', t) = Within(rows, photographedAt, t)
      BY <1>b, <2>1 DEF Within
    <3> QED
      BY <3>1 DEF HourInv
  <2>2. CASE Archive
    <3>1. PICK h \in Attempts : held = {h}
      BY <1>a, <2>2 DEF Archive, HandInv
    <3>2. /\ phase = "photographed" /\ rows' = rows \cup {h}
          /\ photographedAt' = photographedAt /\ reservedAt[h] <= photographedAt[h]
      BY <2>2, <3>1 DEF Archive, TimedInv
    <3> DEFINE near == {m \in rows : reservedAt[h] <= photographedAt[m] + Hour}
    <3>3. Cardinality(near) < HourlyLimit /\ IsFiniteSet(near)
      <4>1. near \in SUBSET Attempts
        BY <1>a
      <4>2. IsFiniteSet(near)
        BY <1>a, <4>1, FS_Subset
      <4> QED
        BY <3>1, <3>2, <4>2 DEF RoomInv
    <3>4. CASE photographedAt[h] \in t..(t + Hour)
      <4>1. Within(rows', photographedAt', t) \subseteq near \cup {h}
        BY <1>a, <3>2, <3>4 DEF Within
      <4> HIDE DEF near
      <4> QED
        BY <1>a, <3>3, <4>1, OneMore
    <3>5. CASE photographedAt[h] \notin t..(t + Hour)
      <4>1. Within(rows', photographedAt', t) = Within(rows, photographedAt, t)
        BY <3>2, <3>5 DEF Within
      <4> QED
        BY <4>1 DEF HourInv
    <3> QED
      BY <3>4, <3>5
  <2> QED
    BY <1>b, <2>1, <2>2
<1> QED
  BY <1>1, <1>2

LEMMA DayKept ==
  /\ GateTypeOK /\ HandInv /\ TimedInv /\ CountedInv /\ RoomInv /\ DayInv
  /\ [GateNext]_gate
  => DayInv'
<1> SUFFICES ASSUME GateTypeOK, HandInv, TimedInv, CountedInv, RoomInv, DayInv,
                    [GateNext]_gate, NEW d \in Nat
             PROVE  /\ Cardinality(OnDay(admitted', reservedAt', d)) <= DailyLimit
                    /\ Cardinality(OnDay(rows', photographedAt', d)) <= DailyLimit
  BY DEF DayInv, OnDay
<1>a. /\ DailyLimit \in Nat /\ IsFiniteSet(Attempts)
      /\ now \in Nat /\ rows \subseteq Attempts /\ held \subseteq Attempts
      /\ admitted \subseteq Attempts
      /\ \A m \in Attempts : reservedAt[m] \in Nat /\ photographedAt[m] \in Nat
  BY AdmissionAssumption DEF GateTypeOK
<1>b. /\ \A n \in admitted : reservedAt'[n] = reservedAt[n]
      /\ \A n \in rows : photographedAt'[n] = photographedAt[n]
      /\ admitted' = admitted \/ \E n \in Attempts : Admit(n)
      /\ rows' = rows \/ Archive
  BY HistoryStands
<1>1. Cardinality(OnDay(admitted', reservedAt', d)) <= DailyLimit
  <2>1. CASE admitted' = admitted
    <3>1. OnDay(admitted', reservedAt', d) = OnDay(admitted, reservedAt, d)
      BY <1>b, <2>1 DEF OnDay
    <3> QED
      BY <3>1 DEF DayInv
  <2>2. ASSUME NEW k \in Attempts, Admit(k)
        PROVE  Cardinality(OnDay(admitted', reservedAt', d)) <= DailyLimit
    <3>1. admitted' = admitted \cup {k} /\ reservedAt'[k] = now
      BY <2>2, Admitting
    <3>2. CASE now \div Day = d
      <4>1. \A m \in admitted : reservedAt[m] \div Day = d => reservedAt[m] >= StartOfDay
        BY <1>a, <3>2, DayBegins DEF StartOfDay
      <4>2. OnDay(admitted', reservedAt', d)
              \subseteq Since(admitted, reservedAt, StartOfDay) \cup {k}
        BY <1>b, <3>1, <4>1 DEF OnDay, Since
      <4>3. /\ Cardinality(Since(admitted, reservedAt, StartOfDay)) < DailyLimit
            /\ IsFiniteSet(Since(admitted, reservedAt, StartOfDay))
        BY <2>2, RoomToAdmit
      <4> QED
        BY <1>a, <4>2, <4>3, OneMore
    <3>3. CASE now \div Day # d
      <4>1. OnDay(admitted', reservedAt', d) = OnDay(admitted, reservedAt, d)
        BY <1>b, <3>1, <3>3 DEF OnDay
      <4> QED
        BY <4>1 DEF DayInv
    <3> QED
      BY <3>2, <3>3
  <2> QED
    BY <1>b, <2>1, <2>2
<1>2. Cardinality(OnDay(rows', photographedAt', d)) <= DailyLimit
  <2>1. CASE rows' = rows
    <3>1. OnDay(rows', photographedAt', d) = OnDay(rows, photographedAt, d)
      BY <1>b, <2>1 DEF OnDay
    <3> QED
      BY <3>1 DEF DayInv
  <2>2. CASE Archive
    <3>1. PICK h \in Attempts : held = {h}
      BY <1>a, <2>2 DEF Archive, HandInv
    <3>2. /\ phase = "photographed" /\ rows' = rows \cup {h}
          /\ photographedAt' = photographedAt /\ reservedAt[h] <= photographedAt[h]
      BY <2>2, <3>1 DEF Archive, TimedInv
    <3> DEFINE dawn == reservedAt[h] - (reservedAt[h] % Day)
               near == Since(rows, photographedAt, dawn)
    <3>3. Cardinality(near) < DailyLimit /\ IsFiniteSet(near)
      <4>1. near \in SUBSET Attempts
        BY <1>a DEF Since
      <4>2. IsFiniteSet(near)
        BY <1>a, <4>1, FS_Subset
      <4> QED
        BY <3>1, <3>2, <4>2 DEF RoomInv
    <3>4. CASE photographedAt[h] \div Day = d
      <4>1. ASSUME NEW m \in rows, photographedAt[m] \div Day = d
            PROVE  photographedAt[m] >= dawn
        BY <1>a, <3>2, <3>4, <4>1, LaterDay
      <4>2. OnDay(rows', photographedAt', d) \subseteq near \cup {h}
        BY <3>2, <4>1 DEF OnDay, Since
      <4> HIDE DEF near
      <4> QED
        BY <1>a, <3>3, <4>2, OneMore
    <3>5. CASE photographedAt[h] \div Day # d
      <4>1. OnDay(rows', photographedAt', d) = OnDay(rows, photographedAt, d)
        BY <3>2, <3>5 DEF OnDay
      <4> QED
        BY <4>1 DEF DayInv
    <3> QED
      BY <3>4, <3>5
  <2> QED
    BY <1>b, <2>1, <2>2
<1> QED
  BY <1>1, <1>2
-----------------------------------------------------------------------------
(* The gate. *)

LEMMA GateStarts == GateInit => GateInv
<1> SUFFICES ASSUME GateInit PROVE GateInv
  OBVIOUS
<1>1. GateTypeOK
  BY AdmissionAssumption DEF GateInit, GateTypeOK, Phase
<1>2. HandInv /\ TimedInv /\ CountedInv /\ RoomInv /\ CooldownKept
  BY DEF GateInit, HandInv, TimedInv, CountedInv, RoomInv, CooldownKept
<1>3. HourInv /\ DayInv
  <2>1. Cardinality({}) = 0
    BY FS_EmptySet
  <2>2. /\ \A t : Within(admitted, reservedAt, t) = {} /\ Within(rows, photographedAt, t) = {}
        /\ \A d : OnDay(admitted, reservedAt, d) = {} /\ OnDay(rows, photographedAt, d) = {}
    BY DEF GateInit, Within, OnDay
  <2> QED
    BY <2>1, <2>2, AdmissionAssumption DEF HourInv, DayInv
<1> QED
  BY <1>1, <1>2, <1>3 DEF GateInv

LEMMA GateKept == GateInv /\ [GateNext]_gate => GateInv'
BY TypeKept, HandKept, TimedKept, CountedKept, CooldownStands, RoomKept,
   HourKept, DayKept
   DEF GateInv

LEMMA GateHolds == GateSpec => []GateInv
<1> QED
  BY GateStarts, GateKept, PTL DEF GateSpec

\* The quotas, up to the bound that TLC checks.
LEMMA GateKeepsQuotas == GateInv => HourlyQuota /\ DailyQuota
<1> SUFFICES ASSUME GateInv PROVE HourlyQuota /\ DailyQuota
  OBVIOUS
<1>1. 0..LastInstant \subseteq Nat /\ 0..(LastInstant \div Day) \subseteq Nat
  OBVIOUS
<1>2. HourlyQuota
  BY <1>1 DEF GateInv, HourInv, HourlyQuota, Within
<1>3. DailyQuota
  BY <1>1 DEF GateInv, DayInv, DailyQuota, OnDay
<1> QED
  BY <1>2, <1>3

\* The sweep horizon leaves room for the longest window and a clock that lags.
LEMMA GateCountsAll == GateInv => NothingUncounted
BY AdmissionAssumption DEF GateInv, GateTypeOK, CountedInv, NothingUncounted

HIDE DEF ValidLimits

(*************************************************************************)
(* The service.                                                          *)
(*************************************************************************)

\* The slot holds one trigger or the sentinel, never the sentinel while work
\* is accepted, and always the sentinel for a worker that outlives the closing.
QueueInv ==
  /\ queue \in {<<>>, <<"trigger">>, <<"stop">>}
  /\ accepting => queue # <<"stop">> /\ worker # "none"
  /\ worker = "none" => queue = <<>>
  /\ ~accepting /\ worker \notin {"none", "ended"} => queue = <<"stop">>

\* The worker ends an attempt as the workflow ended it.
WorkerInv ==
  /\ worker \in Worker
  /\ worker = "releasing" => phase = "catalogued"
  /\ worker = "failing" => phase = "failed"

\* The flag that closes the queue is a flag.
SwitchInv == accepting \in BOOLEAN

\* The counters count.
CounterInv ==
  /\ received \in Nat /\ dropped \in Nat /\ discarded \in Nat
  /\ globalChanges \in Nat /\ suppressed \in Nat /\ oversized \in Nat
  /\ succeeded \in Nat /\ failed \in Nat

ServiceInv == /\ QueueInv
              /\ WorkerInv
              /\ SwitchInv
              /\ CounterInv
              /\ EveryTriggerIsAccounted
-----------------------------------------------------------------------------
\* A step of the service is a step of the gate, or leaves the gate alone.
LEMMA StepOfGate == WorkerInv /\ [Next]_vars => [GateNext]_gate
<1> SUFFICES ASSUME WorkerInv, [Next]_vars PROVE [GateNext]_gate
  OBVIOUS
<1>1. CASE Start
  BY <1>1 DEF Start, GateNext
<1>2. CASE Submit \/ SubmitGlobalChange \/ Shutdown \/ Exit
  BY <1>2 DEF Submit, SubmitGlobalChange, Shutdown, Exit
<1>3. CASE Take \/ SuppressionReported
  BY <1>3 DEF Take, SuppressionReported
<1>4. CASE Admitted \/ Suppressed
  BY <1>4 DEF Admitted, Suppressed, GateNext
<1>5. CASE Photographed \/ Archived \/ CaptureFails
  BY <1>5 DEF Photographed, Archived, CaptureFails, GateNext
<1>6. CASE FailureReported \/ Succeeded
  BY <1>6 DEF FailureReported, Succeeded, WorkerInv, EndAttempt, GateNext
<1>7. CASE Reported
  BY <1>7 DEF Reported, GateNext
<1>8. CASE ClockTicks \/ ProcessDies
  BY <1>8 DEF ClockTicks, ProcessDies, GateNext
<1>9. CASE UNCHANGED vars
  BY <1>9 DEF vars, gate
<1> QED
  BY <1>1, <1>2, <1>3, <1>4, <1>5, <1>6, <1>7, <1>8, <1>9 DEF Next, WorkerStep

\* The sequences that the one-slot queue goes through.
LEMMA Slot ==
  /\ Len(<<>>) = 0 /\ Len(<<"trigger">>) = 1 /\ Len(<<"stop">>) = 1
  /\ Append(<<>>, "trigger") = <<"trigger">>
  /\ Head(<<"trigger">>) = "trigger" /\ Head(<<"stop">>) = "stop"
  /\ Tail(<<"trigger">>) = <<>> /\ Tail(<<"stop">>) = <<>>
  /\ <<>> # <<"trigger">> /\ <<>> # <<"stop">> /\ <<"trigger">> # <<"stop">>
  /\ {<<>>, <<"trigger">>, <<"stop">>} \subseteq Seq({"trigger", "stop"})
OBVIOUS

\* A trigger is queued in the empty slot, or dropped.
LEMMA Submitting ==
  ASSUME QueueInv, Submit
  PROVE  /\ \/ queue' = queue /\ dropped' = dropped + 1
            \/ queue = <<>> /\ queue' = <<"trigger">> /\ dropped' = dropped
         /\ accepting /\ received' = received + 1
         /\ UNCHANGED <<accepting, worker, discarded, globalChanges, suppressed,
                       oversized, succeeded, failed>>
<1>1. CASE Len(queue) < QueueCapacity /\ queue' = Append(queue, "trigger")
           /\ UNCHANGED dropped
  <2>1. queue = <<>>
    BY <1>1, Slot DEF QueueInv, QueueCapacity
  <2>2. queue' = <<"trigger">>
    BY <1>1, <2>1, Slot
  <2> QED
    BY <1>1, <2>1, <2>2 DEF Submit
<1>2. CASE dropped' = dropped + 1 /\ UNCHANGED queue
  BY <1>2 DEF Submit
<1> QED
  BY <1>1, <1>2 DEF Submit

\* What the slot and the worker's hands contribute to the account.
LEMMA Contributions ==
  /\ queue = <<"trigger">> => Queued = 1 /\ Len(queue) = 1
  /\ queue = <<>> => Queued = 0 /\ Len(queue) = 0
  /\ queue = <<"stop">> => Queued = 0
  /\ worker \in {"admitting", "capturing", "archiving", "releasing"} => InHand = 1
  /\ worker \in {"none", "waiting", "failing", "reporting", "suppressing", "ended"}
       => InHand = 0
BY Slot DEF Queued, InHand

LEMMA ServiceStarts == Init => ServiceInv
<1> SUFFICES ASSUME Init PROVE ServiceInv
  OBVIOUS
<1>1. Queued = 0 /\ InHand = 0
  BY Contributions DEF Init
<1>2. EveryTriggerIsAccounted
  BY <1>1 DEF Init, EveryTriggerIsAccounted, Refusals
<1>3. QueueInv
  BY Slot DEF Init, QueueInv
<1>4. WorkerInv /\ SwitchInv /\ CounterInv
  BY DEF Init, WorkerInv, Worker, SwitchInv, CounterInv
<1> QED
  BY <1>2, <1>3, <1>4 DEF ServiceInv

LEMMA QueueKept == QueueInv /\ [Next]_vars => QueueInv'
<1> SUFFICES ASSUME QueueInv, [Next]_vars PROVE QueueInv'
  OBVIOUS
<1> USE Slot DEF QueueInv
<1>1. CASE Start
  BY <1>1 DEF Start
<1>2. CASE Submit
  BY <1>2, Submitting
<1>3. CASE SubmitGlobalChange \/ Shutdown
  BY <1>3 DEF SubmitGlobalChange, Shutdown
<1>4. CASE Exit \/ ProcessDies
  BY <1>4 DEF Exit, ProcessDies, Fresh
<1>5. CASE Take
  <2>1. \/ queue = <<"trigger">> /\ queue' = <<>> /\ worker' = "admitting"
        \/ queue = <<"stop">> /\ queue' = <<>> /\ worker' = "ended"
    BY <1>5 DEF Take
  <2> QED
    BY <1>5, <2>1 DEF Take
<1>6. CASE /\ queue' = queue /\ accepting' = accepting
           /\ worker \notin {"none", "ended"} /\ worker' \notin {"none", "ended"}
  BY <1>6
<1>7. CASE ClockTicks \/ UNCHANGED vars
  BY <1>7 DEF ClockTicks, vars
<1> QED
  BY <1>1, <1>2, <1>3, <1>4, <1>5, <1>6, <1>7
     DEF Next, WorkerStep, Admitted, Suppressed, SuppressionReported,
         Photographed, Archived, CaptureFails, FailureReported, Succeeded, Reported

LEMMA WorkerKept == WorkerInv /\ [Next]_vars => WorkerInv'
<1> SUFFICES ASSUME WorkerInv, [Next]_vars PROVE WorkerInv'
  OBVIOUS
<1> USE DEF WorkerInv, Worker
<1>1. CASE Start \/ Submit \/ SubmitGlobalChange \/ Shutdown
  BY <1>1 DEF Start, Evaluate, Submit, SubmitGlobalChange, Shutdown, gate
<1>2. CASE Exit \/ ProcessDies
  BY <1>2 DEF Exit, ProcessDies, Fresh
<1>3. CASE Take \/ Admitted \/ Suppressed \/ SuppressionReported \/ Photographed
  BY <1>3 DEF Take, Admitted, Suppressed, SuppressionReported, Photographed
<1>4. CASE Archived \/ CaptureFails
  BY <1>4 DEF Archived, Archive, CaptureFails, AttemptFails
<1>5. CASE FailureReported \/ Succeeded \/ Reported
  BY <1>5 DEF FailureReported, Succeeded, Reported
<1>6. CASE ClockTicks \/ UNCHANGED vars
  BY <1>6 DEF ClockTicks, Tick, vars
<1> QED
  BY <1>1, <1>2, <1>3, <1>4, <1>5, <1>6 DEF Next, WorkerStep

LEMMA SwitchKept == SwitchInv /\ [Next]_vars => SwitchInv'
BY Zenon DEF SwitchInv, Next, Start, Submit, SubmitGlobalChange, Shutdown, Exit,
             Fresh, WorkerStep, Take, Admitted, Suppressed, SuppressionReported, Photographed,
             Archived, CaptureFails, FailureReported, Succeeded, Reported,
             ClockTicks, ProcessDies, vars

LEMMA CounterKept == QueueInv /\ CounterInv /\ [Next]_vars => CounterInv'
<1> SUFFICES ASSUME QueueInv, CounterInv, [Next]_vars PROVE CounterInv'
  OBVIOUS
<1> USE DEF CounterInv
<1>1. CASE Start \/ Submit \/ SubmitGlobalChange
  BY <1>1 DEF Start, Submit, SubmitGlobalChange, counters
<1>2. CASE Shutdown
  <2>1. Len(queue) \in Nat
    BY Slot DEF QueueInv
  <2> QED
    BY <1>2, <2>1 DEF Shutdown
<1>3. CASE Exit \/ ProcessDies
  BY <1>3 DEF Exit, ProcessDies, Fresh
<1>4. CASE Suppressed \/ CaptureFails \/ Succeeded
  <2>1. CASE Suppressed
    BY <2>1 DEF Suppressed
  <2>2. CASE CaptureFails
    BY <2>2 DEF CaptureFails, CountsFailure
  <2>3. CASE Succeeded
    BY <2>3 DEF Succeeded
  <2> QED
    BY <1>4, <2>1, <2>2, <2>3
<1>5. CASE UNCHANGED counters
  BY <1>5 DEF counters
<1> QED
  BY <1>1, <1>2, <1>3, <1>4, <1>5
     DEF Next, WorkerStep, Take, Admitted, SuppressionReported, Photographed,
         Archived, FailureReported, Reported, ClockTicks, vars, counters

\* A trigger moves from the slot into the worker's hands, from there to its end,
\* and each move is counted once; what is counted twice is an oversize photograph.
LEMMA AccountKept ==
  QueueInv /\ CounterInv /\ EveryTriggerIsAccounted /\ [Next]_vars
    => EveryTriggerIsAccounted'
<1> SUFFICES ASSUME QueueInv, CounterInv, EveryTriggerIsAccounted, [Next]_vars
             PROVE  EveryTriggerIsAccounted'
  OBVIOUS
<1> DEFINE Busy == {"admitting", "capturing", "archiving", "releasing"}
<1>a. /\ Queued \in Nat /\ InHand \in Nat
      /\ received = dropped + discarded + Queued + InHand
                       + (suppressed - globalChanges - oversized)
                       + succeeded + failed
  BY DEF EveryTriggerIsAccounted, Refusals, Queued, InHand
<1>b. /\ queue = <<"trigger">> => Queued = 1 /\ Len(queue) = 1
      /\ queue = <<>> => Queued = 0 /\ Len(queue) = 0
      /\ worker \in Busy => InHand = 1
      /\ worker \notin Busy => InHand = 0
  BY Slot DEF Queued, InHand
<1>c. /\ queue' = <<"trigger">> => Queued' = 1
      /\ queue' = <<>> \/ queue' = <<"stop">> => Queued' = 0
      /\ queue' = queue => Queued' = Queued
      /\ worker' \in Busy => InHand' = 1
      /\ worker' \notin Busy => InHand' = 0
      /\ worker' = worker => InHand' = InHand
  BY Slot DEF Queued, InHand
<1>d. EveryTriggerIsAccounted' <=>
        received' = dropped' + discarded' + Queued' + InHand'
                      + (suppressed' - globalChanges' - oversized')
                      + succeeded' + failed'
  BY DEF EveryTriggerIsAccounted, Refusals
<1> HIDE DEF Busy
<1> USE <1>a, <1>b, <1>c, <1>d DEF CounterInv
<1>1. CASE Submit
  <2>1. /\ received' = received + 1
        /\ UNCHANGED <<worker, discarded, globalChanges, suppressed, oversized,
                       succeeded, failed>>
    BY <1>1, Submitting
  <2>2. CASE queue' = queue /\ dropped' = dropped + 1
    BY <2>1, <2>2
  <2>3. CASE queue = <<>> /\ queue' = <<"trigger">> /\ dropped' = dropped
    BY <2>1, <2>3
  <2> QED
    BY <1>1, <2>2, <2>3, Submitting
<1>2. CASE Shutdown
  <2>1. queue \in {<<>>, <<"trigger">>} /\ queue' = <<"stop">>
    BY <1>2 DEF Shutdown, QueueInv
  <2>2. discarded' = discarded + Queued
    BY <1>2, <2>1 DEF Shutdown
  <2> QED
    BY <1>2, <2>1, <2>2 DEF Shutdown
<1>3. CASE Exit \/ ProcessDies
  <2>1. Queued' = 0 /\ InHand' = 0
    BY <1>3 DEF Exit, ProcessDies, Fresh, Busy
  <2> QED
    BY <1>3, <2>1 DEF Exit, ProcessDies, Fresh
<1>4. CASE Take
  <2>1. /\ InHand = 0 /\ Queued' = 0
        /\ InHand' = Queued
    <3>1. CASE queue = <<"trigger">>
      BY <1>4, <3>1, Slot DEF Take, Busy
    <3>2. CASE queue = <<"stop">>
      <4>1. Queued = 0
        BY <3>2, Slot DEF Queued
      <4> QED
        BY <1>4, <3>2, <4>1, Slot DEF Take, Busy
    <3> QED
      BY <1>4, <3>1, <3>2 DEF Take, QueueInv
  <2> QED
    BY <1>4, <2>1 DEF Take, counters
<1>5. CASE Suppressed \/ CaptureFails \/ Succeeded
  <2>1. InHand = 1 /\ InHand' = 0 /\ queue' = queue
    BY <1>5 DEF Suppressed, CaptureFails, Succeeded, Busy
  <2>2. CASE Suppressed
    BY <2>1, <2>2 DEF Suppressed
  <2>3. CASE CaptureFails
    BY <2>1, <2>3 DEF CaptureFails, CountsFailure
  <2>4. CASE Succeeded
    BY <2>1, <2>4 DEF Succeeded
  <2> QED
    BY <1>5, <2>2, <2>3, <2>4
<1>6. CASE UNCHANGED <<queue, counters>> /\ (worker \in Busy <=> worker' \in Busy)
  BY <1>6 DEF counters
<1>7. CASE SubmitGlobalChange
  BY <1>7 DEF SubmitGlobalChange
<1>8. CASE Start \/ Admitted \/ SuppressionReported \/ Photographed \/ Archived
           \/ FailureReported \/ Reported \/ ClockTicks \/ UNCHANGED vars
  <2>1. UNCHANGED <<queue, counters>> /\ (worker \in Busy <=> worker' \in Busy)
    BY <1>8 DEF Start, Admitted, SuppressionReported, Photographed, Archived,
                FailureReported, Reported, ClockTicks, vars, counters, Busy
  <2> QED
    BY <1>6, <2>1
<1> QED
  BY <1>1, <1>2, <1>3, <1>4, <1>5, <1>7, <1>8 DEF Next, WorkerStep

LEMMA ServiceKept == ServiceInv /\ [Next]_vars => ServiceInv'
BY QueueKept, WorkerKept, SwitchKept, CounterKept, AccountKept DEF ServiceInv
-----------------------------------------------------------------------------
LEMMA ServiceHolds == Spec => []ServiceInv
BY ServiceStarts, ServiceKept, PTL DEF Spec

\* Whatever the queue, the worker and the shutdown do, the gate sees only what
\* Admission allows: one reservation at a time, a release that knows whether
\* there is a row.
THEOREM ServiceDrivesGate == Spec => GateSpec
<1>1. Init => GateInit
  BY DEF Init
<1>2. ServiceInv /\ [Next]_vars => [GateNext]_gate
  BY StepOfGate DEF ServiceInv
<1> QED
  BY <1>1, <1>2, ServiceHolds, PTL DEF Spec, GateSpec

\* No hour, not even one with crashes and a clock set back in it, sees more
\* automatic attempts or photographs than max_captures_per_hour.
THEOREM HourIsBounded == Spec => []HourlyQuota
BY ServiceDrivesGate, GateHolds, GateKeepsQuotas, PTL

\* No UTC day sees more than max_captures_per_day.
THEOREM DayIsBounded == Spec => []DailyQuota
BY ServiceDrivesGate, GateHolds, GateKeepsQuotas, PTL

\* Attempts keep the cooldown between them, across failures and restarts, whatever
\* its length; one that failed, for as long as the sweep leaves its marker.
THEOREM AttemptsKeepDistance == Spec => []CooldownKept
<1>1. GateInv => CooldownKept
  BY DEF GateInv
<1> QED
  BY <1>1, ServiceDrivesGate, GateHolds, PTL

\* What the configuration promises, taken together.
THEOREM LimitsAreKept == Spec => []LimitsKept
<1>1. HourlyQuota /\ DailyQuota /\ CooldownKept => LimitsKept
  BY DEF LimitsKept
<1> QED
  BY <1>1, HourIsBounded, DayIsBounded, AttemptsKeepDistance, PTL

\* An attempt that reached the camera stays counted for as long as a window can
\* contain it, whether it got its row or not.
THEOREM AttemptsAreCounted == Spec => []NothingUncounted
BY ServiceDrivesGate, GateHolds, GateCountsAll, PTL

\* Every trigger received has one place or one end.  The totals of the status
\* endpoint tell its end, once what they count besides triggers (whole-frame
\* changes), count twice (oversize photographs) or do not count (what a shutdown
\* discards) is allowed for.
THEOREM TriggersAreAccounted == Spec => []EveryTriggerIsAccounted
<1>1. ServiceInv => EveryTriggerIsAccounted
  BY DEF ServiceInv
<1> QED
  BY <1>1, ServiceHolds, PTL

\* The variables of the service and of the gate have their types.
THEOREM ServiceTyped == Spec => []TypeOK
<1>1. ASSUME GateInv, ServiceInv PROVE TypeOK
  <2>1. queue \in Seq({"trigger", "stop"}) /\ Len(queue) <= QueueCapacity
    <3>1. queue \in {<<>>, <<"trigger">>, <<"stop">>}
      BY <1>1 DEF ServiceInv, QueueInv
    <3>2. queue \in Seq({"trigger", "stop"})
      BY <3>1, Slot
    <3>3. Len(queue) = 0 \/ Len(queue) = 1
      BY <3>1, Slot, Zenon
    <3>4. Len(queue) <= 1
      BY <3>3
    <3> QED
      BY <3>2, <3>4, Zenon DEF QueueCapacity
  <2>2. {received, dropped, discarded, globalChanges, suppressed, oversized,
         succeeded, failed} \subseteq Nat
    BY <1>1 DEF ServiceInv, CounterInv
  <2> QED
    BY <1>1, <2>1, <2>2 DEF GateInv, ServiceInv, WorkerInv, SwitchInv, TypeOK
<1> QED
  BY <1>1, ServiceDrivesGate, GateHolds, ServiceHolds, PTL

\* Once the queue is closed the worker begins nothing more: it takes the
\* sentinel, which the drain has left in the slot alone.
THEOREM ClosedMeansClosed == Spec => NothingStartsAfterShutdown
<1>1. ASSUME ServiceInv, [Next]_vars, ~accepting, worker = "waiting"
      PROVE  worker' \in {"waiting", "ended", "none"}
  <2>1. queue = <<"stop">>
    BY <1>1 DEF ServiceInv, QueueInv
  <2> QED
    BY <1>1, <2>1, Slot
       DEF Next, Start, Submit, SubmitGlobalChange, Shutdown, Exit, Fresh,
           WorkerStep, Take, Admitted, Suppressed, SuppressionReported, Photographed, Archived, CaptureFails,
           FailureReported, Succeeded, Reported, ClockTicks, ProcessDies, vars
<1>2. ServiceInv /\ [Next]_vars =>
        [~accepting /\ worker = "waiting" => worker' \in {"waiting", "ended", "none"}]_vars
  BY <1>1
<1> QED
  BY <1>2, ServiceHolds, PTL DEF Spec, NothingStartsAfterShutdown
=============================================================================
