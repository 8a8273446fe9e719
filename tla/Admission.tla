----------------------------- MODULE Admission -----------------------------
(***************************************************************************)
(* The gate in front of automatic captures (mgo.event_capture.admission)   *)
(* and the durable count behind it: a reservation marker is written before *)
(* the camera is touched and removed only once a catalogue row carries the *)
(* count.  The process may die between any two steps, a marker may refuse  *)
(* to go, and the clock of a board without a battery may come up slow      *)
(* after a restart.                                                        *)
(*                                                                         *)
(* Data abstraction.  Attempts are numbered in the order in which they     *)
(* reserve; an attempt's marker carries reservedAt, its row photographedAt.*)
(* Manual captures count against nothing and are left out.  Free space,    *)
(* camera readiness and read errors are reasons to refuse that may or may  *)
(* not be there.                                                           *)
(***************************************************************************)
EXTENDS Naturals, FiniteSets

CONSTANTS
  Attempts,      \* attempt numbers: an initial segment of 1, 2, 3, ...
  HourlyLimit,   \* max_captures_per_hour
  DailyLimit,    \* max_captures_per_day
  Cooldown,      \* cooldown_seconds
  Hour,          \* the rolling window
  Day,           \* the length of a UTC day
  SweepAfter,    \* the age at which a marker is swept
  StepBack,      \* how far a restarted clock may be behind its latest reading
  LastInstant    \* bound: the last instant of the model

\* _validate_event_capture_limits: every limit is there, and is at least one.
ValidLimits == HourlyLimit \in Nat \ {0} /\ DailyLimit \in Nat \ {0}

ASSUME AdmissionAssumption ==
  /\ ValidLimits
  /\ Attempts \subseteq Nat
  /\ IsFiniteSet(Attempts)
  /\ Cooldown \in Nat
  /\ Hour \in Nat \ {0}
  /\ Day \in Nat \ {0}
  /\ Hour <= Day
  /\ StepBack \in Nat
  /\ SweepAfter \in Nat
  /\ Day + StepBack <= SweepAfter
  /\ LastInstant \in Nat

VARIABLES
  now,              \* the wall clock
  latest,           \* history: its latest reading so far
  issued,           \* the attempts whose marker has been created
  admitted,         \* history: the attempts that were let through to the camera
  reservedAt,       \* the instant in a marker's name
  photographedAt,   \* an attempt's captured_at_utc: its row's, or that of the
                    \* photograph in hand
  markers,          \* the reservation directory
  rows,             \* the attempts that have a catalogue row
  held,             \* the reservations this process has not released
  phase             \* how far the attempt in progress has come

clock == <<now, latest>>
marks == <<issued, admitted, reservedAt, markers>>
gate == <<now, latest, issued, admitted, reservedAt, photographedAt, markers,
          rows, held, phase>>

Phase == {"idle", "admitted", "photographed", "catalogued", "failed"}

GateTypeOK ==
  /\ latest \in 0..LastInstant
  /\ now \in 0..latest
  /\ latest <= now + StepBack
  /\ issued \subseteq Attempts
  /\ admitted \subseteq issued
  /\ reservedAt \in [Attempts -> Nat]
  /\ photographedAt \in [Attempts -> Nat]
  /\ markers \subseteq issued
  /\ rows \subseteq admitted
  /\ held \subseteq admitted
  /\ phase \in Phase

GateInit ==
  /\ now = 0
  /\ latest = 0
  /\ issued = {}
  /\ admitted = {}
  /\ reservedAt = [n \in Attempts |-> 0]
  /\ photographedAt = [n \in Attempts |-> 0]
  /\ markers = {}
  /\ rows = {}
  /\ held = {}
  /\ phase = "idle"
-----------------------------------------------------------------------------
(* The ledgers. *)

\* Fault: markers go when the hour is over, while the day still counts them.
StaleAfterAnHour == {n \in markers : reservedAt[n] + Hour < now}

\* Older than every window.
Stale == {n \in markers : reservedAt[n] + SweepAfter < now}

\* The markers that may be left by a sweep: any stale one may refuse to go.
Swept == {markers \ S : S \in SUBSET Stale}

\* Rows and unreleased markers at or after an instant.
Since(S, at, t) == {n \in S : at[n] >= t}

CountedSince(M, t) ==
  Cardinality(Since(rows, photographedAt, t))
    + Cardinality(Since(M, reservedAt, t))

HourAgo == IF now >= Hour THEN now - Hour ELSE 0

StartOfDay == now - (now % Day)

\* The newest row, or the newest marker, is younger than the cooldown or later
\* than now.
RowCools == \E n \in rows : now < photographedAt[n] + Cooldown
MarkerCools(M) == \E n \in M : now < reservedAt[n] + Cooldown

Cooling(M) == Cooldown > 0 /\ (RowCools \/ MarkerCools(M))

WithinLimits(M) == /\ ~Cooling(M)
                   /\ CountedSince(M, HourAgo) < HourlyLimit
                   /\ CountedSince(M, StartOfDay) < DailyLimit

\* The marker of the next attempt.
NextAttempt(n) == n \notin issued /\ \A m \in Attempts : m < n <=> m \in issued

Mark(n, M) == /\ issued' = issued \cup {n}
              /\ reservedAt' = [reservedAt EXCEPT ![n] = now]
              /\ markers' = M \cup {n}
-----------------------------------------------------------------------------
(* The controller. *)

\* The marker exists before the caller may touch the camera.
Admit(n) ==
  /\ phase = "idle"
  /\ NextAttempt(n)
  /\ \E M \in Swept : WithinLimits(M) /\ Mark(n, M)
  /\ admitted' = admitted \cup {n}
  /\ held' = held \cup {n}
  /\ phase' = "admitted"
  /\ UNCHANGED <<clock, photographedAt, rows>>

\* A limit, the storage reserve, the camera, or an error on the way; refresh
\* _admission evaluates the gate without reserving.
Evaluate ==
  /\ markers' \in Swept
  /\ UNCHANGED <<clock, issued, admitted, reservedAt, photographedAt, rows, held,
                 phase>>

\* The marker could not be written whole, and not be removed either.
ReserveLeavesMarker(n) ==
  /\ phase = "idle"
  /\ NextAttempt(n)
  /\ \E M \in Swept : WithinLimits(M) /\ Mark(n, M)
  /\ UNCHANGED <<clock, admitted, photographedAt, rows, held, phase>>

\* Fault: a failed attempt gives its reservation back.
ReleaseAlways(succeeded) ==
  /\ held' = {}
  /\ markers' = markers \ held
  /\ phase' = "idle"
  /\ UNCHANGED <<clock, issued, admitted, reservedAt, photographedAt, rows>>

\* The newest held reservation ends: its marker goes if the row is committed,
\* though the unlink may fail, and stays otherwise.
Release(succeeded) ==
  /\ \E n \in held :
       /\ \A m \in held : m <= n
       /\ held' = held \ {n}
       /\ markers' \in IF succeeded THEN {markers, markers \ {n}} ELSE {markers}
  /\ phase' = "idle"
  /\ UNCHANGED <<clock, issued, admitted, reservedAt, photographedAt, rows>>
-----------------------------------------------------------------------------
(* The attempt: CaptureWorkflow.capture. *)

\* The camera has written a verified file, stamped when the capture began.
Photograph ==
  /\ phase = "admitted"
  /\ \E n \in held : photographedAt' = [photographedAt EXCEPT ![n] = now]
  /\ phase' = "photographed"
  /\ UNCHANGED <<clock, marks, rows, held>>

\* The row is committed.
Archive ==
  /\ phase = "photographed"
  /\ rows' = rows \cup held
  /\ phase' = "catalogued"
  /\ UNCHANGED <<clock, marks, photographedAt, held>>

\* A photograph that never gets a row leaves no timestamp behind.
Disregard(S) ==
  photographedAt' = [n \in Attempts |-> IF n \in S THEN 0 ELSE photographedAt[n]]

\* The camera fails, the file is larger than was reserved, or the catalogue
\* refuses the row.
AttemptFails ==
  /\ phase \in {"admitted", "photographed"}
  /\ phase' = "failed"
  /\ Disregard(held)
  /\ UNCHANGED <<clock, marks, rows, held>>

EndAttempt == \/ phase = "catalogued" /\ Release(TRUE)
              \/ phase = "failed" /\ Release(FALSE)
-----------------------------------------------------------------------------
Tick == /\ now < LastInstant
        /\ now' = now + 1
        /\ latest' = IF latest > now THEN latest ELSE now + 1
        /\ UNCHANGED <<marks, photographedAt, rows, held, phase>>

\* The process dies, or the board does, and comes up with a clock that may be
\* behind.
Crash ==
  /\ \E t \in 0..now : latest <= t + StepBack /\ now' = t
  /\ held' = {}
  /\ phase' = "idle"
  /\ Disregard(held \ rows)
  /\ UNCHANGED <<latest, marks, rows>>

GateNext == \/ \E n \in Attempts : Admit(n) \/ ReserveLeavesMarker(n)
            \/ Evaluate
            \/ Photograph
            \/ Archive
            \/ AttemptFails
            \/ EndAttempt
            \/ Tick
            \/ Crash

GateSpec == GateInit /\ [][GateNext]_gate
-----------------------------------------------------------------------------
\* In no hour, whatever restarts and failures it contained, are more attempts
\* let through to the camera, or more of their photographs catalogued, than the
\* hourly limit.
HourlyQuota ==
  \A t \in 0..LastInstant :
    /\ Cardinality({n \in admitted : reservedAt[n] \in t..(t + Hour)})
         <= HourlyLimit
    /\ Cardinality({n \in rows : photographedAt[n] \in t..(t + Hour)})
         <= HourlyLimit

\* Nor on any UTC day than the daily limit.
DailyQuota ==
  \A d \in 0..(LastInstant \div Day) :
    /\ Cardinality({n \in admitted : reservedAt[n] \div Day = d}) <= DailyLimit
    /\ Cardinality({n \in rows : photographedAt[n] \div Day = d}) <= DailyLimit

\* A cooldown may be longer than a marker is kept.  An attempt without a row is
\* then forgotten with its marker, by a clock that may have been that far ahead.
Forgotten(m, t) == m \notin rows /\ reservedAt[m] + SweepAfter < t + StepBack

\* Attempts keep their distance, from each other's reservation and from each
\* other's photograph, across restarts: those that have a row whatever the
\* cooldown, those that failed for as long as their marker is kept.
CooldownKept ==
  Cooldown > 0 =>
    \A m, n \in admitted : m < n =>
      /\ \/ reservedAt[n] >= reservedAt[m] + Cooldown
         \/ Forgotten(m, reservedAt[n])
      /\ m \in rows => reservedAt[n] >= photographedAt[m] + Cooldown

\* What the configuration promises the camera's owner, over every window of time.
LimitsKept == HourlyQuota /\ DailyQuota /\ CooldownKept

\* "The JPEG then exists on disk with nothing counting it" never happens: an
\* attempt that reached the camera is counted, by its row or by its marker, as
\* long as any window can contain it.
NothingUncounted ==
  \A n \in admitted :
    n \in markers \cup rows \/ reservedAt[n] + Day < now
=============================================================================
