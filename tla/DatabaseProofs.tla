--------------------------- MODULE DatabaseProofs ---------------------------
(***************************************************************************)
(* Machine-checked proofs about Migrations and DatabaseMonitor, for any    *)
(* number of services, schema versions, starts and faults: what a file's   *)
(* history says of its tables, what a started service runs on, the         *)
(* refinement of SchemaVersions, and what the timeline says of the state.  *)
(***************************************************************************)
EXTENDS DatabaseMonitor, FiniteSetTheorems, WellFoundedInduction, TLAPS

\* A file without a history holds none but tables of the released versions; one
\* with a history holds the tables it records, and none of an unsupported shape.
FileInv ==
  /\ ~db.tracked => Existing(db) \subseteq Files
  /\ db.tracked => /\ Existing(db) = db.history
                   /\ \A v \in Versions : db.tables[v] # "foreign"
  /\ db.history = 1..RecordedVersion(db)

\* Tables are never removed, and while a file has no history nobody adds one, so
\* what a service has read of such a file is still so.
NamesInv ==
  \A s \in Services :
    /\ names[s] \subseteq Existing(db)
    /\ pc[s] \in {"version", "adopt", "ensure"} /\ ~db.tracked => names[s] = Existing(db)
    /\ pc[s] = "adopt" => Adoptable(names[s]) # 0
    /\ pc[s] = "ensure" => Adoptable(names[s]) = 0

Migrating == {"begin", "create", "record", "commit"}

\* The migrations a service has before it are the highest, and those that are not
\* among them have been applied; it has refused a file of a newer build.
PlanInv ==
  \A s \in Services :
    /\ pc[s] \in {"plan", "started"} \cup Migrating => db.tracked
    /\ pc[s] \in {"adopt", "ensure", "adopted", "started"} \cup Migrating
         => db.history \subseteq Files
    /\ pc[s] = "plan" /\ recorded[s] <= Current => db.history \subseteq Files
    /\ pc[s] \in Migrating
         => /\ Files \ pending[s] \subseteq db.history
            /\ \A v \in pending[s], w \in Files : v < w => w \in pending[s]
    /\ pc[s] \in Migrating \ {"begin"} => pending[s] # {}
    /\ pc[s] = "started" => Files \subseteq db.history

Adopted(d, n) == [d EXCEPT !.tracked = TRUE, !.history = @ \cup 1..n]

Created(d, v) == [d EXCEPT !.tracked = TRUE,
                           !.tables[v] = IF @ = "absent" THEN "migrated" ELSE @]

Recorded(d, v) == [d EXCEPT !.history = @ \cup {v}]

\* What an open transaction will put in place of the file, which stays as it was
\* when the transaction began.
TransactionInv ==
  \A s \in Services :
    LET v == NextFile(s)
    IN  /\ pc[s] = "adopted"
             => LET n == Adoptable(names[s])
                IN  /\ draft = {[by |-> s, db |-> Adopted(db, n)]}
                    /\ n # 0 /\ ~db.tracked /\ Existing(db) = 1..n
                    /\ \A w \in 1..n : db.tables[w] # "foreign"
        /\ pc[s] = "create" => draft = {[by |-> s, db |-> db]}
        /\ pc[s] = "record" => draft = {[by |-> s, db |-> Created(db, v)]}
        /\ pc[s] = "commit" => /\ draft = {[by |-> s, db |-> Recorded(Created(db, v), v)]}
                               /\ v \notin db.history

StartInv == TypeOK /\ FileInv /\ NamesInv /\ PlanInv /\ TransactionInv

\* TimelineFollowsState, also while a check is under way that has not concluded.
ObservedInv ==
  \A s \in Services : check[s] # "record" =>
    \A h \in latest[s] : Persistable(h) /\ ~unwritten[s] => row[s] = {h} /\ ~outage[s]

(***************************************************************************)
(* Highest, lowest and adoptable versions.                                 *)
(***************************************************************************)
\* A finite set of numbers has a greatest one: the sets of greater members are
\* well-founded under inclusion.
LEMMA Greatest ==
  ASSUME NEW S \in SUBSET Nat, IsFiniteSet(S), S # {}
  PROVE  \E m \in S : \A x \in S : x <= m
<1> DEFINE Above(x) == {y \in S : y > x}
           T == {Above(x) : x \in S}
<1>1. T \subseteq FiniteSubsetsOf(S) /\ T # {}
  <2>1. ASSUME NEW x \in S PROVE Above(x) \in FiniteSubsetsOf(S)
    <3>1. Above(x) \in SUBSET S
      OBVIOUS
    <3> QED
      BY <3>1, FS_Subset DEF FiniteSubsetsOf
  <2> QED
    BY <2>1
<1>2. \E U \in T : \A V \in T : ~(<<V, U>> \in StrictSubsetOrdering(S))
  <2> HIDE DEF T
  <2> QED
    BY <1>1, FS_StrictSubsetOrderingWellFounded, WFMin
<1>3. PICK m \in S : \A V \in T : ~(<<V, Above(m)>> \in StrictSubsetOrdering(S))
  BY <1>2
<1>4. ASSUME NEW x \in S, x > m
      PROVE  FALSE
  <2>1. Above(x) \in T
    OBVIOUS
  <2>2. \A y \in S : y \in Nat
    OBVIOUS
  <2>3. Above(x) \subseteq Above(m)
    <3> SUFFICES ASSUME NEW y \in S, y > x PROVE y > m
      OBVIOUS
    <3> QED
      BY <1>4, <2>2
  <2>4. x \in Above(m) /\ x \notin Above(x)
    BY <1>4, <2>2
  <2> QED
    BY <1>3, <2>1, <2>3, <2>4 DEF StrictSubsetOrdering
<1> QED
  BY <1>4

\* The least of some numbers, by the same argument, of their distances from a bound.
LEMMA Least ==
  ASSUME NEW N \in Nat, NEW S \in SUBSET (1..N), S # {}
  PROVE  \E m \in S : \A x \in S : m <= x
<1> DEFINE D == {N - x : x \in S}
<1>1. D \in SUBSET (0..N) /\ D # {}
  <2>1. ASSUME NEW x \in S PROVE N - x \in 0..N
    OBVIOUS
  <2> QED
    BY <2>1
<1>2. IsFiniteSet(0..N)
  BY FS_Interval
<1>3. D \in SUBSET Nat /\ IsFiniteSet(D)
  BY <1>1, <1>2, FS_Subset
<1>4. PICK e \in D : \A x \in D : x <= e
  <2> HIDE DEF D
  <2> QED
    BY <1>1, <1>3, Greatest
<1>5. PICK m \in S : e = N - m
  OBVIOUS
<1>6. ASSUME NEW x \in S
      PROVE  m <= x
  <2>1. N - x <= N - m
    BY <1>4, <1>5
  <2> QED
    BY <2>1
<1> QED
  BY <1>6

LEMMA HighestIs ==
  ASSUME NEW H \in SUBSET Nat, IsFiniteSet(H)
  PROVE  Highest(H) \in H \cup {0} /\ \A w \in H : w <= Highest(H)
<1>1. IsFiniteSet(H \cup {0}) /\ H \cup {0} \in SUBSET Nat
  BY FS_AddElement
<1>2. \E v \in H \cup {0} : \A w \in H \cup {0} : w <= v
  BY <1>1, Greatest
<1> QED
  BY <1>2 DEF Highest

LEMMA RecordedIs ==
  ASSUME NEW n \in Nat, NEW d, d.tracked, d.history = 1..n
  PROVE  RecordedVersion(d) = n
<1>1. IsFiniteSet(1..n) /\ 1..n \in SUBSET Nat
  BY FS_Interval
<1>2. Highest(1..n) \in (1..n) \cup {0} /\ \A w \in 1..n : w <= Highest(1..n)
  BY <1>1, HighestIs
<1>3. Highest(1..n) = n
  BY <1>2
<1> QED
  BY <1>3 DEF RecordedVersion

\* The history of a file is that of one version, 0 when it has none.
LEMMA HistoryIs ==
  ASSUME TypeOK, FileInv
  PROVE  /\ RecordedVersion(db) \in 0..(Current + Ahead)
         /\ db.history = 1..RecordedVersion(db)
         /\ ~db.tracked => RecordedVersion(db) = 0 /\ db.history = {}
<1> USE MigrationsAssumption
<1>1. db.history \in SUBSET Versions
  BY DEF TypeOK, Database
<1>2. IsFiniteSet(db.history) /\ db.history \in SUBSET Nat
  <2>1. IsFiniteSet(Versions) /\ Versions \subseteq Nat
    BY FS_Interval DEF Versions
  <2> QED
    BY <1>1, <2>1, FS_Subset
<1>3. Highest(db.history) \in 0..(Current + Ahead)
  BY <1>1, <1>2, HighestIs DEF Versions
<1>4. RecordedVersion(db) \in 0..(Current + Ahead)
  BY <1>3 DEF RecordedVersion
<1>5. ~db.tracked => RecordedVersion(db) = 0
  BY DEF RecordedVersion
<1> QED
  BY <1>4, <1>5 DEF FileInv

\* What an unversioned file may be adopted as.
LEMMA AdoptableIs ==
  ASSUME NEW N \in SUBSET Files
  PROVE  /\ Adoptable(N) \in 0..Current
         /\ 1..Adoptable(N) \subseteq N
         /\ Stray(N) = {} => N = 1..Adoptable(N)
         /\ \A v \in N : 1..v \subseteq N => v <= Adoptable(N)
<1> USE MigrationsAssumption
<1> DEFINE H == {v \in N : 1..v \subseteq N}
<1>1. IsFiniteSet(H) /\ H \in SUBSET Nat
  <2>1. IsFiniteSet(Files) /\ Files \subseteq Nat
    BY FS_Interval DEF Files
  <2>2. H \in SUBSET Files
    OBVIOUS
  <2> HIDE DEF H
  <2> QED
    BY <2>1, <2>2, FS_Subset
<1>2. Highest(H) \in H \cup {0} /\ \A w \in H : w <= Highest(H)
  <2> HIDE DEF H
  <2> QED
    BY <1>1, HighestIs
<1>3. Adoptable(N) = Highest(H)
  BY DEF Adoptable
<1>4. Adoptable(N) \in 0..Current
  <2>1. N \subseteq 0..Current
    BY DEF Files
  <2>2. H \subseteq N
    OBVIOUS
  <2>3. H \cup {0} \subseteq 0..Current
    <3> HIDE DEF H
    <3> QED
      BY <2>1, <2>2
  <2> QED
    BY <1>2, <1>3, <2>3
<1>5. 1..Adoptable(N) \subseteq N
  BY <1>2, <1>3
<1>6. ASSUME NEW v \in N, 1..v \subseteq N
      PROVE  v <= Adoptable(N)
  <2>1. v \in H
    BY <1>6
  <2> HIDE DEF H
  <2> QED
    BY <1>2, <1>3, <2>1
<1> QED
  BY <1>4, <1>5, <1>6 DEF Stray

LEMMA NextIs ==
  ASSUME TypeOK, NEW s \in Services, pending[s] # {}
  PROVE  NextFile(s) \in pending[s] /\ NextFile(s) \in Files
           /\ \A w \in pending[s] : NextFile(s) <= w
<1>1. pending[s] \in SUBSET (1..Current)
  BY DEF TypeOK, Files
<1>2. \E v \in pending[s] : \A w \in pending[s] : v <= w
  BY <1>1, MigrationsAssumption, Least
<1>3. NextFile(s) \in pending[s] /\ \A w \in pending[s] : NextFile(s) <= w
  BY <1>2 DEF NextFile
<1> QED
  BY <1>1, <1>3 DEF Files

LEMMA MineIs ==
  ASSUME NEW s, NEW d, draft = {[by |-> s, db |-> d]}
  PROVE  Mine(s) = d
<1>1. {t.db : t \in draft} = {d}
  OBVIOUS
<1> QED
  BY <1>1 DEF Mine

(***************************************************************************)
(* The databases a transaction makes.                                      *)
(***************************************************************************)
LEMMA FilesAreVersions == Files \subseteq Versions /\ Versions \subseteq Nat \ {0}
BY MigrationsAssumption DEF Files, Versions

LEMMA AdoptedIs ==
  ASSUME NEW d \in Database, NEW n \in 0..Current
  PROVE  /\ Adopted(d, n) \in Database
         /\ Adopted(d, n).tracked /\ Adopted(d, n).history = d.history \cup 1..n
         /\ Adopted(d, n).tables = d.tables
<1>1. 1..n \subseteq Versions
  BY MigrationsAssumption DEF Versions
<1> QED
  BY <1>1 DEF Adopted, Database

LEMMA CreatedIs ==
  ASSUME NEW d \in Database, NEW v \in Files
  PROVE  /\ Created(d, v) \in Database
         /\ Created(d, v).tracked /\ Created(d, v).history = d.history
         /\ \A w \in Versions : Created(d, v).tables[w] =
              IF w = v /\ d.tables[v] = "absent" THEN "migrated" ELSE d.tables[w]
<1> DEFINE o == IF d.tables[v] = "absent" THEN "migrated" ELSE d.tables[v]
<1>1. v \in Versions
  BY FilesAreVersions
<1>2. d.tables \in [Versions -> Origins] /\ d.history \in SUBSET Versions
  BY DEF Database
<1>3. o \in Origins
  BY <1>1, <1>2 DEF Origins
<1>4. [d.tables EXCEPT ![v] = o] \in [Versions -> Origins]
  BY <1>2, <1>3
<1>5. /\ Created(d, v) \in Database /\ Created(d, v).tracked
      /\ Created(d, v).history = d.history
      /\ Created(d, v).tables = [d.tables EXCEPT ![v] = o]
  <2>1. d = [tables |-> d.tables, tracked |-> d.tracked, history |-> d.history]
    BY DEF Database
  <2>2. PICK e : e = [d EXCEPT !.tracked = TRUE]
    OBVIOUS
  <2>3. e = [tables |-> d.tables, tracked |-> TRUE, history |-> d.history]
    BY <2>1, <2>2
  <2>4. [d EXCEPT !.tracked = TRUE, !.tables[v] = o]
          = [e EXCEPT !.tables[v] = o]
    BY <2>2, Zenon
  <2>5. [e EXCEPT !.tables[v] = o] = [e EXCEPT !.tables = [e.tables EXCEPT ![v] = o]]
    OBVIOUS
  <2>6. PICK t : t = [e.tables EXCEPT ![v] = o]
    OBVIOUS
  <2>7. e \in Database /\ t \in [Versions -> Origins]
    BY <1>2, <1>4, <2>3, <2>6 DEF Database
  <2>8. PICK r : r = [e EXCEPT !.tables = t]
    OBVIOUS
  <2>9. r \in Database /\ r.tables = t /\ r.tracked = e.tracked /\ r.history = e.history
    BY <2>7, <2>8 DEF Database
  <2>10. r = Created(d, v)
    BY <2>4, <2>5, <2>6, <2>8, Zenon DEF Created
  <2> QED
    BY <2>3, <2>6, <2>9, <2>10
<1> QED
  BY <1>1, <1>2, <1>5

LEMMA RecordedFileIs ==
  ASSUME NEW d \in Database, NEW v \in Files
  PROVE  /\ Recorded(d, v) \in Database
         /\ Recorded(d, v).tracked = d.tracked /\ Recorded(d, v).tables = d.tables
         /\ Recorded(d, v).history = d.history \cup {v}
BY FilesAreVersions DEF Recorded, Database

(***************************************************************************)
(* What a start does to the file.                                          *)
(***************************************************************************)
\* The file changes in three ways only.
Writes(s) == EnsureTable(s) \/ CommitAdoption(s) \/ CommitMigration(s)

LEMMA FileChanges ==
  ASSUME [Next]_vars
  PROVE  db' = db \/ \E s \in Services : Writes(s)
<1>1. ASSUME NEW s \in Services, StartStep(s)
      PROVE  db' = db \/ Writes(s)
  BY <1>1 DEF StartStep, Start, ReadTables, ReadVersion, Refuse, Adopt, Plan, BeginMigration,
     CreateTable, RecordVersion, RollBack, BusyTimeout, Finish, AccessFails, Stops, Writes
<1>2. ASSUME NEW s \in Services, Dies(s)
      PROVE  db' = db
  BY <1>2 DEF Dies, Stops
<1>3. CASE Connects \/ Turns \/ UNCHANGED vars
  BY <1>3 DEF Connects, Turns, vars
<1> QED
  BY <1>1, <1>2, <1>3 DEF Next

\* The history table is created where there are no tables.
LEMMA EnsureWrites ==
  ASSUME TypeOK, FileInv, NamesInv, NEW s \in Services, EnsureTable(s), db' # db
  PROVE  /\ ~db.tracked /\ Existing(db) = {}
         /\ db' \in Database /\ db'.tracked /\ db'.tables = db.tables
         /\ db'.history = db.history
<1>1. db \in Database /\ names[s] \in SUBSET Files
  BY DEF TypeOK
<1>2. db' \in Database /\ db'.tracked /\ db'.tables = db.tables /\ db'.history = db.history
  BY <1>1 DEF EnsureTable, Database
<1>3. ~db.tracked
  <2> SUFFICES ASSUME db.tracked PROVE FALSE
    OBVIOUS
  <2>1. db.tracked = TRUE
    BY <1>1 DEF Database
  <2>2. [db EXCEPT !.tracked = TRUE] = db
    BY <1>1, <2>1 DEF Database
  <2> QED
    BY <2>2 DEF EnsureTable
<1>4. names[s] = Existing(db) /\ Adoptable(names[s]) = 0 /\ Stray(names[s]) = {}
  BY <1>3 DEF NamesInv, EnsureTable, Refused
<1>5. names[s] = {}
  BY <1>1, <1>4, AdoptableIs
<1> QED
  BY <1>2, <1>3, <1>4, <1>5

\* An adoption records the versions whose tables are there, all of them supported.
LEMMA AdoptionWrites ==
  ASSUME TypeOK, FileInv, TransactionInv, NEW s \in Services, CommitAdoption(s)
  PROVE  \E n \in 1..Current :
           /\ ~db.tracked /\ db.history = {} /\ Existing(db) = 1..n
           /\ \A w \in 1..n : db.tables[w] # "foreign"
           /\ db' \in Database /\ db'.tracked /\ db'.tables = db.tables
           /\ db'.history = 1..n
<1> DEFINE n == Adoptable(names[s])
<1>1. n \in 0..Current
  BY AdoptableIs DEF TypeOK
<1>2. /\ draft = {[by |-> s, db |-> Adopted(db, n)]}
      /\ n # 0 /\ ~db.tracked /\ Existing(db) = 1..n
      /\ \A w \in 1..n : db.tables[w] # "foreign"
  BY DEF TransactionInv, CommitAdoption
<1>3. db' = Adopted(db, n)
  BY <1>2, MineIs DEF CommitAdoption, Commits
<1>4. db.history = {}
  BY <1>2, HistoryIs
<1>5. /\ db' \in Database /\ db'.tracked /\ db'.tables = db.tables /\ db'.history = 1..n
  BY <1>1, <1>3, <1>4, AdoptedIs DEF TypeOK
<1>6. n \in 1..Current
  BY <1>1, <1>2, MigrationsAssumption
<1> QED
  BY <1>2, <1>4, <1>5, <1>6

\* A migration adds the next version's table and its record, together.
LEMMA MigrationWrites ==
  ASSUME TypeOK, FileInv, PlanInv, TransactionInv, NEW s \in Services, CommitMigration(s)
  PROVE  \E n \in 0..(Current - 1) :
           /\ NextFile(s) = n + 1 /\ db.tracked /\ db.history = 1..n
           /\ db' \in Database /\ db'.tracked /\ db'.history = 1..(n + 1)
           /\ \A w \in Versions : db'.tables[w] = IF w = n + 1 THEN "migrated" ELSE db.tables[w]
           /\ db.tables[n + 1] = "absent"
<1> DEFINE v == NextFile(s)
<1> USE MigrationsAssumption
<1>1. /\ v \in pending[s] /\ v \in Files /\ \A w \in pending[s] : v <= w
  BY NextIs DEF PlanInv, Migrating, CommitMigration
<1>2. draft = {[by |-> s, db |-> Recorded(Created(db, v), v)]} /\ v \notin db.history
  BY DEF TransactionInv, CommitMigration
<1>3. db.tracked /\ db.history \subseteq Files /\ Files \ pending[s] \subseteq db.history
  BY DEF PlanInv, Migrating, CommitMigration
<1>4. PICK n \in Nat : n = RecordedVersion(db) /\ db.history = 1..n
  BY HistoryIs
<1>5. v = n + 1 /\ n \in 0..(Current - 1)
  <2>1. v \in 1..Current /\ v > n
    BY <1>1, <1>2, <1>4 DEF Files
  <2>2. ASSUME v # n + 1
        PROVE  FALSE
    <3>1. n + 1 \in Files /\ n + 1 < v
      BY <2>1, <2>2 DEF Files
    <3>2. n + 1 \in db.history
      BY <1>1, <1>3, <3>1, <2>1
    <3> QED
      BY <1>4, <3>2
  <2> QED
    BY <2>1, <2>2
<1>6. db' = Recorded(Created(db, v), v)
  BY <1>2, MineIs DEF CommitMigration, Commits
<1>7. db \in Database /\ Created(db, v) \in Database
  BY <1>1, CreatedIs DEF TypeOK
<1>8. /\ db' \in Database /\ db'.tracked /\ db'.tables = Created(db, v).tables
      /\ db'.history = db.history \cup {v}
  BY <1>1, <1>6, <1>7, CreatedIs, RecordedFileIs
<1>9. db.history \cup {v} = 1..(n + 1)
  BY <1>4, <1>5
<1>10. db.tables[v] = "absent"
  BY <1>1, <1>2, <1>3, FilesAreVersions DEF FileInv, Existing
<1> QED
  BY <1>1, <1>3, <1>4, <1>5, <1>7, <1>8, <1>9, <1>10, CreatedIs

\* The file keeps what it has: its history, its tables, and its place among the
\* versions of this build; and while it has no history it is not written at all.
Kept == /\ db' \in Database
        /\ db.tracked => db'.tracked
        /\ db.history \subseteq db'.history /\ Existing(db) \subseteq Existing(db)'
        /\ db.history \subseteq Files => db'.history \subseteq Files
        /\ ~db'.tracked => db' = db

LEMMA FileIsKept ==
  ASSUME StartInv, [Next]_vars
  PROVE  Kept /\ FileInv'
<1> USE DEF StartInv
<1>1. CASE db' = db
  <2>1. Existing(db)' = Existing(db) /\ RecordedVersion(db)' = RecordedVersion(db)
    BY <1>1 DEF Existing, RecordedVersion, Highest
  <2> QED
    BY <1>1, <2>1 DEF Kept, FileInv, TypeOK
<1>2. ASSUME NEW s \in Services, EnsureTable(s), db' # db
      PROVE  Kept /\ FileInv'
  <2>1. /\ ~db.tracked /\ Existing(db) = {}
        /\ db' \in Database /\ db'.tracked /\ db'.tables = db.tables
        /\ db'.history = db.history
    BY <1>2, EnsureWrites
  <2>2. Existing(db)' = {} /\ db.history = {}
    BY <2>1, HistoryIs DEF Existing
  <2>3. 1..0 = {}
    OBVIOUS
  <2>4. RecordedVersion(db)' = 0
    BY <2>1, <2>2, <2>3, RecordedIs
  <2>5. \A v \in Versions : db'.tables[v] # "foreign"
    BY <2>1 DEF Existing
  <2> QED
    BY <2>1, <2>2, <2>3, <2>4, <2>5 DEF Kept, FileInv
<1>3. ASSUME NEW s \in Services, CommitAdoption(s)
      PROVE  Kept /\ FileInv'
  <2>1. PICK n \in 1..Current :
          /\ ~db.tracked /\ db.history = {} /\ Existing(db) = 1..n
          /\ \A w \in 1..n : db.tables[w] # "foreign"
          /\ db' \in Database /\ db'.tracked /\ db'.tables = db.tables
          /\ db'.history = 1..n
    BY <1>3, AdoptionWrites
  <2>2. Existing(db)' = 1..n
    BY <2>1 DEF Existing
  <2>3. RecordedVersion(db)' = n
    BY <2>1, RecordedIs
  <2>4. 1..n \subseteq Files
    BY MigrationsAssumption DEF Files
  <2>5. \A v \in Versions : db'.tables[v] # "foreign"
    BY <2>1 DEF Existing
  <2> QED
    BY <2>1, <2>2, <2>3, <2>4, <2>5 DEF Kept, FileInv
<1>4. ASSUME NEW s \in Services, CommitMigration(s)
      PROVE  Kept /\ FileInv'
  <2>1. PICK n \in 0..(Current - 1) :
          /\ NextFile(s) = n + 1 /\ db.tracked /\ db.history = 1..n
          /\ db' \in Database /\ db'.tracked /\ db'.history = 1..(n + 1)
          /\ \A w \in Versions : db'.tables[w] = IF w = n + 1 THEN "migrated" ELSE db.tables[w]
          /\ db.tables[n + 1] = "absent"
    BY <1>4, MigrationWrites
  <2>2. n + 1 \in Nat /\ n + 1 \in Files /\ n + 1 \in Versions
    BY MigrationsAssumption, FilesAreVersions DEF Files
  <2>3. Existing(db) = 1..n /\ \A v \in Versions : db.tables[v] # "foreign"
    BY <2>1 DEF FileInv
  <2>4. Existing(db)' = Existing(db) \cup {n + 1}
    BY <2>1, <2>2 DEF Existing
  <2>5. (1..n) \cup {n + 1} = 1..(n + 1)
    OBVIOUS
  <2>6. RecordedVersion(db)' = n + 1
    BY <2>1, <2>2, RecordedIs
  <2>7. 1..(n + 1) \subseteq Files
    BY MigrationsAssumption DEF Files
  <2>8. \A v \in Versions : db'.tables[v] # "foreign"
    BY <2>1, <2>3
  <2> QED
    BY <2>1, <2>3, <2>4, <2>5, <2>6, <2>7, <2>8 DEF Kept, FileInv
<1> QED
  BY <1>1, <1>2, <1>3, <1>4, FileChanges DEF Writes

(***************************************************************************)
(* The steps of one start, beside the others.                              *)
(***************************************************************************)
LEMMA OnlyItsOwn ==
  ASSUME TypeOK, NEW s \in Services, StartStep(s) \/ Dies(s), NEW q \in Services, q # s
  PROVE  pc'[q] = pc[q] /\ names'[q] = names[q] /\ recorded'[q] = recorded[q]
           /\ pending'[q] = pending[q]
<1> USE DEF TypeOK, Goto
<1>1. CASE Stops(s)
  BY <1>1 DEF Stops
<1>2. CASE \/ Start(s) \/ ReadTables(s) \/ ReadVersion(s) \/ EnsureTable(s)
           \/ CommitAdoption(s) \/ Plan(s) \/ BeginMigration(s) \/ CreateTable(s)
           \/ RecordVersion(s) \/ CommitMigration(s) \/ Finish(s)
  BY <1>2 DEF Start, ReadTables, ReadVersion, EnsureTable, CommitAdoption, Plan,
     BeginMigration, CreateTable, RecordVersion, CommitMigration, Finish
<1>3. CASE Adopt(s) /\ ~Stops(s)
  BY <1>3 DEF Adopt
<1> QED
  BY <1>1, <1>2, <1>3 DEF StartStep, Dies, Refuse, RollBack, BusyTimeout, AccessFails

\* A transaction is nobody else's to write, to commit or to end.
LEMMA TransactionIsOwned ==
  ASSUME TransactionInv, NEW s \in Services, StartStep(s) \/ Dies(s),
         NEW q \in Services, q # s, NEW d, draft = {[by |-> q, db |-> d]}
  PROVE  draft' = draft /\ db' = db
<1>1. pc[s] \notin {"adopted", "create", "record", "commit"}
  <2>1. \A e : draft # {[by |-> s, db |-> e]}
    <3> SUFFICES ASSUME NEW e, {[by |-> q, db |-> d]} = {[by |-> s, db |-> e]}
                 PROVE  FALSE
      OBVIOUS
    <3>1. [by |-> q, db |-> d] = [by |-> s, db |-> e]
      OBVIOUS
    <3> QED
      BY <3>1
  <2> QED
    BY <2>1 DEF TransactionInv
<1>2. draft # {}
  OBVIOUS
<1>3. CASE Stops(s)
  BY <1>3 DEF Stops
<1>4. CASE ~Stops(s)
  BY <1>1, <1>2, <1>4 DEF StartStep, Dies, Start, ReadTables, ReadVersion, Refuse, EnsureTable,
     Adopt, CommitAdoption, Plan, BeginMigration, CreateTable, RecordVersion, CommitMigration,
     RollBack, BusyTimeout, Finish, AccessFails, Begins
<1> QED
  BY <1>3, <1>4

LEMMA StartTyped ==
  ASSUME StartInv, [Next]_vars
  PROVE  TypeOK'
<1> USE DEF StartInv
<1>1. db' \in Database
  BY FileIsKept DEF Kept
<1>2. ASSUME NEW s \in Services, Stops(s), UNCHANGED faults \/ Fault
      PROVE  TypeOK'
  <2>1. draft' = {} \/ draft' = draft
    BY <1>2 DEF TypeOK, Stops
  <2>2. faults' \in 0..MaxFaults
    BY <1>2, MigrationsAssumption DEF TypeOK, Fault
  <2>3. draft' = {} \/ \E q \in Services, d \in Database : draft' = {[by |-> q, db |-> d]}
    BY <2>1 DEF TypeOK
  <2>4. /\ file' \in Conditions
        /\ pc' \in [Services -> {"stopped", "tables", "version", "adopt", "adopted", "ensure",
                                "plan", "begin", "create", "record", "commit", "started"}]
        /\ names' \in [Services -> SUBSET Files]
        /\ pending' \in [Services -> SUBSET Files]
    BY <1>2 DEF TypeOK, Stops, Goto
  <2>5. recorded' \in [Services -> 0..(Current + Ahead)]
    BY <1>2, MigrationsAssumption DEF TypeOK, Stops
  <2> QED
    BY <1>1, <2>2, <2>3, <2>4, <2>5 DEF TypeOK
<1>3. ASSUME NEW s \in Services, StartStep(s), ~Stops(s)
      PROVE  TypeOK'
  <2> DEFINE Writable(e) == \E q \in Services, d \in Database : e = {[by |-> q, db |-> d]}
  <2>1. /\ file' \in {file} \cup {"wal"} /\ faults' = faults
        /\ pc' \in [Services -> {"stopped", "tables", "version", "adopt", "adopted", "ensure",
                                "plan", "begin", "create", "record", "commit", "started"}]
    BY <1>3 DEF StartStep, Start, ReadTables, ReadVersion, Refuse, EnsureTable, Adopt,
       CommitAdoption, Plan, BeginMigration, CreateTable, RecordVersion, CommitMigration,
       RollBack, BusyTimeout, Finish, AccessFails, Goto, RequestsWal, TypeOK
  <2>2. names' \in [Services -> SUBSET Files]
    BY <1>3 DEF StartStep, Start, ReadTables, ReadVersion, Refuse, EnsureTable, Adopt,
       CommitAdoption, Plan, BeginMigration, CreateTable, RecordVersion, CommitMigration,
       RollBack, BusyTimeout, Finish, AccessFails, TypeOK
  <2>3. pending' \in [Services -> SUBSET Files]
    BY <1>3 DEF StartStep, Start, ReadTables, ReadVersion, Refuse, EnsureTable, Adopt,
       CommitAdoption, Plan, BeginMigration, CreateTable, RecordVersion, CommitMigration,
       RollBack, BusyTimeout, Finish, AccessFails, TypeOK
  <2>4. recorded' \in [Services -> 0..(Current + Ahead)]
    <3>1. RecordedVersion(db) \in 0..(Current + Ahead)
      BY HistoryIs
    <3>2. Adoptable(names[s]) \in 0..(Current + Ahead)
      BY AdoptableIs, MigrationsAssumption DEF TypeOK
    <3> QED
      BY <1>3, <3>1, <3>2 DEF StartStep, Start, ReadTables, ReadVersion, Refuse, EnsureTable,
         Adopt, CommitAdoption, Plan, BeginMigration, CreateTable, RecordVersion,
         CommitMigration, RollBack, BusyTimeout, Finish, AccessFails, TypeOK
  <2>5. draft' = {} \/ Writable(draft')
    <3>1. CASE Adopt(s)
      <4>1. draft' = {[by |-> s, db |-> Adopted(db, Adoptable(names[s]))]}
        BY <1>3, <3>1 DEF Adopt, Begins, Adopted
      <4>2. Adopted(db, Adoptable(names[s])) \in Database
        BY AdoptedIs, AdoptableIs DEF TypeOK
      <4> QED
        BY <4>1, <4>2
    <3>2. CASE BeginMigration(s)
      BY <3>2 DEF BeginMigration, Begins, TypeOK
    <3>3. CASE CreateTable(s)
      <4>1. Mine(s) = db
        BY <3>3, MineIs DEF TransactionInv, CreateTable
      <4>2. NextFile(s) \in Files
        BY <3>3, NextIs DEF PlanInv, Migrating, CreateTable
      <4>3. draft' = {[by |-> s, db |-> Created(db, NextFile(s))]}
        BY <3>3, <4>1 DEF CreateTable, Drafting, Created
      <4> QED
        BY <4>2, <4>3, CreatedIs DEF TypeOK
    <3>4. CASE RecordVersion(s)
      <4>1. NextFile(s) \in Files
        BY <3>4, NextIs DEF PlanInv, Migrating, RecordVersion
      <4>2. Mine(s) = Created(db, NextFile(s))
        BY <3>4, MineIs DEF TransactionInv, RecordVersion
      <4>3. draft' = {[by |-> s, db |-> Recorded(Created(db, NextFile(s)), NextFile(s))]}
        BY <3>4, <4>2 DEF RecordVersion, Drafting, Recorded
      <4> QED
        BY <4>1, <4>3, CreatedIs, RecordedFileIs DEF TypeOK
    <3>5. CASE CommitAdoption(s) \/ CommitMigration(s)
      BY <3>5 DEF CommitAdoption, CommitMigration, Commits
    <3>6. CASE \/ Start(s) \/ ReadTables(s) \/ ReadVersion(s) \/ EnsureTable(s) \/ Plan(s)
               \/ Finish(s)
      BY <3>6 DEF Start, ReadTables, ReadVersion, EnsureTable, Plan, Finish, TypeOK
    <3> QED
      BY <1>3, <3>1, <3>2, <3>3, <3>4, <3>5, <3>6
         DEF StartStep, Refuse, RollBack, BusyTimeout, AccessFails
  <2> QED
    BY <1>1, <2>1, <2>2, <2>3, <2>4, <2>5 DEF TypeOK, Conditions
<1>4. CASE Turns
  BY <1>4, MigrationsAssumption DEF Turns, Fault, TypeOK
<1>5. CASE Connects
  BY <1>5 DEF Connects, RequestsWal, TypeOK, Conditions
<1>6. CASE UNCHANGED vars
  BY <1>6 DEF vars, TypeOK
<1> QED
  <2>1. ASSUME NEW s \in Services, StartStep(s), Stops(s)
        PROVE  UNCHANGED faults
    BY <2>1 DEF StartStep, Start, ReadTables, ReadVersion, Refuse, EnsureTable, Adopt,
       CommitAdoption, Plan, BeginMigration, CreateTable, RecordVersion, CommitMigration,
       RollBack, BusyTimeout, Finish, AccessFails
  <2> QED
    BY <1>2, <1>3, <1>4, <1>5, <1>6, <2>1 DEF Next, Dies

(***************************************************************************)
(* What a start has read, what it plans, and what it has open.             *)
(***************************************************************************)
LEMMA NamesStay ==
  ASSUME StartInv, [Next]_vars
  PROVE  NamesInv'
<1> USE DEF StartInv
<1>1. Kept /\ FileInv'
  BY FileIsKept
<1>2. ASSUME NEW q \in Services, names'[q] = names[q], pc'[q] = pc[q]
      PROVE  /\ names'[q] \subseteq Existing(db)'
             /\ pc'[q] \in {"version", "adopt", "ensure"} /\ ~db'.tracked
                  => names'[q] = Existing(db)'
             /\ pc'[q] = "adopt" => Adoptable(names'[q]) # 0
             /\ pc'[q] = "ensure" => Adoptable(names'[q]) = 0
  <2>1. ~db'.tracked => Existing(db)' = Existing(db) /\ ~db.tracked
    BY <1>1 DEF Kept, Existing
  <2> QED
    BY <1>1, <1>2, <2>1 DEF Kept, NamesInv
<1>3. ASSUME NEW s \in Services, StartStep(s) \/ Dies(s)
      PROVE  /\ names'[s] \subseteq Existing(db)'
             /\ pc'[s] \in {"version", "adopt", "ensure"} /\ ~db'.tracked
                  => names'[s] = Existing(db)'
             /\ pc'[s] = "adopt" => Adoptable(names'[s]) # 0
             /\ pc'[s] = "ensure" => Adoptable(names'[s]) = 0
  <2>1. CASE Stops(s)
    BY <2>1 DEF Stops, Goto, TypeOK
  <2>2. CASE ReadTables(s)
    <3>1. names'[s] = Existing(db) \cap Files /\ pc'[s] = "version" /\ db' = db
      BY <2>2 DEF ReadTables, Goto, TypeOK
    <3>2. Existing(db)' = Existing(db)
      BY <3>1 DEF Existing
    <3> QED
      BY <3>1, <3>2 DEF FileInv
  <2>3. CASE ReadVersion(s)
    <3>1. /\ names'[s] = names[s] /\ pc[s] = "version" /\ db' = db
          /\ pc'[s] \in {"plan", "adopt", "ensure"}
          /\ pc'[s] = "adopt" => Adoptable(names[s]) # 0
          /\ pc'[s] = "ensure" => Adoptable(names[s]) = 0
      BY <2>3 DEF ReadVersion, Goto, TypeOK
    <3>2. Existing(db)' = Existing(db)
      BY <3>1 DEF Existing
    <3> QED
      BY <3>1, <3>2 DEF NamesInv
  <2>4. ASSUME names'[s] = names[s], pc'[s] \notin {"version", "adopt", "ensure"}
        PROVE  /\ names'[s] \subseteq Existing(db)'
               /\ pc'[s] \notin {"version", "adopt", "ensure"}
    BY <1>1, <2>4 DEF Kept, NamesInv
  <2>5. CASE ~Stops(s) /\ ~ReadTables(s) /\ ~ReadVersion(s)
    <3>1. names'[s] = names[s] /\ pc'[s] \notin {"version", "adopt", "ensure"}
      BY <1>3, <2>5 DEF StartStep, Dies, Start, Refuse, EnsureTable, Adopt, CommitAdoption, Plan,
         BeginMigration, CreateTable, RecordVersion, CommitMigration, RollBack, BusyTimeout,
         Finish, AccessFails, Goto, TypeOK
    <3> QED
      BY <2>4, <3>1
  <2> QED
    BY <2>1, <2>2, <2>3, <2>5
<1>4. CASE Connects \/ Turns \/ UNCHANGED vars
  BY <1>2, <1>4 DEF Connects, Turns, vars, NamesInv
<1> QED
  <2>1. ASSUME NEW s \in Services, StartStep(s) \/ Dies(s)
        PROVE  NamesInv'
    BY <1>2, <1>3, <2>1, OnlyItsOwn DEF NamesInv
  <2> QED
    BY <1>4, <2>1 DEF Next

LEMMA PlanStays ==
  ASSUME StartInv, [Next]_vars
  PROVE  PlanInv'
<1> USE DEF StartInv
<1> DEFINE Planned(q) ==
      /\ pc'[q] \in {"plan", "started"} \cup Migrating => db'.tracked
      /\ pc'[q] \in {"adopt", "ensure", "adopted", "started"} \cup Migrating
           => db'.history \subseteq Files
      /\ pc'[q] = "plan" /\ recorded'[q] <= Current => db'.history \subseteq Files
      /\ pc'[q] \in Migrating
           => /\ Files \ pending'[q] \subseteq db'.history
              /\ \A v \in pending'[q], w \in Files : v < w => w \in pending'[q]
      /\ pc'[q] \in Migrating \ {"begin"} => pending'[q] # {}
      /\ pc'[q] = "started" => Files \subseteq db'.history
<1>1. Kept /\ FileInv'
  BY FileIsKept
<1>2. ASSUME NEW q \in Services, pc'[q] = pc[q], recorded'[q] = recorded[q],
             pending'[q] = pending[q]
      PROVE  Planned(q)
  BY <1>1, <1>2 DEF Kept, PlanInv
<1>3. ASSUME NEW s \in Services, StartStep(s) \/ Dies(s)
      PROVE  Planned(s)
  <2> USE DEF Goto, TypeOK, Migrating
  <2>1. CASE Stops(s)
    BY <2>1 DEF Stops
  <2>2. CASE Start(s) \/ ReadTables(s)
    BY <2>2 DEF Start, ReadTables
  <2>3. CASE ReadVersion(s)
    <3>1. CASE RecordedVersion(db) # 0
      <4>1. /\ pc'[s] = "plan" /\ recorded'[s] = RecordedVersion(db) /\ db' = db
        BY <2>3, <3>1 DEF ReadVersion
      <4>2. db.tracked /\ db.history = 1..RecordedVersion(db) /\ RecordedVersion(db) \in Nat
        BY <3>1, HistoryIs, MigrationsAssumption
      <4>3. RecordedVersion(db) <= Current => db.history \subseteq Files
        BY <4>2, MigrationsAssumption DEF Files
      <4> QED
        BY <4>1, <4>2, <4>3
    <3>2. CASE RecordedVersion(db) = 0
      <4>1. pc'[s] \in {"adopt", "ensure"} /\ db' = db
        BY <2>3, <3>2 DEF ReadVersion
      <4>2. db.history = {}
        BY <3>2, HistoryIs
      <4> QED
        BY <4>1, <4>2
    <3> QED
      BY <3>1, <3>2
  <2>4. CASE EnsureTable(s)
    <3>1. pc[s] = "ensure" /\ pc'[s] = "plan" /\ db'.tracked
      <4>1. db' = [db EXCEPT !.tracked = TRUE] /\ db \in Database
        BY <2>4 DEF EnsureTable
      <4>2. db'.tracked
        BY <4>1 DEF Database
      <4> QED
        BY <2>4, <4>2 DEF EnsureTable
    <3>2. db'.history \subseteq Files
      BY <1>1, <3>1 DEF Kept, PlanInv
    <3> QED
      BY <3>1, <3>2
  <2>5. CASE Adopt(s) /\ ~Stops(s)
    <3>1. pc[s] = "adopt" /\ pc'[s] = "adopted" /\ db' = db
      BY <2>5 DEF Adopt
    <3> QED
      BY <3>1 DEF PlanInv
  <2>6. CASE CommitAdoption(s)
    <3>1. pc[s] = "adopted" /\ pc'[s] = "plan"
      BY <2>6 DEF CommitAdoption
    <3>2. db'.tracked
      BY <2>6, AdoptionWrites
    <3>3. db'.history \subseteq Files
      BY <1>1, <3>1 DEF Kept, PlanInv
    <3> QED
      BY <3>1, <3>2, <3>3
  <2>7. CASE Plan(s)
    <3>1. /\ pc[s] = "plan" /\ recorded[s] <= Current /\ pc'[s] = "begin" /\ db' = db
          /\ pending'[s] = Files \ db.history
      BY <2>7, MigrationsAssumption DEF Plan, Refused
    <3>2. db.tracked /\ db.history \subseteq Files
      BY <3>1 DEF PlanInv
    <3>3. PICK n \in Nat : db.history = 1..n
      BY HistoryIs
    <3>4. \A v \in Files \ db.history, w \in Files : v < w => w \in Files \ db.history
      BY <3>3, MigrationsAssumption DEF Files
    <3> QED
      BY <3>1, <3>2, <3>4
  <2>8. CASE BeginMigration(s)
    BY <2>8 DEF BeginMigration, PlanInv
  <2>9. CASE CreateTable(s)
    BY <2>9 DEF CreateTable, PlanInv
  <2>10. CASE RecordVersion(s)
    BY <2>10 DEF RecordVersion, PlanInv
  <2>11. CASE CommitMigration(s)
    <3>1. /\ pc[s] = "commit" /\ pc'[s] = "begin"
          /\ pending'[s] = pending[s] \ {NextFile(s)}
      BY <2>11 DEF CommitMigration
    <3>2. /\ pending[s] # {} /\ db.history \subseteq Files /\ Files \ pending[s] \subseteq db.history
          /\ \A v \in pending[s], w \in Files : v < w => w \in pending[s]
      BY <3>1 DEF PlanInv
    <3>3. \A w \in pending[s] : NextFile(s) <= w
      BY <3>2, NextIs
    <3>4. PICK n \in 0..(Current - 1) :
            /\ NextFile(s) = n + 1 /\ db.history = 1..n
            /\ db'.tracked /\ db'.history = 1..(n + 1)
      BY <2>11, MigrationWrites
    <3>5. NextFile(s) \in db'.history
      BY <3>4
    <3>6. db'.history \subseteq Files /\ db.history \subseteq db'.history
      BY <1>1, <3>2 DEF Kept
    <3>7. Files \ pending'[s] \subseteq db'.history
      BY <3>1, <3>2, <3>5, <3>6
    <3>8. \A v \in pending'[s], w \in Files : v < w => w \in pending'[s]
      <4> SUFFICES ASSUME NEW v \in pending[s], v # NextFile(s), NEW w \in Files, v < w
                   PROVE  w \in pending[s] /\ w # NextFile(s)
        BY <3>1
      <4>1. NextFile(s) <= v /\ v \in Nat /\ w \in Nat /\ NextFile(s) \in Nat
        BY <3>3, <3>4, FilesAreVersions
      <4> QED
        BY <3>2, <4>1
    <3> QED
      BY <3>1, <3>4, <3>6, <3>7, <3>8
  <2>12. CASE Finish(s)
    <3>1. pc[s] = "begin" /\ pc'[s] = "started" /\ pending[s] = {} /\ db' = db
      BY <2>12 DEF Finish
    <3> QED
      BY <3>1 DEF PlanInv
  <2> QED
    BY <1>3, <2>1, <2>2, <2>3, <2>4, <2>5, <2>6, <2>7, <2>8, <2>9, <2>10, <2>11, <2>12
       DEF StartStep, Dies, Refuse, RollBack, BusyTimeout, AccessFails
<1>4. CASE Connects \/ Turns \/ UNCHANGED vars
  BY <1>2, <1>4 DEF Connects, Turns, vars, PlanInv
<1> QED
  <2>1. ASSUME NEW s \in Services, StartStep(s) \/ Dies(s)
        PROVE  \A q \in Services : Planned(q)
    BY <1>2, <1>3, <2>1, OnlyItsOwn
  <2> QED
    BY <1>4, <2>1 DEF Next, PlanInv

LEMMA TransactionStays ==
  ASSUME StartInv, [Next]_vars
  PROVE  TransactionInv'
<1> USE DEF StartInv
<1> DEFINE Open(q) ==
      /\ pc'[q] = "adopted"
           => /\ draft' = {[by |-> q, db |-> Adopted(db', Adoptable(names'[q]))]}
              /\ Adoptable(names'[q]) # 0 /\ ~db'.tracked
              /\ Existing(db)' = 1..Adoptable(names'[q])
              /\ \A w \in 1..Adoptable(names'[q]) : db'.tables[w] # "foreign"
      /\ pc'[q] = "create" => draft' = {[by |-> q, db |-> db']}
      /\ pc'[q] = "record" => draft' = {[by |-> q, db |-> Created(db', NextFile(q)')]}
      /\ pc'[q] = "commit"
           => /\ draft' = {[by |-> q, db |-> Recorded(Created(db', NextFile(q)'), NextFile(q)')]}
              /\ NextFile(q)' \notin db'.history
<1>1. ASSUME NEW q \in Services, pc'[q] = pc[q], names'[q] = names[q],
             pending'[q] = pending[q],
             pc[q] \in {"adopted", "create", "record", "commit"} => draft' = draft /\ db' = db
      PROVE  Open(q)
  <2>1. NextFile(q)' = NextFile(q)
    BY <1>1 DEF NextFile
  <2>2. db' = db => Existing(db)' = Existing(db)
    BY DEF Existing
  <2> QED
    BY <1>1, <2>1, <2>2 DEF TransactionInv
<1>2. ASSUME NEW s \in Services, StartStep(s) \/ Dies(s), NEW q \in Services, q # s
      PROVE  Open(q)
  <2>1. pc[q] \in {"adopted", "create", "record", "commit"} => draft' = draft /\ db' = db
    <3> SUFFICES ASSUME pc[q] \in {"adopted", "create", "record", "commit"}
                 PROVE  draft' = draft /\ db' = db
      OBVIOUS
    <3>1. \E d : draft = {[by |-> q, db |-> d]}
      BY DEF TransactionInv
    <3> QED
      BY <1>2, <3>1, TransactionIsOwned
  <2> QED
    BY <1>1, <1>2, <2>1, OnlyItsOwn
<1>3. ASSUME NEW s \in Services, StartStep(s) \/ Dies(s)
      PROVE  Open(s)
  <2> USE DEF Goto, TypeOK
  <2>1. CASE Adopt(s) /\ ~Stops(s)
    <3> DEFINE n == Adoptable(names[s])
    <3>1. /\ pc[s] = "adopt" /\ pc'[s] = "adopted" /\ names'[s] = names[s] /\ db' = db
          /\ 1..n \cap db.history = {} /\ Stray(names[s]) = {} /\ SupportedShape(n)
      BY <2>1 DEF Adopt, Refused
    <3>2. draft' = {[by |-> s, db |-> Adopted(db, n)]}
      BY <2>1 DEF Adopt, Begins, Adopted
    <3>3. n # 0 /\ names[s] \subseteq Existing(db) /\ (~db.tracked => names[s] = Existing(db))
      BY <3>1 DEF NamesInv
    <3>4. n \in 0..Current /\ 1..n \subseteq names[s] /\ names[s] = 1..n
      BY <3>1, AdoptableIs
    <3>5. ~db.tracked
      <4>1. 1 \in 1..n
        BY <3>3, <3>4, MigrationsAssumption
      <4> QED
        BY <3>1, <3>3, <3>4, <4>1 DEF FileInv
    <3>6. Existing(db)' = 1..n
      BY <3>1, <3>3, <3>4, <3>5 DEF Existing
    <3> QED
      BY <3>1, <3>2, <3>3, <3>5, <3>6 DEF SupportedShape
  <2>2. CASE BeginMigration(s)
    BY <2>2 DEF BeginMigration, Begins
  <2>3. CASE CreateTable(s)
    <3>1. Mine(s) = db
      BY <2>3, MineIs DEF TransactionInv, CreateTable
    <3>2. draft' = {[by |-> s, db |-> Created(db, NextFile(s))]}
      BY <2>3, <3>1 DEF CreateTable, Drafting, Created
    <3>3. pc'[s] = "record" /\ db' = db /\ NextFile(s)' = NextFile(s)
      BY <2>3 DEF CreateTable, NextFile
    <3> QED
      BY <3>2, <3>3
  <2>4. CASE RecordVersion(s)
    <3>1. NextFile(s) \in Files
      BY <2>4, NextIs DEF PlanInv, Migrating, RecordVersion
    <3>2. Mine(s) = Created(db, NextFile(s))
      BY <2>4, MineIs DEF TransactionInv, RecordVersion
    <3>3. draft' = {[by |-> s, db |-> Recorded(Created(db, NextFile(s)), NextFile(s))]}
      BY <2>4, <3>2 DEF RecordVersion, Drafting, Recorded
    <3>4. NextFile(s) \notin db.history
      BY <2>4, <3>1, <3>2, CreatedIs DEF RecordVersion
    <3>5. pc'[s] = "commit" /\ db' = db /\ NextFile(s)' = NextFile(s)
      BY <2>4 DEF RecordVersion, NextFile
    <3> QED
      BY <3>3, <3>4, <3>5
  <2>5. ASSUME \/ Stops(s)
               \/ ~Adopt(s) /\ ~BeginMigration(s) /\ ~CreateTable(s) /\ ~RecordVersion(s)
        PROVE  pc'[s] \notin {"adopted", "create", "record", "commit"}
    <3>1. CASE Stops(s)
      BY <3>1 DEF Stops
    <3>2. CASE ~Stops(s)
      BY <1>3, <2>5, <3>2 DEF StartStep, Dies, Start, ReadTables, ReadVersion, Refuse,
         EnsureTable, CommitAdoption, Plan, CommitMigration, RollBack, BusyTimeout, Finish,
         AccessFails
    <3> QED
      BY <3>1, <3>2
  <2> QED
    BY <2>1, <2>2, <2>3, <2>4, <2>5
<1>4. CASE Connects \/ Turns \/ UNCHANGED vars
  BY <1>1, <1>4 DEF Connects, Turns, vars, TransactionInv
<1> QED
  <2>1. ASSUME NEW s \in Services, StartStep(s) \/ Dies(s)
        PROVE  \A q \in Services : Open(q)
    BY <1>2, <1>3, <2>1
  <2>2. (\A q \in Services : Open(q)) => TransactionInv'
    BY DEF TransactionInv
  <2> QED
    BY <1>4, <2>1, <2>2 DEF Next

(***************************************************************************)
(* The file, whoever starts against it.                                    *)
(***************************************************************************)
LEMMA StartStarts == Init => StartInv
<1> SUFFICES ASSUME Init PROVE StartInv
  OBVIOUS
<1> USE MigrationsAssumption, FilesAreVersions
<1>1. CASE \E t \in [Files -> Origins \ {"migrated"}] :
             db = [tables |-> [v \in Versions |-> IF v \in Files THEN t[v] ELSE "absent"],
                   tracked |-> FALSE, history |-> {}]
  <2>1. PICK t \in [Files -> Origins \ {"migrated"}] :
               db = [tables |-> [v \in Versions |-> IF v \in Files THEN t[v] ELSE "absent"],
                     tracked |-> FALSE, history |-> {}]
    BY <1>1
  <2>2. db \in Database
    BY <2>1 DEF Database, Origins
  <2>3. 1..0 = {}
    OBVIOUS
  <2>4. FileInv
    BY <2>1, <2>3 DEF FileInv, Existing, RecordedVersion
  <2> QED
    BY <2>2, <2>4 DEF Init, StartInv, TypeOK, NamesInv, PlanInv, Migrating, TransactionInv,
       Conditions
<1>2. CASE \E n \in 0..(Current + Ahead) :
             db = [tables |-> [v \in Versions |-> IF v <= n THEN "migrated" ELSE "absent"],
                   tracked |-> TRUE, history |-> 1..n]
  <2>1. PICK n \in 0..(Current + Ahead) :
               db = [tables |-> [v \in Versions |-> IF v <= n THEN "migrated" ELSE "absent"],
                     tracked |-> TRUE, history |-> 1..n]
    BY <1>2
  <2>2. 1..n \subseteq Versions /\ n \in Nat
    BY DEF Versions
  <2>3. db \in Database
    BY <2>1, <2>2 DEF Database, Origins
  <2>4. Existing(db) = 1..n
    BY <2>1, <2>2 DEF Existing, Versions
  <2>5. RecordedVersion(db) = n
    BY <2>1, <2>2, RecordedIs
  <2>6. FileInv
    BY <2>1, <2>4, <2>5 DEF FileInv
  <2> QED
    BY <2>3, <2>6 DEF Init, StartInv, TypeOK, NamesInv, PlanInv, Migrating, TransactionInv,
       Conditions
<1> QED
  BY <1>1, <1>2 DEF Init, Presented

\* A service that has started leaves the migrations alone.
LEMMA ServiceSteps == [ServiceNext]_allVars => [Next]_vars
BY DEF ServiceNext, MonitorStep, BeginCheck, CheckIntegrity, CheckSchema, Concludes,
   RecordObservation, ObservationFails, MonitorDies, Next, allVars

LEMMA StartHolds == ServiceSpec => []StartInv
<1>1. StartInv /\ [Next]_vars => StartInv'
  BY StartTyped, FileIsKept, NamesStay, PlanStays, TransactionStays DEF StartInv
<1> QED
  BY <1>1, StartStarts, ServiceSteps, PTL DEF ServiceSpec, ServiceInit

\* Deaths, failed statements and competing starts leave no migration half applied,
\* nor recorded without its table, nor its table without the record.
THEOREM HistoryDescribes == ServiceSpec => []HistoryDescribesTables
<1>1. StartInv => HistoryDescribesTables
  BY DEF StartInv, FileInv, HistoryDescribesTables
<1> QED
  BY <1>1, StartHolds, PTL

\* A service that has started runs on the very schema its code was written for.
THEOREM StartedIsCurrent == ServiceSpec => []StartedMeansCurrent
<1>1. StartInv => StartedMeansCurrent
  <2> SUFFICES ASSUME StartInv, NEW s \in Services, pc[s] = "started"
               PROVE  db.history = Files
                        /\ \A v \in Files : db.tables[v] \in {"migrated", "inherited"}
    BY DEF StartedMeansCurrent
  <2>1. db.tracked /\ db.history = Files
    BY DEF StartInv, PlanInv
  <2>2. Existing(db) = Files /\ \A v \in Versions : db.tables[v] # "foreign"
    BY <2>1 DEF StartInv, FileInv
  <2>3. \A v \in Files : db.tables[v] \in Origins /\ db.tables[v] # "absent"
    BY <2>2, FilesAreVersions DEF StartInv, TypeOK, Database, Existing
  <2> QED
    BY <2>1, <2>2, <2>3, FilesAreVersions DEF Origins
<1> QED
  BY <1>1, StartHolds, PTL

(***************************************************************************)
(* The file as a schema version.                                           *)
(***************************************************************************)
LEMMA IntervalsCount == \A n \in Nat : Cardinality(1..n) = n
BY FS_Interval

LEMMA EnsureRefines ==
  ASSUME StartInv, NEW s \in Services, EnsureTable(s), db' # db
  PROVE  UNCHANGED <<Level, db.history, Inherited>>
<1> USE DEF StartInv
<1>1. /\ ~db.tracked /\ Existing(db) = {}
      /\ db' \in Database /\ db'.tracked /\ db'.tables = db.tables /\ db'.history = db.history
  BY EnsureWrites
<1>2. RecordedVersion(db) = 0 /\ db'.history = 1..0
  BY <1>1, HistoryIs DEF FileInv
<1>3. RecordedVersion(db') = 0 /\ Existing(db') = {}
  <2>1. 0 \in Nat /\ db'.tracked /\ db'.history = 1..0
    BY <1>1, <1>2
  <2>2. RecordedVersion(db') = 0
    BY <2>1, RecordedIs
  <2> QED
    BY <1>1, <2>2 DEF Existing
<1>4. ~Unrecognised(db) /\ ~Unrecognised(db')
  BY <1>1, <1>2, <1>3, MigrationsAssumption DEF Unrecognised, Stray
<1> QED
  BY <1>1, <1>2, <1>3, <1>4 DEF Level, Inherited

LEMMA AdoptionRefines ==
  ASSUME StartInv, NEW s \in Services, CommitAdoption(s)
  PROVE  Schema!Adopt
<1> USE DEF StartInv
<1>1. PICK n \in 1..Current :
         /\ ~db.tracked /\ db.history = {} /\ Existing(db) = 1..n
         /\ \A w \in 1..n : db.tables[w] # "foreign"
         /\ db' \in Database /\ db'.tracked /\ db'.tables = db.tables
         /\ db'.history = 1..n
  BY AdoptionWrites
<1>2. n \in Nat /\ n # 0 /\ n \in 1..n /\ 1..n \subseteq Files
  BY MigrationsAssumption DEF Files
<1>3. RecordedVersion(db) = 0 /\ RecordedVersion(db') = n /\ Existing(db') = 1..n
  BY <1>1, <1>2, HistoryIs, RecordedIs DEF Existing
<1>4. Stray(1..n) = {}
  <2>1. n <= Adoptable(1..n) /\ Adoptable(1..n) \in Nat
    BY <1>2, AdoptableIs, MigrationsAssumption
  <2> QED
    BY <1>2, <2>1 DEF Stray
<1>5. ~Unrecognised(db)
  BY <1>1, <1>3, <1>4, MigrationsAssumption DEF Unrecognised
<1>6. Level = {n} /\ Level' = {n}
  BY <1>1, <1>2, <1>3, <1>5, IntervalsCount DEF Level
<1>7. Inherited' = Inherited
  BY <1>1 DEF Inherited
<1> QED
  BY <1>1, <1>2, <1>6, <1>7 DEF Schema!Adopt

LEMMA MigrationRefines ==
  ASSUME StartInv, NEW s \in Services, CommitMigration(s)
  PROVE  Schema!Upgrade
<1> USE DEF StartInv
<1>1. PICK n \in 0..(Current - 1) :
         /\ NextFile(s) = n + 1 /\ db.tracked /\ db.history = 1..n
         /\ db' \in Database /\ db'.tracked /\ db'.history = 1..(n + 1)
         /\ \A w \in Versions : db'.tables[w] = IF w = n + 1 THEN "migrated" ELSE db.tables[w]
         /\ db.tables[n + 1] = "absent"
  BY MigrationWrites
<1>2. n \in Nat /\ n + 1 \in Nat /\ n < Current
  BY MigrationsAssumption
<1>3. RecordedVersion(db) = n /\ RecordedVersion(db') = n + 1
  BY <1>1, <1>2, RecordedIs
<1>4. Existing(db) = 1..n
  BY <1>1 DEF FileInv
<1>5. Existing(db') = 1..(n + 1)
  <2>1. n + 1 \in Versions
    BY <1>2, MigrationsAssumption DEF Versions
  <2>2. Existing(db') = Existing(db) \cup {n + 1}
    BY <1>1, <2>1 DEF Existing
  <2>3. (1..n) \cup {n + 1} = 1..(n + 1)
    BY <1>2
  <2> QED
    BY <1>4, <2>2, <2>3
<1>6. ~(RecordedVersion(db) = 0 /\ Unrecognised(db)) /\ RecordedVersion(db') # 0
  BY <1>1, <1>2, <1>3, MigrationsAssumption DEF Unrecognised
<1>7. Level = {n} /\ Level' = {n + 1}
  BY <1>2, <1>3, <1>4, <1>5, <1>6, IntervalsCount DEF Level
<1>8. Inherited' = Inherited
  BY <1>1 DEF Inherited
<1> QED
  BY <1>1, <1>2, <1>7, <1>8 DEF Schema!Upgrade

\* The file goes up one released version at a time, each with its record; what an
\* older build filled stays; and a file that is not recognised, or is ahead of this
\* build, is left as it was found.
THEOREM VersionsRefined == ServiceSpec => ImplementsSchemaVersions
<1>1. StartInv => Schema!Init
  <2> SUFFICES ASSUME StartInv PROVE Schema!Init
    OBVIOUS
  <2>1. Existing(db) \in SUBSET Versions /\ db.history \in SUBSET Versions
    BY DEF StartInv, TypeOK, Database, Existing
  <2>2. Cardinality(Existing(db)) \in Nat
    <3>1. IsFiniteSet(Versions)
      BY MigrationsAssumption, FS_Interval DEF Versions
    <3> QED
      BY <2>1, <3>1, FS_Subset, FS_CardinalityType
  <2>3. Level \subseteq Nat /\ \A m, n \in Level : m = n
    BY <2>2 DEF Level
  <2>4. db.history \subseteq Nat /\ Inherited \subseteq Nat
    BY <2>1, FilesAreVersions DEF Inherited
  <2> QED
    BY <2>3, <2>4 DEF Schema!Init
<1>2. StartInv /\ [Next]_vars => [Schema!Adopt \/ Schema!Upgrade]_<<Level, db.history, Inherited>>
  <2>1. ASSUME db' = db
        PROVE  UNCHANGED <<Level, db.history, Inherited>>
    BY <2>1 DEF Level, Inherited
  <2> QED
    BY <2>1, FileChanges, EnsureRefines, AdoptionRefines, MigrationRefines DEF Writes
<1> QED
  BY <1>1, <1>2, StartHolds, ServiceSteps, PTL
     DEF ServiceSpec, ImplementsSchemaVersions, Schema!Spec

(***************************************************************************)
(* The timeline of a running service.                                      *)
(***************************************************************************)
LEMMA ResultsAre ==
  ASSUME TypeOK, FileInv
  PROVE  /\ Unusable \in Results /\ Unusable.status = "unhealthy"
         /\ Inspected \in Results
<1>1. Unusable \in Results /\ Unusable.status = "unhealthy"
  BY DEF Unusable, Result, Results
<1>2. \A st \in {"healthy", "degraded", "unhealthy"},
         m \in {"current", "pending", "ahead", "unknown"} : Result(st, m) \in Results
  BY DEF Result, Results
<1>3. RecordedVersion(db) \in Nat /\ Current \in Nat
  BY HistoryIs, MigrationsAssumption
<1>4. Inspected \in Results
  <2>1. \/ RecordedVersion(db) = 0 \/ RecordedVersion(db) > Current
        \/ 0 < RecordedVersion(db) /\ RecordedVersion(db) < Current
        \/ RecordedVersion(db) = Current
    BY <1>3
  <2>2. Inspected \in {Unusable, Result("unhealthy", "ahead"), Result("degraded", "pending"),
                      Result(IF file = "wal" THEN "healthy" ELSE "degraded", "current")}
    BY <2>1, Zenon DEF Inspected
  <2> QED
    BY <1>1, <1>2, <2>2
<1> QED
  BY <1>1, <1>4

MonitorsInv == MonitorTypeOK /\ ObservedInv

\* A check concludes with one result, which is observed unless it is the last one's.
LEMMA ConclusionStays ==
  ASSUME MonitorsInv, NEW s \in Services, check[s] # "record", NEW h \in Results, Concludes(s, h)
  PROVE  MonitorsInv'
<1> USE DEF MonitorsInv
<1>1. MonitorTypeOK'
  BY DEF MonitorTypeOK, Concludes, AtMostOne
<1>2. ASSUME NEW q \in Services, check'[q] # "record", NEW g \in latest'[q],
             Persistable(g), ~unwritten'[q]
      PROVE  row'[q] = {g} /\ ~outage'[q]
  <2>1. CASE q # s
    BY <1>2, <2>1 DEF Concludes, MonitorTypeOK, ObservedInv
  <2>2. CASE q = s
    <3>1. g = h /\ latest[s] = {h} /\ ~unwritten[s]
      BY <1>2, <2>2 DEF Concludes, MonitorTypeOK, Material
    <3>2. row[s] = {h} /\ ~outage[s] /\ h.status # "unhealthy"
      BY <1>2, <3>1 DEF ObservedInv, Persistable
    <3> QED
      BY <2>2, <3>1, <3>2 DEF Concludes, MonitorTypeOK
  <2> QED
    BY <2>1, <2>2
<1> QED
  BY <1>1, <1>2 DEF ObservedInv, Persistable

LEMMA MonitorsStay ==
  ASSUME StartInv, MonitorsInv, [ServiceNext]_allVars
  PROVE  MonitorsInv'
<1>1. CASE UNCHANGED monitorVars
  BY <1>1 DEF MonitorsInv, MonitorTypeOK, ObservedInv, monitorVars, Persistable
<1>2. ASSUME NEW s \in Services, BeginCheck(s)
      PROVE  MonitorsInv'
  BY <1>2 DEF BeginCheck, MonitorsInv, MonitorTypeOK, ObservedInv
<1>3. ASSUME NEW s \in Services, CheckIntegrity(s)
      PROVE  MonitorsInv'
  <2>1. CASE Readable
    BY <1>3, <2>1 DEF CheckIntegrity, MonitorsInv, MonitorTypeOK, ObservedInv
  <2>2. CASE ~Readable
    BY <1>3, <2>2, ConclusionStays, ResultsAre DEF CheckIntegrity, StartInv
  <2> QED
    BY <2>1, <2>2
<1>4. ASSUME NEW s \in Services, CheckSchema(s)
      PROVE  MonitorsInv'
  BY <1>4, ConclusionStays, ResultsAre DEF CheckSchema, StartInv
<1>5. ASSUME NEW s \in Services, RecordObservation(s)
      PROVE  MonitorsInv'
  <2>1. MonitorTypeOK'
    BY <1>5 DEF RecordObservation, MonitorsInv, MonitorTypeOK
  <2>2. \A h \in latest[s] : latest[s] = {h}
    BY DEF MonitorsInv, MonitorTypeOK, AtMostOne
  <2> QED
    BY <1>5, <2>1, <2>2 DEF RecordObservation, MonitorsInv, MonitorTypeOK, ObservedInv
<1>6. ASSUME NEW s \in Services, ObservationFails(s)
      PROVE  MonitorsInv'
  BY <1>6 DEF ObservationFails, MonitorsInv, MonitorTypeOK, ObservedInv
<1>7. ASSUME NEW s \in Services, MonitorDies(s)
      PROVE  MonitorsInv'
  BY <1>7 DEF MonitorDies, MonitorsInv, MonitorTypeOK, ObservedInv, AtMostOne
<1> QED
  BY <1>1, <1>2, <1>3, <1>4, <1>5, <1>6, <1>7 DEF ServiceNext, MonitorStep, allVars, monitorVars

\* What /health reports and what the timeline says agree between two checks, unless
\* the file could not take the observation.
THEOREM MonitorHolds == ServiceSpec => []MonitorInv
<1>1. ServiceInit => MonitorsInv
  BY DEF ServiceInit, MonitorInit, MonitorsInv, MonitorTypeOK, ObservedInv, AtMostOne
<1>2. StartInv /\ MonitorsInv => MonitorInv
  BY DEF StartInv, MonitorsInv, MonitorInv, ServiceTypeOK, TimelineFollowsState, ObservedInv
<1> QED
  BY <1>1, <1>2, MonitorsStay, StartHolds, PTL DEF ServiceSpec
=============================================================================
