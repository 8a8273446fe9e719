----------------------------- MODULE Migrations -----------------------------
(***************************************************************************)
(* apply_migrations of src/mgo/core/database.py, as the application runs   *)
(* it each time it starts: the tables and the recorded version are read,   *)
(* an unversioned database is recognised and adopted or refused, and the   *)
(* migrations that are missing run one by one, each in a transaction of    *)
(* its own with the row that records it.                                   *)
(*                                                                         *)
(* Two services may start against one file, each may be killed between two *)
(* statements, a statement may fail, and the file itself may go bad and be *)
(* repaired.  SQLite is external: one writer at a time holds a draft of    *)
(* the database, which a commit puts in place and a rollback, a closed     *)
(* connection or a death discards.                                         *)
(*                                                                         *)
(* Data abstraction.  Every version of this schema introduces one table    *)
(* (_VERSION_TABLES), so a table is named by its version; its rows and its *)
(* shape are reduced to who created it.                                    *)
(***************************************************************************)
EXTENDS Naturals, FiniteSets

CONSTANTS
  Services,     \* the processes that start against the file
  Current,      \* CURRENT_SCHEMA_VERSION, and the number of migration files
  Ahead,        \* bound: the versions newer builds may have recorded
  Lenient,      \* the migrations written with IF NOT EXISTS
  MaxFaults     \* bound: deaths, failed statements and turns of the file

Versions == 1..(Current + Ahead)
Files == 1..Current            \* _migration_paths(), in ascending order

ASSUME MigrationsAssumption ==
  /\ Current \in Nat \ {0} /\ Ahead \in Nat /\ MaxFaults \in Nat
  /\ Lenient \subseteq Files
  /\ IsFiniteSet(Services)

VARIABLES
  db,           \* the committed database
  draft,        \* {}, or what the one open transaction would commit, and whose
  file,         \* whether the file can be read, and its journal mode
  pc,           \* where each service is in its start
  names,        \* the tables a service found
  recorded,     \* the version it found recorded, 0 for None
  pending,      \* the migrations it has still to apply
  faults        \* how many faults there have been

vars == <<db, draft, file, pc, names, recorded, pending, faults>>

\* Nobody created it; a migration of ours; an older build, in the supported
\* shape or in another one.
Origins == {"absent", "migrated", "inherited", "foreign"}

\* tables: who created each; tracked: schema_migrations exists; history: its rows.
Database == [tables : [Versions -> Origins], tracked : BOOLEAN, history : SUBSET Versions]

Conditions == {"wal", "other journal", "damaged"}

TypeOK ==
  /\ db \in Database
  /\ draft = {} \/ \E s \in Services, d \in Database : draft = {[by |-> s, db |-> d]}
  /\ file \in Conditions
  /\ pc \in [Services -> {"stopped", "tables", "version", "adopt", "adopted", "ensure",
                          "plan", "begin", "create", "record", "commit", "started"}]
  /\ names \in [Services -> SUBSET Files]
  /\ recorded \in [Services -> 0..(Current + Ahead)]
  /\ pending \in [Services -> SUBSET Files]
  /\ faults \in 0..MaxFaults

Existing(d) == {v \in Versions : d.tables[v] # "absent"}

\* The databases a deployment can present: untracked tables of this or of some
\* other application, or the file a service of this or a newer build left.
Presented ==
  {[tables |-> [v \in Versions |-> IF v \in Files THEN t[v] ELSE "absent"],
    tracked |-> FALSE, history |-> {}] : t \in [Files -> Origins \ {"migrated"}]}
  \cup
  {[tables |-> [v \in Versions |-> IF v <= n THEN "migrated" ELSE "absent"],
    tracked |-> TRUE, history |-> 1..n] : n \in 0..(Current + Ahead)}

Init == /\ db \in Presented
        /\ draft = {}
        /\ file = "wal"
        /\ pc = [s \in Services |-> "stopped"]
        /\ names = [s \in Services |-> {}]
        /\ recorded = [s \in Services |-> 0]
        /\ pending = [s \in Services |-> {}]
        /\ faults = 0

-----------------------------------------------------------------------------
(* What one starting service knows, and forgets when it ends.              *)

Readable == file # "damaged"

Goto(s, l) == pc' = [pc EXCEPT ![s] = l]

Highest(H) == CHOOSE v \in H \cup {0} : \A w \in H : w <= v

\* schema_version: no history table and an empty one are both None.
RecordedVersion(d) == IF d.tracked THEN Highest(d.history) ELSE 0

\* _adoptable_version: the versions present with every version beneath them...
Adoptable(N) == Highest({v \in N : 1..v \subseteq N})

\* Fault: a later version's tables without the earlier ones go unnoticed.
StrayUnnoticed(N) == {}

\* ...unless some other table is there without the schema beneath it.
Stray(N) == N \ (1..Adoptable(N))

\* _verify_adoptable_shape, over the tables as they are now.
SupportedShape(v) == \A w \in 1..v : db.tables[w] # "foreign"

\* Fault: the connection of a failed start is not closed.
StopsHoldingTheLock(s) == /\ Goto(s, "stopped")
                          /\ names' = [names EXCEPT ![s] = {}]
                          /\ recorded' = [recorded EXCEPT ![s] = 0]
                          /\ pending' = [pending EXCEPT ![s] = {}]
                          /\ UNCHANGED <<db, file, draft>>

\* What is left of a service that stops, whatever stopped it.
Stops(s) == /\ Goto(s, "stopped")
            /\ draft' = {t \in draft : t.by # s}
            /\ names' = [names EXCEPT ![s] = {}]
            /\ recorded' = [recorded EXCEPT ![s] = 0]
            /\ pending' = [pending EXCEPT ![s] = {}]
            /\ UNCHANGED <<db, file>>

Fault == faults < MaxFaults /\ faults' = faults + 1

-----------------------------------------------------------------------------
(* Reading the database and deciding what it is.                           *)

\* connect asks for WAL journalling on every read-write connection, and does not
\* ask whether it was granted: it may be while no transaction is open.
RequestsWal == \/ UNCHANGED file
               \/ file = "other journal" /\ draft = {} /\ file' = "wal"

\* apply_migrations opens its connection.
Start(s) == /\ pc[s] = "stopped"
            /\ RequestsWal
            /\ Goto(s, "tables")
            /\ UNCHANGED <<db, draft, names, recorded, pending, faults>>

\* A connection of a running service, or of a command of a timer.
Connects == /\ RequestsWal
            /\ UNCHANGED <<db, draft, pc, names, recorded, pending, faults>>

ReadTables(s) == /\ pc[s] = "tables" /\ Readable
                 /\ names' = [names EXCEPT ![s] = Existing(db) \cap Files]
                 /\ Goto(s, "version")
                 /\ UNCHANGED <<db, draft, file, recorded, pending, faults>>

\* schema_version, and where its answer leads.
ReadVersion(s) ==
  /\ pc[s] = "version" /\ Readable
  /\ LET v == RecordedVersion(db)
     IN /\ recorded' = [recorded EXCEPT ![s] = v]
        /\ Goto(s, IF v # 0 THEN "plan"
                   ELSE IF Adoptable(names[s]) # 0 THEN "adopt" ELSE "ensure")
  /\ UNCHANGED <<db, draft, file, names, pending, faults>>

\* Fault: a newer version is taken for an up-to-date one.
RefusedUnlessAhead(s) == \/ pc[s] \in {"adopt", "ensure"} /\ Stray(names[s]) # {}
                         \/ pc[s] = "adopt" /\ ~SupportedShape(Adoptable(names[s]))

\* The three ways a database is refused: tables that form no version, tables of
\* an unsupported shape, and a version newer than this build's.
Refused(s) == \/ pc[s] \in {"adopt", "ensure"} /\ Stray(names[s]) # {}
              \/ pc[s] = "adopt" /\ ~SupportedShape(Adoptable(names[s]))
              \/ pc[s] = "plan" /\ recorded[s] > Current

\* IncompatibleSchemaError leaves apply_migrations and ends the start.
Refuse(s) == /\ Readable /\ Refused(s)
             /\ Stops(s)
             /\ UNCHANGED faults

\* The history table of a new database, in a transaction of its own.
EnsureTable(s) == /\ pc[s] = "ensure" /\ Readable /\ ~Refused(s)
                  /\ draft = {}
                  /\ db' = [db EXCEPT !.tracked = TRUE]
                  /\ Goto(s, "plan")
                  /\ UNCHANGED <<draft, file, names, recorded, pending, faults>>

-----------------------------------------------------------------------------
(* The two transactions.                                                   *)

\* BEGIN IMMEDIATE takes the write lock.
Begins(s, d) == draft = {} /\ draft' = {[by |-> s, db |-> d]}

\* One statement of the open transaction.
Drafting(s, d) == draft' = {[by |-> s, db |-> d]}

Mine(s) == CHOOSE d \in {t.db : t \in draft} : TRUE

\* _adopt_legacy_schema: only history rows are written, and none of them can be
\* there already.
Adopt(s) ==
  /\ pc[s] = "adopt" /\ Readable /\ ~Refused(s)
  /\ LET rows == 1..Adoptable(names[s])
     IN IF rows \cap db.history = {}
        THEN /\ Begins(s, [db EXCEPT !.tracked = TRUE, !.history = @ \cup rows])
             /\ recorded' = [recorded EXCEPT ![s] = Adoptable(names[s])]
             /\ Goto(s, "adopted")
             /\ UNCHANGED <<db, file, names, pending, faults>>
        ELSE draft = {} /\ Stops(s) /\ UNCHANGED faults

\* COMMIT, of an adoption or of a migration.
Commits(s) == /\ db' = Mine(s)
              /\ draft' = {}

CommitAdoption(s) == /\ pc[s] = "adopted" /\ Readable
                     /\ Commits(s)
                     /\ Goto(s, "plan")
                     /\ UNCHANGED <<file, names, recorded, pending, faults>>

\* The files whose version the history does not hold, read again by now.
Plan(s) == /\ pc[s] = "plan" /\ Readable /\ ~Refused(s)
           /\ pending' = [pending EXCEPT ![s] = Files \ db.history]
           /\ Goto(s, "begin")
           /\ UNCHANGED <<db, draft, file, names, recorded, faults>>

NextFile(s) == CHOOSE v \in pending[s] : \A w \in pending[s] : v <= w

BeginMigration(s) == /\ pc[s] = "begin" /\ Readable /\ pending[s] # {}
                     /\ Begins(s, db)
                     /\ Goto(s, "create")
                     /\ UNCHANGED <<db, file, names, recorded, pending, faults>>

\* The table is there already, and the file's CREATE TABLE does not allow it.
Clashes(s) == LET v == NextFile(s)
              IN v \notin Lenient /\ Mine(s).tables[v] # "absent"

\* Fault: executescript, which commits what has been executed so far.
CreateTableCommitted(s) ==
  /\ pc[s] = "create" /\ Readable /\ ~Clashes(s)
  /\ LET v == NextFile(s)
         d == [Mine(s) EXCEPT !.tracked = TRUE,
                              !.tables[v] = IF @ = "absent" THEN "migrated" ELSE @]
     IN Drafting(s, d) /\ db' = d
  /\ Goto(s, "record")
  /\ UNCHANGED <<file, names, recorded, pending, faults>>

\* The statements of one migration file.
CreateTable(s) ==
  /\ pc[s] = "create" /\ Readable /\ ~Clashes(s)
  /\ LET v == NextFile(s)
         d == Mine(s)
     IN Drafting(s, [d EXCEPT !.tracked = TRUE,
                              !.tables[v] = IF @ = "absent" THEN "migrated" ELSE @])
  /\ Goto(s, "record")
  /\ UNCHANGED <<db, file, names, recorded, pending, faults>>

\* _record_version: the version is the primary key.
RecordVersion(s) ==
  /\ pc[s] = "record" /\ Readable /\ NextFile(s) \notin Mine(s).history
  /\ Drafting(s, [Mine(s) EXCEPT !.history = @ \cup {NextFile(s)}])
  /\ Goto(s, "commit")
  /\ UNCHANGED <<db, file, names, recorded, pending, faults>>

CommitMigration(s) == /\ pc[s] = "commit" /\ Readable
                      /\ Commits(s)
                      /\ pending' = [pending EXCEPT ![s] = @ \ {NextFile(s)}]
                      /\ Goto(s, "begin")
                      /\ UNCHANGED <<file, names, recorded, faults>>

\* Another service applied the migration first: ROLLBACK, DatabaseError.
RollBack(s) == /\ \/ pc[s] = "create" /\ Clashes(s)
                  \/ pc[s] = "record" /\ NextFile(s) \in Mine(s).history
               /\ Stops(s)
               /\ UNCHANGED faults

\* The busy timeout of a service that waits for another one's write lock.
BusyTimeout(s) == /\ pc[s] \in {"adopt", "ensure", "begin"}
                  /\ pc[s] = "begin" => pending[s] # {}
                  /\ \E t \in draft : t.by # s
                  /\ Stops(s)
                  /\ UNCHANGED faults

\* apply_migrations returns and the application goes on starting.
Finish(s) == /\ pc[s] = "begin" /\ pending[s] = {}
             /\ Goto(s, "started")
             /\ UNCHANGED <<db, draft, file, names, recorded, pending, faults>>

-----------------------------------------------------------------------------
(* What goes wrong.                                                        *)

Starting(s) == pc[s] \notin {"stopped", "started"}

\* A statement of a start that finds the file unreadable raises.
AccessFails(s) == /\ Starting(s) /\ ~Readable
                  /\ pc[s] = "begin" => pending[s] # {}
                  /\ Stops(s)
                  /\ UNCHANGED faults

\* The process dies, or a statement fails (a full disk): the handler rolls back
\* and the error ends the start.
Dies(s) == pc[s] # "stopped" /\ Fault /\ Stops(s)

\* The file goes bad, loses its journal mode, or is good again.
Turns == /\ Fault
         /\ file' \in Conditions \ {file}
         /\ UNCHANGED <<db, draft, pc, names, recorded, pending>>

StartStep(s) ==
  \/ Start(s) \/ ReadTables(s) \/ ReadVersion(s) \/ Refuse(s) \/ EnsureTable(s)
  \/ Adopt(s) \/ CommitAdoption(s)
  \/ Plan(s) \/ BeginMigration(s) \/ CreateTable(s) \/ RecordVersion(s)
  \/ CommitMigration(s) \/ RollBack(s) \/ BusyTimeout(s) \/ Finish(s)
  \/ AccessFails(s)

Next == (\E s \in Services : StartStep(s) \/ Dies(s)) \/ Connects \/ Turns

Spec == Init /\ [][Next]_vars

-----------------------------------------------------------------------------
(* Properties.                                                             *)

\* The recorded versions are 1..n, and exactly their tables are there: no death,
\* failed statement or competing start leaves a migration half applied, or
\* recorded without its tables, or its tables without the record.
HistoryDescribesTables ==
  /\ db.tracked => Existing(db) = db.history
  /\ db.history = 1..RecordedVersion(db)

\* Tables this build does not recognise, or a version it does not support.
Unrecognised(d) ==
  \/ ~d.tracked /\ \/ Stray(Existing(d)) # {}
                   \/ \E v \in Existing(d) : d.tables[v] = "foreign"
  \/ RecordedVersion(d) > Current

\* A start that succeeds leaves a service on the schema its code was written
\* for: never on a newer, a partial or an unsupported one.
StartedMeansCurrent ==
  \A s \in Services : pc[s] = "started" =>
    /\ db.history = Files
    /\ \A v \in Files : db.tables[v] \in {"migrated", "inherited"}

\* The version a database amounts to, whether or not its history is recorded.
Level == IF RecordedVersion(db) = 0 /\ Unrecognised(db) THEN {}
         ELSE {Cardinality(Existing(db))}

Inherited == {v \in Versions : db.tables[v] = "inherited"}

Schema == INSTANCE SchemaVersions
            WITH level <- Level, history <- db.history, inherited <- Inherited

\* The file moves through the released versions one at a time, each with its
\* record; adoption and the lenient CREATE statements keep every table an older
\* build filled; and "in both cases the database is left exactly as it was found"
\* when its tables are not recognised or its version is newer, however often and
\* however concurrently services start against it.
ImplementsSchemaVersions == Schema!Spec
=============================================================================
