------------------------------ MODULE FirstStart ------------------------------
(***************************************************************************)
(* The start of a server container (hackathon/services/monitor/            *)
(* entrypoint.sh): bootstrap when the database file is missing or empty    *)
(* and migrate otherwise, the health check, then serve                     *)
(* (server/bootstrap.py, health.py, runtime.py).  A container that exits   *)
(* is started again.  Containers that share the volume interleave: a       *)
(* migration is a script and, in a transaction of its own, a row in the    *)
(* migration log.                                                          *)
(***************************************************************************)
EXTENDS Naturals, FiniteSets

CONSTANTS
  Containers,
  Organizations, \* ids the containers are configured with
  MigrationCount,
  MaxDeaths      \* bound on containers that are killed

ASSUME StartAssumption == MigrationCount \in Nat /\ MaxDeaths \in Nat

VARIABLES
  file,      \* the database file is not empty
  executed,  \* migrations whose script has run
  logged,    \* commercial_migration_log_v1
  admins,    \* organizations_v1 with the administrator created for each
  container, \* container -> what its process does
  broken,    \* history: a first start was killed or failed
  countedTwice, \* history: two of them found the database without users
  deaths

startVars == <<file, executed, logged, admins, container, broken, countedTwice, deaths>>

Migrations == 1..MigrationCount
Down == [pc |-> "down", first |-> FALSE, migration |-> 1]

StartInit ==
  /\ file = FALSE /\ executed = {} /\ logged = {} /\ admins = {}
  /\ container = [c \in Containers |-> Down]
  /\ broken = FALSE /\ countedTwice = FALSE /\ deaths = 0

Become(c, p) == container' = [container EXCEPT ![c] = p]
Proceed(c, pc) == Become(c, [container[c] EXCEPT !.pc = pc])

\* Under set -e a failed command ends the container.
Exit(c) ==
  /\ Become(c, Down)
  /\ broken' = (broken \/ container[c].first)

At(c, pc) == container[c].pc = pc

\* Mutated form: every start bootstraps.
FirstStart_Always == TRUE

\* [ ! -s "$DB" ]
FirstStart == ~file

StartContainer(c) ==
  /\ At(c, "down")
  /\ Become(c, [pc |-> "open", first |-> FirstStart, migration |-> 1])
  /\ UNCHANGED <<file, executed, logged, admins, broken, countedTwice, deaths>>

\* sqlite3.connect and PRAGMA journal_mode=WAL leave a file of one page.
Open(c) ==
  /\ At(c, "open")
  /\ file' = TRUE
  /\ Proceed(c, "migrate")
  /\ UNCHANGED <<executed, logged, admins, broken, countedTwice, deaths>>

Following(n) == n + 1

\* run_all_migrations: the log is read; a script that is logged is passed over.
ReadLog(c) ==
  /\ At(c, "migrate") /\ container[c].migration \in Migrations
  /\ IF container[c].migration \in logged
     THEN Become(c, [container[c] EXCEPT !.migration = Following(@)])
     ELSE Proceed(c, "script")
  /\ UNCHANGED <<file, executed, logged, admins, broken, countedTwice, deaths>>

\* Every statement is IF NOT EXISTS, so that a script may run again.
Script(c) == executed' = executed \cup {container[c].migration}

RunScript(c) ==
  /\ At(c, "script")
  /\ Script(c)
  /\ Proceed(c, "log")
  /\ UNCHANGED <<file, logged, admins, broken, countedTwice, deaths>>

\* The name is the primary key of the log: a second process fails here.
LogMigration(c) ==
  /\ At(c, "log")
  /\ \/ /\ container[c].migration \notin logged
        /\ logged' = logged \cup {container[c].migration}
        /\ Become(c, [container[c] EXCEPT !.pc = "migrate", !.migration = Following(@)])
        /\ UNCHANGED broken
     \/ /\ container[c].migration \in logged
        /\ Exit(c)
        /\ UNCHANGED logged
  /\ UNCHANGED <<file, executed, admins, countedTwice, deaths>>

\* Mutated form: users are not looked for.
Fresh_Always == TRUE

Fresh == admins = {}

\* bootstrap_database counts users and organizations outside its transaction.
Count(c) ==
  /\ At(c, "migrate") /\ container[c].migration \notin Migrations
  /\ IF ~container[c].first THEN Proceed(c, "health") /\ UNCHANGED broken
     ELSE IF Fresh THEN Proceed(c, "insert") /\ UNCHANGED broken
     ELSE Exit(c)
  /\ countedTwice' = (countedTwice \/ (container'[c].pc = "insert" /\ \E d \in Containers : At(d, "insert")))
  /\ UNCHANGED <<file, executed, logged, admins, deaths>>

\* BEGIN IMMEDIATE: the organization and its administrator, or neither.
InsertAdmin(c, organization) ==
  /\ At(c, "insert")
  /\ IF organization \in admins
     THEN Exit(c) /\ UNCHANGED admins
     ELSE admins' = admins \cup {organization} /\ Proceed(c, "health") /\ UNCHANGED broken
  /\ UNCHANGED <<file, executed, logged, countedTwice, deaths>>

\* local_health, and the same conditions again in _prepare_database.
Healthy == logged = Migrations /\ admins # {}

CheckHealth(c) ==
  /\ At(c, "health")
  /\ IF Healthy THEN Proceed(c, "serving") /\ UNCHANGED broken ELSE Exit(c)
  /\ UNCHANGED <<file, executed, logged, admins, countedTwice, deaths>>

Die(c) ==
  /\ ~At(c, "down") /\ deaths < MaxDeaths
  /\ deaths' = deaths + 1
  /\ Exit(c)
  /\ UNCHANGED <<file, executed, logged, admins, countedTwice>>

\* serve_forever.
Serve(c) == At(c, "serving") /\ UNCHANGED startVars

-----------------------------------------------------------------------------
Advance(c) ==
  \/ StartContainer(c) \/ Open(c) \/ ReadLog(c) \/ RunScript(c) \/ LogMigration(c)
  \/ Count(c) \/ (\E o \in Organizations : InsertAdmin(c, o)) \/ CheckHealth(c)

StartNext == \E c \in Containers : Advance(c) \/ Serve(c) \/ Die(c)

StartSpec == StartInit /\ [][StartNext]_startVars

\* restart: unless-stopped, and no command waits for ever.
StartFairness == \A c \in Containers : WF_startVars(Advance(c))

StartFairSpec == StartSpec /\ StartFairness

-----------------------------------------------------------------------------
(* Properties.                                                             *)

Process ==
  [pc : {"down", "open", "migrate", "script", "log", "insert", "health", "serving"},
   first : BOOLEAN, migration : 1..MigrationCount + 1]

\* Every variable has its type, and the file is there before anything in it.
StartTypeOK ==
  /\ file \in BOOLEAN /\ broken \in BOOLEAN /\ countedTwice \in BOOLEAN /\ deaths \in Nat
  /\ executed \subseteq Migrations /\ logged \subseteq Migrations
  /\ admins \subseteq Organizations
  /\ (executed \cup logged \cup admins) # {} => file
  /\ container \in [Containers -> Process]

\* A migration is in the log only once its script has run, whatever was killed: the
\* log never claims a table that is not there.
LoggedWasExecuted == logged \subseteq executed

\* A container that serves has every table and an administrator to log in as.
ServesWithAdmin ==
  \A c \in Containers : At(c, "serving") => Migrations \subseteq executed /\ admins # {}

\* The first organization and administrator are created once, unless two bootstraps
\* looked at the empty database at the same time.
BootstrapOnce == countedTwice \/ Cardinality(admins) <= 1

Starting(c) == container[c].first /\ ~At(c, "down")

\* Unless a first start was killed or failed, a database with tables has an
\* administrator or one on its way.
AdminIsComing ==
  broken \/ ~file \/ admins # {} \/ \E c \in Containers : Starting(c)

\* Once there is an administrator every container comes to serve, however often
\* containers are killed or fail on each other's migrations.
HealsOnceBootstrapped == (admins # {}) ~> (\A c \in Containers : At(c, "serving"))

\* A container that is started again whenever it exits comes to serve.
ComesToServe == <>(\E c \in Containers : At(c, "serving"))
=============================================================================
