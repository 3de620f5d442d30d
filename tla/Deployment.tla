---------------------------- MODULE Deployment -----------------------------
(***************************************************************************)
(* The life of the service's processes beside one database: reading the    *)
(* environment, creating the application, migrating the schema, starting   *)
(* the jobs, checking the network, listening, and ending (main.ts,         *)
(* app.service.ts, jobs.service.ts).  Two processes model a release rolled *)
(* out beside an older one, or two replicas; nothing locks the database    *)
(* while one of them migrates it.                                          *)
(*                                                                         *)
(* A release knows the migrations up to its own.  What an older release    *)
(* does is taken to be what this one does, with its own columns.           *)
(* A round of the keys job is one step here: its parts are in KeysUpdate.  *)
(***************************************************************************)
EXTENDS Environment, Migrations, FiniteSets

CONSTANTS Processes,
          release,      \* the number of migrations each process knows
          envs,         \* the environments each process may be started with
          MaxSnapshots, \* bound: rounds that write
          MaxDowns      \* bound: migrations taken back by hand

ASSUME DeploymentAssumption ==
    /\ release \in [Processes -> Versions]
    /\ DOMAIN envs = Processes
    /\ MaxSnapshots \in Nat \ {0} /\ MaxDowns \in Nat

\* What can be set: a text, or the pieces of one that lists URLs.
ASSUME EnvsAssumption ==
    \A p \in Processes : \A e \in envs[p] : \A v \in DOMAIN e :
        IF v \in UrlVars THEN e[v] \in Seq(Pieces) ELSE e[v] \in Texts

VARIABLES
    executed,   \* the migrations recorded in mikro_orm_migrations
    tables,     \* the database
    snapshots,  \* how many rounds have written
    downs,      \* how many migrations were taken back
    phase,      \* where each process is
    env,        \* its environment, from the check until the application is created
    enabled,    \* VALIDATOR_REGISTRY_ENABLE
    pending,    \* the migrations it has read that it must run
    job,        \* how far JobsService.initialize has got
    intervals   \* the jobs whose interval runs

database == <<executed, tables, snapshots, downs>>
process  == <<phase, env, enabled, pending, job, intervals>>
vars     == <<database, process>>

Jobs == {"keys", "validators"}

\* The database, if any, that a set of migrations builds from nothing.
Built == [set \in SUBSET Versions |-> RunUp(NoTables, set)]

Known(p) == 1..release[p]

NoEnv == [v \in {} |-> ""]

Stopped(p) == /\ phase' = [phase EXCEPT ![p] = "off"]
              /\ env' = [env EXCEPT ![p] = NoEnv]
              /\ enabled' = [enabled EXCEPT ![p] = FALSE]
              /\ pending' = [pending EXCEPT ![p] = {}]
              /\ job' = [job EXCEPT ![p] = "none"]
              /\ intervals' = [intervals EXCEPT ![p] = {}]

\* Rows written by a round: all tables of the snapshot together.
Stored(n) == [t \in DOMAIN tables |-> [tables[t] EXCEPT !.rows = n]]

\* The database as some release left it, before or after its first round.
Init == /\ \E v \in 0..Len(findMigrations) :
              /\ executed = 1..v
              /\ \E db \in Built[1..v] :
                   tables \in {db, [t \in DOMAIN db |-> [db[t] EXCEPT !.rows = 1]]}
        /\ snapshots = 1
        /\ downs = 0
        /\ phase = [p \in Processes |-> "off"]
        /\ env = [p \in Processes |-> NoEnv]
        /\ enabled = [p \in Processes |-> FALSE]
        /\ pending = [p \in Processes |-> {}]
        /\ job = [p \in Processes |-> "none"]
        /\ intervals = [p \in Processes |-> {}]

-----------------------------------------------------------------------------
(* Starting *)

\* The environments with which the modules are loaded: validate, then
\* mikro-orm.config, which reads the password.
Loads == [p \in Processes |-> {e \in envs[p] : \E c \in validate(e) : HasPassword(c)}]

Start(p) ==
    /\ phase[p] = "off"
    /\ \E e \in Loads[p] :
         /\ env' = [env EXCEPT ![p] = e]
         /\ enabled' = [enabled EXCEPT ![p] =
                           \E c \in validate(e) : TRUE \in c.VALIDATOR_REGISTRY_ENABLE]
    /\ phase' = [phase EXCEPT ![p] = "loaded"]
    /\ UNCHANGED <<database, pending, job, intervals>>

\* NestFactory.create; a factory that throws ends the process.
CreateApp(p) ==
    /\ phase[p] = "loaded"
    /\ IF \A c \in validate(env[p]) : FactoriesWork(c)
       THEN /\ phase' = [phase EXCEPT ![p] = "created"]
            /\ env' = [env EXCEPT ![p] = NoEnv]
            /\ UNCHANGED <<enabled, pending, job, intervals>>
       ELSE Stopped(p)
    /\ UNCHANGED database

Pending(p) == Known(p) \ executed

\* Migrator.up, first part: the migrations that are not recorded.
ReadPending(p) ==
    /\ phase[p] = "created"
    /\ pending' = [pending EXCEPT ![p] = Pending(p)]
    /\ phase' = [phase EXCEPT ![p] = "migrating"]
    /\ UNCHANGED <<database, env, enabled, job, intervals>>

\* Migrator.up, second part: all of them in one transaction.  A statement may
\* always fail, because the tables are not as it needs them, by a deadlock with a
\* round or a migration of another process, or because the connection is lost; then
\* all is rolled back, and bootstrap rejects before any handler is set.
RunPending(p) ==
    /\ phase[p] = "migrating"
    /\ \/ /\ tables' \in RunUp(tables, pending[p])
          /\ executed' = executed \cup pending[p]
          /\ phase' = [phase EXCEPT ![p] = "migrated"]
          /\ pending' = [pending EXCEPT ![p] = {}]
          /\ UNCHANGED <<snapshots, downs, env, enabled, job, intervals>>
       \/ /\ Stopped(p)
          /\ UNCHANGED database

\* app.listen calls the onModuleInit hooks; that of JobsService, before that
\* of AppService, starts the jobs and does not wait for them.
InitJobs(p) ==
    /\ phase[p] = "migrated"
    /\ phase' = [phase EXCEPT ![p] = "starting"]
    /\ job' = [job EXCEPT ![p] = "keys first"]
    /\ UNCHANGED <<database, env, enabled, pending, intervals>>

\* AppService.onModuleInit, with validateNetwork, finds that the chains agree,
\* and the port is open.
Listen(p) ==
    /\ phase[p] = "starting"
    /\ phase' = [phase EXCEPT ![p] = "listening"]
    /\ UNCHANGED <<database, env, enabled, pending, job, intervals>>

-----------------------------------------------------------------------------
(* The jobs *)

Running(p) == phase[p] \in {"starting", "listening", "closing", "dying"}

\* JobsService.initialize: after its first round, which may fail, a job gets
\* its interval; the validators' job comes after that of the keys, if at all.
FirstRoundEnds(p) ==
    /\ Running(p)
    /\ \/ /\ job[p] = "keys first"
          /\ intervals' = [intervals EXCEPT ![p] = @ \cup {"keys"}]
          /\ job' = [job EXCEPT ![p] = IF enabled[p] THEN "validators first" ELSE "done"]
       \/ /\ job[p] = "validators first"
          /\ intervals' = [intervals EXCEPT ![p] = @ \cup {"validators"}]
          /\ job' = [job EXCEPT ![p] = "done"]
    /\ UNCHANGED <<database, phase, env, enabled, pending>>

\* The columns of the tables this process writes.
Written(p) ==
    IF release[p] = Len(findMigrations)
    THEN [t \in DOMAIN Entities |-> Entities[t].columns]
    ELSE LET db == CHOOSE d \in Built[Known(p)] : TRUE
         IN [t \in DOMAIN db |-> db[t].columns]

\* Every column must be given a value, and only columns that are there can be.
Fits(p) == \A t \in DOMAIN Written(p) :
              t \in DOMAIN tables /\ tables[t].columns = Written(p)[t]

\* A round of the keys job that writes.  In a schema that is not the release's
\* own the round fails and is rolled back.
KeysRound(p) ==
    /\ Running(p)
    /\ job[p] = "keys first" \/ "keys" \in intervals[p]
    /\ snapshots < MaxSnapshots
    /\ Fits(p)
    /\ snapshots' = snapshots + 1
    /\ tables' = Stored(snapshots')
    /\ UNCHANGED <<executed, downs, process>>

-----------------------------------------------------------------------------
(* Ending *)

\* Mutant of Uncleared: the validators' interval is looked for first.
UnclearedValidatorsFirst(running) == IF "validators" \notin running THEN running
                                     ELSE running \ Jobs

\* getInterval throws for a job that has no interval yet, and the clearing
\* ends there.
Uncleared(running) == IF "keys" \notin running THEN running
                      ELSE running \ Jobs

\* SIGTERM: JobsService.onModuleDestroy.
Shutdown(p) ==
    /\ phase[p] \in {"starting", "listening"}
    /\ phase' = [phase EXCEPT ![p] = "closing"]
    /\ intervals' = [intervals EXCEPT ![p] = Uncleared(@)]
    /\ UNCHANGED <<database, env, enabled, pending, job>>

\* The chains differ, a node does not answer AppService, or any other error that
\* nothing catches, once the handler is set: it closes the connection to the
\* database, rounds that are under way aside, and exits 5 seconds later.
UncaughtException(p) ==
    /\ phase[p] \in {"migrated", "starting", "listening", "closing"}
    /\ phase' = [phase EXCEPT ![p] = "dying"]
    /\ UNCHANGED <<database, env, enabled, pending, job, intervals>>

\* The server is closed, then the connection to the database, then the process
\* ends; or it ended at any moment, killed or out of memory.
Exit(p) == /\ phase[p] # "off"
           /\ Stopped(p)
           /\ UNCHANGED database

\* An operator takes the last migration back with the command line of MikroORM.
Down == /\ downs < MaxDowns
        /\ executed # {}
        /\ \E last \in executed :
             /\ \A v \in executed : v <= last
             /\ tables' \in RunDown(tables, last)
             /\ executed' = executed \ {last}
        /\ downs' = downs + 1
        /\ UNCHANGED <<snapshots, process>>

ProcessStep(p) == \/ Start(p) \/ CreateApp(p) \/ ReadPending(p) \/ RunPending(p)
                  \/ InitJobs(p) \/ Listen(p) \/ FirstRoundEnds(p) \/ KeysRound(p)
                  \/ Shutdown(p) \/ UncaughtException(p) \/ Exit(p)

Next == Down \/ \E p \in Processes : ProcessStep(p)

Spec == Init /\ [][Next]_vars

-----------------------------------------------------------------------------
(* Properties *)

\* Type correctness, with what a phase says of the rest of the process: its
\* environment is kept while it is loaded, its pending migrations while it
\* migrates, and its jobs run only after that.
TypeOK ==
    /\ executed \subseteq Versions
    /\ snapshots \in 1..MaxSnapshots /\ downs \in 0..MaxDowns
    /\ \A t \in DOMAIN tables : /\ tables[t].key \subseteq tables[t].columns
                                /\ tables[t].rows \in 0..snapshots
    /\ \A p \in Processes :
         /\ phase[p] \in {"off", "loaded", "created", "migrating", "migrated",
                          "starting", "listening", "closing", "dying"}
         /\ enabled[p] \in BOOLEAN
         /\ env[p] # NoEnv <=> phase[p] = "loaded"
         /\ pending[p] \subseteq Known(p) /\ (pending[p] # {} => phase[p] = "migrating")
         /\ intervals[p] \subseteq Jobs
         /\ job[p] \in {"none", "keys first", "validators first", "done"}
         /\ job[p] # "none" => Running(p)

\* The schema is the one that the recorded migrations build, in whatever order
\* and however often they were run and taken back; with all of them it is the
\* schema of the entities (every migration's up and down).
SchemaIsOfVersion ==
    /\ \E db \in Built[executed] :
         /\ DOMAIN db = DOMAIN tables
         /\ \A t \in DOMAIN db : db[t].columns = tables[t].columns /\ db[t].key = tables[t].key
    /\ executed = Versions =>
         /\ DOMAIN tables = DOMAIN Entities
         /\ \A t \in DOMAIN Entities : /\ tables[t].columns = Entities[t].columns
                                       /\ tables[t].key = Entities[t].key

\* The tables of the snapshot hold one snapshot, or all of them are empty: no
\* migration leaves the meta of a block whose keys, operators or modules it has
\* removed, for the next round would find it up to date and keep it so
\* (the TRUNCATE statements of the migrations).
WholeOrEmpty == \A t, u \in DOMAIN tables : tables[t].rows = tables[u].rows

\* Migrations that were read and not overtaken by another process or an
\* operator can be run, whatever the tables hold.  A deadlock or a lost connection
\* is over when the process is started again; a statement that the tables do not
\* allow would fail at every start (Migrator.up, main.ts).
FailsOnlyByRace ==
    \A p \in Processes :
        phase[p] = "migrating" /\ pending[p] = Pending(p) => RunUp(tables, pending[p]) # {}

\* The jobs whose interval JobsService.initialize has yet to make.
ToCome(p) == CASE job[p] = "keys first" -> IF enabled[p] THEN Jobs ELSE {"keys"}
               [] job[p] = "validators first" -> {"validators"}
               [] OTHER -> {}

\* When the service is told to end, every interval there is is cleared, whichever
\* of the jobs have one, and for good: only an interval that initialize has yet to
\* make runs while the service closes.  Of those nobody thinks: a first round that
\* is under way when SIGTERM comes still makes its interval when it ends, then the
\* validators' job has its own, and both run until the process ends
\* (jobs.service.ts 26-46, the empty catch of onModuleDestroy).
ClosingStopsJobs ==
    [][\A p \in Processes : phase'[p] = "closing" =>
          IF phase[p] # "closing"
          THEN intervals'[p] = {} /\ intervals[p] \cap ToCome(p)' = {}
          ELSE /\ intervals'[p] \subseteq intervals[p] \cup ToCome(p)
               /\ ToCome(p)' \subseteq ToCome(p)]_vars

\* An environment that passed the check never fails the application's creation:
\* every factory has the value it works with (validate, the factories).
ValidatedConfigSuffices ==
    \A p \in Processes : phase[p] = "loaded" => \A c \in validate(env[p]) : FactoriesWork(c)

\* A variable set to the empty text counts as one that is not set, as
\* docker-compose.yml relies on; STREAM_TIMEOUT, which it does not pass, is the
\* exception (the conversions of EnvironmentVariables).
EmptyIsUnset ==
    \A p \in Processes : phase[p] = "loaded" =>
        \A v \in Variables \ (DOMAIN env[p] \cup {"STREAM_TIMEOUT"}) :
            validate([w \in DOMAIN env[p] \cup {v} |-> IF w = v THEN Unset(v) ELSE env[p][w]])
              = validate(env[p])
=============================================================================
