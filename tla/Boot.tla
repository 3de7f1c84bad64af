-------------------------------- MODULE Boot --------------------------------
(***************************************************************************)
(* module/module.go, pkg/register/register.go and server/server.go: how a  *)
(* server comes up - modules are built, their migrations run, routes and   *)
(* tasks are registered, the listener and the modules start - and goes     *)
(* down.  Several servers share one database and may start together; a     *)
(* server may be killed at any step and is started again.                  *)
(***************************************************************************)
EXTENDS Integers, Sequences, SequencesExt, FiniteSets

CONSTANTS Servers,
          Modules,    \* in the order of AddModule
          Files,      \* Files[m]: the ids of m's migrations, as its directory lists them
          MaxKills    \* bound of the model

\* What the constants must be.  Ids are numbered in their order; file names, which
\* they are, differ within a directory and are taken to differ between modules.
BootAssumption ==
    /\ Modules \in Seq(Range(Modules))
    /\ \A m \in Range(Modules) : Files[m] \in Seq(Nat)
    /\ \A m, n \in Range(Modules) : m # n => Range(Files[m]) \cap Range(Files[n]) = {}

VARIABLES stage,      \* per server: what it does next, see Step
          plan,       \* per server: the migrations left to run
          routes,     \* per server: modules whose routes are registered
          next,       \* per server: position in the loop of Start or Stop
          started, stopped,  \* per server: modules
          listening,  \* servers whose listener accepts requests
          executed,   \* migrations whose statements were executed (database)
          recorded,   \* migrations in the table gorp_migrations (database)
          served,     \* requests handled: [server, module, schema]
          kills

bootVars == <<stage, plan, routes, next, started, stopped, listening, executed, recorded, served, kills>>

Off(s) ==
    /\ plan' = [plan EXCEPT ![s] = {}]
    /\ routes' = [routes EXCEPT ![s] = {}]
    /\ next' = [next EXCEPT ![s] = 1]
    /\ started' = [started EXCEPT ![s] = {}] /\ stopped' = [stopped EXCEPT ![s] = {}]
    /\ listening' = listening \ {s}

Init ==
    /\ stage = [s \in Servers |-> "off"]
    /\ plan = [s \in Servers |-> {}] /\ routes = [s \in Servers |-> {}]
    /\ next = [s \in Servers |-> 1]
    /\ started = [s \in Servers |-> {}] /\ stopped = [s \in Servers |-> {}]
    /\ listening = {} /\ executed = {} /\ recorded = {} /\ served = {} /\ kills = 0

Become(s, st) == stage' = [stage EXCEPT ![s] = st]

-----------------------------------------------------------------------------
\* The files of all modules ...
FindMigrations == UNION {Range(Files[m]) : m \in Range(Modules)}

\* Fault: in the order of the modules and their directories.
byID_Listed(S) ==
    LET listed == FlattenSeq([i \in DOMAIN Modules |-> Files[Modules[i]]])
    IN  listed[CHOOSE i \in DOMAIN listed : listed[i] \in S /\ \A k \in 1 .. i - 1 : listed[k] \notin S]

\* ... in the order of their ids: the first of those in S.
byID(S) == CHOOSE f \in S : \A g \in S : f <= g

\* Setup: GetModules builds them once, executeSQL plans what is not recorded.
Setup(s) ==
    /\ stage[s] = "off"
    /\ Become(s, "migrate")
    /\ plan' = [plan EXCEPT ![s] = FindMigrations \ recorded]
    /\ UNCHANGED <<routes, next, started, stopped, listening, executed, recorded, served, kills>>

\* migrate.Exec: the statements of the next migration; DDL commits on its own ...
Execute(s) ==
    /\ stage[s] = "migrate" /\ plan[s] # {}
    /\ executed' = executed \cup {byID(plan[s])}
    /\ Become(s, "record")
    /\ UNCHANGED <<plan, routes, next, started, stopped, listening, recorded, served, kills>>

\* ... or fail, and so may all the rest of it, also when nothing is left to run: a
\* directory that cannot be read, a file that does not parse, the database.
ExecuteFails(s) ==
    /\ stage[s] \in {"migrate", "record"}
    /\ Become(s, "failed")
    /\ UNCHANGED <<plan, routes, next, started, stopped, listening, executed, recorded, served, kills>>

\* Fault: a duplicate id is taken for a transient error and the migration tried again.
Record_Retries(s) ==
    /\ stage[s] = "record"
    /\ Become(s, "migrate")
    /\ IF byID(plan[s]) \in recorded
       THEN UNCHANGED <<plan, recorded>>
       ELSE recorded' = recorded \cup {byID(plan[s])} /\ plan' = [plan EXCEPT ![s] = @ \ {byID(@)}]
    /\ UNCHANGED <<routes, next, started, stopped, listening, executed, served, kills>>

\* The id is inserted; it is the primary key, so that only one of two servers
\* that ran the same migration can go on.
Record(s) ==
    /\ stage[s] = "record"
    /\ IF byID(plan[s]) \in recorded
       THEN Become(s, "failed") /\ UNCHANGED <<plan, recorded>>
       ELSE /\ recorded' = recorded \cup {byID(plan[s])}
            /\ plan' = [plan EXCEPT ![s] = @ \ {byID(@)}]
            /\ Become(s, "migrate")
    /\ UNCHANGED <<routes, next, started, stopped, listening, executed, served, kills>>

Migrated(s) ==
    /\ stage[s] = "migrate" /\ plan[s] = {}
    /\ Become(s, "route")
    /\ UNCHANGED <<plan, routes, next, started, stopped, listening, executed, recorded, served, kills>>

\* SetupAPI and SetupTask, module by module.
Route(s) ==
    /\ stage[s] = "route" /\ Cardinality(routes[s]) < Len(Modules)
    /\ routes' = [routes EXCEPT ![s] = @ \cup {Modules[Cardinality(@) + 1]}]
    /\ UNCHANGED <<stage, plan, next, started, stopped, listening, executed, recorded, served, kills>>

\* Server.Start: the listener gets a goroutine of its own, module.Start goes on.
Start(s) ==
    /\ stage[s] = "route" /\ routes[s] = Range(Modules)
    /\ Become(s, "start")
    /\ UNCHANGED <<plan, routes, next, started, stopped, listening, executed, recorded, served, kills>>

run(s) ==
    /\ stage[s] \in {"start", "running"} /\ s \notin listening
    /\ listening' = listening \cup {s}
    /\ UNCHANGED <<stage, plan, routes, next, started, stopped, executed, recorded, served, kills>>

\* The address is in use: the goroutine panics and takes the process with it.
runPanics(s) ==
    /\ stage[s] \in {"start", "running"} /\ s \notin listening
    /\ Become(s, "dead") /\ Off(s)
    /\ UNCHANGED <<executed, recorded, served, kills>>

StartModule(s) ==
    /\ stage[s] = "start" /\ next[s] <= Len(Modules)
    /\ started' = [started EXCEPT ![s] = @ \cup {Modules[next[s]]}]
    /\ next' = [next EXCEPT ![s] = @ + 1]
    /\ UNCHANGED <<stage, plan, routes, stopped, listening, executed, recorded, served, kills>>

\* A module that does not start ends the process; those before it are not stopped.
StartFails(s) ==
    /\ stage[s] = "start" /\ next[s] <= Len(Modules)
    /\ Become(s, "dead") /\ Off(s)
    /\ UNCHANGED <<executed, recorded, served, kills>>

Started(s) ==
    /\ stage[s] = "start" /\ next[s] > Len(Modules)
    /\ Become(s, "running")
    /\ UNCHANGED <<plan, routes, next, started, stopped, listening, executed, recorded, served, kills>>

\* A request comes in as soon as the listener is there; schema: whether all the
\* migrations its module brings have been executed.
Serve(s, m) ==
    /\ s \in listening /\ m \in routes[s]
    /\ served' = served \cup {[server |-> s, module |-> m,
                               schema |-> Range(Files[m]) \subseteq executed]}
    /\ UNCHANGED <<stage, plan, routes, next, started, stopped, listening, executed, recorded, kills>>

\* go-svc calls Stop on a signal.
Stop(s) ==
    /\ stage[s] = "running"
    /\ Become(s, "stop")
    /\ next' = [next EXCEPT ![s] = 1]
    /\ UNCHANGED <<plan, routes, started, stopped, listening, executed, recorded, served, kills>>

StopModule(s) ==
    /\ stage[s] = "stop" /\ next[s] <= Len(Modules)
    /\ stopped' = [stopped EXCEPT ![s] = @ \cup {Modules[next[s]]}]
    /\ next' = [next EXCEPT ![s] = @ + 1]
    /\ UNCHANGED <<stage, plan, routes, started, listening, executed, recorded, served, kills>>

\* The first module that fails to stop ends the loop.
StopFails(s) ==
    /\ stage[s] = "stop" /\ next[s] <= Len(Modules)
    /\ Become(s, "failed")
    /\ UNCHANGED <<plan, routes, next, started, stopped, listening, executed, recorded, served, kills>>

Stopped(s) ==
    /\ stage[s] = "stop" /\ next[s] > Len(Modules)
    /\ Become(s, "stopped")
    /\ UNCHANGED <<plan, routes, next, started, stopped, listening, executed, recorded, served, kills>>

\* The process is killed, and started again.
Kill(s) ==
    /\ stage[s] \notin {"off", "stopped"} /\ kills < MaxKills
    /\ kills' = kills + 1
    /\ Become(s, "off") /\ Off(s)
    /\ UNCHANGED <<executed, recorded, served>>

-----------------------------------------------------------------------------
Step(s) ==
    \/ Setup(s) \/ Execute(s) \/ ExecuteFails(s) \/ Record(s) \/ Migrated(s) \/ Route(s)
    \/ Start(s) \/ StartModule(s) \/ StartFails(s) \/ Started(s)
    \/ StopModule(s) \/ StopFails(s) \/ Stopped(s)

Next == \E s \in Servers : \/ Step(s) \/ run(s) \/ runPanics(s) \/ Stop(s) \/ Kill(s)
                           \/ \E m \in Range(Modules) : Serve(s, m)

Spec == Init /\ [][Next]_bootVars

\* A process that is not killed runs on; nobody is obliged to stop it.
Fairness == \A s \in Servers : WF_bootVars(Step(s))

-----------------------------------------------------------------------------
(* Properties                                                              *)

\* A module never serves a request before its schema is there, although the
\* listener is up before the modules have started, another server may be
\* migrating and either may have been killed in the middle of it.
SchemaFirst == \A r \in served : r.schema

\* Migrations are recorded in the order of their ids: none is skipped by a
\* server that was killed or overtaken, whichever module brought it.
MigrationsInOrder == \A f \in recorded : \A g \in FindMigrations : g < f => g \in recorded

\* Stop reports success only when every module that was started was stopped.
CleanStop == \A s \in Servers : stage[s] = "stopped" => started[s] \subseteq stopped[s]

\* Coming up ends: the server runs, or it has failed and says so.
BootEnds == \A s \in Servers : stage[s] = "migrate" ~> stage[s] \in {"running", "failed", "dead", "off"}
=============================================================================
