--------------------------- MODULE Configuration ---------------------------
(* The settings objects as they are shared by the applications, tasks and      *)
(* workers of one process: ChicoryConfig (config.py), Chicory.__init__ and     *)
(* Chicory.task (app.py), Worker.__init__ (worker.py) and what the worker      *)
(* command of the CLI does to them (cli.py).  validation_mode travels like     *)
(* delivery_mode and is left out, and so are the fields of a worker that travel *)
(* like concurrency.                                                           *)
EXTENDS Naturals, FiniteSets

CONSTANTS
    Configs,           \* the ChicoryConfig objects
    Apps,              \* the Chicory objects
    Intervals, Ttls, Sizes,   \* heartbeat_interval, heartbeat_ttl, concurrency
    MaxTasks           \* bound on the registered tasks

VARIABLES
    env,               \* what the environment sets for the worker
    config,            \* a ChicoryConfig, or Unbuilt
    app,               \* a Chicory object, or Unmade
    tasks,             \* the registered tasks
    worker             \* the Worker of the process, or NoWorker

vars == <<env, config, app, tasks, worker>>

AtMostOnce == "at_most_once"
AtLeastOnce == "at_least_once"
Modes == {AtMostOnce, AtLeastOnce}
NotGiven == "not given"
Given(S) == S \cup {NotGiven}

WorkerSettings == [interval : Intervals, ttl : Ttls, concurrency : Sizes]
Unbuilt == [mode |-> NotGiven]
Unmade == [config |-> NotGiven]
NoWorker == [via |-> NotGiven]
NoSettings == [interval |-> 0, ttl |-> 0, concurrency |-> 0]

Init ==
    /\ env \in WorkerSettings
    /\ config = [c \in Configs |-> Unbuilt]
    /\ app = [a \in Apps |-> Unmade]
    /\ tasks = {}
    /\ worker = NoWorker

Built(c) == config[c] # Unbuilt
Made(a) == app[a] # Unmade
ConfigOf(a) == config[app[a].config]

\* Each field passed its own bounds; validate_config compares two of them.
Validated(w) == w.ttl > w.interval

\* A ChicoryConfig with these values; an invalid one raises, and nothing is left.
Object(mode, w) == [mode |-> mode, worker |-> w]

\* ChicoryConfig(...): the worker settings are an argument or the environment's.
BuildConfig(c) ==
    /\ worker = NoWorker
    /\ ~Built(c)
    /\ \E mode \in Modes, w \in WorkerSettings :
           /\ Validated(w)
           /\ config' = [config EXCEPT ![c] = Object(mode, w)]
    /\ UNCHANGED <<env, app, tasks, worker>>

\* The mode of a broker the program made itself is the one it gave to it, and
\* at-most-once if it gave none (the default of RedisBroker and RabbitMQBroker).
OwnBroker(given) == IF given = NotGiven THEN AtMostOnce ELSE given

\* Mutant: the broker is made before the explicit mode is written.
MakeAppEarly(a, c, shared, asked, broker) ==
    /\ worker = NoWorker /\ ~Made(a)
    /\ IF shared THEN Built(c) ELSE ~Built(c) /\ Validated(env)
    /\ LET held == IF shared THEN config[c] ELSE Object(AtLeastOnce, env)
           mode == IF asked = NotGiven THEN held.mode ELSE asked
       IN  /\ config' = [config EXCEPT ![c] = [held EXCEPT !.mode = mode]]
           /\ app' = [app EXCEPT ![a] =
                 [config |-> c, made |-> broker = "created",
                  mode |-> IF broker = "created" THEN held.mode ELSE OwnBroker(broker)]]
    /\ UNCHANGED <<env, tasks, worker>>

\* Chicory(broker, config=c, delivery_mode=asked): "config or ChicoryConfig()", an
\* explicit mode is written into the config, a broker made here takes the mode
\* the config has now.
MakeApp(a, c, shared, asked, broker) ==
    /\ worker = NoWorker
    /\ ~Made(a)
    /\ IF shared THEN Built(c) ELSE ~Built(c) /\ Validated(env)
    /\ LET held == IF shared THEN config[c] ELSE Object(AtLeastOnce, env)
           mode == IF asked = NotGiven THEN held.mode ELSE asked
       IN  /\ config' = [config EXCEPT ![c] = [held EXCEPT !.mode = mode]]
           /\ app' = [app EXCEPT ![a] =
                 [config |-> c, made |-> broker = "created",
                  mode |-> IF broker = "created" THEN mode ELSE OwnBroker(broker)]]
    /\ UNCHANGED <<env, tasks, worker>>

\* @app.task(delivery_mode=own): "own or self.config.delivery_mode", read now.
RegisterTask(a, own) ==
    /\ worker = NoWorker
    /\ Made(a)
    /\ Cardinality(tasks) < MaxTasks
    /\ tasks' = tasks \cup {[app |-> a, own |-> own # NotGiven,
                             mode |-> IF own = NotGiven THEN ConfigOf(a).mode ELSE own]}
    /\ UNCHANGED <<env, config, app, worker>>

\* Worker(app, config=given): "config or app.config.worker"; a WorkerConfig of its
\* own has passed the bounds of its fields and no more.
MakeWorker(a, given) ==
    /\ worker = NoWorker
    /\ Made(a)
    /\ worker' = [via |-> IF given = NoSettings THEN "app" ELSE "own",
                  app |-> a,
                  settings |-> IF given = NoSettings THEN ConfigOf(a).worker ELSE given]
    /\ UNCHANGED <<env, config, app, tasks>>

\* "chicory worker": the app module is imported, then every worker setting that is
\* an option of the command is assigned, from the option or its own default.
CliDefaults == [interval |-> 10, ttl |-> 30, concurrency |-> 32]
Options == {"interval", "ttl", "concurrency"}
Assigned(given, choice) ==
    [o \in Options |-> IF o \in given THEN choice[o] ELSE CliDefaults[o]]

RunCli(a, given, choice) ==
    /\ worker = NoWorker
    /\ Made(a)
    /\ LET w == Assigned(given, choice)
       IN  /\ config' = [config EXCEPT ![app[a].config].worker = w]
           /\ worker' = [via |-> "cli", app |-> a, settings |-> w]
    /\ UNCHANGED <<env, app, tasks>>

Next ==
    \/ \E c \in Configs : BuildConfig(c)
    \/ \E a \in Apps, c \in Configs, shared \in BOOLEAN, asked \in Given(Modes),
          broker \in Given(Modes) \cup {"created"} : MakeApp(a, c, shared, asked, broker)
    \/ \E a \in Apps, own \in Given(Modes) : RegisterTask(a, own)
    \/ \E a \in Apps, given \in WorkerSettings \cup {NoSettings} : MakeWorker(a, given)
    \/ \E a \in Apps, given \in SUBSET Options, choice \in WorkerSettings :
          RunCli(a, given, choice)

Spec == Init /\ [][Next]_vars

-----------------------------------------------------------------------------
\* The state has its types.
TypeOK ==
    /\ env \in WorkerSettings
    /\ \A c \in Configs : Built(c) => config[c].mode \in Modes
    /\ \A a \in Apps : Made(a) => Built(app[a].config) /\ app[a].mode \in Modes
    /\ \A t \in tasks : t.app \in Apps /\ t.mode \in Modes
    /\ worker # NoWorker => worker.via \in {"app", "own", "cli"} /\ worker.app \in Apps

SoleOwner(a) == \A b \in Apps \ {a} : Made(b) => app[b].config # app[a].config

\* The broker acknowledges, and the worker times its acknowledgement, by a mode each
\* has its own copy of.  The copies agree for every task that does not ask for a
\* mode, whichever way the mode was given and whenever the task is registered, as
\* long as the application made its broker and shares its config with no other.
BrokerAndTasksAgree ==
    \A t \in tasks :
        ~t.own /\ app[t.app].made /\ SoleOwner(t.app) => t.mode = app[t.app].mode

\* A worker that takes its settings from its application has a heartbeat that lives
\* longer than the interval between two, wherever the settings came from: the check
\* of ChicoryConfig is got around only by the CLI and by a WorkerConfig of one's own.
CheckedUnlessByHand ==
    worker # NoWorker /\ worker.via = "app" =>
        worker.settings.ttl > worker.settings.interval
=============================================================================
