------------------------------- MODULE Program -------------------------------
(***************************************************************************)
(* The parts of chicory that work inside one process, or between a parent  *)
(* and its children, and touch neither the broker nor the result store:    *)
(* the attempts of a task under its retry policy, one numeric setting from *)
(* its sources to its use, the address of a server, the settings objects   *)
(* that applications share, the arguments of a call, the names of tasks,   *)
(* and the processes of the worker command.                                *)
(*                                                                         *)
(* They share no variable and no step of one waits for a step of another,  *)
(* so a behaviour lets one of them run (`part') while the others have not  *)
(* begun; the interleavings of two of them would show nothing more.        *)
(***************************************************************************)
EXTENDS RetryPolicy

CONSTANTS
    MaxAssigns, TtlMax, WireMax, SpanMax,           \* Settings
    Kinds, Places, Home,                            \* ConfigTarget
    Configs, Apps, Intervals, Ttls, Sizes, MaxTasks,    \* Configuration
    Signatures, MaxArgs,                            \* TaskInputs
    Functions, ModuleNames, ExplicitNames,          \* TaskRegistry
    N, Timeout, StopTimes, MaxSignals               \* Supervisor

VARIABLES
    part,
    class, field, source, stage, value, wired, failed, assigns,
    kind, parts, url, reached, dsn,
    env, config, app, registered, worker,
    sig, validates, args, keys, valid, call, got,
    option, path, frames, loaded, tasks, made, died,
    parent, at, shutdown, waited, spent, child, age, takes, deaf, interrupted, signals

settingVars == <<class, field, source, stage, value, wired, failed, assigns>>
targetVars == <<kind, parts, url, reached, dsn>>
sharedVars == <<env, config, app, registered, worker>>
callVars == <<sig, validates, args, keys, valid, call, got>>
namingVars == <<option, path, frames, loaded, tasks, made, died>>
commandVars == <<parent, at, shutdown, waited, spent, child, age, takes, deaf, interrupted,
                 signals>>

Setting == INSTANCE Settings
Target == INSTANCE ConfigTarget WITH stage <- reached
Shared == INSTANCE Configuration WITH tasks <- registered
Call == INSTANCE TaskInputs WITH stage <- call
Naming == INSTANCE TaskRegistry
Command == INSTANCE Supervisor

Parts == {"retries", "setting", "target", "shared", "call", "naming", "command"}

\* A part that is not the one that runs stays in one of its initial states.
OneOf(S) == CHOOSE x \in S : TRUE
RetriesRest == policy = OneOf(Policies)
SettingRest ==
    /\ class = "Worker" /\ field = OneOf(DOMAIN Setting!Fields["Worker"])
    /\ source = [s \in {"argument", "environment", "dotenv"} |-> Setting!Absent]
TargetRest ==
    /\ kind = OneOf(Kinds)
    /\ parts = [s \in {"argument", "environment"} |-> Target!Absent]
    /\ url = [s \in {"argument", "environment"} |-> Target!Null]
SharedRest == env = OneOf(Shared!WorkerSettings)
CallRest == sig = <<>> /\ validates = TRUE /\ args = 0 /\ keys = {} /\ valid = TRUE
NamingRest ==
    /\ option = [f \in {Functions[i] : i \in DOMAIN Functions} |-> Naming!NoName]
    /\ path = [p \in Naming!Processes |-> <<>>]
CommandRest == takes = OneOf([1..N -> StopTimes])

ProgramInit ==
    /\ part \in Parts
    /\ IF part = "retries" THEN TRUE ELSE RetriesRest
    /\ IF part = "setting" THEN TRUE ELSE SettingRest
    /\ IF part = "target" THEN TRUE ELSE TargetRest
    /\ IF part = "shared" THEN TRUE ELSE SharedRest
    /\ IF part = "call" THEN TRUE ELSE CallRest
    /\ IF part = "naming" THEN TRUE ELSE NamingRest
    /\ IF part = "command" THEN TRUE ELSE CommandRest
    /\ Init /\ Setting!Init /\ Target!Init /\ Shared!Init
    /\ Call!Init /\ Naming!Init /\ Command!Init

programVars ==
    <<part, vars, settingVars, targetVars, sharedVars, callVars, namingVars, commandVars>>

Retries ==
    /\ part = "retries" /\ Next
    /\ UNCHANGED <<part, settingVars, targetVars, sharedVars, callVars, namingVars, commandVars>>
SettingStep ==
    /\ part = "setting" /\ Setting!Next
    /\ UNCHANGED <<part, vars, targetVars, sharedVars, callVars, namingVars, commandVars>>
TargetStep ==
    /\ part = "target" /\ Target!Next
    /\ UNCHANGED <<part, vars, settingVars, sharedVars, callVars, namingVars, commandVars>>
SharedStep ==
    /\ part = "shared" /\ Shared!Next
    /\ UNCHANGED <<part, vars, settingVars, targetVars, callVars, namingVars, commandVars>>
CallStep ==
    /\ part = "call" /\ Call!Next
    /\ UNCHANGED <<part, vars, settingVars, targetVars, sharedVars, namingVars, commandVars>>
NamingStep ==
    /\ part = "naming" /\ Naming!Next
    /\ UNCHANGED <<part, vars, settingVars, targetVars, sharedVars, callVars, commandVars>>
CommandStep ==
    /\ part = "command" /\ Command!Next
    /\ UNCHANGED <<part, vars, settingVars, targetVars, sharedVars, callVars, namingVars>>

ProgramNext ==
    \/ Retries \/ SettingStep \/ TargetStep \/ SharedStep
    \/ CallStep \/ NamingStep \/ CommandStep

\* The fairness of the two parts whose ends are looked at.
ProgramSpec ==
    /\ ProgramInit /\ [][ProgramNext]_programVars
    /\ WF_programVars(Retries)
    /\ WF_programVars(CommandStep /\ Command!Parent)
    /\ WF_programVars(CommandStep /\ Command!Tick)
    /\ \A c \in 1..N : WF_programVars(CommandStep /\ Command!Exits(c))

------------------------------------------------------------------------------
(* Properties.                                                             *)

\* The part that runs has its types.
ProgramTypeOK ==
    CASE part = "retries" -> TypeOK
      [] part = "setting" -> Setting!TypeOK
      [] part = "target" -> Target!TypeOK
      [] part = "shared" -> Shared!TypeOK
      [] part = "call" -> Call!TypeOK
      [] part = "naming" -> Naming!TypeOK
      [] part = "command" -> Command!TypeOK

\* The retries of a task stay within its budget and its base delays on the schedule
\* of its policy, the jitter of a quarter apart, whatever mixture of exceptions,
\* ctx.retry and RetryError asked; ctx.retry refuses no attempt that
\* ctx.is_last_retry has not warned, and grants one more at most to one it has.
PolicyHolds == part = "retries" => BudgetHolds /\ OnSchedule /\ LastRetryAnnounced

\* What has passed validation works, but for the values of Setting!Unusable and the
\* synchronous drivers of two SQL servers: a number is not refused by the server or
\* the library it reaches, nor an address by its driver; and the sources of either
\* are taken in their order.
ValidatedWorks ==
    /\ part = "setting" => Setting!CheckedWorks /\ Setting!NoSourceIsOverruled
    /\ part = "target" => Target!ValidatedConnects /\ Target!AddressInOrder

\* Applications, brokers, tasks and workers that copy from shared settings objects
\* agree on the delivery mode, and hold what was checked.
CopiesAgree == part = "shared" => Shared!BrokerAndTasksAgree /\ Shared!CheckedUnlessByHand

\* A call means the same to the client, to the worker and to Python, and its values
\* arrive in the form that the validation says.
CallsBind ==
    part = "call" =>
        /\ Call!BindsAsPython /\ Call!ArrivesInForm
        /\ Call!TakesWhatPythonTakes /\ Call!NothingInvalidQueued

\* A name means the same function to the client and to the worker.
NamesAgree ==
    part = "naming" =>
        Naming!NeverAnotherFunction /\ Naming!KnownByTheWorker /\ Naming!NoMainInNames

\* The worker command leaves no process behind, kills only who is stuck, cuts off
\* nobody that only it has told, and takes no longer than its timeouts.
CommandKeepsItsWord == part = "command" => Command!KeepsItsWord

\* What is under way comes to an end: the attempts of a task, and a worker command
\* that was told to stop.
ComesToAnEnd ==
    /\ part = "retries" => Concluded
    /\ Command!ShutsDown
==============================================================================
