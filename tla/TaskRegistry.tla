---------------------------- MODULE TaskRegistry ----------------------------
(* How the tasks of a source file get their names, in the client that          *)
(* publishes them and in the worker that runs them: the import system as far   *)
(* as it matters, _resolve_task_name (src/chicory/task.py), resolve_module_name *)
(* and validate_module_candidate (utils.py), Chicory.task and get_task         *)
(* (app.py), and _import_app (cli/cli.py).                                     *)
(*                                                                             *)
(* The file makes its app, then defines its tasks one after the other.  The    *)
(* client runs the file as a script or imports it, the worker imports it; each *)
(* import under another module name executes the file once more.               *)
EXTENDS Naturals, Sequences, SequencesExt

CONSTANTS
    Functions,        \* the task functions of the file, in their order
    ModuleNames,      \* the names the file can be imported under
    ExplicitNames     \* names a program gives to tasks itself

Processes == {"client", "worker"}
Main == "__main__"
NoName == "no name"

\* The name of a task is a module with a function, or an explicit name.
Derived(m, f) == [module |-> m, function |-> f]
Explicit(n) == [module |-> NoName, function |-> n]

VARIABLES
    option,           \* option[f]: the name given to the decorator, or NoName
    path,             \* path[p]: the import names that sys.path of p allows, in order
    frames,           \* frames[p]: the executions of the file, innermost last
    loaded,           \* loaded[p]: sys.modules: the names with what they define so far
    tasks,            \* tasks[p]: app._tasks of the module m: name -> function
    made,             \* made[p]: the Task objects: module, function, name
    died              \* died[p]: the file raised RuntimeError

vars == <<option, path, frames, loaded, tasks, made, died>>

Count == Len(Functions)

\* An execution of the file as module m: the function it is at, and, while the name
\* of that one is resolved, the import names not yet tried.
Frame(m) == [module |-> m, at |-> 1, resolving |-> FALSE, todo |-> <<>>]

Paths == {s \in UNION {[1..n -> ModuleNames] : n \in 0..2} : IsInjective(s)}

\* The entry of the client: a script, or an import; that of the worker: the import
\* of _import_app.
Entries(p, names) == IF p = "client" THEN Range(names) \cup {Main} ELSE Range(names)

Init ==
    /\ option \in [Range(Functions) -> ExplicitNames \cup {NoName}]
    /\ path \in [Processes -> Paths]
    /\ frames = [p \in Processes |-> <<>>]
    /\ loaded = [p \in Processes |-> {}]
    /\ tasks = [p \in Processes |-> {}]
    /\ made = [p \in Processes |-> {}]
    /\ died = [p \in Processes |-> FALSE]

Top(p) == Last(frames[p])
Current(p) == Functions[Top(p).at]
Running(p) == frames[p] # <<>> /\ ~died[p]
WithTop(p, frame) == [frames EXCEPT ![p] = [frames[p] EXCEPT ![Len(frames[p])] = frame]]

Start(p, m) ==
    /\ loaded[p] = {} /\ ~died[p]
    /\ m \in Entries(p, path[p])
    /\ frames' = [frames EXCEPT ![p] = <<Frame(m)>>]
    /\ loaded' = [loaded EXCEPT ![p] = {m}]
    /\ UNCHANGED <<option, path, tasks, made, died>>

\* Task.__init__ is through: the decorator enters the task in the app of this
\* execution, over an entry of the same name, and the module attribute is the
\* Task, not the function.
Register(p, name) ==
    LET m == Top(p).module
        f == Current(p)
    IN  /\ tasks' = [tasks EXCEPT ![p] =
              {t \in @ : t.module # m \/ t.name # name}
                  \cup {[module |-> m, name |-> name, function |-> f]}]
        /\ made' = [made EXCEPT ![p] = @ \cup {[module |-> m, function |-> f, name |-> name]}]
        /\ frames' = WithTop(p, [Top(p) EXCEPT !.at = @ + 1, !.resolving = FALSE, !.todo = <<>>])

\* Mutant: the name is the __module__ of the function, whatever that is.
DefineNamedAnyhow(p) ==
    /\ Running(p) /\ Top(p).at <= Count /\ ~Top(p).resolving
    /\ \/ option[Current(p)] # NoName /\ Register(p, Explicit(option[Current(p)]))
       \/ /\ option[Current(p)] = NoName
          /\ Register(p, Derived(Top(p).module, Current(p)))
    /\ UNCHANGED <<option, path, loaded, died>>

\* An explicit name, or the module of the function if it is not __main__.
DefineNamed(p) ==
    /\ Running(p) /\ Top(p).at <= Count /\ ~Top(p).resolving
    /\ \/ option[Current(p)] # NoName /\ Register(p, Explicit(option[Current(p)]))
       \/ /\ option[Current(p)] = NoName /\ Top(p).module # Main
          /\ Register(p, Derived(Top(p).module, Current(p)))
    /\ UNCHANGED <<option, path, loaded, died>>

\* resolve_module_name: a function of __main__; try the names of its file.
DefineInMain(p) ==
    /\ Running(p) /\ Top(p).at <= Count /\ ~Top(p).resolving
    /\ option[Current(p)] = NoName /\ Top(p).module = Main
    /\ frames' = WithTop(p, [Top(p) EXCEPT !.resolving = TRUE, !.todo = path[p]])
    /\ UNCHANGED <<option, path, loaded, tasks, made, died>>

\* importlib.import_module of a candidate that is not in sys.modules: the file is
\* executed under that name.
TryImport(p) ==
    /\ Running(p) /\ Top(p).resolving /\ Top(p).todo # <<>>
    /\ Head(Top(p).todo) \notin loaded[p]
    /\ loaded' = [loaded EXCEPT ![p] = @ \cup {Head(Top(p).todo)}]
    /\ frames' = [frames EXCEPT ![p] = Append(@, Frame(Head(Top(p).todo)))]
    /\ UNCHANGED <<option, path, tasks, made, died>>

\* "attr is fn": the attribute of module m is an object of m, a Task once the
\* function is decorated, and never the function of this execution.
Holds(p, m, f) == m = Top(p).module /\ \A t \in made[p] : t.module # m \/ t.function # f

TryCandidate(p) ==
    /\ Running(p) /\ Top(p).resolving /\ Top(p).todo # <<>>
    /\ LET m == Head(Top(p).todo)
       IN  /\ m \in loaded[p]
           /\ IF Holds(p, m, Current(p))
              THEN Register(p, Derived(m, Current(p)))
              ELSE /\ frames' = WithTop(p, [Top(p) EXCEPT !.todo = Tail(@)])
                   /\ UNCHANGED <<tasks, made>>
    /\ UNCHANGED <<option, path, loaded, died>>

\* No candidate is left: RuntimeError, the script ends.
Unresolved(p) ==
    /\ Running(p) /\ Top(p).resolving /\ Top(p).todo = <<>>
    /\ died' = [died EXCEPT ![p] = TRUE]
    /\ UNCHANGED <<option, path, frames, loaded, tasks, made>>

\* The file is executed to its end.
Finish(p) ==
    /\ Running(p) /\ Top(p).at > Count
    /\ frames' = [frames EXCEPT ![p] = Front(@)]
    /\ UNCHANGED <<option, path, loaded, tasks, made, died>>

Next ==
    \E p \in Processes :
        \/ \E m \in ModuleNames \cup {Main} : Start(p, m)
        \/ DefineNamed(p) \/ DefineInMain(p) \/ TryImport(p) \/ TryCandidate(p)
        \/ Unresolved(p) \/ Finish(p)

Spec == Init /\ [][Next]_vars

-----------------------------------------------------------------------------
\* The state has its types.
Names == {Derived(m, f) : m \in ModuleNames \cup {Main}, f \in Range(Functions)}
         \cup {Explicit(n) : n \in ExplicitNames}
TypeOK ==
    /\ \A p \in Processes :
        /\ path[p] \in Paths /\ loaded[p] \subseteq ModuleNames \cup {Main}
        /\ \A t \in tasks[p] \cup made[p] :
              /\ t.module \in ModuleNames \cup {Main} /\ t.name \in Names
              /\ t.function \in Range(Functions)
        /\ died[p] \in BOOLEAN
    /\ \A p \in Processes : \A i \in DOMAIN frames[p] : frames[p][i].at \in 1..(Count + 1)

\* What the worker runs for a message with this name: get_task of the app of the
\* module it was started with.
Runs(name) == {t.function : t \in {u \in tasks["worker"] : u.name = name}}

\* Both files are executed to their end.
Done == \A p \in Processes : loaded[p] # {} /\ frames[p] = <<>> /\ ~died[p]

OneClaim(name) == \A t, u \in made["client"] : t.name = name /\ u.name = name => t.function = u.function

\* A task is run by the function it was made from, or by none: a message reaches
\* another function only if two functions of the file claim one name, the second
\* of which took it over without a word.
NeverAnotherFunction ==
    Done => \A t \in made["client"] : OneClaim(t.name) => Runs(t.name) \subseteq {t.function}

\* The worker knows every task of a client that imported the file under the name
\* the worker did, and every task with an explicit name; it knows no other: a name
\* that is derived under another import path is not found.
KnownByTheWorker ==
    Done => \A t \in made["client"] :
        Runs(t.name) # {} <=> t.name.module = NoName \/ t.name.module \in loaded["worker"]

\* A name that is sent to a worker never speaks of __main__, which is another
\* module there.
NoMainInNames == \A p \in Processes : \A t \in made[p] : t.name.module # Main
=============================================================================
