----------------------------- MODULE Supervisor -----------------------------
(***************************************************************************)
(* `chicory worker --workers N': the parent process that starts N worker   *)
(* processes, waits for a signal, terminates them, joins them one after    *)
(* the other and kills those that are still alive (src/chicory/cli/cli.py), *)
(* and the processes, as far as signals concern them: run(), start() and   *)
(* _handle_shutdown (worker.py).  run() removes its handlers as soon as    *)
(* the consume loop is over, while tasks and threads still have to end.    *)
(* What a worker does between is in WorkerLifecycle.                       *)
(*                                                                         *)
(* The processes are forked before the parent has handlers of its own.     *)
(* Time passes while a process is waited for; the rest takes none.         *)
(***************************************************************************)
EXTENDS Naturals

CONSTANTS
    N,              \* --workers
    Timeout,        \* --shutdown-timeout
    StopTimes,      \* how long a worker may take to stop and to exit
    MaxSignals      \* bound on the signals

VARIABLES
    parent,         \* where the parent is
    at,             \* the process it is at, in a loop over all of them
    shutdown,       \* shutdown_event
    waited,         \* how long it has waited in the current join
    spent,          \* how long since it began to terminate
    child,          \* child[c]: the state of process c
    age,            \* age[c]: how long it has been on its way out
    takes,          \* takes[c]: how long that takes
    deaf,           \* the processes that dropped a signal
    interrupted,    \* Ctrl-C has been pressed
    signals         \* how many signals have been sent

times == <<waited, spent, age, takes>>
vars == <<parent, at, shutdown, times, child, deaf, interrupted, signals>>

Workers == 1..N
\* Ended by itself or with no work to lose, cut off by a signal in the middle of
\* its exit, killed by the parent.
Dead == {"ended", "cut", "killed"}
\* On the way out: stop() waits for the consume loop; that is over, and run() has
\* removed its handlers; the loop raised by itself, with the same effect.
Outbound == {"stopping", "exiting", "failing"}
Leaving == {"leaving", "leaving half installed"}
Alive(c) == child[c] \notin Dead \cup {"unborn"}

Init ==
    /\ parent = "spawning" /\ at = 1 /\ shutdown = FALSE
    /\ waited = 0 /\ spent = 0
    /\ child = [c \in Workers |-> "unborn"]
    /\ age = [c \in Workers |-> 0]
    /\ takes \in [Workers -> StopTimes]
    /\ deaf = {} /\ interrupted = FALSE /\ signals = 0

-----------------------------------------------------------------------------
(* The worker processes.                                                     *)

\* The app is imported; run() installs its handlers and start() connects;
\* _running is set.
Advance(c) ==
    /\ \/ child[c] = "importing" /\ child' = [child EXCEPT ![c] = "connecting"]
       \/ child[c] = "connecting" /\ child' = [child EXCEPT ![c] = "running"]
    /\ UNCHANGED <<parent, at, shutdown, times, deaf, interrupted, signals>>

\* The import or the connection fails, or the process crashes: nobody starts
\* another one.
Crash(c) ==
    /\ Alive(c)
    /\ child' = [child EXCEPT ![c] = "ended"]
    /\ UNCHANGED <<parent, at, shutdown, times, deaf, interrupted, signals>>

\* The consume loop is over, because stop() was called or because consume()
\* raised.  run() goes on: its own stop() returns at once, the handlers are
\* removed, and asyncio.run cancels the tasks and waits for them and the threads.
ConsumeOver(c) ==
    /\ \/ child[c] = "stopping" /\ child' = [child EXCEPT ![c] = "exiting"]
       \/ child[c] = "running" /\ child' = [child EXCEPT ![c] = "failing"]
    /\ UNCHANGED <<parent, at, shutdown, times, deaf, interrupted, signals>>

\* Tasks and threads are through, and the process ends.
Stopped(c) ==
    /\ child[c] \in {"exiting", "failing"} /\ age[c] >= takes[c]
    /\ child' = [child EXCEPT ![c] = "ended"]
    /\ UNCHANGED <<parent, at, shutdown, times, deaf, interrupted, signals>>

\* What a signal makes of a process: before run() has handlers it dies;
\* _handle_shutdown calls stop() if _running is set, and does nothing before and
\* after that; once run() has removed them it dies if the signal is `fatal'.
Hears(c, fatal) ==
    CASE child[c] = "importing" -> "ended"
      [] child[c] = "running" -> "stopping"
      [] child[c] = "exiting" /\ fatal -> "cut"
      [] child[c] = "failing" /\ fatal -> "ended"
      [] OTHER -> child[c]

Signalled(C, F) ==
    /\ child' = [c \in Workers |-> IF c \in C THEN Hears(c, c \in F) ELSE child[c]]
    /\ deaf' = deaf \cup {c \in C : child[c] = "connecting"}

-----------------------------------------------------------------------------
(* The parent.                                                               *)

Spawn ==
    /\ parent = "spawning"
    /\ child' = [child EXCEPT ![at] = "importing"]
    /\ \/ at < N /\ at' = at + 1 /\ UNCHANGED parent
       \/ at = N /\ at' = 1 /\ parent' = "installing"
    /\ UNCHANGED <<shutdown, times, deaf, interrupted, signals>>

\* signal.signal, for SIGTERM first.
Install ==
    /\ \/ parent = "installing" /\ parent' = "half installed"
       \/ parent = "half installed" /\ parent' = "waiting"
    /\ UNCHANGED <<at, shutdown, times, child, deaf, interrupted, signals>>

\* The sleep of a second is over.
Notice ==
    /\ parent = "waiting" /\ shutdown
    /\ parent' = "terminating"
    /\ UNCHANGED <<at, shutdown, times, child, deaf, interrupted, signals>>

\* Mutant: the loop leaves out the last process.
TerminateAllButOne ==
    /\ parent = "terminating"
    /\ Signalled({at} \ {N}, {at})
    /\ \/ at < N /\ at' = at + 1 /\ UNCHANGED parent
       \/ at = N /\ at' = 1 /\ parent' = "joining"
    /\ UNCHANGED <<shutdown, times, interrupted, signals>>

\* p.terminate() is SIGTERM: fatal where no handler is.
Terminate ==
    /\ parent = "terminating"
    /\ Signalled({at}, {at})
    /\ \/ at < N /\ at' = at + 1 /\ UNCHANGED parent
       \/ at = N /\ at' = 1 /\ parent' = "joining"
    /\ UNCHANGED <<shutdown, times, interrupted, signals>>

\* The parent goes on to the next process, or is through.
NextJoin ==
    /\ waited' = 0
    /\ \/ at < N /\ at' = at + 1 /\ UNCHANGED parent
       \/ at = N /\ parent' = "returned" /\ UNCHANGED at

\* p.join returns early.
Joined ==
    /\ parent = "joining" /\ ~Alive(at)
    /\ NextJoin
    /\ UNCHANGED <<shutdown, spent, age, takes, child, deaf, interrupted, signals>>

\* The join times out, and the process is killed.
Kill ==
    /\ parent = "joining" /\ Alive(at) /\ waited >= Timeout
    /\ child' = [child EXCEPT ![at] = "killed"]
    /\ NextJoin
    /\ UNCHANGED <<shutdown, spent, age, takes, deaf, interrupted, signals>>

\* multiprocessing waits at the exit of the interpreter for the processes that
\* are still there, and tells them nothing.
Leave ==
    /\ parent \in Leaving /\ \A c \in Workers : ~Alive(c)
    /\ parent' = "returned"
    /\ UNCHANGED <<at, shutdown, times, child, deaf, interrupted, signals>>

-----------------------------------------------------------------------------
(* The outside.                                                              *)

\* SIGTERM to the parent: it dies of it while it has no handler.
SigTerm ==
    /\ parent # "returned" /\ signals < MaxSignals
    /\ signals' = signals + 1
    /\ IF parent \in {"spawning", "installing", "leaving"}
       THEN parent' = "killed" /\ UNCHANGED shutdown
       ELSE shutdown' = (shutdown \/ parent # "killed") /\ UNCHANGED parent
    /\ UNCHANGED <<at, times, child, deaf, interrupted>>

\* Ctrl-C in the terminal: SIGINT to the parent and to its processes.  Without
\* the handler the parent gets a KeyboardInterrupt that nothing catches; a second
\* one interrupts the wait at the exit.  In a process without handlers it is a
\* KeyboardInterrupt too: it ends the process, or only the wait for the tasks, and
\* the threads are still waited for.
CtrlC ==
    /\ parent # "returned" /\ signals < MaxSignals
    /\ signals' = signals + 1 /\ interrupted' = TRUE
    /\ \/ /\ parent \in {"spawning", "installing", "half installed"}
          /\ parent' = IF parent = "half installed" THEN "leaving half installed" ELSE "leaving"
          /\ UNCHANGED shutdown
       \/ /\ parent \in Leaving
          /\ parent' = "killed" /\ UNCHANGED shutdown
       \/ /\ parent \in {"waiting", "terminating", "joining"}
          /\ shutdown' = TRUE /\ UNCHANGED parent
       \/ /\ parent = "killed"
          /\ UNCHANGED <<parent, shutdown>>
    /\ \E F \in SUBSET Workers : Signalled(Workers, F)
    /\ UNCHANGED <<at, times>>

\* A process whose exit is due ends before more time passes, and so does a
\* join that is due.
Tick ==
    /\ \E c \in Workers : child[c] \in Outbound \/ (parent = "joining" /\ Alive(at))
    /\ parent \notin {"terminating"}
    /\ \A c \in Workers : child[c] \in Outbound => age[c] < takes[c]
    /\ parent = "joining" => Alive(at) /\ waited < Timeout
    /\ age' = [c \in Workers |-> IF child[c] \in Outbound THEN age[c] + 1 ELSE age[c]]
    /\ waited' = IF parent = "joining" THEN waited + 1 ELSE waited
    /\ spent' = IF parent = "joining" THEN spent + 1 ELSE spent
    /\ UNCHANGED <<parent, at, shutdown, takes, child, deaf, interrupted, signals>>

Parent == Spawn \/ Install \/ Notice \/ Terminate \/ Joined \/ Kill \/ Leave
Exits(c) == child[c] \in Outbound /\ (ConsumeOver(c) \/ Stopped(c))
Next ==
    \/ Parent \/ SigTerm \/ CtrlC \/ Tick
    \/ \E c \in Workers : Advance(c) \/ Crash(c) \/ ConsumeOver(c) \/ Stopped(c)

\* The parent runs, time passes, a process that is on its way out ends.
Fairness ==
    /\ WF_vars(Parent) /\ WF_vars(Tick)
    /\ \A c \in Workers : WF_vars(Exits(c))

Spec == Init /\ [][Next]_vars
FairSpec == Spec /\ Fairness

-----------------------------------------------------------------------------
(* Properties.                                                               *)

\* The state has its types.
TypeOK ==
    /\ parent \in {"spawning", "installing", "half installed", "waiting", "terminating",
                   "joining", "returned", "killed"} \cup Leaving
    /\ at \in Workers /\ shutdown \in BOOLEAN
    /\ waited \in 0..Timeout /\ spent \in Nat
    /\ child \in [Workers -> Dead \cup Outbound
                             \cup {"unborn", "importing", "connecting", "running"}]
    /\ age \in [Workers -> Nat] /\ takes \in [Workers -> StopTimes]
    /\ deaf \subseteq Workers /\ interrupted \in BOOLEAN /\ signals \in 0..MaxSignals

\* A command that returns leaves no worker process behind, whenever the signals
\* came: only a parent that dies of a signal, before it has handlers or while it
\* waits at its exit, does.
LeavesNobody == parent = "returned" => \A c \in Workers : ~Alive(c)

\* The kill is for a worker that does not answer: one that stops and exits in less
\* than the timeout is not killed by the parent, however many stop at once, in
\* whichever order they are joined, and whether they were told by the parent or by
\* the terminal; but a worker that was still connecting when it was told drops the
\* signal, and is killed with whatever it has taken since.
KilledOnlyIfStuck ==
    \A c \in Workers : child[c] = "killed" => c \in deaf \/ takes[c] >= Timeout

\* The terminate() of the parent alone cuts no worker off in its exit, for it comes
\* once to each: a worker is cut off only when Ctrl-C has been pressed too, which
\* told it before or after.  (Then terminate() may meet one that is in time and has
\* removed its handlers, although docs/user-guide/workers.md:132 grants it the timeout.)
CutOnlyIfInterrupted == \A c \in Workers : child[c] = "cut" => interrupted

\* The whole takes N times the timeout at most, for the joins are in sequence.
SpentBounded == spent <= N * Timeout

\* A parent that waits for its signal and gets one returns, however long its
\* workers take and whatever else is signalled.
ShutsDown == parent = "waiting" /\ shutdown ~> parent = "returned"

\* What the command promises: it leaves nobody behind, kills only who is stuck, cuts
\* off nobody that heard of the end from it alone, and takes no longer than its
\* timeouts.
KeepsItsWord == LeavesNobody /\ KilledOnlyIfStuck /\ CutOnlyIfInterrupted /\ SpentBounded
=============================================================================
