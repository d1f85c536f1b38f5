---------------------------- MODULE WorkerLifecycle ----------------------------
(***************************************************************************)
(* The life of one Worker object (src/chicory/worker.py): start(), stop(), *)
(* run() with its signal handlers, and the asyncio tasks they create (the  *)
(* consume loop, the heartbeat loop, the cleanup loop and one handler for  *)
(* each envelope), all on one event loop, plus the threads of the          *)
(* executor that runs synchronous task functions.                          *)
(*                                                                         *)
(* What a handler does with its envelope is in Worker; here it only runs.  *)
(* A worker is started once.  `mode' says who drives it: a program that    *)
(* awaits start() and stop() itself ("owner"), or asyncio.run(run()), as   *)
(* the command line does ("run").                                          *)
(***************************************************************************)
EXTENDS Naturals

CONSTANTS
    Envelopes,      \* the envelopes the broker may deliver
    Threaded,       \* those whose task function is synchronous
    Stoppers,       \* bound: the calls of stop(), by a signal or by the owner
    Modes           \* the ways the worker may be driven

ASSUME LifecycleAssumption ==
    /\ Threaded \subseteq Envelopes
    /\ Modes \subseteq {"owner", "run"} /\ Modes # {}

VARIABLES
    mode,           \* who drives the worker
    main,           \* where start() and the rest of run() are
    running,        \* Worker._running
    polling,        \* the broker's _running, which ends consume()
    linked,         \* the application is connected
    consumer,       \* the task of _consume_loop
    heartbeat,      \* the task of _heartbeat_loop
    cleanup,        \* the task of _cleanup_loop
    beat,           \* the is_running of the heartbeat the backend stores
    work,           \* work[e]: what became of envelope e
    threads,        \* the envelopes whose function runs in the executor
    stopping,       \* stopping[c]: where call c of stop() is
    expired         \* shutdown_timeout passed while stop() waited for handlers

loopVars == <<heartbeat, cleanup, beat>>
workVars == <<work, threads>>
stopVars == <<stopping, expired>>
vars == <<mode, main, running, polling, linked, consumer, loopVars, workVars, stopVars>>

Loop == {"none", "idle", "busy", "cancelling", "off"}
Awaits == {"heartbeat", "cleanup", "consumer", "drain", "last_beat", "executor", "disconnect"}
Over == {"returned", "raised", "cancelled"}

TypeOK ==
    /\ mode \in Modes
    /\ main \in {"off", "connecting", "up", "failed", "exited"}
    /\ running \in BOOLEAN /\ polling \in BOOLEAN /\ linked \in BOOLEAN
    /\ consumer \in {"none", "entering", "polling", "over", "failed"}
    /\ heartbeat \in Loop /\ cleanup \in Loop
    /\ beat \in {"none", "running", "stopped"}
    /\ work \in [Envelopes -> {"waiting", "active", "threaded", "done", "cancelled", "left"}]
    /\ threads \subseteq Threaded
    /\ stopping \in [Stoppers -> {"idle", "called"} \cup Awaits \cup Over]
    /\ expired \in BOOLEAN

Init ==
    /\ mode \in Modes
    /\ main = "off"
    /\ running = FALSE /\ polling = FALSE /\ linked = FALSE
    /\ consumer = "none" /\ heartbeat = "none" /\ cleanup = "none"
    /\ beat = "none"
    /\ work = [e \in Envelopes |-> "waiting"]
    /\ threads = {}
    /\ stopping = [c \in Stoppers |-> "idle"]
    /\ expired = FALSE

--------------------------------------------------------------------------------
(* start().                                                                *)

Start ==
    /\ main = "off"
    /\ main' = "connecting"
    /\ UNCHANGED <<mode, running, polling, linked, consumer, loopVars, workVars, stopVars>>

\* The three tasks are created, and none has run yet.
Connected ==
    /\ main = "connecting"
    /\ main' = "up" /\ linked' = TRUE
    /\ running' = TRUE
    /\ consumer' = "entering" /\ heartbeat' = "idle" /\ cleanup' = "idle"
    /\ UNCHANGED <<mode, polling, beat, workVars, stopVars>>

\* app.connect() raises, perhaps between the broker and the backend.
ConnectFails ==
    /\ main = "connecting"
    /\ main' = "failed" /\ linked' \in BOOLEAN
    /\ UNCHANGED <<mode, running, polling, consumer, loopVars, workVars, stopVars>>

--------------------------------------------------------------------------------
(* The background tasks.                                                   *)

\* consume() sets the broker's flag when it is entered, even after a stop().
EnterConsume ==
    /\ consumer = "entering"
    /\ consumer' = "polling" /\ polling' = TRUE
    /\ UNCHANGED <<mode, main, running, linked, loopVars, workVars, stopVars>>

\* An envelope that arrives after stop() ends the loop and stays unacknowledged.
Deliver(e) ==
    /\ consumer = "polling" /\ work[e] = "waiting"
    /\ IF running
       THEN /\ work' = [work EXCEPT ![e] = "active"]
            /\ UNCHANGED consumer
       ELSE /\ work' = [work EXCEPT ![e] = "left"]
            /\ consumer' = "over"
    /\ UNCHANGED <<mode, main, running, polling, linked, loopVars, threads, stopVars>>

PollEnds ==
    /\ consumer = "polling" /\ ~polling
    /\ consumer' = "over" /\ running' = FALSE
    /\ UNCHANGED <<mode, main, polling, linked, loopVars, workVars, stopVars>>

ConsumeFails ==
    /\ consumer = "polling"
    /\ consumer' = "failed" /\ running' = FALSE
    /\ UNCHANGED <<mode, main, polling, linked, loopVars, workVars, stopVars>>

\* The statistics are taken, and the call to the backend is on its way.
Beat ==
    /\ heartbeat = "idle"
    /\ heartbeat' = IF running THEN "busy" ELSE "off"
    /\ UNCHANGED <<mode, main, running, polling, linked, consumer, cleanup, beat, workVars, stopVars>>

\* The heartbeat is stored, or the call fails and the loop goes on.  A
\* cancelled call may have been stored as well.
BeatStored ==
    /\ heartbeat \in {"busy", "cancelling"}
    /\ heartbeat' = IF heartbeat = "busy" THEN "idle" ELSE "off"
    /\ beat' \in {beat, "running"}
    /\ UNCHANGED <<mode, main, running, polling, linked, consumer, cleanup, workVars, stopVars>>

\* The flag is read before the sleep, never between the sleep and the cleanup.
Clean ==
    /\ cleanup = "idle"
    /\ cleanup' = "busy"
    /\ UNCHANGED <<mode, main, running, polling, linked, consumer, heartbeat, beat, workVars, stopVars>>

Cleaned ==
    /\ cleanup \in {"busy", "cancelling"}
    /\ cleanup' = IF cleanup = "busy" /\ running THEN "idle" ELSE "off"
    /\ UNCHANGED <<mode, main, running, polling, linked, consumer, heartbeat, beat, workVars, stopVars>>

\* Mutant: every function goes to the executor.
SubmitAny(e) ==
    /\ work[e] = "active"
    /\ work' = [work EXCEPT ![e] = "threaded"]
    /\ threads' = threads \cup {e}
    /\ UNCHANGED <<mode, main, running, polling, linked, consumer, loopVars, stopVars>>

\* A handler hands a synchronous function to the executor.
Submit(e) ==
    /\ work[e] = "active" /\ e \in Threaded
    /\ work' = [work EXCEPT ![e] = "threaded"]
    /\ threads' = threads \cup {e}
    /\ UNCHANGED <<mode, main, running, polling, linked, consumer, loopVars, stopVars>>

\* The handler of e ends without a thread.
Finish(e) ==
    /\ work[e] = "active"
    /\ work' = [work EXCEPT ![e] = "done"]
    /\ UNCHANGED <<mode, main, running, polling, linked, consumer, loopVars, threads, stopVars>>

\* A thread cannot be cancelled: it ends when its function does.
ThreadEnds(e) ==
    /\ e \in threads
    /\ threads' = threads \ {e}
    /\ work' = [work EXCEPT ![e] = IF @ = "threaded" THEN "done" ELSE @]
    /\ UNCHANGED <<mode, main, running, polling, linked, consumer, loopVars, stopVars>>

--------------------------------------------------------------------------------
(* stop(), one step for each of its awaits.                                *)

Pending == {e \in Envelopes : work[e] \in {"active", "threaded"}}

CancelWork == work' = [e \in Envelopes |-> IF e \in Pending THEN "cancelled" ELSE work[e]]

\* Task.cancel(): a loop inside a call to a server takes the request there.
CancelLoop(l) == IF l \in {"busy", "cancelling"} THEN "cancelling" ELSE "off"

At(c, p) == stopping' = [stopping EXCEPT ![c] = p]

\* The owner calls stop(), or a signal creates a task that will.
\* _handle_shutdown drops a signal that comes before _running is set.
CallStop(c) ==
    /\ stopping[c] = "idle" /\ main = "up"
    /\ mode = "run" => running
    /\ At(c, "called")
    /\ UNCHANGED <<mode, main, running, polling, linked, consumer, loopVars, workVars, expired>>

BeginStop(c) ==
    /\ stopping[c] = "called"
    /\ IF running
       THEN /\ running' = FALSE /\ polling' = FALSE
            /\ heartbeat' = CancelLoop(heartbeat)
            /\ At(c, "heartbeat")
       ELSE /\ At(c, "returned")
            /\ UNCHANGED <<running, polling, heartbeat>>
    /\ UNCHANGED <<mode, main, linked, consumer, cleanup, beat, workVars, expired>>

\* Mutant: the heartbeat task is cancelled and not awaited.
HeartbeatNotAwaited(c) ==
    /\ stopping[c] = "heartbeat"
    /\ cleanup' = CancelLoop(cleanup)
    /\ At(c, "cleanup")
    /\ UNCHANGED <<mode, main, running, polling, linked, consumer, heartbeat, beat, workVars, expired>>

HeartbeatOver(c) ==
    /\ stopping[c] = "heartbeat" /\ heartbeat = "off"
    /\ cleanup' = CancelLoop(cleanup)
    /\ At(c, "cleanup")
    /\ UNCHANGED <<mode, main, running, polling, linked, consumer, heartbeat, beat, workVars, expired>>

CleanupOver(c) ==
    /\ stopping[c] = "cleanup" /\ cleanup = "off"
    /\ At(c, "consumer")
    /\ UNCHANGED <<mode, main, running, polling, linked, consumer, loopVars, workVars, expired>>

\* Mutant: the consume loop is awaited without a timeout.
ConsumerOverUntimed(c) ==
    /\ stopping[c] = "consumer" /\ consumer \in {"over", "failed"}
    /\ At(c, IF consumer = "failed" THEN "raised" ELSE "drain")
    /\ UNCHANGED <<mode, main, running, polling, linked, consumer, loopVars, workVars, expired>>

\* wait_for re-raises what the consume loop raised; after 5 s it cancels the loop.
ConsumerOver(c) ==
    /\ stopping[c] = "consumer"
    /\ IF consumer = "failed"
       THEN At(c, "raised") /\ UNCHANGED consumer
       ELSE At(c, "drain") /\ consumer' = "over"
    /\ running' = FALSE
    /\ UNCHANGED <<mode, main, polling, linked, loopVars, workVars, expired>>

Drained(c) ==
    /\ stopping[c] = "drain" /\ Pending = {}
    /\ At(c, "last_beat")
    /\ UNCHANGED <<mode, main, running, polling, linked, consumer, loopVars, workVars, expired>>

\* shutdown_timeout passes: the handlers are cancelled, the threads are not.
DrainExpires(c) ==
    /\ stopping[c] = "drain" /\ Pending # {}
    /\ expired' = TRUE
    /\ CancelWork
    /\ At(c, "last_beat")
    /\ UNCHANGED <<mode, main, running, polling, linked, consumer, loopVars, threads>>

\* A heartbeat that cannot be stored is logged and forgotten.
LastBeat(c) ==
    /\ stopping[c] = "last_beat"
    /\ beat' \in {beat, IF running THEN "running" ELSE "stopped"}
    /\ At(c, "executor")
    /\ UNCHANGED <<mode, main, running, polling, linked, consumer, heartbeat, cleanup, workVars, expired>>

\* Mutant: the threads of the executor are not awaited.
ExecutorLeft(c) ==
    /\ stopping[c] = "executor"
    /\ At(c, "disconnect")
    /\ UNCHANGED <<mode, main, running, polling, linked, consumer, loopVars, workVars, expired>>

\* executor.shutdown(True) waits for every thread, without a timeout.
ExecutorShut(c) ==
    /\ stopping[c] = "executor" /\ threads = {}
    /\ At(c, "disconnect")
    /\ UNCHANGED <<mode, main, running, polling, linked, consumer, loopVars, workVars, expired>>

Disconnect(c) ==
    /\ stopping[c] = "disconnect"
    /\ \/ linked' = FALSE /\ At(c, "returned")
       \/ linked' \in BOOLEAN /\ At(c, "raised")
    /\ UNCHANGED <<mode, main, running, polling, consumer, loopVars, workVars, expired>>

--------------------------------------------------------------------------------
(* The rest of run().                                                      *)

\* run() awaits the consume loop; then its own stop() returns at once, as
\* _running is FALSE, and asyncio.run cancels every task that is left.  A
\* stop() that awaits a cancelled loop swallows the cancellation.
RunExits ==
    /\ mode = "run" /\ main = "up" /\ consumer \in {"over", "failed"}
    /\ main' = "exited"
    /\ CancelWork
    /\ heartbeat' = CancelLoop(heartbeat) /\ cleanup' = CancelLoop(cleanup)
    /\ stopping' = [c \in Stoppers |->
           IF stopping[c] \in {"called"} \cup (Awaits \ {"heartbeat", "cleanup"})
           THEN "cancelled" ELSE stopping[c]]
    /\ UNCHANGED <<mode, running, polling, linked, consumer, beat, threads, expired>>

--------------------------------------------------------------------------------

Background ==
    \/ EnterConsume \/ PollEnds \/ ConsumeFails
    \/ Beat \/ BeatStored \/ Clean \/ Cleaned
    \/ \E e \in Envelopes : Deliver(e) \/ Submit(e) \/ Finish(e) \/ ThreadEnds(e)

StopStep(c) ==
    \/ BeginStop(c) \/ HeartbeatOver(c) \/ CleanupOver(c) \/ ConsumerOver(c)
    \/ Drained(c) \/ DrainExpires(c) \/ LastBeat(c) \/ ExecutorShut(c) \/ Disconnect(c)

Next ==
    \/ Start \/ Connected \/ ConnectFails
    \/ Background
    \/ \E c \in Stoppers : CallStop(c) \/ StopStep(c)
    \/ RunExits

Spec == Init /\ [][Next]_vars

\* The event loop runs what is ready, a cancelled call ends, the two timeouts of
\* stop() pass, and every synchronous function returns.  Nothing is assumed of
\* the broker: a poll may block for ever (block_ms = 0).
Fairness ==
    /\ \A c \in Stoppers : WF_vars(StopStep(c))
    /\ WF_vars(BeatStored) /\ WF_vars(Cleaned)
    /\ WF_vars(RunExits)
    /\ \A e \in Envelopes : WF_vars(ThreadEnds(e))

FairSpec == Spec /\ Fairness

--------------------------------------------------------------------------------
(* Properties.                                                             *)

\* Whatever uses the connections of the application (a handler, a function in
\* a thread, the heartbeat, the cleanup, the consume loop) has ended when stop()
\* disconnects, whichever of them was in the middle of a call when it began.
QuietWhenDisconnected ==
    main \in {"up", "exited"} /\ ~linked =>
        /\ Pending = {} /\ threads = {}
        /\ heartbeat = "off" /\ cleanup = "off"
        /\ consumer = "over"

\* The last heartbeat says that the worker has stopped: one that was on its way
\* when stop() began never overwrites it.
StoppedBeatStands == [][beat = "stopped" => beat' = "stopped"]_beat

Forced == \E e \in Envelopes : work[e] = "cancelled"

\* A program that awaits stop() has a task cancelled only when the timeout of
\* the drain has passed, whatever else stop() cancels.
ForcedOnlyLate == mode = "owner" /\ Forced => expired

\* stop() leaves no work behind on a closed connection, and cuts none short early.
StopsCleanly == QuietWhenDisconnected /\ ForcedOnlyLate

\* "Drain Active Tasks - Wait for in-flight tasks to complete - Respect shutdown
\* timeout" (docs/user-guide/workers.md), for a worker that run() drives, that a
\* signal stops, and whose broker has not failed: a task is cancelled only when
\* the timeout has passed.
DrainsOnSignal == mode = "run" /\ consumer = "over" /\ Forced => expired

\* Every call of stop() ends, even one that waits for a poll that never returns,
\* for handlers that never end, or for a heartbeat that is being sent.
StopEnds == \A c \in Stoppers : stopping[c] = "called" ~> stopping[c] \in Over

\* A signal that found the worker running makes run() exit.
SignalExits ==
    (mode = "run" /\ \E c \in Stoppers : stopping[c] = "heartbeat") ~> main = "exited"

\* Whoever asks the worker to stop sees it stop.
StopsWhenTold == StopEnds /\ SignalExits
================================================================================
