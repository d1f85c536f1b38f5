---------------------------- MODULE LifecycleProofs ----------------------------
(***************************************************************************)
(* The safety of stop(): what has ended when it disconnects, when tasks    *)
(* are cancelled, and that the last heartbeat stands, for any number of    *)
(* envelopes, threads and concurrent calls of stop().                      *)
(***************************************************************************)
EXTENDS WorkerLifecycle, TLAPS

\* The awaits of stop() from the one named on.
FromCleanup == {"cleanup", "consumer", "drain", "last_beat", "executor", "disconnect"}
FromConsumer == FromCleanup \ {"cleanup"}
FromDrain == FromConsumer \ {"consumer"}
FromLastBeat == FromDrain \ {"drain"}

\* What a call of stop() has seen to when it is at each of its awaits.
StageInv(c) ==
    /\ stopping[c] \in Awaits => ~running
    /\ stopping[c] \in FromCleanup => heartbeat = "off"
    /\ stopping[c] \in FromConsumer => cleanup = "off"
    /\ stopping[c] \in FromDrain => consumer = "over"
    /\ stopping[c] \in FromLastBeat => Pending = {}
    /\ stopping[c] = "disconnect" => threads = {}

\* Nobody stops a worker that is not up.
StopsLater ==
    main \notin {"up", "exited"} =>
        /\ \A c \in Stoppers : stopping[c] = "idle"
        /\ beat = "none" /\ heartbeat = "none"

\* The last heartbeat is the last.
BeatInv == beat = "stopped" => heartbeat = "off" /\ ~running

LInv ==
    /\ TypeOK
    /\ \A c \in Stoppers : StageInv(c)
    /\ StopsLater
    /\ BeatInv
    /\ StopsCleanly

USE DEF FromCleanup, FromConsumer, FromDrain, FromLastBeat

LEMMA InitLInv == Init => LInv
<1> SUFFICES ASSUME Init PROVE LInv
  OBVIOUS
<1>1. TypeOK
  BY DEF Init, TypeOK, Loop
<1>2. \A c \in Stoppers : StageInv(c)
  BY DEF Init, StageInv, Awaits
<1>3. StopsCleanly
  BY DEF Init, StopsCleanly, QuietWhenDisconnected, ForcedOnlyLate, Forced
<1> QED
  BY <1>1, <1>2, <1>3 DEF Init, LInv, StopsLater, BeatInv

--------------------------------------------------------------------------------
(* Steps that are no steps of stop().                                      *)

\* start() comes before everything.
LEMMA StartKeeps == ASSUME LInv, Start \/ Connected \/ ConnectFails PROVE LInv'
<1> USE DEF LInv, Start, Connected, ConnectFails, loopVars, workVars, stopVars
<1>1. TypeOK'
  <2> USE DEF TypeOK, Loop
  <2>1. CASE Start
    BY <2>1
  <2>2. CASE Connected
    BY <2>2
  <2>3. CASE ConnectFails
    BY <2>3
  <2> QED
    BY <2>1, <2>2, <2>3
<1>2. \A c \in Stoppers : stopping[c] = "idle" /\ stopping'[c] = "idle"
  BY DEF StopsLater
<1>3. \A c \in Stoppers : StageInv(c)'
  BY <1>2 DEF StageInv, Awaits
<1>4. StopsLater' /\ BeatInv'
  BY <1>2 DEF StopsLater, BeatInv
<1>5. StopsCleanly'
  BY DEF StopsCleanly, QuietWhenDisconnected, ForcedOnlyLate, Forced
<1> QED
  BY <1>1, <1>3, <1>4, <1>5

\* What ends stays ended, and nothing is begun once the consume loop is over.
Settles ==
    /\ UNCHANGED <<mode, linked, stopVars>>
    /\ main' = main
    /\ running' => running
    /\ heartbeat = "off" => heartbeat' = "off"
    /\ cleanup = "off" => cleanup' = "off"
    /\ consumer = "over" => consumer' = "over" /\ (Pending = {} => Pending' = {})
    /\ Pending = {} /\ threads = {} /\ consumer = "over" => threads' = {}
    /\ \A e \in Envelopes : work'[e] = "cancelled" => work[e] = "cancelled"

LEMMA SettlesKeeps ==
    ASSUME LInv, TypeOK', Settles,
           beat' = beat \/ beat' = "running",
           main \notin {"up", "exited"} => UNCHANGED <<beat, heartbeat>>
    PROVE  LInv'
<1> USE DEF LInv, Settles, stopVars
<1>1. ASSUME NEW c \in Stoppers PROVE StageInv(c)'
  <2>1. StageInv(c) /\ stopping'[c] = stopping[c]
    BY <1>1
  <2>2. stopping[c] \in FromLastBeat => Pending' = {}
    BY <2>1 DEF StageInv
  <2>3. stopping[c] = "disconnect" => threads' = {}
    BY <2>1 DEF StageInv
  <2> QED
    BY <2>1, <2>2, <2>3 DEF StageInv
<1>2. StopsLater' /\ BeatInv'
  BY DEF StopsLater, BeatInv
<1>3. QuietWhenDisconnected'
  BY DEF StopsCleanly, QuietWhenDisconnected
<1>4. ForcedOnlyLate'
  BY DEF StopsCleanly, ForcedOnlyLate, Forced
<1> QED
  BY <1>1, <1>2, <1>3, <1>4 DEF StopsCleanly

\* The background tasks, the handlers and the threads.
LEMMA BackgroundKeeps == ASSUME LInv, Background PROVE LInv'
<1> USE DEF loopVars, workVars, stopVars
<1>1. TypeOK /\ StopsLater
  BY DEF LInv
<1>2. CASE EnterConsume \/ PollEnds \/ ConsumeFails
  <2>1. TypeOK'
    BY <1>1, <1>2 DEF TypeOK, EnterConsume, PollEnds, ConsumeFails, Loop
  <2>2. Settles /\ UNCHANGED <<beat, heartbeat>>
    BY <1>1, <1>2 DEF Settles, EnterConsume, PollEnds, ConsumeFails, Pending, TypeOK
  <2> QED
    BY <2>1, <2>2, SettlesKeeps
<1>3. CASE Beat \/ BeatStored \/ Clean \/ Cleaned
  <2>1. TypeOK'
    <3> USE <1>1 DEF TypeOK, Loop
    <3>1. CASE Beat
      BY <3>1 DEF Beat
    <3>2. CASE BeatStored
      BY <3>2 DEF BeatStored
    <3>3. CASE Clean
      BY <3>3 DEF Clean
    <3>4. CASE Cleaned
      BY <3>4 DEF Cleaned
    <3> QED
      BY <1>3, <3>1, <3>2, <3>3, <3>4
  <2>2. Settles
    BY <1>3 DEF Settles, Beat, BeatStored, Clean, Cleaned, Pending
  <2>3. /\ beat' = beat \/ beat' = "running"
        /\ main \notin {"up", "exited"} => UNCHANGED <<beat, heartbeat>>
    BY <1>1, <1>3 DEF StopsLater, Beat, BeatStored, Clean, Cleaned
  <2> QED
    BY <2>1, <2>2, <2>3, SettlesKeeps
<1>4. ASSUME NEW e \in Envelopes, Deliver(e) \/ Submit(e) \/ Finish(e) \/ ThreadEnds(e)
      PROVE  LInv'
  <2>1. TypeOK'
    <3> USE <1>1, LifecycleAssumption DEF TypeOK
    <3>1. CASE Deliver(e)
      BY <3>1 DEF Deliver
    <3>2. CASE Submit(e)
      BY <3>2 DEF Submit
    <3>3. CASE Finish(e)
      BY <3>3 DEF Finish
    <3>4. CASE ThreadEnds(e)
      BY <3>4 DEF ThreadEnds
    <3> QED
      BY <1>4, <3>1, <3>2, <3>3, <3>4
  <2>2. Settles
    <3> USE <1>1 DEF TypeOK, Settles, Pending
    <3>1. CASE Deliver(e)
      BY <3>1 DEF Deliver
    <3>2. CASE Submit(e)
      BY <3>2 DEF Submit
    <3>3. CASE Finish(e)
      BY <3>3 DEF Finish
    <3>4. CASE ThreadEnds(e)
      BY <3>4 DEF ThreadEnds
    <3> QED
      BY <1>4, <3>1, <3>2, <3>3, <3>4
  <2>3. UNCHANGED <<beat, heartbeat>>
    BY <1>4 DEF Deliver, Submit, Finish, ThreadEnds
  <2> QED
    BY <2>1, <2>2, <2>3, SettlesKeeps
<1> QED
  BY <1>2, <1>3, <1>4 DEF Background

\* run() comes to its end: it cancels, and changes nothing that stop() has seen to.
LEMMA RunExitsKeeps == ASSUME LInv, RunExits PROVE LInv'
<1> USE DEF LInv
<1>1. /\ mode = "run" /\ main = "up" /\ main' = "exited"
      /\ CancelWork
      /\ heartbeat' = CancelLoop(heartbeat) /\ cleanup' = CancelLoop(cleanup)
      /\ UNCHANGED <<mode, running, polling, linked, consumer, beat, threads, expired>>
  BY DEF RunExits
<1>2. /\ stopping' \in [Stoppers -> {"idle", "called"} \cup Awaits \cup Over]
      /\ \A c \in Stoppers : stopping'[c] = stopping[c] \/ stopping'[c] = "cancelled"
  BY DEF RunExits, TypeOK, Over
<1>3. /\ work' \in [Envelopes -> {"waiting", "active", "threaded", "done", "cancelled", "left"}]
      /\ Pending' = {}
  BY <1>1 DEF CancelWork, Pending, TypeOK
<1>4. heartbeat' \in Loop /\ cleanup' \in Loop
  BY <1>1 DEF CancelLoop, Loop
<1>5. TypeOK'
  BY <1>1, <1>2, <1>3, <1>4 DEF TypeOK
<1>6. /\ heartbeat = "off" => heartbeat' = "off"
      /\ cleanup = "off" => cleanup' = "off"
  BY <1>1 DEF CancelLoop
<1>7. \A c \in Stoppers : StageInv(c)'
  BY <1>1, <1>2, <1>3, <1>6 DEF StageInv, Awaits
<1>8. StopsLater' /\ BeatInv'
  BY <1>1, <1>6 DEF StopsLater, BeatInv
<1>9. StopsCleanly'
  BY <1>1, <1>3, <1>6 DEF StopsCleanly, QuietWhenDisconnected, ForcedOnlyLate
<1> QED
  BY <1>5, <1>7, <1>8, <1>9

--------------------------------------------------------------------------------
(* stop(), await by await.                                                 *)

\* A step of stop() that takes call c to p: what it must have seen to by then.
LEMMA StageKeeps ==
    ASSUME LInv, NEW c \in Stoppers, NEW p \in {"called"} \cup Awaits \cup Over, At(c, p),
           UNCHANGED <<mode, main, threads>>, polling' \in BOOLEAN, main = "up" \/ main = "exited",
           running' = running \/ running' = FALSE,
           consumer' \in {consumer, "over"},
           heartbeat' \in Loop, heartbeat = "off" => heartbeat' = "off",
           cleanup' \in Loop, cleanup = "off" => cleanup' = "off",
           beat' = beat \/ (beat' \in {"running", "stopped"} /\ heartbeat' = "off" /\ ~running'),
           linked' \in BOOLEAN, expired' \in BOOLEAN, expired => expired',
           UNCHANGED work \/ (CancelWork /\ expired'),
           p \in Awaits => ~running',
           p \in FromCleanup => heartbeat' = "off",
           p \in FromConsumer => cleanup' = "off",
           p \in FromDrain => consumer' = "over",
           p \in FromLastBeat => Pending' = {},
           p = "disconnect" => threads = {},
           linked' = linked \/ stopping[c] = "disconnect"
    PROVE  LInv'
<1> USE DEF LInv
<1>1. /\ stopping' = [stopping EXCEPT ![c] = p]
      /\ stopping' \in [Stoppers -> {"idle", "called"} \cup Awaits \cup Over]
      /\ stopping'[c] = p
      /\ \A d \in Stoppers : d # c => stopping'[d] = stopping[d]
  BY DEF At, TypeOK
<1>2. /\ work' \in [Envelopes -> {"waiting", "active", "threaded", "done", "cancelled", "left"}]
      /\ Pending = {} => Pending' = {}
  BY DEF CancelWork, Pending, TypeOK
<1>3. TypeOK'
  BY <1>1, <1>2 DEF TypeOK
<1>4. ASSUME NEW d \in Stoppers PROVE StageInv(d)'
  <2>1. CASE d = c
    BY <1>1, <2>1 DEF StageInv
  <2>2. CASE d # c
    <3>1. StageInv(d) /\ stopping'[d] = stopping[d]
      BY <1>1, <2>2
    <3> QED
      BY <1>2, <3>1 DEF StageInv
  <2> QED
    BY <2>1, <2>2
<1>5. StopsLater' /\ BeatInv'
  BY DEF StopsLater, BeatInv
<1>6. QuietWhenDisconnected'
  <2>1. CASE linked' = linked
    BY <1>2, <2>1 DEF StopsCleanly, QuietWhenDisconnected
  <2>2. CASE stopping[c] = "disconnect"
    BY <1>2, <2>2 DEF StageInv, QuietWhenDisconnected
  <2> QED
    BY <2>1, <2>2
<1>7. ForcedOnlyLate'
  BY DEF StopsCleanly, ForcedOnlyLate, Forced
<1> QED
  BY <1>3, <1>4, <1>5, <1>6, <1>7 DEF StopsCleanly

\* Each await of stop(), and the call itself.
LEMMA StopKeeps ==
    ASSUME LInv, NEW c \in Stoppers, CallStop(c) \/ StopStep(c)
    PROVE  LInv'
<1> USE DEF loopVars, workVars, stopVars
<1>1. /\ TypeOK /\ StopsLater /\ StageInv(c)
      /\ heartbeat \in Loop /\ cleanup \in Loop
      /\ linked \in BOOLEAN /\ expired \in BOOLEAN /\ polling \in BOOLEAN
      /\ \A l \in Loop : CancelLoop(l) \in Loop
      /\ CancelLoop("off") = "off"
  BY DEF LInv, TypeOK, CancelLoop, Loop
<1>2. stopping[c] # "idle" => main = "up" \/ main = "exited"
  BY <1>1 DEF StopsLater
<1>3. CASE CallStop(c)
  BY <1>1, <1>3, StageKeeps DEF CallStop, Awaits, Over
<1>4. CASE BeginStop(c)
  <2>1. /\ main = "up" \/ main = "exited"
        /\ CancelLoop(heartbeat) \in Loop
        /\ heartbeat = "off" => CancelLoop(heartbeat) = "off"
    BY <1>1, <1>2, <1>4 DEF BeginStop
  <2>2. CASE running
    BY <1>1, <1>4, <2>1, <2>2, StageKeeps DEF BeginStop, Awaits, Over
  <2>3. CASE ~running
    BY <1>1, <1>4, <2>1, <2>3, StageKeeps DEF BeginStop, Awaits, Over
  <2> QED
    BY <2>2, <2>3
<1>5. CASE HeartbeatOver(c)
  BY <1>1, <1>2, <1>5, StageKeeps DEF HeartbeatOver, StageInv, Awaits, Over
<1>6. CASE CleanupOver(c)
  BY <1>1, <1>2, <1>6, StageKeeps DEF CleanupOver, StageInv, Awaits, Over
<1>7. CASE ConsumerOver(c)
  BY <1>1, <1>2, <1>7, StageKeeps DEF ConsumerOver, StageInv, Awaits, Over
<1>8. CASE Drained(c)
  <2>1. Pending' = {}
    BY <1>8 DEF Drained, Pending
  <2> QED
    BY <1>1, <1>2, <1>8, <2>1, StageKeeps DEF Drained, StageInv, Awaits, Over
<1>9. CASE DrainExpires(c)
  <2>1. Pending' = {}
    BY <1>1, <1>9 DEF DrainExpires, CancelWork, Pending, TypeOK
  <2> QED
    BY <1>1, <1>2, <1>9, <2>1, StageKeeps DEF DrainExpires, StageInv, Awaits, Over
<1>10. CASE LastBeat(c)
  <2>1. Pending' = Pending
    BY <1>10 DEF LastBeat, Pending
  <2> QED
    BY <1>1, <1>2, <1>10, <2>1, StageKeeps DEF LastBeat, StageInv, Awaits, Over
<1>11. CASE ExecutorShut(c)
  <2>1. Pending' = Pending
    BY <1>11 DEF ExecutorShut, Pending
  <2> QED
    BY <1>1, <1>2, <1>11, <2>1, StageKeeps DEF ExecutorShut, StageInv, Awaits, Over
<1>12. CASE Disconnect(c)
  <2>1. PICK p \in {"returned", "raised"} : At(c, p) /\ linked' \in BOOLEAN
    BY <1>12 DEF Disconnect
  <2> QED
    BY <1>1, <1>2, <1>12, <2>1, StageKeeps DEF Disconnect, Awaits, Over
<1> QED
  BY <1>3, <1>4, <1>5, <1>6, <1>7, <1>8, <1>9, <1>10, <1>11, <1>12 DEF StopStep

--------------------------------------------------------------------------------
(* The theorems.                                                           *)

\* The invariant is inductive: every step, or none, keeps it.
LEMMA NextLInv == LInv /\ [Next]_vars => LInv'
<1> SUFFICES ASSUME LInv, [Next]_vars PROVE LInv'
  OBVIOUS
<1>1. CASE UNCHANGED vars
  BY <1>1 DEF LInv, vars, loopVars, workVars, stopVars, TypeOK, StageInv, StopsLater,
     BeatInv, StopsCleanly, QuietWhenDisconnected, ForcedOnlyLate, Forced, Pending
<1>2. CASE Next
  BY <1>2, StartKeeps, BackgroundKeeps, StopKeeps, RunExitsKeeps DEF Next
<1> QED
  BY <1>1, <1>2

\* The invariant holds in every reachable state of a worker's life.
THEOREM LifecycleInductive == Spec => []LInv
BY InitLInv, NextLInv, PTL DEF Spec

\* start(), stop(), run() and the tasks they create keep to the states they know of,
\* and the executor's threads run synchronous functions only.
THEOREM LifecycleTypes == Spec => []TypeOK
<1>1. LInv => TypeOK
  BY DEF LInv
<1> QED
  BY <1>1, LifecycleInductive, PTL

\* When stop() disconnects, whatever used the connections has ended, and a task
\* was cancelled only after the timeout of the drain.
THEOREM CleanStop == Spec => []StopsCleanly
<1>1. LInv => StopsCleanly
  BY DEF LInv
<1> QED
  BY <1>1, LifecycleInductive, PTL

\* No heartbeat of a running worker comes after the last one.
THEOREM LastBeatStands == Spec => StoppedBeatStands
<1>1. LInv /\ [Next]_vars => [beat = "stopped" => beat' = "stopped"]_beat
  <2> SUFFICES ASSUME LInv, Next, beat = "stopped" PROVE beat' = "stopped"
    BY DEF vars, loopVars
  <2>1. heartbeat = "off" /\ ~running
    BY DEF LInv, BeatInv
  <2> USE <2>1 DEF loopVars
  <2>2. CASE Start \/ Connected \/ ConnectFails \/ RunExits
    BY <2>2 DEF Start, Connected, ConnectFails, RunExits
  <2>3. CASE Background
    BY <2>3 DEF Background, EnterConsume, PollEnds, ConsumeFails, Beat, BeatStored, Clean,
       Cleaned, Deliver, Submit, Finish, ThreadEnds
  <2>4. ASSUME NEW c \in Stoppers, CallStop(c) \/ StopStep(c) PROVE beat' = "stopped"
    BY <2>4 DEF CallStop, StopStep, BeginStop, HeartbeatOver, CleanupOver, ConsumerOver,
       Drained, DrainExpires, LastBeat, ExecutorShut, Disconnect
  <2> QED
    BY <2>2, <2>3, <2>4 DEF Next
<1> QED
  BY <1>1, LifecycleInductive, PTL DEF Spec, StoppedBeatStands
================================================================================
