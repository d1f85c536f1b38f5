--------------------------------- MODULE Worker ---------------------------------
(***************************************************************************)
(* Workers (src/chicory/worker.py) consuming from the Redis broker.        *)
(*                                                                         *)
(* A worker's consume loop turns every envelope into an asyncio task that  *)
(* runs _process_envelope; here that task is a SLOT <<w, l>> with a        *)
(* program counter.  There is one step between two awaits, and a crash, a  *)
(* claim by another worker or any other slot's step may come between.      *)
(*                                                                         *)
(* Every await of the broker or the backend may raise: the call may have   *)
(* taken effect with its reply lost, or never have reached the server.     *)
(***************************************************************************)
EXTENDS RedisBroker

CONSTANTS
    Lanes,          \* bound: envelopes a worker holds at once (the code has none)
    Concurrency,    \* WorkerConfig.concurrency, the size of the semaphore
    QueueOf,        \* WorkerConfig.queue of every worker
    RouteOf,        \* the queue each task is published to at first
    ModeOf,         \* TaskOptions.delivery_mode of every task
    MaxRetries,     \* RetryPolicy.max_retries
    IgnoreResult,   \* the tasks with TaskOptions.ignore_result
    Unregistered,   \* the tasks whose name the workers do not know
    RaisesRetry,    \* the tasks that raise RetryError themselves, not by ctx.retry
    UseDlq,         \* WorkerConfig.use_dead_letter_queue
    ClaimLive,      \* an entry may be idle for claim_min_idle_ms while it is processed
    MaxMsgs,        \* bound on the copies published
    MaxFaults,      \* bound on the calls that raise
    MaxCrashes      \* bound on the workers that die

ASSUME WorkerAssumption ==
    /\ Concurrency \in Nat \ {0}
    /\ QueueOf \in [Workers -> Queues]
    /\ RouteOf \in [Tasks -> Queues]
    /\ ModeOf \in [Tasks -> {ALO, AMO}]
    /\ MaxRetries \in Nat
    /\ IgnoreResult \subseteq Tasks
    /\ Unregistered \subseteq Tasks
    /\ RaisesRetry \subseteq Tasks
    /\ UseDlq \in BOOLEAN /\ ClaimLive \in BOOLEAN
    /\ MaxMsgs \in Nat /\ MaxFaults \in Nat /\ MaxCrashes \in Nat

VARIABLES
    status,    \* status[w]: "new", "up" or "dead"; a restarted process is a new w
    pc,        \* pc[s]: where slot s is in _process_envelope, "free" if unused
    holds,     \* holds[s]: the copy in the envelope of slot s, 0 if unused
    state,     \* state[t]: the state key of the result backend
    result,    \* result[t]: the state inside the stored TaskResult
    finished,  \* history: the tasks whose success or failure was ever stored
    ran,       \* history: the copies whose task function was called
    reran,     \* history: the copies whose task function was called again
    faults,    \* number of calls that raised
    crashes    \* number of workers that died

slotVars == <<status, pc, holds>>
backendVars == <<state, result, finished>>
historyVars == <<ran, reran>>
boundVars == <<faults, crashes>>
vars == <<brokerVars, slotVars, backendVars, historyVars, boundVars>>

Slots == Workers \X Lanes

\* The awaits of _process_envelope and of the functions it calls.
InHandler ==
    {"starting", "early_ack", "running", "store_success", "ack", "retry_state",
     "republish", "retry_ack", "store_failure", "dead_letter", "finalize"}

TypeOK ==
    /\ BrokerTypeOK
    /\ status \in [Workers -> {"new", "up", "dead"}]
    /\ pc \in [Slots -> {"free", "waiting"} \cup InHandler]
    /\ holds \in [Slots -> Nat]
    /\ state \in [Tasks -> {"PENDING", "STARTED", "RETRY", "SUCCESS", "FAILURE"}]
    /\ result \in [Tasks -> {"NONE", "SUCCESS", "FAILURE"}]
    /\ finished \subseteq Tasks
    /\ ran \subseteq Nat /\ reran \subseteq ran
    /\ faults \in 0 .. MaxFaults
    /\ crashes \in 0 .. MaxCrashes

Init ==
    /\ BrokerInit
    /\ status = [w \in Workers |-> "new"]
    /\ pc = [s \in Slots |-> "free"]
    /\ holds = [s \in Slots |-> 0]
    /\ state = [t \in Tasks |-> "PENDING"]
    /\ result = [t \in Tasks |-> "NONE"]
    /\ finished = {}
    /\ ran = {} /\ reran = {}
    /\ faults = 0 /\ crashes = 0

TaskOf(c) == msgs[c].task
Dispatched(t) == \E c \in Copies : TaskOf(c) = t
Busy(w) == {s \in Slots : s[1] = w /\ pc[s] \in InHandler}

--------------------------------------------------------------------------------
(* How a call ends.                                                        *)

\* The slot goes on at p; at "free" the asyncio task is over.
Goto(s, p) ==
    /\ pc' = [pc EXCEPT ![s] = p]
    /\ holds' = [holds EXCEPT ![s] = IF p = "free" THEN 0 ELSE @]
    /\ UNCHANGED <<status, crashes>>

\* The call raises, and the exception takes the slot to one of P.
Raise(s, P) ==
    /\ faults < MaxFaults
    /\ faults' = faults + 1
    /\ \E p \in P : Goto(s, p)

\* The call took effect: it returns, or its reply is lost and it raises.
Return(s, p, P) ==
    \/ Goto(s, p) /\ UNCHANGED faults
    \/ Raise(s, P)

\* An exception outside the try block, or inside an except clause, ends the
\* asyncio task: nobody awaits it, and the entry stays in the PEL.
Escape == {"free"}

\* Mutant: a failed task is dropped before its failure is stored.
CaughtUnstored(c) ==
    {"dead_letter"} \cup
    (IF msgs[c].retries < MaxRetries THEN {"retry_state"} ELSE {})

\* The outcomes of an exception that reaches an except clause of
\* _process_envelope: retried if the policy allows (or ctx.retry() asked for it)
\* and the budget lasts, failed for good otherwise.
Caught(c) ==
    {"store_failure"} \cup
    (IF msgs[c].retries < MaxRetries THEN {"retry_state"} ELSE {})

SetState(t, st) ==
    /\ state' = [state EXCEPT ![t] = st]
    /\ UNCHANGED <<result, finished>>

StoreResult(t, st) ==
    /\ state' = [state EXCEPT ![t] = st]
    /\ result' = [result EXCEPT ![t] = st]
    /\ finished' = finished \cup {t}

--------------------------------------------------------------------------------
(* The client and the consume loop.                                        *)

\* Task.delay(), or broker.publish() with a queue: a task is dispatched once.
Dispatch(t) ==
    /\ ~Dispatched(t)
    /\ Len(msgs) < MaxMsgs
    /\ Publish([task |-> t, retries |-> 0], RouteOf[t], FALSE)
    /\ UNCHANGED <<slotVars, backendVars, historyVars, boundVars>>

\* start(): connect and enter consume(), which creates the group first.
Start(w) ==
    /\ status[w] = "new"
    /\ status' = [status EXCEPT ![w] = "up"]
    /\ EnsureConsumerGroup(QueueOf[w])
    /\ UNCHANGED <<pc, holds, backendVars, historyVars, boundVars>>

\* _consume_loop(): an envelope becomes an asyncio task; the loop goes on at once.
Accept(s, c) ==
    /\ pc' = [pc EXCEPT ![s] = "waiting"]
    /\ holds' = [holds EXCEPT ![s] = c]
    /\ UNCHANGED <<status, backendVars, historyVars, boundVars>>

Receive(s) ==
    /\ status[s[1]] = "up" /\ pc[s] = "free"
    /\ ReadGroup(QueueOf[s[1]], s[1])
    /\ Accept(s, NextUnread(QueueOf[s[1]]))

\* Some slot works on copy c.
Held(c) == \E s \in Slots : pc[s] # "free" /\ holds[s] = c

\* XAUTOCLAIM takes every entry that was idle for claim_min_idle_ms, whoever owns
\* it, this very worker included.  ClaimLive = FALSE is the timing assumption that
\* entries some slot still works on are younger than that.
MayClaim(c) == ClaimLive \/ ~Held(c)

Claim(s, c) ==
    /\ status[s[1]] = "up" /\ pc[s] = "free"
    /\ MayClaim(c)
    /\ AutoClaim(QueueOf[s[1]], s[1], c)
    /\ Accept(s, c)

ClaimTrimmed(w, c) ==
    /\ status[w] = "up"
    /\ MayClaim(c)
    /\ AutoClaimTrimmed(QueueOf[w], c)
    /\ UNCHANGED <<slotVars, backendVars, historyVars, boundVars>>

\* The delayed-mover of a worker promotes a member of its own queue's set.
Promote(w, c) ==
    /\ status[w] = "up"
    /\ MoveReadyDelayed(QueueOf[w], c)
    /\ UNCHANGED <<slotVars, backendVars, historyVars, boundVars>>

\* The process dies, or stop() cancels what outlives its timeout: every slot of w
\* vanishes between two awaits.
Crash(w) ==
    /\ status[w] = "up"
    /\ crashes < MaxCrashes
    /\ crashes' = crashes + 1
    /\ status' = [status EXCEPT ![w] = "dead"]
    /\ pc' = [s \in Slots |-> IF s[1] = w THEN "free" ELSE pc[s]]
    /\ holds' = [s \in Slots |-> IF s[1] = w THEN 0 ELSE holds[s]]
    /\ UNCHANGED <<brokerVars, backendVars, historyVars, faults>>

--------------------------------------------------------------------------------
(* _process_envelope().                                                    *)

\* The semaphore admits the slot, and the task is looked up by name.
Acquire(s) ==
    /\ pc[s] = "waiting"
    /\ Cardinality(Busy(s[1])) < Concurrency
    /\ Goto(s, IF TaskOf(holds[s]) \in Unregistered
               THEN "store_failure" ELSE "starting")
    /\ UNCHANGED <<brokerVars, backendVars, historyVars, faults>>

\* A backend call of slot s.
BackendCall(s, call, p, P) ==
    /\ \/ call /\ Return(s, p, P)
       \/ UNCHANGED backendVars /\ Raise(s, P)
    /\ UNCHANGED <<brokerVars, historyVars>>

\* A broker call of slot s.
BrokerCall(s, call, p, P) ==
    /\ \/ call /\ Return(s, p, P)
       \/ UNCHANGED brokerVars /\ Raise(s, P)
    /\ UNCHANGED <<backendVars, historyVars>>

\* Mutant: the task starts before an at-most-once envelope is acknowledged.
MarkStartedNoAck(s) ==
    LET t == TaskOf(holds[s]) IN
    /\ pc[s] = "starting"
    /\ BackendCall(s, SetState(t, "STARTED"), "running", Escape)

\* Mutant: every envelope is acknowledged before the task starts.
MarkStartedAckAll(s) ==
    LET t == TaskOf(holds[s]) IN
    /\ pc[s] = "starting"
    /\ BackendCall(s, SetState(t, "STARTED"), "early_ack", Escape)

MarkStarted(s) ==
    LET t == TaskOf(holds[s]) IN
    /\ pc[s] = "starting"
    /\ BackendCall(s, SetState(t, "STARTED"),
                   IF ModeOf[t] = AMO THEN "early_ack" ELSE "running", Escape)

\* Every ack and nack of the worker goes to the default queue, whichever queue the
\* envelope came from.
EarlyAck(s) ==
    /\ pc[s] = "early_ack"
    /\ BrokerCall(s, Ack(DefaultQueue, holds[s]), "running", Escape)

\* _execute_task(): the function returns, raises, or its inputs do not validate.
Run(s) ==
    LET c == holds[s] IN
    /\ pc[s] = "running"
    /\ ran' = ran \cup {c}
    /\ reran' = reran \cup (ran \cap {c})
    /\ \E p \in {"store_success"} \cup Caught(c)
                \cup {r \in {"retry_state"} : TaskOf(c) \in RaisesRetry} :
          Goto(s, p)
    /\ UNCHANGED <<brokerVars, backendVars, faults>>

\* Mutant: the envelope of a successful task is not acknowledged.
StoreSuccessNoAck(s) ==
    LET t == TaskOf(holds[s]) IN
    /\ pc[s] = "store_success"
    /\ BackendCall(s, StoreResult(t, "SUCCESS"), "free", Caught(holds[s]))

\* _store_success() and the ack are inside the try block: when they raise, the
\* task is handled as failed.
StoreSuccess(s) ==
    LET t == TaskOf(holds[s]) IN
    /\ pc[s] = "store_success"
    /\ BackendCall(s,
          IF t \in IgnoreResult
          THEN /\ state' = [state EXCEPT ![t] = "SUCCESS"]
               /\ finished' = finished \cup {t}
               /\ UNCHANGED result
          ELSE StoreResult(t, "SUCCESS"),
          IF ModeOf[t] = ALO THEN "ack" ELSE "free",
          Caught(holds[s]))

AckDone(s) ==
    /\ pc[s] = "ack"
    /\ BrokerCall(s, Ack(DefaultQueue, holds[s]), "free", Caught(holds[s]))

\* _handle_retry(): set the state, publish the next attempt, then ack this one.
RetryState(s) ==
    /\ pc[s] = "retry_state"
    /\ BackendCall(s, SetState(TaskOf(holds[s]), "RETRY"), "republish", Escape)

\* Mutant: the attempt that failed is not acknowledged.
RepublishNoAck(s) ==
    LET m == msgs[holds[s]] IN
    /\ pc[s] = "republish"
    /\ Len(msgs) < MaxMsgs
    /\ BrokerCall(s,
          \E later \in BOOLEAN :
             Publish([m EXCEPT !.retries = @ + 1], DefaultQueue, later),
          "free", Escape)

Republish(s) ==
    LET m == msgs[holds[s]] IN
    /\ pc[s] = "republish"
    /\ Len(msgs) < MaxMsgs
    /\ BrokerCall(s,
          \E later \in BOOLEAN :
             Publish([m EXCEPT !.retries = @ + 1], DefaultQueue, later),
          IF ModeOf[m.task] = ALO THEN "retry_ack" ELSE "free",
          Escape)

RetryAck(s) ==
    /\ pc[s] = "retry_ack"
    /\ BrokerCall(s, Ack(DefaultQueue, holds[s]), "free", Escape)

StoreFailure(s) ==
    /\ pc[s] = "store_failure"
    /\ BackendCall(s, StoreResult(TaskOf(holds[s]), "FAILURE"), "dead_letter",
                   Escape)

\* _move_to_dlq(): to the DLQ of the worker's own queue if it has one, and dropped
\* otherwise; dropped too when that raises.
DeadLetter(s) ==
    /\ pc[s] = "dead_letter"
    /\ BrokerCall(s,
          IF UseDlq THEN MoveToDlq(QueueOf[s[1]], holds[s])
                    ELSE NackDrop(DefaultQueue, holds[s]),
          "free", {"finalize"})

Finalize(s) ==
    /\ pc[s] = "finalize"
    /\ BrokerCall(s, NackDrop(DefaultQueue, holds[s]), "free", Escape)

Handle(s) ==
    \/ Acquire(s)
    \/ MarkStarted(s)
    \/ EarlyAck(s)
    \/ Run(s)
    \/ StoreSuccess(s)
    \/ AckDone(s)
    \/ RetryState(s)
    \/ Republish(s)
    \/ RetryAck(s)
    \/ StoreFailure(s)
    \/ DeadLetter(s)
    \/ Finalize(s)

Next ==
    \/ \E t \in Tasks : Dispatch(t)
    \/ \E w \in Workers : Start(w) \/ Crash(w)
    \/ \E w \in Workers, c \in Copies : Promote(w, c) \/ ClaimTrimmed(w, c)
    \/ \E s \in Slots, c \in Copies : Claim(s, c)
    \/ \E s \in Slots : Receive(s) \/ Handle(s)

Spec == Init /\ [][Next]_vars

\* The event loop runs every slot on and every call returns or raises; the consume
\* loop and the delayed mover of a live worker never rest.  A dead worker and the
\* task's caller owe nothing; faults and crashes are never owed.
Fairness ==
    /\ \A w \in Workers :
          /\ WF_vars(Start(w))
          /\ WF_vars(\E s \in Slots : s[1] = w /\ Receive(s))
          /\ WF_vars(\E s \in Slots, c \in Copies : s[1] = w /\ Claim(s, c))
          /\ WF_vars(\E c \in Copies : Promote(w, c))
    /\ \A s \in Slots : WF_vars(Handle(s))

FairSpec == Spec /\ Fairness

--------------------------------------------------------------------------------
(* Safety.                                                                 *)

\* An at-least-once task is never lost, but by trimming: once dispatched, its outcome
\* has been stored or the broker can still deliver a copy of it.  What could break it
\* is the order of _handle_retry() (publish, then ack), of _process_envelope() (store,
\* then ack) and of the failure paths, under any crash or lost reply.
NoLoss ==
    \A t \in Tasks : ModeOf[t] = ALO /\ Dispatched(t) =>
        \/ t \in finished
        \/ \E c \in Copies : TaskOf(c) = t /\ Kept(c)

\* The function of an at-most-once task is called at most once per attempt.
AtMostOnce == \A c \in reran : ModeOf[TaskOf(c)] = ALO

\* An at-most-once copy has left the PEL before its function is called, so that no
\* later claim can deliver it again.
AckedBeforeRun ==
    \A s \in Slots :
        pc[s] = "running" /\ ModeOf[TaskOf(holds[s])] = AMO
            => holds[s] \notin Pending(QueueOf[s[1]])

\* The function of an at-least-once task is called for pending copies only: never
\* again once an acknowledgement has gone through.
NeverRunAfterAck ==
    \A s \in Slots :
        pc[s] = "running" /\ ModeOf[TaskOf(holds[s])] = ALO
            => holds[s] \in Pending(QueueOf[s[1]])

\* The delivery mode decides when an envelope is acknowledged: at-most-once work
\* after its acknowledgement and never again, at-least-once work before it.
ModeIsKept == AtMostOnce /\ AckedBeforeRun /\ NeverRunAfterAck

\* No attempt is published beyond the retry budget, whatever raised the retry and
\* however often a copy was delivered again.
RetryBound ==
    \A c \in Copies : TaskOf(c) \notin RaisesRetry => msgs[c].retries <= MaxRetries

Calm == faults = 0 /\ crashes = 0

\* Without faults a task has one chain of attempts: of two live copies the younger is
\* a later attempt, and the older waits for its ack, its successor published.
OneRetryChain ==
    Calm => \A c, d \in Copies :
        c < d /\ TaskOf(c) = TaskOf(d) /\ Live(c) /\ Live(d) =>
            /\ msgs[c].retries < msgs[d].retries
            /\ \E s \in Slots : pc[s] = "retry_ack" /\ holds[s] = c

\* Attempts stay within the budget, and do not branch.
ChainWithinBudget == RetryBound /\ OneRetryChain

\* Without faults, and when nobody claims what is being worked on, the function of a
\* task is called once per attempt: an acknowledged envelope never comes back.
RunOnceWhenCalm == Calm => reran = {}

\* The pipeline of move_to_dlq() never leaves a dead letter pending too: nothing
\* that an operator sees in the DLQ is claimed and run again behind their back.
DeadNotPending ==
    \A d \in DOMAIN dead : dead[d].copy \notin Pending(dead[d].queue)

\* A copy is dead-lettered once, also when the reply to the pipeline is lost.
DeadOnce ==
    \A d, e \in DOMAIN dead : dead[d].copy = dead[e].copy => d = e

\* The DLQ holds what has failed for good: once each, and never what is still pending.
DeadForGood == DeadNotPending /\ DeadOnce

\* Without faults a stored success or failure is the last state of a task: neither
\* a retry nor another delivery overwrites it.
FinalState ==
    [][ \A t \in Tasks : state[t] \in {"SUCCESS", "FAILURE"} /\ Calm'
            => state'[t] = state[t] ]_vars

--------------------------------------------------------------------------------
(* The promise to the caller.                                              *)

Promised == {t \in Tasks : ModeOf[t] = ALO}

ALOSpec == INSTANCE AtLeastOnce WITH
    Task <- Promised,
    Unknown <- Unregistered,
    open <- {t \in Promised \ finished :
                \E c \in Copies : TaskOf(c) = t /\ Live(c)},
    begun <- {TaskOf(c) : c \in ran} \cap Promised,
    concluded <- finished \cap Promised

\* Every dispatched at-least-once task is concluded, and never before it was begun.
KeepsPromise == ALOSpec!Spec

\* ... and it is concluded some day, after any bounded number of crashes and faults,
\* as long as one worker survives.
KeepsPromiseInTime == ALOSpec!EventuallyConcluded

\* Every queue runs dry: nothing stays delayed, unread or pending for ever, so that
\* a finished task is not delivered again and again.
EventuallyDrained ==
    \A t \in Tasks : <>[](\A c \in Copies : TaskOf(c) = t => ~Live(c))

\* What was dispatched is concluded, and leaves nothing behind in the broker.
EverythingEnds == KeepsPromiseInTime /\ EventuallyDrained
================================================================================
