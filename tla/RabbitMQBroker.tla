----------------------------- MODULE RabbitMQBroker -----------------------------
(***************************************************************************)
(* One queue of the RabbitMQ broker (src/chicory/broker/rabbitmq.py): the  *)
(* main queue with its dead-letter exchange, the queue of delayed messages *)
(* and the DLQ, the workers that consume, and the DLQ operations.          *)
(*                                                                         *)
(* A message that a channel has fetched stays in its place, unacknowledged *)
(* and invisible, until it is settled on that channel; when the channel    *)
(* closes it is visible again.  A worker has one consumer channel; the     *)
(* operators share the pool of channels of one application.                *)
(*                                                                         *)
(* The handler is _process_envelope as far as it touches the broker; its   *)
(* calls of the result backend are in Worker.                              *)
(***************************************************************************)
EXTENDS Integers, Sequences, FiniteSets, SequencesExt

CONSTANTS
    Tasks, Workers, Operators, Channels,
    Lanes,          \* bound: the handlers a worker has at once
    Prefetch,       \* prefetch_count
    ScanLimit,      \* max_dlq_scan_limit
    DlqMaxLength,   \* dlq_max_length, 0 for None
    ModeOf,         \* TaskOptions.delivery_mode of every task
    MaxRetries,     \* RetryPolicy.max_retries
    UseDlq,         \* WorkerConfig.use_dead_letter_queue
    MaxMsgs,        \* bound on the messages published
    MaxEvents       \* bound on the faults, the DLQ operations and the purges

ALO == "at_least_once"
AMO == "at_most_once"

ASSUME RabbitAssumption ==
    /\ Prefetch \in Nat \ {0} /\ ScanLimit \in Nat \ {0}
    /\ DlqMaxLength \in Nat /\ MaxRetries \in Nat
    /\ ModeOf \in [Tasks -> {ALO, AMO}]
    /\ UseDlq \in BOOLEAN
    /\ MaxMsgs \in Nat /\ MaxEvents \in Nat
    /\ Workers \cap Channels = {}

VARIABLES
    msgs,           \* every message ever published; a copy is an index of it
    main, delayed, dlq,   \* the three queues: sequences of copies
    held,           \* held[h]: the copies unacknowledged on the channel h
    hand,           \* hand[s]: the handler in slot s = <<worker, lane>>
    oper,           \* oper[o]: the DLQ operation of operator o
    timedOut,       \* an operation has run into channel_acquire_timeout
    succeeded, failed, gone,  \* history: tasks run to success, dead-lettered, purged
    ran, reran,     \* history: copies whose function was called, called again
    closes, ops     \* number of calls that raised or channels that closed; of operations

queueVars == <<main, delayed, dlq>>
historyVars == <<succeeded, failed, gone, ran, reran>>
boundVars == <<closes, ops>>
vars == <<msgs, queueVars, held, hand, oper, timedOut, historyVars, boundVars>>

Copies == DOMAIN msgs
TaskOf(c) == msgs[c].task
Slots == Workers \X Lanes
Holders == Workers \cup Channels
In(q) == ToSet(q)

\* A handler; its delivery tag is live, settled (acked or rejected), or lost with
\* the channel.
NoHandler == [at |-> "free", copy |-> 0, tag |-> "settled"]
HandlerAt == {"free", "early_ack", "running", "store", "ack", "republish", "retry_ack",
              "dead_letter", "manual"}

NoOp == [at |-> "idle", kind |-> "none", task |-> "none", chan |-> "none",
         got |-> {}, target |-> 0, n |-> 0]
OpAt == {"scan", "requeue", "publish", "settle"}
HasChannel(o) == oper[o].at \in OpAt
Fetched(o) == oper[o].got \cup ({oper[o].target} \ {0})

TypeOK ==
    /\ msgs \in Seq([task : Tasks, retries : Nat])
    /\ In(main) \cup In(delayed) \cup In(dlq) \subseteq Copies
    /\ held \in [Holders -> SUBSET Copies]
    /\ \A w \in Workers : held[w] \subseteq In(main) /\ Cardinality(held[w]) <= Prefetch
    /\ \A k \in Channels : held[k] \subseteq In(dlq)
    /\ \A g, h \in Holders : g # h => held[g] \cap held[h] = {}
    /\ \A s \in Slots : hand[s].at \in HandlerAt
                     /\ (hand[s].tag = "live" => hand[s].copy \in held[s[1]])
    /\ \A o \in Operators :
          \/ oper[o].at \in {"idle", "acquire"}
          \/ HasChannel(o) /\ Fetched(o) \subseteq held[oper[o].chan]
    /\ \A o, q \in Operators :
          HasChannel(o) /\ HasChannel(q) /\ o # q => oper[o].chan # oper[q].chan
    /\ timedOut \in BOOLEAN
    /\ succeeded \cup failed \cup gone \subseteq Tasks
    /\ reran \subseteq ran /\ ran \subseteq Copies
    /\ closes \in Nat /\ ops \in Nat /\ closes + ops <= MaxEvents

Init ==
    /\ msgs = <<>> /\ main = <<>> /\ delayed = <<>> /\ dlq = <<>>
    /\ held = [h \in Holders |-> {}]
    /\ hand = [s \in Slots |-> NoHandler]
    /\ oper = [o \in Operators |-> NoOp]
    /\ timedOut = FALSE
    /\ succeeded = {} /\ failed = {} /\ gone = {} /\ ran = {} /\ reran = {}
    /\ closes = 0 /\ ops = 0

--------------------------------------------------------------------------------
(* The queues.                                                             *)

\* The copies of a queue that are not in S, in the order of the queue.
Without(q, S) ==
    LET kept == {i \in DOMAIN q : q[i] \notin S}
        rank(i) == Cardinality({j \in kept : j <= i})
    IN  IF kept = DOMAIN q THEN q
        ELSE [n \in 1..Cardinality(kept) |-> q[CHOOSE i \in kept : rank(i) = n]]

\* The copies that no channel has fetched.
Ready(q) == Without(q, UNION {held[h] : h \in Holders})

\* A message enters the DLQ, of which the oldest visible one goes when it is full.
AddToDlq(c) ==
    LET dropped == IF DlqMaxLength # 0 /\ Len(Ready(dlq)) >= DlqMaxLength
                   THEN {Head(Ready(dlq))} ELSE {}
    IN  /\ dlq' = Append(Without(dlq, dropped), c)
        /\ gone' = gone \cup {TaskOf(d) : d \in dropped}

\* publish(): a new message, to the queue of delayed ones if its ETA is to come.
Publish(m, later) ==
    /\ Len(msgs) < MaxMsgs
    /\ msgs' = Append(msgs, m)
    /\ IF later
       THEN delayed' = Append(delayed, Len(msgs) + 1) /\ UNCHANGED main
       ELSE main' = Append(main, Len(msgs) + 1) /\ UNCHANGED delayed
    /\ UNCHANGED dlq

\* Task.delay(): a task is dispatched once, without an ETA.
Dispatch(t) ==
    /\ \A c \in Copies : TaskOf(c) # t
    /\ Publish([task |-> t, retries |-> 0], FALSE)
    /\ UNCHANGED <<held, hand, oper, timedOut, historyVars, boundVars>>

\* The TTL of a message is looked at when it is at the head of the queue.
Expire ==
    /\ delayed # <<>>
    /\ delayed' = Tail(delayed) /\ main' = Append(main, Head(delayed))
    /\ UNCHANGED <<msgs, dlq, held, hand, oper, timedOut, historyVars, boundVars>>

PurgeQueue ==
    /\ closes + ops < MaxEvents /\ ops' = ops + 1
    /\ gone' = gone \cup {TaskOf(c) : c \in In(Ready(main))}
    /\ main' = Without(main, In(Ready(main)))
    /\ UNCHANGED <<msgs, delayed, dlq, held, hand, oper, timedOut, succeeded, failed,
                   ran, reran, closes>>

PurgeDlq ==
    /\ closes + ops < MaxEvents /\ ops' = ops + 1
    /\ gone' = gone \cup {TaskOf(c) : c \in In(Ready(dlq))}
    /\ dlq' = Without(dlq, In(Ready(dlq)))
    /\ UNCHANGED <<msgs, main, delayed, held, hand, oper, timedOut, succeeded, failed,
                   ran, reran, closes>>

--------------------------------------------------------------------------------
(* The handlers.                                                           *)

Goto(s, p) == hand' = [hand EXCEPT ![s] = IF p = "free" THEN NoHandler ELSE [@ EXCEPT !.at = p]]

FreeSlots(w) == {s \in Slots : s[1] = w /\ hand[s].at = "free"}

\* Mutant: the channel has no QoS.
DeliverUnbounded(w) ==
    LET c == Head(Ready(main)) IN
    /\ FreeSlots(w) # {} /\ Ready(main) # <<>>
    /\ held' = [held EXCEPT ![w] = @ \cup {c}]
    /\ hand' = [hand EXCEPT ![CHOOSE s \in FreeSlots(w) : TRUE] =
          [at |-> IF ModeOf[TaskOf(c)] = AMO THEN "early_ack" ELSE "running",
           copy |-> c, tag |-> "live"]]
    /\ UNCHANGED <<msgs, queueVars, oper, timedOut, historyVars, boundVars>>

\* Mutant: every message is acknowledged before it is run.
DeliverAckFirst(w) ==
    LET c == Head(Ready(main)) IN
    /\ FreeSlots(w) # {}
    /\ Ready(main) # <<>> /\ Cardinality(held[w]) < Prefetch
    /\ held' = [held EXCEPT ![w] = @ \cup {c}]
    /\ hand' = [hand EXCEPT ![CHOOSE s \in FreeSlots(w) : TRUE] =
          [at |-> "early_ack", copy |-> c, tag |-> "live"]]
    /\ UNCHANGED <<msgs, queueVars, oper, timedOut, historyVars, boundVars>>

\* consume(): the server pushes up to prefetch_count unacknowledged messages.  The
\* lanes of a worker are alike, so any free one will do.
Deliver(w) ==
    LET c == Head(Ready(main)) IN
    /\ FreeSlots(w) # {}
    /\ Ready(main) # <<>> /\ Cardinality(held[w]) < Prefetch
    /\ held' = [held EXCEPT ![w] = @ \cup {c}]
    /\ hand' = [hand EXCEPT ![CHOOSE s \in FreeSlots(w) : TRUE] =
          [at |-> IF ModeOf[TaskOf(c)] = AMO THEN "early_ack" ELSE "running",
           copy |-> c, tag |-> "live"]]
    /\ UNCHANGED <<msgs, queueVars, oper, timedOut, historyVars, boundVars>>

\* The message is acknowledged and leaves the main queue; the handler goes on at p.
Acknowledge(s, p) ==
    /\ held' = [held EXCEPT ![s[1]] = @ \ {hand[s].copy}]
    /\ main' = Without(main, {hand[s].copy})
    /\ hand' = [hand EXCEPT ![s] = IF p = "free" THEN NoHandler
                                   ELSE [@ EXCEPT !.at = p, !.tag = "settled"]]

\* What a failed task does next: the policy may retry it, while the budget lasts.
Caught(c) == {"dead_letter"} \cup (IF msgs[c].retries < MaxRetries THEN {"republish"} ELSE {})

\* A call raises.
CallFails == closes + ops < MaxEvents /\ closes' = closes + 1

\* ack(): on the channel of the delivery; raises when that has closed.
EarlyAck(s) ==
    /\ hand[s].at = "early_ack"
    /\ IF hand[s].tag = "live" THEN Acknowledge(s, "running")
       ELSE Goto(s, "free") /\ UNCHANGED <<held, main>>
    /\ UNCHANGED <<msgs, delayed, dlq, oper, timedOut, historyVars, boundVars>>

Run(s) ==
    LET c == hand[s].copy IN
    /\ hand[s].at = "running"
    /\ ran' = ran \cup {c} /\ reran' = reran \cup (ran \cap {c})
    /\ \E p \in {"store"} \cup Caught(c) : Goto(s, p)
    /\ UNCHANGED <<msgs, queueVars, held, oper, timedOut, succeeded, failed, gone, boundVars>>

\* _store_success(); a backend that raises here makes the task a failed one.
StoreSuccess(s) ==
    LET t == TaskOf(hand[s].copy) IN
    /\ hand[s].at = "store"
    /\ \/ /\ succeeded' = succeeded \cup {t}
          /\ Goto(s, IF ModeOf[t] = ALO THEN "ack" ELSE "free")
          /\ UNCHANGED closes
       \/ /\ succeeded' \in {succeeded, succeeded \cup {t}}
          /\ \E p \in Caught(hand[s].copy) : Goto(s, p)
          /\ CallFails
    /\ UNCHANGED <<msgs, queueVars, held, oper, timedOut, failed, gone, ran, reran, ops>>

AckDone(s) ==
    /\ hand[s].at = "ack"
    /\ IF hand[s].tag = "live" THEN Acknowledge(s, "free")
       ELSE (\E p \in Caught(hand[s].copy) : Goto(s, p)) /\ UNCHANGED <<held, main>>
    /\ UNCHANGED <<msgs, delayed, dlq, oper, timedOut, historyVars, boundVars>>

\* _handle_retry(): publish the next attempt, then acknowledge this one.
Republish(s) ==
    LET m == msgs[hand[s].copy] IN
    /\ hand[s].at = "republish"
    /\ \/ /\ \E later \in BOOLEAN : Publish([m EXCEPT !.retries = @ + 1], later)
          /\ \/ /\ Goto(s, IF ModeOf[m.task] = ALO THEN "retry_ack" ELSE "free")
                /\ UNCHANGED closes
             \/ Goto(s, "free") /\ CallFails
       \/ Goto(s, "free") /\ CallFails /\ UNCHANGED <<msgs, queueVars>>
    /\ UNCHANGED <<held, oper, timedOut, historyVars, ops>>

RetryAck(s) ==
    /\ hand[s].at = "retry_ack"
    /\ IF hand[s].tag = "live" THEN Acknowledge(s, "free")
       ELSE Goto(s, "free") /\ UNCHANGED <<held, main>>
    /\ UNCHANGED <<msgs, delayed, dlq, oper, timedOut, historyVars, boundVars>>

\* Mutant: no return after the message was rejected.
DeadLetterTwice(s) ==
    LET c == hand[s].copy IN
    /\ hand[s].at = "dead_letter"
    /\ IF hand[s].tag = "live"
       THEN /\ Acknowledge(s, "manual")
            /\ AddToDlq(c)
            /\ failed' = failed \cup {TaskOf(c)}
       ELSE Goto(s, "manual") /\ UNCHANGED <<main, dlq, held, failed, gone>>
    /\ UNCHANGED <<msgs, delayed, oper, timedOut, succeeded, ran, reran, boundVars>>

\* move_to_dlq() rejects, and nack(requeue=False) of a worker without a DLQ does the
\* same: the exchange of the main queue routes the message to the DLQ.  A message
\* acknowledged before, or lost with its channel, is moved by hand, or let go.
DeadLetter(s) ==
    LET c == hand[s].copy IN
    /\ hand[s].at = "dead_letter"
    /\ IF hand[s].tag = "live"
       THEN /\ Acknowledge(s, "free")
            /\ AddToDlq(c)
            /\ failed' = failed \cup {TaskOf(c)}
       ELSE /\ Goto(s, IF UseDlq THEN "manual" ELSE "free")
            /\ UNCHANGED <<main, dlq, held, failed, gone>>
    /\ UNCHANGED <<msgs, delayed, oper, timedOut, succeeded, ran, reran, boundVars>>

\* _manual_move_to_dlq(): publish a dead letter, then acknowledge the message.  When
\* the publish raises, so does the nack that follows it: the tag is lost or settled.
ManualMove(s) ==
    LET m == msgs[hand[s].copy] IN
    /\ hand[s].at = "manual" /\ Len(msgs) < MaxMsgs
    /\ \/ /\ msgs' = Append(msgs, m)
          /\ AddToDlq(Len(msgs) + 1)
          /\ failed' = failed \cup {m.task}
          /\ UNCHANGED closes
       \/ CallFails /\ UNCHANGED <<msgs, dlq, failed, gone>>
    /\ Goto(s, "free")
    /\ UNCHANGED <<main, delayed, held, oper, timedOut, succeeded, ran, reran, ops>>

\* The backend cannot store STARTED, RETRY or FAILURE: the handler ends, and its
\* message stays unacknowledged on a channel that is open.
BackendFails(s) ==
    /\ hand[s].at \in {"early_ack", "running", "republish", "dead_letter"}
    /\ hand[s].at = "running" => hand[s].tag = "live"
    /\ closes + ops < MaxEvents /\ closes' = closes + 1
    /\ Goto(s, "free")
    /\ UNCHANGED <<msgs, queueVars, held, oper, timedOut, historyVars, ops>>

\* The consumer channel closes (connection lost, error in consume(), crash of the
\* worker): its messages are visible again, at their old places.
ConsumerCloses(w) ==
    /\ closes + ops < MaxEvents /\ closes' = closes + 1
    /\ held' = [held EXCEPT ![w] = {}]
    /\ \E crash \in BOOLEAN :
          hand' = [s \in Slots |->
              IF s[1] # w THEN hand[s]
              ELSE IF crash THEN NoHandler
              ELSE IF hand[s].tag = "live" THEN [hand[s] EXCEPT !.tag = "lost"]
              ELSE hand[s]]
    /\ UNCHANGED <<msgs, queueVars, oper, timedOut, historyVars, ops>>

--------------------------------------------------------------------------------
(* The DLQ operations, each on a channel of the pool.  An operation fetches the  *)
(* visible dead letters one by one until it finds its task's, and then gives     *)
(* the others back.                                                              *)

Free == Channels \ {oper[o].chan : o \in {q \in Operators : HasChannel(q)}}

Step(o, rec) == oper' = [oper EXCEPT ![o] = rec]

\* replay_from_dlq, delete_from_dlq or get_dlq_messages is called.
Call(o) ==
    /\ oper[o] = NoOp /\ closes + ops < MaxEvents
    /\ ops' = ops + 1
    /\ \/ \E k \in {"replay", "delete"}, t \in Tasks :
             Step(o, [NoOp EXCEPT !.at = "acquire", !.kind = k, !.task = t])
       \/ Step(o, [NoOp EXCEPT !.at = "acquire", !.kind = "list"])
    /\ UNCHANGED <<msgs, queueVars, held, hand, timedOut, historyVars, closes>>

Acquire(o) ==
    /\ oper[o].at = "acquire" /\ Free # {}
    /\ Step(o, [oper[o] EXCEPT !.at = "scan", !.chan = CHOOSE k \in Free : TRUE])
    /\ UNCHANGED <<msgs, queueVars, held, hand, timedOut, historyVars, boundVars>>

\* basic.get of the next visible dead letter; one to delete is acknowledged at once.
Fetch(o) ==
    LET op == oper[o]
        c == Head(Ready(dlq))
        hit == op.kind # "list" /\ TaskOf(c) = op.task
        deleted == hit /\ op.kind = "delete"
    IN  /\ op.at = "scan" /\ Ready(dlq) # <<>> /\ op.n < ScanLimit
        /\ dlq' = IF deleted THEN Without(dlq, {c}) ELSE dlq
        /\ gone' = IF deleted THEN gone \cup {op.task} ELSE gone
        /\ held' = IF deleted THEN held ELSE [held EXCEPT ![op.chan] = @ \cup {c}]
        /\ Step(o, [op EXCEPT
              !.n = @ + 1,
              !.at = IF hit \/ op.kind = "list" THEN "requeue" ELSE "scan",
              !.got = IF hit THEN @ ELSE @ \cup {c},
              !.target = IF hit /\ ~deleted THEN c ELSE 0])
        /\ UNCHANGED <<msgs, main, delayed, hand, timedOut, succeeded, failed, ran, reran,
                       boundVars>>

NotFound(o) ==
    /\ oper[o].at = "scan" /\ (Ready(dlq) = <<>> \/ oper[o].n = ScanLimit)
    /\ Step(o, [oper[o] EXCEPT !.at = "requeue"])
    /\ UNCHANGED <<msgs, queueVars, held, hand, timedOut, historyVars, boundVars>>

\* Mutant: the dead letters looked at are given back only when one was found.
RequeueIfFound(o) ==
    LET op == oper[o] IN
    /\ op.at = "requeue"
    /\ held' = IF op.target = 0 THEN held ELSE [held EXCEPT ![op.chan] = @ \ op.got]
    /\ Step(o, IF op.target # 0 THEN [op EXCEPT !.at = "publish", !.got = {}] ELSE NoOp)
    /\ UNCHANGED <<msgs, queueVars, hand, timedOut, historyVars, boundVars>>

\* get_dlq_messages gives each one back before it fetches the next.
Requeue(o) ==
    LET op == oper[o] IN
    /\ op.at = "requeue"
    /\ held' = [held EXCEPT ![op.chan] = @ \ op.got]
    /\ Step(o, IF op.target # 0 THEN [op EXCEPT !.at = "publish", !.got = {}]
               ELSE IF op.kind = "list" /\ op.got # {}
                    THEN [op EXCEPT !.at = "scan", !.got = {}]
                    ELSE NoOp)
    /\ UNCHANGED <<msgs, queueVars, hand, timedOut, historyVars, boundVars>>

Release(o) ==
    /\ held' = [held EXCEPT ![oper[o].chan] = @ \ Fetched(o)]
    /\ Step(o, NoOp)

ReplayMessage(o) ==
    \E r \in {0, msgs[oper[o].target].retries} :
        Publish([task |-> oper[o].task, retries |-> r], FALSE)

\* Mutant: the dead letter is acknowledged before it is published again.
ReplayPublishLast(o) ==
    LET op == oper[o] IN
    /\ op.at = "publish" /\ Free # {}
    /\ dlq' = Without(dlq, {op.target})
    /\ held' = [held EXCEPT ![op.chan] = @ \ {op.target}]
    /\ \/ CallFails /\ UNCHANGED <<msgs, main>>
       \/ /\ Len(msgs) < MaxMsgs
          /\ msgs' = Append(msgs, [task |-> op.task, retries |-> 0])
          /\ main' = Append(main, Len(msgs) + 1)
          /\ UNCHANGED closes
    /\ Step(o, NoOp)
    /\ UNCHANGED <<delayed, hand, timedOut, historyVars, ops>>

\* publish() takes a second channel of the pool while the first is kept.  When it
\* raises, whether or not the message went out, the dead letter is given back.
ReplayPublish(o) ==
    /\ oper[o].at = "publish" /\ Free # {}
    /\ \/ /\ ReplayMessage(o)
          /\ Step(o, [oper[o] EXCEPT !.at = "settle"])
          /\ UNCHANGED <<held, closes>>
       \/ /\ ReplayMessage(o) \/ UNCHANGED <<msgs, queueVars>>
          /\ Release(o) /\ CallFails
    /\ UNCHANGED <<hand, timedOut, historyVars, ops>>

ReplaySettle(o) ==
    /\ oper[o].at = "settle"
    /\ dlq' = Without(dlq, {oper[o].target})
    /\ Release(o)
    /\ UNCHANGED <<msgs, main, delayed, hand, timedOut, historyVars, boundVars>>

\* Mutant: the timeout is over once the first channel is there.
TimeoutInAcquire(o) ==
    /\ oper[o].at = "acquire"
    /\ timedOut' = TRUE
    /\ Step(o, NoOp)
    /\ UNCHANGED <<msgs, queueVars, held, hand, historyVars, boundVars>>

\* channel_acquire_timeout limits all that is done while the channel is held.  It
\* cancels the operation past every except clause; the channel goes back to the
\* pool, open, and what it had fetched stays unacknowledged.
Timeout(o) ==
    /\ oper[o] # NoOp
    /\ timedOut' = TRUE
    /\ Step(o, NoOp)
    /\ UNCHANGED <<msgs, queueVars, held, hand, historyVars, boundVars>>

\* A channel of the pool closes: so ends the operation that uses it.
PoolChannelCloses(k) ==
    /\ closes + ops < MaxEvents /\ closes' = closes + 1
    /\ held' = [held EXCEPT ![k] = {}]
    /\ oper' = [o \in Operators |->
          IF HasChannel(o) /\ oper[o].chan = k THEN NoOp ELSE oper[o]]
    /\ UNCHANGED <<msgs, queueVars, hand, timedOut, historyVars, ops>>

--------------------------------------------------------------------------------

Handle(s) ==
    \/ EarlyAck(s) \/ Run(s) \/ StoreSuccess(s) \/ AckDone(s)
    \/ Republish(s) \/ RetryAck(s) \/ DeadLetter(s) \/ ManualMove(s) \/ BackendFails(s)

Operate(o) ==
    \/ Acquire(o) \/ Fetch(o) \/ NotFound(o) \/ Requeue(o)
    \/ ReplayPublish(o) \/ ReplaySettle(o) \/ Timeout(o)

Next ==
    \/ \E t \in Tasks : Dispatch(t)
    \/ Expire \/ PurgeQueue \/ PurgeDlq
    \/ \E s \in Slots : Handle(s)
    \/ \E w \in Workers : Deliver(w) \/ ConsumerCloses(w)
    \/ \E o \in Operators : Call(o) \/ Operate(o)
    \/ \E k \in Channels : PoolChannelCloses(k)

Spec == Init /\ [][Next]_vars

\* An operation that has begun goes on, or its timeout passes.
FairSpec == Spec /\ \A o \in Operators : WF_vars(Operate(o))

--------------------------------------------------------------------------------
(* Properties.                                                             *)

Placed == In(main) \cup In(delayed) \cup In(dlq)
Dispatched(t) == \E c \in Copies : TaskOf(c) = t

\* An at-least-once task that has not run to success is in one of the queues: no
\* retry, no dead letter, no replay removes the last copy of it, whichever channel
\* closes in the middle; only a purge, a deletion or the limit of the DLQ does.
NoLoss ==
    \A t \in Tasks : ModeOf[t] = ALO /\ Dispatched(t) =>
        t \in succeeded \cup gone \/ \E c \in Placed : TaskOf(c) = t

Calm == closes = 0 /\ ~timedOut

\* Without a fault a message is handled once: neither a settled nor a dead-lettered
\* message is delivered again.
RunOnceWhenCalm == Calm => reran = {}

\* Copies that are being replaced by a later one.
Replaced ==
    {hand[s].copy : s \in {r \in Slots : hand[r].at = "retry_ack"}} \cup
    {oper[o].target : o \in {q \in Operators : oper[q].at = "settle"}}

\* Without a fault a task is in one place: it waits, is delayed or is dead, and two
\* copies overlap only while a retry or a replay moves it from one to the other.
OnePlaceWhenCalm ==
    Calm => \A c, d \in Placed : c < d /\ TaskOf(c) = TaskOf(d) => c \in Replaced

\* Without a fault a task is neither handled again nor in two places.
OnceWhenCalm == RunOnceWhenCalm /\ OnePlaceWhenCalm

\* A dead letter that no running operation has fetched can be seen by the next one:
\* operations on the DLQ give back all they have looked at, found or not.
NothingHidden ==
    ~timedOut => \A k \in Channels : \A c \in held[k] :
        \E o \in Operators : HasChannel(o) /\ oper[o].chan = k /\ c \in Fetched(o)

\* Every DLQ operation ends, also when all channels of the pool are held by replays
\* that wait for a second one.
OperationsEnd == \A o \in Operators : oper[o].at = "acquire" ~> oper[o].at = "idle"

--------------------------------------------------------------------------------
(* The promise to the caller, of a task that nobody purges.                *)

Promised == {t \in Tasks : ModeOf[t] = ALO}

ALOSpec == INSTANCE AtLeastOnce WITH
    Task <- Promised,
    Unknown <- {},
    open <- {t \in Promised \ (succeeded \cup failed) :
                Dispatched(t) /\ (t \in gone \/ \E c \in Placed : TaskOf(c) = t)},
    begun <- {TaskOf(c) : c \in ran} \cap Promised,
    concluded <- (succeeded \cup failed) \cap Promised

\* Every dispatched at-least-once task is concluded, and never before it was begun.
KeepsPromise == ALOSpec!Spec
================================================================================
