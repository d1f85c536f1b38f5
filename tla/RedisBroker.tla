------------------------------ MODULE RedisBroker ------------------------------
(***************************************************************************)
(* The Redis broker (src/chicory/broker/redis.py) as the state of its      *)
(* Redis keys and one action per broker call.                              *)
(*                                                                         *)
(* Every publish() makes a new COPY of a task: copy c is msgs[c], and the  *)
(* index c stands for the unique stream entry id or sorted-set member that *)
(* Redis holds for it.  The actions constrain brokerVars only, so that     *)
(* Worker and RedisAdmin can conjoin them with the state of the callers.   *)
(***************************************************************************)
EXTENDS Naturals, Sequences, FiniteSets

CONSTANTS
    Tasks,            \* task ids
    Workers,          \* consumer names: every worker process draws a fresh one
    Queues,           \* queue names
    DefaultQueue,     \* types.DEFAULT_QUEUE
    BrokerMode,       \* delivery_mode given to the broker by the app
    MaxStreamLength,  \* config.max_stream_length; 0 disables trimming
    DlqMaxLength      \* config.dlq_max_length; 0 disables trimming

ALO == "at_least_once"
AMO == "at_most_once"

ASSUME BrokerAssumption ==
    /\ DefaultQueue \in Queues
    /\ BrokerMode \in {ALO, AMO}
    /\ MaxStreamLength \in Nat
    /\ DlqMaxLength \in Nat

VARIABLES
    msgs,     \* every copy published so far, in publish order
    delayed,  \* delayed[q]: copies in the sorted set chicory:delayed:q
    stream,   \* stream[q]: copies in the stream chicory:stream:q, oldest first
    cursor,   \* cursor[q]: how many entries of stream[q] the group has read
    group,    \* group[q]: the consumer group exists
    pel,      \* pel[q]: the group's pending entries, each with its owner
    dead,     \* every dead-letter entry ever written, in order
    dlq       \* dlq[q]: the entries (indexes of dead) still in chicory:dlq:q

brokerVars == <<msgs, delayed, stream, cursor, group, pel, dead, dlq>>

Message == [task : Tasks, retries : Nat]
DeadEntry == [copy : Nat, queue : Queues]

Copies == 1 .. Len(msgs)

\* The copies of q that no consumer of the group has read yet.
Unread(q) == {stream[q][i] : i \in (cursor[q] + 1) .. Len(stream[q])}

\* The copies of q that were delivered and not acknowledged.
Pending(q) == {e.copy : e \in pel[q]}

BrokerTypeOK ==
    /\ msgs \in Seq(Message)
    /\ delayed \in [Queues -> SUBSET Nat]
    /\ stream \in [Queues -> Seq(Nat)]
    /\ cursor \in [Queues -> Nat]
    /\ group \in [Queues -> BOOLEAN]
    /\ pel \in [Queues -> SUBSET [copy : Nat, owner : Workers]]
    /\ dead \in Seq(DeadEntry)
    /\ dlq \in [Queues -> SUBSET Nat]

BrokerInit ==
    /\ msgs = <<>>
    /\ delayed = [q \in Queues |-> {}]
    /\ stream = [q \in Queues |-> <<>>]
    /\ cursor = [q \in Queues |-> 0]
    /\ group = [q \in Queues |-> FALSE]
    /\ pel = [q \in Queues |-> {}]
    /\ dead = <<>>
    /\ dlq = [q \in Queues |-> {}]

--------------------------------------------------------------------------------
(* Publishing.                                                             *)

\* XADD without MAXLEN: the copy becomes the newest entry.
XAdd(q, c) ==
    /\ stream' = [stream EXCEPT ![q] = Append(@, c)]
    /\ UNCHANGED cursor

\* Mutant: the group's position is not kept at the start of the shortened stream.
XAddTrimBelowZero(q, c) ==
    /\ MaxStreamLength > 0
    /\ \E k \in 1 .. Len(stream[q]) :
          /\ Len(stream[q]) + 1 - k >= MaxStreamLength
          /\ stream' = [stream EXCEPT
                ![q] = Append(SubSeq(@, k + 1, Len(@)), c)]
          /\ cursor' = [cursor EXCEPT ![q] = @ - k]

\* XADD with an approximate MAXLEN: Redis may also drop some of the oldest
\* entries, whether the group has read them or not, but never below MaxStreamLength.
XAddTrim(q, c) ==
    /\ MaxStreamLength > 0
    /\ \E k \in 1 .. Len(stream[q]) :
          /\ Len(stream[q]) + 1 - k >= MaxStreamLength
          /\ stream' = [stream EXCEPT
                ![q] = Append(SubSeq(@, k + 1, Len(@)), c)]
          /\ cursor' = [cursor EXCEPT ![q] = IF @ > k THEN @ - k ELSE 0]

\* publish(): a message whose eta lies in the future goes to the sorted set,
\* any other one to the stream.
Publish(m, q, later) ==
    LET c == Len(msgs) + 1 IN
    /\ msgs' = Append(msgs, m)
    /\ \/ /\ later
          /\ delayed' = [delayed EXCEPT ![q] = @ \cup {c}]
          /\ UNCHANGED <<stream, cursor>>
       \/ /\ ~later
          /\ XAdd(q, c) \/ XAddTrim(q, c)
          /\ UNCHANGED delayed
    /\ UNCHANGED <<group, pel, dead, dlq>>

\* _move_ready_delayed(): the Lua script moves the members whose eta has come.
\* One member per step: the script never waits between two members, and the
\* states between them are those of polls whose `now` falls between two etas.
MoveReadyDelayed(q, c) ==
    /\ c \in delayed[q]
    /\ delayed' = [delayed EXCEPT ![q] = @ \ {c}]
    /\ XAdd(q, c)
    /\ UNCHANGED <<msgs, group, pel, dead, dlq>>

--------------------------------------------------------------------------------
(* Consuming.                                                              *)

\* Mutant: the group is created anew although it exists.
RecreateConsumerGroup(q) ==
    /\ group' = [group EXCEPT ![q] = TRUE]
    /\ cursor' = [cursor EXCEPT ![q] = 0]
    /\ UNCHANGED <<msgs, delayed, stream, pel, dead, dlq>>

\* _ensure_consumer_group(): XGROUP CREATE ... 0 MKSTREAM.  The group starts
\* before the first entry; BUSYGROUP leaves an existing group alone.
EnsureConsumerGroup(q) ==
    /\ \/ /\ ~group[q]
          /\ group' = [group EXCEPT ![q] = TRUE]
          /\ cursor' = [cursor EXCEPT ![q] = 0]
       \/ /\ group[q]
          /\ UNCHANGED <<group, cursor>>
    /\ UNCHANGED <<msgs, delayed, stream, pel, dead, dlq>>

\* The entry the next XREADGROUP ... > returns.
CanRead(q) == group[q] /\ cursor[q] < Len(stream[q])
NextUnread(q) == stream[q][cursor[q] + 1]

\* consume(), XREADGROUP COUNT 1: the next unread entry enters the PEL.  NOACK is
\* never passed, so it does so whatever the broker's delivery mode.
ReadGroup(q, w) ==
    /\ CanRead(q)
    /\ cursor' = [cursor EXCEPT ![q] = @ + 1]
    /\ pel' = [pel EXCEPT ![q] = @ \cup {[copy |-> NextUnread(q), owner |-> w]}]
    /\ UNCHANGED <<msgs, delayed, stream, group, dead, dlq>>

\* XACK of one entry.  Unknown ids and missing keys are no error.
XAck(q, c) == pel' = [pel EXCEPT ![q] = {e \in @ : e.copy # c}]

InStream(q, c) == \E i \in DOMAIN stream[q] : stream[q][i] = c

\* Mutant: a consumer claims its own entries only.
AutoClaimOwn(q, w, c) ==
    /\ BrokerMode = ALO
    /\ group[q] /\ [copy |-> c, owner |-> w] \in pel[q] /\ InStream(q, c)
    /\ UNCHANGED brokerVars

\* _claim_stale_messages(), XAUTOCLAIM: a pending entry changes owner and is
\* delivered to w.  The consume loop calls it in at-least-once mode only.
AutoClaim(q, w, c) ==
    /\ BrokerMode = ALO
    /\ group[q] /\ c \in Pending(q) /\ InStream(q, c)
    /\ pel' = [pel EXCEPT
          ![q] = {e \in @ : e.copy # c} \cup {[copy |-> c, owner |-> w]}]
    /\ UNCHANGED <<msgs, delayed, stream, cursor, group, dead, dlq>>

\* XAUTOCLAIM of an entry that trimming removed: Redis drops it from the PEL.
AutoClaimTrimmed(q, c) ==
    /\ BrokerMode = ALO
    /\ group[q] /\ c \in Pending(q) /\ ~InStream(q, c)
    /\ XAck(q, c)
    /\ UNCHANGED <<msgs, delayed, stream, cursor, group, dead, dlq>>

--------------------------------------------------------------------------------
(* Acknowledging.                                                          *)

\* ack(): a no-op in at-most-once mode.
Ack(q, c) ==
    /\ IF BrokerMode = ALO THEN XAck(q, c) ELSE UNCHANGED pel
    /\ UNCHANGED <<msgs, delayed, stream, cursor, group, dead, dlq>>

\* nack(requeue=False): XACK in at-least-once mode, else nothing.
NackDrop(q, c) == Ack(q, c)

\* The DLQ stream after one more entry: XADD with an approximate MAXLEN.
DlqAdded(q, d) ==
    {dlq[q] \cup {d}} \cup
    (IF DlqMaxLength = 0 THEN {}
     ELSE {S \in SUBSET (dlq[q] \cup {d}) :
              /\ Cardinality(S) >= DlqMaxLength
              /\ \A x \in S, y \in (dlq[q] \cup {d}) \ S : y < x})

\* Mutant: the XACK is missing from the pipeline.
MoveToDlqNoAck(q, c) ==
    LET d == Len(dead) + 1 IN
    /\ dead' = Append(dead, [copy |-> c, queue |-> q])
    /\ \E S \in DlqAdded(q, d) : dlq' = [dlq EXCEPT ![q] = S]
    /\ UNCHANGED <<msgs, delayed, stream, cursor, group, pel>>

\* move_to_dlq(): one MULTI/EXEC of XADD to the DLQ and, in at-least-once mode,
\* XACK of the original.
MoveToDlq(q, c) ==
    LET d == Len(dead) + 1 IN
    /\ dead' = Append(dead, [copy |-> c, queue |-> q])
    /\ \E S \in DlqAdded(q, d) : dlq' = [dlq EXCEPT ![q] = S]
    /\ IF BrokerMode = ALO THEN XAck(q, c) ELSE UNCHANGED pel
    /\ UNCHANGED <<msgs, delayed, stream, cursor, group>>

--------------------------------------------------------------------------------
(* Operating.                                                              *)

\* replay_from_dlq(), first round trip: XRANGE finds the entry.
InDlq(q, d) == d \in dlq[q]

\* Mutant: the XDEL is missing from the pipeline.
ReplayKeepingEntry(q, d, reset) ==
    LET m == msgs[dead[d].copy]
        c == Len(msgs) + 1 IN
    /\ msgs' = Append(msgs, IF reset THEN [m EXCEPT !.retries = 0] ELSE m)
    /\ XAdd(q, c) \/ XAddTrim(q, c)
    /\ UNCHANGED <<delayed, group, pel, dead, dlq>>

\* replay_from_dlq(), second round trip: a MULTI/EXEC of XADD to the stream and XDEL
\* from the DLQ, which does not look whether the entry is still there.
ReplayFromDlq(q, d, reset) ==
    LET m == msgs[dead[d].copy]
        c == Len(msgs) + 1 IN
    /\ msgs' = Append(msgs, IF reset THEN [m EXCEPT !.retries = 0] ELSE m)
    /\ XAdd(q, c) \/ XAddTrim(q, c)
    /\ dlq' = [dlq EXCEPT ![q] = @ \ {d}]
    /\ UNCHANGED <<delayed, group, pel, dead>>

\* delete_from_dlq(): XDEL of one entry; it reports whether there was one.
DeleteFromDlq(q, d) ==
    /\ dlq' = [dlq EXCEPT ![q] = @ \ {d}]
    /\ UNCHANGED <<msgs, delayed, stream, cursor, group, pel, dead>>

\* purge_dlq(): DEL of the DLQ's key.
PurgeDlq(q) ==
    /\ dlq' = [dlq EXCEPT ![q] = {}]
    /\ UNCHANGED <<msgs, delayed, stream, cursor, group, pel, dead>>

\* purge_queue(): DEL of the stream's key takes the consumer group and its PEL with
\* it.  The sorted set of delayed copies is another key and stays.
PurgeQueue(q) ==
    /\ stream' = [stream EXCEPT ![q] = <<>>]
    /\ cursor' = [cursor EXCEPT ![q] = 0]
    /\ group' = [group EXCEPT ![q] = FALSE]
    /\ pel' = [pel EXCEPT ![q] = {}]
    /\ UNCHANGED <<msgs, delayed, dead, dlq>>

\* cleanup_stale_clients(), XGROUP DELCONSUMER: the consumer's pending entries go
\* with it, however many it has by now.
DelConsumer(q, w) ==
    /\ pel' = [pel EXCEPT ![q] = {e \in @ : e.owner # w}]
    /\ UNCHANGED <<msgs, delayed, stream, cursor, group, dead, dlq>>

--------------------------------------------------------------------------------
(* Where copies are.                                                       *)

\* The broker can still deliver copy c: it waits for its eta, is unread in a stream,
\* or is pending and thus claimable.
Live(c) ==
    \E q \in Queues : c \in delayed[q] \/ c \in Unread(q) \/ c \in Pending(q)

\* Copy c was trimmed from its stream: nothing else removes an entry there, but
\* purge_queue().
Trimmed(c) == \A q \in Queues : c \notin delayed[q] /\ ~InStream(q, c)

Kept(c) == Live(c) \/ Trimmed(c)

\* Copy c is somewhere in the keys of queue q.
At(q, c) == c \in delayed[q] \/ InStream(q, c) \/ c \in Pending(q)

\* A copy is in the keys of one queue, once in its stream, and neither streamed nor
\* pending while it is delayed; the group's position is inside the stream.
Placed ==
    /\ \A q \in Queues : cursor[q] <= Len(stream[q])
    /\ \A q \in Queues : \A c \in Nat : At(q, c) => c \in Copies
    /\ \A p, q \in Queues : \A c \in Copies : At(p, c) /\ At(q, c) => p = q
    /\ \A q \in Queues : \A c \in delayed[q] : ~InStream(q, c) /\ c \notin Pending(q)
    /\ \A q \in Queues : \A i, j \in DOMAIN stream[q] :
          stream[q][i] = stream[q][j] => i = j
================================================================================
