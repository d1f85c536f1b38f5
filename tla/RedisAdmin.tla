------------------------------- MODULE RedisAdmin -------------------------------
(***************************************************************************)
(* The Redis broker shared by consumers, the workers' cleanup loops and    *)
(* operators who replay, delete and purge.                                 *)
(*                                                                         *)
(* Consumers are reduced to what the broker sees of them: they take an     *)
(* envelope, and acknowledge or dead-letter it later.  replay_from_dlq()   *)
(* and cleanup_stale_clients() take several round trips, and everybody     *)
(* else's calls come between them.                                         *)
(***************************************************************************)
EXTENDS RedisBroker

CONSTANTS
    Operators,   \* processes that work on the DLQ: CLI sessions, scripts
    Sweepers,    \* the workers' cleanup loops, and the cleanup command of the CLI
    MaxSent,     \* bound: tasks are sent while fewer copies than this are published
    MaxMsgs,     \* bound on the copies published
    MaxPurges    \* bound on purge_queue() and purge_dlq() calls

ASSUME AdminAssumption ==
    /\ MaxSent \in Nat
    /\ MaxMsgs \in Nat
    /\ MaxPurges \in Nat

VARIABLES
    life,      \* life[w]: "new", "up" or "dead"
    inhand,    \* the envelopes <<w, q, c>> that consumers work on
    known,     \* known[q]: the consumer names the group knows
    replaying, \* replaying[o]: the DLQ entries {<<q, d>>} that o's XRANGE found
    stale,     \* stale[s]: the names that s's XINFO found stale, yet to be deleted
    late,      \* history: <<q, w, c>>, w got copy c of q since a sweep listed w as stale
    dropped,   \* history: the late copies that went with the consumer they came to
    read,      \* history: the copies that XREADGROUP ... > returned
    reread,    \* history: those it returned again
    done,      \* history: the copies acknowledged by their consumer
    discarded, \* history: the copies that purge_queue() or trimming removed
    replayed,  \* history: the DLQ entries put back on their queue
    deleted,   \* history: the DLQ entries an operator deleted
    purges     \* number of purges

clientVars == <<life, inhand, known>>
sweepVars == <<stale, late, dropped>>
adminVars == <<replaying, stale, late, dropped>>
copyHistory == <<read, reread, done, discarded>>
dlqHistory == <<replayed, deleted>>
vars == <<brokerVars, clientVars, adminVars, copyHistory, dlqHistory, purges>>

AdminTypeOK ==
    /\ BrokerTypeOK
    /\ life \in [Workers -> {"new", "up", "dead"}]
    /\ inhand \subseteq (Workers \X Queues \X Copies)
    /\ known \in [Queues -> SUBSET Workers]
    /\ replaying \in [Operators -> SUBSET (Queues \X (1 .. Len(dead)))]
    /\ stale \in [Sweepers -> SUBSET (Queues \X Workers)]
    /\ late \subseteq (Queues \X Workers \X Copies)
    /\ dropped \cup read \cup reread \cup done \cup discarded \subseteq Copies
    /\ replayed \cup deleted \subseteq 1 .. Len(dead)
    /\ purges \in 0 .. MaxPurges

Init ==
    /\ BrokerInit
    /\ life = [w \in Workers |-> "new"]
    /\ inhand = {}
    /\ known = [q \in Queues |-> {}]
    /\ replaying = [o \in Operators |-> {}]
    /\ stale = [s \in Sweepers |-> {}]
    /\ late = {} /\ dropped = {}
    /\ read = {} /\ reread = {} /\ done = {} /\ discarded = {}
    /\ replayed = {} /\ deleted = {}
    /\ purges = 0

--------------------------------------------------------------------------------
(* Producers and consumers.                                                *)

Entries(s) == {s[i] : i \in DOMAIN s}

\* Keep account of what an XADD to q trims.
NoteTrimmed(q) ==
    /\ discarded' = discarded \cup (Entries(stream[q]) \ Entries(stream'[q]))
    /\ UNCHANGED <<read, reread, done>>

Send(t, q, later) ==
    /\ Len(msgs) < MaxSent
    /\ Publish([task |-> t, retries |-> 0], q, later)
    /\ NoteTrimmed(q)
    /\ UNCHANGED <<clientVars, adminVars, dlqHistory, purges>>

\* consume() creates the group when it starts, and again when XREADGROUP answers
\* NOGROUP.
Enter(w, q) ==
    /\ life[w] = "new" \/ (life[w] = "up" /\ ~group[q])
    /\ life' = [life EXCEPT ![w] = "up"]
    /\ EnsureConsumerGroup(q)
    /\ UNCHANGED <<inhand, known, adminVars, copyHistory, dlqHistory, purges>>

\* A sweep has w on its list: XINFO was answered, XGROUP DELCONSUMER not yet sent.
Doomed(q, w) == \E s \in Sweepers : <<q, w>> \in stale[s]

Take(w, q, c) ==
    /\ life[w] = "up"
    /\ inhand' = inhand \cup {<<w, q, c>>}
    /\ known' = [known EXCEPT ![q] = @ \cup {w}]
    /\ late' = late \cup {x \in {<<q, w, c>>} : Doomed(q, w)}
    /\ UNCHANGED <<life, replaying, stale, dropped, done, discarded, dlqHistory, purges>>

Read(w, q) ==
    /\ ReadGroup(q, w)
    /\ Take(w, q, NextUnread(q))
    /\ read' = read \cup {NextUnread(q)}
    /\ reread' = reread \cup (read \cap {NextUnread(q)})

TakeOver(w, q, c) ==
    /\ \A v \in Workers : <<v, q, c>> \notin inhand
    /\ AutoClaim(q, w, c)
    /\ Take(w, q, c)
    /\ UNCHANGED <<read, reread>>

TakeOverTrimmed(w, q, c) ==
    /\ life[w] = "up"
    /\ AutoClaimTrimmed(q, c)
    /\ UNCHANGED <<clientVars, adminVars, copyHistory, dlqHistory, purges>>

Promote(q, c) ==
    /\ MoveReadyDelayed(q, c)
    /\ UNCHANGED <<clientVars, adminVars, copyHistory, dlqHistory, purges>>

Finish(w, q, c) ==
    /\ <<w, q, c>> \in inhand
    /\ inhand' = inhand \ {<<w, q, c>>}
    /\ Ack(q, c)
    /\ done' = done \cup {c}
    /\ UNCHANGED <<life, known, adminVars, read, reread, discarded, dlqHistory, purges>>

Fail(w, q, c) ==
    /\ <<w, q, c>> \in inhand
    /\ inhand' = inhand \ {<<w, q, c>>}
    /\ MoveToDlq(q, c)
    /\ UNCHANGED <<life, known, adminVars, copyHistory, dlqHistory, purges>>

Die(w) ==
    /\ life[w] = "up"
    /\ life' = [life EXCEPT ![w] = "dead"]
    /\ inhand' = {e \in inhand : e[1] # w}
    /\ UNCHANGED <<brokerVars, known, adminVars, copyHistory, dlqHistory, purges>>

--------------------------------------------------------------------------------
(* cleanup_stale_clients(), run by the cleanup loops and by an operator.   *)

\* Mutant: the names are not checked for pending entries.
LooksStaleAnyPending(q) == known[q]

\* The names that XINFO CONSUMERS may show as stale.  How long a name has been idle is
\* not modelled: a consumer that died, and one that lives and waits for work, may each
\* have been idle for stale_seconds, or not yet.
LooksStale(q) == {v \in known[q] : \A e \in pel[q] : e.owner # v}

SweepList(s, q) ==
    /\ stale[s] = {}
    /\ group[q]
    /\ \E S \in SUBSET LooksStale(q) \ {{}} :
          stale' = [stale EXCEPT ![s] = {<<q, v>> : v \in S}]
    /\ UNCHANGED <<brokerVars, clientVars, replaying, late, dropped, copyHistory, dlqHistory,
                   purges>>

\* Nothing comes late to a name that is on no list any more.
ForgetLate == late' = {x \in late : Doomed(x[1], x[2])'}

SweepDelete(s, q, v) ==
    /\ <<q, v>> \in stale[s]
    /\ stale' = [stale EXCEPT ![s] = @ \ {<<q, v>>}]
    /\ DelConsumer(q, v)
    /\ known' = [known EXCEPT ![q] = @ \ {v}]
    /\ dropped' = dropped \cup
          {c \in Copies : <<q, v, c>> \in late /\ [copy |-> c, owner |-> v] \in pel[q]}
    /\ ForgetLate
    /\ UNCHANGED <<life, inhand, replaying, copyHistory, dlqHistory, purges>>

\* A call raises, or the process of the sweep dies: the rest of the list is dropped.
SweepFails(s) ==
    /\ stale[s] # {}
    /\ stale' = [stale EXCEPT ![s] = {}]
    /\ ForgetLate
    /\ UNCHANGED <<brokerVars, clientVars, replaying, dropped, copyHistory, dlqHistory, purges>>

--------------------------------------------------------------------------------
(* Operators.                                                              *)

ReplayFind(o, q, d) ==
    /\ replaying[o] = {}
    /\ InDlq(q, d)
    /\ replaying' = [replaying EXCEPT ![o] = {<<q, d>>}]
    /\ UNCHANGED <<brokerVars, clientVars, sweepVars, copyHistory, dlqHistory, purges>>

ReplayMove(o, q, d, reset) ==
    /\ <<q, d>> \in replaying[o]
    /\ Len(msgs) < MaxMsgs
    /\ replaying' = [replaying EXCEPT ![o] = {}]
    /\ ReplayFromDlq(q, d, reset)
    /\ replayed' = replayed \cup {d}
    /\ NoteTrimmed(q)
    /\ UNCHANGED <<clientVars, sweepVars, deleted, purges>>

Delete(q, d) ==
    /\ InDlq(q, d)
    /\ DeleteFromDlq(q, d)
    /\ deleted' = deleted \cup {d}
    /\ UNCHANGED <<clientVars, adminVars, copyHistory, replayed, purges>>

EmptyDlq(q) ==
    /\ purges < MaxPurges
    /\ purges' = purges + 1
    /\ deleted' = deleted \cup dlq[q]
    /\ PurgeDlq(q)
    /\ UNCHANGED <<clientVars, adminVars, copyHistory, replayed>>

EmptyQueue(q) ==
    /\ purges < MaxPurges
    /\ purges' = purges + 1
    /\ discarded' = discarded \cup Unread(q) \cup Pending(q)
    /\ PurgeQueue(q)
    /\ known' = [known EXCEPT ![q] = {}]
    /\ UNCHANGED <<life, inhand, adminVars, read, reread, done, dlqHistory>>

Next ==
    \/ \E t \in Tasks, q \in Queues, later \in BOOLEAN : Send(t, q, later)
    \/ \E w \in Workers, q \in Queues : Enter(w, q) \/ Read(w, q)
    \/ \E w \in Workers, q \in Queues, c \in Copies :
          \/ TakeOver(w, q, c)
          \/ TakeOverTrimmed(w, q, c)
          \/ Finish(w, q, c)
          \/ Fail(w, q, c)
    \/ \E q \in Queues, c \in Copies : Promote(q, c)
    \/ \E w \in Workers : Die(w)
    \/ \E s \in Sweepers, q \in Queues :
          SweepList(s, q) \/ \E v \in Workers : SweepDelete(s, q, v)
    \/ \E s \in Sweepers : SweepFails(s)
    \/ \E o \in Operators, q \in Queues, d \in DOMAIN dead :
          \/ ReplayFind(o, q, d)
          \/ \E reset \in BOOLEAN : ReplayMove(o, q, d, reset)
    \/ \E q \in Queues, d \in DOMAIN dead : Delete(q, d)
    \/ \E q \in Queues : EmptyDlq(q) \/ EmptyQueue(q)

Spec == Init /\ [][Next]_vars

--------------------------------------------------------------------------------
(* Properties.                                                             *)

\* XREADGROUP ... > returns no copy twice: not when a second worker creates the
\* group, nor after a purge destroyed the group and consume() recreated it at 0, nor
\* when trimming moves the stream under the group's position.
ReadOnce == reread = {}

\* No copy vanishes by the side effects of administration: a copy that the broker can
\* no longer deliver was acknowledged, dead-lettered, purged or trimmed, or went with a
\* consumer that got it between a sweep's look at it and its deletion.  A purge that meets
\* a publish, or a recreated group, must not break this.
Accounted ==
    BrokerMode = ALO =>
        \A c \in Copies :
            \/ Live(c)
            \/ c \in done \cup discarded \cup dropped
            \/ \E d \in DOMAIN dead : dead[d].copy = c

\* Neither administration nor the recreation of a group duplicates or loses a copy.
NoneTwiceNoneLost == ReadOnce /\ Accounted

\* "Don't delete consumers with pending messages" (cleanup_stale_clients()): a sweep takes
\* no pending entry along but those which the consumer got after XINFO had shown it
\* without any, whatever happens to the entries in between.  Those it does take along,
\* against that comment: the pending counts are those of XINFO CONSUMERS, and a consumer
\* that waits in XREADGROUP may get an entry before its XGROUP DELCONSUMER.
SweepDropsOnlyLate ==
    [][ \A q \in Queues, v \in Workers :
            group'[q] /\ v \in known[q] \ known'[q]
                => \A e \in pel[q] : e.owner = v => <<q, v, e.copy>> \in late ]_vars

\* A dead letter leaves the DLQ only by a replay or by an operator's wish.
DeadLettersKept ==
    DlqMaxLength = 0 =>
        \A d \in DOMAIN dead :
            d \in dlq[dead[d].queue] \/ d \in replayed \cup deleted

\* What an operator deleted, or replayed, is not in the DLQ any more.
DlqIsCurrent == \A q \in Queues : dlq[q] \cap (replayed \cup deleted) = {}

\* The DLQ shows the dead letters that nobody has dealt with, and all of them.
DlqIsFaithful == DeadLettersKept /\ DlqIsCurrent
================================================================================
