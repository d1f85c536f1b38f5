---------------------------- MODULE RedisAdminProofs ----------------------------
(***************************************************************************)
(* The Redis broker under administration, for any number of consumers,     *)
(* operators, sweeps and queues, any limits of the streams and any number  *)
(* of purges: nothing is delivered twice as new, the DLQ is what it should *)
(* be, and no copy vanishes, but for those which a consumer gets between a *)
(* sweep's look at it and its deletion.                                    *)
(***************************************************************************)
EXTENDS RedisAdmin, RedisBrokerProofs

\* The types of the state that RedisAdmin adds to the broker's.
OwnTypes ==
    /\ life \in [Workers -> {"new", "up", "dead"}]
    /\ inhand \subseteq (Workers \X Queues \X Copies)
    /\ known \in [Queues -> SUBSET Workers]
    /\ replaying \in [Operators -> SUBSET (Queues \X (1 .. Len(dead)))]
    /\ stale \in [Sweepers -> SUBSET (Queues \X Workers)]
    /\ late \subseteq (Queues \X Workers \X Copies)
    /\ dropped \subseteq Copies
    /\ read \cup reread \cup done \cup discarded \subseteq Copies
    /\ replayed \cup deleted \subseteq 1 .. Len(dead)
    /\ purges \in 0 .. MaxPurges

\* A dead letter is a copy that was published; the DLQ of a queue holds dead letters
\* of that queue, and a replay is about one of the queue that it names.
DlqInv ==
    /\ \A d \in DOMAIN dead : dead[d].copy \in Copies
    /\ \A q \in Queues : \A d \in dlq[q] : d \in DOMAIN dead /\ dead[d].queue = q
    /\ \A o \in Operators : \A r \in replaying[o] : dead[r[2]].queue = r[1]
    /\ DlqIsFaithful

\* What was read is not handed out as new again.
ReadInv ==
    /\ FromStart /\ ReadOnce
    /\ \A c \in Copies : Fresh(c) => c \notin read

AdminInv == BrokerInv /\ OwnTypes /\ DlqInv /\ ReadInv

\* What is pending for a name on the list of a sweep came late.
SweepInv ==
    \A s \in Sweepers : \A n \in stale[s] : \A e \in pel[n[1]] :
        e.owner = n[2] => <<n[1], n[2], e.copy>> \in late

\* A pending copy that is in its stream no more was trimmed.
TrimInv == \A q \in Queues : \A c \in Pending(q) : InStream(q, c) \/ c \in discarded

CountInv == SweepInv /\ TrimInv /\ Accounted

--------------------------------------------------------------------------------
(* What most steps leave alone.                                            *)

LEMMA Bounds ==
    ASSUME BrokerInv
    PROVE  /\ Len(msgs) \in Nat /\ Len(dead) \in Nat /\ DOMAIN dead = 1 .. Len(dead)
           /\ Copies \subseteq Nat
<1>1. msgs \in Seq(Message) /\ dead \in Seq(DeadEntry)
  BY DEF BrokerInv, BrokerTypeOK
<1> QED
  BY <1>1 DEF Copies

\* Steps that change nothing about dead letters.
LEMMA DlqStays ==
    ASSUME DlqInv, Copies \subseteq Copies', UNCHANGED <<dead, dlq, replaying, dlqHistory>>
    PROVE  DlqInv'
BY DEF DlqInv, DlqIsFaithful, DeadLettersKept, DlqIsCurrent, dlqHistory

\* Steps that read nothing and hand out nothing anew.
LEMMA ReadStays ==
    ASSUME ReadInv, OwnTypes, NoneAnew, UNCHANGED <<read, reread>>
    PROVE  ReadInv'
<1>1. read \subseteq Copies
  BY DEF OwnTypes
<1> QED
  BY <1>1 DEF ReadInv, NoneAnew, ReadOnce

\* Steps that do not touch what RedisAdmin adds.
LEMMA TypesStay ==
    ASSUME OwnTypes, Copies \subseteq Copies', Len(dead') = Len(dead),
           UNCHANGED <<clientVars, adminVars, read, reread, done, dlqHistory, purges>>,
           discarded' \subseteq Copies'
    PROVE  OwnTypes'
<1>1. /\ inhand' \subseteq (Workers \X Queues \X Copies')
      /\ read' \cup reread' \cup done' \cup discarded' \subseteq Copies'
      /\ late' \subseteq (Queues \X Workers \X Copies') /\ dropped' \subseteq Copies'
  BY DEF OwnTypes, clientVars, adminVars
<1> QED
  BY <1>1 DEF OwnTypes, clientVars, adminVars, dlqHistory

LEMMA InitAdminInv == Init => AdminInv /\ CountInv
<1> SUFFICES ASSUME Init PROVE AdminInv /\ CountInv
  OBVIOUS
<1>1. BrokerInit /\ BrokerInv
  BY BrokerInitInv DEF Init
<1>2. OwnTypes
  <2>1. 0 \in 0 .. MaxPurges
    BY AdminAssumption
  <2> QED
    BY <2>1 DEF Init, OwnTypes
<1>3. Copies = {} /\ DOMAIN dead = {} /\ \A q \in Queues : dlq[q] = {} /\ pel[q] = {} /\ cursor[q] = 0
  BY <1>1 DEF BrokerInit, Copies
<1>4. DlqInv
  BY <1>3 DEF Init, DlqInv, DlqIsFaithful, DeadLettersKept, DlqIsCurrent
<1>5. ReadInv
  BY <1>3 DEF Init, ReadInv, FromStart, ReadOnce
<1>6. CountInv
  BY <1>3 DEF Init, CountInv, SweepInv, TrimInv, Accounted, Pending
<1> QED
  BY <1>1, <1>2, <1>4, <1>5, <1>6 DEF AdminInv

--------------------------------------------------------------------------------
(* AdminInv.                                                               *)

\* What is trimmed was a copy.
LEMMA TrimmedAreCopies ==
    ASSUME BrokerInv, OwnTypes, NEW q \in Queues, NoteTrimmed(q)
    PROVE  /\ discarded' \subseteq Copies /\ discarded \subseteq discarded'
           /\ \A c \in Entries(stream[q]) : c \in Entries(stream'[q]) \/ c \in discarded'
<1>1. \A c \in Entries(stream[q]) : c \in Copies
  <2> SUFFICES ASSUME NEW i \in DOMAIN stream[q] PROVE stream[q][i] \in Copies
    BY DEF Entries
  <2>1. InStream(q, stream[q][i]) /\ stream[q][i] \in Nat
    BY QueueTypes DEF InStream, BrokerInv, BrokerTypeOK
  <2> QED
    BY <2>1 DEF BrokerInv, Placed, At
<1> QED
  BY <1>1 DEF NoteTrimmed, OwnTypes

LEMMA SendAdmin ==
    ASSUME AdminInv, NEW t \in Tasks, NEW q \in Queues, NEW later \in BOOLEAN,
           Send(t, q, later)
    PROVE  AdminInv'
<1> DEFINE m == [task |-> t, retries |-> 0]
           c == Len(msgs) + 1
<1>1. m \in Message /\ c \in Nat
  BY Bounds DEF Message, AdminInv
<1>2. /\ Publish(m, q, later) /\ NoteTrimmed(q)
      /\ UNCHANGED <<clientVars, adminVars, dlqHistory, purges, dead, dlq, read, reread, done>>
  BY DEF Send, Publish, NoteTrimmed
<1> HIDE DEF m
<1>3. BrokerInv' /\ Copies' = Copies \cup {c}
  BY <1>1, <1>2, PublishKeeps DEF AdminInv
<1>4. NoneAnew
  <2>1. Appends(m, q, later)
    BY <1>2 DEF Publish, Appends
  <2> QED
    BY <1>1, <2>1, AppendFresh DEF AdminInv, ReadInv
<1>5. discarded' \subseteq Copies
  BY <1>2, TrimmedAreCopies DEF AdminInv
<1>6. OwnTypes'
  BY <1>2, <1>3, <1>5, TypesStay DEF AdminInv
<1>7. DlqInv'
  BY <1>2, <1>3, DlqStays DEF AdminInv, adminVars
<1>8. ReadInv'
  BY <1>2, <1>4, ReadStays DEF AdminInv
<1> QED
  BY <1>3, <1>6, <1>7, <1>8 DEF AdminInv

LEMMA EnterAdmin ==
    ASSUME AdminInv, NEW w \in Workers, NEW q \in Queues, Enter(w, q)
    PROVE  AdminInv'
<1>1. /\ EnsureConsumerGroup(q) /\ life' = [life EXCEPT ![w] = "up"]
      /\ UNCHANGED <<inhand, known, adminVars, copyHistory, dlqHistory, purges, dead, dlq>>
  BY DEF Enter, EnsureConsumerGroup
<1>2. BrokerInv' /\ msgs' = msgs /\ Copies' = Copies
  BY <1>1, EnsureConsumerGroupKeeps DEF AdminInv, Copies
<1>3. NoneAnew
  BY <1>1, EnsureFresh DEF AdminInv, ReadInv
<1>4. OwnTypes'
  BY <1>1, <1>2 DEF AdminInv, OwnTypes, adminVars, copyHistory, dlqHistory
<1>5. DlqInv'
  BY <1>1, <1>2, DlqStays DEF AdminInv, adminVars
<1>6. ReadInv'
  BY <1>1, <1>3, ReadStays DEF AdminInv, copyHistory
<1> QED
  BY <1>2, <1>4, <1>5, <1>6 DEF AdminInv

\* What taking an envelope changes.
LEMMA TakeTypes ==
    ASSUME OwnTypes, UNCHANGED <<msgs, dead>>, NEW w \in Workers, NEW q \in Queues,
           NEW c \in Copies, Take(w, q, c), read' \cup reread' \subseteq Copies
    PROVE  OwnTypes'
<1>1. Copies' = Copies
  BY DEF Copies
<1>2. inhand' \subseteq (Workers \X Queues \X Copies)
  BY DEF Take, OwnTypes
<1>3. known' \in [Queues -> SUBSET Workers]
  BY DEF Take, OwnTypes
<1>4. late' \subseteq (Queues \X Workers \X Copies)
  BY DEF Take, OwnTypes
<1> QED
  BY <1>1, <1>2, <1>3, <1>4 DEF Take, OwnTypes, dlqHistory

LEMMA ReadAdmin ==
    ASSUME AdminInv, NEW w \in Workers, NEW q \in Queues, Read(w, q)
    PROVE  AdminInv'
<1> PICK c : c = NextUnread(q)
  OBVIOUS
<1>1. /\ ReadGroup(q, w) /\ Take(w, q, c)
      /\ read' = read \cup {c} /\ reread' = reread \cup (read \cap {c})
      /\ UNCHANGED <<msgs, dead, dlq, replaying, dlqHistory>>
  BY DEF Read, ReadGroup, Take
<1>2. BrokerInv' /\ Copies' = Copies
  BY <1>1, ReadGroupKeeps DEF AdminInv, Copies
<1>3. /\ NoneAnew /\ c \in Copies /\ Fresh(c) /\ ~Fresh(c)'
  BY <1>1, ReadFresh DEF AdminInv, ReadInv
<1>4. reread' = {} /\ reread = {}
  BY <1>1, <1>3 DEF AdminInv, ReadInv, ReadOnce
<1>5. OwnTypes'
  <2>1. read' \cup reread' \subseteq Copies
    BY <1>1, <1>3, <1>4 DEF AdminInv, OwnTypes
  <2> QED
    BY <1>1, <1>3, <2>1, TakeTypes DEF AdminInv
<1>6. DlqInv'
  BY <1>1, <1>2, DlqStays DEF AdminInv
<1>7. ReadInv'
  BY <1>1, <1>2, <1>3, <1>4 DEF AdminInv, ReadInv, ReadOnce, NoneAnew
<1> QED
  BY <1>2, <1>5, <1>6, <1>7 DEF AdminInv

LEMMA TakeOverAdmin ==
    ASSUME AdminInv, NEW w \in Workers, NEW q \in Queues, NEW c \in Copies,
           TakeOver(w, q, c)
    PROVE  AdminInv'
<1>1. /\ AutoClaim(q, w, c) /\ Take(w, q, c) /\ UNCHANGED <<read, reread>>
      /\ UNCHANGED <<msgs, delayed, stream, cursor, group, dead, dlq, replaying, dlqHistory>>
      /\ c \in Nat
  BY Bounds DEF TakeOver, AutoClaim, Take, AdminInv
<1>2. BrokerInv' /\ Copies' = Copies
  BY <1>1, AutoClaimKeeps DEF AdminInv, Copies
<1>3. OwnTypes'
  <2>1. read' \cup reread' \subseteq Copies
    BY <1>1 DEF AdminInv, OwnTypes
  <2> QED
    BY <1>1, <2>1, TakeTypes DEF AdminInv
<1>4. DlqInv'
  BY <1>1, <1>2, DlqStays DEF AdminInv
<1>5. ReadInv'
  BY <1>1, SameFresh, ReadStays DEF AdminInv, ReadInv
<1> QED
  BY <1>2, <1>3, <1>4, <1>5 DEF AdminInv

LEMMA TakeOverTrimmedAdmin ==
    ASSUME AdminInv, NEW w \in Workers, NEW q \in Queues, NEW c \in Copies,
           TakeOverTrimmed(w, q, c)
    PROVE  AdminInv'
<1>1. /\ AutoClaimTrimmed(q, c) /\ c \in Nat
      /\ UNCHANGED <<msgs, delayed, stream, cursor, group, dead, dlq>>
      /\ UNCHANGED <<clientVars, adminVars, copyHistory, dlqHistory, purges>>
  BY Bounds DEF TakeOverTrimmed, AutoClaimTrimmed, AdminInv
<1>2. BrokerInv' /\ Copies' = Copies
  BY <1>1, AutoClaimTrimmedKeeps DEF AdminInv, Copies
<1>3. OwnTypes'
  <2>1. discarded' \subseteq Copies'
    BY <1>1, <1>2 DEF AdminInv, OwnTypes, copyHistory
  <2> QED
    BY <1>1, <1>2, <2>1, TypesStay DEF AdminInv, copyHistory
<1>4. DlqInv'
  BY <1>1, <1>2, DlqStays DEF AdminInv, adminVars
<1>5. ReadInv'
  BY <1>1, SameFresh, ReadStays DEF AdminInv, ReadInv, copyHistory
<1> QED
  BY <1>2, <1>3, <1>4, <1>5 DEF AdminInv

LEMMA PromoteAdmin ==
    ASSUME AdminInv, NEW q \in Queues, NEW c \in Copies, Promote(q, c)
    PROVE  AdminInv'
<1>1. /\ MoveReadyDelayed(q, c) /\ c \in Nat /\ UNCHANGED <<msgs, dead, dlq>>
      /\ UNCHANGED <<clientVars, adminVars, copyHistory, dlqHistory, purges>>
  BY Bounds DEF Promote, MoveReadyDelayed, AdminInv
<1>2. BrokerInv' /\ Copies' = Copies
  BY <1>1, MoveReadyDelayedKeeps DEF AdminInv, Copies
<1>3. OwnTypes'
  <2>1. discarded' \subseteq Copies'
    BY <1>1, <1>2 DEF AdminInv, OwnTypes, copyHistory
  <2> QED
    BY <1>1, <1>2, <2>1, TypesStay DEF AdminInv, copyHistory
<1>4. DlqInv'
  BY <1>1, <1>2, DlqStays DEF AdminInv, adminVars
<1>5. ReadInv'
  BY <1>1, PromoteFresh, ReadStays DEF AdminInv, ReadInv, copyHistory
<1> QED
  BY <1>2, <1>3, <1>4, <1>5 DEF AdminInv

\* The consumers' answers.
LEMMA FinishAdmin ==
    ASSUME AdminInv, NEW w \in Workers, NEW q \in Queues, NEW c \in Copies,
           Finish(w, q, c)
    PROVE  AdminInv'
<1>1. /\ Ack(q, c) /\ UNCHANGED <<msgs, delayed, stream, cursor, group, dead, dlq>>
      /\ inhand' \subseteq inhand /\ done' = done \cup {c}
      /\ UNCHANGED <<life, known, adminVars, read, reread, discarded, dlqHistory, purges>>
  BY DEF Finish, Ack
<1>2. BrokerInv' /\ Copies' = Copies
  BY <1>1, AckKeeps DEF AdminInv, Copies
<1>3. OwnTypes'
  BY <1>1, <1>2 DEF AdminInv, OwnTypes, adminVars, dlqHistory
<1>4. DlqInv'
  BY <1>1, <1>2, DlqStays DEF AdminInv, adminVars
<1>5. ReadInv'
  BY <1>1, SameFresh, ReadStays DEF AdminInv, ReadInv
<1> QED
  BY <1>2, <1>3, <1>4, <1>5 DEF AdminInv

\* move_to_dlq() adds one dead letter, the newest; trimming may take any, but none
\* without a limit.
LEMMA DeadLetterAdded ==
    ASSUME BrokerInv, NEW q \in Queues, NEW c \in Copies, MoveToDlq(q, c)
    PROVE  LET d == Len(dead) + 1 IN
           /\ Len(dead') = d /\ DOMAIN dead' = DOMAIN dead \cup {d}
           /\ dead'[d] = [copy |-> c, queue |-> q]
           /\ \A x \in DOMAIN dead : dead'[x] = dead[x]
           /\ \A p \in Queues : p # q => dlq'[p] = dlq[p]
           /\ dlq'[q] \subseteq dlq[q] \cup {d}
           /\ DlqMaxLength = 0 => dlq'[q] = dlq[q] \cup {d}
<1> DEFINE d == Len(dead) + 1
<1>1. dead' = Append(dead, [copy |-> c, queue |-> q]) /\ dead \in Seq(DeadEntry)
  BY DEF MoveToDlq, BrokerInv, BrokerTypeOK
<1>2. PICK S \in DlqAdded(q, d) : dlq' = [dlq EXCEPT ![q] = S]
  BY DEF MoveToDlq
<1>3. S \subseteq dlq[q] \cup {d} /\ (DlqMaxLength = 0 => S = dlq[q] \cup {d})
  BY <1>2 DEF DlqAdded
<1>4. \A p \in Queues : dlq'[p] = IF p = q THEN S ELSE dlq[p]
  BY <1>2 DEF BrokerInv, BrokerTypeOK
<1>5. Len(dead') = d /\ DOMAIN dead' = DOMAIN dead \cup {d}
  <2>1. Len(dead') = d /\ DOMAIN dead' = 1 .. d /\ DOMAIN dead = 1 .. Len(dead) /\ Len(dead) \in Nat
    BY <1>1
  <2> QED
    BY <2>1
<1>6. dead'[d] = [copy |-> c, queue |-> q] /\ \A x \in DOMAIN dead : dead'[x] = dead[x]
  BY <1>1
<1> QED
  BY <1>3, <1>4, <1>5, <1>6

LEMMA FailAdmin ==
    ASSUME AdminInv, NEW w \in Workers, NEW q \in Queues, NEW c \in Copies,
           Fail(w, q, c)
    PROVE  AdminInv'
<1> PICK d : d = Len(dead) + 1
  OBVIOUS
<1>1. /\ MoveToDlq(q, c) /\ UNCHANGED <<msgs, delayed, stream, cursor, group>>
      /\ inhand' \subseteq inhand
      /\ UNCHANGED <<life, known, adminVars, copyHistory, dlqHistory, purges>>
  BY DEF Fail, MoveToDlq
<1>2. BrokerInv' /\ Copies' = Copies
  BY <1>1, MoveToDlqKeeps, Bounds DEF AdminInv, Copies
<1>3. /\ Len(dead') = d /\ DOMAIN dead' = DOMAIN dead \cup {d}
      /\ dead'[d] = [copy |-> c, queue |-> q]
      /\ \A x \in DOMAIN dead : dead'[x] = dead[x]
      /\ \A p \in Queues : p # q => dlq'[p] = dlq[p]
      /\ dlq'[q] \subseteq dlq[q] \cup {d}
      /\ DlqMaxLength = 0 => dlq'[q] = dlq[q] \cup {d}
  BY <1>1, DeadLetterAdded DEF AdminInv
<1>4. /\ Len(dead) \in Nat /\ DOMAIN dead = 1 .. Len(dead)
      /\ 1 .. Len(dead) \subseteq 1 .. Len(dead') /\ d \notin DOMAIN dead
  BY <1>3, Bounds DEF AdminInv
<1>9. dead'[d].copy = c /\ dead'[d].queue = q
  BY <1>3
<1>5. OwnTypes'
  BY <1>1, <1>2, <1>4 DEF AdminInv, OwnTypes, adminVars, copyHistory, dlqHistory
<1>6. DlqInv'
  <2>1. \A x \in DOMAIN dead' : dead'[x].copy \in Copies'
    BY <1>2, <1>3, <1>9 DEF AdminInv, DlqInv
  <2>2. \A p \in Queues : \A x \in dlq'[p] : x \in DOMAIN dead' /\ dead'[x].queue = p
    BY <1>3, <1>9 DEF AdminInv, DlqInv
  <2>3. \A o \in Operators : \A r \in replaying'[o] : dead'[r[2]].queue = r[1]
    BY <1>1, <1>3, <1>4 DEF AdminInv, DlqInv, OwnTypes, adminVars
  <2>4. DeadLettersKept'
    <3> SUFFICES ASSUME DlqMaxLength = 0, NEW x \in DOMAIN dead'
                 PROVE  x \in dlq'[dead'[x].queue] \/ x \in replayed' \cup deleted'
      BY DEF DeadLettersKept
    <3>1. CASE x = d
      BY <1>3, <1>9, <3>1
    <3>2. CASE x \in DOMAIN dead
      <4>1. dead[x].queue \in Queues
        <5>1. dead \in Seq(DeadEntry)
          BY DEF AdminInv, BrokerInv, BrokerTypeOK
        <5>2. dead[x] \in DeadEntry
          BY <3>2, <5>1
        <5> QED
          BY <5>2 DEF DeadEntry
      <4> QED
        BY <1>1, <1>3, <3>2, <4>1
        DEF AdminInv, DlqInv, DlqIsFaithful, DeadLettersKept, dlqHistory
    <3> QED
      BY <1>3, <3>1, <3>2
  <2>5. DlqIsCurrent'
    BY <1>1, <1>3, <1>4
    DEF AdminInv, DlqInv, DlqIsFaithful, DlqIsCurrent, OwnTypes, dlqHistory
  <2> QED
    BY <2>1, <2>2, <2>3, <2>4, <2>5 DEF DlqInv, DlqIsFaithful
<1>7. ReadInv'
  BY <1>1, SameFresh, ReadStays DEF AdminInv, ReadInv, copyHistory
<1> QED
  BY <1>2, <1>5, <1>6, <1>7 DEF AdminInv

\* Crashes and the sweep.
LEMMA DieAdmin ==
    ASSUME AdminInv, NEW w \in Workers, Die(w)
    PROVE  AdminInv'
<1>1. /\ UNCHANGED <<brokerVars, known, adminVars, copyHistory, dlqHistory, purges>>
      /\ life' = [life EXCEPT ![w] = "dead"] /\ inhand' \subseteq inhand
  BY DEF Die
<1>2. BrokerInv' /\ Copies' = Copies /\ UNCHANGED <<dead, dlq, delayed, stream, cursor, group>>
  BY <1>1 DEF AdminInv, BrokerInv, BrokerTypeOK, Placed, At, InStream, Pending, Copies,
              brokerVars
<1>3. OwnTypes'
  BY <1>1, <1>2 DEF AdminInv, OwnTypes, adminVars, copyHistory, dlqHistory
<1>4. DlqInv'
  BY <1>1, <1>2, DlqStays DEF AdminInv, adminVars
<1>5. ReadInv'
  BY <1>1, <1>2, SameFresh, ReadStays DEF AdminInv, ReadInv, copyHistory
<1> QED
  BY <1>2, <1>3, <1>4, <1>5 DEF AdminInv

\* What the two ends of a sweep's list have in common: nothing of the broker changes.
LEMMA ListAdmin ==
    ASSUME AdminInv, stale' \in [Sweepers -> SUBSET (Queues \X Workers)], late' \subseteq late,
           UNCHANGED <<brokerVars, clientVars, replaying, dropped, copyHistory, dlqHistory,
                       purges>>
    PROVE  AdminInv'
<1>1. BrokerInv' /\ Copies' = Copies /\ UNCHANGED <<dead, dlq, delayed, stream, cursor, group>>
  BY DEF AdminInv, BrokerInv, BrokerTypeOK, Placed, At, InStream, Pending, Copies, brokerVars
<1>2. OwnTypes'
  BY <1>1 DEF AdminInv, OwnTypes, clientVars, copyHistory, dlqHistory
<1>3. DlqInv'
  BY <1>1, DlqStays DEF AdminInv
<1>4. ReadInv'
  BY <1>1, SameFresh, ReadStays DEF AdminInv, ReadInv, copyHistory
<1> QED
  BY <1>1, <1>2, <1>3, <1>4 DEF AdminInv

LEMMA SweepListAdmin ==
    ASSUME AdminInv, NEW s \in Sweepers, NEW q \in Queues, SweepList(s, q)
    PROVE  AdminInv'
<1>1. PICK S \in SUBSET LooksStale(q) : stale' = [stale EXCEPT ![s] = {<<q, v>> : v \in S}]
  BY DEF SweepList
<1>2. S \subseteq Workers
  BY <1>1 DEF LooksStale, AdminInv, OwnTypes
<1>3. stale' \in [Sweepers -> SUBSET (Queues \X Workers)]
  BY <1>1, <1>2 DEF AdminInv, OwnTypes
<1> QED
  BY <1>3, ListAdmin DEF SweepList

LEMMA SweepFailsAdmin ==
    ASSUME AdminInv, NEW s \in Sweepers, SweepFails(s)
    PROVE  AdminInv'
<1>1. stale' = [stale EXCEPT ![s] = {}] /\ late' \subseteq late
  BY DEF SweepFails, ForgetLate
<1>2. stale' \in [Sweepers -> SUBSET (Queues \X Workers)]
  BY <1>1 DEF AdminInv, OwnTypes
<1> QED
  BY <1>1, <1>2, ListAdmin DEF SweepFails

LEMMA SweepDeleteAdmin ==
    ASSUME AdminInv, NEW s \in Sweepers, NEW v \in Workers, NEW q \in Queues,
           SweepDelete(s, q, v)
    PROVE  AdminInv'
<1>1. /\ DelConsumer(q, v) /\ UNCHANGED <<msgs, delayed, stream, cursor, group, dead, dlq>>
      /\ stale' = [stale EXCEPT ![s] = @ \ {<<q, v>>}]
      /\ known' = [known EXCEPT ![q] = @ \ {v}]
      /\ dropped' \subseteq dropped \cup Copies /\ late' \subseteq late
      /\ UNCHANGED <<life, inhand, replaying, copyHistory, dlqHistory, purges>>
  BY DEF SweepDelete, DelConsumer, ForgetLate
<1>2. BrokerInv' /\ Copies' = Copies
  BY <1>1, DelConsumerKeeps DEF AdminInv, Copies
<1>3. OwnTypes'
  BY <1>1, <1>2 DEF AdminInv, OwnTypes, copyHistory, dlqHistory
<1>4. DlqInv'
  BY <1>1, <1>2, DlqStays DEF AdminInv
<1>5. ReadInv'
  BY <1>1, SameFresh, ReadStays DEF AdminInv, ReadInv, copyHistory
<1> QED
  BY <1>2, <1>3, <1>4, <1>5 DEF AdminInv

\* The operators.
LEMMA ReplayFindAdmin ==
    ASSUME AdminInv, NEW o \in Operators, NEW q \in Queues, NEW d \in DOMAIN dead,
           ReplayFind(o, q, d)
    PROVE  AdminInv'
<1>1. /\ UNCHANGED <<brokerVars, clientVars, sweepVars, copyHistory, dlqHistory, purges>>
      /\ d \in dlq[q] /\ replaying' = [replaying EXCEPT ![o] = {<<q, d>>}]
  BY DEF ReplayFind, InDlq
<1>2. BrokerInv' /\ Copies' = Copies /\ UNCHANGED <<dead, dlq, delayed, stream, cursor, group>>
  BY <1>1 DEF AdminInv, BrokerInv, BrokerTypeOK, Placed, At, InStream, Pending, Copies,
              brokerVars
<1>3. /\ \A p \in Operators : replaying'[p] = IF p = o THEN {<<q, d>>} ELSE replaying[p]
      /\ replaying' \in [Operators -> SUBSET (Queues \X (1 .. Len(dead)))]
  <2>1. <<q, d>> \in Queues \X (1 .. Len(dead))
    BY Bounds DEF AdminInv
  <2> QED
    BY <1>1, <2>1 DEF AdminInv, OwnTypes
<1>4. OwnTypes'
  BY <1>1, <1>2, <1>3
  DEF AdminInv, OwnTypes, clientVars, sweepVars, copyHistory, dlqHistory
<1>5. DlqInv'
  <2>1. \A p \in Operators : \A r \in replaying'[p] : dead[r[2]].queue = r[1]
    BY <1>1, <1>3 DEF AdminInv, DlqInv
  <2> QED
    BY <1>1, <1>2, <2>1
    DEF AdminInv, DlqInv, DlqIsFaithful, DeadLettersKept, DlqIsCurrent, dlqHistory
<1>6. ReadInv'
  BY <1>1, <1>2, SameFresh, ReadStays DEF AdminInv, ReadInv, copyHistory
<1> QED
  BY <1>2, <1>4, <1>5, <1>6 DEF AdminInv

\* A dead letter of q that leaves the DLQ, being accounted for.
LEMMA LetterLeaves ==
    ASSUME AdminInv, NEW q \in Queues, NEW G \in SUBSET (DOMAIN dead),
           \A d \in G : dead[d].queue = q,
           dead' = dead, dlq' = [dlq EXCEPT ![q] = @ \ G],
           replayed' \cup deleted' = replayed \cup deleted \cup G
    PROVE  DlqIsFaithful'
<1>1. \A p \in Queues : dlq'[p] = IF p = q THEN dlq[p] \ G ELSE dlq[p]
  BY DEF AdminInv, BrokerInv, BrokerTypeOK
<1>2. \A p \in Queues : \A d \in dlq[p] : d \in DOMAIN dead /\ dead[d].queue = p
  BY DEF AdminInv, DlqInv
<1>3. DlqIsCurrent'
  BY <1>1, <1>2 DEF AdminInv, DlqInv, DlqIsFaithful, DlqIsCurrent
<1>4. DeadLettersKept'
  <2> SUFFICES ASSUME DlqMaxLength = 0, NEW d \in DOMAIN dead
               PROVE  d \in dlq'[dead[d].queue] \/ d \in replayed' \cup deleted'
    BY DEF DeadLettersKept
  <2>1. d \in dlq[dead[d].queue] \/ d \in replayed \cup deleted
    BY DEF AdminInv, DlqInv, DlqIsFaithful, DeadLettersKept
  <2>2. dead[d].queue \in Queues
    <3>1. dead \in Seq(DeadEntry)
      BY DEF AdminInv, BrokerInv, BrokerTypeOK
    <3>2. dead[d] \in DeadEntry
      BY <3>1
    <3> QED
      BY <3>2 DEF DeadEntry
  <2> QED
    BY <1>1, <2>1, <2>2
<1> QED
  BY <1>3, <1>4 DEF DlqIsFaithful

\* What a replay adds to the stream.
LEMMA MoveAppends ==
    ASSUME AdminInv, NEW o \in Operators, NEW q \in Queues, NEW d \in DOMAIN dead,
           NEW reset \in BOOLEAN, ReplayMove(o, q, d, reset)
    PROVE  /\ dead[d].copy \in Copies /\ dead[d].queue = q
           /\ BrokerTypeOK' /\ \E m \in Message : Appends(m, q, FALSE)
<1>1. <<q, d>> \in replaying[o] /\ ReplayFromDlq(q, d, reset)
  BY DEF ReplayMove
<1>2. dead[d].copy \in Copies /\ dead[d].queue = q
  BY <1>1 DEF AdminInv, DlqInv
<1> QED
  BY <1>1, <1>2, ReplayAppends DEF AdminInv

LEMMA ReplayMoveAdmin ==
    ASSUME AdminInv, NEW o \in Operators, NEW q \in Queues, NEW d \in DOMAIN dead,
           NEW reset \in BOOLEAN, ReplayMove(o, q, d, reset)
    PROVE  AdminInv'
<1>1. /\ <<q, d>> \in replaying[o] /\ ReplayFromDlq(q, d, reset) /\ NoteTrimmed(q)
      /\ replaying' = [replaying EXCEPT ![o] = {}] /\ replayed' = replayed \cup {d}
      /\ dlq' = [dlq EXCEPT ![q] = @ \ {d}]
      /\ UNCHANGED <<clientVars, sweepVars, deleted, purges, dead, read, reread, done>>
  BY DEF ReplayMove, ReplayFromDlq, NoteTrimmed
<1>2. dead[d].copy \in Copies /\ dead[d].queue = q
  BY MoveAppends
<1>3. BrokerTypeOK' /\ \E m \in Message : Appends(m, q, FALSE)
  BY MoveAppends
<1>4. PICK m \in Message : Appends(m, q, FALSE)
  BY <1>3
<1>5. BrokerInv' /\ Copies \subseteq Copies'
  <2>1. PICK c \in Nat : c = Len(msgs) + 1
    BY Bounds DEF AdminInv
  <2> QED
    BY <1>3, <1>4, <2>1, AppendKeeps DEF AdminInv
<1>6. NoneAnew
  BY <1>4, AppendFresh DEF AdminInv, ReadInv
<1>7. discarded' \subseteq Copies
  BY <1>1, TrimmedAreCopies DEF AdminInv
<1>8. OwnTypes'
  <2>1. /\ replaying' \in [Operators -> SUBSET (Queues \X (1 .. Len(dead)))]
        /\ replayed' \cup deleted' \subseteq 1 .. Len(dead)
    BY <1>1, Bounds DEF AdminInv, OwnTypes
  <2>2. /\ inhand' \subseteq (Workers \X Queues \X Copies')
        /\ read' \cup reread' \cup done' \cup discarded' \subseteq Copies'
        /\ late' \subseteq (Queues \X Workers \X Copies') /\ dropped' \subseteq Copies'
    BY <1>1, <1>5, <1>7 DEF AdminInv, OwnTypes, clientVars, sweepVars
  <2> QED
    BY <1>1, <2>1, <2>2 DEF AdminInv, OwnTypes, clientVars, sweepVars
<1>9. DlqInv'
  <2>1. DlqIsFaithful'
    <3>1. PICK G \in SUBSET (DOMAIN dead) : G = {d}
      OBVIOUS
    <3>2. /\ \A x \in G : dead[x].queue = q
          /\ dlq' = [dlq EXCEPT ![q] = @ \ G]
          /\ replayed' \cup deleted' = replayed \cup deleted \cup G
      BY <1>1, <1>2, <3>1
    <3> QED
      BY <1>1, <3>2, LetterLeaves
  <2>2. \A p \in Operators : replaying'[p] \subseteq replaying[p]
    BY <1>1 DEF AdminInv, OwnTypes
  <2>3. \A p \in Queues : dlq'[p] \subseteq dlq[p]
    BY <1>1 DEF AdminInv, BrokerInv, BrokerTypeOK
  <2> QED
    BY <1>1, <1>5, <2>1, <2>2, <2>3 DEF AdminInv, DlqInv
<1>10. ReadInv'
  BY <1>1, <1>6, ReadStays DEF AdminInv
<1> QED
  BY <1>5, <1>8, <1>9, <1>10 DEF AdminInv

\* What deletions have in common.
LEMMA RemovalAdmin ==
    ASSUME AdminInv, NEW q \in Queues, NEW G \in SUBSET (DOMAIN dead),
           \A d \in G : dead[d].queue = q,
           dlq' = [dlq EXCEPT ![q] = @ \ G], deleted' = deleted \cup G,
           UNCHANGED <<msgs, delayed, stream, cursor, group, pel, dead>>,
           UNCHANGED <<clientVars, adminVars, copyHistory, replayed>>,
           purges' \in 0 .. MaxPurges
    PROVE  AdminInv'
<1>1. dlq' \in [Queues -> SUBSET Nat] /\ \A p \in Queues : dlq'[p] \subseteq dlq[p]
  BY DEF AdminInv, BrokerInv, BrokerTypeOK
<1>2. BrokerInv' /\ Copies' = Copies
  BY <1>1, DlqRemovalKeeps DEF AdminInv, Copies
<1>3. OwnTypes'
  <2>1. deleted' \subseteq 1 .. Len(dead)
    BY Bounds DEF AdminInv, OwnTypes
  <2> QED
    BY <1>2, <2>1 DEF AdminInv, OwnTypes, clientVars, adminVars, copyHistory
<1>4. DlqIsFaithful'
  BY LetterLeaves
<1>5. DlqInv'
  BY <1>1, <1>2, <1>4 DEF AdminInv, DlqInv, adminVars
<1>6. ReadInv'
  BY SameFresh, ReadStays DEF AdminInv, ReadInv, copyHistory
<1> QED
  BY <1>2, <1>3, <1>5, <1>6 DEF AdminInv

LEMMA DeleteAdmin ==
    ASSUME AdminInv, NEW q \in Queues, NEW d \in DOMAIN dead, Delete(q, d)
    PROVE  AdminInv'
<1>1. /\ d \in dlq[q] /\ dlq' = [dlq EXCEPT ![q] = @ \ {d}] /\ deleted' = deleted \cup {d}
      /\ UNCHANGED <<msgs, delayed, stream, cursor, group, pel, dead>>
      /\ UNCHANGED <<clientVars, adminVars, copyHistory, replayed, purges>>
  BY DEF Delete, InDlq, DeleteFromDlq
<1>2. dead[d].queue = q /\ purges' \in 0 .. MaxPurges
  BY <1>1 DEF AdminInv, DlqInv, OwnTypes
<1>3. PICK G \in SUBSET (DOMAIN dead) : G = {d}
  OBVIOUS
<1>4. /\ \A x \in G : dead[x].queue = q
      /\ dlq' = [dlq EXCEPT ![q] = @ \ G] /\ deleted' = deleted \cup G
  BY <1>1, <1>2, <1>3
<1> QED
  BY <1>1, <1>2, <1>4, RemovalAdmin

LEMMA EmptyDlqAdmin ==
    ASSUME AdminInv, NEW q \in Queues, EmptyDlq(q)
    PROVE  AdminInv'
<1>1. /\ dlq' = [dlq EXCEPT ![q] = {}] /\ deleted' = deleted \cup dlq[q]
      /\ UNCHANGED <<msgs, delayed, stream, cursor, group, pel, dead>>
      /\ UNCHANGED <<clientVars, adminVars, copyHistory, replayed>>
      /\ purges < MaxPurges /\ purges' = purges + 1
  BY DEF EmptyDlq, PurgeDlq
<1>2. /\ dlq[q] \in SUBSET (DOMAIN dead) /\ \A d \in dlq[q] : dead[d].queue = q
      /\ dlq' = [dlq EXCEPT ![q] = @ \ dlq[q]]
  BY <1>1 DEF AdminInv, DlqInv, BrokerInv, BrokerTypeOK
<1>3. purges' \in 0 .. MaxPurges
  BY <1>1, AdminAssumption DEF AdminInv, OwnTypes
<1> QED
  BY <1>1, <1>2, <1>3, RemovalAdmin

LEMMA EmptyQueueAdmin ==
    ASSUME AdminInv, NEW q \in Queues, EmptyQueue(q)
    PROVE  AdminInv'
<1>1. /\ PurgeQueue(q) /\ discarded' = discarded \cup Unread(q) \cup Pending(q)
      /\ known' = [known EXCEPT ![q] = {}]
      /\ UNCHANGED <<life, inhand, adminVars, read, reread, done, dlqHistory>>
      /\ purges < MaxPurges /\ purges' = purges + 1
  BY DEF EmptyQueue
<1>2. /\ BrokerInv' /\ UNCHANGED <<msgs, delayed, dead, dlq>> /\ Copies' = Copies
      /\ \A p \in Queues :
            IF p = q THEN Unread(p)' = {} /\ Pending(p)' = {} /\ cursor'[p] = 0
            ELSE /\ stream'[p] = stream[p] /\ cursor'[p] = cursor[p]
                 /\ pel'[p] = pel[p] /\ group'[p] = group[p]
  BY <1>1, PurgeQueueKeeps DEF AdminInv, Copies
<1>3. Unread(q) \cup Pending(q) \subseteq Copies
  <2>1. \A c \in Unread(q) : c \in Nat /\ InStream(q, c)
    BY QueueTypes DEF AdminInv, Unread, InStream
  <2>2. \A c \in Pending(q) : c \in Nat
    BY DEF AdminInv, Pending, BrokerInv, BrokerTypeOK
  <2> QED
    BY <2>1, <2>2 DEF AdminInv, BrokerInv, Placed, At
<1>4. OwnTypes'
  <2>1. purges' \in 0 .. MaxPurges
    BY <1>1, AdminAssumption DEF AdminInv, OwnTypes
  <2> QED
    BY <1>1, <1>2, <1>3, <2>1 DEF AdminInv, OwnTypes, adminVars, dlqHistory
<1>5. DlqInv'
  BY <1>1, <1>2, DlqStays DEF AdminInv, adminVars
<1>6. NoneAnew
  <2>1. \A p \in Queues : Unread(p)' \subseteq Unread(p)
    BY <1>2 DEF Unread
  <2> QED
    BY <1>2, <2>1 DEF AdminInv, ReadInv, NoneAnew, FromStart, Fresh
<1>7. ReadInv'
  BY <1>1, <1>6, ReadStays DEF AdminInv
<1> QED
  BY <1>2, <1>4, <1>5, <1>7 DEF AdminInv

LEMMA NextAdmin == AdminInv /\ [Next]_vars => AdminInv'
<1> SUFFICES ASSUME AdminInv, [Next]_vars PROVE AdminInv'
  OBVIOUS
<1>1. CASE \E t \in Tasks, q \in Queues, later \in BOOLEAN : Send(t, q, later)
  BY <1>1, SendAdmin
<1>2. CASE \E w \in Workers, q \in Queues : Enter(w, q) \/ Read(w, q)
  BY <1>2, EnterAdmin, ReadAdmin
<1>3. CASE \E w \in Workers, q \in Queues, c \in Copies :
              TakeOver(w, q, c) \/ TakeOverTrimmed(w, q, c) \/ Finish(w, q, c) \/ Fail(w, q, c)
  BY <1>3, TakeOverAdmin, TakeOverTrimmedAdmin, FinishAdmin, FailAdmin
<1>4. CASE \E q \in Queues, c \in Copies : Promote(q, c)
  BY <1>4, PromoteAdmin
<1>5. CASE \E w \in Workers : Die(w)
  BY <1>5, DieAdmin
<1>6. CASE \E s \in Sweepers, q \in Queues :
              SweepList(s, q) \/ \E v \in Workers : SweepDelete(s, q, v)
  BY <1>6, SweepListAdmin, SweepDeleteAdmin
<1>11. CASE \E s \in Sweepers : SweepFails(s)
  BY <1>11, SweepFailsAdmin
<1>7. CASE \E o \in Operators, q \in Queues, d \in DOMAIN dead :
              ReplayFind(o, q, d) \/ \E reset \in BOOLEAN : ReplayMove(o, q, d, reset)
  BY <1>7, ReplayFindAdmin, ReplayMoveAdmin
<1>8. CASE \E q \in Queues, d \in DOMAIN dead : Delete(q, d)
  BY <1>8, DeleteAdmin
<1>9. CASE \E q \in Queues : EmptyDlq(q) \/ EmptyQueue(q)
  BY <1>9, EmptyDlqAdmin, EmptyQueueAdmin
<1>10. CASE UNCHANGED vars
  BY <1>10
  DEF vars, brokerVars, clientVars, adminVars, copyHistory, dlqHistory, AdminInv,
      BrokerInv, BrokerTypeOK, Placed, At, InStream, Pending, Copies, OwnTypes, DlqInv,
      DlqIsFaithful, DeadLettersKept, DlqIsCurrent, ReadInv, FromStart, ReadOnce, Fresh, Unread
<1> QED
  BY <1>1, <1>2, <1>3, <1>4, <1>5, <1>6, <1>7, <1>8, <1>9, <1>10, <1>11 DEF Next

--------------------------------------------------------------------------------
(* The sweep.                                                              *)

\* Steps that list nobody and hand out nothing.
LEMMA SweepStays ==
    ASSUME SweepInv, OwnTypes, UNCHANGED <<stale, late>>,
           \A q \in Queues : pel'[q] \subseteq pel[q]
    PROVE  SweepInv'
BY DEF SweepInv, OwnTypes

\* What a listed consumer takes comes late.
LEMMA TakeSweep ==
    ASSUME SweepInv, OwnTypes, NEW w \in Workers, NEW q \in Queues, NEW c \in Copies,
           Take(w, q, c),
           \A p \in Queues : \A e \in pel'[p] :
               e \in pel[p] \/ (p = q /\ e.owner = w /\ e.copy = c)
    PROVE  SweepInv'
<1> SUFFICES ASSUME NEW s \in Sweepers, NEW n \in stale'[s], NEW e \in pel'[n[1]],
                    e.owner = n[2]
             PROVE  <<n[1], n[2], e.copy>> \in late'
  BY DEF SweepInv
<1>1. /\ n \in stale[s] /\ n[1] \in Queues /\ n[2] \in Workers /\ n = <<n[1], n[2]>>
      /\ late' = late \cup {x \in {<<q, w, c>>} : Doomed(q, w)}
  BY DEF Take, OwnTypes
<1>2. CASE e \in pel[n[1]]
  BY <1>1, <1>2 DEF SweepInv
<1>3. CASE n[1] = q /\ n[2] = w /\ e.copy = c
  BY <1>1, <1>3 DEF Doomed
<1> QED
  BY <1>1, <1>2, <1>3

LEMMA ListSweep ==
    ASSUME SweepInv, OwnTypes, NEW s \in Sweepers, NEW q \in Queues, SweepList(s, q)
    PROVE  SweepInv'
<1>1. PICK S \in SUBSET LooksStale(q) : stale' = [stale EXCEPT ![s] = {<<q, v>> : v \in S}]
  BY DEF SweepList
<1>2. UNCHANGED <<pel, late>>
  BY DEF SweepList, brokerVars
<1>3. \A v \in S : \A e \in pel[q] : e.owner # v
  BY <1>1 DEF LooksStale
<1>4. \A u \in Sweepers : \A n \in stale'[u] : n \in stale[u] \/ (n[1] = q /\ n[2] \in S)
  BY <1>1 DEF OwnTypes
<1> QED
  BY <1>2, <1>3, <1>4 DEF SweepInv

\* What is late stays on record as long as its consumer is on a list.
LEMMA UnlistSweep ==
    ASSUME SweepInv, OwnTypes, \A s \in Sweepers : stale'[s] \subseteq stale[s], ForgetLate,
           \A q \in Queues : pel'[q] \subseteq pel[q]
    PROVE  SweepInv'
<1> SUFFICES ASSUME NEW s \in Sweepers, NEW n \in stale'[s], NEW e \in pel'[n[1]],
                    e.owner = n[2]
             PROVE  <<n[1], n[2], e.copy>> \in late'
  BY DEF SweepInv
<1>1. n \in stale[s] /\ n[1] \in Queues /\ n = <<n[1], n[2]>>
  BY DEF OwnTypes
<1>2. <<n[1], n[2], e.copy>> \in late
  BY <1>1 DEF SweepInv
<1>3. Doomed(n[1], n[2])'
  BY <1>1 DEF Doomed
<1> QED
  BY <1>2, <1>3 DEF ForgetLate

LEMMA NextSweep ==
    ASSUME AdminInv, SweepInv, [Next]_vars
    PROVE  SweepInv'
<1>1. CASE UNCHANGED <<stale, late, pel>>
  BY <1>1 DEF SweepInv
<1>2. ASSUME NEW t \in Tasks, NEW q \in Queues, NEW later \in BOOLEAN, Send(t, q, later)
      PROVE  SweepInv'
  BY <1>1, <1>2 DEF Send, Publish, adminVars
<1>3. ASSUME NEW w \in Workers, NEW q \in Queues, Enter(w, q)
      PROVE  SweepInv'
  BY <1>1, <1>3 DEF Enter, EnsureConsumerGroup, adminVars
<1>4. ASSUME NEW w \in Workers, NEW q \in Queues, Read(w, q)
      PROVE  SweepInv'
  <2> PICK c : c = NextUnread(q)
    OBVIOUS
  <2>1. /\ Take(w, q, c) /\ ReadGroup(q, w)
        /\ pel' = [pel EXCEPT ![q] = @ \cup {[copy |-> c, owner |-> w]}]
    BY <1>4 DEF Read, ReadGroup
  <2>2. c \in Copies
    BY <2>1, ReadGroupKeeps DEF AdminInv
  <2>3. \A p \in Queues : \A e \in pel'[p] :
           e \in pel[p] \/ (p = q /\ e.owner = w /\ e.copy = c)
    BY <2>1 DEF AdminInv, BrokerInv, BrokerTypeOK
  <2> QED
    BY <2>1, <2>2, <2>3, TakeSweep DEF AdminInv
<1>5. ASSUME NEW w \in Workers, NEW q \in Queues, NEW c \in Copies, TakeOver(w, q, c)
      PROVE  SweepInv'
  <2>1. /\ Take(w, q, c)
        /\ pel' = [pel EXCEPT
             ![q] = {e \in @ : e.copy # c} \cup {[copy |-> c, owner |-> w]}]
    BY <1>5 DEF TakeOver, AutoClaim
  <2>2. \A p \in Queues : \A e \in pel'[p] :
           e \in pel[p] \/ (p = q /\ e.owner = w /\ e.copy = c)
    BY <2>1 DEF AdminInv, BrokerInv, BrokerTypeOK
  <2> QED
    BY <2>1, <2>2, TakeSweep DEF AdminInv
<1>6. ASSUME NEW q \in Queues, NEW c \in Copies, XAck(q, c) \/ UNCHANGED pel,
             UNCHANGED <<stale, late>>
      PROVE  SweepInv'
  <2>1. \A p \in Queues : pel'[p] \subseteq pel[p]
    BY <1>6 DEF XAck, AdminInv, BrokerInv, BrokerTypeOK
  <2> QED
    BY <1>6, <2>1, SweepStays DEF AdminInv
<1>7. ASSUME NEW w \in Workers, NEW q \in Queues, NEW c \in Copies,
             TakeOverTrimmed(w, q, c) \/ Finish(w, q, c) \/ Fail(w, q, c)
      PROVE  SweepInv'
  BY <1>6, <1>7
  DEF TakeOverTrimmed, AutoClaimTrimmed, Finish, Ack, Fail, MoveToDlq, adminVars
<1>8. ASSUME NEW q \in Queues, NEW c \in Copies, Promote(q, c)
      PROVE  SweepInv'
  BY <1>1, <1>8 DEF Promote, MoveReadyDelayed, adminVars
<1>9. ASSUME NEW w \in Workers, Die(w)
      PROVE  SweepInv'
  BY <1>1, <1>9 DEF Die, brokerVars, adminVars
<1>10. ASSUME NEW s \in Sweepers, NEW q \in Queues, SweepList(s, q)
       PROVE  SweepInv'
  BY <1>10, ListSweep DEF AdminInv
<1>11. ASSUME NEW s \in Sweepers, NEW v \in Workers, NEW q \in Queues, SweepDelete(s, q, v)
       PROVE  SweepInv'
  <2>1. stale' = [stale EXCEPT ![s] = @ \ {<<q, v>>}] /\ DelConsumer(q, v) /\ ForgetLate
    BY <1>11 DEF SweepDelete
  <2>2. \A u \in Sweepers : stale'[u] \subseteq stale[u]
    BY <2>1 DEF AdminInv, OwnTypes
  <2>3. \A p \in Queues : pel'[p] \subseteq pel[p]
    BY <2>1, DelConsumerKeeps DEF AdminInv
  <2> QED
    BY <2>1, <2>2, <2>3, UnlistSweep DEF AdminInv
<1>12. ASSUME NEW s \in Sweepers, SweepFails(s)
       PROVE  SweepInv'
  <2>1. stale' = [stale EXCEPT ![s] = {}] /\ ForgetLate /\ pel' = pel
    BY <1>12 DEF SweepFails, brokerVars
  <2>2. \A u \in Sweepers : stale'[u] \subseteq stale[u]
    BY <2>1 DEF AdminInv, OwnTypes
  <2> QED
    BY <2>1, <2>2, UnlistSweep DEF AdminInv
<1>13. ASSUME NEW o \in Operators, NEW q \in Queues, NEW d \in DOMAIN dead,
              ReplayFind(o, q, d) \/ \E reset \in BOOLEAN : ReplayMove(o, q, d, reset)
       PROVE  SweepInv'
  BY <1>1, <1>13 DEF ReplayFind, ReplayMove, ReplayFromDlq, brokerVars, sweepVars
<1>14. ASSUME NEW q \in Queues, EmptyDlq(q) \/ \E d \in DOMAIN dead : Delete(q, d)
       PROVE  SweepInv'
  BY <1>1, <1>14 DEF EmptyDlq, PurgeDlq, Delete, DeleteFromDlq, adminVars
<1>15. ASSUME NEW q \in Queues, EmptyQueue(q)
       PROVE  SweepInv'
  <2>1. pel' = [pel EXCEPT ![q] = {}] /\ UNCHANGED <<stale, late>>
    BY <1>15 DEF EmptyQueue, PurgeQueue, adminVars
  <2>2. \A p \in Queues : pel'[p] \subseteq pel[p]
    BY <2>1 DEF AdminInv, BrokerInv, BrokerTypeOK
  <2> QED
    BY <2>1, <2>2, SweepStays DEF AdminInv
<1>16. CASE UNCHANGED vars
  BY <1>1, <1>16 DEF vars, brokerVars, adminVars
<1> QED
  BY <1>2, <1>3, <1>4, <1>5, <1>7, <1>8, <1>9, <1>10, <1>11, <1>12, <1>13, <1>14, <1>15,
     <1>16 DEF Next

--------------------------------------------------------------------------------
(* What trimming takes.                                                    *)

\* An XADD that is accounted for: an entry stays in its stream or is discarded.
LEMMA NotedTrim ==
    ASSUME BrokerInv, OwnTypes, NEW m \in Message, NEW q \in Queues,
           NEW later \in BOOLEAN, Appends(m, q, later), NoteTrimmed(q)
    PROVE  /\ \A p \in Queues : \A x : InStream(p, x) => InStream(p, x)' \/ x \in discarded'
           /\ discarded \subseteq discarded'
           /\ \A p \in Queues : delayed[p] \subseteq delayed'[p] /\ pel'[p] = pel[p]
<1> PICK g \in Nat : g = Len(msgs) + 1
  BY Bounds
<1>1. /\ \/ delayed' = [delayed EXCEPT ![q] = @ \cup {g}] /\ UNCHANGED <<stream, cursor>>
         \/ (XAdd(q, g) \/ XAddTrim(q, g)) /\ UNCHANGED delayed
      /\ pel' = pel
  BY DEF Appends
<1>2. \A p \in Queues : p # q => stream'[p] = stream[p]
  <2>1. CASE XAdd(q, g) \/ XAddTrim(q, g)
    BY <2>1, XAddFacts DEF BrokerInv, Shifted
  <2> QED
    BY <1>1, <2>1
<1>3. \A x \in Entries(stream[q]) : x \in Entries(stream'[q]) \/ x \in discarded'
  BY TrimmedAreCopies
<1>4. \A p \in Queues : \A x : InStream(p, x) => InStream(p, x)' \/ x \in discarded'
  BY <1>2, <1>3 DEF InStream, Entries
<1>5. \A p \in Queues : delayed[p] \subseteq delayed'[p]
  BY <1>1 DEF BrokerInv, BrokerTypeOK
<1> QED
  BY <1>1, <1>4, <1>5, TrimmedAreCopies

\* The delayed mover trims nothing.
LEMMA PromoteAdds ==
    ASSUME BrokerInv, NEW q \in Queues, NEW c \in Nat, MoveReadyDelayed(q, c)
    PROVE  /\ \A p \in Queues : \A x : InStream(p, x) => InStream(p, x)'
           /\ \A p \in Queues : \A x \in delayed[p] : x \in delayed'[p] \/ InStream(p, x)'
           /\ pel' = pel
<1>1. /\ delayed' = [delayed EXCEPT ![q] = @ \ {c}]
      /\ stream' = [stream EXCEPT ![q] = Append(@, c)] /\ pel' = pel
      /\ stream[q] \in Seq(Nat) /\ stream \in [Queues -> Seq(Nat)]
      /\ delayed \in [Queues -> SUBSET Nat]
  BY DEF MoveReadyDelayed, XAdd, BrokerInv, BrokerTypeOK
<1>2. /\ \A i \in DOMAIN stream[q] : i \in DOMAIN stream'[q] /\ stream'[q][i] = stream[q][i]
      /\ Len(stream[q]) + 1 \in DOMAIN stream'[q]
      /\ stream'[q][Len(stream[q]) + 1] = c
  <2>1. stream'[q] = Append(stream[q], c)
    BY <1>1
  <2> QED
    BY <1>1, <2>1
<1>3. \A p \in Queues : \A x : InStream(p, x) => InStream(p, x)'
  BY <1>1, <1>2 DEF InStream
<1>4. \A x \in delayed[q] : x \in delayed'[q] \/ InStream(q, x)'
  BY <1>1, <1>2 DEF InStream
<1>5. \A p \in Queues : p # q => delayed'[p] = delayed[p]
  BY <1>1
<1> QED
  BY <1>1, <1>3, <1>4, <1>5

LEMMA TrimStays ==
    ASSUME TrimInv, discarded \subseteq discarded',
           \A q \in Queues : \A x \in Pending(q)' : x \in Pending(q) \/ InStream(q, x)',
           \A q \in Queues : \A x \in Pending(q)' :
               InStream(q, x) => InStream(q, x)' \/ x \in discarded'
    PROVE  TrimInv'
BY DEF TrimInv

\* Steps that leave the streams alone and hand out nothing.
LEMMA TrimSame ==
    ASSUME TrimInv, UNCHANGED <<stream, discarded>>,
           \A q \in Queues : Pending(q)' \subseteq Pending(q)
    PROVE  TrimInv'
BY DEF TrimInv, InStream

LEMMA NextTrim ==
    ASSUME AdminInv, TrimInv, [Next]_vars
    PROVE  TrimInv'
<1>1. ASSUME NEW m \in Message, NEW q \in Queues, NEW later \in BOOLEAN,
             Appends(m, q, later), NoteTrimmed(q)
      PROVE  TrimInv'
  <2>1. \A p \in Queues : Pending(p)' = Pending(p)
    BY <1>1 DEF Appends, Pending
  <2> QED
    BY <1>1, <2>1, NotedTrim, TrimStays DEF AdminInv
<1>2. CASE UNCHANGED <<stream, pel, discarded>>
  BY <1>2 DEF TrimInv, InStream, Pending
<1>3. ASSUME NEW t \in Tasks, NEW q \in Queues, NEW later \in BOOLEAN, Send(t, q, later)
      PROVE  TrimInv'
  <2>1. PICK m \in Message : m = [task |-> t, retries |-> 0]
    BY DEF Message
  <2>2. Appends(m, q, later) /\ NoteTrimmed(q)
    BY <1>3, <2>1 DEF Send, Publish, Appends
  <2> QED
    BY <1>1, <2>2
<1>4. ASSUME NEW q \in Queues,
             (\E w \in Workers : Enter(w, q)) \/ (\E s \in Sweepers : SweepList(s, q))
      PROVE  TrimInv'
  BY <1>2, <1>4 DEF Enter, EnsureConsumerGroup, SweepList, brokerVars, copyHistory
<1>5. ASSUME NEW w \in Workers, NEW q \in Queues, Read(w, q)
      PROVE  TrimInv'
  <2>1. PICK c : c = NextUnread(q)
    OBVIOUS
  <2>2. /\ ReadGroup(q, w) /\ UNCHANGED <<stream, discarded>>
    BY <1>5 DEF Read, ReadGroup, Take
  <2>3. /\ InStream(q, c)
        /\ \A p \in Queues : Pending(p)' = IF p = q THEN Pending(q) \cup {c} ELSE Pending(p)
    BY <2>1, <2>2, ReadFresh DEF AdminInv, ReadInv
  <2> QED
    BY <2>2, <2>3, TrimStays DEF InStream
<1>6. ASSUME NEW w \in Workers, NEW q \in Queues, NEW c \in Copies, TakeOver(w, q, c)
      PROVE  TrimInv'
  <2>1. /\ pel' = [pel EXCEPT
             ![q] = {e \in @ : e.copy # c} \cup {[copy |-> c, owner |-> w]}]
        /\ InStream(q, c) /\ UNCHANGED <<stream, discarded>>
    BY <1>6 DEF TakeOver, AutoClaim, Take
  <2>2. \A p \in Queues : \A x \in Pending(p)' : x \in Pending(p) \/ (p = q /\ x = c)
    BY <2>1 DEF Pending, AdminInv, BrokerInv, BrokerTypeOK
  <2> QED
    BY <2>1, <2>2, TrimStays DEF InStream
<1>7. ASSUME NEW q \in Queues, NEW c \in Copies, XAck(q, c) \/ UNCHANGED pel,
             UNCHANGED <<stream, discarded>>
      PROVE  TrimInv'
  <2>1. \A p \in Queues : Pending(p)' \subseteq Pending(p)
    <3>1. CASE XAck(q, c)
      BY <3>1, XAckFacts DEF AdminInv, BrokerInv
    <3>2. CASE UNCHANGED pel
      BY <3>2 DEF Pending
    <3> QED
      BY <1>7, <3>1, <3>2
  <2> QED
    BY <1>7, <2>1, TrimSame
<1>8. ASSUME NEW w \in Workers, NEW q \in Queues, NEW c \in Copies,
             TakeOverTrimmed(w, q, c) \/ Finish(w, q, c) \/ Fail(w, q, c)
      PROVE  TrimInv'
  BY <1>7, <1>8
  DEF TakeOverTrimmed, AutoClaimTrimmed, Finish, Ack, Fail, MoveToDlq, copyHistory
<1>9. ASSUME NEW q \in Queues, NEW c \in Copies, Promote(q, c)
      PROVE  TrimInv'
  <2>1. /\ MoveReadyDelayed(q, c) /\ c \in Nat /\ discarded' = discarded
    BY <1>9, Bounds DEF Promote, copyHistory, AdminInv
  <2>2. \A p \in Queues : Pending(p)' = Pending(p)
    BY <2>1, PromoteAdds DEF Pending, AdminInv
  <2> QED
    BY <2>1, <2>2, PromoteAdds, TrimStays DEF AdminInv
<1>10. ASSUME NEW w \in Workers, Die(w)
       PROVE  TrimInv'
  BY <1>2, <1>10 DEF Die, brokerVars, copyHistory
<1>11. ASSUME NEW s \in Sweepers, NEW v \in Workers, NEW q \in Queues, SweepDelete(s, q, v)
       PROVE  TrimInv'
  <2>1. DelConsumer(q, v) /\ UNCHANGED <<stream, discarded>>
    BY <1>11 DEF SweepDelete, DelConsumer, copyHistory
  <2>2. \A p \in Queues : Pending(p)' \subseteq Pending(p)
    BY <2>1, DelConsumerKeeps DEF AdminInv, Pending
  <2> QED
    BY <2>1, <2>2, TrimSame
<1>12. ASSUME NEW o \in Operators, NEW q \in Queues, NEW d \in DOMAIN dead, ReplayFind(o, q, d)
       PROVE  TrimInv'
  BY <1>2, <1>12 DEF ReplayFind, brokerVars, copyHistory
<1>13. ASSUME NEW o \in Operators, NEW q \in Queues, NEW d \in DOMAIN dead,
              NEW reset \in BOOLEAN, ReplayMove(o, q, d, reset)
       PROVE  TrimInv'
  <2>1. PICK m \in Message : Appends(m, q, FALSE)
    BY <1>13, MoveAppends
  <2> QED
    BY <1>1, <1>13, <2>1 DEF ReplayMove
<1>14. ASSUME NEW q \in Queues, NEW d \in DOMAIN dead, Delete(q, d)
       PROVE  TrimInv'
  BY <1>2, <1>14 DEF Delete, DeleteFromDlq, copyHistory
<1>15. ASSUME NEW q \in Queues, EmptyDlq(q)
       PROVE  TrimInv'
  BY <1>2, <1>15 DEF EmptyDlq, PurgeDlq, copyHistory
<1>16. ASSUME NEW q \in Queues, EmptyQueue(q)
       PROVE  TrimInv'
  <2>1. /\ PurgeQueue(q) /\ discarded \subseteq discarded'
    BY <1>16 DEF EmptyQueue
  <2>2. \A p \in Queues :
           IF p = q THEN Pending(p)' = {} ELSE stream'[p] = stream[p] /\ pel'[p] = pel[p]
    BY <2>1, PurgeQueueKeeps DEF AdminInv
  <2> QED
    BY <2>1, <2>2, TrimStays DEF Pending, InStream
<1>17. CASE UNCHANGED vars
  BY <1>2, <1>17 DEF vars, brokerVars, copyHistory
<1>18. ASSUME NEW s \in Sweepers, SweepFails(s)
       PROVE  TrimInv'
  BY <1>2, <1>18 DEF SweepFails, brokerVars, copyHistory
<1> QED
  BY <1>3, <1>4, <1>5, <1>6, <1>8, <1>9, <1>10, <1>11, <1>12, <1>13, <1>14, <1>15, <1>16,
     <1>17, <1>18 DEF Next

--------------------------------------------------------------------------------
(* Every copy is accounted for.                                            *)

Answered(x) ==
    x \in done \cup discarded \cup dropped \/ \E d \in DOMAIN dead : dead[d].copy = x

\* Nothing that was acknowledged, dead-lettered, purged, trimmed or dropped is forgotten.
LEMMA AnswersStay ==
    ASSUME AdminInv, [Next]_vars
    PROVE  /\ done \subseteq done' /\ discarded \subseteq discarded'
           /\ dropped \subseteq dropped' /\ \A x : Answered(x) => Answered(x)'
<1>1. dead \in Seq(DeadEntry)
  BY DEF AdminInv, BrokerInv, BrokerTypeOK
<1>2. ASSUME NEW q \in Queues, NEW c, dead' = Append(dead, [copy |-> c, queue |-> q])
      PROVE  /\ \A d \in DOMAIN dead : d \in DOMAIN dead' /\ dead'[d] = dead[d]
             /\ Len(dead) + 1 \in DOMAIN dead' /\ dead'[Len(dead) + 1].copy = c
  BY <1>1, <1>2
<1>3. done \subseteq done' /\ discarded \subseteq discarded' /\ dropped \subseteq dropped'
  BY DEF Next, vars, Send, Enter, Read, TakeOver, Take, TakeOverTrimmed, Finish, Fail, Promote,
         Die, SweepList, SweepDelete, SweepFails, ReplayFind, ReplayMove, Delete, EmptyDlq,
         EmptyQueue, NoteTrimmed, copyHistory, adminVars, sweepVars
<1>4. \/ dead' = dead
      \/ \E w \in Workers, q \in Queues, c \in Copies : Fail(w, q, c)
  <2>1. ASSUME NEW t \in Tasks, NEW q \in Queues, NEW later \in BOOLEAN, Send(t, q, later)
        PROVE  dead' = dead
    BY <2>1 DEF Send, Publish
  <2>2. ASSUME NEW w \in Workers, NEW q \in Queues, Enter(w, q) \/ Read(w, q)
        PROVE  dead' = dead
    BY <2>2 DEF Enter, EnsureConsumerGroup, Read, ReadGroup
  <2>3. ASSUME NEW w \in Workers, NEW q \in Queues, NEW c \in Copies,
               TakeOver(w, q, c) \/ TakeOverTrimmed(w, q, c) \/ Finish(w, q, c)
        PROVE  dead' = dead
    BY <2>3 DEF TakeOver, AutoClaim, TakeOverTrimmed, AutoClaimTrimmed, Finish, Ack
  <2>4. ASSUME NEW s \in Sweepers,
               \/ SweepFails(s)
               \/ \E q \in Queues : SweepList(s, q) \/ \E v \in Workers : SweepDelete(s, q, v)
        PROVE  dead' = dead
    BY <2>4 DEF SweepList, SweepFails, SweepDelete, DelConsumer, brokerVars
  <2>5. ASSUME NEW o \in Operators, NEW q \in Queues, NEW d \in DOMAIN dead,
               ReplayFind(o, q, d) \/ \E reset \in BOOLEAN : ReplayMove(o, q, d, reset)
        PROVE  dead' = dead
    BY <2>5 DEF ReplayFind, ReplayMove, ReplayFromDlq, brokerVars
  <2>6. ASSUME NEW q \in Queues,
               EmptyDlq(q) \/ EmptyQueue(q) \/ \E d \in DOMAIN dead : Delete(q, d)
        PROVE  dead' = dead
    BY <2>6 DEF EmptyDlq, PurgeDlq, EmptyQueue, PurgeQueue, Delete, DeleteFromDlq
  <2>7. CASE UNCHANGED vars
    BY <2>7 DEF vars, brokerVars
  <2>8. CASE \E w \in Workers : Die(w)
    BY <2>8 DEF Die, brokerVars
  <2>9. CASE \E q \in Queues, c \in Copies : Promote(q, c)
    BY <2>9 DEF Promote, MoveReadyDelayed
  <2> QED
    BY <2>1, <2>2, <2>3, <2>4, <2>5, <2>6, <2>7, <2>8, <2>9 DEF Next
<1>5. \A d \in DOMAIN dead : d \in DOMAIN dead' /\ dead'[d] = dead[d]
  BY <1>2, <1>4 DEF Fail, MoveToDlq
<1> QED
  BY <1>3, <1>5 DEF Answered

\* A live copy stays live unless its queue's stream loses it or it is no longer
\* pending.
LEMMA LiveStays ==
    ASSUME BrokerInv, NEW x \in Copies, Live(x), Kept(x)',
           \A p \in Queues : x \in Pending(p) => x \in Pending(p)' \/ Answered(x)',
           \A p \in Queues : x \in delayed[p] => x \in delayed'[p] \/ InStream(p, x)',
           \A p \in Queues : InStream(p, x) => InStream(p, x)' \/ x \in discarded'
    PROVE  Live(x)' \/ Answered(x)'
<1>1. PICK p \in Queues : x \in delayed[p] \/ x \in Unread(p) \/ x \in Pending(p)
  BY DEF Live
<1>2. x \in Unread(p) => InStream(p, x)
  BY QueueTypes DEF Unread, InStream
<1>3. CASE x \in Pending(p)
  BY <1>3 DEF Live
<1>4. CASE x \notin Pending(p)
  <2>1. Trimmed(x)' => x \in discarded'
    BY <1>1, <1>2, <1>4 DEF Trimmed
  <2> QED
    BY <2>1 DEF Kept, Answered
<1> QED
  BY <1>3, <1>4

\* Steps that publish nothing.
LEMMA AccountStays ==
    ASSUME Accounted, \A x : Answered(x) => Answered(x)', Copies' = Copies,
           BrokerMode = ALO => \A x \in Copies : Live(x) => Live(x)' \/ Answered(x)'
    PROVE  Accounted'
BY DEF Accounted, Answered

LEMMA NextAccounted ==
    ASSUME AdminInv, CountInv, [Next]_vars
    PROVE  Accounted'
<1>1. /\ done \subseteq done' /\ discarded \subseteq discarded'
      /\ \A x : Answered(x) => Answered(x)'
      /\ Copies \subseteq Nat
  BY AnswersStay, Bounds DEF AdminInv
<1>2. ASSUME NEW m \in Message, NEW q \in Queues, NEW later \in BOOLEAN,
             BrokerTypeOK', Appends(m, q, later), NoteTrimmed(q)
      PROVE  Accounted'
  <2>1. PICK c \in Nat : c = Len(msgs) + 1
    BY Bounds DEF AdminInv
  <2>2. /\ Copies' = Copies \cup {c} /\ Live(c)'
        /\ \A x \in Copies : Kept(x) => Kept(x)'
    BY <1>2, <2>1, AppendKeeps DEF AdminInv
  <2>3. /\ \A p \in Queues : \A x : InStream(p, x) => InStream(p, x)' \/ x \in discarded'
        /\ \A p \in Queues : delayed[p] \subseteq delayed'[p] /\ Pending(p)' = Pending(p)
    BY <1>2, NotedTrim DEF AdminInv, Pending
  <2>4. \A x \in Copies : Live(x) => Live(x)' \/ Answered(x)'
    BY <2>2, <2>3, LiveStays DEF Kept, AdminInv
  <2> QED
    BY <1>1, <2>2, <2>4 DEF CountInv, Accounted, Answered
<1>3. ASSUME UNCHANGED <<msgs, delayed, stream, cursor, pel>>
      PROVE  Accounted'
  <2>1. Copies' = Copies /\ \A x : Live(x)' = Live(x)
    BY <1>3 DEF Copies, Live, Unread, Pending
  <2> QED
    BY <1>1, <2>1, AccountStays DEF CountInv
<1>4. ASSUME NEW t \in Tasks, NEW q \in Queues, NEW later \in BOOLEAN, Send(t, q, later)
      PROVE  Accounted'
  <2>1. PICK m \in Message : m = [task |-> t, retries |-> 0]
    BY DEF Message
  <2>2. Publish(m, q, later) /\ Appends(m, q, later) /\ NoteTrimmed(q)
    BY <1>4, <2>1 DEF Send, Publish, Appends
  <2> QED
    BY <1>2, <2>2, PublishType DEF AdminInv, BrokerInv
\* Steps that leave the delayed sets and the streams alone and keep what is pending,
\* except that c may be answered for.
<1>5. ASSUME NEW c, UNCHANGED <<msgs, delayed, stream>>,
             \A x \in Copies : x # c /\ Kept(x) => Kept(x)',
             \A p \in Queues : \A x \in Pending(p) : x = c \/ x \in Pending(p)',
             BrokerMode = ALO => Answered(c)'
      PROVE  Accounted'
  <2>1. ASSUME BrokerMode = ALO, NEW x \in Copies, Live(x)
        PROVE  Live(x)' \/ Answered(x)'
    <3>1. CASE x = c
      BY <1>5, <2>1, <3>1
    <3>2. CASE x # c
      <4>1. Kept(x)'
        BY <1>5, <2>1, <3>2 DEF Kept
      <4>2. /\ \A p \in Queues : x \in Pending(p) => x \in Pending(p)'
            /\ \A p \in Queues : x \in delayed[p] => x \in delayed'[p]
            /\ \A p \in Queues : InStream(p, x) => InStream(p, x)'
        BY <1>5, <3>2 DEF InStream
      <4> QED
        BY <2>1, <4>1, <4>2, LiveStays DEF AdminInv
    <3> QED
      BY <3>1, <3>2
  <2> QED
    BY <1>1, <1>5, <2>1, AccountStays DEF CountInv, Copies
<1>6. ASSUME UNCHANGED <<msgs, delayed, stream>>,
             \A x \in Copies : Kept(x) => Kept(x)',
             \A p \in Queues : Pending(p) \subseteq Pending(p)'
      PROVE  Accounted'
  <2>1. ASSUME NEW x \in Copies, Live(x)
        PROVE  Live(x)' \/ Answered(x)'
    <3>1. Kept(x)'
      BY <1>6, <2>1 DEF Kept
    <3>2. \A p \in Queues : InStream(p, x) => InStream(p, x)'
      BY <1>6 DEF InStream
    <3> QED
      BY <1>6, <2>1, <3>1, <3>2, LiveStays DEF AdminInv
  <2> QED
    BY <1>1, <1>6, <2>1, AccountStays DEF CountInv, Copies
<1>7. ASSUME NEW w \in Workers, NEW q \in Queues, Enter(w, q)
      PROVE  Accounted'
  <2>1. EnsureConsumerGroup(q) /\ UNCHANGED <<msgs, delayed, stream, pel>>
    BY <1>7 DEF Enter, EnsureConsumerGroup
  <2> QED
    BY <1>6, <2>1, EnsureConsumerGroupKeeps DEF AdminInv, Pending
<1>8. ASSUME NEW w \in Workers, NEW q \in Queues, Read(w, q)
      PROVE  Accounted'
  <2>1. ReadGroup(q, w) /\ UNCHANGED <<msgs, delayed, stream>>
    BY <1>8 DEF Read, ReadGroup
  <2>2. \A p \in Queues : Pending(p) \subseteq Pending(p)'
    BY <2>1, ReadFresh DEF AdminInv, ReadInv
  <2> QED
    BY <1>6, <2>1, <2>2, ReadGroupKeeps DEF AdminInv
<1>9. ASSUME NEW w \in Workers, NEW q \in Queues, NEW c \in Copies, TakeOver(w, q, c)
      PROVE  Accounted'
  <2>1. /\ AutoClaim(q, w, c) /\ c \in Nat /\ UNCHANGED <<msgs, delayed, stream>>
        /\ pel' = [pel EXCEPT
             ![q] = {e \in @ : e.copy # c} \cup {[copy |-> c, owner |-> w]}]
    BY <1>1, <1>9 DEF TakeOver, AutoClaim
  <2>2. \A p \in Queues : pel'[p] = IF p = q
             THEN {e \in pel[p] : e.copy # c} \cup {[copy |-> c, owner |-> w]}
             ELSE pel[p]
    BY <2>1 DEF AdminInv, BrokerInv, BrokerTypeOK
  <2>3. ASSUME NEW p \in Queues, NEW e \in pel[p]
        PROVE  \E f \in pel'[p] : f.copy = e.copy
    <3>1. CASE p = q /\ e.copy = c
      <4>1. [copy |-> c, owner |-> w] \in pel'[p]
        BY <2>2, <3>1
      <4> QED
        BY <3>1, <4>1
    <3>2. CASE ~(p = q /\ e.copy = c)
      BY <2>2, <3>2
    <3> QED
      BY <3>1, <3>2
  <2>4. \A p \in Queues : Pending(p) \subseteq Pending(p)'
    BY <2>3 DEF Pending
  <2> QED
    BY <1>6, <2>1, <2>4, AutoClaimKeeps DEF AdminInv
<1>10. ASSUME NEW w \in Workers, NEW q \in Queues, NEW c \in Copies, TakeOverTrimmed(w, q, c)
       PROVE  Accounted'
  <2>1. AutoClaimTrimmed(q, c) /\ c \in Nat
    BY <1>1, <1>10 DEF TakeOverTrimmed
  <2>2. XAck(q, c) /\ UNCHANGED <<msgs, delayed, stream>> /\ c \in Pending(q) /\ ~InStream(q, c)
    BY <2>1 DEF AutoClaimTrimmed
  <2>3. \A p \in Queues : \A x \in Pending(p) : x = c \/ x \in Pending(p)'
    BY <2>2, XAckFacts DEF AdminInv, BrokerInv
  <2>4. c \in discarded
    BY <2>2 DEF CountInv, TrimInv
  <2>5. Answered(c)'
    BY <1>1, <2>4 DEF Answered
  <2> QED
    BY <1>5, <2>1, <2>2, <2>3, <2>5, AutoClaimTrimmedKeeps DEF AdminInv
<1>11. ASSUME NEW w \in Workers, NEW q \in Queues, NEW c \in Copies, Finish(w, q, c)
       PROVE  Accounted'
  <2>1. Ack(q, c) /\ UNCHANGED <<msgs, delayed, stream>> /\ done' = done \cup {c}
    BY <1>11 DEF Finish, Ack
  <2>2. \A p \in Queues : \A x \in Pending(p) : x = c \/ x \in Pending(p)'
    <3>1. CASE XAck(q, c)
      BY <3>1, XAckFacts DEF AdminInv, BrokerInv
    <3>2. CASE UNCHANGED pel
      BY <3>2 DEF Pending
    <3> QED
      BY <2>1, <3>1, <3>2 DEF Ack
  <2>3. Answered(c)'
    BY <2>1 DEF Answered
  <2> QED
    BY <1>5, <2>1, <2>2, <2>3, AckKeeps DEF AdminInv
<1>12. ASSUME NEW w \in Workers, NEW q \in Queues, NEW c \in Copies, Fail(w, q, c)
       PROVE  Accounted'
  <2>1. /\ MoveToDlq(q, c) /\ UNCHANGED <<msgs, delayed, stream>> /\ c \in Nat
        /\ dead' = Append(dead, [copy |-> c, queue |-> q])
        /\ XAck(q, c) \/ UNCHANGED pel
    BY <1>1, <1>12 DEF Fail, MoveToDlq
  <2>2. \A p \in Queues : \A x \in Pending(p) : x = c \/ x \in Pending(p)'
    <3>1. CASE XAck(q, c)
      BY <3>1, XAckFacts DEF AdminInv, BrokerInv
    <3>2. CASE UNCHANGED pel
      BY <3>2 DEF Pending
    <3> QED
      BY <2>1, <3>1, <3>2
  <2>3. Answered(c)'
    <3>1. dead \in Seq(DeadEntry)
      BY DEF AdminInv, BrokerInv, BrokerTypeOK
    <3>2. Len(dead) + 1 \in DOMAIN dead' /\ dead'[Len(dead) + 1].copy = c
      BY <2>1, <3>1
    <3> QED
      BY <3>2 DEF Answered
  <2> QED
    BY <1>5, <2>1, <2>2, <2>3, MoveToDlqKeeps DEF AdminInv
<1>13. ASSUME NEW q \in Queues, NEW c \in Copies, Promote(q, c)
       PROVE  Accounted'
  <2>1. MoveReadyDelayed(q, c) /\ c \in Nat /\ msgs' = msgs
    BY <1>1, <1>13 DEF Promote, MoveReadyDelayed
  <2>2. /\ \A p \in Queues : \A x : InStream(p, x) => InStream(p, x)'
        /\ \A p \in Queues : \A x \in delayed[p] : x \in delayed'[p] \/ InStream(p, x)'
        /\ \A p \in Queues : Pending(p)' = Pending(p)
    BY <2>1, PromoteAdds DEF AdminInv, Pending
  <2>3. \A x \in Copies : Kept(x) => Kept(x)'
    BY <2>1, MoveReadyDelayedKeeps DEF AdminInv
  <2>4. \A x \in Copies : Live(x) => Live(x)' \/ Answered(x)'
    BY <2>2, <2>3, LiveStays DEF Kept, AdminInv
  <2> QED
    BY <1>1, <2>1, <2>4, AccountStays DEF CountInv, Copies
<1>14. ASSUME NEW s \in Sweepers, NEW v \in Workers, NEW q \in Queues, SweepDelete(s, q, v)
       PROVE  Accounted'
  <2>1. /\ pel' = [pel EXCEPT ![q] = {e \in @ : e.owner # v}] /\ <<q, v>> \in stale[s]
        /\ UNCHANGED <<msgs, delayed, stream, cursor>>
        /\ {c \in Copies : <<q, v, c>> \in late /\ [copy |-> c, owner |-> v] \in pel[q]}
               \subseteq dropped'
    BY <1>14 DEF SweepDelete, DelConsumer
  <2>2. ASSUME NEW p \in Queues, NEW e \in pel[p]
        PROVE  e \in pel'[p] \/ e.copy \in dropped'
    <3>1. CASE p = q /\ e.owner = v
      <4>1. <<q, v, e.copy>> \in late
        BY <2>1, <2>2, <3>1 DEF CountInv, SweepInv
      <4>2. e.copy \in Nat /\ e = [copy |-> e.copy, owner |-> v]
        BY <2>2, <3>1 DEF AdminInv, BrokerInv, BrokerTypeOK
      <4>3. e.copy \in Copies
        BY <4>1 DEF AdminInv, OwnTypes
      <4> QED
        BY <2>1, <2>2, <3>1, <4>1, <4>2, <4>3
    <3>2. CASE ~(p = q /\ e.owner = v)
      BY <2>1, <2>2, <3>2 DEF AdminInv, BrokerInv, BrokerTypeOK
    <3> QED
      BY <3>1, <3>2
  <2>3. \A x \in Copies : Live(x) => Live(x)' \/ x \in dropped'
    BY <2>1, <2>2 DEF Live, Unread, Pending
  <2> QED
    BY <1>1, <2>1, <2>3, AccountStays DEF CountInv, Copies, Answered
<1>15. ASSUME NEW o \in Operators, NEW q \in Queues, NEW d \in DOMAIN dead,
              NEW reset \in BOOLEAN, ReplayMove(o, q, d, reset)
       PROVE  Accounted'
  <2>1. PICK m \in Message : BrokerTypeOK' /\ Appends(m, q, FALSE)
    BY <1>15, MoveAppends
  <2> QED
    BY <1>2, <1>15, <2>1 DEF ReplayMove
<1>16. ASSUME NEW q \in Queues, EmptyQueue(q)
       PROVE  Accounted'
  <2>1. /\ PurgeQueue(q) /\ Unread(q) \cup Pending(q) \subseteq discarded'
    BY <1>16 DEF EmptyQueue
  <2>2. /\ UNCHANGED <<msgs, delayed>>
        /\ \A p \in Queues :
              p = q \/ (stream'[p] = stream[p] /\ cursor'[p] = cursor[p] /\ pel'[p] = pel[p])
    BY <2>1, PurgeQueueKeeps DEF AdminInv
  <2>3. \A x \in Copies : Live(x) => Live(x)' \/ x \in discarded'
    BY <2>1, <2>2 DEF Live, Unread, Pending
  <2> QED
    BY <1>1, <2>2, <2>3, AccountStays DEF CountInv, Copies, Answered
<1>17. ASSUME NEW s \in Sweepers, SweepFails(s) \/ \E q \in Queues : SweepList(s, q)
       PROVE  Accounted'
  BY <1>3, <1>17 DEF SweepList, SweepFails, brokerVars
<1>18. ASSUME NEW w \in Workers, Die(w)
       PROVE  Accounted'
  BY <1>3, <1>18 DEF Die, brokerVars
<1>19. ASSUME NEW q \in Queues, NEW d \in DOMAIN dead,
              Delete(q, d) \/ \E o \in Operators : ReplayFind(o, q, d)
       PROVE  Accounted'
  BY <1>3, <1>19 DEF Delete, DeleteFromDlq, ReplayFind, brokerVars
<1>20. ASSUME NEW q \in Queues, EmptyDlq(q)
       PROVE  Accounted'
  BY <1>3, <1>20 DEF EmptyDlq, PurgeDlq
<1>21. CASE UNCHANGED vars
  BY <1>3, <1>21 DEF vars, brokerVars
<1> QED
  BY <1>4, <1>7, <1>8, <1>9, <1>10, <1>11, <1>12, <1>13, <1>14, <1>15, <1>16, <1>17, <1>18,
     <1>19, <1>20, <1>21 DEF Next

--------------------------------------------------------------------------------
(* Theorems.                                                               *)

LEMMA AlwaysAdminInv == Spec => []AdminInv
BY InitAdminInv, NextAdmin, PTL DEF Spec

\* The invariant with the account of copies.
LEMMA NextCount == AdminInv /\ CountInv /\ [Next]_vars => CountInv'
<1> SUFFICES ASSUME AdminInv, CountInv, [Next]_vars PROVE CountInv'
  OBVIOUS
<1>1. SweepInv'
  BY NextSweep DEF CountInv
<1>2. TrimInv'
  BY NextTrim DEF CountInv
<1> QED
  BY <1>1, <1>2, NextAccounted DEF CountInv

\* Every consumer, operator and sweep leaves the broker's keys and the bookkeeping
\* around them well formed: what a consumer holds, what a replay has found and what a
\* sweep has listed name copies, dead letters and queues that exist.
THEOREM AdminTypes == Spec => []AdminTypeOK
<1>1. AdminInv => AdminTypeOK
  BY DEF AdminInv, BrokerInv, OwnTypes, AdminTypeOK
<1> QED
  BY <1>1, AlwaysAdminInv, PTL

\* The DLQ shows the dead letters nobody has dealt with and all of them, whatever
\* replays, deletions and purges by several operators come between the two round trips
\* of replay_from_dlq().
THEOREM DlqFaithful == Spec => []DlqIsFaithful
<1>1. AdminInv => DlqIsFaithful
  BY DEF AdminInv, DlqInv
<1> QED
  BY <1>1, AlwaysAdminInv, PTL

\* XREADGROUP ... > returns no copy twice, although purge_queue() destroys the group
\* and consume() creates it anew at 0, in any delivery mode and whatever the sweep does.
THEOREM NothingReadTwice == Spec => []ReadOnce
<1>1. AdminInv => ReadOnce
  BY DEF AdminInv, ReadInv
<1> QED
  BY <1>1, AlwaysAdminInv, PTL

LEMMA AlwaysCountInv == Spec => [](AdminInv /\ CountInv)
<1>1. Init => AdminInv /\ CountInv
  BY InitAdminInv
<1>2. AdminInv /\ CountInv /\ [Next]_vars => AdminInv' /\ CountInv'
  BY NextAdmin, NextCount
<1> QED
  BY <1>1, <1>2, PTL DEF Spec

\* No copy is returned twice as new, and none vanishes by the side effects of
\* administration, but those which a consumer got after a sweep had found it stale and
\* before the sweep deleted it.
THEOREM NoneTwice == Spec => []NoneTwiceNoneLost
<1>1. AdminInv /\ CountInv => NoneTwiceNoneLost
  BY DEF AdminInv, ReadInv, CountInv, NoneTwiceNoneLost
<1> QED
  BY <1>1, AlwaysCountInv, PTL

\* What a step of the sweep or of anybody else does to the names of consumers.
LEMMA NameLeaves ==
    ASSUME AdminInv, SweepInv, [Next]_vars, NEW q \in Queues, NEW v \in Workers,
           group'[q], v \in known[q], v \notin known'[q]
    PROVE  \A e \in pel[q] : e.owner = v => <<q, v, e.copy>> \in late
<1>1. known \in [Queues -> SUBSET Workers] /\ group \in [Queues -> BOOLEAN]
  BY DEF AdminInv, OwnTypes, BrokerInv, BrokerTypeOK
<1>2. known' # known
  OBVIOUS
<1>3. ASSUME NEW w \in Workers, NEW p \in Queues, NEW c, Take(w, p, c)
      PROVE  FALSE
  BY <1>1, <1>3 DEF Take
<1>4. ASSUME NEW p \in Queues, EmptyQueue(p)
      PROVE  FALSE
  <2>1. known' = [known EXCEPT ![p] = {}] /\ group' = [group EXCEPT ![p] = FALSE]
    BY <1>4 DEF EmptyQueue, PurgeQueue
  <2> QED
    BY <1>1, <2>1
<1>5. ASSUME NEW s \in Sweepers, NEW u \in Workers, NEW p \in Queues, SweepDelete(s, p, u)
      PROVE  \A e \in pel[q] : e.owner = v => <<q, v, e.copy>> \in late
  <2>1. <<p, u>> \in stale[s] /\ known' = [known EXCEPT ![p] = @ \ {u}]
    BY <1>5 DEF SweepDelete
  <2>2. p = q /\ u = v
    BY <1>1, <2>1
  <2> QED
    BY <2>1, <2>2 DEF SweepInv
<1>6. CASE UNCHANGED vars
  BY <1>2, <1>6 DEF vars, clientVars
<1>7. ASSUME \/ \E w \in Workers, p \in Queues : Enter(w, p)
             \/ \E s \in Sweepers : SweepFails(s) \/ \E p \in Queues : SweepList(s, p)
      PROVE  FALSE
  BY <1>2, <1>7 DEF Enter, SweepList, SweepFails, clientVars
<1>8. ASSUME NEW w \in Workers, NEW p \in Queues, NEW c \in Copies,
             TakeOverTrimmed(w, p, c) \/ Finish(w, p, c) \/ Fail(w, p, c)
      PROVE  FALSE
  BY <1>2, <1>8 DEF TakeOverTrimmed, Finish, Fail, clientVars
<1>9. ASSUME NEW t \in Tasks, NEW p \in Queues, NEW later \in BOOLEAN, Send(t, p, later)
      PROVE  FALSE
  BY <1>2, <1>9 DEF Send, clientVars
<1>10. ASSUME NEW p \in Queues, EmptyDlq(p) \/ \E c \in Copies : Promote(p, c)
       PROVE  FALSE
  BY <1>2, <1>10 DEF EmptyDlq, Promote, clientVars
<1>11. ASSUME NEW o \in Operators, NEW p \in Queues, NEW d \in DOMAIN dead,
              ReplayFind(o, p, d) \/ \E reset \in BOOLEAN : ReplayMove(o, p, d, reset)
       PROVE  FALSE
  BY <1>2, <1>11 DEF ReplayFind, ReplayMove, clientVars
<1>12. ASSUME NEW p \in Queues, NEW d \in DOMAIN dead, Delete(p, d)
       PROVE  FALSE
  BY <1>2, <1>12 DEF Delete, clientVars
<1>13. ASSUME NEW w \in Workers, Die(w)
       PROVE  FALSE
  BY <1>2, <1>13 DEF Die
<1> QED
  BY <1>3, <1>4, <1>5, <1>6, <1>7, <1>8, <1>9, <1>10, <1>11, <1>12, <1>13
  DEF Next, Read, TakeOver

\* A sweep takes no entry along but those which its consumer got since XINFO had shown it
\* without any: whatever reads, claims, acknowledgements, purges, crashes and other sweeps
\* come between XINFO CONSUMERS and XGROUP DELCONSUMER.
THEOREM SweepDropsLate == Spec => SweepDropsOnlyLate
<1>1. AdminInv /\ CountInv /\ [Next]_vars =>
        \A q \in Queues, v \in Workers :
            group'[q] /\ v \in known[q] \ known'[q]
                => \A e \in pel[q] : e.owner = v => <<q, v, e.copy>> \in late
  BY NameLeaves DEF CountInv
<1> QED
  BY <1>1, AlwaysCountInv, PTL DEF Spec, SweepDropsOnlyLate
================================================================================
