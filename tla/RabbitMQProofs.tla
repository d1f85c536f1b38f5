----------------------------- MODULE RabbitMQProofs -----------------------------
(***************************************************************************)
(* The RabbitMQ queue keeps its promises for every number of tasks,        *)
(* workers, lanes, operators, channels and faults: no message is lost, a   *)
(* calm run handles each one once, the DLQ operations hide nothing, and    *)
(* at-least-once delivery is what AtLeastOnce says it is.                  *)
(***************************************************************************)
EXTENDS RabbitMQBroker, FiniteSetTheorems, SequenceTheorems, WellFoundedInduction, TLAPS

Message == [task : Tasks, retries : Nat]
Handler == [at : HandlerAt, copy : Nat, tag : {"live", "settled", "lost"}]
Operation == [at : {"idle", "acquire"} \cup OpAt, kind : {"none", "replay", "delete", "list"},
              task : Tasks \cup {"none"}, chan : Channels \cup {"none"},
              got : SUBSET Nat, target : Nat, n : Nat]

Busy(s) == hand[s].at # "free"
Live(s) == hand[s].tag = "live"

Histories ==
    /\ timedOut \in BOOLEAN
    /\ succeeded \subseteq Tasks /\ failed \subseteq Tasks /\ gone \subseteq Tasks
    /\ ran \subseteq Copies /\ reran \subseteq ran
    /\ closes \in Nat /\ ops \in Nat /\ closes + ops <= MaxEvents

Types ==
    /\ msgs \in Seq(Message)
    /\ main \in Seq(Copies) /\ delayed \in Seq(Copies) /\ dlq \in Seq(Copies)
    /\ held \in [Holders -> SUBSET Copies]
    /\ hand \in [Slots -> Handler]
    /\ oper \in [Operators -> Operation]
    /\ Histories

\* A copy is in one queue, once.
QueuesApart ==
    /\ In(main) \cap In(delayed) = {}
    /\ In(main) \cap In(dlq) = {}
    /\ In(delayed) \cap In(dlq) = {}
    /\ \A i, j \in DOMAIN delayed : delayed[i] = delayed[j] => i = j

\* Workers hold copies of the main queue, DLQ operations those of the DLQ.
HeldApart ==
    /\ \A w \in Workers : held[w] \subseteq In(main) /\ Cardinality(held[w]) <= Prefetch
    /\ \A k \in Channels : held[k] \subseteq In(dlq)
    /\ \A g, h \in Holders : g # h => held[g] \cap held[h] = {}

\* Where a handler has run its function.
AfterRun == {"store", "ack", "republish", "retry_ack", "dead_letter", "manual"}

\* What the place of a handler says of its message.
Hands ==
    /\ \A s \in Slots : Busy(s) => hand[s].copy \in Copies \ In(delayed)
    /\ \A s \in Slots : Live(s) => Busy(s) /\ hand[s].copy \in held[s[1]]
    /\ \A s \in Slots : hand[s].at = "manual" => ~Live(s)
    /\ \A s \in Slots : hand[s].at = "early_ack" => ModeOf[TaskOf(hand[s].copy)] = AMO
    /\ \A s \in Slots : hand[s].at = "ack" => TaskOf(hand[s].copy) \in succeeded
    /\ \A s \in Slots : hand[s].at \in AfterRun => hand[s].copy \in ran
    /\ \A s, r \in Slots : s # r /\ Live(s) /\ Live(r) => hand[s].copy # hand[r].copy

\* What the place of a DLQ operation says of its channel and of what it has fetched.
Opers ==
    /\ \A o \in Operators : HasChannel(o) => oper[o].chan \in Channels
                                         /\ Fetched(o) \subseteq held[oper[o].chan]
    /\ \A o \in Operators : ~HasChannel(o) => oper[o].got = {} /\ oper[o].target = 0
    /\ \A o \in Operators : oper[o].at = "scan" => oper[o].target = 0
    /\ \A o \in Operators : oper[o].at \in {"publish", "settle"} => oper[o].target # 0
    /\ \A o \in Operators : oper[o].target # 0 => /\ oper[o].task = TaskOf(oper[o].target)
                                                 /\ oper[o].target \notin oper[o].got
    /\ \A o, q \in Operators :
          HasChannel(o) /\ HasChannel(q) /\ o # q => oper[o].chan # oper[q].chan

Shape == Types /\ QueuesApart /\ HeldApart /\ Hands /\ Opers

\* A younger copy of the same task is in a queue, or the task needs none.
Excused(t) == t \in succeeded \cup gone
Younger(c) == \E d \in Placed : d > c /\ TaskOf(d) = TaskOf(c)
Spare(c) == ModeOf[TaskOf(c)] = ALO => Excused(TaskOf(c)) \/ Younger(c)

\* What is about to be acknowledged because it was published again is spare.
LossInv ==
    /\ NoLoss
    /\ \A s \in Slots : hand[s].at = "retry_ack" => Spare(hand[s].copy)
    /\ \A o \in Operators : oper[o].at = "settle" => Spare(oper[o].target)

\* The copies that are in a queue or in the hands of a worker.
Alive == Placed \cup {hand[s].copy : s \in {r \in Slots : Busy(r)}}

\* Without a fault: what a handler may do with its delivery, who has a copy that was
\* run, and which copies of a task are alive.
TagsTell ==
    \A s \in Slots : Busy(s) =>
        (Live(s) <=> ModeOf[TaskOf(hand[s].copy)] = ALO \/ hand[s].at = "early_ack")
OneHandler == \A s, r \in Slots : s # r /\ Busy(s) /\ Busy(r) => hand[s].copy # hand[r].copy
SettledGone == \A s \in Slots : Busy(s) /\ ~Live(s) => hand[s].copy \notin Placed
FreshRuns == \A s \in Slots : Busy(s) /\ hand[s].at \notin AfterRun => hand[s].copy \notin ran
RanHeld ==
    /\ ran \cap In(delayed) = {}
    /\ \A c \in ran \cap In(main) : \E s \in Slots : Live(s) /\ hand[s].copy = c
OneAlive == \A c, d \in Alive : c < d /\ TaskOf(c) = TaskOf(d) => c \in Replaced

Faultless ==
    TagsTell /\ OneHandler /\ SettledGone /\ FreshRuns /\ RanHeld /\ reran = {} /\ OneAlive

CalmInv == Calm => Faultless

\* What is concluded was dispatched.
Known == \A t \in succeeded \cup failed : Dispatched(t)

RInv == Shape /\ LossInv /\ Known

--------------------------------------------------------------------------------
(* Queues.                                                                 *)

\* A non-empty set of naturals has a least element.
LEMMA Least ==
    ASSUME NEW T, T \subseteq Nat, T # {}
    PROVE  \E m \in T : \A n \in T : m <= n
<1> DEFINE R == OpToRel(<, Nat)
<1>1. \E x \in T : \A y \in T : <<y, x>> \notin R
  <2> HIDE DEF R
  <2>1. IsWellFoundedOn(R, Nat)
    BY NatLessThanWellFounded DEF R
  <2> QED
    BY <2>1, WFMin
<1>2. R = {ss \in Nat \X Nat : ss[1] < ss[2]}
  BY DEF OpToRel
<1> HIDE DEF R
<1>3. \A x, y \in Nat : <<y, x>> \in R <=> y < x
  BY <1>2
<1>4. \A x, y \in Nat : ~(y < x) => x <= y
  OBVIOUS
<1> QED
  BY <1>1, <1>3, <1>4

LEMMA FiniteNats ==
    ASSUME NEW L \in Nat, NEW K, K \subseteq 1..L
    PROVE  IsFiniteSet(K) /\ Cardinality(K) \in Nat
<1>1. IsFiniteSet(1..L)
  BY FS_Interval
<1> QED
  BY <1>1, FS_Subset, FS_CardinalityType

\* The members of a finite set of positive naturals have the ranks 1, 2, 3 and so on,
\* each one its own.
LEMMA Ranks ==
    ASSUME NEW K, NEW L \in Nat, K \subseteq 1..L
    PROVE  LET rank(i) == Cardinality({j \in K : j <= i})
           IN  /\ \A k \in K : rank(k) \in 1..Cardinality(K)
               /\ \A k, l \in K : rank(k) = rank(l) => k = l
               /\ \A n \in 1..Cardinality(K) : \E k \in K : rank(k) = n
<1> DEFINE upto(i) == {j \in K : j <= i}
           rank(i) == Cardinality(upto(i))
<1>1. IsFiniteSet(K) /\ Cardinality(K) \in Nat
  BY FiniteNats
<1>2. \A i : IsFiniteSet(upto(i)) /\ rank(i) \in Nat /\ rank(i) <= Cardinality(K)
  <2> TAKE i
  <2>1. upto(i) \subseteq K
    OBVIOUS
  <2> HIDE DEF upto
  <2> QED
    BY <2>1, <1>1, FS_Subset, FS_CardinalityType
<1>3. \A i \in Int : i \in K => upto(i) = upto(i - 1) \cup {i} /\ i \notin upto(i - 1)
  <2> TAKE i \in Int
  <2>1. \A j \in K : j <= i <=> j <= i - 1 \/ j = i
    OBVIOUS
  <2>2. ~(i <= i - 1)
    OBVIOUS
  <2> QED
    BY <2>1, <2>2
<1>4. \A i \in Int : i \notin K => upto(i) = upto(i - 1)
  <2> TAKE i \in Int
  <2>1. \A j \in K : j <= i <=> j <= i - 1 \/ j = i
    OBVIOUS
  <2> QED
    BY <2>1
<1>5. \A i \in Int : rank(i) = IF i \in K THEN rank(i - 1) + 1 ELSE rank(i - 1)
  <2> TAKE i \in Int
  <2>1. CASE i \in K
    <3>1. upto(i) = upto(i - 1) \cup {i} /\ i \notin upto(i - 1)
      BY <2>1, <1>3
    <3>2. IsFiniteSet(upto(i - 1))
      BY <1>2
    <3> HIDE DEF upto
    <3> QED
      BY <2>1, <3>1, <3>2, FS_AddElement
  <2>2. CASE i \notin K
    BY <2>2, <1>4
  <2> QED
    BY <2>1, <2>2
<1>6. \A k, l \in K : k < l => rank(k) < rank(l)
  <2> TAKE k, l \in K
  <2> HAVE k < l
  <2>1. upto(k) \subseteq upto(l - 1)
    <3>1. \A j \in K : j <= k => j <= l - 1
      OBVIOUS
    <3> QED
      BY <3>1
  <2>2. rank(k) <= rank(l - 1)
    BY <2>1, <1>2, FS_Subset
  <2>3. rank(l) = rank(l - 1) + 1
    BY <1>5
  <2>4. rank(k) \in Nat /\ rank(l - 1) \in Nat
    BY <1>2
  <2> HIDE DEF rank
  <2> QED
    BY <2>2, <2>3, <2>4
<1>7. \A k \in K : rank(k) # 0
  <2> TAKE k \in K
  <2>1. k \in upto(k)
    OBVIOUS
  <2> QED
    BY <2>1, <1>2, FS_EmptySet
<1>8. upto(0) = {} /\ upto(L) = K
  <2>1. \A j \in K : ~(j <= 0) /\ j <= L
    OBVIOUS
  <2> QED
    BY <2>1
<1>9. rank(0) = 0 /\ rank(L) = Cardinality(K)
  BY <1>8, FS_EmptySet
<1>10. \A n \in 1..Cardinality(K) : \E k \in K : rank(k) = n
  <2> TAKE n \in 1..Cardinality(K)
  <2> DEFINE T == {i \in 0..L : rank(i) >= n}
  <2> HIDE DEF rank, upto
  <2>1. L \in T /\ 0 \notin T
    BY <1>1, <1>9
  <2>2. PICK k \in T : \A i \in T : k <= i
    BY <2>1, Least, T \subseteq Nat
  <2>3. k \in 1..L /\ k - 1 \notin T /\ k - 1 \in 0..L
    BY <2>1, <2>2
  <2>4. rank(k - 1) < n /\ rank(k) >= n
    BY <2>2, <2>3, <1>2, <1>1
  <2>5. k \in K
    BY <2>3, <2>4, <1>5
  <2>6. rank(k) = n
    BY <2>3, <2>4, <2>5, <1>5, <1>2
  <2> QED
    BY <2>5, <2>6
<1>11. \A k \in K : rank(k) \in 1..Cardinality(K)
  <2> HIDE DEF rank, upto
  <2> QED
    BY <1>1, <1>2, <1>7
<1>12. \A k, l \in K : rank(k) = rank(l) => k = l
  <2> HIDE DEF rank, upto
  <2> QED
    BY <1>2, <1>6
<1> QED
  BY <1>10, <1>11, <1>12

\* Without(q, S) is a queue of the copies of q that are not in S.
LEMMA WithoutIn ==
    ASSUME NEW X, NEW q \in Seq(X), NEW S
    PROVE  Without(q, S) \in Seq(X) /\ In(Without(q, S)) = In(q) \ S
<1> DEFINE kept == {i \in DOMAIN q : q[i] \notin S}
           rank(i) == Cardinality({j \in kept : j <= i})
           at(n) == CHOOSE i \in kept : rank(i) = n
           N == Cardinality(kept)
<1>1. kept \subseteq 1..Len(q) /\ Len(q) \in Nat /\ DOMAIN q = 1..Len(q)
  OBVIOUS
<1>2. N \in Nat
  <2> HIDE DEF kept
  <2> QED
    BY <1>1, FiniteNats
<1>3. /\ \A k \in kept : rank(k) \in 1..N
      /\ \A k, l \in kept : rank(k) = rank(l) => k = l
      /\ \A n \in 1..N : \E k \in kept : rank(k) = n
  <2> HIDE DEF kept
  <2> QED
    BY <1>1, Ranks
<1>4. \A n \in 1..N : at(n) \in kept /\ rank(at(n)) = n
  <2> HIDE DEF kept, N, rank
  <2> QED
    BY <1>3
<1>5. \A k \in kept : rank(k) \in 1..N /\ at(rank(k)) = k
  <2> HIDE DEF kept, N, rank, at
  <2> QED
    BY <1>3, <1>4
<1> DEFINE rest == [n \in 1..N |-> q[at(n)]]
<1>6. Without(q, S) = IF kept = DOMAIN q THEN q ELSE rest
  BY DEF Without
<1>7. \A i \in kept : q[i] \in X /\ q[i] \notin S /\ q[i] \in In(q)
  BY <1>1 DEF In, ToSet
<1>8. \A x \in In(q) \ S : \E i \in kept : x = q[i]
  BY DEF In, ToSet
<1>9. kept = DOMAIN q => In(q) = In(q) \ S
  BY DEF In, ToSet
<1> HIDE DEF kept, N, rank, at
<1>10. rest \in Seq(X)
  BY <1>2, <1>4, <1>7
<1>11. In(rest) = {q[at(n)] : n \in 1..N}
  BY DEF In, ToSet
<1>12. In(rest) = In(q) \ S
  BY <1>4, <1>5, <1>7, <1>8, <1>11
<1> QED
  BY <1>6, <1>9, <1>10, <1>12

\* Where a queue is not empty its head is in it.
LEMMA HeadIn ==
    ASSUME NEW X, NEW q \in Seq(X), q # <<>>
    PROVE  Head(q) \in In(q) /\ Head(q) \in X
BY DEF In, ToSet

LEMMA AppendIn ==
    ASSUME NEW X, NEW q \in Seq(X), NEW c \in X
    PROVE  Append(q, c) \in Seq(X) /\ In(Append(q, c)) = In(q) \cup {c}
<1>1. /\ Append(q, c) \in Seq(X) /\ Len(Append(q, c)) = Len(q) + 1
      /\ DOMAIN Append(q, c) = 1..(Len(q) + 1) /\ DOMAIN q = 1..Len(q)
  OBVIOUS
<1>2. /\ \A i \in 1..Len(q) : Append(q, c)[i] = q[i]
      /\ Append(q, c)[Len(q) + 1] = c
  OBVIOUS
<1>3. Len(q) \in Nat
  OBVIOUS
<1>4. \A i \in 1..(Len(q) + 1) : i \in 1..Len(q) \/ i = Len(q) + 1
  BY <1>3
<1>5. In(Append(q, c)) \subseteq In(q) \cup {c}
  BY <1>1, <1>2, <1>4 DEF In, ToSet
<1>6. In(q) \subseteq In(Append(q, c)) /\ c \in In(Append(q, c))
  <2>1. 1..Len(q) \subseteq 1..(Len(q) + 1) /\ Len(q) + 1 \in 1..(Len(q) + 1)
    BY <1>3
  <2> QED
    BY <1>1, <1>2, <2>1 DEF In, ToSet
<1> QED
  BY <1>1, <1>5, <1>6

LEMMA TailIn ==
    ASSUME NEW X, NEW q \in Seq(X), q # <<>>
    PROVE  Tail(q) \in Seq(X) /\ In(q) = In(Tail(q)) \cup {Head(q)}
<1>1. /\ Tail(q) \in Seq(X) /\ Len(Tail(q)) = Len(q) - 1 /\ Len(q) \in Nat \ {0}
      /\ DOMAIN Tail(q) = 1..(Len(q) - 1) /\ DOMAIN q = 1..Len(q)
  OBVIOUS
<1>2. \A i \in 1..(Len(q) - 1) : Tail(q)[i] = q[i + 1]
  OBVIOUS
<1>3. \A i \in 1..Len(q) : i = 1 \/ (i - 1 \in 1..(Len(q) - 1) /\ q[i] = Tail(q)[i - 1])
  BY <1>1, <1>2
<1>4. Head(q) = q[1] /\ 1 \in 1..Len(q)
  BY <1>1
<1>5. \A i \in 1..(Len(q) - 1) : i + 1 \in 1..Len(q)
  BY <1>1
<1>6. /\ In(q) = {q[i] : i \in 1..Len(q)}
      /\ In(Tail(q)) = {Tail(q)[i] : i \in 1..(Len(q) - 1)}
  BY <1>1 DEF In, ToSet
<1>7. In(q) \subseteq In(Tail(q)) \cup {Head(q)}
  BY <1>3, <1>4, <1>6
<1>8. In(Tail(q)) \subseteq In(q) /\ Head(q) \in In(q)
  BY <1>2, <1>4, <1>5, <1>6
<1> QED
  BY <1>1, <1>7, <1>8

--------------------------------------------------------------------------------
(* What the helpers of the actions do.                                     *)

HeldCopies == UNION {held[h] : h \in Holders}

LEMMA ReadyIn ==
    ASSUME Types, NEW X, NEW q \in Seq(X)
    PROVE  /\ Ready(q) \in Seq(X) /\ In(Ready(q)) = In(q) \ HeldCopies
           /\ Ready(q) # <<>> => Head(Ready(q)) \in In(q) \ HeldCopies
<1>1. Ready(q) = Without(q, HeldCopies)
  BY DEF Ready, HeldCopies
<1>2. Ready(q) \in Seq(X) /\ In(Ready(q)) = In(q) \ HeldCopies
  BY <1>1, WithoutIn
<1> QED
  BY <1>2, HeadIn

LEMMA CopiesAre ==
    ASSUME Types
    PROVE  /\ Copies = 1..Len(msgs) /\ Len(msgs) \in Nat /\ Copies \subseteq Nat \ {0}
           /\ \A c \in Copies : msgs[c] \in Message /\ TaskOf(c) \in Tasks
           /\ Len(msgs) + 1 \notin Copies
<1>1. msgs \in Seq(Message)
  BY DEF Types
<1>2. Copies = 1..Len(msgs) /\ Len(msgs) \in Nat /\ \A c \in 1..Len(msgs) : msgs[c] \in Message
  BY <1>1 DEF Copies
<1>3. Copies \subseteq Nat \ {0} /\ Len(msgs) + 1 \notin Copies
  BY <1>2
<1>4. \A m \in Message : m.task \in Tasks
  BY DEF Message
<1> QED
  BY <1>2, <1>3, <1>4 DEF TaskOf

LEMMA InCopies ==
    ASSUME Types
    PROVE  /\ In(main) \subseteq Copies /\ In(delayed) \subseteq Copies
           /\ In(dlq) \subseteq Copies /\ Placed \subseteq Copies
<1>1. \A q \in Seq(Copies) : In(q) \subseteq Copies
  BY DEF In, ToSet
<1> QED
  BY <1>1 DEF Types, Placed

\* A message that is appended to the log gets a number of its own.
Appended(m) ==
    /\ msgs' \in Seq(Message)
    /\ Copies' = Copies \cup {Len(msgs) + 1}
    /\ Len(msgs) + 1 \notin Copies
    /\ \A c \in Copies : msgs'[c] = msgs[c] /\ c < Len(msgs) + 1
    /\ msgs'[Len(msgs) + 1] = m

LEMMA AppendMessage ==
    ASSUME Types, NEW m \in Message, msgs' = Append(msgs, m)
    PROVE  Appended(m)
<1>1. msgs \in Seq(Message)
  BY DEF Types
<1>2. /\ Append(msgs, m) \in Seq(Message) /\ Len(Append(msgs, m)) = Len(msgs) + 1
      /\ DOMAIN Append(msgs, m) = 1..(Len(msgs) + 1) /\ DOMAIN msgs = 1..Len(msgs)
      /\ Len(msgs) \in Nat
  BY <1>1
<1>3. /\ \A i \in 1..Len(msgs) : Append(msgs, m)[i] = msgs[i]
      /\ Append(msgs, m)[Len(msgs) + 1] = m
  BY <1>1
<1>4. 1..(Len(msgs) + 1) = 1..Len(msgs) \cup {Len(msgs) + 1}
  BY <1>2
<1> QED
  BY <1>2, <1>3, <1>4 DEF Appended, Copies

\* publish() appends one copy to the main queue or to the delayed one.
Published(m) ==
    LET n == Len(msgs) + 1 IN
    /\ Appended(m)
    /\ main' \in Seq(Copies') /\ delayed' \in Seq(Copies') /\ dlq' \in Seq(Copies')
    /\ dlq' = dlq
    /\ \/ In(main)' = In(main) \cup {n} /\ delayed' = delayed
       \/ main' = main /\ delayed' = Append(delayed, n)
                       /\ In(delayed)' = In(delayed) \cup {n}

LEMMA PublishDoes ==
    ASSUME Types, NEW m \in Message, NEW later \in BOOLEAN, Publish(m, later)
    PROVE  Published(m)
<1> DEFINE n == Len(msgs) + 1
<1>1. Appended(m)
  BY AppendMessage DEF Publish
<1>2. Copies \subseteq Copies' /\ n \in Copies'
  BY <1>1 DEF Appended
<1>3. main \in Seq(Copies') /\ delayed \in Seq(Copies') /\ dlq \in Seq(Copies')
  BY <1>2, SeqMonotonic DEF Types
<1>4. dlq' = dlq
  BY DEF Publish
<1>5. CASE later
  <2>1. delayed' = Append(delayed, n) /\ main' = main
    BY <1>5 DEF Publish
  <2>2. delayed' \in Seq(Copies') /\ In(delayed') = In(delayed) \cup {n}
    BY <2>1, <1>2, <1>3, AppendIn
  <2> QED
    BY <2>1, <2>2, <1>1, <1>3, <1>4 DEF Published, In
<1>6. CASE ~later
  <2>1. main' = Append(main, n) /\ delayed' = delayed
    BY <1>6 DEF Publish
  <2>2. main' \in Seq(Copies') /\ In(main') = In(main) \cup {n}
    BY <2>1, <1>2, <1>3, AppendIn
  <2> QED
    BY <2>1, <2>2, <1>1, <1>3, <1>4 DEF Published, In
<1> QED
  BY <1>5, <1>6

\* A copy enters the DLQ; what leaves it is purged.
EntersDlq(c) ==
    /\ dlq' \in Seq(Copies')
    /\ \E dropped \in SUBSET (In(dlq) \ HeldCopies) :
          /\ In(dlq)' = (In(dlq) \ dropped) \cup {c}
          /\ gone' = gone \cup {TaskOf(d) : d \in dropped}

LEMMA AddToDlqDoes ==
    ASSUME Types, NEW c \in Copies', Copies \subseteq Copies', AddToDlq(c)
    PROVE  EntersDlq(c)
<1> DEFINE dropped == IF DlqMaxLength # 0 /\ Len(Ready(dlq)) >= DlqMaxLength
                      THEN {Head(Ready(dlq))} ELSE {}
<1>1. /\ dlq' = Append(Without(dlq, dropped), c)
      /\ gone' = gone \cup {TaskOf(d) : d \in dropped}
  BY DEF AddToDlq
<1>2. dlq \in Seq(Copies) /\ dlq \in Seq(Copies')
  BY SeqMonotonic DEF Types
<1>3. dropped \subseteq In(dlq) \ HeldCopies
  <2>1. /\ Ready(dlq) \in Seq(Copies)
        /\ Ready(dlq) # <<>> => Head(Ready(dlq)) \in In(dlq) \ HeldCopies
    BY <1>2, ReadyIn
  <2>2. DlqMaxLength # 0 /\ Len(Ready(dlq)) >= DlqMaxLength => Ready(dlq) # <<>>
    BY <2>1, RabbitAssumption
  <2> QED
    BY <2>1, <2>2
<1> HIDE DEF dropped
<1>4. /\ Without(dlq, dropped) \in Seq(Copies')
      /\ In(Without(dlq, dropped)) = In(dlq) \ dropped
  BY <1>2, WithoutIn
<1>5. dlq' \in Seq(Copies') /\ In(dlq') = (In(dlq) \ dropped) \cup {c}
  BY <1>1, <1>4, AppendIn
<1> QED
  BY <1>1, <1>3, <1>5 DEF EntersDlq, In

\* The place and the copy of a handler after a step of it.
LEMMA GotoDoes ==
    ASSUME Types, NEW s \in Slots, NEW p \in HandlerAt, Goto(s, p)
    PROVE  /\ hand' \in [Slots -> Handler]
           /\ \A r \in Slots : r # s => hand'[r] = hand[r]
           /\ hand'[s].at = p
           /\ p = "free" => hand'[s].tag = "settled"
           /\ p # "free" => hand'[s].copy = hand[s].copy /\ hand'[s].tag = hand[s].tag
<1>1. hand \in [Slots -> Handler] /\ hand[s] \in Handler
  BY DEF Types
<1>2. CASE p = "free"
  BY <1>1, <1>2 DEF Goto, NoHandler, Handler, HandlerAt
<1>3. CASE p # "free"
  <2>1. hand' = [hand EXCEPT ![s] = [@ EXCEPT !.at = p]]
    BY <1>3 DEF Goto
  <2> QED
    BY <1>1, <1>3, <2>1 DEF Handler
<1> QED
  BY <1>2, <1>3

LEMMA AcknowledgeDoes ==
    ASSUME Types, NEW s \in Slots, NEW p \in HandlerAt, Acknowledge(s, p)
    PROVE  /\ hand' \in [Slots -> Handler]
           /\ \A r \in Slots : r # s => hand'[r] = hand[r]
           /\ hand'[s].at = p /\ hand'[s].tag = "settled"
           /\ p # "free" => hand'[s].copy = hand[s].copy
           /\ held' \in [Holders -> SUBSET Copies]
           /\ held'[s[1]] = held[s[1]] \ {hand[s].copy}
           /\ \A h \in Holders : h # s[1] => held'[h] = held[h]
           /\ main' \in Seq(Copies) /\ In(main)' = In(main) \ {hand[s].copy}
<1>1. hand \in [Slots -> Handler] /\ hand[s] \in Handler
  BY DEF Types
<1>2. s[1] \in Workers /\ s[1] \in Holders
  BY DEF Slots, Holders
<1>3. held \in [Holders -> SUBSET Copies]
  BY DEF Types
<1>4. /\ held' \in [Holders -> SUBSET Copies]
      /\ held'[s[1]] = held[s[1]] \ {hand[s].copy}
      /\ \A h \in Holders : h # s[1] => held'[h] = held[h]
  BY <1>2, <1>3 DEF Acknowledge
<1>5. main' \in Seq(Copies) /\ In(main') = In(main) \ {hand[s].copy}
  BY WithoutIn DEF Acknowledge, Types
<1>6. /\ hand' \in [Slots -> Handler]
      /\ \A r \in Slots : r # s => hand'[r] = hand[r]
      /\ hand'[s].at = p /\ hand'[s].tag = "settled"
      /\ p # "free" => hand'[s].copy = hand[s].copy
  <2>1. CASE p = "free"
    BY <1>1, <2>1 DEF Acknowledge, NoHandler, Handler, HandlerAt
  <2>2. CASE p # "free"
    <3>1. hand' = [hand EXCEPT ![s] = [@ EXCEPT !.at = p, !.tag = "settled"]]
      BY <2>2 DEF Acknowledge
    <3> QED
      BY <1>1, <2>2, <3>1 DEF Handler
  <2> QED
    BY <2>1, <2>2
<1> QED
  BY <1>4, <1>5, <1>6 DEF In

LEMMA CaughtIs ==
    ASSUME NEW c
    PROVE  Caught(c) \subseteq {"dead_letter", "republish"}
BY DEF Caught

--------------------------------------------------------------------------------
(* The shape of the state: general facts about a step.                     *)

\* The log and the histories only grow.
Grows ==
    /\ Copies \subseteq Copies'
    /\ \A c \in Copies : msgs'[c] = msgs[c]
    /\ succeeded \subseteq succeeded' /\ ran \subseteq ran' /\ gone \subseteq gone'

\* A handler ends, or goes on with its copy.
Follows(s) ==
    \/ hand'[s].at = "free" /\ hand'[s].tag # "live"
    \/ /\ Busy(s) /\ hand'[s].at # "free" /\ hand'[s].copy = hand[s].copy
       /\ hand'[s].tag = "live" => Live(s) /\ hand[s].copy \in held'[s[1]]
       /\ hand'[s].at = "manual" => hand'[s].tag # "live"
       /\ hand'[s].at = "early_ack" => hand[s].at = "early_ack"
       /\ hand'[s].at = "ack" => hand[s].at = "ack" \/ TaskOf(hand[s].copy) \in succeeded'
       /\ hand'[s].at \in AfterRun => hand[s].at \in AfterRun \/ hand[s].copy \in ran'

LEMMA HandsStep ==
    ASSUME Shape, Grows, In(delayed)' \cap Copies \subseteq In(delayed),
           \A s \in Slots : Follows(s)
    PROVE  Hands'
<1>1. /\ \A s \in Slots : Busy(s) => hand[s].copy \in Copies \ In(delayed)
      /\ \A s \in Slots : hand[s].at = "early_ack" => ModeOf[TaskOf(hand[s].copy)] = AMO
      /\ \A s \in Slots : hand[s].at = "ack" => TaskOf(hand[s].copy) \in succeeded
      /\ \A s \in Slots : hand[s].at \in AfterRun => hand[s].copy \in ran
      /\ \A s, r \in Slots : s # r /\ Live(s) /\ Live(r) => hand[s].copy # hand[r].copy
  BY DEF Shape, Hands
<1>2. \A c \in Copies : TaskOf(c)' = TaskOf(c)
  BY DEF Grows, TaskOf
<1>3. (\A s \in Slots : Busy(s) => hand[s].copy \in Copies \ In(delayed))'
  <2> SUFFICES ASSUME NEW s \in Slots, hand'[s].at # "free"
               PROVE  hand'[s].copy \in Copies' /\ hand'[s].copy \notin In(delayed)'
    BY DEF Busy
  <2> QED
    BY <1>1 DEF Grows, Follows
<1>4. (\A s \in Slots : Live(s) => Busy(s) /\ hand[s].copy \in held[s[1]])'
  BY DEF Follows, Live, Busy
<1>5. (\A s \in Slots : hand[s].at = "manual" => ~Live(s))'
  BY DEF Follows, Live
<1>6. (\A s \in Slots : hand[s].at = "early_ack" => ModeOf[TaskOf(hand[s].copy)] = AMO)'
  <2> SUFFICES ASSUME NEW s \in Slots, hand'[s].at = "early_ack"
               PROVE  ModeOf[msgs'[hand'[s].copy].task] = AMO
    BY DEF TaskOf
  <2>1. hand[s].at = "early_ack" /\ hand'[s].copy = hand[s].copy /\ Busy(s)
    BY DEF Follows
  <2>2. hand[s].copy \in Copies
    BY <1>1, <2>1
  <2> QED
    BY <1>1, <2>1, <2>2 DEF TaskOf, Grows
<1>7. (\A s \in Slots : hand[s].at = "ack" => TaskOf(hand[s].copy) \in succeeded)'
  <2> SUFFICES ASSUME NEW s \in Slots, hand'[s].at = "ack"
               PROVE  msgs'[hand'[s].copy].task \in succeeded'
    BY DEF TaskOf
  <2>1. /\ hand[s].at = "ack" \/ TaskOf(hand[s].copy) \in succeeded'
        /\ hand'[s].copy = hand[s].copy /\ Busy(s)
    BY DEF Follows
  <2>2. hand[s].copy \in Copies
    BY <1>1, <2>1
  <2> QED
    BY <1>1, <2>1, <2>2 DEF TaskOf, Grows
<1>8. (\A s \in Slots : hand[s].at \in AfterRun => hand[s].copy \in ran)'
  BY <1>1 DEF Follows, Grows, AfterRun
<1>9. (\A s, r \in Slots : s # r /\ Live(s) /\ Live(r) => hand[s].copy # hand[r].copy)'
  BY <1>1 DEF Follows, Live
<1> QED
  BY <1>3, <1>4, <1>5, <1>6, <1>7, <1>8, <1>9 DEF Hands

\* A handler that makes no step and keeps what it holds.
LEMMA HandStays ==
    ASSUME Shape, NEW r \in Slots, hand'[r] = hand[r],
           Live(r) => hand[r].copy \in held'[r[1]]
    PROVE  Follows(r)
BY DEF Follows, Shape, Hands, Live, Busy, Grows, AfterRun

\* An operation has ended, or goes on with what it has fetched.
Proceeds(o) ==
    \/ oper'[o] = NoOp
    \/ oper'[o] = oper[o] /\ (HasChannel(o) => Fetched(o) \subseteq held'[oper[o].chan])

LEMMA OpersStep ==
    ASSUME Shape, Grows, \A o \in Operators : Proceeds(o)
    PROVE  Opers'
<1>1. /\ \A o \in Operators : HasChannel(o) => oper[o].chan \in Channels
      /\ \A o \in Operators : HasChannel(o) => Fetched(o) \subseteq held[oper[o].chan]
      /\ \A o \in Operators : ~HasChannel(o) => oper[o].got = {} /\ oper[o].target = 0
      /\ \A o \in Operators : oper[o].at = "scan" => oper[o].target = 0
      /\ \A o \in Operators : oper[o].at \in {"publish", "settle"} => oper[o].target # 0
      /\ \A o \in Operators : oper[o].target # 0 => /\ oper[o].task = TaskOf(oper[o].target)
                                                   /\ oper[o].target \notin oper[o].got
      /\ \A o, q \in Operators :
            HasChannel(o) /\ HasChannel(q) /\ o # q => oper[o].chan # oper[q].chan
  BY DEF Shape, Opers
<1>2. \A o \in Operators : oper'[o] = oper[o] /\ oper[o].target # 0 => oper[o].target \in Copies
  <2> SUFFICES ASSUME NEW o \in Operators, oper[o].target # 0
               PROVE  oper[o].target \in Copies
    OBVIOUS
  <2>1. HasChannel(o) /\ oper[o].target \in Fetched(o)
    BY <1>1 DEF Fetched
  <2>2. held[oper[o].chan] \subseteq Copies
    BY <1>1, <2>1 DEF Shape, Types, Holders
  <2> QED
    BY <1>1, <2>1, <2>2
<1>3. \A c \in Copies : TaskOf(c)' = TaskOf(c)
  BY DEF Grows, TaskOf
<1>4. (\A o \in Operators : HasChannel(o) => oper[o].chan \in Channels
                                         /\ Fetched(o) \subseteq held[oper[o].chan])'
  BY <1>1 DEF Proceeds, NoOp, HasChannel, OpAt, Fetched
<1>5. (\A o \in Operators : ~HasChannel(o) => oper[o].got = {} /\ oper[o].target = 0)'
  BY <1>1 DEF Proceeds, NoOp, HasChannel, OpAt
<1>6. (\A o \in Operators : oper[o].at = "scan" => oper[o].target = 0)'
  BY <1>1 DEF Proceeds, NoOp
<1>7. (\A o \in Operators : oper[o].at \in {"publish", "settle"} => oper[o].target # 0)'
  BY <1>1 DEF Proceeds, NoOp
<1>8. (\A o \in Operators : oper[o].target # 0 => /\ oper[o].task = TaskOf(oper[o].target)
                                                 /\ oper[o].target \notin oper[o].got)'
  BY <1>1, <1>2, <1>3 DEF Proceeds, NoOp, TaskOf
<1>9. (\A o, q \in Operators :
          HasChannel(o) /\ HasChannel(q) /\ o # q => oper[o].chan # oper[q].chan)'
  BY <1>1 DEF Proceeds, NoOp, HasChannel, OpAt
<1> QED
  BY <1>4, <1>5, <1>6, <1>7, <1>8, <1>9 DEF Opers

LEMMA OperStays ==
    ASSUME Shape, NEW o \in Operators, oper'[o] = oper[o],
           HasChannel(o) => held[oper[o].chan] \subseteq held'[oper[o].chan]
    PROVE  Proceeds(o)
BY DEF Proceeds, Shape, Opers

\* Channels give back copies, and the queues keep what is held.
LEMMA HeldStep ==
    ASSUME Shape, held' \in [Holders -> SUBSET Copies'],
           \A h \in Holders : held'[h] \subseteq held[h],
           \A w \in Workers : held'[w] \subseteq In(main)',
           \A k \in Channels : held'[k] \subseteq In(dlq)'
    PROVE  HeldApart'
<1>1. /\ \A w \in Workers : Cardinality(held[w]) <= Prefetch
      /\ \A g, h \in Holders : g # h => held[g] \cap held[h] = {}
  BY DEF Shape, HeldApart
<1>2. \A w \in Workers : Cardinality(held'[w]) <= Prefetch
  <2> TAKE w \in Workers
  <2>1. held[w] \subseteq Copies /\ held'[w] \subseteq held[w]
    BY DEF Shape, Types, Holders
  <2>2. IsFiniteSet(held[w]) /\ Cardinality(held[w]) \in Nat
    BY <2>1, FiniteNats, CopiesAre DEF Shape
  <2>3. Cardinality(held'[w]) <= Cardinality(held[w]) /\ Cardinality(held'[w]) \in Nat
    BY <2>1, <2>2, FS_Subset, FS_CardinalityType
  <2>4. Cardinality(held[w]) <= Prefetch
    BY <1>1
  <2> QED
    BY <2>2, <2>3, <2>4, RabbitAssumption
<1>3. \A g, h \in Holders : g # h => held'[g] \cap held'[h] = {}
  BY <1>1
<1> QED
  BY <1>2, <1>3 DEF HeldApart

--------------------------------------------------------------------------------
(* The shape of the state is kept: the handlers.                           *)

\* A handler goes on, and its delivery stays as it is.
LEMMA GotoShape ==
    ASSUME Shape, NEW s \in Slots, Busy(s), NEW p \in HandlerAt, Goto(s, p),
           UNCHANGED <<msgs, queueVars, held, oper>>,
           succeeded \subseteq succeeded', ran \subseteq ran', gone \subseteq gone',
           Histories',
           p # "early_ack",
           p = "manual" => ~Live(s),
           p = "ack" => hand[s].at = "ack" \/ TaskOf(hand[s].copy) \in succeeded',
           p \in AfterRun => hand[s].at \in AfterRun \/ hand[s].copy \in ran'
    PROVE  Shape' /\ Grows
<1>1. Types /\ QueuesApart /\ HeldApart /\ Hands /\ Opers
  BY DEF Shape
<1>2. /\ hand' \in [Slots -> Handler]
      /\ \A r \in Slots : r # s => hand'[r] = hand[r]
      /\ hand'[s].at = p
      /\ p = "free" => hand'[s].tag = "settled"
      /\ p # "free" => hand'[s].copy = hand[s].copy /\ hand'[s].tag = hand[s].tag
  BY <1>1, GotoDoes
<1>3. Copies' = Copies /\ Grows
  BY DEF Grows, Copies
<1>4. Types'
  BY <1>1, <1>2, <1>3 DEF Types, queueVars
<1>5. QueuesApart'
  BY <1>1 DEF QueuesApart, queueVars
<1>6. HeldApart'
  BY <1>1 DEF HeldApart, queueVars
<1>7. \A r \in Slots : Follows(r)
  <2>1. Follows(s)
    BY <1>1, <1>2 DEF Follows, Hands, Live
  <2>2. \A r \in Slots : r # s => Follows(r)
    BY <1>1, <1>2, HandStays DEF Hands
  <2> QED
    BY <2>1, <2>2
<1>8. Hands'
  BY <1>3, <1>7, HandsStep DEF queueVars
<1>9. Opers'
  BY <1>1, <1>3, OpersStep, OperStays
<1> QED
  BY <1>3, <1>4, <1>5, <1>6, <1>8, <1>9 DEF Shape

\* The delivery is acknowledged, and the copy is in no queue any more.
LEMMA AckShape ==
    ASSUME Shape, NEW s \in Slots, Live(s), NEW p \in {"free", "running"},
           Acknowledge(s, p),
           UNCHANGED <<msgs, delayed, dlq, oper, timedOut, historyVars, boundVars>>
    PROVE  Shape' /\ Grows
<1>1. Types /\ QueuesApart /\ HeldApart /\ Hands /\ Opers
  BY DEF Shape
<1> DEFINE c == hand[s].copy
<1>2. /\ hand' \in [Slots -> Handler]
      /\ \A r \in Slots : r # s => hand'[r] = hand[r]
      /\ hand'[s].at = p /\ hand'[s].tag = "settled"
      /\ p # "free" => hand'[s].copy = hand[s].copy
      /\ held' \in [Holders -> SUBSET Copies]
      /\ held'[s[1]] = held[s[1]] \ {c}
      /\ \A h \in Holders : h # s[1] => held'[h] = held[h]
      /\ main' \in Seq(Copies) /\ In(main)' = In(main) \ {c}
  BY <1>1, AcknowledgeDoes DEF HandlerAt
<1>3. Copies' = Copies /\ Grows
  BY DEF Grows, Copies, historyVars
<1>4. Types'
  BY <1>1, <1>2, <1>3 DEF Types, Histories, historyVars, boundVars
<1>5. QueuesApart'
  BY <1>1, <1>2 DEF QueuesApart
<1>6. s[1] \in Workers /\ c \in held[s[1]]
  BY <1>1 DEF Slots, Hands
<1>7. \A h \in Holders : h # s[1] => c \notin held[h]
  BY <1>1, <1>6 DEF HeldApart, Holders
<1>8. HeldApart'
  <2>1. \A h \in Holders : held'[h] \subseteq held[h]
    BY <1>2
  <2>2. \A w \in Workers : held'[w] \subseteq In(main)'
    BY <1>1, <1>2, <1>7 DEF HeldApart, Holders
  <2>3. \A k \in Channels : held'[k] \subseteq In(dlq)'
    BY <1>1, <1>2, <1>6, RabbitAssumption DEF HeldApart, Holders
  <2> QED
    BY <1>2, <1>3, <2>1, <2>2, <2>3, HeldStep
<1>9. \A r \in Slots : Follows(r)
  <2>1. Follows(s)
    BY <1>1, <1>2 DEF Follows, Hands, Live, AfterRun, Busy
  <2>2. \A r \in Slots : r # s => Follows(r)
    <3> SUFFICES ASSUME NEW r \in Slots, r # s
                 PROVE  Follows(r)
      OBVIOUS
    <3>1. Live(r) => hand[r].copy # c /\ hand[r].copy \in held[r[1]]
      BY <1>1 DEF Hands
    <3>2. r[1] \in Holders
      BY DEF Slots, Holders
    <3>3. Live(r) => hand[r].copy \in held'[r[1]]
      BY <1>2, <3>1, <3>2
    <3> QED
      BY <1>2, <3>3, HandStays
  <2> QED
    BY <2>1, <2>2
<1>10. Hands'
  BY <1>3, <1>9, HandsStep
<1>11. \A o \in Operators : HasChannel(o) => held'[oper[o].chan] = held[oper[o].chan]
  BY <1>1, <1>2, <1>6, RabbitAssumption DEF Opers, Holders
<1>12. Opers'
  BY <1>3, <1>11, OpersStep, OperStays
<1> QED
  BY <1>3, <1>4, <1>5, <1>8, <1>10, <1>12 DEF Shape

\* The bounds of a call that raises, or of one that does not.
LEMMA FailsBounded ==
    ASSUME Histories, \/ UNCHANGED closes /\ UNCHANGED ops
                      \/ CallFails /\ UNCHANGED ops
                      \/ closes + ops < MaxEvents /\ ops' = ops + 1 /\ UNCHANGED closes
    PROVE  closes' \in Nat /\ ops' \in Nat /\ closes' + ops' <= MaxEvents
BY RabbitAssumption DEF Histories, CallFails

LEMMA EarlyAckShape ==
    ASSUME Shape, NEW s \in Slots, EarlyAck(s)
    PROVE  Shape' /\ Grows
<1>1. hand[s].at = "early_ack" /\ Busy(s)
  BY DEF EarlyAck, Busy
<1>2. CASE Live(s)
  <2>1. Acknowledge(s, "running")
    BY <1>2 DEF EarlyAck, Live
  <2> QED
    BY <1>2, <2>1, AckShape DEF EarlyAck
<1>3. CASE ~Live(s)
  <2>1. Goto(s, "free") /\ UNCHANGED <<held, main>>
    BY <1>3 DEF EarlyAck, Live
  <2>2. UNCHANGED <<msgs, queueVars, held, oper>>
    BY <2>1 DEF EarlyAck, queueVars
  <2>3. Histories' /\ UNCHANGED <<succeeded, ran, gone>>
    BY <2>2 DEF EarlyAck, historyVars, boundVars, Shape, Types, Histories, Copies
  <2>4. "free" \in HandlerAt /\ "free" \notin AfterRun
    BY DEF HandlerAt, AfterRun
  <2> QED
    BY <1>1, <2>1, <2>2, <2>3, <2>4, GotoShape
<1> QED
  BY <1>2, <1>3

LEMMA RetryAckShape ==
    ASSUME Shape, NEW s \in Slots, RetryAck(s)
    PROVE  Shape' /\ Grows
<1>1. hand[s].at = "retry_ack" /\ Busy(s)
  BY DEF RetryAck, Busy
<1>2. CASE Live(s)
  <2>1. Acknowledge(s, "free")
    BY <1>2 DEF RetryAck, Live
  <2> QED
    BY <1>2, <2>1, AckShape DEF RetryAck
<1>3. CASE ~Live(s)
  <2>1. Goto(s, "free") /\ UNCHANGED <<held, main>>
    BY <1>3 DEF RetryAck, Live
  <2>2. UNCHANGED <<msgs, queueVars, held, oper>>
    BY <2>1 DEF RetryAck, queueVars
  <2>3. Histories' /\ UNCHANGED <<succeeded, ran, gone>>
    BY <2>2 DEF RetryAck, historyVars, boundVars, Shape, Types, Histories, Copies
  <2>4. "free" \in HandlerAt /\ "free" \notin AfterRun
    BY DEF HandlerAt, AfterRun
  <2> QED
    BY <1>1, <2>1, <2>2, <2>3, <2>4, GotoShape
<1> QED
  BY <1>2, <1>3

LEMMA AckDoneShape ==
    ASSUME Shape, NEW s \in Slots, AckDone(s)
    PROVE  Shape' /\ Grows
<1>1. hand[s].at = "ack" /\ Busy(s) /\ hand[s].at \in AfterRun
  BY DEF AckDone, Busy, AfterRun
<1>2. CASE Live(s)
  <2>1. Acknowledge(s, "free")
    BY <1>2 DEF AckDone, Live
  <2> QED
    BY <1>2, <2>1, AckShape DEF AckDone
<1>3. CASE ~Live(s)
  <2>1. PICK p \in Caught(hand[s].copy) : Goto(s, p)
    BY <1>3 DEF AckDone, Live
  <2>2. UNCHANGED <<msgs, queueVars, held, oper>>
    BY <1>3 DEF AckDone, queueVars, Live
  <2>3. Histories' /\ UNCHANGED <<succeeded, ran, gone>>
    BY <2>2 DEF AckDone, historyVars, boundVars, Shape, Types, Histories, Copies
  <2>4. p \in {"dead_letter", "republish"} /\ p \in HandlerAt
    BY CaughtIs DEF HandlerAt
  <2> QED
    BY <1>1, <2>1, <2>2, <2>3, <2>4, GotoShape
<1> QED
  BY <1>2, <1>3

LEMMA RunShape ==
    ASSUME Shape, NEW s \in Slots, Run(s)
    PROVE  Shape' /\ Grows
<1> DEFINE c == hand[s].copy
<1>1. hand[s].at = "running" /\ Busy(s)
  BY DEF Run, Busy
<1>2. PICK p \in {"store"} \cup Caught(c) : Goto(s, p)
  BY DEF Run
<1>3. p \in {"store", "dead_letter", "republish"} /\ p \in HandlerAt
  BY CaughtIs DEF HandlerAt
<1>4. ran' = ran \cup {c} /\ reran' = reran \cup (ran \cap {c})
  BY DEF Run
<1>5. c \in Copies
  BY <1>1 DEF Shape, Hands
<1>6. UNCHANGED <<msgs, queueVars, held, oper>>
  BY DEF Run
<1>7. Histories'
  BY <1>4, <1>5, <1>6 DEF Run, boundVars, Shape, Types, Histories, Copies
<1>8. UNCHANGED <<succeeded, gone>> /\ ran \subseteq ran'
  BY <1>4 DEF Run
<1> QED
  BY <1>1, <1>2, <1>3, <1>4, <1>6, <1>7, <1>8, GotoShape

LEMMA StoreSuccessShape ==
    ASSUME Shape, NEW s \in Slots, StoreSuccess(s)
    PROVE  Shape' /\ Grows
<1> DEFINE c == hand[s].copy
           t == TaskOf(c)
<1>1. hand[s].at = "store" /\ Busy(s) /\ hand[s].at \in AfterRun
  BY DEF StoreSuccess, Busy, AfterRun
<1>2. c \in Copies /\ t \in Tasks
  BY <1>1, CopiesAre DEF Shape, Hands
<1>3. UNCHANGED <<msgs, queueVars, held, oper>>
  BY DEF StoreSuccess
<1>4. closes' \in Nat /\ ops' \in Nat /\ closes' + ops' <= MaxEvents
  <2>1. UNCHANGED ops /\ (UNCHANGED closes \/ CallFails)
    BY DEF StoreSuccess
  <2> QED
    BY <2>1, FailsBounded DEF Shape, Types
<1>5. succeeded' \in {succeeded, succeeded \cup {t}}
  BY DEF StoreSuccess
<1>6. Histories' /\ UNCHANGED <<ran, gone>> /\ succeeded \subseteq succeeded'
  BY <1>2, <1>3, <1>4, <1>5 DEF StoreSuccess, Shape, Types, Histories, Copies
<1>7. PICK p \in {"ack", "free", "dead_letter", "republish"} :
         Goto(s, p) /\ (p = "ack" => t \in succeeded')
  BY CaughtIs DEF StoreSuccess
<1>8. p \in HandlerAt
  BY DEF HandlerAt
<1> QED
  BY <1>1, <1>3, <1>6, <1>7, <1>8, GotoShape

LEMMA BackendFailsShape ==
    ASSUME Shape, NEW s \in Slots, BackendFails(s)
    PROVE  Shape' /\ Grows
<1>1. Busy(s) /\ Goto(s, "free")
  BY DEF BackendFails, Busy
<1>2. UNCHANGED <<msgs, queueVars, held, oper>>
  BY DEF BackendFails
<1>3. closes' \in Nat /\ ops' \in Nat /\ closes' + ops' <= MaxEvents
  BY FailsBounded DEF BackendFails, CallFails, Shape, Types
<1>4. Histories' /\ UNCHANGED <<succeeded, ran, gone>>
  BY <1>2, <1>3 DEF BackendFails, historyVars, Shape, Types, Histories, Copies
<1>5. "free" \in HandlerAt /\ "free" \notin AfterRun
  BY DEF HandlerAt, AfterRun
<1> QED
  BY <1>1, <1>2, <1>4, <1>5, GotoShape

\* A new copy is in one queue, and the others are where they were.
LEMMA QueuesPublished ==
    ASSUME Shape, NEW m \in Message, Published(m)
    PROVE  /\ QueuesApart'
           /\ In(delayed)' \cap Copies \subseteq In(delayed)
           /\ In(main) \subseteq In(main)' /\ In(dlq)' = In(dlq)
<1> DEFINE n == Len(msgs) + 1
<1>1. Types /\ QueuesApart
  BY DEF Shape
<1>2. In(main) \subseteq Copies /\ In(delayed) \subseteq Copies /\ In(dlq) \subseteq Copies
  BY <1>1, InCopies
<1>3. n \notin Copies
  BY DEF Published, Appended
<1>4. In(dlq)' = In(dlq)
  BY DEF Published
<1>5. CASE In(main)' = In(main) \cup {n} /\ delayed' = delayed
  BY <1>1, <1>2, <1>3, <1>4, <1>5 DEF QueuesApart
<1>6. CASE main' = main /\ delayed' = Append(delayed, n) /\ In(delayed)' = In(delayed) \cup {n}
  <2>1. delayed \in Seq(Copies)
    BY <1>1 DEF Types
  <2>2. /\ Len(delayed) \in Nat /\ DOMAIN delayed = 1..Len(delayed)
        /\ DOMAIN delayed' = 1..(Len(delayed) + 1)
    BY <1>6, <2>1
  <2>3. /\ \A i \in 1..Len(delayed) : delayed'[i] = delayed[i] /\ delayed[i] \in Copies
        /\ delayed'[Len(delayed) + 1] = n
    BY <1>6, <2>1
  <2>4. \A i \in 1..(Len(delayed) + 1) : i \in 1..Len(delayed) \/ i = Len(delayed) + 1
    BY <2>2
  <2>5. \A i, j \in DOMAIN delayed' : delayed'[i] = delayed'[j] => i = j
    BY <1>1, <1>3, <2>2, <2>3, <2>4 DEF QueuesApart
  <2> QED
    BY <1>1, <1>2, <1>3, <1>4, <1>6, <2>5 DEF QueuesApart
<1> QED
  BY <1>5, <1>6 DEF Published

\* A message is published, and at most one handler or one operation goes on.
LEMMA PublishedShape ==
    ASSUME Shape, NEW m \in Message, Published(m),
           UNCHANGED <<succeeded, ran, gone>>,
           held' \in [Holders -> SUBSET Copies], \A h \in Holders : held'[h] \subseteq held[h],
           hand' \in [Slots -> Handler], oper' \in [Operators -> Operation], Histories',
           \A s \in Slots : Follows(s),
           Opers'
    PROVE  Shape' /\ Grows
<1>1. Types /\ HeldApart
  BY DEF Shape
<1>2. Grows
  BY DEF Grows, Published, Appended
<1>3. QueuesApart' /\ In(delayed)' \cap Copies \subseteq In(delayed)
      /\ In(main) \subseteq In(main)' /\ In(dlq)' = In(dlq)
  BY QueuesPublished
<1>4. held' \in [Holders -> SUBSET Copies']
  BY <1>2 DEF Grows
<1>5. Types'
  BY <1>4 DEF Types, Published, Appended
<1>6. HeldApart'
  BY <1>1, <1>3, <1>4, HeldStep DEF HeldApart, Holders
<1>7. Hands'
  BY <1>2, <1>3, HandsStep
<1> QED
  BY <1>2, <1>3, <1>5, <1>6, <1>7 DEF Shape

LEMMA DispatchShape ==
    ASSUME Shape, NEW t \in Tasks, Dispatch(t)
    PROVE  Shape' /\ Grows
<1> DEFINE m == [task |-> t, retries |-> 0]
<1>1. m \in Message
  BY DEF Message
<1>2. Published(m)
  BY <1>1, PublishDoes DEF Dispatch, Shape
<1>3. UNCHANGED <<held, hand, oper, timedOut, succeeded, failed, gone, ran, reran, closes, ops>>
  BY DEF Dispatch, historyVars, boundVars
<1>4. Grows
  BY <1>2, <1>3 DEF Grows, Published, Appended
<1>5. /\ hand' \in [Slots -> Handler] /\ oper' \in [Operators -> Operation] /\ Histories'
  BY <1>3, <1>4 DEF Shape, Types, Histories, Grows
<1>6. \A s \in Slots : Follows(s)
  BY <1>3, HandStays DEF Shape, Hands
<1>7. Opers'
  BY <1>3, <1>4, OpersStep, OperStays
<1>8. held' \in [Holders -> SUBSET Copies]
  BY <1>3 DEF Shape, Types
<1> QED
  BY <1>1, <1>2, <1>3, <1>5, <1>6, <1>7, <1>8, PublishedShape

LEMMA RepublishShape ==
    ASSUME Shape, NEW s \in Slots, Republish(s)
    PROVE  Shape' /\ Grows
<1> DEFINE c == hand[s].copy
           m == [msgs[c] EXCEPT !.retries = @ + 1]
<1>1. hand[s].at = "republish" /\ Busy(s) /\ hand[s].at \in AfterRun
  BY DEF Republish, Busy, AfterRun
<1>2. c \in Copies /\ msgs[c] \in Message
  BY <1>1, CopiesAre DEF Shape, Hands
<1>3. m \in Message /\ m.task = msgs[c].task
  BY <1>2 DEF Message
<1>4. UNCHANGED <<held, oper, timedOut, succeeded, failed, gone, ran, reran, ops>>
  BY DEF Republish, historyVars
<1>5. closes' \in Nat /\ ops' \in Nat /\ closes' + ops' <= MaxEvents
  BY FailsBounded DEF Republish, Shape, Types
<1>6. PICK p \in {"free", "retry_ack"} : Goto(s, p)
  BY DEF Republish
<1>7. p \in HandlerAt
  BY DEF HandlerAt
<1>8. CASE UNCHANGED <<msgs, queueVars>>
  <2>1. Histories'
    BY <1>4, <1>5, <1>8 DEF Shape, Types, Histories, Copies
  <2> QED
    BY <1>1, <1>4, <1>6, <1>7, <1>8, <2>1, GotoShape
<1>9. CASE \E later \in BOOLEAN : Publish(m, later)
  <2>1. Published(m)
    BY <1>3, <1>9, PublishDoes DEF Shape
  <2>2. Grows
    BY <1>4, <2>1 DEF Grows, Published, Appended
  <2>3. Histories'
    BY <1>4, <1>5, <2>2 DEF Shape, Types, Histories, Grows
  <2>4. /\ hand' \in [Slots -> Handler]
        /\ \A r \in Slots : r # s => hand'[r] = hand[r]
        /\ hand'[s].at = p
        /\ p = "free" => hand'[s].tag = "settled"
        /\ p # "free" => hand'[s].copy = c /\ hand'[s].tag = hand[s].tag
    BY <1>6, <1>7, GotoDoes DEF Shape
  <2>5. Follows(s)
    BY <1>1, <1>4, <2>4 DEF Follows, Shape, Hands, Live
  <2>6. \A r \in Slots : r # s => Follows(r)
    BY <1>4, <2>4, HandStays DEF Shape, Hands
  <2>7. Opers'
    BY <1>4, <2>2, OpersStep, OperStays
  <2>8. oper' \in [Operators -> Operation] /\ held' \in [Holders -> SUBSET Copies]
    BY <1>4 DEF Shape, Types
  <2> QED
    BY <1>3, <1>4, <2>1, <2>3, <2>4, <2>5, <2>6, <2>7, <2>8, PublishedShape
<1> QED
  BY <1>8, <1>9 DEF Republish

\* A copy in the DLQ, and what is not held dropped from it: workers and operations
\* keep what they hold there.
LEMMA DlqKeepsHeld ==
    ASSUME Shape, NEW c \in Copies', EntersDlq(c)
    PROVE  \A k \in Channels : held[k] \subseteq In(dlq)'
BY DEF EntersDlq, HeldCopies, Shape, HeldApart, Holders

LEMMA DeadLetterShape ==
    ASSUME Shape, NEW s \in Slots, DeadLetter(s)
    PROVE  Shape' /\ Grows
<1>1. hand[s].at = "dead_letter" /\ Busy(s) /\ hand[s].at \in AfterRun
  BY DEF DeadLetter, Busy, AfterRun
<1> DEFINE c == hand[s].copy
<1>2. CASE ~Live(s)
  <2>1. PICK p \in {"manual", "free"} : Goto(s, p)
    BY <1>2 DEF DeadLetter, Live
  <2>2. UNCHANGED <<msgs, queueVars, held, oper>>
    BY <1>2 DEF DeadLetter, queueVars, Live
  <2>3. Histories' /\ UNCHANGED <<succeeded, ran, gone>>
    BY <1>2, <2>2 DEF DeadLetter, boundVars, Shape, Types, Histories, Copies, Live
  <2>4. p \in HandlerAt
    BY DEF HandlerAt
  <2> QED
    BY <1>1, <1>2, <2>1, <2>2, <2>3, <2>4, GotoShape
<1>3. CASE Live(s)
  <2>1. /\ Acknowledge(s, "free") /\ AddToDlq(c) /\ failed' = failed \cup {TaskOf(c)}
        /\ UNCHANGED <<msgs, delayed, oper, timedOut, succeeded, ran, reran, closes, ops>>
    BY <1>3 DEF DeadLetter, Live, boundVars
  <2>2. Types /\ QueuesApart /\ HeldApart /\ Hands /\ Opers
    BY DEF Shape
  <2>3. /\ hand' \in [Slots -> Handler]
        /\ \A r \in Slots : r # s => hand'[r] = hand[r]
        /\ hand'[s].at = "free" /\ hand'[s].tag = "settled"
        /\ held' \in [Holders -> SUBSET Copies]
        /\ held'[s[1]] = held[s[1]] \ {c}
        /\ \A h \in Holders : h # s[1] => held'[h] = held[h]
        /\ main' \in Seq(Copies) /\ In(main)' = In(main) \ {c}
    BY <2>1, <2>2, AcknowledgeDoes DEF HandlerAt
  <2>4. s[1] \in Workers /\ c \in held[s[1]] /\ c \in In(main) /\ c \in Copies
        /\ TaskOf(c) \in Tasks
    BY <1>1, <1>3, <2>2, CopiesAre DEF Slots, Hands, HeldApart
  <2>5. Copies' = Copies /\ c \in Copies'
    BY <2>1, <2>4 DEF Copies
  <2>6. EntersDlq(c)
    BY <2>1, <2>2, <2>5, AddToDlqDoes
  <2>7. gone \subseteq gone' /\ gone' \subseteq Tasks
    <3>1. \A d \in In(dlq) : TaskOf(d) \in Tasks
      BY <2>2, CopiesAre, InCopies
    <3> QED
      BY <2>2, <2>6, <3>1 DEF EntersDlq, Types, Histories
  <2>8. Grows
    BY <2>1, <2>5, <2>7 DEF Grows
  <2>9. Types'
    BY <2>1, <2>2, <2>3, <2>4, <2>5, <2>6, <2>7 DEF Types, Histories, EntersDlq
  <2>10. QueuesApart'
    <3>1. In(dlq)' \subseteq In(dlq) \cup {c}
      BY <2>6 DEF EntersDlq
    <3> QED
      BY <2>1, <2>2, <2>3, <2>4, <3>1 DEF QueuesApart
  <2>11. \A h \in Holders : h # s[1] => c \notin held[h]
    BY <2>2, <2>4 DEF HeldApart, Holders
  <2>12. HeldApart'
    <3>1. \A h \in Holders : held'[h] \subseteq held[h]
      BY <2>3
    <3>2. \A w \in Workers : held'[w] \subseteq In(main)'
      BY <2>2, <2>3, <2>11 DEF HeldApart, Holders
    <3>3. \A k \in Channels : held'[k] \subseteq In(dlq)'
      BY <2>5, <2>6, <3>1, DlqKeepsHeld DEF Holders
    <3> QED
      BY <2>3, <2>5, <3>1, <3>2, <3>3, HeldStep
  <2>13. Follows(s)
    BY <2>3 DEF Follows
  <2>14. \A r \in Slots : r # s => Follows(r)
    <3> SUFFICES ASSUME NEW r \in Slots, r # s
                 PROVE  Follows(r)
      OBVIOUS
    <3>1. Live(r) => hand[r].copy # c /\ hand[r].copy \in held[r[1]]
      BY <1>3, <2>2 DEF Hands
    <3>2. r[1] \in Holders
      BY DEF Slots, Holders
    <3>3. Live(r) => hand[r].copy \in held'[r[1]]
      BY <2>3, <3>1, <3>2
    <3> QED
      BY <2>3, <3>3, HandStays
  <2>15. Hands'
    BY <2>1, <2>8, <2>13, <2>14, HandsStep
  <2>16. \A o \in Operators : HasChannel(o) => held'[oper[o].chan] = held[oper[o].chan]
    BY <2>2, <2>3, <2>4, RabbitAssumption DEF Opers, Holders
  <2>17. Opers'
    BY <2>1, <2>8, <2>16, OpersStep, OperStays
  <2> QED
    BY <2>8, <2>9, <2>10, <2>12, <2>15, <2>17 DEF Shape
<1> QED
  BY <1>2, <1>3

LEMMA ManualMoveShape ==
    ASSUME Shape, NEW s \in Slots, ManualMove(s)
    PROVE  Shape' /\ Grows
<1> DEFINE m == msgs[hand[s].copy]
           n == Len(msgs) + 1
<1>1. hand[s].at = "manual" /\ Busy(s) /\ hand[s].at \in AfterRun
  BY DEF ManualMove, Busy, AfterRun
<1>2. hand[s].copy \in Copies /\ m \in Message /\ m.task \in Tasks
  BY <1>1, CopiesAre DEF Shape, Hands, Message
<1>3. Goto(s, "free") /\ "free" \in HandlerAt /\ "free" \notin AfterRun
  BY DEF ManualMove, HandlerAt, AfterRun
<1>4. UNCHANGED <<main, delayed, held, oper, timedOut, succeeded, ran, reran, ops>>
  BY DEF ManualMove
<1>5. closes' \in Nat /\ ops' \in Nat /\ closes' + ops' <= MaxEvents
  BY FailsBounded DEF ManualMove, Shape, Types
<1>6. CASE UNCHANGED <<msgs, dlq, failed, gone>>
  <2>1. UNCHANGED <<msgs, queueVars, held, oper>>
    BY <1>4, <1>6 DEF queueVars
  <2>2. Histories'
    BY <1>4, <1>5, <1>6 DEF Shape, Types, Histories, Copies
  <2> QED
    BY <1>1, <1>3, <1>4, <1>6, <2>1, <2>2, GotoShape
<1>7. CASE msgs' = Append(msgs, m) /\ AddToDlq(n) /\ failed' = failed \cup {m.task}
  <2>1. Types /\ QueuesApart /\ HeldApart /\ Hands /\ Opers
    BY DEF Shape
  <2>2. Appended(m)
    BY <1>2, <1>7, <2>1, AppendMessage
  <2>3. n \in Copies' /\ n \notin Copies /\ Copies \subseteq Copies'
    BY <2>2 DEF Appended
  <2>4. EntersDlq(n)
    BY <1>7, <2>1, <2>3, AddToDlqDoes
  <2>5. gone \subseteq gone' /\ gone' \subseteq Tasks
    <3>1. \A d \in In(dlq) : TaskOf(d) \in Tasks
      BY <2>1, CopiesAre, InCopies
    <3> QED
      BY <2>1, <2>4, <3>1 DEF EntersDlq, Types, Histories
  <2>6. Grows
    BY <1>4, <2>2, <2>5 DEF Grows, Appended
  <2>7. /\ hand' \in [Slots -> Handler]
        /\ \A r \in Slots : r # s => hand'[r] = hand[r]
        /\ hand'[s].at = "free" /\ hand'[s].tag = "settled"
    BY <1>3, <2>1, GotoDoes
  <2>8. main' \in Seq(Copies') /\ delayed' \in Seq(Copies')
    BY <1>4, <2>1, <2>3, SeqMonotonic DEF Types
  <2>9. held' \in [Holders -> SUBSET Copies']
    BY <1>4, <2>1, <2>3 DEF Types
  <2>10. Histories'
    BY <1>2, <1>4, <1>5, <1>7, <2>1, <2>3, <2>5 DEF Types, Histories
  <2>11. Types'
    BY <1>4, <2>1, <2>2, <2>4, <2>7, <2>8, <2>9, <2>10 DEF Types, EntersDlq, Appended
  <2>12. QueuesApart'
    <3>1. In(dlq)' \subseteq In(dlq) \cup {n}
      BY <2>4 DEF EntersDlq
    <3>2. n \notin In(main) /\ n \notin In(delayed)
      BY <2>1, <2>3, InCopies
    <3> QED
      BY <1>4, <2>1, <3>1, <3>2 DEF QueuesApart
  <2>13. HeldApart'
    <3>1. \A k \in Channels : held'[k] \subseteq In(dlq)'
      BY <1>4, <2>3, <2>4, DlqKeepsHeld
    <3> QED
      BY <1>4, <2>1, <3>1 DEF HeldApart
  <2>14. Follows(s)
    BY <2>7 DEF Follows
  <2>15. \A r \in Slots : r # s => Follows(r)
    BY <1>4, <2>1, <2>7, HandStays DEF Hands
  <2>16. Hands'
    BY <1>4, <2>6, <2>14, <2>15, HandsStep
  <2>17. Opers'
    BY <1>4, <2>6, OpersStep, OperStays
  <2> QED
    BY <2>6, <2>11, <2>12, <2>13, <2>16, <2>17 DEF Shape
<1> QED
  BY <1>6, <1>7 DEF ManualMove

--------------------------------------------------------------------------------
(* The shape of the state is kept: deliveries, closing channels and queues. *)

LEMMA DeliverShape ==
    ASSUME Shape, NEW w \in Workers, Deliver(w)
    PROVE  Shape' /\ Grows
<1> DEFINE c == Head(Ready(main))
           s == CHOOSE r \in FreeSlots(w) : TRUE
           at == IF ModeOf[TaskOf(c)] = AMO THEN "early_ack" ELSE "running"
<1>1. Types /\ QueuesApart /\ HeldApart /\ Hands /\ Opers
  BY DEF Shape
<1>2. s \in Slots /\ s[1] = w /\ hand[s].at = "free"
  BY DEF Deliver, FreeSlots
<1>3. c \in In(main) /\ c \notin HeldCopies
  BY <1>1, ReadyIn DEF Deliver, Types
<1>4. c \in Copies /\ c \in Nat
  BY <1>1, <1>3, InCopies, CopiesAre
<1>5. w \in Holders /\ Cardinality(held[w]) < Prefetch
  BY DEF Deliver, Holders
<1>6. /\ held' = [held EXCEPT ![w] = @ \cup {c}]
      /\ hand' = [hand EXCEPT ![s] = [at |-> at, copy |-> c, tag |-> "live"]]
      /\ UNCHANGED <<msgs, main, delayed, dlq, oper, timedOut, succeeded, failed, gone,
                     ran, reran, closes, ops>>
  BY DEF Deliver, queueVars, historyVars, boundVars
<1>7. at \in {"early_ack", "running"} /\ (at = "early_ack" => ModeOf[TaskOf(c)] = AMO)
  OBVIOUS
<1> HIDE DEF c, s, at
<1>8. /\ held' \in [Holders -> SUBSET Copies] /\ held'[w] = held[w] \cup {c}
      /\ \A h \in Holders : h # w => held'[h] = held[h]
  BY <1>1, <1>4, <1>5, <1>6 DEF Types
<1>9. [at |-> at, copy |-> c, tag |-> "live"] \in Handler
  BY <1>4, <1>7 DEF Handler, HandlerAt
<1>10. /\ hand' \in [Slots -> Handler]
       /\ hand'[s] = [at |-> at, copy |-> c, tag |-> "live"]
       /\ \A r \in Slots : r # s => hand'[r] = hand[r]
  BY <1>1, <1>2, <1>6, <1>9 DEF Types
<1>11. hand'[s].at = at /\ hand'[s].copy = c /\ hand'[s].tag = "live"
  BY <1>10
<1>12. Copies' = Copies /\ Grows
  BY <1>6 DEF Grows, Copies
<1>13. Types'
  BY <1>1, <1>6, <1>8, <1>10, <1>12 DEF Types, Histories
<1>14. QueuesApart'
  BY <1>1, <1>6 DEF QueuesApart
<1>15. HeldApart'
  <2>1. Cardinality(held'[w]) <= Prefetch
    <3>1. IsFiniteSet(held[w]) /\ Cardinality(held[w]) \in Nat
      BY <1>1, <1>5, FiniteNats, CopiesAre DEF Types
    <3>2. c \notin held[w]
      BY <1>3, <1>5 DEF HeldCopies
    <3>3. Cardinality(held'[w]) = Cardinality(held[w]) + 1
      BY <1>8, <3>1, <3>2, FS_AddElement
    <3> QED
      BY <1>5, <3>1, <3>3, RabbitAssumption
  <2>2. \A h \in Holders : h # w => c \notin held'[h]
    BY <1>3, <1>8 DEF HeldCopies
  <2>3. \A v \in Workers : held'[v] \subseteq In(main)' /\ Cardinality(held'[v]) <= Prefetch
    BY <1>1, <1>3, <1>6, <1>8, <2>1 DEF HeldApart, Holders
  <2>4. \A k \in Channels : held'[k] \subseteq In(dlq)'
    BY <1>1, <1>6, <1>8, RabbitAssumption DEF HeldApart, Holders
  <2>5. \A g, h \in Holders : g # h => held'[g] \cap held'[h] = {}
    BY <1>1, <1>8, <2>2 DEF HeldApart
  <2> QED
    BY <2>3, <2>4, <2>5 DEF HeldApart
<1>16. Hands'
  <2>1. \A r \in Slots : Live(r) => hand[r].copy # c
    <3> SUFFICES ASSUME NEW r \in Slots, Live(r)
                 PROVE  hand[r].copy # c
      OBVIOUS
    <3>1. hand[r].copy \in held[r[1]] /\ r[1] \in Holders
      BY <1>1 DEF Hands, Slots, Holders
    <3> QED
      BY <1>3, <3>1 DEF HeldCopies
  <2>2. \A r \in Slots : Live(r) => hand[r].copy \in held'[r[1]]
    BY <1>1, <1>8 DEF Hands, Slots, Holders
  <2>3. (\A r \in Slots : Busy(r) => hand[r].copy \in Copies \ In(delayed))'
    <3>1. c \notin In(delayed)
      BY <1>1, <1>3 DEF QueuesApart
    <3> QED
      BY <1>1, <1>4, <1>6, <1>10, <1>11, <1>12, <3>1 DEF Hands, Busy
  <2>4. (\A r \in Slots : Live(r) => Busy(r) /\ hand[r].copy \in held[r[1]])'
    BY <1>1, <1>2, <1>7, <1>8, <1>10, <1>11, <2>2 DEF Hands, Live, Busy
  <2>5. (\A r \in Slots : hand[r].at = "manual" => ~Live(r))'
    BY <1>1, <1>7, <1>10, <1>11 DEF Hands, Live
  <2>6. (\A r \in Slots : hand[r].at = "early_ack" => ModeOf[TaskOf(hand[r].copy)] = AMO)'
    BY <1>1, <1>6, <1>7, <1>10, <1>11 DEF Hands, TaskOf
  <2>7. (\A r \in Slots : hand[r].at = "ack" => TaskOf(hand[r].copy) \in succeeded)'
    BY <1>1, <1>6, <1>7, <1>10, <1>11 DEF Hands, TaskOf
  <2>8. (\A r \in Slots : hand[r].at \in AfterRun => hand[r].copy \in ran)'
    BY <1>1, <1>6, <1>7, <1>10, <1>11 DEF Hands, AfterRun
  <2>9. (\A q, r \in Slots : q # r /\ Live(q) /\ Live(r) => hand[q].copy # hand[r].copy)'
    BY <1>1, <1>10, <1>11, <2>1 DEF Hands, Live
  <2> QED
    BY <2>3, <2>4, <2>5, <2>6, <2>7, <2>8, <2>9 DEF Hands
<1>17. Opers'
  <2>1. \A o \in Operators : HasChannel(o) => held'[oper[o].chan] = held[oper[o].chan]
    BY <1>1, <1>8, RabbitAssumption DEF Opers, Holders
  <2> QED
    BY <1>6, <1>12, <2>1, OpersStep, OperStays
<1> QED
  BY <1>12, <1>13, <1>14, <1>15, <1>16, <1>17 DEF Shape

LEMMA ConsumerClosesShape ==
    ASSUME Shape, NEW w \in Workers, ConsumerCloses(w)
    PROVE  Shape' /\ Grows
<1>1. Types /\ QueuesApart /\ HeldApart /\ Hands /\ Opers
  BY DEF Shape
<1>2. UNCHANGED <<msgs, main, delayed, dlq, oper, timedOut, succeeded, failed, gone, ran,
                  reran, ops>>
  BY DEF ConsumerCloses, queueVars, historyVars
<1>3. closes' \in Nat /\ ops' \in Nat /\ closes' + ops' <= MaxEvents
  BY <1>1, FailsBounded DEF ConsumerCloses, CallFails, Types
<1>4. w \in Holders /\ held' = [held EXCEPT ![w] = {}]
  BY DEF ConsumerCloses, Holders
<1>5. /\ held' \in [Holders -> SUBSET Copies] /\ held'[w] = {}
      /\ \A h \in Holders : h # w => held'[h] = held[h]
  BY <1>1, <1>4 DEF Types
<1>6. PICK crash \in BOOLEAN :
         hand' = [s \in Slots |->
            IF s[1] # w THEN hand[s]
            ELSE IF crash THEN NoHandler
            ELSE IF hand[s].tag = "live" THEN [hand[s] EXCEPT !.tag = "lost"]
            ELSE hand[s]]
  BY DEF ConsumerCloses
<1>7. hand \in [Slots -> Handler]
  BY <1>1 DEF Types
<1>8. NoHandler \in Handler /\ NoHandler.at = "free" /\ NoHandler.tag = "settled"
  BY DEF NoHandler, Handler, HandlerAt
<1>9. \A s \in Slots :
         \/ s[1] # w /\ hand'[s] = hand[s]
         \/ s[1] = w /\ hand'[s] = NoHandler
         \/ s[1] = w /\ hand'[s] = [hand[s] EXCEPT !.tag = "lost"] /\ Live(s)
         \/ s[1] = w /\ hand'[s] = hand[s] /\ ~Live(s)
  BY <1>6 DEF Live
<1>10. \A s \in Slots : /\ [hand[s] EXCEPT !.tag = "lost"] \in Handler
                        /\ [hand[s] EXCEPT !.tag = "lost"].at = hand[s].at
                        /\ [hand[s] EXCEPT !.tag = "lost"].copy = hand[s].copy
                        /\ [hand[s] EXCEPT !.tag = "lost"].tag = "lost"
  BY <1>7 DEF Handler
<1>11. hand' \in [Slots -> Handler]
  <2>1. \A s \in Slots : hand'[s] \in Handler
    BY <1>7, <1>8, <1>9, <1>10
  <2> QED
    BY <1>6, <2>1
<1>12. Copies' = Copies /\ Grows
  BY <1>2 DEF Grows, Copies
<1>13. Types'
  BY <1>1, <1>2, <1>3, <1>5, <1>11, <1>12 DEF Types, Histories
<1>14. QueuesApart'
  BY <1>1, <1>2 DEF QueuesApart
<1>15. HeldApart'
  BY <1>1, <1>2, <1>5, <1>12, HeldStep DEF HeldApart, Holders
<1>16. \A s \in Slots : Follows(s)
  <2> SUFFICES ASSUME NEW s \in Slots
               PROVE  Follows(s)
    OBVIOUS
  <2>1. CASE s[1] # w
    BY <1>1, <1>5, <1>9, <2>1, HandStays DEF Hands, Slots, Holders
  <2>2. CASE hand'[s] = NoHandler
    BY <1>8, <2>2 DEF Follows
  <2>3. CASE hand'[s] = hand[s] /\ ~Live(s)
    BY <2>3, HandStays
  <2>4. CASE hand'[s] = [hand[s] EXCEPT !.tag = "lost"] /\ Live(s)
    BY <1>1, <1>10, <2>4 DEF Follows, Hands, Live, Busy
  <2> QED
    BY <1>9, <2>1, <2>2, <2>3, <2>4
<1>17. Hands'
  BY <1>2, <1>12, <1>16, HandsStep
<1>18. Opers'
  <2>1. \A o \in Operators : HasChannel(o) => held'[oper[o].chan] = held[oper[o].chan]
    BY <1>1, <1>5, RabbitAssumption DEF Opers, Holders
  <2> QED
    BY <1>2, <1>12, <2>1, OpersStep, OperStays
<1> QED
  BY <1>12, <1>13, <1>14, <1>15, <1>17, <1>18 DEF Shape

\* Only the queues change, which keep all that is held.
LEMMA QueuesShape ==
    ASSUME Shape,
           UNCHANGED <<msgs, held, hand, oper, succeeded, ran>>, gone \subseteq gone',
           main' \in Seq(Copies), delayed' \in Seq(Copies), dlq' \in Seq(Copies),
           In(delayed)' \subseteq In(delayed), QueuesApart', Histories',
           \A w \in Workers : held[w] \subseteq In(main)',
           \A k \in Channels : held[k] \subseteq In(dlq)'
    PROVE  Shape' /\ Grows
<1>1. Types /\ HeldApart /\ Hands /\ Opers
  BY DEF Shape
<1>2. Copies' = Copies /\ Grows
  BY DEF Grows, Copies
<1>3. Types'
  BY <1>1, <1>2 DEF Types
<1>4. HeldApart'
  BY <1>1 DEF HeldApart
<1>5. Hands'
  BY <1>1, <1>2, HandStays, HandsStep DEF Hands
<1>6. Opers'
  BY <1>2, OpersStep, OperStays
<1> QED
  BY <1>2, <1>3, <1>4, <1>5, <1>6 DEF Shape

LEMMA ExpireShape ==
    ASSUME Shape, Expire
    PROVE  /\ Shape' /\ Grows
           /\ In(main)' = In(main) \cup {Head(delayed)} /\ Head(delayed) \in In(delayed)
           /\ In(delayed)' = In(delayed) \ {Head(delayed)}
<1> DEFINE c == Head(delayed)
<1>1. Types /\ QueuesApart /\ HeldApart
  BY DEF Shape
<1>2. /\ delayed # <<>> /\ delayed' = Tail(delayed) /\ main' = Append(main, c)
      /\ UNCHANGED <<msgs, dlq, held, hand, oper, timedOut, succeeded, failed, gone, ran,
                     reran, closes, ops>>
  BY DEF Expire, historyVars, boundVars
<1>3. main \in Seq(Copies) /\ delayed \in Seq(Copies) /\ dlq \in Seq(Copies)
  BY <1>1 DEF Types
<1>4. c \in In(delayed) /\ c \in Copies
  BY <1>2, <1>3, HeadIn
<1>5. delayed' \in Seq(Copies) /\ In(delayed) = In(delayed') \cup {c}
  BY <1>2, <1>3, TailIn
<1>6. main' \in Seq(Copies) /\ In(main') = In(main) \cup {c}
  BY <1>2, <1>3, <1>4, AppendIn
<1>7. /\ Len(delayed) \in Nat \ {0} /\ DOMAIN delayed' = 1..(Len(delayed) - 1)
      /\ DOMAIN delayed = 1..Len(delayed)
      /\ \A i \in 1..(Len(delayed) - 1) : delayed'[i] = delayed[i + 1]
      /\ c = delayed[1]
  BY <1>2, <1>3
<1>8. \A i \in 1..(Len(delayed) - 1) : i + 1 \in 1..Len(delayed) /\ i + 1 # 1
  BY <1>7
<1>9. c \notin In(delayed')
  <2>1. \A i \in DOMAIN delayed' : delayed'[i] # c
    <3>1. 1 \in DOMAIN delayed
      BY <1>7
    <3> QED
      BY <1>1, <1>7, <1>8, <3>1 DEF QueuesApart
  <2> QED
    BY <2>1 DEF In, ToSet
<1>10. \A i, j \in DOMAIN delayed' : delayed'[i] = delayed'[j] => i = j
  <2> TAKE i, j \in DOMAIN delayed'
  <2> HAVE delayed'[i] = delayed'[j]
  <2>1. i + 1 = j + 1
    BY <1>1, <1>7, <1>8 DEF QueuesApart
  <2> QED
    BY <1>7, <2>1
<1>11. QueuesApart'
  BY <1>1, <1>2, <1>4, <1>5, <1>6, <1>9, <1>10 DEF QueuesApart
<1>12. Histories'
  BY <1>1, <1>2 DEF Types, Histories, Copies
<1>13. Shape' /\ Grows
  BY <1>1, <1>2, <1>3, <1>5, <1>6, <1>11, <1>12, QueuesShape DEF HeldApart
<1> QED
  BY <1>4, <1>5, <1>6, <1>9, <1>13 DEF In

LEMMA PurgeQueueShape ==
    ASSUME Shape, PurgeQueue
    PROVE  /\ Shape' /\ Grows
           /\ In(main)' = In(main) \cap HeldCopies
           /\ gone' = gone \cup {TaskOf(c) : c \in In(main) \ HeldCopies}
<1>1. Types /\ QueuesApart /\ HeldApart
  BY DEF Shape
<1>2. /\ gone' = gone \cup {TaskOf(c) : c \in In(Ready(main))}
      /\ main' = Without(main, In(Ready(main)))
      /\ UNCHANGED <<msgs, delayed, dlq, held, hand, oper, timedOut, succeeded, failed,
                     ran, reran, closes>>
  BY DEF PurgeQueue
<1>3. main \in Seq(Copies) /\ delayed \in Seq(Copies) /\ dlq \in Seq(Copies)
  BY <1>1 DEF Types
<1>4. In(Ready(main)) = In(main) \ HeldCopies
  BY <1>1, <1>3, ReadyIn
<1>5. main' \in Seq(Copies) /\ In(main') = In(main) \ (In(main) \ HeldCopies)
  BY <1>2, <1>3, <1>4, WithoutIn
<1>6. gone \subseteq gone' /\ gone' \subseteq Tasks
  BY <1>1, <1>2, <1>4, InCopies, CopiesAre DEF Types, Histories
<1>7. closes' \in Nat /\ ops' \in Nat /\ closes' + ops' <= MaxEvents
  BY <1>1, FailsBounded DEF PurgeQueue, Types
<1>8. Histories'
  BY <1>1, <1>2, <1>6, <1>7 DEF Types, Histories, Copies
<1>9. QueuesApart'
  BY <1>1, <1>2, <1>5 DEF QueuesApart
<1>10. \A w \in Workers : held[w] \subseteq In(main')
  BY <1>1, <1>5 DEF HeldApart, HeldCopies, Holders
<1>11. Shape' /\ Grows
  BY <1>1, <1>2, <1>3, <1>5, <1>6, <1>8, <1>9, <1>10, QueuesShape DEF HeldApart, In
<1> QED
  BY <1>2, <1>4, <1>5, <1>11 DEF In

LEMMA PurgeDlqShape ==
    ASSUME Shape, PurgeDlq
    PROVE  /\ Shape' /\ Grows
           /\ In(dlq)' = In(dlq) \cap HeldCopies
           /\ gone' = gone \cup {TaskOf(c) : c \in In(dlq) \ HeldCopies}
<1>1. Types /\ QueuesApart /\ HeldApart
  BY DEF Shape
<1>2. /\ gone' = gone \cup {TaskOf(c) : c \in In(Ready(dlq))}
      /\ dlq' = Without(dlq, In(Ready(dlq)))
      /\ UNCHANGED <<msgs, main, delayed, held, hand, oper, timedOut, succeeded, failed,
                     ran, reran, closes>>
  BY DEF PurgeDlq
<1>3. main \in Seq(Copies) /\ delayed \in Seq(Copies) /\ dlq \in Seq(Copies)
  BY <1>1 DEF Types
<1>4. In(Ready(dlq)) = In(dlq) \ HeldCopies
  BY <1>1, <1>3, ReadyIn
<1>5. dlq' \in Seq(Copies) /\ In(dlq') = In(dlq) \ (In(dlq) \ HeldCopies)
  BY <1>2, <1>3, <1>4, WithoutIn
<1>6. gone \subseteq gone' /\ gone' \subseteq Tasks
  BY <1>1, <1>2, <1>4, InCopies, CopiesAre DEF Types, Histories
<1>7. closes' \in Nat /\ ops' \in Nat /\ closes' + ops' <= MaxEvents
  BY <1>1, FailsBounded DEF PurgeDlq, Types
<1>8. Histories'
  BY <1>1, <1>2, <1>6, <1>7 DEF Types, Histories, Copies
<1>9. QueuesApart'
  BY <1>1, <1>2, <1>5 DEF QueuesApart
<1>10. \A k \in Channels : held[k] \subseteq In(dlq')
  BY <1>1, <1>5 DEF HeldApart, HeldCopies, Holders
<1>11. Shape' /\ Grows
  BY <1>1, <1>2, <1>3, <1>5, <1>6, <1>8, <1>9, <1>10, QueuesShape DEF HeldApart, In
<1> QED
  BY <1>2, <1>4, <1>5, <1>11 DEF In

--------------------------------------------------------------------------------
(* The shape of the state is kept: the DLQ operations.                     *)

\* An operation goes on with a channel of its own and what it has fetched there.
Fits(o) ==
    /\ oper'[o].at \in OpAt =>
          /\ oper'[o].chan \in Channels
          /\ oper'[o].got \cup ({oper'[o].target} \ {0}) \subseteq held'[oper'[o].chan]
          /\ \/ HasChannel(o) /\ oper[o].chan = oper'[o].chan
             \/ \A q \in Operators : HasChannel(q) => oper[q].chan # oper'[o].chan
    /\ oper'[o].at \notin OpAt => oper'[o].got = {} /\ oper'[o].target = 0
    /\ oper'[o].at = "scan" => oper'[o].target = 0
    /\ oper'[o].at \in {"publish", "settle"} => oper'[o].target # 0
    /\ oper'[o].target # 0 => /\ oper'[o].target \in Copies \ oper'[o].got
                              /\ oper'[o].task = TaskOf(oper'[o].target)

LEMMA OpersNext ==
    ASSUME Shape, Grows, NEW o \in Operators, Fits(o),
           \A q \in Operators : q # o => Proceeds(q)
    PROVE  Opers'
<1>1. /\ \A q \in Operators : HasChannel(q) => oper[q].chan \in Channels
      /\ \A q \in Operators : HasChannel(q) => Fetched(q) \subseteq held[oper[q].chan]
      /\ \A q \in Operators : ~HasChannel(q) => oper[q].got = {} /\ oper[q].target = 0
      /\ \A q \in Operators : oper[q].at = "scan" => oper[q].target = 0
      /\ \A q \in Operators : oper[q].at \in {"publish", "settle"} => oper[q].target # 0
      /\ \A q \in Operators : oper[q].target # 0 => /\ oper[q].task = TaskOf(oper[q].target)
                                                   /\ oper[q].target \notin oper[q].got
      /\ \A p, q \in Operators :
            HasChannel(p) /\ HasChannel(q) /\ p # q => oper[p].chan # oper[q].chan
  BY DEF Shape, Opers
<1>2. \A q \in Operators : oper[q].target # 0 => oper[q].target \in Copies
  <2> SUFFICES ASSUME NEW q \in Operators, oper[q].target # 0
               PROVE  oper[q].target \in Copies
    OBVIOUS
  <2>1. HasChannel(q) /\ oper[q].target \in Fetched(q)
    BY <1>1 DEF Fetched
  <2>2. held[oper[q].chan] \subseteq Copies
    BY <1>1, <2>1 DEF Shape, Types, Holders
  <2> QED
    BY <1>1, <2>1, <2>2
<1>3. \A c \in Copies : TaskOf(c)' = TaskOf(c)
  BY DEF Grows, TaskOf
<1>4. (\A q \in Operators : HasChannel(q) => oper[q].chan \in Channels
                                         /\ Fetched(q) \subseteq held[oper[q].chan])'
  <2> SUFFICES ASSUME NEW q \in Operators, oper'[q].at \in OpAt
               PROVE  /\ oper'[q].chan \in Channels
                      /\ oper'[q].got \cup ({oper'[q].target} \ {0})
                            \subseteq held'[oper'[q].chan]
    BY DEF HasChannel, Fetched
  <2>1. CASE q = o
    BY <2>1 DEF Fits
  <2>2. CASE q # o
    BY <1>1, <2>2 DEF Proceeds, NoOp, HasChannel, OpAt, Fetched
  <2> QED
    BY <2>1, <2>2
<1>5. (\A q \in Operators : ~HasChannel(q) => oper[q].got = {} /\ oper[q].target = 0)'
  <2> SUFFICES ASSUME NEW q \in Operators, oper'[q].at \notin OpAt
               PROVE  oper'[q].got = {} /\ oper'[q].target = 0
    BY DEF HasChannel
  <2>1. CASE q = o
    BY <2>1 DEF Fits
  <2>2. CASE q # o
    BY <1>1, <2>2 DEF Proceeds, NoOp, HasChannel
  <2> QED
    BY <2>1, <2>2
<1>6. (\A q \in Operators : oper[q].at = "scan" => oper[q].target = 0)'
  BY <1>1 DEF Proceeds, NoOp, Fits
<1>7. (\A q \in Operators : oper[q].at \in {"publish", "settle"} => oper[q].target # 0)'
  BY <1>1 DEF Proceeds, NoOp, Fits
<1>8. (\A q \in Operators : oper[q].target # 0 => /\ oper[q].task = TaskOf(oper[q].target)
                                                 /\ oper[q].target \notin oper[q].got)'
  <2> SUFFICES ASSUME NEW q \in Operators, oper'[q].target # 0
               PROVE  /\ oper'[q].task = msgs'[oper'[q].target].task
                      /\ oper'[q].target \notin oper'[q].got
    BY DEF TaskOf
  <2>1. CASE q = o
    BY <1>3, <2>1 DEF Fits, TaskOf
  <2>2. CASE q # o
    BY <1>1, <1>2, <1>3, <2>2 DEF Proceeds, NoOp, TaskOf
  <2> QED
    BY <2>1, <2>2
<1>9. (\A p, q \in Operators :
          HasChannel(p) /\ HasChannel(q) /\ p # q => oper[p].chan # oper[q].chan)'
  <2>1. \A q \in Operators : q # o /\ oper'[q].at \in OpAt =>
           HasChannel(q) /\ oper'[q].chan = oper[q].chan
    BY DEF Proceeds, NoOp, HasChannel, OpAt
  <2>2. \A q \in Operators : q # o /\ oper'[q].at \in OpAt /\ oper'[o].at \in OpAt =>
           oper'[q].chan # oper'[o].chan
    BY <1>1, <2>1 DEF Fits
  <2>3. \A p, q \in Operators :
           p # o /\ q # o /\ p # q /\ oper'[p].at \in OpAt /\ oper'[q].at \in OpAt =>
              oper'[p].chan # oper'[q].chan
    BY <1>1, <2>1
  <2> QED
    BY <2>2, <2>3 DEF HasChannel
<1> QED
  BY <1>4, <1>5, <1>6, <1>7, <1>8, <1>9 DEF Opers

\* An operation changes the DLQ and what it holds there; the workers go on.
LEMMA OperShape ==
    ASSUME Shape, NEW o \in Operators,
           UNCHANGED <<msgs, main, delayed, hand, succeeded, ran>>, gone \subseteq gone',
           dlq' \in Seq(Copies), In(dlq)' \subseteq In(dlq),
           held' \in [Holders -> SUBSET Copies],
           \A w \in Workers : held'[w] = held[w],
           oper' \in [Operators -> Operation], Histories', HeldApart',
           Fits(o), \A q \in Operators : q # o => Proceeds(q)
    PROVE  Shape' /\ Grows
<1>1. Types /\ QueuesApart /\ Hands
  BY DEF Shape
<1>2. Copies' = Copies /\ Grows
  BY DEF Grows, Copies
<1>3. Types'
  BY <1>1, <1>2 DEF Types
<1>4. QueuesApart'
  BY <1>1 DEF QueuesApart
<1>5. \A s \in Slots : Follows(s)
  BY <1>1, HandStays DEF Hands, Slots
<1>6. Hands'
  BY <1>2, <1>5, HandsStep
<1>7. Opers'
  BY <1>2, OpersNext
<1> QED
  BY <1>2, <1>3, <1>4, <1>6, <1>7 DEF Shape

\* An operation whose channel and copies stay makes room for others.
LEMMA OthersProceed ==
    ASSUME Shape, NEW o \in Operators, \A q \in Operators : q # o => oper'[q] = oper[q],
           HasChannel(o) => \A h \in Holders : h # oper[o].chan => held'[h] = held[h],
           ~HasChannel(o) => held' = held
    PROVE  \A q \in Operators : q # o => Proceeds(q)
<1> SUFFICES ASSUME NEW q \in Operators, q # o
             PROVE  Proceeds(q)
  OBVIOUS
<1>1. HasChannel(q) => oper[q].chan \in Holders
  BY DEF Shape, Opers, Holders
<1>2. HasChannel(q) /\ HasChannel(o) => oper[q].chan # oper[o].chan
  BY DEF Shape, Opers
<1> QED
  BY <1>1, <1>2, OperStays

\* What an operation may let go: some of the copies of its channel.
LEMMA GiveBack ==
    ASSUME Shape, NEW o \in Operators, HasChannel(o), NEW G,
           held' = [held EXCEPT ![oper[o].chan] = @ \ G]
    PROVE  /\ oper[o].chan \in Channels
           /\ held' \in [Holders -> SUBSET Copies]
           /\ held'[oper[o].chan] = held[oper[o].chan] \ G
           /\ \A h \in Holders : h # oper[o].chan => held'[h] = held[h]
           /\ \A h \in Holders : held'[h] \subseteq held[h]
           /\ \A w \in Workers : held'[w] = held[w]
<1>1. oper[o].chan \in Channels /\ oper[o].chan \in Holders /\ oper[o].chan \notin Workers
  BY RabbitAssumption DEF Shape, Opers, Holders
<1>2. held \in [Holders -> SUBSET Copies]
  BY DEF Shape, Types
<1> QED
  BY <1>1, <1>2 DEF Holders

LEMMA CallShape ==
    ASSUME Shape, NEW o \in Operators, Call(o)
    PROVE  Shape' /\ Grows
<1>1. Types /\ HeldApart /\ Opers
  BY DEF Shape
<1>2. /\ oper[o] = NoOp /\ ops' = ops + 1 /\ closes + ops < MaxEvents
      /\ UNCHANGED <<msgs, main, delayed, dlq, held, hand, timedOut, succeeded, failed, gone,
                     ran, reran, closes>>
  BY DEF Call, queueVars, historyVars
<1>3. PICK rec : /\ oper' = [oper EXCEPT ![o] = rec]
                 /\ rec \in Operation /\ rec.at = "acquire" /\ rec.got = {}
                 /\ rec.target = 0
  <2>1. CASE \E k \in {"replay", "delete"}, t \in Tasks :
                Step(o, [NoOp EXCEPT !.at = "acquire", !.kind = k, !.task = t])
    <3>1. PICK k \in {"replay", "delete"}, t \in Tasks :
             Step(o, [NoOp EXCEPT !.at = "acquire", !.kind = k, !.task = t])
      BY <2>1
    <3> DEFINE rec == [NoOp EXCEPT !.at = "acquire", !.kind = k, !.task = t]
    <3>2. rec \in Operation /\ rec.at = "acquire" /\ rec.got = {} /\ rec.target = 0
      BY DEF NoOp, Operation
    <3> HIDE DEF rec
    <3>3. oper' = [oper EXCEPT ![o] = rec]
      BY <3>1 DEF Step, rec
    <3> QED
      BY <3>2, <3>3
  <2>2. CASE Step(o, [NoOp EXCEPT !.at = "acquire", !.kind = "list"])
    <3> DEFINE rec == [NoOp EXCEPT !.at = "acquire", !.kind = "list"]
    <3>1. rec \in Operation /\ rec.at = "acquire" /\ rec.got = {} /\ rec.target = 0
      BY DEF NoOp, Operation
    <3>2. oper' = [oper EXCEPT ![o] = rec]
      BY <2>2 DEF Step
    <3> HIDE DEF rec
    <3> QED
      BY <3>1, <3>2
  <2> QED
    BY <2>1, <2>2 DEF Call
<1>4. /\ oper' \in [Operators -> Operation] /\ oper'[o] = rec
      /\ \A q \in Operators : q # o => oper'[q] = oper[q]
  BY <1>1, <1>3 DEF Types
<1>5. closes' \in Nat /\ ops' \in Nat /\ closes' + ops' <= MaxEvents
  BY <1>1, <1>2, FailsBounded DEF Types
<1>6. Histories'
  BY <1>1, <1>2, <1>5 DEF Types, Histories, Copies
<1>7. Fits(o)
  BY <1>3, <1>4 DEF Fits, OpAt
<1>8. \A q \in Operators : q # o => Proceeds(q)
  BY <1>2, <1>4, OthersProceed
<1>9. HeldApart'
  BY <1>1, <1>2 DEF HeldApart
<1> QED
  BY <1>1, <1>2, <1>4, <1>6, <1>7, <1>8, <1>9, OperShape DEF Types

LEMMA AcquireShape ==
    ASSUME Shape, NEW o \in Operators, Acquire(o)
    PROVE  Shape' /\ Grows
<1> DEFINE k == CHOOSE x \in Free : TRUE
           rec == [oper[o] EXCEPT !.at = "scan", !.chan = k]
<1>1. Types /\ HeldApart /\ Opers
  BY DEF Shape
<1>2. /\ oper[o].at = "acquire" /\ oper' = [oper EXCEPT ![o] = rec]
      /\ UNCHANGED <<msgs, main, delayed, dlq, held, hand, timedOut, succeeded, failed, gone,
                     ran, reran, closes, ops>>
  BY DEF Acquire, Step, queueVars, historyVars, boundVars
<1>3. k \in Channels /\ \A q \in Operators : HasChannel(q) => oper[q].chan # k
  <2>1. k \in Free
    BY DEF Acquire
  <2> QED
    BY <2>1 DEF Free
<1> HIDE DEF k
<1>4. oper[o] \in Operation /\ ~HasChannel(o)
  BY <1>1, <1>2 DEF Types, HasChannel, OpAt
<1>5. oper[o].got = {} /\ oper[o].target = 0
  BY <1>1, <1>4 DEF Opers
<1>6. /\ rec \in Operation /\ rec.at = "scan" /\ rec.chan = k /\ rec.got = {}
      /\ rec.target = 0
  BY <1>3, <1>4, <1>5 DEF Operation, OpAt
<1> HIDE DEF rec
<1>7. /\ oper' \in [Operators -> Operation] /\ oper'[o] = rec
      /\ \A q \in Operators : q # o => oper'[q] = oper[q]
  BY <1>1, <1>2, <1>6 DEF Types
<1>8. Histories'
  BY <1>1, <1>2 DEF Types, Histories, Copies
<1>9. Fits(o)
  BY <1>3, <1>6, <1>7 DEF Fits, OpAt
<1>10. \A q \in Operators : q # o => Proceeds(q)
  BY <1>2, <1>4, <1>7, OthersProceed
<1>11. HeldApart'
  BY <1>1, <1>2 DEF HeldApart
<1> QED
  BY <1>1, <1>2, <1>7, <1>8, <1>9, <1>10, <1>11, OperShape DEF Types

LEMMA NotFoundShape ==
    ASSUME Shape, NEW o \in Operators, NotFound(o)
    PROVE  Shape' /\ Grows
<1> DEFINE rec == [oper[o] EXCEPT !.at = "requeue"]
<1>1. Types /\ HeldApart /\ Opers
  BY DEF Shape
<1>2. /\ oper[o].at = "scan" /\ oper' = [oper EXCEPT ![o] = rec]
      /\ UNCHANGED <<msgs, main, delayed, dlq, held, hand, timedOut, succeeded, failed, gone,
                     ran, reran, closes, ops>>
  BY DEF NotFound, Step, queueVars, historyVars, boundVars
<1>3. oper[o] \in Operation /\ HasChannel(o) /\ oper[o].target = 0
  BY <1>1, <1>2 DEF Types, HasChannel, OpAt, Opers
<1>4. /\ rec \in Operation /\ rec.at = "requeue" /\ rec.chan = oper[o].chan
      /\ rec.got = oper[o].got /\ rec.target = 0
  BY <1>3 DEF Operation, OpAt
<1> HIDE DEF rec
<1>5. /\ oper' \in [Operators -> Operation] /\ oper'[o] = rec
      /\ \A q \in Operators : q # o => oper'[q] = oper[q]
  BY <1>1, <1>2, <1>4 DEF Types
<1>6. Histories'
  BY <1>1, <1>2 DEF Types, Histories, Copies
<1>7. Fits(o)
  BY <1>1, <1>2, <1>3, <1>4, <1>5 DEF Fits, OpAt, Opers, Fetched
<1>8. \A q \in Operators : q # o => Proceeds(q)
  BY <1>2, <1>5, OthersProceed
<1>9. HeldApart'
  BY <1>1, <1>2 DEF HeldApart
<1> QED
  BY <1>1, <1>2, <1>5, <1>6, <1>7, <1>8, <1>9, OperShape DEF Types

LEMMA NoOpIs ==
    /\ NoOp \in Operation /\ NoOp.at = "idle" /\ NoOp.got = {} /\ NoOp.target = 0
    /\ NoOp.at \notin OpAt
BY DEF NoOp, Operation, OpAt

\* A fetch, as far as it is not a deletion.
Fetches(o) ==
    LET op == oper[o]
        c == Head(Ready(dlq))
        hit == op.kind # "list" /\ TaskOf(c) = op.task
    IN  /\ UNCHANGED <<dlq, gone>>
        /\ held' = [held EXCEPT ![op.chan] = @ \cup {c}]
        /\ oper' = [oper EXCEPT ![o] = [op EXCEPT
              !.n = @ + 1,
              !.at = IF hit \/ op.kind = "list" THEN "requeue" ELSE "scan",
              !.got = IF hit THEN @ ELSE @ \cup {c},
              !.target = IF hit THEN c ELSE 0]]

\* A deletion removes the copy from the DLQ.
Deletes(o) ==
    LET op == oper[o]
        c == Head(Ready(dlq))
    IN  /\ TaskOf(c) = op.task
        /\ dlq' = Without(dlq, {c}) /\ gone' = gone \cup {op.task} /\ UNCHANGED held
        /\ oper' = [oper EXCEPT ![o] = [op EXCEPT !.n = @ + 1, !.at = "requeue", !.target = 0]]

LEMMA FetchIs ==
    ASSUME Types, NEW o \in Operators, Fetch(o)
    PROVE  /\ Fetches(o) \/ Deletes(o)
           /\ oper[o].at = "scan" /\ Ready(dlq) # <<>>
           /\ UNCHANGED <<msgs, main, delayed, hand, timedOut, succeeded, failed, ran, reran,
                          closes, ops>>
<1> DEFINE op == oper[o]
           c == Head(Ready(dlq))
           hit == op.kind # "list" /\ TaskOf(c) = op.task
           deleted == hit /\ op.kind = "delete"
<1>1. /\ op.at = "scan" /\ Ready(dlq) # <<>>
      /\ UNCHANGED <<msgs, main, delayed, hand, timedOut, succeeded, failed, ran, reran,
                     closes, ops>>
  BY DEF Fetch, boundVars
<1>2. /\ dlq' = IF deleted THEN Without(dlq, {c}) ELSE dlq
      /\ gone' = IF deleted THEN gone \cup {op.task} ELSE gone
      /\ held' = IF deleted THEN held ELSE [held EXCEPT ![op.chan] = @ \cup {c}]
  BY DEF Fetch
<1>3. oper' = [oper EXCEPT ![o] = [op EXCEPT
         !.n = @ + 1,
         !.at = IF hit \/ op.kind = "list" THEN "requeue" ELSE "scan",
         !.got = IF hit THEN @ ELSE @ \cup {c},
         !.target = IF hit /\ ~deleted THEN c ELSE 0]]
  BY DEF Fetch, Step
<1>4. op \in Operation
  BY DEF Types
<1>5. CASE deleted
  <2>1. [op EXCEPT !.n = @ + 1,
                   !.at = IF hit \/ op.kind = "list" THEN "requeue" ELSE "scan",
                   !.got = IF hit THEN @ ELSE @ \cup {c},
                   !.target = IF hit /\ ~deleted THEN c ELSE 0]
        = [op EXCEPT !.n = @ + 1, !.at = "requeue", !.target = 0]
    BY <1>4, <1>5 DEF Operation
  <2> QED
    BY <1>1, <1>2, <1>3, <1>5, <2>1 DEF Deletes
<1>6. CASE ~deleted
  <2>1. (IF hit /\ ~deleted THEN c ELSE 0) = (IF hit THEN c ELSE 0)
    BY <1>6
  <2> QED
    BY <1>1, <1>2, <1>3, <1>6, <2>1 DEF Fetches
<1> QED
  BY <1>1, <1>5, <1>6

\* What a fetch that deletes nothing does, said of the channel and of the operation.
Fetched1(o, c) ==
    /\ c \in In(dlq) \ HeldCopies /\ c \in Copies
    /\ oper[o].chan \in Channels
    /\ held' \in [Holders -> SUBSET Copies]
    /\ held'[oper[o].chan] = held[oper[o].chan] \cup {c}
    /\ \A h \in Holders : h # oper[o].chan => held'[h] = held[h]
    /\ oper' \in [Operators -> Operation]
    /\ \A q \in Operators : q # o => oper'[q] = oper[q]
    /\ oper'[o].chan = oper[o].chan /\ oper'[o].task = oper[o].task
    /\ \/ /\ TaskOf(c) = oper[o].task /\ oper'[o].at = "requeue"
          /\ oper'[o].got = oper[o].got /\ oper'[o].target = c
       \/ /\ oper'[o].at \in {"scan", "requeue"}
          /\ oper'[o].got = oper[o].got \cup {c} /\ oper'[o].target = 0

LEMMA FetchesDoes ==
    ASSUME Shape, NEW o \in Operators, oper[o].at = "scan", Ready(dlq) # <<>>, Fetches(o)
    PROVE  Fetched1(o, Head(Ready(dlq)))
<1> DEFINE op == oper[o]
           c == Head(Ready(dlq))
           hit == op.kind # "list" /\ TaskOf(c) = op.task
           rec == [op EXCEPT
              !.n = @ + 1,
              !.at = IF hit \/ op.kind = "list" THEN "requeue" ELSE "scan",
              !.got = IF hit THEN @ ELSE @ \cup {c},
              !.target = IF hit THEN c ELSE 0]
<1>1. Types /\ Opers
  BY DEF Shape
<1>2. c \in In(dlq) \ HeldCopies /\ c \in Copies /\ c \in Nat
  BY <1>1, ReadyIn, InCopies, CopiesAre DEF Types
<1>3. op \in Operation /\ op.chan \in Channels /\ op.chan \in Holders
  BY <1>1 DEF Types, Opers, HasChannel, OpAt, Holders
<1>4. held' = [held EXCEPT ![op.chan] = @ \cup {c}] /\ oper' = [oper EXCEPT ![o] = rec]
  BY DEF Fetches
<1> HIDE DEF c
<1>5. /\ rec \in Operation /\ rec.chan = op.chan /\ rec.task = op.task
      /\ rec.at = IF hit \/ op.kind = "list" THEN "requeue" ELSE "scan"
      /\ rec.got = IF hit THEN op.got ELSE op.got \cup {c}
      /\ rec.target = IF hit THEN c ELSE 0
  <2>1. op.n \in Nat /\ op.n + 1 \in Nat /\ op.got \subseteq Nat
    BY <1>3 DEF Operation
  <2>2. (IF hit THEN op.got ELSE op.got \cup {c}) \subseteq Nat
    BY <1>2, <2>1
  <2>3. (IF hit THEN c ELSE 0) \in Nat
    BY <1>2
  <2>4. (IF hit \/ op.kind = "list" THEN "requeue" ELSE "scan") \in OpAt
    BY DEF OpAt
  <2> QED
    BY <1>3, <2>1, <2>2, <2>3, <2>4 DEF Operation
<1> HIDE DEF rec
<1>6. /\ oper' \in [Operators -> Operation] /\ oper'[o] = rec
      /\ \A q \in Operators : q # o => oper'[q] = oper[q]
  BY <1>1, <1>4, <1>5 DEF Types
<1>7. /\ held' \in [Holders -> SUBSET Copies] /\ held'[op.chan] = held[op.chan] \cup {c}
      /\ \A h \in Holders : h # op.chan => held'[h] = held[h]
  BY <1>1, <1>2, <1>3, <1>4 DEF Types
<1>8. \/ TaskOf(c) = op.task /\ rec.at = "requeue" /\ rec.got = op.got /\ rec.target = c
      \/ rec.at \in {"scan", "requeue"} /\ rec.got = op.got \cup {c} /\ rec.target = 0
  BY <1>5
<1> QED
  BY <1>2, <1>3, <1>5, <1>6, <1>7, <1>8 DEF Fetched1, c

\* What a deletion does, said of the DLQ and of the operation.
Deleted1(o, c) ==
    /\ c \in In(dlq) \ HeldCopies /\ TaskOf(c) = oper[o].task /\ oper[o].task \in Tasks
    /\ dlq' \in Seq(Copies) /\ In(dlq)' = In(dlq) \ {c}
    /\ gone' = gone \cup {TaskOf(c)} /\ held' = held
    /\ oper' \in [Operators -> Operation]
    /\ \A q \in Operators : q # o => oper'[q] = oper[q]
    /\ oper'[o].chan = oper[o].chan /\ oper'[o].at = "requeue"
    /\ oper'[o].got = oper[o].got /\ oper'[o].target = 0

LEMMA DeletesDoes ==
    ASSUME Shape, NEW o \in Operators, oper[o].at = "scan", Ready(dlq) # <<>>, Deletes(o)
    PROVE  Deleted1(o, Head(Ready(dlq)))
<1> DEFINE op == oper[o]
           c == Head(Ready(dlq))
           rec == [op EXCEPT !.n = @ + 1, !.at = "requeue", !.target = 0]
<1>1. Types
  BY DEF Shape
<1>2. dlq \in Seq(Copies)
  BY <1>1 DEF Types
<1>3. c \in In(dlq) \ HeldCopies /\ c \in Copies /\ TaskOf(c) \in Tasks
  BY <1>1, <1>2, ReadyIn, InCopies, CopiesAre
<1>4. /\ TaskOf(c) = op.task /\ dlq' = Without(dlq, {c}) /\ gone' = gone \cup {op.task}
      /\ held' = held /\ oper' = [oper EXCEPT ![o] = rec]
  BY DEF Deletes
<1> HIDE DEF c
<1>5. dlq' \in Seq(Copies) /\ In(dlq') = In(dlq) \ {c}
  BY <1>2, <1>4, WithoutIn
<1>6. op \in Operation
  BY <1>1 DEF Types
<1>7. /\ rec \in Operation /\ rec.chan = op.chan /\ rec.at = "requeue" /\ rec.got = op.got
      /\ rec.target = 0
  <2>1. op.n \in Nat /\ op.n + 1 \in Nat /\ "requeue" \in OpAt /\ 0 \in Nat
    BY <1>6 DEF Operation, OpAt
  <2> QED
    BY <1>6, <2>1 DEF Operation
<1> HIDE DEF rec
<1>8. /\ oper' \in [Operators -> Operation] /\ oper'[o] = rec
      /\ \A q \in Operators : q # o => oper'[q] = oper[q]
  BY <1>1, <1>4, <1>7 DEF Types
<1> QED
  BY <1>3, <1>4, <1>5, <1>7, <1>8 DEF Deleted1, c, In

LEMMA FetchShape ==
    ASSUME Shape, NEW o \in Operators, Fetch(o)
    PROVE  Shape' /\ Grows
<1>1. Types /\ HeldApart /\ Opers
  BY DEF Shape
<1>2. /\ Fetches(o) \/ Deletes(o)
      /\ oper[o].at = "scan" /\ Ready(dlq) # <<>>
      /\ UNCHANGED <<msgs, main, delayed, hand, timedOut, succeeded, failed, ran, reran,
                     closes, ops>>
  BY <1>1, FetchIs
<1>3. HasChannel(o) /\ oper[o].target = 0 /\ oper[o].chan \in Channels
      /\ Fetched(o) \subseteq held[oper[o].chan] /\ oper[o].got \subseteq Fetched(o)
  BY <1>1, <1>2 DEF HasChannel, OpAt, Opers, Fetched
<1>4. oper[o].chan \in Holders /\ oper[o].chan \notin Workers
  BY <1>3, RabbitAssumption DEF Holders
<1>5. PICK c : c = Head(Ready(dlq))
  OBVIOUS
<1>6. CASE Fetches(o)
  <2>1. Fetched1(o, c)
    BY <1>2, <1>5, <1>6, FetchesDoes
  <2>2. dlq' = dlq /\ gone' = gone
    BY <1>6 DEF Fetches
  <2>3. \A w \in Workers : held'[w] = held[w]
    BY <1>4, <2>1 DEF Fetched1, Holders
  <2>4. Histories'
    BY <1>1, <1>2, <2>2 DEF Types, Histories, Copies
  <2>5. HeldApart'
    <3>1. \A h \in Holders : c \notin held[h]
      BY <2>1 DEF Fetched1, HeldCopies
    <3>2. \A w \in Workers : held'[w] \subseteq In(main)' /\ Cardinality(held'[w]) <= Prefetch
      BY <1>1, <1>2, <2>3 DEF HeldApart
    <3>3. \A k \in Channels : held'[k] \subseteq In(dlq)'
      BY <1>1, <2>1, <2>2 DEF HeldApart, Fetched1, Holders
    <3>4. \A g, h \in Holders : g # h => held'[g] \cap held'[h] = {}
      BY <1>1, <2>1, <3>1 DEF HeldApart, Fetched1
    <3> QED
      BY <3>2, <3>3, <3>4 DEF HeldApart
  <2>6. Fits(o)
    <3>1. oper'[o].got \subseteq held'[oper'[o].chan]
      BY <1>3, <2>1 DEF Fetched1
    <3>2. {oper'[o].target} \ {0} \subseteq held'[oper'[o].chan]
      BY <2>1 DEF Fetched1
    <3>3. oper'[o].at \in {"scan", "requeue"} /\ oper'[o].chan = oper[o].chan
      BY <2>1 DEF Fetched1
    <3>4. oper'[o].at = "scan" => oper'[o].target = 0
      BY <2>1 DEF Fetched1
    <3>5. oper'[o].target # 0 => /\ oper'[o].target \in Copies \ oper'[o].got
                                 /\ oper'[o].task = TaskOf(oper'[o].target)
      <4>1. c \notin oper[o].got
        BY <1>3, <1>4, <2>1 DEF Fetched1, HeldCopies
      <4> QED
        BY <2>1, <4>1 DEF Fetched1
    <3> QED
      BY <1>3, <3>1, <3>2, <3>3, <3>4, <3>5 DEF Fits, OpAt
  <2>7. \A q \in Operators : q # o => Proceeds(q)
    BY <1>3, <2>1, OthersProceed DEF Fetched1
  <2>8. dlq' \in Seq(Copies) /\ In(dlq)' \subseteq In(dlq)
    BY <1>1, <2>2 DEF Types
  <2> QED
    BY <1>2, <2>1, <2>2, <2>3, <2>4, <2>5, <2>6, <2>7, <2>8, OperShape DEF Fetched1
<1>7. CASE Deletes(o)
  <2>1. Deleted1(o, c)
    BY <1>2, <1>5, <1>7, DeletesDoes
  <2>2. gone \subseteq gone' /\ gone' \subseteq Tasks
    BY <1>1, <2>1 DEF Deleted1, Types, Histories
  <2>3. Histories'
    BY <1>1, <1>2, <2>2 DEF Types, Histories, Copies
  <2>4. HeldApart'
    <3>1. \A k \in Channels : held[k] \subseteq In(dlq)'
      BY <1>1, <2>1 DEF Deleted1, HeldApart, HeldCopies, Holders
    <3> QED
      BY <1>1, <1>2, <2>1, <3>1 DEF HeldApart, Deleted1
  <2>5. Fits(o)
    BY <1>3, <2>1 DEF Fits, OpAt, Deleted1
  <2>6. \A q \in Operators : q # o => Proceeds(q)
    BY <2>1, OthersProceed DEF Deleted1
  <2> QED
    BY <1>1, <1>2, <2>1, <2>2, <2>3, <2>4, <2>5, <2>6, OperShape DEF Deleted1, Types
<1> QED
  BY <1>2, <1>6, <1>7

\* An operation that gives back copies, G of them, and keeps the rest or ends.
LEMMA GiveBackShape ==
    ASSUME Shape, NEW o \in Operators, HasChannel(o), NEW G,
           held' = [held EXCEPT ![oper[o].chan] = @ \ G],
           NEW rec \in Operation, oper' = [oper EXCEPT ![o] = rec],
           \/ rec = NoOp
           \/ /\ rec.at \in {"publish", "scan"} /\ rec.chan = oper[o].chan /\ rec.got = {}
              /\ rec.target = oper[o].target /\ rec.task = oper[o].task
              /\ rec.at = "scan" <=> rec.target = 0
              /\ rec.target # 0 => rec.target \notin G,
           UNCHANGED <<msgs, main, delayed, hand, succeeded, ran>>, gone \subseteq gone',
           dlq' \in Seq(Copies), In(dlq)' \subseteq In(dlq),
           Histories', \A k \in Channels : held'[k] \subseteq In(dlq)'
    PROVE  Shape' /\ Grows
<1>1. Types /\ HeldApart /\ Opers
  BY DEF Shape
<1>2. /\ oper[o].chan \in Channels
      /\ held' \in [Holders -> SUBSET Copies]
      /\ held'[oper[o].chan] = held[oper[o].chan] \ G
      /\ \A h \in Holders : h # oper[o].chan => held'[h] = held[h]
      /\ \A h \in Holders : held'[h] \subseteq held[h]
      /\ \A w \in Workers : held'[w] = held[w]
  BY GiveBack
<1>3. /\ oper' \in [Operators -> Operation] /\ oper'[o] = rec
      /\ \A q \in Operators : q # o => oper'[q] = oper[q]
  BY <1>1 DEF Types
<1>4. HeldApart'
  <2>1. \A w \in Workers : held'[w] \subseteq In(main)'
    BY <1>1, <1>2 DEF HeldApart
  <2>2. Copies' = Copies
    BY DEF Copies
  <2> QED
    BY <1>2, <2>1, <2>2, HeldStep
<1>5. Fits(o)
  <2>1. CASE rec = NoOp
    BY <1>3, <2>1, NoOpIs DEF Fits
  <2>2. CASE rec # NoOp
    <3>1. Fetched(o) \subseteq held[oper[o].chan]
      BY <1>1 DEF Opers
    <3>2. rec.target # 0 => /\ rec.target \in held[oper[o].chan]
                            /\ rec.task = TaskOf(rec.target)
      BY <1>1, <2>2, <3>1 DEF Fetched, Opers
    <3>3. held[oper[o].chan] \subseteq Copies
      BY <1>1, <1>2 DEF Types, Holders
    <3>4. rec.target # 0 => rec.target \in held'[oper[o].chan] /\ rec.target \in Copies
      BY <1>2, <2>2, <3>2, <3>3
    <3>5. rec.at \in {"publish", "scan"} /\ rec.chan = oper[o].chan /\ rec.got = {}
          /\ (rec.at = "scan" <=> rec.target = 0)
      BY <2>2
    <3> QED
      BY <1>2, <1>3, <3>2, <3>4, <3>5 DEF Fits, OpAt
  <2> QED
    BY <2>1, <2>2
<1>6. \A q \in Operators : q # o => Proceeds(q)
  BY <1>2, <1>3, OthersProceed
<1> QED
  BY <1>2, <1>3, <1>4, <1>5, <1>6, OperShape

LEMMA RequeueShape ==
    ASSUME Shape, NEW o \in Operators, Requeue(o)
    PROVE  Shape' /\ Grows
<1> DEFINE op == oper[o]
<1>1. Types /\ HeldApart /\ Opers
  BY DEF Shape
<1>2. /\ op.at = "requeue" /\ held' = [held EXCEPT ![op.chan] = @ \ op.got]
      /\ UNCHANGED <<msgs, main, delayed, dlq, hand, timedOut, succeeded, failed, gone, ran,
                     reran, closes, ops>>
  BY DEF Requeue, queueVars, historyVars, boundVars
<1>3. op \in Operation /\ HasChannel(o)
  BY <1>1, <1>2 DEF Types, HasChannel, OpAt
<1>4. Histories'
  BY <1>1, <1>2 DEF Types, Histories, Copies
<1>5. \A k \in Channels : held'[k] \subseteq In(dlq)'
  BY <1>1, <1>2, <1>3, GiveBack DEF HeldApart, Holders
<1>6. dlq' \in Seq(Copies)
  BY <1>1, <1>2 DEF Types
<1>7. CASE op.target # 0
  <2> DEFINE rec == [op EXCEPT !.at = "publish", !.got = {}]
  <2>1. oper' = [oper EXCEPT ![o] = rec]
    BY <1>7 DEF Requeue, Step
  <2>2. /\ rec \in Operation /\ rec.at = "publish" /\ rec.chan = op.chan /\ rec.got = {}
        /\ rec.target = op.target /\ rec.task = op.task
    BY <1>3 DEF Operation, OpAt
  <2>3. op.target \notin op.got
    BY <1>1, <1>7 DEF Opers
  <2> HIDE DEF rec
  <2> QED
    BY <1>2, <1>3, <1>4, <1>5, <1>6, <1>7, <2>1, <2>2, <2>3, GiveBackShape
<1>8. CASE op.target = 0 /\ op.kind = "list" /\ op.got # {}
  <2> DEFINE rec == [op EXCEPT !.at = "scan", !.got = {}]
  <2>1. oper' = [oper EXCEPT ![o] = rec]
    BY <1>8 DEF Requeue, Step
  <2>2. /\ rec \in Operation /\ rec.at = "scan" /\ rec.chan = op.chan /\ rec.got = {}
        /\ rec.target = op.target /\ rec.task = op.task
    BY <1>3 DEF Operation, OpAt
  <2> HIDE DEF rec
  <2> QED
    BY <1>2, <1>3, <1>4, <1>5, <1>6, <1>8, <2>1, <2>2, GiveBackShape
<1>9. CASE op.target = 0 /\ ~(op.kind = "list" /\ op.got # {})
  <2>1. oper' = [oper EXCEPT ![o] = NoOp]
    BY <1>9 DEF Requeue, Step
  <2> QED
    BY <1>2, <1>3, <1>4, <1>5, <1>6, <2>1, GiveBackShape, NoOpIs
<1> QED
  BY <1>7, <1>8, <1>9

LEMMA ReplaySettleShape ==
    ASSUME Shape, NEW o \in Operators, ReplaySettle(o)
    PROVE  /\ Shape' /\ Grows
           /\ oper[o].target \in In(dlq) /\ In(dlq)' = In(dlq) \ {oper[o].target}
<1> DEFINE c == oper[o].target
<1>1. Types /\ HeldApart /\ Opers
  BY DEF Shape
<1>2. /\ oper[o].at = "settle" /\ dlq' = Without(dlq, {c})
      /\ held' = [held EXCEPT ![oper[o].chan] = @ \ Fetched(o)]
      /\ oper' = [oper EXCEPT ![o] = NoOp]
      /\ UNCHANGED <<msgs, main, delayed, hand, timedOut, succeeded, failed, gone, ran,
                     reran, closes, ops>>
  BY DEF ReplaySettle, Release, Step, historyVars, boundVars
<1>3. HasChannel(o) /\ c # 0
  BY <1>1, <1>2 DEF HasChannel, OpAt, Opers
<1>4. oper[o].chan \in Channels /\ oper[o].chan \in Holders
      /\ c \in Fetched(o) /\ c \in held[oper[o].chan]
  BY <1>1, <1>3 DEF Opers, Fetched, Holders
<1>5. dlq' \in Seq(Copies) /\ In(dlq') = In(dlq) \ {c}
  BY <1>1, <1>2, WithoutIn DEF Types
<1>6. Histories'
  BY <1>1, <1>2 DEF Types, Histories, Copies
<1>7. \A k \in Channels : held'[k] \subseteq In(dlq')
  <2>1. /\ held'[oper[o].chan] = held[oper[o].chan] \ Fetched(o)
        /\ \A h \in Holders : h # oper[o].chan => held'[h] = held[h]
    BY <1>2, <1>3, GiveBack
  <2>2. \A k \in Channels : k # oper[o].chan => c \notin held[k]
    BY <1>1, <1>4 DEF HeldApart, Holders
  <2>3. \A k \in Channels : held[k] \subseteq In(dlq)
    BY <1>1 DEF HeldApart
  <2> QED
    BY <1>4, <1>5, <2>1, <2>2, <2>3 DEF Holders
<1>8. Shape' /\ Grows
  BY <1>2, <1>3, <1>5, <1>6, <1>7, GiveBackShape, NoOpIs DEF In
<1> QED
  BY <1>1, <1>4, <1>5, <1>8 DEF HeldApart, In

LEMMA ReplayPublishShape ==
    ASSUME Shape, NEW o \in Operators, ReplayPublish(o)
    PROVE  Shape' /\ Grows
<1> DEFINE op == oper[o]
<1>1. Types /\ HeldApart /\ Hands /\ Opers
  BY DEF Shape
<1>2. /\ op.at = "publish" /\ HasChannel(o)
      /\ UNCHANGED <<hand, timedOut, succeeded, failed, gone, ran, reran, ops>>
  BY DEF ReplayPublish, historyVars, HasChannel, OpAt
<1>3. op \in Operation /\ op.chan \in Channels /\ Fetched(o) \subseteq held[op.chan]
      /\ op.target # 0 /\ op.task = TaskOf(op.target) /\ op.target \notin op.got
  BY <1>1, <1>2 DEF Types, Opers
<1>4. op.target \in Copies
  <2>1. op.target \in Fetched(o)
    BY <1>3 DEF Fetched
  <2>2. held[op.chan] \subseteq Copies
    BY <1>1, <1>3 DEF Types, Holders
  <2> QED
    BY <1>3, <2>1, <2>2
<1>5. op.task \in Tasks /\ msgs[op.target].retries \in Nat
  BY <1>1, <1>3, <1>4, CopiesAre DEF Message
<1>6. closes' \in Nat /\ ops' \in Nat /\ closes' + ops' <= MaxEvents
  BY <1>1, FailsBounded DEF ReplayPublish, Types
<1>7. ReplayMessage(o) => \E m \in Message : m.task = op.task /\ Published(m)
  <2> SUFFICES ASSUME ReplayMessage(o)
               PROVE  \E m \in Message : m.task = op.task /\ Published(m)
    OBVIOUS
  <2>1. PICK r \in {0, msgs[op.target].retries} :
           Publish([task |-> op.task, retries |-> r], FALSE)
    BY DEF ReplayMessage
  <2>2. [task |-> op.task, retries |-> r] \in Message
    BY <1>5 DEF Message
  <2> QED
    BY <1>1, <2>1, <2>2, PublishDoes
<1>8. \A s \in Slots : Live(s) => hand[s].copy \in held[s[1]] /\ s[1] \in Workers
  BY <1>1 DEF Hands, Slots
<1>9. CASE ReplayMessage(o) /\ Step(o, [op EXCEPT !.at = "settle"]) /\ UNCHANGED <<held, closes>>
  <2> DEFINE rec == [op EXCEPT !.at = "settle"]
  <2>1. PICK m \in Message : m.task = op.task /\ Published(m)
    BY <1>7, <1>9
  <2>2. /\ rec \in Operation /\ rec.at = "settle" /\ rec.chan = op.chan /\ rec.got = op.got
        /\ rec.target = op.target /\ rec.task = op.task
    BY <1>3 DEF Operation, OpAt
  <2>3. oper' = [oper EXCEPT ![o] = rec]
    BY <1>9 DEF Step
  <2> HIDE DEF rec
  <2>4. /\ oper' \in [Operators -> Operation] /\ oper'[o] = rec
        /\ \A q \in Operators : q # o => oper'[q] = oper[q]
    BY <1>1, <2>2, <2>3 DEF Types
  <2>5. Grows
    BY <1>2, <2>1 DEF Grows, Published, Appended
  <2>6. Histories'
    BY <1>1, <1>2, <1>6, <2>5 DEF Types, Histories, Grows
  <2>7. Fits(o)
    BY <1>2, <1>3, <1>4, <1>9, <2>2, <2>4 DEF Fits, OpAt, Fetched
  <2>8. \A q \in Operators : q # o => Proceeds(q)
    BY <1>2, <1>9, <2>4, OthersProceed
  <2>9. Opers'
    BY <2>5, <2>7, <2>8, OpersNext
  <2>10. \A s \in Slots : Follows(s)
    BY <1>2, <1>8, <1>9, HandStays
  <2>11. held' \in [Holders -> SUBSET Copies] /\ hand' \in [Slots -> Handler]
    BY <1>1, <1>2, <1>9 DEF Types
  <2> QED
    BY <1>2, <1>9, <2>1, <2>4, <2>6, <2>9, <2>10, <2>11, PublishedShape
<1>10. CASE Release(o) /\ UNCHANGED <<msgs, queueVars>>
  <2>1. /\ held' = [held EXCEPT ![op.chan] = @ \ Fetched(o)]
        /\ oper' = [oper EXCEPT ![o] = NoOp]
        /\ UNCHANGED <<msgs, main, delayed, dlq>>
    BY <1>10 DEF Release, Step, queueVars
  <2>2. Histories'
    BY <1>1, <1>2, <1>6, <2>1 DEF Types, Histories, Copies
  <2>3. \A k \in Channels : held'[k] \subseteq In(dlq)'
    BY <1>1, <1>2, <2>1, GiveBack DEF HeldApart, Holders
  <2>4. dlq' \in Seq(Copies)
    BY <1>1, <2>1 DEF Types
  <2> QED
    BY <1>2, <2>1, <2>2, <2>3, <2>4, GiveBackShape, NoOpIs
<1>11. CASE Release(o) /\ ReplayMessage(o)
  <2>1. /\ held' = [held EXCEPT ![op.chan] = @ \ Fetched(o)]
        /\ oper' = [oper EXCEPT ![o] = NoOp]
    BY <1>11 DEF Release, Step
  <2>2. PICK m \in Message : m.task = op.task /\ Published(m)
    BY <1>7, <1>11
  <2>3. /\ held' \in [Holders -> SUBSET Copies]
        /\ held'[op.chan] = held[op.chan] \ Fetched(o)
        /\ \A h \in Holders : h # op.chan => held'[h] = held[h]
        /\ \A h \in Holders : held'[h] \subseteq held[h]
        /\ \A w \in Workers : held'[w] = held[w]
    BY <1>2, <2>1, GiveBack
  <2>4. /\ oper' \in [Operators -> Operation] /\ oper'[o] = NoOp
        /\ \A q \in Operators : q # o => oper'[q] = oper[q]
    BY <1>1, <2>1, NoOpIs DEF Types
  <2>5. Grows
    BY <1>2, <2>2 DEF Grows, Published, Appended
  <2>6. Histories'
    BY <1>1, <1>2, <1>6, <2>5 DEF Types, Histories, Grows
  <2>7. \A q \in Operators : q # o => Proceeds(q)
    BY <1>2, <2>3, <2>4, OthersProceed
  <2>8. Opers'
    <3>1. Proceeds(o)
      BY <2>4 DEF Proceeds
    <3> QED
      BY <2>5, <2>7, <3>1, OpersStep
  <2>9. \A s \in Slots : Follows(s)
    BY <1>2, <1>8, <2>3, HandStays
  <2>10. hand' \in [Slots -> Handler]
    BY <1>1, <1>2 DEF Types
  <2> QED
    BY <1>2, <2>2, <2>3, <2>4, <2>6, <2>8, <2>9, <2>10, PublishedShape
<1> QED
  BY <1>9, <1>10, <1>11 DEF ReplayPublish

LEMMA TimeoutShape ==
    ASSUME Shape, NEW o \in Operators, Timeout(o)
    PROVE  Shape' /\ Grows
<1>1. Types /\ HeldApart /\ Opers
  BY DEF Shape
<1>2. /\ oper' = [oper EXCEPT ![o] = NoOp] /\ timedOut' = TRUE
      /\ UNCHANGED <<msgs, main, delayed, dlq, held, hand, succeeded, failed, gone, ran, reran,
                     closes, ops>>
  BY DEF Timeout, Step, queueVars, historyVars, boundVars
<1>3. /\ oper' \in [Operators -> Operation] /\ oper'[o] = NoOp
      /\ \A q \in Operators : q # o => oper'[q] = oper[q]
  BY <1>1, <1>2, NoOpIs DEF Types
<1>4. Histories'
  BY <1>1, <1>2 DEF Types, Histories, Copies
<1>5. Fits(o)
  BY <1>3, NoOpIs DEF Fits
<1>6. \A q \in Operators : q # o => Proceeds(q)
  BY <1>2, <1>3, OthersProceed
<1>7. HeldApart'
  BY <1>1, <1>2 DEF HeldApart
<1> QED
  BY <1>1, <1>2, <1>3, <1>4, <1>5, <1>6, <1>7, OperShape DEF Types

LEMMA PoolChannelClosesShape ==
    ASSUME Shape, NEW k \in Channels, PoolChannelCloses(k)
    PROVE  Shape' /\ Grows
<1>1. Types /\ QueuesApart /\ HeldApart /\ Hands /\ Opers
  BY DEF Shape
<1>2. /\ held' = [held EXCEPT ![k] = {}]
      /\ oper' = [o \in Operators |->
            IF HasChannel(o) /\ oper[o].chan = k THEN NoOp ELSE oper[o]]
      /\ UNCHANGED <<msgs, main, delayed, dlq, hand, timedOut, succeeded, failed, gone, ran,
                     reran, ops>>
  BY DEF PoolChannelCloses, queueVars, historyVars
<1>3. closes' \in Nat /\ ops' \in Nat /\ closes' + ops' <= MaxEvents
  BY <1>1, FailsBounded DEF PoolChannelCloses, CallFails, Types
<1>4. k \in Holders /\ k \notin Workers
  BY RabbitAssumption DEF Holders
<1>5. /\ held' \in [Holders -> SUBSET Copies] /\ held'[k] = {}
      /\ \A h \in Holders : h # k => held'[h] = held[h]
  BY <1>1, <1>2, <1>4 DEF Types
<1>6. \A o \in Operators :
         \/ oper'[o] = NoOp
         \/ oper'[o] = oper[o] /\ (HasChannel(o) => oper[o].chan # k)
  BY <1>2
<1>7. oper' \in [Operators -> Operation]
  <2>1. \A o \in Operators : oper'[o] \in Operation
    BY <1>1, <1>6, NoOpIs DEF Types
  <2> QED
    BY <1>2, <2>1
<1>8. Copies' = Copies /\ Grows
  BY <1>2 DEF Copies, Grows
<1>9. Types'
  BY <1>1, <1>2, <1>3, <1>5, <1>7, <1>8 DEF Types, Histories
<1>10. QueuesApart'
  BY <1>1, <1>2 DEF QueuesApart
<1>11. HeldApart'
  <2>1. \A h \in Holders : held'[h] \subseteq held[h]
    BY <1>5
  <2>2. /\ \A w \in Workers : held'[w] \subseteq In(main)'
        /\ \A c \in Channels : held'[c] \subseteq In(dlq)'
    BY <1>1, <1>2, <2>1 DEF HeldApart, Holders
  <2> QED
    BY <1>5, <1>8, <2>1, <2>2, HeldStep
<1>12. Hands'
  <2>1. \A s \in Slots : Follows(s)
    BY <1>1, <1>2, <1>4, <1>5, HandStays DEF Hands, Slots, Holders
  <2> QED
    BY <1>2, <1>8, <2>1, HandsStep
<1>13. Opers'
  <2>1. \A o \in Operators : Proceeds(o)
    BY <1>1, <1>5, <1>6 DEF Proceeds, Opers, Holders
  <2> QED
    BY <1>8, <2>1, OpersStep
<1> QED
  BY <1>8, <1>9, <1>10, <1>11, <1>12, <1>13 DEF Shape

--------------------------------------------------------------------------------
(* The shape of the state is an invariant.                                 *)

LEMMA InitShape == Init => Shape
<1> SUFFICES ASSUME Init
             PROVE  Shape
  OBVIOUS
<1>1. In(<<>>) = {} /\ Copies = {}
  BY DEF Init, In, ToSet, Copies
<1>2. NoHandler \in Handler /\ NoHandler.at = "free" /\ NoHandler.tag = "settled"
  BY DEF NoHandler, Handler, HandlerAt
<1>3. Types
  <2>1. /\ msgs \in Seq(Message) /\ main \in Seq(Copies) /\ delayed \in Seq(Copies)
        /\ dlq \in Seq(Copies)
    BY DEF Init
  <2>2. held \in [Holders -> SUBSET Copies]
    BY DEF Init
  <2>3. hand \in [Slots -> Handler] /\ oper \in [Operators -> Operation]
    BY <1>2, NoOpIs DEF Init
  <2>4. Histories
    <3>1. closes \in Nat /\ ops \in Nat /\ closes + ops <= MaxEvents
      BY RabbitAssumption DEF Init
    <3>2. /\ timedOut \in BOOLEAN
          /\ succeeded \subseteq Tasks /\ failed \subseteq Tasks /\ gone \subseteq Tasks
          /\ ran \subseteq Copies /\ reran \subseteq ran
      BY DEF Init
    <3> QED
      BY <3>1, <3>2 DEF Histories
  <2> QED
    BY <2>1, <2>2, <2>3, <2>4 DEF Types
<1>4. QueuesApart
  BY <1>1 DEF Init, QueuesApart
<1>5. HeldApart
  <2>1. Cardinality({}) = 0
    BY FS_EmptySet
  <2> QED
    BY <2>1, RabbitAssumption DEF Init, HeldApart, Holders
<1>6. Hands
  BY <1>2 DEF Init, Hands, Busy, Live, AfterRun
<1>7. Opers
  BY NoOpIs DEF Init, Opers, HasChannel, OpAt
<1> QED
  BY <1>3, <1>4, <1>5, <1>6, <1>7 DEF Shape

LEMMA StutterShape ==
    ASSUME Shape, UNCHANGED vars
    PROVE  Shape' /\ Grows
<1>1. UNCHANGED <<msgs, queueVars, held, hand, oper, timedOut, historyVars, boundVars>>
  BY DEF vars
<1>2. Histories'
  BY <1>1 DEF Shape, Types, Histories, historyVars, boundVars, Copies
<1> QED
  BY <1>1, <1>2, QueuesShape DEF queueVars, historyVars, Shape, Types, QueuesApart, HeldApart

LEMMA ShapeStep ==
    ASSUME Shape, [Next]_vars
    PROVE  Shape' /\ Grows
<1>1. ASSUME NEW t \in Tasks, Dispatch(t) PROVE Shape' /\ Grows
  BY <1>1, DispatchShape
<1>2. CASE Expire \/ PurgeQueue \/ PurgeDlq
  BY <1>2, ExpireShape, PurgeQueueShape, PurgeDlqShape
<1>3. ASSUME NEW s \in Slots, Handle(s) PROVE Shape' /\ Grows
  BY <1>3, EarlyAckShape, RunShape, StoreSuccessShape, AckDoneShape, RepublishShape,
     RetryAckShape, DeadLetterShape, ManualMoveShape, BackendFailsShape DEF Handle
<1>4. ASSUME NEW w \in Workers, Deliver(w) \/ ConsumerCloses(w) PROVE Shape' /\ Grows
  BY <1>4, DeliverShape, ConsumerClosesShape
<1>5. ASSUME NEW o \in Operators, Call(o) \/ Operate(o) PROVE Shape' /\ Grows
  BY <1>5, CallShape, AcquireShape, FetchShape, NotFoundShape, RequeueShape,
     ReplayPublishShape, ReplaySettleShape, TimeoutShape DEF Operate
<1>6. ASSUME NEW k \in Channels, PoolChannelCloses(k) PROVE Shape' /\ Grows
  BY <1>6, PoolChannelClosesShape
<1>7. CASE UNCHANGED vars
  BY <1>7, StutterShape
<1> QED
  BY <1>1, <1>2, <1>3, <1>4, <1>5, <1>6, <1>7 DEF Next

LEMMA ShapeIsTypeOK == Shape => TypeOK
<1> SUFFICES ASSUME Shape
             PROVE  TypeOK
  OBVIOUS
<1>1. Types /\ HeldApart /\ Hands /\ Opers
  BY DEF Shape
<1>2. /\ msgs \in Seq([task : Tasks, retries : Nat])
      /\ held \in [Holders -> SUBSET Copies]
      /\ timedOut \in BOOLEAN
      /\ succeeded \cup failed \cup gone \subseteq Tasks
      /\ reran \subseteq ran /\ ran \subseteq Copies
      /\ closes \in Nat /\ ops \in Nat /\ closes + ops <= MaxEvents
  BY <1>1 DEF Types, Histories, Message
<1>3. In(main) \cup In(delayed) \cup In(dlq) \subseteq Copies
  BY <1>1, InCopies
<1>4. \A s \in Slots : hand[s].at \in HandlerAt
                   /\ (hand[s].tag = "live" => hand[s].copy \in held[s[1]])
  BY <1>1 DEF Types, Hands, Live, Handler
<1>5. \A o \in Operators :
         \/ oper[o].at \in {"idle", "acquire"}
         \/ HasChannel(o) /\ Fetched(o) \subseteq held[oper[o].chan]
  BY <1>1 DEF Types, Opers, Operation, HasChannel
<1>6. \A o, q \in Operators :
         HasChannel(o) /\ HasChannel(q) /\ o # q => oper[o].chan # oper[q].chan
  BY <1>1 DEF Opers
<1> QED
  BY <1>1, <1>2, <1>3, <1>4, <1>5, <1>6 DEF TypeOK, HeldApart

\* The queues, what the channels hold, and the places of handlers and operations are
\* always of the declared shape; no worker holds more than its prefetch count, and no
\* message is held twice.
THEOREM TypeCorrect == Spec => []TypeOK
<1>1. Init => Shape
  BY InitShape
<1>2. Shape /\ [Next]_vars => Shape'
  BY ShapeStep
<1> QED
  BY <1>1, <1>2, ShapeIsTypeOK, PTL DEF Spec

--------------------------------------------------------------------------------
(* Nothing stays hidden in a channel of the pool.                          *)

\* Handlers leave the channels of the pool and the operations alone.
ChannelsStay ==
    UNCHANGED <<oper, timedOut>> /\ \A k \in Channels : held'[k] = held[k]

LEMMA AckChannels ==
    ASSUME Types, NEW s \in Slots, NEW p \in HandlerAt, Acknowledge(s, p)
    PROVE  \A k \in Channels : held'[k] = held[k]
<1>1. s[1] \in Workers
  BY DEF Slots
<1> QED
  BY <1>1, AcknowledgeDoes, RabbitAssumption DEF Holders

LEMMA HandleChannels ==
    ASSUME Types, NEW s \in Slots, Handle(s)
    PROVE  ChannelsStay
<1>1. "free" \in HandlerAt /\ "running" \in HandlerAt
  BY DEF HandlerAt
<1>2. CASE EarlyAck(s)
  BY <1>1, <1>2, AckChannels DEF EarlyAck, ChannelsStay
<1>3. CASE Run(s)
  BY <1>3 DEF Run, ChannelsStay
<1>4. CASE StoreSuccess(s)
  BY <1>4 DEF StoreSuccess, ChannelsStay
<1>5. CASE AckDone(s)
  BY <1>1, <1>5, AckChannels DEF AckDone, ChannelsStay
<1>6. CASE Republish(s)
  BY <1>6 DEF Republish, ChannelsStay
<1>7. CASE RetryAck(s)
  BY <1>1, <1>7, AckChannels DEF RetryAck, ChannelsStay
<1>8. CASE DeadLetter(s)
  BY <1>1, <1>8, AckChannels DEF DeadLetter, ChannelsStay
<1>9. CASE ManualMove(s)
  BY <1>9 DEF ManualMove, ChannelsStay
<1>10. CASE BackendFails(s)
  BY <1>10 DEF BackendFails, ChannelsStay
<1> QED
  BY <1>2, <1>3, <1>4, <1>5, <1>6, <1>7, <1>8, <1>9, <1>10 DEF Handle

LEMMA WorkerChannels ==
    ASSUME Types, NEW w \in Workers, Deliver(w) \/ ConsumerCloses(w)
    PROVE  ChannelsStay
<1>1. held \in [Holders -> SUBSET Copies] /\ Workers \cap Channels = {}
  BY RabbitAssumption DEF Types
<1>2. CASE Deliver(w)
  BY <1>1, <1>2 DEF Deliver, ChannelsStay, Holders
<1>3. CASE ConsumerCloses(w)
  BY <1>1, <1>3 DEF ConsumerCloses, ChannelsStay, Holders
<1> QED
  BY <1>2, <1>3

LEMMA HiddenStays ==
    ASSUME NothingHidden, ChannelsStay
    PROVE  NothingHidden'
BY DEF NothingHidden, ChannelsStay, HasChannel, Fetched

\* What is held on the channel of an operation was fetched by it.
LEMMA OwnHeld ==
    ASSUME Shape, NothingHidden, ~timedOut, NEW o \in Operators, HasChannel(o)
    PROVE  held[oper[o].chan] \subseteq Fetched(o)
<1> SUFFICES ASSUME NEW c \in held[oper[o].chan]
             PROVE  c \in Fetched(o)
  OBVIOUS
<1>1. oper[o].chan \in Channels
  BY DEF Shape, Opers
<1>2. PICK q \in Operators : HasChannel(q) /\ oper[q].chan = oper[o].chan /\ c \in Fetched(q)
  BY <1>1 DEF NothingHidden
<1>3. q = o
  BY <1>2 DEF Shape, Opers
<1> QED
  BY <1>2, <1>3

\* The step of an operation leaves the other channels alone, and on its own one only
\* what it has fetched.
LEMMA ChannelStep ==
    ASSUME Shape, NothingHidden, NEW o \in Operators, UNCHANGED timedOut,
           \A q \in Operators : q # o => oper'[q] = oper[q],
           \A k \in Channels : (HasChannel(o) /\ oper[o].chan = k) \/ held'[k] = held[k],
           HasChannel(o) /\ ~timedOut =>
              \/ held'[oper[o].chan] = {}
              \/ /\ oper'[o].at \in OpAt /\ oper'[o].chan = oper[o].chan
                 /\ held'[oper[o].chan]
                       \subseteq oper'[o].got \cup ({oper'[o].target} \ {0})
    PROVE  NothingHidden'
<1> SUFFICES ASSUME ~timedOut, NEW k \in Channels, NEW c \in held'[k]
             PROVE  \E q \in Operators :
                       /\ oper'[q].at \in OpAt /\ oper'[q].chan = k
                       /\ c \in oper'[q].got \cup ({oper'[q].target} \ {0})
  BY DEF NothingHidden, HasChannel, Fetched
<1>1. CASE HasChannel(o) /\ oper[o].chan = k
  BY <1>1
<1>2. CASE ~(HasChannel(o) /\ oper[o].chan = k)
  <2>1. c \in held[k]
    BY <1>2
  <2>2. PICK q \in Operators : HasChannel(q) /\ oper[q].chan = k /\ c \in Fetched(q)
    BY <2>1 DEF NothingHidden
  <2> QED
    BY <1>2, <2>2 DEF HasChannel, Fetched
<1> QED
  BY <1>1, <1>2

LEMMA OperateHidden ==
    ASSUME Shape, NothingHidden, NEW o \in Operators, Call(o) \/ Operate(o)
    PROVE  NothingHidden'
<1>1. Types /\ Opers
  BY DEF Shape
<1>2. oper \in [Operators -> Operation]
  BY <1>1 DEF Types
<1>3. \A rec : oper' = [oper EXCEPT ![o] = rec] =>
         oper'[o] = rec /\ \A q \in Operators : q # o => oper'[q] = oper[q]
  BY <1>2
<1>4. HasChannel(o) => \A G : held' = [held EXCEPT ![oper[o].chan] = @ \ G] =>
         /\ held'[oper[o].chan] = held[oper[o].chan] \ G
         /\ \A k \in Channels : k = oper[o].chan \/ held'[k] = held[k]
  BY GiveBack DEF Holders
<1>5. HasChannel(o) /\ ~timedOut => held[oper[o].chan] \subseteq Fetched(o)
  BY OwnHeld
<1>6. CASE Call(o)
  <2>1. oper[o] = NoOp /\ UNCHANGED <<held, timedOut>>
    BY <1>6 DEF Call
  <2>2. PICK rec : oper' = [oper EXCEPT ![o] = rec]
    BY <1>6 DEF Call, Step
  <2>3. ~HasChannel(o)
    BY <2>1, NoOpIs DEF HasChannel
  <2> QED
    BY <1>3, <2>1, <2>2, <2>3, ChannelStep
<1>7. CASE Acquire(o)
  <2>1. ~HasChannel(o) /\ UNCHANGED <<held, timedOut>>
    BY <1>7 DEF Acquire, HasChannel, OpAt
  <2>2. PICK rec : oper' = [oper EXCEPT ![o] = rec]
    BY <1>7 DEF Acquire, Step
  <2> QED
    BY <1>3, <2>1, <2>2, ChannelStep
<1>8. CASE Fetch(o)
  <2>1. /\ Fetches(o) \/ Deletes(o)
        /\ oper[o].at = "scan" /\ Ready(dlq) # <<>> /\ UNCHANGED timedOut
    BY <1>1, <1>8, FetchIs
  <2>2. HasChannel(o) /\ oper[o].target = 0 /\ oper[o].chan \in Channels
    BY <1>1, <2>1 DEF HasChannel, OpAt, Opers
  <2>3. PICK c : c = Head(Ready(dlq))
    OBVIOUS
  <2>4. CASE Fetched1(o, c)
    <3>1. oper'[o].at \in OpAt /\ oper'[o].chan = oper[o].chan
      BY <2>4 DEF Fetched1, OpAt
    <3>2. c # 0
      BY <1>1, <2>4, CopiesAre DEF Fetched1
    <3>3. ~timedOut => held'[oper[o].chan]
                          \subseteq oper'[o].got \cup ({oper'[o].target} \ {0})
      BY <1>5, <2>2, <2>4, <3>2 DEF Fetched1, Fetched
    <3>4. \A k \in Channels : k = oper[o].chan \/ held'[k] = held[k]
      BY <2>4 DEF Fetched1, Holders
    <3>5. \A q \in Operators : q # o => oper'[q] = oper[q]
      BY <2>4 DEF Fetched1
    <3> QED
      BY <2>1, <2>2, <3>1, <3>3, <3>4, <3>5, ChannelStep
  <2>5. CASE Deleted1(o, c)
    <3>1. oper'[o].at \in OpAt /\ oper'[o].chan = oper[o].chan
      BY <2>5 DEF Deleted1, OpAt
    <3>2. ~timedOut => held'[oper[o].chan]
                          \subseteq oper'[o].got \cup ({oper'[o].target} \ {0})
      BY <1>5, <2>2, <2>5 DEF Deleted1, Fetched
    <3>3. /\ held' = held
          /\ \A q \in Operators : q # o => oper'[q] = oper[q]
      BY <2>5 DEF Deleted1
    <3> QED
      BY <2>1, <2>2, <3>1, <3>2, <3>3, ChannelStep
  <2> QED
    BY <2>1, <2>3, <2>4, <2>5, FetchesDoes, DeletesDoes
<1>9. CASE NotFound(o)
  <2>1. /\ oper[o].at = "scan" /\ UNCHANGED <<held, timedOut>>
        /\ oper' = [oper EXCEPT ![o] = [oper[o] EXCEPT !.at = "requeue"]]
    BY <1>9 DEF NotFound, Step
  <2>2. HasChannel(o) /\ oper[o] \in Operation
    BY <1>2, <2>1 DEF HasChannel, OpAt
  <2>3. /\ oper'[o].at \in OpAt /\ oper'[o].chan = oper[o].chan
        /\ oper'[o].got = oper[o].got /\ oper'[o].target = oper[o].target
    BY <1>3, <2>1, <2>2 DEF Operation, OpAt
  <2>4. ~timedOut => held'[oper[o].chan] \subseteq oper'[o].got \cup ({oper'[o].target} \ {0})
    BY <1>5, <2>1, <2>2, <2>3 DEF Fetched
  <2> QED
    BY <1>3, <2>1, <2>2, <2>3, <2>4, ChannelStep
<1>10. CASE Requeue(o)
  <2> DEFINE op == oper[o]
  <2>1. /\ op.at = "requeue" /\ UNCHANGED timedOut
        /\ held' = [held EXCEPT ![op.chan] = @ \ op.got]
    BY <1>10 DEF Requeue
  <2>2. HasChannel(o) /\ op \in Operation
    BY <1>2, <2>1 DEF HasChannel, OpAt
  <2>3. /\ held'[op.chan] = held[op.chan] \ op.got
        /\ \A k \in Channels : k = op.chan \/ held'[k] = held[k]
    BY <1>4, <2>1, <2>2
  <2>4. ~timedOut => held'[op.chan] \subseteq {op.target} \ {0}
    BY <1>5, <2>2, <2>3 DEF Fetched
  <2>5. CASE op.target # 0
    <3>1. oper' = [oper EXCEPT ![o] = [op EXCEPT !.at = "publish", !.got = {}]]
      BY <1>10, <2>5 DEF Requeue, Step
    <3>2. oper'[o] = [op EXCEPT !.at = "publish", !.got = {}]
      BY <1>3, <3>1
    <3>3. /\ oper'[o].at \in OpAt /\ oper'[o].chan = op.chan
          /\ oper'[o].got = {} /\ oper'[o].target = op.target
      BY <2>2, <3>2 DEF Operation, OpAt
    <3> QED
      BY <1>3, <2>1, <2>2, <2>3, <2>4, <3>1, <3>3, ChannelStep
  <2>6. CASE op.target = 0
    <3>1. PICK rec : oper' = [oper EXCEPT ![o] = rec]
      BY <1>10 DEF Requeue, Step
    <3>2. ~timedOut => held'[op.chan] = {}
      BY <2>4, <2>6
    <3> QED
      BY <1>3, <2>1, <2>2, <2>3, <3>1, <3>2, ChannelStep
  <2> QED
    BY <2>5, <2>6
<1>11. CASE ReplayPublish(o)
  <2>1. /\ oper[o].at = "publish" /\ UNCHANGED timedOut
        /\ \/ oper' = [oper EXCEPT ![o] = [oper[o] EXCEPT !.at = "settle"]] /\ held' = held
           \/ /\ oper' = [oper EXCEPT ![o] = NoOp]
              /\ held' = [held EXCEPT ![oper[o].chan] = @ \ Fetched(o)]
    BY <1>11 DEF ReplayPublish, Step, Release
  <2>2. HasChannel(o) /\ oper[o] \in Operation
    BY <1>2, <2>1 DEF HasChannel, OpAt
  <2>3. CASE oper' = [oper EXCEPT ![o] = [oper[o] EXCEPT !.at = "settle"]] /\ held' = held
    <3> DEFINE rec == [oper[o] EXCEPT !.at = "settle"]
    <3>1. /\ rec.at \in OpAt /\ rec.chan = oper[o].chan
          /\ rec.got = oper[o].got /\ rec.target = oper[o].target
      BY <2>2 DEF Operation, OpAt
    <3>3. oper' = [oper EXCEPT ![o] = rec] /\ held' = held
      BY <2>3
    <3> HIDE DEF rec
    <3>4. oper'[o] = rec /\ \A q \in Operators : q # o => oper'[q] = oper[q]
      BY <1>3, <3>3
    <3>2. ~timedOut => held'[oper[o].chan]
                          \subseteq oper'[o].got \cup ({oper'[o].target} \ {0})
      BY <1>5, <2>2, <3>1, <3>3, <3>4 DEF Fetched
    <3> QED
      BY <2>1, <2>2, <3>1, <3>2, <3>3, <3>4, ChannelStep
  <2>4. CASE /\ oper' = [oper EXCEPT ![o] = NoOp]
             /\ held' = [held EXCEPT ![oper[o].chan] = @ \ Fetched(o)]
    <3>1. /\ ~timedOut => held'[oper[o].chan] = {}
          /\ \A k \in Channels : k = oper[o].chan \/ held'[k] = held[k]
      BY <1>4, <1>5, <2>2, <2>4
    <3> QED
      BY <1>3, <2>1, <2>2, <2>4, <3>1, ChannelStep
  <2> QED
    BY <2>1, <2>3, <2>4
<1>12. CASE ReplaySettle(o)
  <2>1. /\ oper[o].at = "settle" /\ UNCHANGED timedOut
        /\ oper' = [oper EXCEPT ![o] = NoOp]
        /\ held' = [held EXCEPT ![oper[o].chan] = @ \ Fetched(o)]
    BY <1>12 DEF ReplaySettle, Step, Release
  <2>2. HasChannel(o)
    BY <2>1 DEF HasChannel, OpAt
  <2>3. /\ ~timedOut => held'[oper[o].chan] = {}
        /\ \A k \in Channels : k = oper[o].chan \/ held'[k] = held[k]
    BY <1>4, <1>5, <2>1, <2>2
  <2> QED
    BY <1>3, <2>1, <2>2, <2>3, ChannelStep
<1>13. CASE Timeout(o)
  BY <1>13 DEF Timeout, NothingHidden
<1> QED
  BY <1>6, <1>7, <1>8, <1>9, <1>10, <1>11, <1>12, <1>13 DEF Operate

LEMMA PoolChannelHidden ==
    ASSUME Shape, NothingHidden, NEW k \in Channels, PoolChannelCloses(k)
    PROVE  NothingHidden'
<1>1. held \in [Holders -> SUBSET Copies]
  BY DEF Shape, Types
<1>2. /\ held' = [held EXCEPT ![k] = {}] /\ UNCHANGED timedOut
      /\ \A o \in Operators : HasChannel(o) /\ oper[o].chan # k => oper'[o] = oper[o]
  BY DEF PoolChannelCloses
<1>3. held'[k] = {} /\ \A h \in Channels : h # k => held'[h] = held[h]
  BY <1>1, <1>2 DEF Holders
<1> SUFFICES ASSUME ~timedOut, NEW h \in Channels, NEW c \in held'[h]
             PROVE  \E q \in Operators :
                       /\ oper'[q].at \in OpAt /\ oper'[q].chan = h
                       /\ c \in oper'[q].got \cup ({oper'[q].target} \ {0})
  BY <1>2 DEF NothingHidden, HasChannel, Fetched
<1>4. h # k /\ c \in held[h]
  BY <1>3
<1>5. PICK q \in Operators : HasChannel(q) /\ oper[q].chan = h /\ c \in Fetched(q)
  BY <1>4 DEF NothingHidden
<1> QED
  BY <1>2, <1>4, <1>5 DEF HasChannel, Fetched

LEMMA HiddenStep ==
    ASSUME Shape, NothingHidden, [Next]_vars
    PROVE  NothingHidden'
<1>1. Types
  BY DEF Shape
<1>2. ASSUME NEW t \in Tasks, Dispatch(t) PROVE NothingHidden'
  BY <1>2, HiddenStays DEF Dispatch, ChannelsStay
<1>3. CASE Expire \/ PurgeQueue \/ PurgeDlq
  BY <1>3, HiddenStays DEF Expire, PurgeQueue, PurgeDlq, ChannelsStay
<1>4. ASSUME NEW s \in Slots, Handle(s) PROVE NothingHidden'
  BY <1>1, <1>4, HandleChannels, HiddenStays
<1>5. ASSUME NEW w \in Workers, Deliver(w) \/ ConsumerCloses(w) PROVE NothingHidden'
  BY <1>1, <1>5, WorkerChannels, HiddenStays
<1>6. ASSUME NEW o \in Operators, Call(o) \/ Operate(o) PROVE NothingHidden'
  BY <1>6, OperateHidden
<1>7. ASSUME NEW k \in Channels, PoolChannelCloses(k) PROVE NothingHidden'
  BY <1>7, PoolChannelHidden
<1>8. CASE UNCHANGED vars
  BY <1>8, HiddenStays DEF vars, ChannelsStay
<1> QED
  BY <1>2, <1>3, <1>4, <1>5, <1>6, <1>7, <1>8 DEF Next

\* A dead letter that no running operation has fetched is visible to the next one, as
\* long as no operation was cut off by its timeout.
THEOREM NoneHidden == Spec => []NothingHidden
<1>1. Init => Shape /\ NothingHidden
  <2>1. Init => NothingHidden
    BY DEF Init, NothingHidden, Holders
  <2> QED
    BY <2>1, InitShape
<1>2. Shape /\ NothingHidden /\ [Next]_vars => Shape' /\ NothingHidden'
  BY ShapeStep, HiddenStep
<1> QED
  BY <1>1, <1>2, PTL DEF Spec

--------------------------------------------------------------------------------
(* No message is lost.                                                     *)

LEMMA TargetIs ==
    ASSUME Shape, NEW o \in Operators, oper[o].target # 0
    PROVE  /\ HasChannel(o) /\ oper[o].target \in Copies /\ oper[o].target \in In(dlq)
           /\ oper[o].target \in held[oper[o].chan] /\ oper[o].chan \in Channels
           /\ TaskOf(oper[o].target) = oper[o].task
<1>1. HasChannel(o) /\ oper[o].chan \in Channels /\ Fetched(o) \subseteq held[oper[o].chan]
      /\ TaskOf(oper[o].target) = oper[o].task
  BY DEF Shape, Opers
<1>2. oper[o].target \in held[oper[o].chan]
  BY <1>1 DEF Fetched
<1> QED
  BY <1>1, <1>2, InCopies DEF Shape, HeldApart

LEMMA PlacedCopies ==
    Shape => /\ Placed \subseteq Copies /\ Copies \subseteq Nat
             /\ \A o \in Operators : oper[o].target # 0 => oper[o].target \in Copies
             /\ \A s \in Slots : Busy(s) => hand[s].copy \in Copies
BY InCopies, CopiesAre, TargetIs DEF Shape, Hands

LEMMA PlacedCopiesNext ==
    Shape' => /\ Placed' \subseteq Copies' /\ Copies' \subseteq Nat
              /\ \A o \in Operators : oper'[o].target # 0 => oper'[o].target \in Copies'
              /\ \A s \in Slots : hand'[s].at # "free" => hand'[s].copy \in Copies'
<1>1. (Shape => /\ Placed \subseteq Copies /\ Copies \subseteq Nat
                /\ \A o \in Operators : oper[o].target # 0 => oper[o].target \in Copies
                /\ \A s \in Slots : Busy(s) => hand[s].copy \in Copies)'
  BY PlacedCopies, PTL
<1> QED
  BY <1>1 DEF Busy

\* Spare, of the next state.
SpareNext(c) ==
    ModeOf[msgs'[c].task] = ALO =>
        \/ msgs'[c].task \in succeeded' \cup gone'
        \/ \E d \in Placed' : d > c /\ msgs'[d].task = msgs'[c].task

\* What leaves the queues for good was done, purged, or is there as a younger copy.
LEMMA LossStep ==
    ASSUME Shape, LossInv, Grows, Shape',
           Copies' \ Copies \subseteq Placed',
           \A c \in Placed \ Placed' : SpareNext(c),
           \A s \in Slots : hand'[s].at = "retry_ack" =>
              (hand[s].at = "retry_ack" /\ hand'[s].copy = hand[s].copy)
              \/ SpareNext(hand'[s].copy),
           \A o \in Operators : oper'[o].at = "settle" =>
              oper'[o] = oper[o] \/ SpareNext(oper'[o].target)
    PROVE  LossInv'
<1>1. /\ Placed \subseteq Copies /\ Copies \subseteq Nat
      /\ Placed' \subseteq Copies' /\ Copies' \subseteq Nat
  BY PlacedCopies, PlacedCopiesNext
<1>2. \A c \in Copies : msgs'[c].task = TaskOf(c)
  BY DEF Grows, TaskOf
<1>3. \A t : Excused(t) => t \in succeeded' \cup gone'
  BY DEF Excused, Grows
<1>4. \A c \in Placed : c \in Placed' \/ SpareNext(c)
  OBVIOUS
<1>5. \A c \in Copies : Spare(c) => SpareNext(c)
  <2> SUFFICES ASSUME NEW c \in Copies, Spare(c), ModeOf[TaskOf(c)] = ALO,
                      TaskOf(c) \notin succeeded' \cup gone'
               PROVE  \E d \in Placed' : d > c /\ msgs'[d].task = TaskOf(c)
    BY <1>2 DEF SpareNext
  <2>1. PICK d \in Placed : d > c /\ TaskOf(d) = TaskOf(c)
    BY <1>3 DEF Spare, Younger
  <2>2. CASE d \in Placed'
    BY <1>1, <1>2, <2>1, <2>2
  <2>3. CASE d \notin Placed'
    <3>1. PICK e \in Placed' : e > d /\ msgs'[e].task = TaskOf(c)
      <4>1. SpareNext(d) /\ msgs'[d].task = TaskOf(c)
        BY <1>1, <1>2, <2>1, <2>3
      <4>2. \/ msgs'[d].task \in succeeded' \cup gone'
            \/ \E e \in Placed' : e > d /\ msgs'[e].task = msgs'[d].task
        BY <4>1 DEF SpareNext
      <4> QED
        BY <4>1, <4>2
    <3>2. e > c
      <4>1. c \in Nat /\ d \in Nat /\ e \in Nat
        BY <1>1
      <4>2. e > d /\ d > c
        BY <2>1, <3>1
      <4> QED
        BY <4>1, <4>2
    <3> QED
      BY <2>1, <3>1, <3>2
  <2> QED
    BY <2>2, <2>3
<1>6. NoLoss'
  <2> SUFFICES ASSUME NEW t \in Tasks, ModeOf[t] = ALO, NEW c \in Copies', msgs'[c].task = t,
                      t \notin succeeded' \cup gone'
               PROVE  \E d \in Placed' : msgs'[d].task = t
    BY DEF NoLoss, Dispatched, TaskOf
  <2>1. CASE c \notin Copies
    BY <2>1
  <2>2. CASE c \in Copies
    <3>1. Dispatched(t) /\ ~Excused(t)
      BY <1>2, <1>3, <2>2 DEF Dispatched
    <3>2. PICK d \in Placed : TaskOf(d) = t
      BY <3>1 DEF LossInv, NoLoss, Excused
    <3>3. d \in Placed' \/ \E e \in Placed' : msgs'[e].task = msgs'[d].task
      BY <1>1, <1>2, <1>4, <3>2 DEF SpareNext
    <3> QED
      BY <1>1, <1>2, <3>2, <3>3
  <2> QED
    BY <2>1, <2>2
<1>7. (\A s \in Slots : hand[s].at = "retry_ack" => Spare(hand[s].copy))'
  <2> SUFFICES ASSUME NEW s \in Slots, hand'[s].at = "retry_ack"
               PROVE  SpareNext(hand'[s].copy)
    BY DEF Spare, Younger, Excused, TaskOf, SpareNext
  <2> QED
    BY <1>5, PlacedCopies DEF LossInv, Busy
<1>8. (\A o \in Operators : oper[o].at = "settle" => Spare(oper[o].target))'
  <2> SUFFICES ASSUME NEW o \in Operators, oper'[o].at = "settle"
               PROVE  SpareNext(oper'[o].target)
    BY DEF Spare, Younger, Excused, TaskOf, SpareNext
  <2> QED
    BY <1>5, PlacedCopies DEF LossInv, Shape, Opers
<1> QED
  BY <1>6, <1>7, <1>8 DEF LossInv

\* A handler goes on, and the queues stay as they are.
LEMMA GotoLoss ==
    ASSUME Shape, LossInv, Shape', Grows, NEW s \in Slots, NEW p \in HandlerAt,
           p # "retry_ack", Goto(s, p), UNCHANGED <<msgs, queueVars, oper>>
    PROVE  LossInv'
<1>1. Placed' = Placed /\ Copies' = Copies
  BY DEF Placed, In, queueVars, Copies
<1>2. \A r \in Slots : hand'[r].at = "retry_ack" => hand'[r] = hand[r]
  BY GotoDoes DEF Shape
<1> QED
  BY <1>1, <1>2, LossStep

\* A message is acknowledged that is spare.
LEMMA AckLoss ==
    ASSUME Shape, LossInv, Shape', Grows, NEW s \in Slots, NEW p \in HandlerAt,
           p # "retry_ack", Acknowledge(s, p), Spare(hand[s].copy), Busy(s),
           UNCHANGED <<msgs, delayed, dlq, oper>>
    PROVE  LossInv'
<1> DEFINE c == hand[s].copy
<1>1. /\ \A r \in Slots : hand'[r].at = "retry_ack" => hand'[r] = hand[r]
      /\ In(main)' = In(main) \ {c}
  BY AcknowledgeDoes DEF Shape
<1>2. Copies' = Copies /\ Placed \subseteq Placed' \cup {c}
  BY <1>1 DEF Placed, In, Copies
<1>3. c \in Copies /\ Copies \subseteq Nat /\ Placed \subseteq Copies
  BY PlacedCopies
<1>4. SpareNext(c)
  <2>1. \A d \in Copies : msgs'[d].task = TaskOf(d)
    BY DEF Grows, TaskOf
  <2>2. Excused(TaskOf(c)) => TaskOf(c) \in succeeded' \cup gone'
    BY DEF Excused, Grows
  <2>3. \A d \in Placed : d > c => d \in Placed'
    <3>1. \A d \in Placed : d > c => d # c
      BY <1>3
    <3> QED
      BY <1>2, <3>1
  <2> QED
    BY <1>3, <2>1, <2>2, <2>3 DEF Spare, Younger, SpareNext
<1> QED
  BY <1>1, <1>2, <1>4, LossStep

\* A message is published.
LEMMA PublishedPlaces ==
    ASSUME Shape, NEW m \in Message, Published(m)
    PROVE  /\ Placed' = Placed \cup {Len(msgs) + 1} /\ Copies' = Copies \cup {Len(msgs) + 1}
           /\ msgs'[Len(msgs) + 1] = m
           /\ \A c \in Copies : msgs'[c] = msgs[c] /\ Len(msgs) + 1 > c
           /\ Len(msgs) + 1 \in Nat
<1>1. Placed' = Placed \cup {Len(msgs) + 1}
  BY DEF Published, Placed, In
<1>2. Len(msgs) + 1 \in Nat /\ Copies \subseteq Nat
  BY CopiesAre DEF Shape
<1> QED
  BY <1>1, <1>2 DEF Published, Appended

LEMMA DispatchLoss ==
    ASSUME Shape, LossInv, Shape', Grows, NEW t \in Tasks, Dispatch(t)
    PROVE  LossInv'
<1> DEFINE m == [task |-> t, retries |-> 0]
<1>1. m \in Message
  BY DEF Message
<1>2. Published(m)
  BY <1>1, PublishDoes DEF Dispatch, Shape
<1>3. hand' = hand /\ oper' = oper
  BY DEF Dispatch
<1> QED
  BY <1>1, <1>2, <1>3, PublishedPlaces, LossStep

LEMMA RepublishLoss ==
    ASSUME Shape, LossInv, Shape', Grows, NEW s \in Slots, Republish(s)
    PROVE  LossInv'
<1> DEFINE c == hand[s].copy
           m == [msgs[c] EXCEPT !.retries = @ + 1]
<1>1. hand[s].at = "republish" /\ Busy(s)
  BY DEF Republish, Busy
<1>2. c \in Copies /\ msgs[c] \in Message
  BY <1>1, CopiesAre DEF Shape, Hands
<1>3. m \in Message /\ m.task = msgs[c].task
  BY <1>2 DEF Message
<1>4. oper' = oper
  BY DEF Republish
<1>5. CASE UNCHANGED <<msgs, queueVars>> /\ Goto(s, "free")
  BY <1>4, <1>5, GotoLoss DEF HandlerAt
<1>6. CASE \E later \in BOOLEAN : Publish(m, later)
  <2>1. PICK p \in {"free", "retry_ack"} : Goto(s, p)
    BY DEF Republish
  <2>2. \A r \in Slots : r # s => hand'[r] = hand[r]
    BY <2>1, GotoDoes DEF Shape, HandlerAt
  <2>3. hand'[s].at = "retry_ack" => hand'[s].copy = c
    BY <2>1, GotoDoes DEF Shape, HandlerAt
  <2>4. Published(m)
    BY <1>3, <1>6, PublishDoes DEF Shape
  <2>5. /\ Placed' = Placed \cup {Len(msgs) + 1} /\ Copies' = Copies \cup {Len(msgs) + 1}
        /\ msgs'[Len(msgs) + 1] = m
        /\ \A d \in Copies : msgs'[d] = msgs[d] /\ Len(msgs) + 1 > d
    BY <1>3, <2>4, PublishedPlaces
  <2>6. SpareNext(c)
    BY <1>2, <1>3, <2>5 DEF SpareNext
  <2> QED
    BY <1>4, <2>2, <2>3, <2>5, <2>6, LossStep
<1> QED
  BY <1>5, <1>6 DEF Republish

LEMMA DeadLetterLoss ==
    ASSUME Shape, LossInv, Shape', Grows, NEW s \in Slots, DeadLetter(s)
    PROVE  LossInv'
<1> DEFINE c == hand[s].copy
<1>1. hand[s].at = "dead_letter" /\ Busy(s) /\ c \in Copies
  BY PlacedCopies DEF DeadLetter, Busy
<1>2. CASE ~Live(s)
  <2>1. PICK p \in {"manual", "free"} : Goto(s, p)
    BY <1>2 DEF DeadLetter, Live
  <2>2. UNCHANGED <<msgs, queueVars, oper>>
    BY <1>2 DEF DeadLetter, queueVars, Live
  <2> QED
    BY <2>1, <2>2, GotoLoss DEF HandlerAt
<1>3. CASE Live(s)
  <2>1. /\ Acknowledge(s, "free") /\ AddToDlq(c)
        /\ UNCHANGED <<msgs, delayed, oper>>
    BY <1>3 DEF DeadLetter, Live
  <2>2. /\ \A r \in Slots : hand'[r].at = "retry_ack" => hand'[r] = hand[r]
        /\ In(main)' = In(main) \ {c}
    BY <2>1, AcknowledgeDoes DEF Shape, HandlerAt
  <2>3. Copies' = Copies
    BY <2>1 DEF Copies
  <2>4. EntersDlq(c)
    BY <1>1, <2>1, <2>3, AddToDlqDoes DEF Shape
  <2>5. PICK dropped \in SUBSET (In(dlq) \ HeldCopies) :
              /\ In(dlq)' = (In(dlq) \ dropped) \cup {c}
              /\ gone' = gone \cup {TaskOf(d) : d \in dropped}
    BY <2>4 DEF EntersDlq
  <2>6. Placed \subseteq Placed' \cup dropped
    BY <2>1, <2>2, <2>5 DEF Placed, In
  <2>7. \A d \in dropped : SpareNext(d)
    BY <2>1, <2>5 DEF SpareNext, TaskOf
  <2> QED
    BY <2>1, <2>2, <2>3, <2>6, <2>7, LossStep
<1> QED
  BY <1>2, <1>3

LEMMA ManualMoveLoss ==
    ASSUME Shape, LossInv, Shape', Grows, NEW s \in Slots, ManualMove(s)
    PROVE  LossInv'
<1> DEFINE m == msgs[hand[s].copy]
           n == Len(msgs) + 1
<1>1. hand[s].at = "manual" /\ Busy(s) /\ hand[s].copy \in Copies
  BY PlacedCopies DEF ManualMove, Busy
<1>2. Goto(s, "free") /\ UNCHANGED <<main, delayed, oper>> /\ "free" \in HandlerAt
  BY DEF ManualMove, HandlerAt
<1>3. CASE UNCHANGED <<msgs, dlq, failed, gone>>
  BY <1>2, <1>3, GotoLoss DEF queueVars
<1>4. CASE msgs' = Append(msgs, m) /\ AddToDlq(n)
  <2>1. m \in Message
    BY <1>1, CopiesAre DEF Shape
  <2>2. Appended(m)
    BY <1>4, <2>1, AppendMessage DEF Shape
  <2>3. EntersDlq(n)
    BY <1>4, <2>2, AddToDlqDoes DEF Shape, Appended
  <2>4. PICK dropped \in SUBSET (In(dlq) \ HeldCopies) :
              /\ In(dlq)' = (In(dlq) \ dropped) \cup {n}
              /\ gone' = gone \cup {TaskOf(d) : d \in dropped}
    BY <2>3 DEF EntersDlq
  <2>5. Placed \subseteq Placed' \cup dropped /\ n \in Placed'
    BY <1>2, <2>4 DEF Placed, In
  <2>6. \A d \in dropped : SpareNext(d)
    BY <2>2, <2>4, InCopies DEF SpareNext, TaskOf, Shape, Appended
  <2>7. \A r \in Slots : hand'[r].at = "retry_ack" => hand'[r] = hand[r]
    BY <1>2, GotoDoes DEF Shape
  <2> QED
    BY <1>2, <2>2, <2>5, <2>6, <2>7, LossStep DEF Appended
<1> QED
  BY <1>3, <1>4 DEF ManualMove

LEMMA HandleLoss ==
    ASSUME Shape, LossInv, Shape', Grows, NEW s \in Slots, Handle(s)
    PROVE  LossInv'
<1>1. CASE EarlyAck(s)
  <2>1. hand[s].at = "early_ack" /\ Busy(s) /\ UNCHANGED <<msgs, delayed, dlq, oper>>
        /\ {"free", "running"} \subseteq HandlerAt \ {"retry_ack"}
    BY <1>1 DEF EarlyAck, Busy, HandlerAt
  <2>2. CASE Live(s)
    <3>1. Spare(hand[s].copy)
      BY <2>1 DEF Spare, Shape, Hands, ALO, AMO
    <3> QED
      BY <1>1, <2>1, <2>2, <3>1, AckLoss DEF EarlyAck, Live
  <2>3. CASE ~Live(s)
    BY <1>1, <2>1, <2>3, GotoLoss DEF EarlyAck, Live, queueVars
  <2> QED
    BY <2>2, <2>3
<1>2. CASE Run(s)
  <2>1. PICK p \in {"store", "dead_letter", "republish"} : Goto(s, p)
    BY <1>2, CaughtIs DEF Run
  <2> QED
    BY <1>2, <2>1, GotoLoss DEF Run, HandlerAt
<1>3. CASE StoreSuccess(s)
  <2>1. PICK p \in {"ack", "free", "dead_letter", "republish"} : Goto(s, p)
    BY <1>3, CaughtIs DEF StoreSuccess
  <2> QED
    BY <1>3, <2>1, GotoLoss DEF StoreSuccess, HandlerAt
<1>4. CASE AckDone(s)
  <2>1. hand[s].at = "ack" /\ Busy(s) /\ UNCHANGED <<msgs, delayed, dlq, oper>>
        /\ {"free", "dead_letter", "republish"} \subseteq HandlerAt \ {"retry_ack"}
    BY <1>4 DEF AckDone, Busy, HandlerAt
  <2>2. CASE Live(s)
    <3>1. Spare(hand[s].copy)
      BY <2>1 DEF Spare, Shape, Hands, Excused
    <3> QED
      BY <1>4, <2>1, <2>2, <3>1, AckLoss DEF AckDone, Live
  <2>3. CASE ~Live(s)
    <3>1. PICK p \in {"dead_letter", "republish"} : Goto(s, p)
      BY <1>4, <2>3, CaughtIs DEF AckDone, Live
    <3> QED
      BY <1>4, <2>1, <2>3, <3>1, GotoLoss DEF AckDone, Live, queueVars
  <2> QED
    BY <2>2, <2>3
<1>5. CASE RetryAck(s)
  <2>1. hand[s].at = "retry_ack" /\ Busy(s) /\ UNCHANGED <<msgs, delayed, dlq, oper>>
        /\ "free" \in HandlerAt \ {"retry_ack"}
    BY <1>5 DEF RetryAck, Busy, HandlerAt
  <2>2. CASE Live(s)
    <3>1. Spare(hand[s].copy)
      BY <2>1 DEF LossInv
    <3> QED
      BY <1>5, <2>1, <2>2, <3>1, AckLoss DEF RetryAck, Live
  <2>3. CASE ~Live(s)
    BY <1>5, <2>1, <2>3, GotoLoss DEF RetryAck, Live, queueVars
  <2> QED
    BY <2>2, <2>3
<1>6. CASE BackendFails(s)
  BY <1>6, GotoLoss DEF BackendFails, HandlerAt
<1> QED
  BY <1>1, <1>2, <1>3, <1>4, <1>5, <1>6, RepublishLoss, DeadLetterLoss, ManualMoveLoss
     DEF Handle

\* Deliveries and channels leave the queues alone; purges are remembered.
LEMMA DeliverLoss ==
    ASSUME Shape, LossInv, Shape', Grows, NEW w \in Workers, Deliver(w) \/ ConsumerCloses(w)
    PROVE  LossInv'
<1>1. Placed' = Placed /\ Copies' = Copies /\ oper' = oper
  BY DEF Deliver, ConsumerCloses, queueVars, Placed, In, Copies
<1>2. hand \in [Slots -> Handler]
  BY DEF Shape, Types
<1>3. \A s \in Slots : hand'[s].at = "retry_ack" =>
         hand[s].at = "retry_ack" /\ hand'[s].copy = hand[s].copy
  <2>1. CASE Deliver(w)
    <3>1. PICK c : hand' = [hand EXCEPT ![CHOOSE s \in FreeSlots(w) : TRUE] =
             [at |-> IF ModeOf[TaskOf(c)] = AMO THEN "early_ack" ELSE "running",
              copy |-> c, tag |-> "live"]]
      BY <2>1 DEF Deliver
    <3> QED
      BY <1>2, <3>1
  <2>2. CASE ConsumerCloses(w)
    <3>1. PICK crash \in BOOLEAN : hand' = [s \in Slots |->
              IF s[1] # w THEN hand[s]
              ELSE IF crash THEN NoHandler
              ELSE IF hand[s].tag = "live" THEN [hand[s] EXCEPT !.tag = "lost"]
              ELSE hand[s]]
      BY <2>2 DEF ConsumerCloses
    <3> QED
      BY <1>2, <3>1 DEF NoHandler, Handler
  <2> QED
    BY <2>1, <2>2
<1> QED
  BY <1>1, <1>3, LossStep

LEMMA QueuesLoss ==
    ASSUME Shape, LossInv, Shape', Grows, Expire \/ PurgeQueue \/ PurgeDlq
    PROVE  LossInv'
<1>1. UNCHANGED <<msgs, hand, oper>> /\ Copies' = Copies
  BY DEF Expire, PurgeQueue, PurgeDlq, Copies
<1>2. CASE Expire
  <2>1. Placed' = Placed
    BY <1>2, ExpireShape DEF Placed, In, Expire
  <2> QED
    BY <1>1, <2>1, LossStep
<1>3. CASE PurgeQueue
  <2>1. \A c \in Placed \ Placed' : TaskOf(c) \in gone'
    BY <1>3, PurgeQueueShape DEF Placed, In, PurgeQueue
  <2> QED
    BY <1>1, <2>1, LossStep DEF SpareNext, TaskOf
<1>4. CASE PurgeDlq
  <2>1. \A c \in Placed \ Placed' : TaskOf(c) \in gone'
    BY <1>4, PurgeDlqShape DEF Placed, In, PurgeDlq
  <2> QED
    BY <1>1, <2>1, LossStep DEF SpareNext, TaskOf
<1> QED
  BY <1>2, <1>3, <1>4

\* An operation goes on, and the queues stay as they are.
LEMMA OperLoss ==
    ASSUME Shape, LossInv, Shape', Grows, NEW o \in Operators, NEW rec, Step(o, rec),
           rec.at # "settle", UNCHANGED <<msgs, queueVars, hand>>
    PROVE  LossInv'
<1>1. Placed' = Placed /\ Copies' = Copies
  BY DEF Placed, In, queueVars, Copies
<1>2. \A q \in Operators : oper'[q].at = "settle" => oper'[q] = oper[q]
  BY DEF Step, Shape, Types
<1> QED
  BY <1>1, <1>2, LossStep

LEMMA FetchLoss ==
    ASSUME Shape, LossInv, Shape', Grows, NEW o \in Operators, Fetch(o)
    PROVE  LossInv'
<1> DEFINE c == Head(Ready(dlq))
<1>1. /\ Fetches(o) \/ Deletes(o)
      /\ oper[o].at = "scan" /\ Ready(dlq) # <<>> /\ UNCHANGED <<msgs, main, delayed, hand>>
  BY FetchIs DEF Shape
<1>2. CASE Fetches(o)
  <2>1. Fetched1(o, c) /\ dlq' = dlq
    BY <1>1, <1>2, FetchesDoes DEF Fetches
  <2>2. Placed' = Placed /\ Copies' = Copies
    BY <1>1, <2>1 DEF Placed, In, Copies
  <2>3. \A q \in Operators : oper'[q].at = "settle" => oper'[q] = oper[q]
    BY <2>1 DEF Fetched1
  <2> QED
    BY <1>1, <2>2, <2>3, LossStep
<1>3. CASE Deletes(o)
  <2>1. Deleted1(o, c)
    BY <1>1, <1>3, DeletesDoes
  <2>2. Placed \subseteq Placed' \cup {c} /\ Copies' = Copies
    BY <1>1, <2>1 DEF Placed, In, Copies, Deleted1
  <2>3. SpareNext(c)
    BY <1>1, <2>1 DEF SpareNext, TaskOf, Deleted1
  <2>4. \A q \in Operators : oper'[q].at = "settle" => oper'[q] = oper[q]
    BY <2>1 DEF Deleted1
  <2> QED
    BY <1>1, <2>2, <2>3, <2>4, LossStep
<1> QED
  BY <1>1, <1>2, <1>3

LEMMA ReplayPublishLoss ==
    ASSUME Shape, LossInv, Shape', Grows, NEW o \in Operators, ReplayPublish(o)
    PROVE  LossInv'
<1> DEFINE c == oper[o].target
           n == Len(msgs) + 1
<1>1. oper[o].at = "publish" /\ UNCHANGED hand /\ oper \in [Operators -> Operation]
  BY DEF ReplayPublish, Shape, Types
<1>2. c # 0 /\ c \in Copies /\ TaskOf(c) = oper[o].task
  BY <1>1, TargetIs DEF Shape, Opers
<1>3. PICK rec : Step(o, rec) /\ (rec.at = "settle" => rec.target = c)
  BY <1>1, NoOpIs DEF ReplayPublish, Release, Operation
<1>4. /\ \A q \in Operators : q # o => oper'[q] = oper[q]
      /\ oper'[o].at = "settle" => oper'[o].target = c
  BY <1>1, <1>3 DEF Step
<1>5. CASE UNCHANGED <<msgs, queueVars>> /\ Release(o)
  BY <1>1, <1>5, NoOpIs, OperLoss DEF Release
<1>6. CASE ReplayMessage(o)
  <2>1. PICK r \in {0, msgs[c].retries} :
           Publish([task |-> oper[o].task, retries |-> r], FALSE)
    BY <1>6 DEF ReplayMessage
  <2> DEFINE m == [task |-> oper[o].task, retries |-> r]
  <2>2. m \in Message
    BY <1>2, CopiesAre DEF Message, Shape
  <2>3. Published(m)
    BY <2>1, <2>2, PublishDoes DEF Shape
  <2>4. /\ Placed' = Placed \cup {n} /\ Copies' = Copies \cup {n}
        /\ msgs'[n] = m
        /\ \A d \in Copies : msgs'[d] = msgs[d] /\ n > d
    BY <2>2, <2>3, PublishedPlaces
  <2>5. SpareNext(c)
    BY <1>2, <2>4 DEF SpareNext, TaskOf
  <2> QED
    BY <1>1, <1>4, <2>4, <2>5, LossStep
<1> QED
  BY <1>1, <1>5, <1>6 DEF ReplayPublish

LEMMA ReplaySettleLoss ==
    ASSUME Shape, LossInv, Shape', Grows, NEW o \in Operators, ReplaySettle(o)
    PROVE  LossInv'
<1> DEFINE c == oper[o].target
<1>1. oper[o].at = "settle" /\ UNCHANGED <<msgs, main, delayed, hand>> /\ Step(o, NoOp)
  BY DEF ReplaySettle, Release
<1>2. c \in Copies /\ Spare(c)
  BY <1>1, TargetIs DEF Shape, Opers, LossInv
<1>3. Placed \subseteq Placed' \cup {c} /\ Copies' = Copies /\ Placed \subseteq Copies
      /\ Copies \subseteq Nat
  BY <1>1, ReplaySettleShape, PlacedCopies DEF Placed, In, Copies
<1>4. SpareNext(c)
  <2>1. \A d \in Copies : msgs'[d].task = TaskOf(d)
    BY DEF Grows, TaskOf
  <2>2. Excused(TaskOf(c)) => TaskOf(c) \in succeeded' \cup gone'
    BY DEF Excused, Grows
  <2>3. \A d \in Placed : d > c => d # c
    BY <1>2, <1>3
  <2> QED
    BY <1>2, <1>3, <2>1, <2>2, <2>3 DEF Spare, Younger, SpareNext
<1>5. \A q \in Operators : oper'[q].at = "settle" => oper'[q] = oper[q]
  BY <1>1, NoOpIs DEF Step, Shape, Types
<1> QED
  BY <1>1, <1>3, <1>4, <1>5, LossStep

LEMMA OperateLoss ==
    ASSUME Shape, LossInv, Shape', Grows, NEW o \in Operators, Call(o) \/ Operate(o)
    PROVE  LossInv'
<1>1. oper \in [Operators -> Operation]
  BY DEF Shape, Types
<1>2. CASE Call(o)
  <2>1. \A k, t : [NoOp EXCEPT !.at = "acquire", !.kind = k, !.task = t].at # "settle"
    BY DEF NoOp
  <2>2. \A k : [NoOp EXCEPT !.at = "acquire", !.kind = k].at # "settle"
    BY DEF NoOp
  <2>3. PICK rec : Step(o, rec) /\ rec.at # "settle"
    BY <1>2, <2>1, <2>2 DEF Call
  <2> QED
    BY <1>2, <2>3, OperLoss DEF Call
<1>3. CASE Acquire(o)
  <2>1. \A k : [oper[o] EXCEPT !.at = "scan", !.chan = k].at = "scan"
    BY <1>1 DEF Operation
  <2>2. PICK rec : Step(o, rec) /\ rec.at # "settle"
    BY <1>3, <2>1 DEF Acquire
  <2> QED
    BY <1>3, <2>2, OperLoss DEF Acquire
<1>4. CASE NotFound(o)
  <2>1. PICK rec : Step(o, rec) /\ rec.at # "settle"
    BY <1>1, <1>4 DEF NotFound, Operation
  <2> QED
    BY <1>4, <2>1, OperLoss DEF NotFound
<1>5. CASE Requeue(o)
  <2>1. \A p : [oper[o] EXCEPT !.at = p, !.got = {}].at = p
    BY <1>1 DEF Operation
  <2>2. PICK rec : Step(o, rec) /\ rec.at # "settle"
    BY <1>5, <2>1, NoOpIs DEF Requeue
  <2> QED
    BY <1>5, <2>2, OperLoss DEF Requeue
<1>6. CASE Timeout(o)
  BY <1>6, NoOpIs, OperLoss DEF Timeout
<1> QED
  BY <1>2, <1>3, <1>4, <1>5, <1>6, FetchLoss, ReplayPublishLoss, ReplaySettleLoss DEF Operate

LEMMA PoolChannelLoss ==
    ASSUME Shape, LossInv, Shape', Grows, NEW k \in Channels, PoolChannelCloses(k)
    PROVE  LossInv'
<1>1. Placed' = Placed /\ Copies' = Copies /\ hand' = hand
  BY DEF PoolChannelCloses, queueVars, Placed, In, Copies
<1>2. \A o \in Operators : oper'[o].at = "settle" => oper'[o] = oper[o]
  BY NoOpIs DEF PoolChannelCloses
<1> QED
  BY <1>1, <1>2, LossStep

LEMMA LossNext ==
    ASSUME Shape, LossInv, Shape', Grows, [Next]_vars
    PROVE  LossInv'
<1>1. CASE UNCHANGED vars
  <2>1. Placed' = Placed /\ Copies' = Copies /\ hand' = hand /\ oper' = oper
    BY <1>1 DEF vars, queueVars, Placed, In, Copies
  <2> QED
    BY <2>1, LossStep
<1> QED
  BY <1>1, DispatchLoss, HandleLoss, DeliverLoss, QueuesLoss, OperateLoss, PoolChannelLoss
     DEF Next

\* An at-least-once task that has not run to success stays in one of the queues, in
\* every interleaving of workers, DLQ operations and closing channels.
THEOREM NeverLost == Spec => []NoLoss
<1>1. Init => Shape /\ LossInv
  <2> SUFFICES ASSUME Init
               PROVE  Shape /\ LossInv
    OBVIOUS
  <2>1. Copies = {}
    BY DEF Init, Copies
  <2> QED
    BY <2>1, InitShape DEF Init, LossInv, NoLoss, Dispatched, NoHandler, NoOp
<1>2. Shape /\ LossInv /\ [Next]_vars => Shape' /\ LossInv'
  BY ShapeStep, LossNext
<1>3. LossInv => NoLoss
  BY DEF LossInv
<1> QED
  BY <1>1, <1>2, <1>3, PTL DEF Spec

--------------------------------------------------------------------------------
(* Without a fault a message is handled once.                              *)

\* A handler ends, or goes on with the copy it has: its delivery stays live or the copy
\* leaves the queues, and the function of the task is called once.
Keeps(s) ==
    hand'[s].at # "free" =>
        /\ Busy(s) /\ hand'[s].copy = hand[s].copy
        /\ hand'[s].tag = "live" <=>
              (ModeOf[TaskOf(hand[s].copy)] = ALO \/ hand'[s].at = "early_ack")
        /\ hand'[s].tag = "live" \/ ~Live(s) \/ hand[s].copy \notin Placed'
        /\ hand'[s].at \in AfterRun \/ hand[s].copy \notin ran'

LEMMA KeepsStill ==
    ASSUME Faultless, NEW s \in Slots, hand'[s] = hand[s],
           hand[s].at \in AfterRun \/ hand[s].copy \notin ran' \ ran
    PROVE  Keeps(s)
<1> SUFFICES ASSUME hand'[s].at # "free"
             PROVE  Keeps(s)
  BY DEF Keeps
<1>1. Busy(s)
  BY DEF Busy
<1>2. Live(s) <=> ModeOf[TaskOf(hand[s].copy)] = ALO \/ hand[s].at = "early_ack"
  BY <1>1 DEF Faultless, TagsTell
<1>3. hand[s].at \in AfterRun \/ hand[s].copy \notin ran'
  BY <1>1 DEF Faultless, FreshRuns
<1> QED
  BY <1>1, <1>2, <1>3 DEF Keeps, Live

LEMMA CalmStep ==
    ASSUME Shape, Shape', Grows, Faultless,
           \A s \in Slots : Keeps(s),
           Placed' \cap Copies \subseteq Placed,
           ran' \cap In(delayed)' = {},
           \A c \in ran' \cap In(main)' : \E s \in Slots : hand'[s].tag = "live"
                                                        /\ hand'[s].copy = c,
           reran' = {}, OneAlive'
    PROVE  Faultless'
<1>1. \A s \in Slots : hand'[s].at # "free" => hand'[s].copy = hand[s].copy /\ Busy(s)
                                            /\ hand[s].copy \in Copies
  BY PlacedCopies DEF Keeps
<1>2. \A c \in Copies : msgs'[c].task = TaskOf(c)
  BY DEF Grows, TaskOf
<1>3. TagsTell'
  <2> SUFFICES ASSUME NEW s \in Slots, hand'[s].at # "free"
               PROVE  hand'[s].tag = "live" <=>
                         ModeOf[msgs'[hand'[s].copy].task] = ALO \/ hand'[s].at = "early_ack"
    BY DEF TagsTell, Busy, Live, TaskOf
  <2> QED
    BY <1>1, <1>2 DEF Keeps
<1>4. OneHandler'
  BY <1>1 DEF OneHandler, Busy, Faultless
<1>5. SettledGone'
  <2> SUFFICES ASSUME NEW s \in Slots, hand'[s].at # "free", hand'[s].tag # "live"
               PROVE  hand'[s].copy \notin Placed'
    BY DEF SettledGone, Busy, Live
  <2>1. ~Live(s) => hand[s].copy \notin Placed
    BY <1>1 DEF Faultless, SettledGone
  <2> QED
    BY <1>1, <2>1 DEF Keeps
<1>6. FreshRuns'
  BY <1>1 DEF FreshRuns, Busy, Keeps
<1>7. RanHeld'
  BY DEF RanHeld, Live
<1> QED
  BY <1>3, <1>4, <1>5, <1>6, <1>7 DEF Faultless

\* No copy comes to life, and what is not replaced any more is dead.
LEMMA AliveStep ==
    ASSUME Shape, Grows, Faultless, Alive' \subseteq Alive,
           (Replaced \ Replaced') \cap Alive' = {}
    PROVE  OneAlive'
<1>1. Alive \subseteq Copies
  BY PlacedCopies DEF Alive
<1>2. \A c \in Copies : msgs'[c].task = TaskOf(c)
  BY DEF Grows, TaskOf
<1> SUFFICES ASSUME NEW c \in Alive', NEW d \in Alive', c < d, msgs'[c].task = msgs'[d].task
             PROVE  c \in Replaced'
  BY DEF OneAlive, TaskOf
<1>3. c \in Replaced
  BY <1>1, <1>2 DEF Faultless, OneAlive
<1> QED
  BY <1>3

\* A younger copy comes to life, and the older ones of the task are replaced or dead.
LEMMA AliveNew ==
    ASSUME Shape, Grows, Faultless, NEW n \in Nat, \A c \in Copies : n > c,
           Alive' \subseteq Alive \cup {n},
           (Replaced \ Replaced') \cap Alive' = {},
           \A c \in Alive \cap Alive' : TaskOf(c) = msgs'[n].task => c \in Replaced'
    PROVE  OneAlive'
<1>1. Alive \subseteq Copies /\ Copies \subseteq Nat
  BY PlacedCopies DEF Alive
<1>2. \A c \in Copies : msgs'[c].task = TaskOf(c)
  BY DEF Grows, TaskOf
<1> SUFFICES ASSUME NEW c \in Alive', NEW d \in Alive', c < d, msgs'[c].task = msgs'[d].task
             PROVE  c \in Replaced'
  BY DEF OneAlive, TaskOf
<1>3. c # n
  <2> SUFFICES ASSUME c = n
               PROVE  FALSE
    OBVIOUS
  <2>1. d = n \/ d \in Copies
    BY <1>1
  <2>2. ~(n < n)
    OBVIOUS
  <2>3. \A e \in Copies : ~(n < e)
    BY <1>1
  <2> QED
    BY <2>1, <2>2, <2>3
<1>4. c \in Alive /\ c \in Copies
  BY <1>1, <1>3
<1>5. CASE d = n
  BY <1>2, <1>4, <1>5
<1>6. CASE d # n
  <2>1. c \in Replaced
    BY <1>1, <1>2, <1>4, <1>6 DEF Faultless, OneAlive
  <2> QED
    BY <2>1
<1> QED
  BY <1>5, <1>6

\* What a step of the handler s does to the copies that are alive.
LEMMA OneMoves ==
    ASSUME Shape, Faultless, NEW s \in Slots, Busy(s),
           \A r \in Slots : r # s => hand'[r] = hand[r],
           hand'[s].at # "free" => hand'[s].copy = hand[s].copy
    PROVE  /\ Alive' \subseteq Alive \cup Placed'
           /\ hand'[s].at = "free" /\ hand[s].copy \notin Placed' => hand[s].copy \notin Alive'
           /\ oper' = oper => Replaced \subseteq Replaced' \cup {hand[s].copy}
           /\ oper' = oper /\ (hand[s].at # "retry_ack" \/ hand'[s].at = "retry_ack") =>
                 Replaced \subseteq Replaced'
           /\ hand'[s].at = "retry_ack" => hand[s].copy \in Replaced'
<1>1. Alive' = Placed' \cup {hand'[r].copy : r \in {q \in Slots : hand'[q].at # "free"}}
  BY DEF Alive, Busy
<1>2. \A r \in Slots : hand'[r].at # "free" => Busy(r) /\ hand'[r].copy = hand[r].copy
  BY DEF Busy
<1>3. Alive' \subseteq Alive \cup Placed'
  BY <1>1, <1>2 DEF Alive
<1>4. hand'[s].at = "free" /\ hand[s].copy \notin Placed' => hand[s].copy \notin Alive'
  BY <1>1, <1>2 DEF Faultless, OneHandler
<1>5. Replaced' = {hand'[r].copy : r \in {q \in Slots : hand'[q].at = "retry_ack"}} \cup
                  {oper'[o].target : o \in {q \in Operators : oper'[q].at = "settle"}}
  BY DEF Replaced
<1>6. oper' = oper => Replaced \subseteq Replaced' \cup {hand[s].copy}
  BY <1>5 DEF Replaced
<1>7. oper' = oper /\ (hand[s].at # "retry_ack" \/ hand'[s].at = "retry_ack") =>
         Replaced \subseteq Replaced'
  BY <1>5 DEF Replaced
<1>8. hand'[s].at = "retry_ack" => hand[s].copy \in Replaced'
  BY <1>5
<1> QED
  BY <1>3, <1>4, <1>6, <1>7, <1>8

\* A handler goes on; its delivery and the queues stay as they are.
LEMMA GotoCalm ==
    ASSUME Shape, Shape', Grows, Faultless, NEW s \in Slots, Busy(s),
           hand[s].at # "early_ack",
           NEW p \in AfterRun \cup {"free"}, Goto(s, p), p = "free" => ~Live(s),
           hand[s].at = "retry_ack" => p = "free",
           UNCHANGED <<msgs, queueVars, oper>>, ran' \subseteq ran \cup {hand[s].copy},
           reran' = {}
    PROVE  Faultless'
<1> DEFINE c == hand[s].copy
<1>1. p \in HandlerAt /\ p # "early_ack"
  BY DEF HandlerAt, AfterRun
<1>2. /\ \A r \in Slots : r # s => hand'[r] = hand[r]
      /\ hand'[s].at = p
      /\ p # "free" => hand'[s].copy = hand[s].copy /\ hand'[s].tag = hand[s].tag
  BY <1>1, GotoDoes DEF Shape
<1>3. Placed' = Placed /\ In(main)' = In(main) /\ In(delayed)' = In(delayed)
  BY DEF Placed, In, queueVars
<1>4. Keeps(s)
  BY <1>1, <1>2 DEF Keeps, Live, Faultless, TagsTell
<1>5. \A r \in Slots : r # s => Keeps(r)
  <2> SUFFICES ASSUME NEW r \in Slots, r # s
               PROVE  Keeps(r)
    OBVIOUS
  <2>1. Busy(r) => hand[r].copy # c
    BY DEF Faultless, OneHandler
  <2>2. ~Busy(r) => Keeps(r)
    BY <1>2 DEF Keeps, Busy
  <2> QED
    BY <1>2, <2>1, <2>2, KeepsStill
<1>6. ran' \cap In(delayed)' = {}
  <2>1. c \notin In(delayed) /\ ran \cap In(delayed) = {}
    BY DEF Shape, Hands, Faultless, RanHeld
  <2> QED
    BY <1>3, <2>1
<1>7. \A d \in ran' \cap In(main)' : \E r \in Slots : hand'[r].tag = "live" /\ hand'[r].copy = d
  <2>1. c \in In(main) => Live(s)
    BY DEF Faultless, SettledGone, Placed
  <2>2. \A d \in ran \cap In(main) : \E r \in Slots : Live(r) /\ hand[r].copy = d
    BY DEF Faultless, RanHeld
  <2>3. \A r \in Slots : Live(r) => hand'[r].tag = "live" /\ hand'[r].copy = hand[r].copy
    BY <1>2 DEF Live
  <2> QED
    BY <1>3, <2>1, <2>2, <2>3
<1>8. OneAlive'
  <2>1. Alive' \subseteq Alive
    BY <1>2, <1>3, OneMoves DEF Alive
  <2>2. (Replaced \ Replaced') \cap Alive' = {}
    <3>1. p = "free" => c \notin Placed'
      BY <1>3 DEF Faultless, SettledGone
    <3>2. p = "free" => c \notin Alive'
      BY <1>2, <3>1, OneMoves
    <3>3. Replaced \subseteq Replaced' \cup {c}
      BY <1>2, OneMoves
    <3> QED
      BY <1>2, <3>2, <3>3, OneMoves
  <2> QED
    BY <2>1, <2>2, AliveStep
<1>9. Placed' \cap Copies \subseteq Placed
  BY <1>3
<1> QED
  BY <1>4, <1>5, <1>6, <1>7, <1>8, <1>9, CalmStep

\* A delivery is acknowledged: its copy leaves the queues, and nobody has run it who
\* could be given it again.
LEMMA AckCalm ==
    ASSUME Shape, Shape', Grows, Faultless, NEW s \in Slots, Live(s),
           NEW p \in {"free", "running"}, Acknowledge(s, p),
           p = "running" => hand[s].at = "early_ack",
           UNCHANGED <<msgs, delayed, dlq, oper, ran, reran>>
    PROVE  Faultless'
<1> DEFINE c == hand[s].copy
<1>1. Busy(s) /\ s[1] \in Workers /\ c \in In(main)
  BY DEF Shape, Hands, HeldApart, Slots
<1>2. /\ \A r \in Slots : r # s => hand'[r] = hand[r]
      /\ hand'[s].at = p /\ hand'[s].tag = "settled"
      /\ p # "free" => hand'[s].copy = c
      /\ In(main)' = In(main) \ {c}
  BY AcknowledgeDoes DEF Shape, HandlerAt
<1>3. Placed' = Placed \ {c} /\ In(delayed)' = In(delayed)
  BY <1>1, <1>2 DEF Placed, In, Shape, QueuesApart
<1>4. Keeps(s)
  <2> SUFFICES ASSUME p = "running"
               PROVE  Keeps(s)
    BY <1>2 DEF Keeps
  <2>1. ModeOf[TaskOf(c)] # ALO
    BY DEF Shape, Hands, ALO, AMO
  <2>2. c \notin ran
    BY <1>1 DEF Faultless, FreshRuns, AfterRun
  <2> QED
    BY <1>1, <1>2, <1>3, <2>1, <2>2 DEF Keeps
<1>5. \A r \in Slots : r # s => Keeps(r)
  BY <1>2, KeepsStill
<1>6. ran' \cap In(delayed)' = {}
  BY <1>3 DEF Faultless, RanHeld
<1>7. \A d \in ran' \cap In(main)' : \E r \in Slots : hand'[r].tag = "live" /\ hand'[r].copy = d
  <2>1. \A d \in ran \cap In(main) : \E r \in Slots : Live(r) /\ hand[r].copy = d
    BY DEF Faultless, RanHeld
  <2> QED
    BY <1>2, <2>1 DEF Live
<1>8. reran' = {}
  BY DEF Faultless
<1>9. OneAlive'
  <2>1. Alive' \subseteq Alive
    BY <1>1, <1>2, <1>3, OneMoves DEF Alive
  <2>2. (Replaced \ Replaced') \cap Alive' = {}
    <3>1. p = "free" => c \notin Alive'
      BY <1>1, <1>2, <1>3, OneMoves
    <3> QED
      BY <1>1, <1>2, <3>1, OneMoves
  <2> QED
    BY <2>1, <2>2, AliveStep
<1> QED
  BY <1>3, <1>4, <1>5, <1>6, <1>7, <1>8, <1>9, CalmStep

\* What a handler has in its hands is replaced by no other, nor by an operation.
LEMMA NotReplaced ==
    ASSUME Shape, Faultless, NEW s \in Slots, Busy(s), hand[s].at # "retry_ack"
    PROVE  hand[s].copy \notin Replaced
<1> SUFFICES ASSUME hand[s].copy \in Replaced
             PROVE  FALSE
  OBVIOUS
<1>1. CASE \E r \in Slots : hand[r].at = "retry_ack" /\ hand[r].copy = hand[s].copy
  BY <1>1 DEF Faultless, OneHandler, Busy
<1>2. CASE \E o \in Operators : oper[o].at = "settle" /\ oper[o].target = hand[s].copy
  <2>1. hand[s].copy \in In(dlq)
    BY <1>2, TargetIs DEF Shape, Opers
  <2>2. Live(s) => hand[s].copy \in In(main)
    BY DEF Shape, Hands, HeldApart, Slots
  <2> QED
    BY <2>1, <2>2 DEF Shape, QueuesApart, Faultless, SettledGone, Placed
<1> QED
  BY <1>1, <1>2 DEF Replaced

\* The older copies of the task of a handler are being replaced.
LEMMA OlderReplaced ==
    ASSUME Shape, Faultless, NEW c \in Alive, c \notin Replaced,
           NEW d \in Alive, d # c, TaskOf(d) = TaskOf(c)
    PROVE  d \in Replaced
<1>1. c \in Nat /\ d \in Nat
  BY PlacedCopies DEF Alive
<1>2. c < d \/ d < c
  BY <1>1
<1> QED
  BY <1>2 DEF Faultless, OneAlive

LEMMA SameHands ==
    ASSUME Shape, Faultless, hand' = hand
    PROVE  /\ Alive' \subseteq Alive \cup Placed'
           /\ oper' = oper => Replaced' = Replaced
           /\ ran' \subseteq ran => \A s \in Slots : Keeps(s)
<1>1. ran' \subseteq ran => \A s \in Slots : Keeps(s)
  BY KeepsStill
<1> QED
  BY <1>1 DEF Alive, Replaced, Busy

LEMMA DispatchCalm ==
    ASSUME Shape, Shape', Grows, Faultless, NEW t \in Tasks, Dispatch(t)
    PROVE  Faultless'
<1> DEFINE m == [task |-> t, retries |-> 0]
           n == Len(msgs) + 1
<1>1. m \in Message
  BY DEF Message
<1>2. Published(m)
  BY <1>1, PublishDoes DEF Dispatch, Shape
<1>3. hand' = hand /\ oper' = oper /\ ran' = ran /\ reran' = reran
      /\ \A c \in Copies : TaskOf(c) # t
  BY DEF Dispatch, historyVars
<1>4. /\ Placed' = Placed \cup {n} /\ msgs'[n] = m
      /\ \A c \in Copies : msgs'[c] = msgs[c] /\ n > c
      /\ n \in Nat /\ n \notin Copies
  BY <1>1, <1>2, PublishedPlaces DEF Published, Appended
<1>5. In(delayed)' \cap Copies \subseteq In(delayed) /\ In(main)' \cap Copies \subseteq In(main)
  BY <1>2, InCopies DEF Published, In, Shape, Appended
<1>6. ran \subseteq Copies
  BY DEF Shape, Types, Histories
<1>7. Alive \subseteq Copies
  BY PlacedCopies DEF Alive
<1>8. OneAlive'
  <2>1. Alive' \subseteq Alive \cup {n}
    BY <1>3, <1>4, SameHands DEF Alive
  <2>2. Replaced' = Replaced
    BY <1>3, SameHands
  <2>3. \A c \in Alive \cap Alive' : TaskOf(c) = msgs'[n].task => c \in Replaced'
    BY <1>3, <1>4, <1>7
  <2> QED
    BY <1>4, <2>1, <2>2, <2>3, AliveNew
<1>9. \A c \in ran' \cap In(main)' : \E s \in Slots : hand'[s].tag = "live" /\ hand'[s].copy = c
  BY <1>3, <1>5, <1>6 DEF Faultless, RanHeld, Live
<1>10. ran' \cap In(delayed)' = {} /\ reran' = {}
  BY <1>3, <1>5, <1>6 DEF Faultless, RanHeld
<1>11. \A s \in Slots : Keeps(s)
  BY <1>3, SameHands
<1>12. Placed' \cap Copies \subseteq Placed
  BY <1>4
<1> QED
  BY <1>8, <1>9, <1>10, <1>11, <1>12, CalmStep

\* A retry publishes the copy that replaces the one in hand.
LEMMA RepublishCalm ==
    ASSUME Shape, Shape', Grows, Faultless, NEW s \in Slots, Republish(s), closes' = closes
    PROVE  Faultless'
<1> DEFINE c == hand[s].copy
           m == [msgs[c] EXCEPT !.retries = @ + 1]
           n == Len(msgs) + 1
           p == IF ModeOf[m.task] = ALO THEN "retry_ack" ELSE "free"
<1>1. hand[s].at = "republish" /\ Busy(s) /\ c \in Copies /\ c \in Alive /\ "republish" \in AfterRun
  BY PlacedCopies DEF Republish, Busy, Alive, AfterRun
<1>2. msgs[c] \in Message
  BY <1>1, CopiesAre DEF Shape
<1>3. m \in Message /\ m.task = TaskOf(c)
  BY <1>2 DEF Message, TaskOf
<1>4. ~CallFails
  <2>1. closes \in Nat
    BY DEF Shape, Types, Histories
  <2> QED
    BY <2>1 DEF CallFails
<1>5. /\ \E later \in BOOLEAN : Publish(m, later)
      /\ Goto(s, p) /\ UNCHANGED <<oper, ran, reran>>
  BY <1>4 DEF Republish, historyVars
<1>6. p \in HandlerAt /\ p \in {"retry_ack", "free"}
  BY DEF HandlerAt
<1>7. /\ \A r \in Slots : r # s => hand'[r] = hand[r]
      /\ hand'[s].at = p
      /\ p # "free" => hand'[s].copy = c /\ hand'[s].tag = hand[s].tag
  BY <1>5, <1>6, GotoDoes DEF Shape
<1>8. Live(s) <=> p = "retry_ack"
  BY <1>1, <1>3 DEF Faultless, TagsTell
<1>9. c \in Placed => Live(s)
  BY <1>1 DEF Faultless, SettledGone
<1> HIDE DEF m, p
<1>10. Published(m)
  BY <1>3, <1>5, PublishDoes DEF Shape
<1>11. /\ Placed' = Placed \cup {n} /\ msgs'[n] = m
       /\ \A d \in Copies : msgs'[d] = msgs[d] /\ n > d
       /\ n \in Nat /\ n \notin Copies
  BY <1>3, <1>10, PublishedPlaces DEF Published, Appended
<1>12. In(delayed)' \cap Copies \subseteq In(delayed) /\ In(main)' \cap Copies \subseteq In(main)
  BY <1>10, InCopies DEF Published, In, Shape, Appended
<1>13. ran \subseteq Copies
  BY DEF Shape, Types, Histories
<1>14. Alive' \subseteq Alive \cup {n} /\ Replaced \subseteq Replaced'
  BY <1>1, <1>5, <1>7, <1>11, OneMoves DEF Alive
<1>15. c \in Alive' => c \in Replaced'
  <2>1. p = "retry_ack" => c \in Replaced'
    BY <1>1, <1>7, OneMoves
  <2>2. p = "free" => c \notin Alive'
    BY <1>1, <1>6, <1>7, <1>8, <1>9, <1>11, OneMoves
  <2> QED
    BY <1>6, <2>1, <2>2
<1>16. OneAlive'
  <2>1. c \notin Replaced
    BY <1>1, NotReplaced
  <2>2. \A d \in Alive \cap Alive' : TaskOf(d) = msgs'[n].task => d \in Replaced'
    BY <1>1, <1>3, <1>11, <1>14, <1>15, <2>1, OlderReplaced
  <2> QED
    BY <1>11, <1>14, <2>2, AliveNew
<1>17. \A d \in ran' \cap In(main)' : \E r \in Slots : hand'[r].tag = "live" /\ hand'[r].copy = d
  <2>1. \A r \in Slots : Live(r) => hand'[r].tag = "live" /\ hand'[r].copy = hand[r].copy
    BY <1>7, <1>8 DEF Live
  <2> QED
    BY <1>5, <1>12, <1>13, <2>1 DEF Faultless, RanHeld
<1>18. ran' \cap In(delayed)' = {} /\ reran' = {}
  BY <1>5, <1>12, <1>13 DEF Faultless, RanHeld
<1>19. Keeps(s)
  BY <1>1, <1>3, <1>6, <1>7, <1>8 DEF Keeps, Live, Faultless, TagsTell, AfterRun
<1>20. \A r \in Slots : r # s => Keeps(r)
  BY <1>5, <1>7, KeepsStill
<1>21. Placed' \cap Copies \subseteq Placed
  BY <1>11
<1> QED
  BY <1>16, <1>17, <1>18, <1>19, <1>20, <1>21, CalmStep

\* A rejected message goes from the main queue to the DLQ.
LEMMA DeadLetterCalm ==
    ASSUME Shape, Shape', Grows, Faultless, NEW s \in Slots, DeadLetter(s)
    PROVE  Faultless'
<1> DEFINE c == hand[s].copy
<1>1. hand[s].at = "dead_letter" /\ Busy(s) /\ c \in Copies
      /\ UNCHANGED <<msgs, delayed, oper, ran, reran>> /\ reran = {}
  BY PlacedCopies DEF DeadLetter, Busy, Faultless
<1>2. CASE ~Live(s)
  <2>1. PICK p \in {"manual", "free"} : Goto(s, p)
    BY <1>2 DEF DeadLetter, Live
  <2>2. UNCHANGED <<msgs, queueVars, oper>>
    BY <1>2 DEF DeadLetter, queueVars, Live
  <2>3. p \in AfterRun \cup {"free"}
    BY DEF AfterRun
  <2> QED
    BY <1>1, <1>2, <2>1, <2>2, <2>3, GotoCalm
<1>3. CASE Live(s)
  <2>1. Acknowledge(s, "free") /\ AddToDlq(c)
    BY <1>3 DEF DeadLetter, Live
  <2>2. /\ \A r \in Slots : r # s => hand'[r] = hand[r]
        /\ hand'[s].at = "free" /\ In(main)' = In(main) \ {c}
    BY <2>1, AcknowledgeDoes DEF Shape, HandlerAt
  <2>3. Copies' = Copies /\ In(delayed)' = In(delayed)
    BY <1>1 DEF Copies, In
  <2>4. EntersDlq(c)
    BY <1>1, <2>1, <2>3, AddToDlqDoes DEF Shape
  <2>5. In(dlq)' \subseteq In(dlq) \cup {c}
    BY <2>4 DEF EntersDlq
  <2>6. c \in In(main)
    BY <1>3 DEF Shape, Hands, HeldApart, Slots
  <2>7. Placed' \subseteq Placed
    BY <2>2, <2>3, <2>5, <2>6 DEF Placed, In
  <2>8. Keeps(s)
    BY <2>2 DEF Keeps
  <2>9. \A r \in Slots : r # s => Keeps(r)
    BY <1>1, <2>2, KeepsStill
  <2>10. ran' \cap In(delayed)' = {}
    BY <1>1, <2>3 DEF Faultless, RanHeld
  <2>11. \A d \in ran' \cap In(main)' :
            \E r \in Slots : hand'[r].tag = "live" /\ hand'[r].copy = d
    <3>1. \A d \in ran \cap In(main) : \E r \in Slots : Live(r) /\ hand[r].copy = d
      BY DEF Faultless, RanHeld
    <3> QED
      BY <1>1, <2>2, <3>1 DEF Live
  <2>12. OneAlive'
    <3>1. Alive' \subseteq Alive
      BY <1>1, <2>2, <2>7, OneMoves DEF Alive
    <3>2. Replaced \subseteq Replaced'
      BY <1>1, <2>2, OneMoves
    <3> QED
      BY <3>1, <3>2, AliveStep
  <2> QED
    BY <1>1, <2>7, <2>8, <2>9, <2>10, <2>11, <2>12, CalmStep
<1> QED
  BY <1>2, <1>3

\* A message acknowledged before it failed is published as a dead letter.
LEMMA ManualMoveCalm ==
    ASSUME Shape, Shape', Grows, Faultless, NEW s \in Slots, ManualMove(s), closes' = closes
    PROVE  Faultless'
<1> DEFINE c == hand[s].copy
           m == msgs[c]
           n == Len(msgs) + 1
<1>1. hand[s].at = "manual" /\ Busy(s) /\ c \in Copies /\ c \in Alive
      /\ UNCHANGED <<main, delayed, oper, ran, reran>>
  BY PlacedCopies DEF ManualMove, Busy, Alive
<1>2. ~CallFails
  <2>1. closes \in Nat
    BY DEF Shape, Types, Histories
  <2> QED
    BY <2>1 DEF CallFails
<1>3. msgs' = Append(msgs, m) /\ AddToDlq(n) /\ Goto(s, "free")
  BY <1>2 DEF ManualMove
<1>4. m \in Message
  BY <1>1, CopiesAre DEF Shape
<1>5. Appended(m)
  BY <1>3, <1>4, AppendMessage DEF Shape
<1>6. n \in Nat /\ (\A d \in Copies : n > d) /\ n \notin Copies
  BY <1>5, CopiesAre DEF Shape, Appended
<1>7. EntersDlq(n)
  BY <1>3, <1>5, AddToDlqDoes DEF Shape, Appended
<1>8. In(dlq)' \subseteq In(dlq) \cup {n}
  BY <1>7 DEF EntersDlq
<1>9. Placed' \subseteq Placed \cup {n} /\ In(main)' = In(main) /\ In(delayed)' = In(delayed)
  BY <1>1, <1>8 DEF Placed, In
<1>10. /\ \A r \in Slots : r # s => hand'[r] = hand[r]
       /\ hand'[s].at = "free"
  BY <1>3, GotoDoes DEF Shape, HandlerAt
<1>11. ~Live(s) /\ c \notin Placed
  BY <1>1 DEF Shape, Hands, Faultless, SettledGone
<1>12. c \notin Alive' /\ Alive' \subseteq Alive \cup {n} /\ Replaced \subseteq Replaced'
  <2>1. c \notin Placed'
    BY <1>1, <1>6, <1>9, <1>11
  <2> QED
    BY <1>1, <1>9, <1>10, <2>1, OneMoves DEF Alive
<1>13. OneAlive'
  <2>1. c \notin Replaced
    BY <1>1, NotReplaced
  <2>2. msgs'[n].task = TaskOf(c)
    BY <1>5 DEF Appended, TaskOf
  <2>3. \A d \in Alive \cap Alive' : TaskOf(d) = msgs'[n].task => d \in Replaced'
    BY <1>1, <1>12, <2>1, <2>2, OlderReplaced
  <2> QED
    BY <1>6, <1>12, <2>3, AliveNew
<1>14. \A d \in ran' \cap In(main)' : \E r \in Slots : hand'[r].tag = "live" /\ hand'[r].copy = d
  <2>1. \A d \in ran \cap In(main) : \E r \in Slots : Live(r) /\ hand[r].copy = d
    BY DEF Faultless, RanHeld
  <2> QED
    BY <1>1, <1>9, <1>10, <1>11, <2>1 DEF Live
<1>15. ran' \cap In(delayed)' = {} /\ reran' = {}
  BY <1>1, <1>9 DEF Faultless, RanHeld
<1>16. Keeps(s)
  BY <1>10 DEF Keeps
<1>17. \A r \in Slots : r # s => Keeps(r)
  BY <1>1, <1>10, KeepsStill
<1>18. Placed' \cap Copies \subseteq Placed
  BY <1>6, <1>9
<1> QED
  BY <1>13, <1>14, <1>15, <1>16, <1>17, <1>18, CalmStep

LEMMA HandleCalm ==
    ASSUME Shape, Shape', Grows, Faultless, NEW s \in Slots, Handle(s), closes' = closes
    PROVE  Faultless'
<1>1. ~CallFails
  <2>1. closes \in Nat
    BY DEF Shape, Types, Histories
  <2> QED
    BY <2>1 DEF CallFails
<1>2. reran = {} /\ (hand[s].at = "early_ack" => Live(s))
  BY DEF Faultless, TagsTell, Busy
<1>3. {"store", "ack", "republish", "dead_letter"} \subseteq AfterRun
  BY DEF AfterRun
<1>4. CASE EarlyAck(s)
  <2>1. hand[s].at = "early_ack" /\ Acknowledge(s, "running")
    BY <1>2, <1>4 DEF EarlyAck, Live
  <2> QED
    BY <1>2, <1>4, <2>1, AckCalm DEF EarlyAck, historyVars
<1>5. CASE Run(s)
  <2>1. PICK p \in {"store", "dead_letter", "republish"} : Goto(s, p)
    BY <1>5, CaughtIs DEF Run
  <2>2. hand[s].at = "running" /\ Busy(s) /\ ran' = ran \cup {hand[s].copy}
        /\ reran' = reran \cup (ran \cap {hand[s].copy})
    BY <1>5 DEF Run, Busy
  <2>3. reran' = {}
    BY <1>2, <2>2 DEF Faultless, FreshRuns, AfterRun
  <2> QED
    BY <1>3, <1>5, <2>1, <2>2, <2>3, GotoCalm DEF Run
<1>6. CASE StoreSuccess(s)
  <2> DEFINE t == TaskOf(hand[s].copy)
  <2>1. hand[s].at = "store" /\ Busy(s) /\ Goto(s, IF ModeOf[t] = ALO THEN "ack" ELSE "free")
        /\ UNCHANGED <<msgs, queueVars, oper, ran, reran>>
    BY <1>1, <1>6 DEF StoreSuccess, Busy
  <2>2. ModeOf[t] # ALO => ~Live(s)
    BY <2>1 DEF Faultless, TagsTell
  <2>3. CASE ModeOf[t] = ALO
    BY <1>2, <1>3, <2>1, <2>3, GotoCalm
  <2>4. CASE ModeOf[t] # ALO
    BY <1>2, <1>3, <2>1, <2>2, <2>4, GotoCalm
  <2> QED
    BY <2>3, <2>4
<1>7. CASE AckDone(s)
  <2>1. hand[s].at = "ack" /\ Busy(s) /\ UNCHANGED <<msgs, delayed, dlq, oper, ran, reran>>
    BY <1>7 DEF AckDone, Busy, historyVars
  <2>2. CASE Live(s)
    <3>1. Acknowledge(s, "free")
      BY <1>7, <2>2 DEF AckDone, Live
    <3> QED
      BY <2>1, <2>2, <3>1, AckCalm
  <2>3. CASE ~Live(s)
    <3>1. PICK p \in {"dead_letter", "republish"} : Goto(s, p)
      BY <1>7, <2>3, CaughtIs DEF AckDone, Live
    <3>2. UNCHANGED queueVars
      BY <1>7, <2>1, <2>3 DEF AckDone, Live, queueVars
    <3> QED
      BY <1>2, <1>3, <2>1, <3>1, <3>2, GotoCalm
  <2> QED
    BY <2>2, <2>3
<1>8. CASE RetryAck(s)
  <2>1. hand[s].at = "retry_ack" /\ Busy(s) /\ UNCHANGED <<msgs, delayed, dlq, oper, ran, reran>>
    BY <1>8 DEF RetryAck, Busy, historyVars
  <2>2. CASE Live(s)
    <3>1. Acknowledge(s, "free")
      BY <1>8, <2>2 DEF RetryAck, Live
    <3> QED
      BY <2>1, <2>2, <3>1, AckCalm
  <2>3. CASE ~Live(s)
    <3>1. Goto(s, "free") /\ UNCHANGED queueVars
      BY <1>8, <2>1, <2>3 DEF RetryAck, Live, queueVars
    <3> QED
      BY <1>2, <2>1, <2>3, <3>1, GotoCalm
  <2> QED
    BY <2>2, <2>3
<1>9. CASE BackendFails(s)
  <2>1. CallFails
    BY <1>9 DEF BackendFails, CallFails
  <2> QED
    BY <1>1, <2>1
<1> QED
  BY <1>4, <1>5, <1>6, <1>7, <1>8, <1>9, RepublishCalm, DeadLetterCalm, ManualMoveCalm
     DEF Handle

\* A message is delivered to one handler, that has not run it.
LEMMA DeliverCalm ==
    ASSUME Shape, Shape', Grows, Faultless, NEW w \in Workers, Deliver(w)
    PROVE  Faultless'
<1> DEFINE c == Head(Ready(main))
           s == CHOOSE r \in FreeSlots(w) : TRUE
           at == IF ModeOf[TaskOf(c)] = AMO THEN "early_ack" ELSE "running"
<1>1. s \in Slots /\ s[1] = w /\ hand[s].at = "free" /\ ~Live(s) /\ w \in Holders
  BY DEF Deliver, FreeSlots, Shape, Hands, Busy, Holders
<1>2. c \in In(main) /\ c \notin HeldCopies /\ c \in Copies /\ TaskOf(c) \in Tasks
  BY ReadyIn, InCopies, CopiesAre DEF Deliver, Shape, Types
<1>3. /\ hand' = [hand EXCEPT ![s] = [at |-> at, copy |-> c, tag |-> "live"]]
      /\ UNCHANGED <<msgs, main, delayed, dlq, oper, ran, reran>>
  BY DEF Deliver, queueVars, historyVars
<1>4. /\ at \in {"early_ack", "running"}
      /\ ModeOf[TaskOf(c)] = ALO \/ at = "early_ack"
  BY <1>2, RabbitAssumption
<1>5. at # "free" /\ at # "retry_ack" /\ at \notin AfterRun
  BY <1>4 DEF AfterRun
<1> HIDE DEF c, s, at
<1>6. /\ hand'[s].at = at /\ hand'[s].copy = c /\ hand'[s].tag = "live"
      /\ \A r \in Slots : r # s => hand'[r] = hand[r]
  BY <1>1, <1>3 DEF Shape, Types
<1>7. \A r \in Slots : Live(r) => hand[r].copy \in HeldCopies /\ r # s
  <2>1. \A r \in Slots : r[1] \in Holders
    BY DEF Slots, Holders
  <2> QED
    BY <1>1, <2>1 DEF Shape, Hands, HeldCopies
<1>8. \A r \in Slots : Busy(r) => hand[r].copy # c /\ r # s
  BY <1>1, <1>2, <1>7 DEF Faultless, SettledGone, Placed, Busy
<1>9. c \notin ran
  BY <1>2, <1>7 DEF Faultless, RanHeld
<1>10. \A r \in Slots : hand'[r].at # "free" => r = s \/ (Busy(r) /\ hand'[r] = hand[r])
  BY <1>6 DEF Busy
<1>11. Copies' = Copies /\ Placed' = Placed
  BY <1>3 DEF Copies, Placed, In
<1>12. \A d \in Copies : msgs'[d].task = TaskOf(d)
  BY <1>3 DEF TaskOf
<1>13. TagsTell'
  <2> SUFFICES ASSUME NEW r \in Slots, hand'[r].at # "free"
               PROVE  hand'[r].tag = "live" <=>
                         ModeOf[msgs'[hand'[r].copy].task] = ALO \/ hand'[r].at = "early_ack"
    BY DEF TagsTell, Busy, Live, TaskOf
  <2>1. CASE r = s
    BY <1>2, <1>4, <1>6, <1>12, <2>1
  <2>2. CASE r # s
    <3>1. Busy(r) /\ hand'[r] = hand[r] /\ hand[r].copy \in Copies
      BY <1>10, <2>2, PlacedCopies
    <3> QED
      BY <1>12, <3>1 DEF Faultless, TagsTell, Live
  <2> QED
    BY <2>1, <2>2
<1>14. OneHandler'
  BY <1>6, <1>8, <1>10 DEF Faultless, OneHandler, Busy
<1>15. SettledGone'
  BY <1>6, <1>10, <1>11 DEF Faultless, SettledGone, Busy, Live
<1>16. FreshRuns'
  BY <1>3, <1>6, <1>9, <1>10 DEF Faultless, FreshRuns, Busy
<1>17. RanHeld'
  <2>1. \A r \in Slots : Live(r) => hand'[r] = hand[r]
    BY <1>6, <1>7
  <2>2. In(main)' = In(main) /\ In(delayed)' = In(delayed)
    BY <1>3 DEF In
  <2> QED
    BY <1>3, <2>1, <2>2 DEF Faultless, RanHeld, Live
<1>18. OneAlive'
  <2>1. Alive' \subseteq Alive
    BY <1>2, <1>6, <1>10, <1>11 DEF Alive, Busy, Placed
  <2>2. Replaced \subseteq Replaced'
    <3>1. \A r \in Slots : hand[r].at = "retry_ack" => hand'[r] = hand[r]
      BY <1>1, <1>6
    <3> QED
      BY <1>3, <3>1 DEF Replaced
  <2> QED
    BY <2>1, <2>2, AliveStep
<1>19. reran' = {}
  BY <1>3 DEF Faultless
<1> QED
  BY <1>13, <1>14, <1>15, <1>16, <1>17, <1>18, <1>19 DEF Faultless

\* Nothing that a delayed message becomes was run, and purges only take away.
LEMMA QueuesCalm ==
    ASSUME Shape, Shape', Grows, Faultless, Expire \/ PurgeQueue \/ PurgeDlq
    PROVE  Faultless'
<1>1. UNCHANGED <<msgs, hand, oper, ran, reran>>
  BY DEF Expire, PurgeQueue, PurgeDlq, historyVars
<1>2. Placed' \subseteq Placed /\ In(delayed)' \subseteq In(delayed)
      /\ In(main)' \subseteq In(main) \cup In(delayed)
  <2>1. CASE Expire
    BY <2>1, ExpireShape DEF Placed, In, Expire
  <2>2. CASE PurgeQueue
    BY <2>2, PurgeQueueShape DEF Placed, In, PurgeQueue
  <2>3. CASE PurgeDlq
    BY <2>3, PurgeDlqShape DEF Placed, In, PurgeDlq
  <2> QED
    BY <2>1, <2>2, <2>3
<1>3. OneAlive'
  <2>1. Alive' \subseteq Alive /\ Replaced' = Replaced
    BY <1>1, <1>2, SameHands DEF Alive
  <2> QED
    BY <2>1, AliveStep
<1>4. \A c \in ran' \cap In(main)' : \E s \in Slots : hand'[s].tag = "live" /\ hand'[s].copy = c
  BY <1>1, <1>2 DEF Faultless, RanHeld, Live
<1>5. ran' \cap In(delayed)' = {} /\ reran' = {}
  BY <1>1, <1>2 DEF Faultless, RanHeld
<1>6. \A s \in Slots : Keeps(s)
  BY <1>1, SameHands
<1> QED
  BY <1>2, <1>3, <1>4, <1>5, <1>6, CalmStep

\* An operation that ends or goes on, and only takes away from the DLQ.
LEMMA OperCalm ==
    ASSUME Shape, Shape', Grows, Faultless,
           UNCHANGED <<msgs, main, delayed, hand, ran, reran>>, In(dlq)' \subseteq In(dlq),
           \A o \in Operators : oper[o].at = "settle" =>
              oper'[o] = oper[o] \/ oper[o].target \notin In(dlq)'
    PROVE  Faultless'
<1>1. Placed' \subseteq Placed /\ In(main)' = In(main) /\ In(delayed)' = In(delayed)
  BY DEF Placed, In
<1>2. OneAlive'
  <2>1. Alive' \subseteq Alive
    BY <1>1, SameHands DEF Alive
  <2>2. \A c \in Replaced : c \in Replaced' \/ c \notin Alive'
    <3> SUFFICES ASSUME NEW c \in Replaced, c \notin Replaced'
                 PROVE  c \notin Alive'
      OBVIOUS
    <3>1. PICK o \in Operators : oper[o].at = "settle" /\ c = oper[o].target
      BY DEF Replaced
    <3>2. oper'[o] # oper[o]
      BY <3>1 DEF Replaced
    <3>3. c \in In(dlq) /\ c \notin In(dlq)'
      BY <3>1, <3>2, TargetIs DEF Shape, Opers
    <3>4. c \notin In(main) /\ c \notin In(delayed) /\ c \in Placed
      BY <3>3 DEF Shape, QueuesApart, Placed
    <3>5. c \notin Placed'
      BY <1>1, <3>3, <3>4 DEF Placed
    <3>6. \A s \in Slots : Busy(s) => hand[s].copy # c
      <4>1. \A s \in Slots : Live(s) => hand[s].copy \in In(main)
        BY DEF Shape, Hands, HeldApart, Slots
      <4> QED
        BY <3>4, <4>1 DEF Faultless, SettledGone
    <3> QED
      BY <3>5, <3>6 DEF Alive, Busy
  <2> QED
    BY <2>1, <2>2, AliveStep
<1>3. \A c \in ran' \cap In(main)' : \E s \in Slots : hand'[s].tag = "live" /\ hand'[s].copy = c
  BY <1>1 DEF Faultless, RanHeld, Live
<1>4. ran' \cap In(delayed)' = {} /\ reran' = {}
  BY <1>1 DEF Faultless, RanHeld
<1>5. \A s \in Slots : Keeps(s)
  BY SameHands
<1> QED
  BY <1>1, <1>2, <1>3, <1>4, <1>5, CalmStep

\* A replay publishes the copy that replaces the dead letter.
LEMMA ReplayPublishCalm ==
    ASSUME Shape, Shape', Grows, Faultless, NEW o \in Operators, ReplayPublish(o),
           closes' = closes
    PROVE  Faultless'
<1> DEFINE c == oper[o].target
           n == Len(msgs) + 1
<1>1. oper[o].at = "publish" /\ UNCHANGED <<hand, ran, reran>>
      /\ oper \in [Operators -> Operation]
  BY DEF ReplayPublish, Shape, Types, historyVars
<1>2. c # 0 /\ c \in Copies /\ TaskOf(c) = oper[o].task /\ HasChannel(o)
      /\ c \in held[oper[o].chan] /\ c \in In(dlq)
  BY <1>1, TargetIs DEF Shape, Opers
<1>3. ~CallFails
  <2>1. closes \in Nat
    BY DEF Shape, Types, Histories
  <2> QED
    BY <2>1 DEF CallFails
<1>4. ReplayMessage(o) /\ Step(o, [oper[o] EXCEPT !.at = "settle"])
  BY <1>3 DEF ReplayPublish
<1>5. /\ \A q \in Operators : q # o => oper'[q] = oper[q]
      /\ oper'[o].at = "settle" /\ oper'[o].target = c
  BY <1>1, <1>4 DEF Step, Operation
<1>6. PICK r \in {0, msgs[c].retries} :
         Publish([task |-> oper[o].task, retries |-> r], FALSE)
  BY <1>4 DEF ReplayMessage
<1> DEFINE m == [task |-> oper[o].task, retries |-> r]
<1>7. m \in Message
  BY <1>2, CopiesAre DEF Message, Shape
<1>8. Published(m)
  BY <1>6, <1>7, PublishDoes DEF Shape
<1>9. /\ Placed' = Placed \cup {n} /\ msgs'[n] = m
      /\ \A d \in Copies : msgs'[d] = msgs[d] /\ n > d
      /\ n \in Nat /\ n \notin Copies
  BY <1>7, <1>8, PublishedPlaces DEF Published, Appended
<1>10. In(delayed)' \cap Copies \subseteq In(delayed) /\ In(main)' \cap Copies \subseteq In(main)
  BY <1>8, InCopies DEF Published, In, Shape, Appended
<1>11. ran \subseteq Copies
  BY DEF Shape, Types, Histories
<1>12. c \notin Replaced
  <2>1. \A q \in Operators : oper[q].at = "settle" => oper[q].target # c
    <3> SUFFICES ASSUME NEW q \in Operators, oper[q].at = "settle", oper[q].target = c
                 PROVE  FALSE
      OBVIOUS
    <3>1. q # o /\ HasChannel(q) /\ c \in held[oper[q].chan]
          /\ oper[q].chan \in Channels /\ oper[o].chan \in Channels
      BY <1>1, <1>2, TargetIs
    <3>2. oper[q].chan # oper[o].chan
      BY <1>2, <3>1 DEF Shape, Opers
    <3> QED
      BY <1>2, <3>1, <3>2 DEF Shape, HeldApart, Holders
  <2>2. \A s \in Slots : Busy(s) => hand[s].copy # c
    <3>1. \A s \in Slots : Live(s) => hand[s].copy \in In(main)
      BY DEF Shape, Hands, HeldApart, Slots
    <3>2. c \notin In(main) /\ c \in Placed
      BY <1>2 DEF Shape, QueuesApart, Placed
    <3> QED
      BY <3>1, <3>2 DEF Faultless, SettledGone
  <2> QED
    BY <2>1, <2>2 DEF Replaced, Busy
<1>13. OneAlive'
  <2>1. Alive' \subseteq Alive \cup {n}
    BY <1>1, <1>9, SameHands DEF Alive
  <2>2. Replaced \subseteq Replaced' /\ c \in Replaced'
    BY <1>1, <1>5 DEF Replaced
  <2>3. c \in Alive
    BY <1>2 DEF Alive, Placed
  <2>4. \A d \in Alive \cap Alive' : TaskOf(d) = msgs'[n].task => d \in Replaced'
    BY <1>2, <1>9, <1>12, <2>2, <2>3, OlderReplaced
  <2> QED
    BY <1>9, <2>1, <2>2, <2>4, AliveNew
<1>14. \A d \in ran' \cap In(main)' : \E s \in Slots : hand'[s].tag = "live" /\ hand'[s].copy = d
  BY <1>1, <1>10, <1>11 DEF Faultless, RanHeld, Live
<1>15. ran' \cap In(delayed)' = {} /\ reran' = {}
  BY <1>1, <1>10, <1>11 DEF Faultless, RanHeld
<1>16. \A s \in Slots : Keeps(s)
  BY <1>1, SameHands
<1>17. Placed' \cap Copies \subseteq Placed
  BY <1>9
<1> QED
  BY <1>13, <1>14, <1>15, <1>16, <1>17, CalmStep

LEMMA OperateCalm ==
    ASSUME Shape, Shape', Grows, Faultless, NEW o \in Operators, Call(o) \/ Operate(o),
           closes' = closes, ~timedOut'
    PROVE  Faultless'
<1>1. oper \in [Operators -> Operation]
  BY DEF Shape, Types
<1>2. CASE Call(o) \/ Acquire(o) \/ NotFound(o) \/ Requeue(o)
  <2>1. UNCHANGED <<msgs, queueVars, hand, historyVars>>
    BY <1>2 DEF Call, Acquire, NotFound, Requeue
  <2>2. UNCHANGED <<msgs, main, delayed, dlq, hand, ran, reran>>
    BY <2>1 DEF queueVars, historyVars
  <2>3. oper[o].at # "settle"
    BY <1>2, NoOpIs DEF Call, Acquire, NotFound, Requeue
  <2>4. PICK rec : Step(o, rec)
    BY <1>2 DEF Call, Acquire, NotFound, Requeue
  <2>5. \A q \in Operators : oper[q].at = "settle" => oper'[q] = oper[q]
    BY <1>1, <2>3, <2>4 DEF Step
  <2> QED
    BY <2>2, <2>5, OperCalm DEF In
<1>3. CASE Fetch(o)
  <2> DEFINE c == Head(Ready(dlq))
  <2>1. /\ Fetches(o) \/ Deletes(o)
        /\ oper[o].at = "scan" /\ Ready(dlq) # <<>>
        /\ UNCHANGED <<msgs, main, delayed, hand, ran, reran>>
    BY <1>3, FetchIs DEF Shape
  <2>2. In(dlq)' \subseteq In(dlq) /\ \A q \in Operators : q # o => oper'[q] = oper[q]
    <3>1. CASE Fetches(o)
      <4>1. Fetched1(o, c) /\ dlq' = dlq
        BY <2>1, <3>1, FetchesDoes DEF Fetches
      <4> QED
        BY <4>1 DEF Fetched1, In
    <3>2. CASE Deletes(o)
      <4>1. Deleted1(o, c)
        BY <2>1, <3>2, DeletesDoes
      <4> QED
        BY <4>1 DEF Deleted1
    <3> QED
      BY <2>1, <3>1, <3>2
  <2> QED
    BY <2>1, <2>2, OperCalm
<1>4. CASE ReplaySettle(o)
  <2>1. UNCHANGED <<msgs, main, delayed, hand, ran, reran>> /\ Step(o, NoOp)
    BY <1>4 DEF ReplaySettle, Release, historyVars
  <2>2. In(dlq)' = In(dlq) \ {oper[o].target}
    BY <1>4, ReplaySettleShape
  <2>3. \A q \in Operators : oper'[q] = oper[q] \/ oper[q].target \notin In(dlq)'
    BY <1>1, <2>1, <2>2 DEF Step
  <2> QED
    BY <2>1, <2>2, <2>3, OperCalm
<1>5. CASE Timeout(o)
  BY <1>5 DEF Timeout
<1> QED
  BY <1>2, <1>3, <1>4, <1>5, ReplayPublishCalm DEF Operate

\* In a step to a calm state no call raises, no channel closes and no operation times out.
LEMMA CalmBefore ==
    ASSUME Shape, Next, closes' = 0, ~timedOut'
    PROVE  closes = 0 /\ ~timedOut
<1>1. closes \in Nat
  BY DEF Shape, Types, Histories
<1>2. ~CallFails /\ closes' # closes + 1
  BY <1>1 DEF CallFails
<1>3. CASE \E s \in Slots : Handle(s)
  <2>1. PICK s \in Slots : Handle(s)
    BY <1>3
  <2>2. UNCHANGED timedOut
    <3>1. EarlyAck(s) \/ Run(s) \/ StoreSuccess(s) \/ AckDone(s) => UNCHANGED timedOut
      BY DEF EarlyAck, Run, StoreSuccess, AckDone
    <3>2. Republish(s) \/ RetryAck(s) => UNCHANGED timedOut
      BY DEF Republish, RetryAck
    <3>3. DeadLetter(s) \/ ManualMove(s) \/ BackendFails(s) => UNCHANGED timedOut
      BY DEF DeadLetter, ManualMove, BackendFails
    <3> QED
      BY <2>1, <3>1, <3>2, <3>3 DEF Handle
  <2>3. UNCHANGED closes
    <3>1. EarlyAck(s) \/ Run(s) \/ AckDone(s) \/ RetryAck(s) => UNCHANGED closes
      BY DEF EarlyAck, Run, AckDone, RetryAck, boundVars
    <3>2. StoreSuccess(s) \/ Republish(s) \/ ManualMove(s) => UNCHANGED closes
      BY <1>2 DEF StoreSuccess, Republish, ManualMove
    <3>3. DeadLetter(s) => UNCHANGED closes
      BY DEF DeadLetter, boundVars
    <3>4. ~BackendFails(s)
      BY <1>2 DEF BackendFails
    <3> QED
      BY <2>1, <3>1, <3>2, <3>3, <3>4 DEF Handle
  <2> QED
    BY <2>2, <2>3
<1>4. CASE \E o \in Operators : Call(o) \/ Operate(o)
  <2>1. PICK o \in Operators : Call(o) \/ Operate(o)
    BY <1>4
  <2>2. ~Timeout(o)
    BY DEF Timeout
  <2>3. Call(o) \/ Acquire(o) \/ NotFound(o) => UNCHANGED <<closes, timedOut>>
    BY DEF Call, Acquire, NotFound, boundVars
  <2>4. Fetch(o) \/ Requeue(o) \/ ReplaySettle(o) => UNCHANGED <<closes, timedOut>>
    BY DEF Fetch, Requeue, ReplaySettle, boundVars
  <2>5. ReplayPublish(o) => UNCHANGED <<closes, timedOut>>
    BY <1>2 DEF ReplayPublish
  <2> QED
    BY <2>1, <2>2, <2>3, <2>4, <2>5 DEF Operate
<1>5. \A w \in Workers : ~ConsumerCloses(w)
  BY <1>2 DEF ConsumerCloses
<1>6. \A k \in Channels : ~PoolChannelCloses(k)
  BY <1>2 DEF PoolChannelCloses
<1>7. \A w \in Workers : Deliver(w) => UNCHANGED <<closes, timedOut>>
  BY DEF Deliver, boundVars
<1>8. \A t \in Tasks : Dispatch(t) => UNCHANGED <<closes, timedOut>>
  BY DEF Dispatch, boundVars
<1>9. Expire => UNCHANGED <<closes, timedOut>>
  BY DEF Expire, boundVars
<1>10. PurgeQueue \/ PurgeDlq => UNCHANGED <<closes, timedOut>>
  BY DEF PurgeQueue, PurgeDlq
<1> QED
  BY <1>3, <1>4, <1>5, <1>6, <1>7, <1>8, <1>9, <1>10 DEF Next

LEMMA CalmNext ==
    ASSUME Shape, CalmInv, Shape', Grows, [Next]_vars
    PROVE  CalmInv'
<1> SUFFICES ASSUME closes' = 0, ~timedOut'
             PROVE  Faultless'
  BY DEF CalmInv, Calm
<1>1. CASE UNCHANGED vars
  <2>1. Faultless
    BY <1>1 DEF CalmInv, Calm, vars, boundVars
  <2>2. UNCHANGED <<msgs, main, delayed, dlq, hand, oper, ran, reran>>
    BY <1>1 DEF vars, queueVars, historyVars
  <2> QED
    BY <2>1, <2>2, OperCalm DEF In
<1>2. CASE Next
  <2>1. closes = 0 /\ ~timedOut
    BY <1>2, CalmBefore
  <2>2. Faultless /\ closes' = closes
    BY <2>1 DEF CalmInv, Calm
  <2>3. \A w \in Workers : ~ConsumerCloses(w)
    BY <2>1 DEF ConsumerCloses
  <2>4. \A k \in Channels : ~PoolChannelCloses(k)
    BY <2>1 DEF PoolChannelCloses
  <2> QED
    BY <1>2, <2>2, <2>3, <2>4, DispatchCalm, HandleCalm, DeliverCalm, QueuesCalm,
       OperateCalm DEF Next
<1> QED
  BY <1>1, <1>2

LEMMA CalmInit == Init => CalmInv
<1> SUFFICES ASSUME Init
             PROVE  Faultless
  BY DEF CalmInv
<1>1. \A s \in Slots : ~Busy(s) /\ hand[s].at # "retry_ack"
  BY DEF Init, NoHandler, Busy
<1>2. Placed = {}
  BY DEF Init, Placed, In, ToSet
<1>3. Alive = {}
  BY <1>1, <1>2 DEF Alive
<1> QED
  BY <1>1, <1>3
     DEF Init, Faultless, TagsTell, OneHandler, SettledGone, FreshRuns, RanHeld, OneAlive

\* Without a fault the function of a task is called once for every message, and a task
\* is in one place, whatever the workers and the DLQ operations do and in which order.
THEOREM CalmOnce == Spec => []OnceWhenCalm
<1>1. Init => Shape /\ CalmInv
  BY InitShape, CalmInit
<1>2. Shape /\ CalmInv /\ [Next]_vars => Shape' /\ CalmInv'
  BY ShapeStep, CalmNext
<1>3. CalmInv => OnceWhenCalm
  BY DEF CalmInv, Faultless, OnceWhenCalm, RunOnceWhenCalm, OnePlaceWhenCalm, OneAlive, Alive
<1> QED
  BY <1>1, <1>2, <1>3, PTL DEF Spec

--------------------------------------------------------------------------------
(* The refinement: what a step does to the log and to the histories.       *)

Concludes == succeeded \cup failed

\* Nothing, one message more, one copy run, or the outcome of a copy that was run, with
\* or without a dead letter of the same task.
Effect ==
    \/ UNCHANGED <<msgs, ran, Concludes>>
    \/ UNCHANGED <<ran, Concludes>> /\ \E m \in Message : Appended(m)
    \/ UNCHANGED <<msgs, Concludes>> /\ \E c \in Copies : ran' = ran \cup {c}
    \/ UNCHANGED ran /\ \E c \in ran :
          /\ Concludes' = Concludes \cup {TaskOf(c)}
          /\ msgs' = msgs \/ \E m \in Message : m.task = TaskOf(c) /\ Appended(m)

LEMMA HandleEffect ==
    ASSUME Shape, NEW s \in Slots, Handle(s)
    PROVE  Effect
<1> DEFINE c == hand[s].copy
<1>1. /\ Busy(s) => c \in Copies /\ msgs[c] \in Message
      /\ hand[s].at \in AfterRun => c \in ran
  BY PlacedCopies, CopiesAre DEF Shape, Hands
<1>2. CASE EarlyAck(s) \/ AckDone(s) \/ RetryAck(s) \/ BackendFails(s)
  <2>1. UNCHANGED <<msgs, historyVars>>
    BY <1>2 DEF EarlyAck, AckDone, RetryAck, BackendFails
  <2> QED
    BY <2>1 DEF Effect, Concludes, historyVars
<1>3. CASE Run(s)
  <2>1. Busy(s) /\ ran' = ran \cup {c} /\ UNCHANGED <<msgs, succeeded, failed>>
    BY <1>3 DEF Run, Busy
  <2> QED
    BY <1>1, <2>1 DEF Effect, Concludes
<1>4. CASE StoreSuccess(s)
  <2>1. hand[s].at = "store" /\ UNCHANGED <<msgs, failed, ran>>
        /\ succeeded' \in {succeeded, succeeded \cup {TaskOf(c)}}
    BY <1>4 DEF StoreSuccess
  <2>2. c \in ran
    BY <1>1, <2>1 DEF AfterRun
  <2>3. Concludes' \in {Concludes, Concludes \cup {TaskOf(c)}}
    BY <2>1 DEF Concludes
  <2> QED
    BY <2>1, <2>2, <2>3 DEF Effect
<1>5. CASE Republish(s)
  <2> DEFINE m == [msgs[c] EXCEPT !.retries = @ + 1]
  <2>1. hand[s].at = "republish" /\ UNCHANGED <<succeeded, failed, ran>>
    BY <1>5 DEF Republish, historyVars
  <2>2. (\E later \in BOOLEAN : Publish(m, later)) \/ UNCHANGED msgs
    BY <1>5 DEF Republish
  <2>3. m \in Message
    BY <1>1, <2>1 DEF Busy, Message
  <2> HIDE DEF m
  <2>4. Appended(m) \/ UNCHANGED msgs
    BY <2>2, <2>3, PublishDoes DEF Shape, Published
  <2> QED
    BY <2>1, <2>3, <2>4 DEF Effect, Concludes
<1>6. CASE DeadLetter(s)
  <2>1. hand[s].at = "dead_letter" /\ UNCHANGED <<msgs, succeeded, ran>>
        /\ failed' \in {failed, failed \cup {TaskOf(c)}}
    BY <1>6 DEF DeadLetter
  <2>2. c \in ran
    BY <1>1, <2>1 DEF AfterRun
  <2>3. Concludes' \in {Concludes, Concludes \cup {TaskOf(c)}}
    BY <2>1 DEF Concludes
  <2> QED
    BY <2>1, <2>2, <2>3 DEF Effect
<1>7. CASE ManualMove(s)
  <2> DEFINE m == msgs[c]
  <2>1. hand[s].at = "manual" /\ UNCHANGED <<succeeded, ran>>
    BY <1>7 DEF ManualMove
  <2>2. \/ UNCHANGED <<msgs, failed>>
        \/ msgs' = Append(msgs, m) /\ failed' = failed \cup {m.task}
    BY <1>7 DEF ManualMove
  <2>3. m \in Message /\ c \in ran /\ m.task = TaskOf(c)
    BY <1>1, <2>1 DEF Busy, AfterRun, TaskOf
  <2> HIDE DEF m
  <2>4. CASE UNCHANGED <<msgs, failed>>
    BY <2>1, <2>4 DEF Effect, Concludes
  <2>5. CASE msgs' = Append(msgs, m) /\ failed' = failed \cup {m.task}
    <3>1. Appended(m)
      BY <2>3, <2>5, AppendMessage DEF Shape
    <3>2. Concludes' = Concludes \cup {TaskOf(c)}
      BY <2>1, <2>3, <2>5 DEF Concludes
    <3> QED
      BY <2>1, <2>3, <3>1, <3>2 DEF Effect
  <2> QED
    BY <2>2, <2>4, <2>5
<1> QED
  BY <1>2, <1>3, <1>4, <1>5, <1>6, <1>7 DEF Handle

LEMMA OperateEffect ==
    ASSUME Shape, NEW o \in Operators, Call(o) \/ Operate(o)
    PROVE  Effect
<1>1. CASE ReplayPublish(o)
  <2> DEFINE c == oper[o].target
  <2>1. oper[o].at = "publish" /\ UNCHANGED <<succeeded, failed, ran>>
    BY <1>1 DEF ReplayPublish, historyVars
  <2>2. c \in Copies /\ TaskOf(c) = oper[o].task
    BY <2>1, TargetIs DEF Shape, Opers
  <2>3. ReplayMessage(o) \/ UNCHANGED msgs
    BY <1>1 DEF ReplayPublish
  <2>4. ASSUME ReplayMessage(o) PROVE \E m \in Message : Appended(m)
    <3>1. PICK r \in {0, msgs[c].retries} :
             Publish([task |-> oper[o].task, retries |-> r], FALSE)
      BY <2>4 DEF ReplayMessage
    <3>2. [task |-> oper[o].task, retries |-> r] \in Message
      BY <2>2, CopiesAre DEF Message, Shape
    <3> QED
      BY <3>1, <3>2, PublishDoes DEF Shape, Published
  <2> QED
    BY <2>1, <2>3, <2>4 DEF Effect, Concludes
<1>2. CASE Fetch(o)
  BY <1>2 DEF Fetch, Effect, Concludes
<1>3. CASE Call(o) \/ Acquire(o) \/ NotFound(o)
  <2>1. UNCHANGED <<msgs, historyVars>>
    BY <1>3 DEF Call, Acquire, NotFound
  <2> QED
    BY <2>1 DEF Effect, Concludes, historyVars
<1>4. CASE Requeue(o) \/ ReplaySettle(o) \/ Timeout(o)
  <2>1. UNCHANGED <<msgs, historyVars>>
    BY <1>4 DEF Requeue, ReplaySettle, Timeout
  <2> QED
    BY <2>1 DEF Effect, Concludes, historyVars
<1> QED
  BY <1>1, <1>2, <1>3, <1>4 DEF Operate

LEMMA StepEffect ==
    ASSUME Shape, [Next]_vars
    PROVE  Effect
<1>1. CASE UNCHANGED vars
  BY <1>1 DEF vars, historyVars, Effect, Concludes
<1>2. CASE \E t \in Tasks : Dispatch(t)
  <2>1. PICK t \in Tasks : Dispatch(t)
    BY <1>2
  <2>2. [task |-> t, retries |-> 0] \in Message
    BY DEF Message
  <2>3. Appended([task |-> t, retries |-> 0])
    BY <2>1, <2>2, PublishDoes DEF Dispatch, Shape, Published
  <2>4. UNCHANGED <<succeeded, failed, ran>>
    BY <2>1 DEF Dispatch, historyVars
  <2> QED
    BY <2>2, <2>3, <2>4 DEF Effect, Concludes
<1>3. CASE Expire \/ PurgeQueue \/ PurgeDlq
  <2>1. UNCHANGED <<msgs, succeeded, failed, ran>>
    BY <1>3 DEF Expire, PurgeQueue, PurgeDlq, historyVars
  <2> QED
    BY <2>1 DEF Effect, Concludes
<1>4. CASE \/ \E w \in Workers : Deliver(w) \/ ConsumerCloses(w)
           \/ \E k \in Channels : PoolChannelCloses(k)
  <2>1. UNCHANGED <<msgs, historyVars>>
    BY <1>4 DEF Deliver, ConsumerCloses, PoolChannelCloses
  <2> QED
    BY <2>1 DEF Effect, Concludes, historyVars
<1> QED
  BY <1>1, <1>2, <1>3, <1>4, HandleEffect, OperateEffect DEF Next

\* What a step does to the copies of a task.
LEMMA EffectTasks ==
    ASSUME Shape, Effect
    PROVE  /\ \A c \in Copies : c \in Copies' /\ TaskOf(c)' = TaskOf(c)
           /\ \A t : Dispatched(t) => Dispatched(t)'
           /\ UNCHANGED msgs => \A t : Dispatched(t)' => Dispatched(t)
           /\ \A m : Appended(m) => \A t : Dispatched(t)' <=> (Dispatched(t) \/ t = m.task)
<1>1. UNCHANGED msgs => /\ Copies' = Copies /\ \A c : TaskOf(c)' = TaskOf(c)
                        /\ \A t : Dispatched(t)' <=> Dispatched(t)
  BY DEF Copies, TaskOf, Dispatched
<1>2. \A m : Appended(m) =>
         /\ Copies' = Copies \cup {Len(msgs) + 1} /\ \A c \in Copies : TaskOf(c)' = TaskOf(c)
         /\ \A t : Dispatched(t)' <=> (Dispatched(t) \/ t = m.task)
  <2> SUFFICES ASSUME NEW m, Appended(m)
               PROVE  /\ Copies' = Copies \cup {Len(msgs) + 1}
                      /\ \A c \in Copies : TaskOf(c)' = TaskOf(c)
                      /\ \A t : Dispatched(t)' <=> (Dispatched(t) \/ t = m.task)
    OBVIOUS
  <2>1. Copies' = Copies \cup {Len(msgs) + 1} /\ msgs'[Len(msgs) + 1] = m
        /\ \A c \in Copies : msgs'[c] = msgs[c]
    BY DEF Appended
  <2> QED
    BY <2>1 DEF TaskOf, Dispatched
<1>3. UNCHANGED msgs \/ \E m \in Message : Appended(m)
  BY DEF Effect
<1> QED
  BY <1>1, <1>2, <1>3

LEMMA KnownStep ==
    ASSUME Shape, Known, Effect
    PROVE  Known'
<1>1. \A c \in ran : Dispatched(TaskOf(c))
  BY DEF Shape, Types, Histories, Dispatched
<1>2. Concludes' \subseteq Concludes \cup {TaskOf(c) : c \in ran}
  BY DEF Effect
<1>3. \A t \in Concludes' : Dispatched(t)'
  BY <1>1, <1>2, EffectTasks DEF Known, Concludes
<1> QED
  BY <1>3 DEF Known, Concludes

--------------------------------------------------------------------------------
(* The refinement: every step is one of AtLeastOnce, or a stutter.         *)

\* The mapped variables of AtLeastOnce.
Open == {t \in Promised \ (succeeded \cup failed) :
            Dispatched(t) /\ (t \in gone \/ \E c \in Placed : TaskOf(c) = t)}
Begun == {TaskOf(c) : c \in ran} \cap Promised
Concluded == (succeeded \cup failed) \cap Promised

\* A task is open while it was dispatched and has no outcome: by NoLoss it is in a queue,
\* unless somebody purged it.
OpenIsUnfinished == Open = {t \in Promised \ Concludes : Dispatched(t)}

LEMMA OpenNow == LossInv => OpenIsUnfinished
BY DEF LossInv, NoLoss, OpenIsUnfinished, Open, Promised, Concludes

LEMMA OpenNext == LossInv' => OpenIsUnfinished'
BY OpenNow, PTL

LEMMA InitMaps == Init => ALOSpec!Init
BY DEF Init, Copies, Dispatched, ALOSpec!Init

\* A step that publishes a copy accepts its task, or another copy of it.
LEMMA PublishMaps ==
    ASSUME RInv, LossInv', Effect, UNCHANGED <<ran, Concludes>>,
           NEW m \in Message, Appended(m)
    PROVE  \/ UNCHANGED <<Open, Begun, Concluded>>
           \/ \E t \in Promised : /\ t \notin Open \cup Concluded
                                  /\ Open' = Open \cup {t}
                                  /\ UNCHANGED <<Begun, Concluded>>
<1> PICK t : t = m.task
  OBVIOUS
<1>1. /\ Open = {u \in Promised \ Concludes : Dispatched(u)}
      /\ Open' = {u \in Promised \ Concludes : Dispatched(u)'}
  BY OpenNow, OpenNext DEF OpenIsUnfinished, Promised, RInv
<1>2. \A u : Dispatched(u)' <=> (Dispatched(u) \/ u = t)
  BY EffectTasks DEF RInv
<1>3. UNCHANGED <<Begun, Concluded>>
  <2>1. \A c \in ran : TaskOf(c)' = TaskOf(c)
    BY EffectTasks DEF RInv, Shape, Types, Histories
  <2> QED
    BY <2>1 DEF Begun, Concluded, Concludes, Promised
<1>4. CASE t \in Promised /\ ~Dispatched(t)
  <2>1. t \notin Concludes
    BY <1>4 DEF RInv, Known, Concludes
  <2> QED
    BY <1>1, <1>2, <1>3, <1>4, <2>1 DEF Concluded, Concludes
<1>5. CASE ~(t \in Promised /\ ~Dispatched(t))
  BY <1>1, <1>2, <1>3, <1>5
<1> QED
  BY <1>4, <1>5

\* A step that runs a copy begins its task.
LEMMA RunMaps ==
    ASSUME RInv, LossInv', UNCHANGED <<msgs, Concludes>>,
           NEW c \in Copies, ran' = ran \cup {c}
    PROVE  \/ UNCHANGED <<Open, Begun, Concluded>>
           \/ \E t \in Promised : /\ t \in Open \cup Concluded
                                  /\ Begun' = Begun \cup {t}
                                  /\ UNCHANGED <<Open, Concluded>>
<1> PICK t : t = TaskOf(c)
  OBVIOUS
<1>1. Dispatched(t)
  BY DEF Dispatched
<1>2. /\ Open = {u \in Promised \ Concludes : Dispatched(u)}
      /\ Open' = {u \in Promised \ Concludes : Dispatched(u)'}
  BY OpenNow, OpenNext DEF OpenIsUnfinished, Promised, RInv
<1>3. /\ \A u : Dispatched(u)' <=> Dispatched(u)
      /\ \A d : TaskOf(d)' = TaskOf(d)
  BY DEF Dispatched, Copies, TaskOf
<1>4. UNCHANGED <<Open, Concluded>>
  BY <1>2, <1>3 DEF Concluded, Concludes, Promised
<1>5. Begun' = Begun \cup ({t} \cap Promised)
  BY <1>3 DEF Begun, Promised
<1>6. CASE t \in Promised
  BY <1>1, <1>2, <1>4, <1>5, <1>6 DEF Concluded, Concludes
<1>7. CASE t \notin Promised
  BY <1>4, <1>5, <1>7
<1> QED
  BY <1>6, <1>7

\* A step that stores an outcome concludes its task, or stores it once more.
LEMMA ConcludeMaps ==
    ASSUME RInv, LossInv', Effect, UNCHANGED ran, NEW c \in ran,
           Concludes' = Concludes \cup {TaskOf(c)},
           msgs' = msgs \/ \E m \in Message : m.task = TaskOf(c) /\ Appended(m)
    PROVE  \/ UNCHANGED <<Open, Begun, Concluded>>
           \/ \E t \in Promised : /\ t \in Open /\ t \in Begun
                                  /\ Open' = Open \ {t}
                                  /\ Concluded' = Concluded \cup {t}
                                  /\ UNCHANGED Begun
<1> PICK t : t = TaskOf(c)
  OBVIOUS
<1>1. ran \subseteq Copies
  BY DEF RInv, Shape, Types, Histories
<1>2. Dispatched(t)
  BY <1>1 DEF Dispatched
<1>3. /\ Open = {u \in Promised \ Concludes : Dispatched(u)}
      /\ Open' = {u \in Promised \ Concludes' : Dispatched(u)'}
  BY OpenNow, OpenNext DEF OpenIsUnfinished, Promised, RInv
<1>4. \A u : Dispatched(u)' <=> Dispatched(u)
  BY <1>2, EffectTasks DEF RInv
<1>5. UNCHANGED Begun
  <2>1. \A d \in ran : TaskOf(d)' = TaskOf(d)
    BY <1>1, EffectTasks DEF RInv
  <2> QED
    BY <2>1 DEF Begun, Promised
<1>6. Open' = Open \ {t} /\ Concluded' = Concluded \cup ({t} \cap Promised)
  <2>1. Concluded = Concludes \cap Promised /\ Concluded' = Concludes' \cap Promised
    BY DEF Concluded, Concludes, Promised
  <2> QED
    BY <1>3, <1>4, <2>1
<1>7. CASE t \in Promised \ Concludes
  BY <1>2, <1>3, <1>5, <1>6, <1>7 DEF Begun
<1>8. CASE t \notin Promised \ Concludes
  BY <1>3, <1>5, <1>6, <1>8 DEF Concluded, Concludes
<1> QED
  BY <1>7, <1>8

LEMMA StepMaps ==
    ASSUME RInv, LossInv', [Next]_vars
    PROVE  [ALOSpec!Next]_ALOSpec!avars
<1>1. Effect
  BY StepEffect DEF RInv
<1>2. SUFFICES \/ UNCHANGED <<Open, Begun, Concluded>>
               \/ \E t \in Promised : /\ t \notin Open \cup Concluded
                                      /\ Open' = Open \cup {t}
                                      /\ UNCHANGED <<Begun, Concluded>>
               \/ \E t \in Promised : /\ t \in Open \cup Concluded
                                      /\ Begun' = Begun \cup {t}
                                      /\ UNCHANGED <<Open, Concluded>>
               \/ \E t \in Promised : /\ t \in Open /\ t \in Begun
                                      /\ Open' = Open \ {t}
                                      /\ Concluded' = Concluded \cup {t}
                                      /\ UNCHANGED Begun
  BY DEF ALOSpec!Next, ALOSpec!Accept, ALOSpec!Begin, ALOSpec!Conclude, ALOSpec!avars,
         Open, Begun, Concluded
<1>3. CASE UNCHANGED <<msgs, ran, Concludes>>
  <2>1. \A u : Dispatched(u)' <=> Dispatched(u)
    BY <1>3 DEF Dispatched, Copies, TaskOf
  <2>2. /\ Open = {u \in Promised \ Concludes : Dispatched(u)}
        /\ Open' = {u \in Promised \ Concludes : Dispatched(u)'}
    BY <1>3, OpenNow, OpenNext DEF OpenIsUnfinished, Promised, RInv
  <2>3. UNCHANGED <<Begun, Concluded>>
    BY <1>3 DEF Begun, Concluded, Concludes, TaskOf, Promised
  <2> QED
    BY <2>1, <2>2, <2>3
<1>4. CASE UNCHANGED <<ran, Concludes>> /\ \E m \in Message : Appended(m)
  BY <1>1, <1>4, PublishMaps
<1>5. CASE UNCHANGED <<msgs, Concludes>> /\ \E c \in Copies : ran' = ran \cup {c}
  BY <1>5, RunMaps
<1>6. CASE UNCHANGED ran /\ \E c \in ran :
              /\ Concludes' = Concludes \cup {TaskOf(c)}
              /\ msgs' = msgs \/ \E m \in Message : m.task = TaskOf(c) /\ Appended(m)
  BY <1>1, <1>6, ConcludeMaps
<1> QED
  BY <1>1, <1>3, <1>4, <1>5, <1>6 DEF Effect

\* The queue keeps the promise of AtLeastOnce: an at-least-once task is open until it has
\* run to success or was dead-lettered after a run, whichever channels close, whatever
\* raises, and whatever the operations on the DLQ do meanwhile.
THEOREM Implements == Spec => KeepsPromise
<1>1. Init => RInv /\ ALOSpec!Init
  <2> SUFFICES ASSUME Init
               PROVE  RInv /\ ALOSpec!Init
    OBVIOUS
  <2>1. Copies = {}
    BY DEF Init, Copies
  <2>2. LossInv /\ Known
    BY <2>1 DEF Init, LossInv, NoLoss, Dispatched, NoHandler, NoOp, Known
  <2> QED
    BY <2>2, InitShape, InitMaps DEF RInv
<1>2. RInv /\ [Next]_vars => RInv'
  BY ShapeStep, LossNext, StepEffect, KnownStep DEF RInv
<1>3. RInv /\ RInv' /\ [Next]_vars => [ALOSpec!Next]_ALOSpec!avars
  BY StepMaps DEF RInv
<1> QED
  BY <1>1, <1>2, <1>3, PTL DEF Spec, KeepsPromise, ALOSpec!Spec
================================================================================
