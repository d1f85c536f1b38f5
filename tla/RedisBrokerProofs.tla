--------------------------- MODULE RedisBrokerProofs ---------------------------
(***************************************************************************)
(* What every call of the Redis broker preserves: the types of its keys,   *)
(* and Placed, that every copy has one place.                              *)
(***************************************************************************)
EXTENDS RedisBroker, SequenceTheorems, TLAPS

BrokerInv == BrokerTypeOK /\ Placed

\* The types of the broker's keys that the lemmas below need.
LEMMA QueueTypes ==
    ASSUME BrokerInv, NEW q \in Queues
    PROVE  /\ stream[q] \in Seq(Nat) /\ cursor[q] \in Nat /\ cursor[q] <= Len(stream[q])
           /\ DOMAIN stream[q] = 1 .. Len(stream[q]) /\ Len(stream[q]) \in Nat
           /\ delayed[q] \subseteq Nat
<1>1. stream[q] \in Seq(Nat)
  BY DEF BrokerInv, BrokerTypeOK
<1>2. QED
  BY <1>1 DEF BrokerInv, BrokerTypeOK, Placed

\* Dropping k entries and appending one: the length and the entries that remain.
LEMMA TrimmedStream ==
    ASSUME NEW s \in Seq(Nat), NEW k \in 1 .. Len(s), NEW c \in Nat
    PROVE  LET u == Append(SubSeq(s, k + 1, Len(s)), c) IN
           /\ u \in Seq(Nat)
           /\ Len(u) = Len(s) - k + 1
           /\ \A i \in 1 .. Len(s) - k : u[i] = s[i + k]
           /\ u[Len(s) - k + 1] = c
<1> DEFINE v == SubSeq(s, k + 1, Len(s))
<1>1. k + 1 \in 1 .. Len(s) + 1 /\ Len(s) \in Nat
  OBVIOUS
<1>2. /\ v \in Seq(Nat)
      /\ Len(v) = Len(s) - k
      /\ \A i \in 1 .. Len(s) - k : v[i] = s[i + k]
  BY <1>1
<1>3. QED
  BY <1>2

\* The broker starts empty.
LEMMA BrokerInitInv == ASSUME BrokerInit PROVE BrokerInv
<1>1. BrokerTypeOK
  BY DEF BrokerInit, BrokerTypeOK
<1>2. \A q \in Queues : \A c \in Nat : ~At(q, c)
  BY DEF BrokerInit, At, InStream, Pending
<1>3. Placed
  BY <1>1, <1>2 DEF BrokerInit, Placed, Copies
<1>4. QED
  BY <1>1, <1>3 DEF BrokerInv

--------------------------------------------------------------------------------
(* Publishing.                                                             *)

\* The stream of q after XADD, of which k old entries were dropped.
Shifted(q, c, k) ==
    /\ Len(stream'[q]) = Len(stream[q]) - k + 1
    /\ \A i \in 1 .. Len(stream[q]) - k : stream'[q][i] = stream[q][i + k]
    /\ stream'[q][Len(stream[q]) - k + 1] = c
    /\ cursor'[q] = IF cursor[q] > k THEN cursor[q] - k ELSE 0
    /\ \A p \in Queues : p # q => stream'[p] = stream[p] /\ cursor'[p] = cursor[p]

\* XADD with or without MAXLEN appends c and drops some k of the oldest entries; the
\* group's position moves along.
LEMMA XAddFacts ==
    ASSUME BrokerTypeOK, NEW q \in Queues, NEW c \in Nat,
           XAdd(q, c) \/ XAddTrim(q, c)
    PROVE  /\ stream' \in [Queues -> Seq(Nat)] /\ cursor' \in [Queues -> Nat]
           /\ \E k \in 0 .. Len(stream[q]) : Shifted(q, c, k)
<1>1. stream[q] \in Seq(Nat) /\ cursor[q] \in Nat
  BY DEF BrokerTypeOK
<1>2. CASE XAdd(q, c)
  <2>1. /\ stream'[q] = Append(stream[q], c) /\ cursor' = cursor
        /\ \A p \in Queues : p # q => stream'[p] = stream[p]
        /\ stream' \in [Queues -> Seq(Nat)]
    BY <1>2 DEF BrokerTypeOK, XAdd
  <2>2. Shifted(q, c, 0)
    BY <1>1, <2>1 DEF Shifted
  <2>3. 0 \in 0 .. Len(stream[q])
    BY <1>1
  <2>4. QED
    BY <2>1, <2>2, <2>3 DEF BrokerTypeOK
<1>3. CASE XAddTrim(q, c)
  <2>1. PICK k \in 1 .. Len(stream[q]) :
          /\ stream' = [stream EXCEPT
                ![q] = Append(SubSeq(stream[q], k + 1, Len(stream[q])), c)]
          /\ cursor' = [cursor EXCEPT
                ![q] = IF cursor[q] > k THEN cursor[q] - k ELSE 0]
    BY <1>3 DEF XAddTrim
  <2> DEFINE u == Append(SubSeq(stream[q], k + 1, Len(stream[q])), c)
  <2>2. /\ u \in Seq(Nat)
        /\ Len(u) = Len(stream[q]) - k + 1
        /\ \A i \in 1 .. Len(stream[q]) - k : u[i] = stream[q][i + k]
        /\ u[Len(stream[q]) - k + 1] = c
    BY <1>1, TrimmedStream
  <2>3. stream' = [stream EXCEPT ![q] = u]
    BY <2>1
  <2> HIDE DEF u
  <2>4. /\ stream'[q] = u
        /\ \A p \in Queues : p # q => stream'[p] = stream[p]
        /\ stream' \in [Queues -> Seq(Nat)]
    BY <2>2, <2>3 DEF BrokerTypeOK
  <2>5. /\ cursor' \in [Queues -> Nat]
        /\ cursor'[q] = IF cursor[q] > k THEN cursor[q] - k ELSE 0
        /\ \A p \in Queues : p # q => cursor'[p] = cursor[p]
    BY <1>1, <2>1 DEF BrokerTypeOK
  <2>6. Shifted(q, c, k) /\ k \in 0 .. Len(stream[q])
    BY <1>1, <2>2, <2>4, <2>5 DEF Shifted
  <2>7. QED
    BY <2>4, <2>5, <2>6
<1>4. QED
  BY <1>2, <1>3

\* XADD of a copy that is in no stream: it becomes unread, the others stay where they
\* are or leave the stream for good, and the streams still hold every copy once.
LEMMA XAddPlaces ==
    ASSUME BrokerInv, NEW q \in Queues, NEW c \in Nat,
           XAdd(q, c) \/ XAddTrim(q, c),
           \A p \in Queues : ~InStream(p, c)
    PROVE  /\ c \in Unread(q)'
           /\ \A p \in Queues : cursor'[p] <= Len(stream'[p])
           /\ \A p \in Queues : \A i, j \in DOMAIN stream'[p] :
                 stream'[p][i] = stream'[p][j] => i = j
           /\ \A p \in Queues : \A x :
                 InStream(p, x)' => InStream(p, x) \/ (p = q /\ x = c)
           /\ \A p \in Queues : \A x \in Unread(p) :
                 x \in Unread(p)' \/ ~InStream(p, x)'
<1>1. PICK k \in 0 .. Len(stream[q]) : Shifted(q, c, k)
  BY XAddFacts DEF BrokerInv
<1>2. stream' \in [Queues -> Seq(Nat)] /\ cursor' \in [Queues -> Nat]
  BY XAddFacts DEF BrokerInv
<1>3. /\ DOMAIN stream'[q] = 1 .. Len(stream[q]) - k + 1
      /\ DOMAIN stream[q] = 1 .. Len(stream[q]) /\ Len(stream[q]) \in Nat
      /\ k \in Nat /\ k <= Len(stream[q])
      /\ cursor[q] \in Nat /\ cursor[q] <= Len(stream[q])
      /\ cursor'[q] \in Nat /\ cursor'[q] <= Len(stream[q]) - k
  <2>1. stream[q] \in Seq(Nat) /\ cursor[q] \in Nat /\ cursor[q] <= Len(stream[q])
    BY DEF BrokerInv, BrokerTypeOK, Placed
  <2>2. DOMAIN stream[q] = 1 .. Len(stream[q]) /\ Len(stream[q]) \in Nat
    BY <2>1
  <2>3. k \in Nat /\ k <= Len(stream[q])
    BY <2>2
  <2>4. stream'[q] \in Seq(Nat) /\ Len(stream'[q]) = Len(stream[q]) - k + 1
    BY <1>1, <1>2 DEF Shifted
  <2>5. DOMAIN stream'[q] = 1 .. Len(stream[q]) - k + 1
    BY <2>4
  <2>6. cursor'[q] = IF cursor[q] > k THEN cursor[q] - k ELSE 0
    BY <1>1 DEF Shifted
  <2>7. cursor'[q] \in Nat /\ cursor'[q] <= Len(stream[q]) - k
    BY <2>1, <2>2, <2>3, <2>6
  <2>8. QED
    BY <2>1, <2>2, <2>3, <2>5, <2>7
<1>4. \A p \in Queues : \A i \in DOMAIN stream[p] : stream[p][i] # c
  BY DEF InStream
<1>5. \A p \in Queues : \A i, j \in DOMAIN stream[p] :
         stream[p][i] = stream[p][j] => i = j
  BY DEF BrokerInv, Placed
<1>6. \A n \in 1 .. Len(stream[q]) - k :
          /\ n + k \in DOMAIN stream[q]
          /\ stream'[q][n] = stream[q][n + k] /\ stream'[q][n] # c
  <2> SUFFICES ASSUME NEW n \in 1 .. Len(stream[q]) - k
               PROVE  /\ n + k \in DOMAIN stream[q]
                      /\ stream'[q][n] = stream[q][n + k] /\ stream'[q][n] # c
    OBVIOUS
  <2>1. n + k \in DOMAIN stream[q]
    BY <1>3
  <2>2. QED
    BY <1>1, <1>4, <2>1 DEF Shifted
<1>7. \A n \in DOMAIN stream'[q] :
          n \in 1 .. Len(stream[q]) - k \/ n = Len(stream[q]) - k + 1
  BY <1>3
<1>8. stream'[q][Len(stream[q]) - k + 1] = c
  BY <1>1 DEF Shifted
<1>9. \A p \in Queues : p # q => stream'[p] = stream[p] /\ cursor'[p] = cursor[p]
  BY <1>1 DEF Shifted
<1>10. c \in Unread(q)'
  <2>1. Len(stream[q]) - k + 1 \in (cursor'[q] + 1) .. Len(stream'[q])
    BY <1>1, <1>3 DEF Shifted
  <2>2. QED
    BY <1>8, <2>1 DEF Unread
<1>11. \A p \in Queues : cursor'[p] <= Len(stream'[p])
  <2>1. cursor'[q] <= Len(stream'[q])
    BY <1>1, <1>3 DEF Shifted
  <2>2. QED
    BY <1>9, <2>1 DEF BrokerInv, Placed
<1>12. \A p \in Queues : \A i, j \in DOMAIN stream'[p] :
          stream'[p][i] = stream'[p][j] => i = j
  <2> SUFFICES ASSUME NEW p \in Queues,
                      NEW i \in DOMAIN stream'[p], NEW j \in DOMAIN stream'[p],
                      stream'[p][i] = stream'[p][j]
               PROVE  i = j
    OBVIOUS
  <2>1. CASE p # q
    BY <1>5, <1>9, <2>1
  <2>2. CASE p = q /\ i \in 1 .. Len(stream[q]) - k /\ j \in 1 .. Len(stream[q]) - k
    <3>1. i + k = j + k
      BY <1>5, <1>6, <2>2
    <3>2. QED
      BY <2>2, <3>1
  <2>3. QED
    BY <1>6, <1>7, <1>8, <2>1, <2>2
<1>13. \A p \in Queues : \A x :
          InStream(p, x)' => InStream(p, x) \/ (p = q /\ x = c)
  <2> SUFFICES ASSUME NEW p \in Queues, NEW i \in DOMAIN stream'[p]
               PROVE  InStream(p, stream'[p][i]) \/ (p = q /\ stream'[p][i] = c)
    BY DEF InStream
  <2>1. CASE p # q
    BY <1>9, <2>1 DEF InStream
  <2>2. CASE p = q
    BY <1>6, <1>7, <1>8, <2>2 DEF InStream
  <2>3. QED
    BY <2>1, <2>2
<1>14. \A p \in Queues : \A x \in Unread(p) : x \in Unread(p)' \/ ~InStream(p, x)'
  <2> SUFFICES ASSUME NEW p \in Queues, NEW x \in Unread(p), InStream(p, x)'
               PROVE  x \in Unread(p)'
    OBVIOUS
  <2> PICK i \in (cursor[p] + 1) .. Len(stream[p]) : x = stream[p][i]
    BY DEF Unread
  <2>1. CASE p # q
    BY <1>9, <2>1 DEF Unread
  <2>2. CASE p = q
    <3>1. i \in DOMAIN stream[q] /\ i \in Nat /\ i > cursor[q]
      BY <1>3, <2>2
    <3>2. PICK j \in DOMAIN stream'[q] : stream'[q][j] = x
      BY <2>2 DEF InStream
    <3>3. j \in 1 .. Len(stream[q]) - k /\ j + k = i
      <4>1. x # c
        BY <1>4, <2>2, <3>1
      <4>2. j \in 1 .. Len(stream[q]) - k
        BY <1>7, <1>8, <3>2, <4>1
      <4>3. j + k \in DOMAIN stream[q] /\ stream[q][j + k] = stream[q][i]
        BY <1>6, <2>2, <3>2, <4>2
      <4>4. QED
        BY <1>5, <3>1, <4>2, <4>3
    <3>4. j \in (cursor'[q] + 1) .. Len(stream'[q])
      BY <1>1, <1>3, <3>1, <3>3 DEF Shifted
    <3>5. QED
      BY <2>2, <3>2, <3>4 DEF Unread
  <2>3. QED
    BY <2>1, <2>2
<1>15. QED
  BY <1>10, <1>11, <1>12, <1>13, <1>14

\* publish() keeps the types.
LEMMA PublishType ==
    ASSUME BrokerTypeOK, NEW m \in Message, NEW q \in Queues, NEW later \in BOOLEAN,
           Publish(m, q, later)
    PROVE  BrokerTypeOK'
<1> DEFINE c == Len(msgs) + 1
<1>1. c \in Nat
  BY DEF BrokerTypeOK
<1>2. /\ msgs' \in Seq(Message)
      /\ UNCHANGED <<group, pel, dead, dlq>>
  BY DEF BrokerTypeOK, Publish
<1>3. CASE /\ delayed' = [delayed EXCEPT ![q] = @ \cup {c}]
           /\ UNCHANGED <<stream, cursor>>
  BY <1>1, <1>2, <1>3 DEF BrokerTypeOK
<1>4. CASE (XAdd(q, c) \/ XAddTrim(q, c)) /\ UNCHANGED delayed
  BY <1>1, <1>2, <1>4, XAddFacts DEF BrokerTypeOK
<1>5. QED
  BY <1>3, <1>4 DEF Publish

\* What publish() and replay_from_dlq() have in common: a message is added.
Appends(m, q, later) ==
    LET c == Len(msgs) + 1 IN
    /\ msgs' = Append(msgs, m)
    /\ \/ /\ later
          /\ delayed' = [delayed EXCEPT ![q] = @ \cup {c}]
          /\ UNCHANGED <<stream, cursor>>
       \/ /\ ~later
          /\ XAdd(q, c) \/ XAddTrim(q, c)
          /\ UNCHANGED delayed
    /\ UNCHANGED <<group, pel>>

\* It adds one fresh copy, which the broker can deliver; every other copy keeps its
\* place or is trimmed.
LEMMA AppendKeeps ==
    ASSUME BrokerInv, BrokerTypeOK', NEW m \in Message, NEW q \in Queues,
           NEW later \in BOOLEAN, NEW c \in Nat, c = Len(msgs) + 1, Appends(m, q, later)
    PROVE  /\ BrokerInv'
           /\ msgs' = Append(msgs, m)
           /\ Copies' = Copies \cup {c} /\ Live(c)'
           /\ \A x \in Copies : Kept(x) => Kept(x)'
<1>1. /\ msgs' = Append(msgs, m)
      /\ Copies' = Copies \cup {c} /\ c \notin Copies /\ Copies \subseteq Nat
  <2>1. msgs' = Append(msgs, m) /\ msgs \in Seq(Message)
    BY DEF BrokerInv, BrokerTypeOK, Appends
  <2>2. Len(msgs') = c /\ Len(msgs) \in Nat
    BY <2>1
  <2>3. QED
    BY <2>1, <2>2 DEF Copies
<1>2. /\ \A p \in Queues : ~At(p, c)
      /\ \A p \in Queues : \A x \in delayed[p] : ~InStream(p, x) /\ x \notin Pending(p)
      /\ delayed \in [Queues -> SUBSET Nat]
  BY <1>1 DEF BrokerInv, BrokerTypeOK, Placed
<1>3. \A p \in Queues : Pending(p)' = Pending(p)
  BY DEF Appends, Pending
<1>5. /\ c \in delayed'[q] \/ c \in Unread(q)'
      /\ \A p \in Queues : cursor'[p] <= Len(stream'[p])
      /\ \A p \in Queues : \A i, j \in DOMAIN stream'[p] :
            stream'[p][i] = stream'[p][j] => i = j
      /\ \A p \in Queues : \A x \in Nat :
            At(p, x)' => At(p, x) \/ (p = q /\ x = c)
      /\ \A p \in Queues : \A x \in delayed'[p] :
            ~InStream(p, x)' /\ x \notin Pending(p)'
      /\ \A p \in Queues : delayed[p] \subseteq delayed'[p]
      /\ \A p \in Queues : \A x \in Unread(p) : x \in Unread(p)' \/ ~InStream(p, x)'
      /\ \A p \in Queues : \A x \in Copies : x \in delayed'[p] => x \in delayed[p]
      /\ \A p \in Queues : \A x \in Copies : InStream(p, x)' => InStream(p, x)
  <2>1. CASE /\ delayed' = [delayed EXCEPT ![q] = @ \cup {c}]
             /\ UNCHANGED <<stream, cursor>>
    <3>1. \A p \in Queues :
              delayed'[p] = IF p = q THEN delayed[p] \cup {c} ELSE delayed[p]
      BY <1>2, <2>1
    <3>2. /\ \A p \in Queues : \A x : InStream(p, x)' <=> InStream(p, x)
          /\ \A p \in Queues : Unread(p)' = Unread(p)
      BY <2>1 DEF InStream, Unread
    <3>3. /\ \A p \in Queues : cursor'[p] <= Len(stream'[p])
          /\ \A p \in Queues : \A i, j \in DOMAIN stream'[p] :
                stream'[p][i] = stream'[p][j] => i = j
      BY <2>1 DEF BrokerInv, Placed
    <3>4. \A p \in Queues : \A x \in Nat :
              At(p, x)' => At(p, x) \/ (p = q /\ x = c)
      BY <1>3, <3>1, <3>2 DEF At
    <3>5. \A p \in Queues : \A x \in delayed'[p] :
              ~InStream(p, x)' /\ x \notin Pending(p)'
      BY <1>2, <1>3, <3>1, <3>2 DEF At
    <3>6. /\ c \in delayed'[q]
          /\ \A p \in Queues : delayed[p] \subseteq delayed'[p]
          /\ \A p \in Queues : \A x \in Copies : x \in delayed'[p] => x \in delayed[p]
      BY <1>1, <3>1
    <3>7. QED
      BY <3>2, <3>3, <3>4, <3>5, <3>6
  <2>2. CASE (XAdd(q, c) \/ XAddTrim(q, c)) /\ UNCHANGED delayed
    <3>1. /\ c \in Unread(q)'
          /\ \A p \in Queues : cursor'[p] <= Len(stream'[p])
          /\ \A p \in Queues : \A i, j \in DOMAIN stream'[p] :
                stream'[p][i] = stream'[p][j] => i = j
          /\ \A p \in Queues : \A x :
                InStream(p, x)' => InStream(p, x) \/ (p = q /\ x = c)
          /\ \A p \in Queues : \A x \in Unread(p) :
                x \in Unread(p)' \/ ~InStream(p, x)'
      <4>1. \A p \in Queues : ~InStream(p, c)
        BY <1>2 DEF At
      <4>2. QED
        BY <2>2, <4>1, XAddPlaces
    <3>2. \A p \in Queues : \A x \in Nat :
              At(p, x)' => At(p, x) \/ (p = q /\ x = c)
      BY <1>3, <2>2, <3>1 DEF At
    <3>3. \A p \in Queues : \A x \in delayed'[p] :
              ~InStream(p, x)' /\ x \notin Pending(p)'
      <4>1. \A p \in Queues : c \notin delayed[p]
        BY <1>2 DEF At
      <4>2. QED
        BY <1>2, <1>3, <2>2, <3>1, <4>1
    <3>4. \A p \in Queues : \A x \in Copies : InStream(p, x)' => InStream(p, x)
      BY <1>1, <3>1
    <3>5. QED
      BY <2>2, <3>1, <3>2, <3>3, <3>4
  <2>3. QED
    BY <2>1, <2>2 DEF Appends
<1>6. Live(c)'
  BY <1>5 DEF Live
<1>7. Placed'
  <2>1. \A p \in Queues : \A x \in Nat : At(p, x)' => x \in Copies'
    BY <1>1, <1>5 DEF BrokerInv, Placed
  <2>2. \A p, r \in Queues : \A x \in Copies' : At(p, x)' /\ At(r, x)' => p = r
    BY <1>1, <1>2, <1>5 DEF BrokerInv, Placed
  <2>3. QED
    BY <1>5, <2>1, <2>2 DEF Placed
<1>8. \A x \in Copies : Kept(x) => Kept(x)'
  <2> SUFFICES ASSUME NEW x \in Copies, Kept(x), ~Live(x)'
               PROVE  Trimmed(x)'
    BY DEF Kept
  <2>1. \A p \in Queues : x \notin delayed'[p]
    BY DEF Live
  <2>2. CASE Trimmed(x)
    BY <1>5, <2>1, <2>2 DEF Trimmed
  <2>3. CASE Live(x)
    <3>1. PICK p \in Queues :
            x \in delayed[p] \/ x \in Unread(p) \/ x \in Pending(p)
      BY <2>3 DEF Live
    <3>2. x \in Unread(p) /\ ~InStream(p, x)'
      BY <1>3, <1>5, <3>1 DEF Live
    <3>3. InStream(p, x)
      BY <3>2 DEF Unread, InStream, BrokerInv, BrokerTypeOK, Placed
    <3>4. \A r \in Queues : InStream(r, x) => r = p
      BY <3>3 DEF BrokerInv, Placed, At
    <3>5. QED
      BY <1>5, <2>1, <3>2, <3>4 DEF Trimmed
  <2>4. QED
    BY <2>2, <2>3 DEF Kept
<1>9. QED
  BY <1>1, <1>6, <1>7, <1>8 DEF BrokerInv

LEMMA PublishKeeps ==
    ASSUME BrokerInv, NEW m \in Message, NEW q \in Queues, NEW later \in BOOLEAN,
           NEW c \in Nat, c = Len(msgs) + 1, Publish(m, q, later)
    PROVE  /\ BrokerInv'
           /\ msgs' = Append(msgs, m)
           /\ Copies' = Copies \cup {c} /\ Live(c)'
           /\ \A x \in Copies : Kept(x) => Kept(x)'
<1>1. BrokerTypeOK'
  BY PublishType DEF BrokerInv
<1>2. Appends(m, q, later)
  BY DEF Publish, Appends
<1>3. QED
  BY <1>1, <1>2, AppendKeeps

\* The delayed mover: the member leaves the sorted set and becomes unread.
LEMMA MoveReadyDelayedKeeps ==
    ASSUME BrokerInv, NEW q \in Queues, NEW c \in Nat, MoveReadyDelayed(q, c)
    PROVE  /\ BrokerInv'
           /\ msgs' = msgs
           /\ \A x \in Copies : Kept(x) => Kept(x)'
<1>1. /\ c \in delayed[q] /\ XAdd(q, c) /\ UNCHANGED <<msgs, group, pel, dead, dlq>>
      /\ \A p \in Queues : delayed'[p] = IF p = q THEN delayed[p] \ {c} ELSE delayed[p]
      /\ delayed' \in [Queues -> SUBSET Nat]
  BY DEF MoveReadyDelayed, BrokerInv, BrokerTypeOK
<1>2. c \in Copies /\ \A p \in Queues : At(p, c) => p = q
  BY <1>1 DEF BrokerInv, Placed, At
<1>3. \A p \in Queues : ~InStream(p, c) /\ c \notin Pending(p)
  BY <1>1, <1>2 DEF BrokerInv, Placed, At
<1>4. /\ c \in Unread(q)'
      /\ \A p \in Queues : cursor'[p] <= Len(stream'[p])
      /\ \A p \in Queues : \A i, j \in DOMAIN stream'[p] :
            stream'[p][i] = stream'[p][j] => i = j
      /\ \A p \in Queues : \A x :
            InStream(p, x)' => InStream(p, x) \/ (p = q /\ x = c)
      /\ \A p \in Queues : \A x \in Unread(p) : x \in Unread(p)' \/ ~InStream(p, x)'
  BY <1>1, <1>3, XAddPlaces
<1>5. Copies' = Copies /\ \A p \in Queues : Pending(p)' = Pending(p)
  BY <1>1 DEF Copies, Pending
<1>6. BrokerTypeOK'
  <2>1. stream' \in [Queues -> Seq(Nat)] /\ cursor' \in [Queues -> Nat]
    BY <1>1, XAddFacts DEF BrokerInv
  <2>2. QED
    BY <1>1, <2>1 DEF BrokerInv, BrokerTypeOK
<1>7. \A p \in Queues : \A x : At(p, x)' => At(p, x)
  BY <1>1, <1>4, <1>5 DEF At
<1>8. Placed'
  <2>1. \A p \in Queues : \A x \in Nat : At(p, x)' => x \in Copies'
    BY <1>5, <1>7 DEF BrokerInv, Placed
  <2>2. \A p, r \in Queues : \A x \in Copies' : At(p, x)' /\ At(r, x)' => p = r
    BY <1>5, <1>7 DEF BrokerInv, Placed
  <2>3. \A p \in Queues : \A x \in delayed'[p] :
            ~InStream(p, x)' /\ x \notin Pending(p)'
    BY <1>1, <1>4, <1>5 DEF BrokerInv, Placed
  <2>4. QED
    BY <1>4, <2>1, <2>2, <2>3 DEF Placed
<1>9. \A x \in Copies : Kept(x) => Kept(x)'
  <2> SUFFICES ASSUME NEW x \in Copies, Kept(x), ~Live(x)'
               PROVE  Trimmed(x)'
    BY DEF Kept
  <2>1. x # c /\ \A p \in Queues : x \notin delayed'[p]
    BY <1>4 DEF Live
  <2>2. CASE Trimmed(x)
    BY <1>4, <2>1, <2>2 DEF Trimmed
  <2>3. CASE Live(x)
    <3>1. PICK p \in Queues :
            x \in delayed[p] \/ x \in Unread(p) \/ x \in Pending(p)
      BY <2>3 DEF Live
    <3>2. x \in Unread(p) /\ ~InStream(p, x)'
      BY <1>1, <1>4, <1>5, <2>1, <3>1 DEF Live
    <3>3. InStream(p, x)
      BY <3>2 DEF Unread, InStream, BrokerInv, BrokerTypeOK, Placed
    <3>4. \A r \in Queues : InStream(r, x) => r = p
      BY <3>3 DEF BrokerInv, Placed, At
    <3>5. QED
      BY <1>4, <2>1, <3>2, <3>4 DEF Trimmed
  <2>4. QED
    BY <2>2, <2>3 DEF Kept
<1>10. QED
  BY <1>1, <1>6, <1>8, <1>9 DEF BrokerInv

--------------------------------------------------------------------------------
(* Consuming and acknowledging: the streams and the sorted sets do not change.  *)

\* What a call keeps that only moves the group's position or its pending entries.
LEMMA SameStreams ==
    ASSUME BrokerInv, UNCHANGED <<msgs, delayed, stream>>,
           \A p \in Queues : cursor'[p] <= Len(stream[p]),
           \A p \in Queues : \A x \in Pending(p)' : x \in Pending(p) \/ InStream(p, x)
    PROVE  /\ Placed' /\ Copies' = Copies
           /\ \A x : Trimmed(x) => Trimmed(x)'
<1>1. Copies' = Copies /\ \A p \in Queues : \A x : InStream(p, x)' <=> InStream(p, x)
  BY DEF Copies, InStream
<1>2. \A p \in Queues : \A x : At(p, x)' => At(p, x)
  BY <1>1 DEF At
<1>3. \A p \in Queues : \A x \in Nat : At(p, x)' => x \in Copies'
  BY <1>1, <1>2 DEF BrokerInv, Placed
<1>4. \A p, r \in Queues : \A x \in Copies' : At(p, x)' /\ At(r, x)' => p = r
  BY <1>1, <1>2 DEF BrokerInv, Placed
<1>5. \A p \in Queues : \A x \in delayed'[p] : ~InStream(p, x)' /\ x \notin Pending(p)'
  BY <1>1 DEF BrokerInv, Placed
<1>6. /\ \A p \in Queues : cursor'[p] <= Len(stream'[p])
      /\ \A p \in Queues : \A i, j \in DOMAIN stream'[p] :
            stream'[p][i] = stream'[p][j] => i = j
  BY DEF BrokerInv, Placed
<1>7. Placed'
  BY <1>3, <1>4, <1>5, <1>6 DEF Placed
<1>8. \A x : Trimmed(x) => Trimmed(x)'
  BY <1>1 DEF Trimmed
<1>9. QED
  BY <1>1, <1>7, <1>8

\* XGROUP CREATE: every entry of the stream becomes unread, or nothing changes.
LEMMA EnsureConsumerGroupKeeps ==
    ASSUME BrokerInv, NEW q \in Queues, EnsureConsumerGroup(q)
    PROVE  /\ BrokerInv'
           /\ msgs' = msgs
           /\ \A x \in Copies : Kept(x) => Kept(x)'
<1>1. UNCHANGED <<msgs, delayed, stream, pel, dead, dlq>>
  BY DEF EnsureConsumerGroup
<1>2. /\ group' \in [Queues -> BOOLEAN] /\ cursor' \in [Queues -> Nat]
      /\ \A p \in Queues : cursor'[p] <= cursor[p]
  <2>1. /\ group \in [Queues -> BOOLEAN] /\ cursor \in [Queues -> Nat]
        /\ \A p \in Queues : cursor[p] \in Nat
    BY DEF BrokerInv, BrokerTypeOK
  <2>2. CASE /\ group' = [group EXCEPT ![q] = TRUE]
             /\ cursor' = [cursor EXCEPT ![q] = 0]
    <3>1. \A p \in Queues : cursor'[p] = IF p = q THEN 0 ELSE cursor[p]
      BY <2>1, <2>2
    <3>2. QED
      BY <2>1, <2>2, <3>1
  <2>3. CASE UNCHANGED <<group, cursor>>
    BY <2>1, <2>3
  <2>4. QED
    BY <2>2, <2>3 DEF EnsureConsumerGroup
<1>3. BrokerTypeOK'
  BY <1>1, <1>2 DEF BrokerInv, BrokerTypeOK
<1>4. \A p \in Queues : Len(stream[p]) \in Nat /\ cursor[p] \in Nat
                        /\ cursor'[p] \in Nat /\ cursor[p] <= Len(stream[p])
  BY <1>2 DEF BrokerInv, BrokerTypeOK, Placed
<1>5. \A p \in Queues : Pending(p)' = Pending(p) /\ Unread(p) \subseteq Unread(p)'
  BY <1>1, <1>2, <1>4 DEF Pending, Unread
<1>6. Placed' /\ \A x : Trimmed(x) => Trimmed(x)'
  BY <1>1, <1>2, <1>4, <1>5, SameStreams
<1>7. \A x : Live(x) => Live(x)'
  BY <1>1, <1>5 DEF Live
<1>8. QED
  BY <1>1, <1>3, <1>6, <1>7 DEF BrokerInv, Kept

\* XREADGROUP: the next unread entry becomes pending.
LEMMA ReadGroupKeeps ==
    ASSUME BrokerInv, NEW q \in Queues, NEW w \in Workers, ReadGroup(q, w)
    PROVE  /\ BrokerInv'
           /\ msgs' = msgs
           /\ NextUnread(q) \in Copies
           /\ \A x \in Copies : Kept(x) => Kept(x)'
<1> DEFINE c == NextUnread(q)
<1>1. /\ cursor[q] < Len(stream[q]) /\ UNCHANGED <<msgs, delayed, stream, group, dead, dlq>>
      /\ cursor' = [cursor EXCEPT ![q] = @ + 1]
      /\ pel' = [pel EXCEPT ![q] = @ \cup {[copy |-> c, owner |-> w]}]
  BY DEF ReadGroup, CanRead
<1>2. /\ stream[q] \in Seq(Nat) /\ cursor[q] \in Nat
      /\ cursor[q] + 1 \in DOMAIN stream[q] /\ c = stream[q][cursor[q] + 1]
  BY <1>1 DEF BrokerInv, BrokerTypeOK, NextUnread
<1>3. c \in Nat /\ InStream(q, c) /\ c \in Copies
  <2>1. c \in Nat /\ InStream(q, c)
    BY <1>2 DEF InStream
  <2>2. QED
    BY <2>1 DEF BrokerInv, Placed, At
<1> HIDE DEF c
<1>4. BrokerTypeOK'
  <2>1. cursor' \in [Queues -> Nat]
    BY <1>1, <1>2 DEF BrokerInv, BrokerTypeOK
  <2>2. pel' \in [Queues -> SUBSET [copy : Nat, owner : Workers]]
    BY <1>1, <1>3 DEF BrokerInv, BrokerTypeOK
  <2>3. QED
    BY <1>1, <2>1, <2>2 DEF BrokerInv, BrokerTypeOK
<1>5. /\ \A p \in Queues : Pending(p) \subseteq Pending(p)'
      /\ \A p \in Queues : \A x \in Pending(p)' : x \in Pending(p) \/ InStream(p, x)
      /\ c \in Pending(q)'
  <2>1. \A p \in Queues :
          pel'[p] = IF p = q THEN pel[p] \cup {[copy |-> c, owner |-> w]} ELSE pel[p]
    BY <1>1 DEF BrokerInv, BrokerTypeOK
  <2>2. \A p \in Queues :
          Pending(p)' = IF p = q THEN Pending(p) \cup {c} ELSE Pending(p)
    <3> SUFFICES ASSUME NEW p \in Queues
                 PROVE  {e.copy : e \in pel'[p]} =
                        IF p = q THEN {e.copy : e \in pel[p]} \cup {c}
                                 ELSE {e.copy : e \in pel[p]}
      BY DEF Pending
    <3>1. [copy |-> c, owner |-> w].copy = c
      OBVIOUS
    <3>2. QED
      BY <2>1, <3>1
  <2>3. QED
    BY <1>3, <2>2
<1>6. /\ \A p \in Queues : cursor'[p] <= Len(stream[p])
      /\ \A p \in Queues : p # q => cursor'[p] = cursor[p]
      /\ cursor'[q] = cursor[q] + 1
  BY <1>1, <1>2 DEF BrokerInv, BrokerTypeOK, Placed
<1>7. Placed' /\ Copies' = Copies /\ \A x : Trimmed(x) => Trimmed(x)'
  BY <1>1, <1>5, <1>6, SameStreams
<1>8. \A p \in Queues : \A x \in Unread(p) : x \in Unread(p)' \/ x \in Pending(p)'
  <2> SUFFICES ASSUME NEW p \in Queues,
                      NEW i \in (cursor[p] + 1) .. Len(stream[p])
               PROVE  stream[p][i] \in Unread(p)' \/ stream[p][i] \in Pending(p)'
    BY DEF Unread
  <2>1. CASE p # q
    BY <1>1, <1>6, <2>1 DEF Unread
  <2>2. CASE p = q /\ i = cursor[q] + 1
    BY <1>2, <1>5, <2>2
  <2>3. CASE p = q /\ i # cursor[q] + 1
    <3>1. i \in (cursor'[q] + 1) .. Len(stream'[q])
      BY <1>1, <1>2, <1>6, <2>3
    <3>2. QED
      BY <1>1, <2>3, <3>1 DEF Unread
  <2>4. QED
    BY <2>1, <2>2, <2>3
<1>9. \A x : Live(x) => Live(x)'
  BY <1>1, <1>5, <1>8 DEF Live
<1>10. QED
  BY <1>1, <1>3, <1>4, <1>7, <1>9 DEF BrokerInv, Kept, c

\* What a call does that gives up at most the pending entry of copy c.
GivesUpOnly(c) ==
    /\ UNCHANGED <<msgs, delayed, stream, cursor>>
    /\ \A p \in Queues : Pending(p)' \subseteq Pending(p)
    /\ \A p \in Queues : \A x \in Pending(p) : x = c \/ x \in Pending(p)'

\* Every other copy is kept.
LEMMA GivesUpOnlyKeeps ==
    ASSUME BrokerInv, BrokerTypeOK', NEW c, GivesUpOnly(c)
    PROVE  /\ BrokerInv'
           /\ msgs' = msgs
           /\ \A x \in Copies : x # c /\ Kept(x) => Kept(x)'
           /\ \A x : Trimmed(x) => Trimmed(x)'
<1>1. Placed' /\ \A x : Trimmed(x) => Trimmed(x)'
  <2>1. /\ \A p \in Queues : cursor'[p] <= Len(stream[p])
        /\ \A p \in Queues : \A x \in Pending(p)' : x \in Pending(p) \/ InStream(p, x)
    BY DEF GivesUpOnly, BrokerInv, Placed
  <2>2. QED
    BY <2>1, SameStreams DEF GivesUpOnly
<1>2. \A p \in Queues : Unread(p)' = Unread(p)
  BY DEF GivesUpOnly, Unread
<1>3. \A x : x # c /\ Live(x) => Live(x)'
  BY <1>2 DEF GivesUpOnly, Live
<1>4. QED
  BY <1>1, <1>3 DEF GivesUpOnly, BrokerInv, Kept

\* XACK removes the pending entry of c and nothing else.
LEMMA XAckFacts ==
    ASSUME BrokerTypeOK, NEW q \in Queues, NEW c, XAck(q, c)
    PROVE  /\ pel' \in [Queues -> SUBSET [copy : Nat, owner : Workers]]
           /\ \A p \in Queues : Pending(p)' \subseteq Pending(p)
           /\ \A p \in Queues : \A x \in Pending(p) : x = c \/ x \in Pending(p)'
           /\ c \notin Pending(q)'
<1>1. \A p \in Queues :
        pel'[p] = IF p = q THEN {e \in pel[p] : e.copy # c} ELSE pel[p]
  BY DEF XAck, BrokerTypeOK
<1>2. pel' \in [Queues -> SUBSET [copy : Nat, owner : Workers]]
  BY <1>1 DEF XAck, BrokerTypeOK
<1>3. QED
  BY <1>1, <1>2 DEF Pending

\* XAUTOCLAIM keeps the entry pending under its new owner.
LEMMA AutoClaimKeeps ==
    ASSUME BrokerInv, NEW q \in Queues, NEW w \in Workers, NEW c \in Nat,
           AutoClaim(q, w, c)
    PROVE  /\ BrokerInv'
           /\ msgs' = msgs
           /\ c \in Copies
           /\ \A x \in Copies : Kept(x) => Kept(x)'
<1>1. /\ c \in Pending(q) /\ UNCHANGED <<msgs, delayed, stream, cursor, group, dead, dlq>>
      /\ pel' = [pel EXCEPT
          ![q] = {e \in @ : e.copy # c} \cup {[copy |-> c, owner |-> w]}]
  BY DEF AutoClaim
<1>2. \A p \in Queues :
        pel'[p] = IF p = q
                  THEN {e \in pel[p] : e.copy # c} \cup {[copy |-> c, owner |-> w]}
                  ELSE pel[p]
  BY <1>1 DEF BrokerInv, BrokerTypeOK
<1>3. \A p \in Queues : Pending(p)' = Pending(p)
  <2> SUFFICES ASSUME NEW p \in Queues
               PROVE  {e.copy : e \in pel'[p]} = {e.copy : e \in pel[p]}
    BY DEF Pending
  <2> DEFINE own == [copy |-> c, owner |-> w]
  <2>1. own.copy = c /\ \E e \in pel[q] : e.copy = c
    BY <1>1 DEF Pending
  <2>2. pel'[p] = IF p = q THEN {e \in pel[p] : e.copy # c} \cup {own} ELSE pel[p]
    BY <1>2
  <2> HIDE DEF own
  <2>3. CASE p # q
    BY <2>2, <2>3
  <2>4. CASE p = q
    <3>1. \A e \in pel'[p] : \E f \in pel[p] : e.copy = f.copy
      BY <2>1, <2>2, <2>4
    <3>2. \A f \in pel[p] : \E e \in pel'[p] : e.copy = f.copy
      BY <2>1, <2>2, <2>4
    <3>3. QED
      BY <3>1, <3>2
  <2>5. QED
    BY <2>3, <2>4
<1>4. BrokerTypeOK'
  <2>1. pel' \in [Queues -> SUBSET [copy : Nat, owner : Workers]]
    BY <1>1, <1>2 DEF BrokerInv, BrokerTypeOK
  <2>2. QED
    BY <1>1, <2>1 DEF BrokerInv, BrokerTypeOK
<1>5. GivesUpOnly(0)
  BY <1>1, <1>3 DEF GivesUpOnly
<1>6. BrokerInv' /\ msgs' = msgs /\ \A x : Trimmed(x) => Trimmed(x)'
  BY <1>4, <1>5, GivesUpOnlyKeeps
<1>7. \A x : Live(x) => Live(x)'
  <2>1. \A p \in Queues : Unread(p)' = Unread(p)
    BY <1>1 DEF Unread
  <2>2. QED
    BY <1>1, <1>3, <2>1 DEF Live
<1>8. c \in Copies
  BY <1>1 DEF BrokerInv, Placed, At
<1>9. QED
  BY <1>6, <1>7, <1>8 DEF Kept

\* XAUTOCLAIM drops the pending entry of a copy that was trimmed.
LEMMA AutoClaimTrimmedKeeps ==
    ASSUME BrokerInv, NEW q \in Queues, NEW c \in Nat, AutoClaimTrimmed(q, c)
    PROVE  /\ BrokerInv'
           /\ msgs' = msgs
           /\ \A x \in Copies : Kept(x) => Kept(x)'
<1>1. /\ c \in Pending(q) /\ ~InStream(q, c) /\ XAck(q, c)
      /\ UNCHANGED <<msgs, delayed, stream, cursor, group, dead, dlq>>
  BY DEF AutoClaimTrimmed
<1>2. BrokerTypeOK' /\ GivesUpOnly(c)
  BY <1>1, XAckFacts DEF BrokerInv, BrokerTypeOK, GivesUpOnly
<1>3. /\ BrokerInv' /\ msgs' = msgs
      /\ \A x \in Copies : x # c /\ Kept(x) => Kept(x)'
      /\ \A x : Trimmed(x) => Trimmed(x)'
  BY <1>2, GivesUpOnlyKeeps
<1>4. Trimmed(c)
  <2>1. c \in Copies /\ \A p \in Queues : At(p, c) => p = q
    BY <1>1 DEF BrokerInv, Placed, At
  <2>2. c \notin delayed[q]
    BY <1>1 DEF BrokerInv, Placed
  <2>3. QED
    BY <1>1, <2>1, <2>2 DEF Trimmed, At
<1>5. QED
  BY <1>3, <1>4 DEF Kept

\* ack() and nack() give up the copy they name, whichever queue they name.
LEMMA AckKeeps ==
    ASSUME BrokerInv, NEW q \in Queues, NEW c, Ack(q, c)
    PROVE  /\ BrokerInv'
           /\ msgs' = msgs
           /\ \A x \in Copies : x # c /\ Kept(x) => Kept(x)'
<1>1. UNCHANGED <<msgs, delayed, stream, cursor, group, dead, dlq>>
  BY DEF Ack
<1>2. BrokerTypeOK' /\ GivesUpOnly(c)
  <2>1. CASE XAck(q, c)
    BY <1>1, <2>1, XAckFacts DEF BrokerInv, BrokerTypeOK, GivesUpOnly
  <2>2. CASE UNCHANGED pel
    BY <1>1, <2>2 DEF BrokerInv, BrokerTypeOK, GivesUpOnly, Pending
  <2>3. QED
    BY <2>1, <2>2 DEF Ack
<1>3. QED
  BY <1>2, GivesUpOnlyKeeps

\* The DLQ stream keeps entries it had, or the new one.
LEMMA DlqAddedType ==
    ASSUME BrokerTypeOK, NEW q \in Queues, NEW d \in Nat, NEW S \in DlqAdded(q, d)
    PROVE  S \subseteq Nat
<1>1. dlq[q] \cup {d} \subseteq Nat
  BY DEF BrokerTypeOK
<1>2. QED
  BY <1>1 DEF DlqAdded

\* move_to_dlq() gives up the copy it dead-letters.
LEMMA MoveToDlqKeeps ==
    ASSUME BrokerInv, NEW q \in Queues, NEW c \in Nat, MoveToDlq(q, c)
    PROVE  /\ BrokerInv'
           /\ msgs' = msgs
           /\ \A x \in Copies : x # c /\ Kept(x) => Kept(x)'
<1> DEFINE d == Len(dead) + 1
<1>1. /\ UNCHANGED <<msgs, delayed, stream, cursor, group>>
      /\ dead' = Append(dead, [copy |-> c, queue |-> q])
  BY DEF MoveToDlq
<1>2. dead \in Seq(DeadEntry) /\ [copy |-> c, queue |-> q] \in DeadEntry
  BY DEF BrokerInv, BrokerTypeOK, DeadEntry
<1>3. dead' \in Seq(DeadEntry) /\ d \in Nat
  BY <1>1, <1>2
<1>4. PICK S \in DlqAdded(q, d) : dlq' = [dlq EXCEPT ![q] = S]
  BY DEF MoveToDlq
<1>5. S \subseteq Nat
  BY <1>3, <1>4, DlqAddedType DEF BrokerInv
<1>6. dlq' \in [Queues -> SUBSET Nat]
  BY <1>4, <1>5 DEF BrokerInv, BrokerTypeOK
<1>7. BrokerTypeOK' /\ GivesUpOnly(c)
  <2>1. CASE XAck(q, c)
    BY <1>1, <1>3, <1>6, <2>1, XAckFacts DEF BrokerInv, BrokerTypeOK, GivesUpOnly
  <2>2. CASE UNCHANGED pel
    BY <1>1, <1>3, <1>6, <2>2 DEF BrokerInv, BrokerTypeOK, GivesUpOnly, Pending
  <2>3. QED
    BY <2>1, <2>2 DEF MoveToDlq
<1>8. QED
  BY <1>7, GivesUpOnlyKeeps

--------------------------------------------------------------------------------
(* Operating.                                                              *)

\* replay_from_dlq() adds a message, as publish() does.
LEMMA ReplayAppends ==
    ASSUME BrokerInv, NEW q \in Queues, NEW d \in DOMAIN dead, dead[d].copy \in Copies,
           NEW reset \in BOOLEAN, ReplayFromDlq(q, d, reset)
    PROVE  BrokerTypeOK' /\ \E m \in Message : Appends(m, q, FALSE)
<1> DEFINE m == msgs[dead[d].copy]
           n == IF reset THEN [m EXCEPT !.retries = 0] ELSE m
           c == Len(msgs) + 1
<1>1. msgs \in Seq(Message) /\ c \in Nat
  BY DEF BrokerInv, BrokerTypeOK
<1>2. m \in Message
  BY <1>1 DEF Copies
<1>3. n \in Message
  BY <1>2 DEF Message
<1>4. /\ msgs' = Append(msgs, n) /\ (XAdd(q, c) \/ XAddTrim(q, c))
      /\ dlq' = [dlq EXCEPT ![q] = @ \ {d}]
      /\ UNCHANGED <<delayed, group, pel, dead>>
  BY DEF ReplayFromDlq
<1> HIDE DEF m, n
<1>5. Appends(n, q, FALSE)
  BY <1>4 DEF Appends
<1>6. /\ msgs' \in Seq(Message)
      /\ stream' \in [Queues -> Seq(Nat)] /\ cursor' \in [Queues -> Nat]
      /\ dlq' \in [Queues -> SUBSET Nat]
  <2>1. msgs' \in Seq(Message)
    BY <1>1, <1>3, <1>4
  <2>2. stream' \in [Queues -> Seq(Nat)] /\ cursor' \in [Queues -> Nat]
    BY <1>1, <1>4, XAddFacts DEF BrokerInv
  <2>3. dlq' \in [Queues -> SUBSET Nat]
    BY <1>4 DEF BrokerInv, BrokerTypeOK
  <2>4. QED
    BY <2>1, <2>2, <2>3
<1>7. QED
  BY <1>3, <1>4, <1>5, <1>6 DEF BrokerInv, BrokerTypeOK

\* delete_from_dlq() and purge_dlq() leave the copies alone.
LEMMA DlqRemovalKeeps ==
    ASSUME BrokerInv, UNCHANGED <<msgs, delayed, stream, cursor, group, pel, dead>>,
           dlq' \in [Queues -> SUBSET Nat]
    PROVE  BrokerInv'
<1>1. BrokerTypeOK'
  BY DEF BrokerInv, BrokerTypeOK
<1>2. GivesUpOnly(0)
  BY DEF GivesUpOnly, Pending
<1>3. QED
  BY <1>1, <1>2, GivesUpOnlyKeeps

\* XGROUP DELCONSUMER removes the pending entries of one consumer.
LEMMA DelConsumerKeeps ==
    ASSUME BrokerInv, NEW q \in Queues, NEW w \in Workers, DelConsumer(q, w)
    PROVE  BrokerInv' /\ \A p \in Queues : pel'[p] \subseteq pel[p]
<1>1. /\ UNCHANGED <<msgs, delayed, stream, cursor, group, dead, dlq>>
      /\ \A p \in Queues :
            pel'[p] = IF p = q THEN {e \in pel[p] : e.owner # w} ELSE pel[p]
  BY DEF DelConsumer, BrokerInv, BrokerTypeOK
<1>2. BrokerTypeOK'
  BY <1>1 DEF DelConsumer, BrokerInv, BrokerTypeOK
<1>3. \A p \in Queues : pel'[p] \subseteq pel[p]
  BY <1>1
<1>4. \A p \in Queues : Pending(p)' \subseteq Pending(p)
  BY <1>3 DEF Pending
<1>5. Placed'
  <2>1. \A p \in Queues : cursor'[p] <= Len(stream[p])
    BY <1>1 DEF BrokerInv, Placed
  <2>2. QED
    BY <1>1, <1>4, <2>1, SameStreams
<1>6. QED
  BY <1>2, <1>3, <1>5 DEF BrokerInv

\* purge_queue() removes the stream of q, its group and its pending entries.
LEMMA PurgeQueueKeeps ==
    ASSUME BrokerInv, NEW q \in Queues, PurgeQueue(q)
    PROVE  /\ BrokerInv'
           /\ UNCHANGED <<msgs, delayed, dead, dlq>>
           /\ \A p \in Queues :
                 IF p = q THEN Unread(p)' = {} /\ Pending(p)' = {} /\ cursor'[p] = 0
                 ELSE /\ stream'[p] = stream[p] /\ cursor'[p] = cursor[p]
                      /\ pel'[p] = pel[p] /\ group'[p] = group[p]
<1>1. /\ UNCHANGED <<msgs, delayed, dead, dlq>>
      /\ stream' = [stream EXCEPT ![q] = <<>>] /\ cursor' = [cursor EXCEPT ![q] = 0]
      /\ group' = [group EXCEPT ![q] = FALSE] /\ pel' = [pel EXCEPT ![q] = {}]
  BY DEF PurgeQueue
<1>2. \A p \in Queues :
         IF p = q THEN stream'[p] = <<>> /\ cursor'[p] = 0 /\ pel'[p] = {}
         ELSE /\ stream'[p] = stream[p] /\ cursor'[p] = cursor[p]
              /\ pel'[p] = pel[p] /\ group'[p] = group[p]
  BY <1>1 DEF BrokerInv, BrokerTypeOK
<1>3. BrokerTypeOK'
  BY <1>1 DEF BrokerInv, BrokerTypeOK
<1>4. \A p \in Queues : \A x : InStream(p, x)' => InStream(p, x) /\ p # q
  BY <1>2 DEF InStream
<1>5. \A p \in Queues : Pending(p)' \subseteq Pending(p)
  BY <1>2 DEF Pending
<1>6. Unread(q)' = {} /\ Pending(q)' = {}
  BY <1>2 DEF Unread, Pending
<1>7. \A p \in Queues : \A x : At(p, x)' => At(p, x)
  BY <1>1, <1>4, <1>5 DEF At
<1>8. Placed'
  <2>1. \A p \in Queues : cursor'[p] <= Len(stream'[p])
    BY <1>2 DEF BrokerInv, Placed
  <2>2. \A p \in Queues : \A c \in Nat : At(p, c)' => c \in Copies'
    BY <1>1, <1>7 DEF BrokerInv, Placed, Copies
  <2>3. \A p, r \in Queues : \A c \in Copies' : At(p, c)' /\ At(r, c)' => p = r
    BY <1>1, <1>7 DEF BrokerInv, Placed, Copies
  <2>4. \A p \in Queues : \A c \in delayed'[p] : ~InStream(p, c)' /\ c \notin Pending(p)'
    BY <1>1, <1>4, <1>5 DEF BrokerInv, Placed
  <2>5. \A p \in Queues : \A i, j \in DOMAIN stream'[p] :
            stream'[p][i] = stream'[p][j] => i = j
    BY <1>2 DEF BrokerInv, Placed
  <2>6. QED
    BY <2>1, <2>2, <2>3, <2>4, <2>5 DEF Placed
<1>9. QED
  BY <1>1, <1>2, <1>3, <1>6, <1>8 DEF BrokerInv

--------------------------------------------------------------------------------
(* What a consumer may be handed as new, now or later.                       *)

Fresh(c) == \E q \in Queues : c \in delayed[q] \/ c \in Unread(q)

\* A group that does not exist has read nothing.
FromStart == \A q \in Queues : ~group[q] => cursor[q] = 0

\* What a call does that hands out nothing anew.
NoneAnew == FromStart' /\ \A x \in Copies : Fresh(x)' => Fresh(x)

\* XADD makes no other copy unread, and a group that has read nothing has read nothing
\* after it either.
LEMMA XAddFresh ==
    ASSUME BrokerInv, NEW q \in Queues, NEW c \in Nat, XAdd(q, c) \/ XAddTrim(q, c)
    PROVE  /\ \A p \in Queues : \A x : x # c /\ x \in Unread(p)' => x \in Unread(p)
           /\ \A p \in Queues : cursor[p] = 0 => cursor'[p] = 0
<1>1. PICK k \in 0 .. Len(stream[q]) : Shifted(q, c, k)
  BY XAddFacts DEF BrokerInv
<1>2. /\ stream[q] \in Seq(Nat) /\ cursor[q] \in Nat /\ cursor[q] <= Len(stream[q])
      /\ Len(stream[q]) \in Nat
  BY QueueTypes
<1>3. ASSUME NEW x, x # c, x \in Unread(q)' PROVE x \in Unread(q)
  <2>1. PICK i \in (cursor'[q] + 1) .. Len(stream'[q]) : x = stream'[q][i]
    BY <1>3 DEF Unread
  <2>2. i # Len(stream[q]) - k + 1
    BY <1>1, <1>3, <2>1 DEF Shifted
  <2>3. cursor'[q] \in Nat /\ Len(stream'[q]) = Len(stream[q]) - k + 1
    BY <1>1, <1>2 DEF Shifted
  <2>4. i \in 1 .. Len(stream[q]) - k
    <3>1. k \in Nat /\ i \in Nat /\ 0 < i /\ i <= Len(stream[q]) - k + 1
      BY <1>2, <2>1, <2>3
    <3>2. QED
      BY <1>2, <2>2, <3>1
  <2>5. x = stream[q][i + k]
    BY <1>1, <2>1, <2>4 DEF Shifted
  <2>6. i + k \in (cursor[q] + 1) .. Len(stream[q])
    <3>1. cursor'[q] = IF cursor[q] > k THEN cursor[q] - k ELSE 0
      BY <1>1 DEF Shifted
    <3>2. i \in Nat /\ k \in Nat /\ i > cursor'[q] /\ i >= 1 /\ i + k <= Len(stream[q])
      BY <1>2, <2>1, <2>3, <2>4
    <3>3. i + k > cursor[q]
      BY <1>2, <3>1, <3>2
    <3>4. QED
      BY <1>2, <3>2, <3>3
  <2>7. QED
    BY <2>5, <2>6 DEF Unread
<1>4. ASSUME NEW p \in Queues, p # q PROVE Unread(p)' = Unread(p) /\ cursor'[p] = cursor[p]
  BY <1>1, <1>4 DEF Shifted, Unread
<1>5. cursor[q] = 0 => cursor'[q] = 0
  BY <1>1, <1>2 DEF Shifted
<1>6. QED
  BY <1>3, <1>4, <1>5

\* publish() and replay_from_dlq() make the copy fresh that they add.
LEMMA AppendFresh ==
    ASSUME BrokerInv, FromStart, NEW m \in Message, NEW q \in Queues,
           NEW later \in BOOLEAN, Appends(m, q, later)
    PROVE  NoneAnew
<1> DEFINE g == Len(msgs) + 1
<1>1. /\ UNCHANGED <<group, pel>>
      /\ \/ delayed' = [delayed EXCEPT ![q] = @ \cup {g}] /\ UNCHANGED <<stream, cursor>>
         \/ (XAdd(q, g) \/ XAddTrim(q, g)) /\ UNCHANGED delayed
  BY DEF Appends
<1>2. g \in Nat /\ g \notin Copies
  <2>1. Len(msgs) \in Nat
    BY DEF BrokerInv, BrokerTypeOK
  <2>2. QED
    BY <2>1 DEF Copies
<1> HIDE DEF g
<1>3. /\ \A p \in Queues : \A x : x # g /\ x \in delayed'[p] => x \in delayed[p]
      /\ \A p \in Queues : \A x : x # g /\ x \in Unread(p)' => x \in Unread(p)
      /\ \A p \in Queues : cursor[p] = 0 => cursor'[p] = 0
  <2>1. CASE delayed' = [delayed EXCEPT ![q] = @ \cup {g}] /\ UNCHANGED <<stream, cursor>>
    <3>1. delayed \in [Queues -> SUBSET Nat]
      BY DEF BrokerInv, BrokerTypeOK
    <3>2. \A p \in Queues : \A x : x # g /\ x \in delayed'[p] => x \in delayed[p]
      BY <2>1, <3>1
    <3>3. QED
      BY <2>1, <3>2 DEF Unread
  <2>2. CASE (XAdd(q, g) \/ XAddTrim(q, g)) /\ UNCHANGED delayed
    BY <1>2, <2>2, XAddFresh
  <2>3. QED
    BY <1>1, <2>1, <2>2
<1>4. QED
  BY <1>1, <1>2, <1>3 DEF NoneAnew, FromStart, Fresh

\* The delayed mover makes unread what was delayed.
LEMMA PromoteFresh ==
    ASSUME BrokerInv, FromStart, NEW q \in Queues, NEW c \in Nat, MoveReadyDelayed(q, c)
    PROVE  NoneAnew
<1>1. /\ c \in delayed[q] /\ delayed' = [delayed EXCEPT ![q] = @ \ {c}]
      /\ XAdd(q, c) /\ UNCHANGED <<msgs, group, pel, dead, dlq>>
  BY DEF MoveReadyDelayed
<1>2. \A p \in Queues : delayed'[p] \subseteq delayed[p]
  BY <1>1 DEF BrokerInv, BrokerTypeOK
<1>3. /\ \A p \in Queues : \A x : x # c /\ x \in Unread(p)' => x \in Unread(p)
      /\ \A p \in Queues : cursor[p] = 0 => cursor'[p] = 0
  BY <1>1, XAddFresh
<1>4. QED
  BY <1>1, <1>2, <1>3 DEF NoneAnew, FromStart, Fresh

\* The group is created once, and has read nothing then.
LEMMA EnsureFresh ==
    ASSUME BrokerInv, FromStart, NEW q \in Queues, EnsureConsumerGroup(q)
    PROVE  NoneAnew
<1>1. UNCHANGED <<msgs, delayed, stream, pel, dead, dlq>>
  BY DEF EnsureConsumerGroup
<1>2. /\ \A p \in Queues : cursor'[p] = cursor[p]
      /\ \A p \in Queues : ~group'[p] => ~group[p]
  <2>1. cursor \in [Queues -> Nat] /\ group \in [Queues -> BOOLEAN]
    BY DEF BrokerInv, BrokerTypeOK
  <2>2. CASE ~group[q] /\ group' = [group EXCEPT ![q] = TRUE] /\ cursor' = [cursor EXCEPT ![q] = 0]
    <3>1. cursor[q] = 0
      BY <2>2 DEF FromStart
    <3>2. QED
      BY <2>1, <2>2, <3>1
  <2>3. QED
    BY <2>2 DEF EnsureConsumerGroup
<1>3. QED
  BY <1>1, <1>2 DEF NoneAnew, FromStart, Fresh, Unread

\* XREADGROUP takes a copy that was fresh, and it is fresh no more.
LEMMA ReadFresh ==
    ASSUME BrokerInv, FromStart, NEW q \in Queues, NEW w \in Workers, ReadGroup(q, w),
           NEW c, c = NextUnread(q)
    PROVE  /\ NoneAnew
           /\ c \in Copies /\ Fresh(c) /\ ~Fresh(c)' /\ InStream(q, c)
           /\ \A p \in Queues :
                 Pending(p)' = IF p = q THEN Pending(q) \cup {c} ELSE Pending(p)
<1>1. /\ group[q] /\ cursor[q] < Len(stream[q])
      /\ UNCHANGED <<msgs, delayed, stream, group, dead, dlq>>
      /\ cursor' = [cursor EXCEPT ![q] = @ + 1]
      /\ pel' = [pel EXCEPT ![q] = @ \cup {[copy |-> c, owner |-> w]}]
  BY DEF ReadGroup, CanRead
<1>2. /\ cursor[q] \in Nat /\ Len(stream[q]) \in Nat /\ DOMAIN stream[q] = 1 .. Len(stream[q])
      /\ c = stream[q][cursor[q] + 1]
  BY <1>1, QueueTypes DEF NextUnread
<1>3. c \in Unread(q) /\ InStream(q, c) /\ c \in Copies /\ Fresh(c)
  <2>1. cursor[q] + 1 \in (cursor[q] + 1) .. Len(stream[q]) /\ cursor[q] + 1 \in DOMAIN stream[q]
    BY <1>1, <1>2
  <2>2. c \in Unread(q) /\ InStream(q, c)
    BY <1>2, <2>1 DEF Unread, InStream
  <2>3. QED
    BY <1>1, <2>2, ReadGroupKeeps DEF Fresh
<1>4. /\ \A p \in Queues : cursor'[p] = IF p = q THEN cursor[q] + 1 ELSE cursor[p]
      /\ \A p \in Queues : pel'[p] =
            IF p = q THEN pel[q] \cup {[copy |-> c, owner |-> w]} ELSE pel[p]
  BY <1>1 DEF BrokerInv, BrokerTypeOK
<1>5. \A p \in Queues : Unread(p)' \subseteq Unread(p)
  BY <1>1, <1>2, <1>4 DEF Unread
<1>6. \A p \in Queues : c \notin delayed[p] /\ c \notin Unread(p)'
  <2> SUFFICES ASSUME NEW p \in Queues PROVE c \notin delayed[p] /\ c \notin Unread(p)'
    OBVIOUS
  <2>1. c \notin delayed[p]
    BY <1>1, <1>3 DEF BrokerInv, Placed, At
  <2>2. CASE p # q
    <3>1. c \in Unread(p) => InStream(p, c)
      BY QueueTypes DEF Unread, InStream
    <3>2. QED
      BY <1>1, <1>3, <1>5, <2>1, <2>2, <3>1 DEF BrokerInv, Placed, At
  <2>3. CASE p = q
    <3> SUFFICES ASSUME NEW i \in (cursor'[q] + 1) .. Len(stream'[q]), stream'[q][i] = c
                 PROVE  FALSE
      BY <2>1, <2>3 DEF Unread
    <3>1. /\ i \in DOMAIN stream[q] /\ cursor[q] + 1 \in DOMAIN stream[q]
          /\ i # cursor[q] + 1 /\ stream[q][i] = stream[q][cursor[q] + 1]
      BY <1>1, <1>2, <1>4
    <3>2. QED
      BY <1>1, <3>1 DEF BrokerInv, Placed
  <2>4. QED
    BY <2>2, <2>3
<1>7. \A p \in Queues : Pending(p)' = IF p = q THEN Pending(q) \cup {c} ELSE Pending(p)
  <2>1. pel'[q] = pel[q] \cup {[copy |-> c, owner |-> w]} /\ [copy |-> c, owner |-> w].copy = c
    BY <1>1, <1>4
  <2>2. Pending(q)' = Pending(q) \cup {c}
    BY <2>1, Zenon DEF Pending
  <2>3. \A p \in Queues : p # q => Pending(p)' = Pending(p)
    BY <1>4 DEF Pending
  <2>4. QED
    BY <2>2, <2>3
<1>8. FromStart'
  BY <1>1, <1>4 DEF FromStart
<1>9. QED
  BY <1>1, <1>3, <1>5, <1>6, <1>7, <1>8 DEF NoneAnew, Fresh

\* A call that neither adds nor moves anything makes nothing fresh.
LEMMA SameFresh ==
    ASSUME FromStart, UNCHANGED <<delayed, stream, cursor, group>>
    PROVE  NoneAnew
BY DEF NoneAnew, FromStart, Fresh, Unread
================================================================================
