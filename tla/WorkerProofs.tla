------------------------------ MODULE WorkerProofs ------------------------------
(***************************************************************************)
(* Type correctness of the worker, that an at-least-once task is never     *)
(* lost, and that the promise of AtLeastOnce is kept, for every number of  *)
(* workers, lanes, queues and tasks, every delivery mode of the broker,    *)
(* every bound on the streams and every number of crashes and faults.      *)
(***************************************************************************)
EXTENDS Worker, RedisBrokerProofs

Places == {"free", "waiting"} \cup InHandler

\* Task t is concluded, or a copy of it that is younger than n is kept.
Covered(t, n) ==
    \/ t \in finished
    \/ \E d \in Copies : d > n /\ TaskOf(d) = t /\ Kept(d)

\* What a slot knows at the awaits after which its copy may be acknowledged.
\* "Younger" is what makes this inductive: the copy that covers this one may itself
\* be given up, but only once a still younger one covers it.
SlotInv(s) ==
    /\ pc[s] # "free" => holds[s] \in Copies
    /\ pc[s] = "early_ack" => ModeOf[TaskOf(holds[s])] = AMO
    /\ pc[s] \in {"ack", "dead_letter", "finalize"} => TaskOf(holds[s]) \in finished
    /\ pc[s] = "retry_ack" /\ ModeOf[TaskOf(holds[s])] = ALO
          => Covered(TaskOf(holds[s]), holds[s])

IInv ==
    /\ TypeOK
    /\ Placed
    /\ \A s \in Slots : SlotInv(s)
    /\ NoLoss

\* What every step does to the copies and to the tasks.
Advances ==
    /\ Copies \subseteq Copies'
    /\ \A x \in Copies : TaskOf(x)' = TaskOf(x)
    /\ finished \subseteq finished'
    /\ \A t \in Tasks : \A n \in Nat : ModeOf[t] = ALO /\ Covered(t, n) => Covered(t, n)'

--------------------------------------------------------------------------------
(* Steps seen from the broker.                                             *)

\* Every copy is a copy of a task.
LEMMA TaskOfType ==
    ASSUME TypeOK, NEW c \in Copies
    PROVE  c \in Nat /\ c > 0 /\ TaskOf(c) \in Tasks /\ ModeOf[TaskOf(c)] \in {ALO, AMO}
<1>1. msgs \in Seq(Message)
  BY DEF TypeOK, BrokerTypeOK
<1>2. c \in 1 .. Len(msgs) /\ msgs[c] \in Message
  BY <1>1 DEF Copies
<1>3. QED
  BY <1>1, <1>2, WorkerAssumption DEF Message, TaskOf

\* A step that leaves the broker alone.
LEMMA BrokerStutter ==
    ASSUME BrokerInv, UNCHANGED brokerVars
    PROVE  BrokerInv' /\ msgs' = msgs /\ \A x \in Copies : Kept(x) => Kept(x)'
<1>1. UNCHANGED <<msgs, delayed, stream, cursor, group, pel, dead, dlq>>
  BY DEF brokerVars
<1>2. BrokerTypeOK'
  BY <1>1 DEF BrokerInv, BrokerTypeOK
<1>3. Placed'
  BY <1>1 DEF BrokerInv, Placed, At, InStream, Pending, Copies
<1>4. \A x \in Copies : Kept(x) => Kept(x)'
  BY <1>1 DEF Kept, Live, Trimmed, Unread, Pending, InStream
<1>5. QED
  BY <1>1, <1>2, <1>3, <1>4 DEF BrokerInv

\* A step that keeps every copy advances.
LEMMA KeepingAdvances ==
    ASSUME msgs' = msgs, finished \subseteq finished',
           \A x \in Copies : Kept(x) => Kept(x)'
    PROVE  Advances
<1>1. Copies' = Copies /\ \A x \in Copies : TaskOf(x)' = TaskOf(x)
  BY DEF Copies, TaskOf
<1>2. QED
  BY <1>1 DEF Advances, Covered

\* A step that gives up copy c advances too, when c is covered.
LEMMA GivingUpAdvances ==
    ASSUME TypeOK, msgs' = msgs, finished \subseteq finished', NEW c \in Copies,
           \A x \in Copies : x # c /\ Kept(x) => Kept(x)',
           ModeOf[TaskOf(c)] = ALO => Covered(TaskOf(c), c)
    PROVE  Advances
<1>1. Copies' = Copies /\ \A x \in Copies : TaskOf(x)' = TaskOf(x)
  BY DEF Copies, TaskOf
<1>2. SUFFICES ASSUME NEW t \in Tasks, NEW n \in Nat, ModeOf[t] = ALO, Covered(t, n),
                      t \notin finished'
               PROVE  \E d \in Copies : d > n /\ TaskOf(d) = t /\ Kept(d)'
  BY <1>1 DEF Advances, Covered
<1>3. t \notin finished
  BY <1>2
<1>4. PICK d \in Copies : d > n /\ TaskOf(d) = t /\ Kept(d)
  BY <1>2, <1>3 DEF Covered
<1>5. CASE d # c
  BY <1>4, <1>5
<1>6. CASE d = c
  <2>1. PICK e \in Copies : e > c /\ TaskOf(e) = t /\ Kept(e)
    BY <1>2, <1>3, <1>4, <1>6 DEF Covered
  <2>2. e \in Nat /\ c \in Nat /\ e # c /\ e > n
    BY <1>4, <1>6, <2>1, TaskOfType
  <2>3. QED
    BY <2>1, <2>2
<1>7. QED
  BY <1>5, <1>6

\* A step that publishes one more copy advances.
LEMMA PublishingAdvances ==
    ASSUME BrokerInv, NEW m \in Message, NEW c \in Nat, c = Len(msgs) + 1,
           msgs' = Append(msgs, m), Copies' = Copies \cup {c}, Live(c)',
           \A x \in Copies : Kept(x) => Kept(x)',
           finished \subseteq finished'
    PROVE  /\ Advances
           /\ TaskOf(c)' = m.task /\ Kept(c)'
           /\ \A x \in Copies : c > x
<1>1. msgs \in Seq(Message)
  BY DEF BrokerInv, BrokerTypeOK
<1>2. /\ \A x \in Copies : x \in Nat /\ x < c /\ msgs'[x] = msgs[x]
      /\ msgs'[c] = m
  BY <1>1 DEF Copies
<1>3. \A x \in Copies : TaskOf(x)' = TaskOf(x)
  BY <1>2 DEF TaskOf
<1>4. Advances
  BY <1>3 DEF Advances, Covered
<1>5. QED
  BY <1>2, <1>4 DEF TaskOf, Kept

\* No task is lost in a step that advances and whose new copies are kept.
LEMMA AdvancingNoLoss ==
    ASSUME TypeOK, TypeOK', NoLoss, Advances,
           \A x \in Copies' : x \in Copies \/ Kept(x)'
    PROVE  NoLoss'
<1>1. SUFFICES ASSUME NEW t \in Tasks, ModeOf[t] = ALO, Dispatched(t)'
               PROVE  t \in finished' \/ (\E c \in Copies : TaskOf(c) = t /\ Kept(c))'
  BY DEF NoLoss
<1>2. PICK x \in Copies' : TaskOf(x)' = t
  BY <1>1 DEF Dispatched
<1>3. CASE x \in Copies
  <2>1. Dispatched(t)
    BY <1>2, <1>3 DEF Dispatched, Advances
  <2>2. Covered(t, 0)
    BY <1>1, <2>1, TaskOfType DEF NoLoss, Covered
  <2>3. Covered(t, 0)'
    BY <1>1, <2>2 DEF Advances
  <2>4. QED
    BY <2>3 DEF Covered
<1>4. CASE x \notin Copies
  BY <1>2, <1>4
<1>5. QED
  BY <1>3, <1>4

--------------------------------------------------------------------------------
(* Steps seen from the slots.                                              *)

\* A slot that does not move keeps what it knows.
LEMMA StillSlot ==
    ASSUME TypeOK, Advances, NEW s \in Slots, SlotInv(s),
           pc'[s] = pc[s], holds'[s] = holds[s]
    PROVE  SlotInv(s)'
<1>1. CASE pc[s] = "free"
  BY <1>1 DEF SlotInv
<1>2. CASE pc[s] # "free"
  <2> DEFINE h == holds[s]
  <2>1. h \in Copies /\ h \in Copies' /\ h \in Nat
    BY <1>2, TaskOfType DEF SlotInv, Advances
  <2>2. TaskOf(holds[s])' = TaskOf(h)
    BY <2>1 DEF Advances, TaskOf
  <2>3. TaskOf(h) \in Tasks
    BY <2>1, TaskOfType
  <2>4. ModeOf[TaskOf(h)] = ALO /\ Covered(TaskOf(h), h)
          => Covered(TaskOf(holds[s]), holds[s])'
    BY <2>1, <2>2, <2>3 DEF Advances, Covered
  <2>5. QED
    BY <1>2, <2>1, <2>2, <2>4 DEF SlotInv, Advances
<1>3. QED
  BY <1>1, <1>2

\* A step of slot s that goes on at p, where what p needs holds.
LEMMA GotoSlots ==
    ASSUME TypeOK, Advances, \A r \in Slots : SlotInv(r),
           NEW s \in Slots, pc[s] # "free", NEW p \in Places, Goto(s, p),
           NEW h, h = holds[s],
           p = "early_ack" => ModeOf[TaskOf(h)] = AMO,
           p \in {"ack", "dead_letter", "finalize"} => TaskOf(h) \in finished',
           p = "retry_ack" /\ ModeOf[TaskOf(h)] = ALO => Covered(TaskOf(h), h)'
    PROVE  /\ \A r \in Slots : SlotInv(r)'
           /\ pc' \in [Slots -> Places] /\ holds' \in [Slots -> Nat]
           /\ UNCHANGED <<status, crashes>>
<1>1. /\ pc \in [Slots -> Places] /\ holds \in [Slots -> Nat]
      /\ pc' = [pc EXCEPT ![s] = p]
      /\ holds' = [holds EXCEPT ![s] = IF p = "free" THEN 0 ELSE @]
      /\ UNCHANGED <<status, crashes>>
  BY DEF TypeOK, Goto, Places
<1>2. h \in Copies /\ h \in Copies' /\ TaskOf(h)' = TaskOf(h)
  BY DEF SlotInv, Advances
<1>3. SlotInv(s)'
  <2>1. CASE p = "free"
    BY <1>1, <2>1 DEF SlotInv
  <2>2. CASE p # "free"
    <3>1. pc'[s] = p /\ holds'[s] = h
      BY <1>1, <2>2
    <3>2. TaskOf(holds[s])' = TaskOf(h)
      BY <1>2, <3>1 DEF TaskOf
    <3>3. Covered(TaskOf(h), h)' => Covered(TaskOf(holds[s]), holds[s])'
      BY <1>2, <3>1, <3>2 DEF Covered
    <3>4. QED
      BY <1>2, <3>1, <3>2, <3>3 DEF SlotInv
  <2>3. QED
    BY <2>1, <2>2
<1>4. ASSUME NEW r \in Slots, r # s PROVE SlotInv(r)'
  BY <1>1, <1>4, StillSlot
<1>5. pc' \in [Slots -> Places] /\ holds' \in [Slots -> Nat]
  BY <1>1
<1>6. QED
  BY <1>1, <1>3, <1>4, <1>5

\* A step of slot s that keeps the broker's invariant and goes on at p.
LEMMA SlotStep ==
    ASSUME IInv, BrokerInv', Advances, \A x \in Copies' : x \in Copies \/ Kept(x)',
           NEW s \in Slots, pc[s] # "free", NEW p \in Places, Goto(s, p),
           NEW h, h = holds[s],
           p = "early_ack" => ModeOf[TaskOf(h)] = AMO,
           p \in {"ack", "dead_letter", "finalize"} => TaskOf(h) \in finished',
           p = "retry_ack" /\ ModeOf[TaskOf(h)] = ALO => Covered(TaskOf(h), h)',
           state' \in [Tasks -> {"PENDING", "STARTED", "RETRY", "SUCCESS", "FAILURE"}],
           result' \in [Tasks -> {"NONE", "SUCCESS", "FAILURE"}],
           finished' \subseteq Tasks,
           ran' \subseteq Nat, reran' \subseteq ran', faults' \in 0 .. MaxFaults
    PROVE  IInv'
<1>1. /\ \A r \in Slots : SlotInv(r)'
      /\ pc' \in [Slots -> Places] /\ holds' \in [Slots -> Nat]
      /\ UNCHANGED <<status, crashes>>
  BY GotoSlots DEF IInv
<1>2. TypeOK'
  BY <1>1 DEF IInv, TypeOK, BrokerInv, Places
<1>3. NoLoss'
  BY <1>2, AdvancingNoLoss DEF IInv
<1>4. QED
  BY <1>1, <1>2, <1>3 DEF IInv, BrokerInv

\* How a call ends: the slot goes on somewhere, and the faults are bounded.
LEMMA ReturnFacts ==
    ASSUME TypeOK, NEW s \in Slots, NEW p, NEW P, Return(s, p, P) \/ Raise(s, P)
    PROVE  /\ faults' \in 0 .. MaxFaults
           /\ \E r \in P \cup {p} : Goto(s, r)
<1>1. faults \in 0 .. MaxFaults /\ MaxFaults \in Nat
  BY WorkerAssumption DEF TypeOK
<1>2. CASE Raise(s, P)
  BY <1>1, <1>2 DEF Raise
<1>3. CASE Goto(s, p) /\ UNCHANGED faults
  BY <1>1, <1>3
<1>4. QED
  BY <1>2, <1>3 DEF Return

\* A backend call of slot s, seen by what it leaves of the backend.
LEMMA BackendStep ==
    ASSUME IInv, NEW s \in Slots, pc[s] # "free", UNCHANGED <<brokerVars, historyVars>>,
           NEW p, NEW P, P \cup {p} \subseteq Places \ {"retry_ack"},
           Return(s, p, P) \/ Raise(s, P),
           NEW h, h = holds[s],
           \A r \in P \cup {p} : r = "early_ack" => ModeOf[TaskOf(h)] = AMO,
           \A r \in P \cup {p} : r \in {"ack", "dead_letter", "finalize"} /\ Goto(s, r)
                => TaskOf(h) \in finished',
           state' \in [Tasks -> {"PENDING", "STARTED", "RETRY", "SUCCESS", "FAILURE"}],
           result' \in [Tasks -> {"NONE", "SUCCESS", "FAILURE"}],
           finished \subseteq finished', finished' \subseteq Tasks
    PROVE  IInv'
<1>1. BrokerInv' /\ Advances /\ \A x \in Copies' : x \in Copies \/ Kept(x)'
  <2>1. BrokerInv' /\ msgs' = msgs /\ \A x \in Copies : Kept(x) => Kept(x)'
    BY BrokerStutter DEF IInv, TypeOK, BrokerInv
  <2>2. QED
    BY <2>1, KeepingAdvances DEF Copies
<1>2. /\ faults' \in 0 .. MaxFaults
      /\ \E r \in P \cup {p} : Goto(s, r)
  BY ReturnFacts DEF IInv
<1>3. PICK r \in P \cup {p} : Goto(s, r)
  BY <1>2
<1>4. ran' \subseteq Nat /\ reran' \subseteq ran'
  BY DEF IInv, TypeOK, historyVars
<1>5. r \in Places /\ r # "retry_ack"
  OBVIOUS
<1>6. QED
  BY <1>1, <1>2, <1>3, <1>4, <1>5, SlotStep

\* A broker call of slot s that keeps or rightly gives up copies.
LEMMA BrokerStep ==
    ASSUME IInv, BrokerInv', Advances, \A x \in Copies' : x \in Copies \/ Kept(x)',
           NEW s \in Slots, pc[s] # "free", UNCHANGED <<backendVars, historyVars>>,
           faults' \in 0 .. MaxFaults,
           NEW r \in Places \ {"early_ack"}, Goto(s, r),
           NEW h, h = holds[s],
           r \in {"ack", "dead_letter", "finalize"} => TaskOf(h) \in finished,
           r = "retry_ack" /\ ModeOf[TaskOf(h)] = ALO => Covered(TaskOf(h), h)'
    PROVE  IInv'
<1>1. /\ state' \in [Tasks -> {"PENDING", "STARTED", "RETRY", "SUCCESS", "FAILURE"}]
      /\ result' \in [Tasks -> {"NONE", "SUCCESS", "FAILURE"}]
      /\ finished' = finished /\ finished' \subseteq Tasks
      /\ ran' \subseteq Nat /\ reran' \subseteq ran'
  BY DEF IInv, TypeOK, historyVars, backendVars
<1>2. QED
  BY <1>1, SlotStep

--------------------------------------------------------------------------------
(* One lemma per action of _process_envelope().                            *)

\* The semaphore admits a slot: nothing but its place changes.
LEMMA AcquireKeeps == ASSUME IInv, NEW s \in Slots, Acquire(s) PROVE IInv'
<1> DEFINE p == IF TaskOf(holds[s]) \in Unregistered THEN "store_failure" ELSE "starting"
<1>1. /\ pc[s] # "free" /\ Goto(s, p) /\ p \in {"store_failure", "starting"}
      /\ UNCHANGED <<brokerVars, backendVars, historyVars, faults>>
  BY DEF Acquire
<1> HIDE DEF p
<1>2. p \in Places \ {"early_ack"}
  BY <1>1 DEF Places, InHandler
<1>3. BrokerInv' /\ Advances /\ \A x \in Copies' : x \in Copies \/ Kept(x)'
  <2>1. BrokerInv' /\ msgs' = msgs /\ \A x \in Copies : Kept(x) => Kept(x)'
    BY <1>1, BrokerStutter DEF IInv, TypeOK, BrokerInv
  <2>2. QED
    BY <1>1, <2>1, KeepingAdvances DEF Copies, backendVars
<1>4. faults' \in 0 .. MaxFaults
  BY <1>1 DEF IInv, TypeOK
<1>5. QED
  BY <1>1, <1>2, <1>3, <1>4, BrokerStep

\* set_state(STARTED) touches no copy, and only an at-most-once slot goes to early_ack.
LEMMA MarkStartedKeeps == ASSUME IInv, NEW s \in Slots, MarkStarted(s) PROVE IInv'
<1> DEFINE t == TaskOf(holds[s])
           p == IF ModeOf[t] = AMO THEN "early_ack" ELSE "running"
<1>1. /\ pc[s] = "starting" /\ UNCHANGED <<brokerVars, historyVars>>
      /\ SetState(t, "STARTED") \/ UNCHANGED backendVars
      /\ Return(s, p, Escape) \/ Raise(s, Escape)
  BY DEF MarkStarted, BackendCall
<1>2. /\ state' \in [Tasks -> {"PENDING", "STARTED", "RETRY", "SUCCESS", "FAILURE"}]
      /\ result' \in [Tasks -> {"NONE", "SUCCESS", "FAILURE"}]
      /\ finished' = finished /\ finished' \subseteq Tasks
  BY <1>1 DEF IInv, TypeOK, SetState, backendVars
<1>3. /\ \A r \in Escape \cup {p} : r = "early_ack" => ModeOf[t] = AMO
      /\ \A r \in Escape \cup {p} : r \notin {"ack", "dead_letter", "finalize"}
      /\ Escape \cup {p} \subseteq Places \ {"retry_ack"}
  BY DEF Escape, Places, InHandler
<1> HIDE DEF p
<1>4. QED
  BY <1>1, <1>2, <1>3, BackendStep

\* Calling the function changes the history alone.
LEMMA RunKeeps == ASSUME IInv, NEW s \in Slots, Run(s) PROVE IInv'
<1> DEFINE h == holds[s]
<1>1. /\ pc[s] = "running" /\ UNCHANGED <<brokerVars, backendVars, faults>>
      /\ ran' = ran \cup {h} /\ reran' = reran \cup (ran \cap {h})
  BY DEF Run
<1>2. PICK p \in {"store_success", "store_failure", "retry_state"} : Goto(s, p)
  BY DEF Run, Caught
<1>3. p \in Places /\ p \notin {"early_ack", "ack", "dead_letter", "finalize", "retry_ack"}
  BY DEF Places, InHandler
<1>4. BrokerInv' /\ Advances /\ \A x \in Copies' : x \in Copies \/ Kept(x)'
  <2>1. BrokerInv' /\ msgs' = msgs /\ \A x \in Copies : Kept(x) => Kept(x)'
    BY <1>1, BrokerStutter DEF IInv, TypeOK, BrokerInv
  <2>2. QED
    BY <1>1, <2>1, KeepingAdvances DEF Copies, backendVars
<1>5. h \in Nat
  BY DEF IInv, TypeOK
<1>6. /\ ran' \subseteq Nat /\ reran' \subseteq ran' /\ faults' \in 0 .. MaxFaults
      /\ state' \in [Tasks -> {"PENDING", "STARTED", "RETRY", "SUCCESS", "FAILURE"}]
      /\ result' \in [Tasks -> {"NONE", "SUCCESS", "FAILURE"}]
      /\ finished' \subseteq Tasks
  BY <1>1, <1>5 DEF IInv, TypeOK, backendVars
<1>7. QED
  BY <1>1, <1>2, <1>3, <1>4, <1>6, SlotStep

\* After the store the task is finished, which is what the ack relies on.
LEMMA StoreSuccessKeeps == ASSUME IInv, NEW s \in Slots, StoreSuccess(s) PROVE IInv'
<1> DEFINE h == holds[s]
           t == TaskOf(h)
           p == IF ModeOf[t] = ALO THEN "ack" ELSE "free"
           stored == /\ state' = [state EXCEPT ![t] = "SUCCESS"]
                     /\ finished' = finished \cup {t}
                     /\ result' = result \/ result' = [result EXCEPT ![t] = "SUCCESS"]
<1>1. /\ pc[s] = "store_success" /\ UNCHANGED <<brokerVars, historyVars>>
      /\ (stored /\ Return(s, p, Caught(h))) \/ (UNCHANGED backendVars /\ Raise(s, Caught(h)))
  BY DEF StoreSuccess, BackendCall, StoreResult
<1>2. t \in Tasks
  BY <1>1, TaskOfType DEF IInv, SlotInv
<1>3. /\ state' \in [Tasks -> {"PENDING", "STARTED", "RETRY", "SUCCESS", "FAILURE"}]
      /\ result' \in [Tasks -> {"NONE", "SUCCESS", "FAILURE"}]
      /\ finished \subseteq finished' /\ finished' \subseteq Tasks
  BY <1>1, <1>2 DEF IInv, TypeOK, backendVars
<1>4. /\ Caught(h) \subseteq {"store_failure", "retry_state"}
      /\ Caught(h) \cup {p} \subseteq Places \ {"retry_ack"}
      /\ p \in {"ack", "free"}
  BY DEF Caught, Places, InHandler
<1> HIDE DEF p
<1>5. CASE stored /\ Return(s, p, Caught(h))
  <2>1. t \in finished'
    BY <1>5
  <2>2. QED
    BY <1>1, <1>3, <1>4, <1>5, <2>1, BackendStep
<1>6. CASE UNCHANGED backendVars /\ Raise(s, Caught(h))
  <2>1. Caught(h) \cup {"store_failure"} = Caught(h)
    BY DEF Caught
  <2>2. QED
    BY <1>1, <1>3, <1>4, <1>6, <2>1, BackendStep
<1>7. QED
  BY <1>1, <1>5, <1>6

\* set_state(RETRY) touches no copy.
LEMMA RetryStateKeeps == ASSUME IInv, NEW s \in Slots, RetryState(s) PROVE IInv'
<1> DEFINE t == TaskOf(holds[s])
<1>1. /\ pc[s] = "retry_state" /\ UNCHANGED <<brokerVars, historyVars>>
      /\ SetState(t, "RETRY") \/ UNCHANGED backendVars
      /\ Return(s, "republish", Escape) \/ Raise(s, Escape)
  BY DEF RetryState, BackendCall
<1>2. /\ state' \in [Tasks -> {"PENDING", "STARTED", "RETRY", "SUCCESS", "FAILURE"}]
      /\ result' \in [Tasks -> {"NONE", "SUCCESS", "FAILURE"}]
      /\ finished' = finished /\ finished' \subseteq Tasks
  BY <1>1 DEF IInv, TypeOK, SetState, backendVars
<1>3. /\ \A r \in Escape \cup {"republish"} :
            r \notin {"early_ack", "ack", "dead_letter", "finalize"}
      /\ Escape \cup {"republish"} \subseteq Places \ {"retry_ack"}
  BY DEF Escape, Places, InHandler
<1>4. QED
  BY <1>1, <1>2, <1>3, BackendStep

\* After the store the task is finished, which is what dead-lettering relies on.
LEMMA StoreFailureKeeps == ASSUME IInv, NEW s \in Slots, StoreFailure(s) PROVE IInv'
<1> DEFINE h == holds[s]
           t == TaskOf(h)
<1>1. /\ pc[s] = "store_failure" /\ UNCHANGED <<brokerVars, historyVars>>
      /\ \/ StoreResult(t, "FAILURE") /\ Return(s, "dead_letter", Escape)
         \/ UNCHANGED backendVars /\ Raise(s, Escape)
  BY DEF StoreFailure, BackendCall
<1>2. t \in Tasks
  BY <1>1, TaskOfType DEF IInv, SlotInv
<1>3. /\ state' \in [Tasks -> {"PENDING", "STARTED", "RETRY", "SUCCESS", "FAILURE"}]
      /\ result' \in [Tasks -> {"NONE", "SUCCESS", "FAILURE"}]
      /\ finished \subseteq finished' /\ finished' \subseteq Tasks
  BY <1>1, <1>2 DEF IInv, TypeOK, backendVars, StoreResult
<1>4. /\ Escape = {"free"} /\ "free" \in Places /\ "dead_letter" \in Places
  BY DEF Escape, Places, InHandler
<1>5. CASE StoreResult(t, "FAILURE") /\ Return(s, "dead_letter", Escape)
  <2>1. t \in finished'
    BY <1>5 DEF StoreResult
  <2>2. QED
    BY <1>1, <1>3, <1>4, <1>5, <2>1, BackendStep
<1>6. CASE UNCHANGED backendVars /\ Raise(s, Escape)
  <2>1. Escape \cup {"free"} = Escape
    BY <1>4
  <2>2. QED
    BY <1>1, <1>3, <1>4, <1>6, <2>1, BackendStep
<1>7. QED
  BY <1>1, <1>5, <1>6

\* A call that gives up at most the slot's own copy, which is covered.
LEMMA GiveUpStep ==
    ASSUME IInv, NEW s \in Slots, pc[s] # "free", UNCHANGED <<backendVars, historyVars>>,
           NEW h, h = holds[s], NEW p, NEW P, Return(s, p, P) \/ Raise(s, P),
           BrokerInv', msgs' = msgs,
           \A x \in Copies : x # h /\ Kept(x) => Kept(x)',
           ModeOf[TaskOf(h)] = ALO => Covered(TaskOf(h), h),
           P \cup {p} \subseteq Places \ {"early_ack", "ack", "dead_letter", "retry_ack"},
           "finalize" \in P \cup {p} => TaskOf(h) \in finished
    PROVE  IInv'
<1>1. h \in Copies
  BY DEF IInv, SlotInv
<1>2. Advances /\ \A x \in Copies' : x \in Copies \/ Kept(x)'
  <2>1. finished \subseteq finished'
    BY DEF backendVars
  <2>2. Advances
    BY <1>1, <2>1, GivingUpAdvances DEF IInv
  <2>3. QED
    BY <2>2 DEF Copies
<1>3. faults' \in 0 .. MaxFaults /\ \E r \in P \cup {p} : Goto(s, r)
  BY ReturnFacts DEF IInv
<1>4. PICK r \in P \cup {p} : Goto(s, r)
  BY <1>3
<1>5. /\ r \in Places \ {"early_ack"} /\ r \notin {"ack", "dead_letter", "retry_ack"}
      /\ r = "finalize" => TaskOf(h) \in finished
  OBVIOUS
<1>6. QED
  BY <1>2, <1>3, <1>4, <1>5, BrokerStep

\* ack() and nack() on the default queue, or a call that never reached the broker.
LEMMA AckStep ==
    ASSUME IInv, NEW h, Ack(DefaultQueue, h) \/ UNCHANGED brokerVars
    PROVE  /\ BrokerInv' /\ msgs' = msgs
           /\ \A x \in Copies : x # h /\ Kept(x) => Kept(x)'
<1>1. BrokerInv /\ DefaultQueue \in Queues
  BY BrokerAssumption DEF IInv, TypeOK, BrokerInv
<1>2. CASE Ack(DefaultQueue, h)
  BY <1>1, <1>2, AckKeeps
<1>3. CASE UNCHANGED brokerVars
  BY <1>1, <1>3, BrokerStutter
<1>4. QED
  BY <1>2, <1>3

\* What a slot knows where it acknowledges.
LEMMA CoveredHere ==
    ASSUME IInv, NEW s \in Slots, NEW h, h = holds[s],
           pc[s] \in {"early_ack", "ack", "retry_ack", "dead_letter", "finalize"}
    PROVE  /\ ModeOf[TaskOf(h)] = ALO => Covered(TaskOf(h), h)
           /\ pc[s] \in {"ack", "dead_letter", "finalize"} => TaskOf(h) \in finished
<1>1. SlotInv(s)
  BY DEF IInv
<1>2. CASE pc[s] = "early_ack"
  <2>1. ModeOf[TaskOf(h)] # ALO
    BY <1>1, <1>2 DEF SlotInv, ALO, AMO
  <2>2. QED
    BY <1>2, <2>1
<1>3. CASE pc[s] \in {"ack", "dead_letter", "finalize"}
  BY <1>1, <1>3 DEF SlotInv, Covered
<1>4. CASE pc[s] = "retry_ack"
  BY <1>1, <1>4 DEF SlotInv
<1>5. QED
  BY <1>2, <1>3, <1>4

\* The early ack gives up the copy of an at-most-once task, which owes nothing.
LEMMA EarlyAckKeeps == ASSUME IInv, NEW s \in Slots, EarlyAck(s) PROVE IInv'
<1> DEFINE h == holds[s]
<1>1. /\ pc[s] = "early_ack" /\ UNCHANGED <<backendVars, historyVars>>
      /\ Ack(DefaultQueue, h) \/ UNCHANGED brokerVars
      /\ Return(s, "running", Escape) \/ Raise(s, Escape)
  BY DEF EarlyAck, BrokerCall
<1>2. /\ BrokerInv' /\ msgs' = msgs
      /\ \A x \in Copies : x # h /\ Kept(x) => Kept(x)'
  BY <1>1, AckStep
<1>3. ModeOf[TaskOf(h)] = ALO => Covered(TaskOf(h), h)
  BY <1>1, CoveredHere
<1>4. /\ Escape \cup {"running"} \subseteq
            Places \ {"early_ack", "ack", "dead_letter", "retry_ack"}
      /\ "finalize" \notin Escape \cup {"running"}
  BY DEF Escape, Places, InHandler
<1> HIDE DEF h
<1>5. QED
  BY <1>1, <1>2, <1>3, <1>4, GiveUpStep DEF h

\* The ack after success gives up a copy of a finished task.
LEMMA AckDoneKeeps == ASSUME IInv, NEW s \in Slots, AckDone(s) PROVE IInv'
<1> DEFINE h == holds[s]
<1>1. /\ pc[s] = "ack" /\ UNCHANGED <<backendVars, historyVars>>
      /\ Ack(DefaultQueue, h) \/ UNCHANGED brokerVars
      /\ Return(s, "free", Caught(h)) \/ Raise(s, Caught(h))
  BY DEF AckDone, BrokerCall
<1>2. /\ BrokerInv' /\ msgs' = msgs
      /\ \A x \in Copies : x # h /\ Kept(x) => Kept(x)'
  BY <1>1, AckStep
<1>3. ModeOf[TaskOf(h)] = ALO => Covered(TaskOf(h), h)
  BY <1>1, CoveredHere
<1>4. /\ Caught(h) \cup {"free"} \subseteq
            Places \ {"early_ack", "ack", "dead_letter", "retry_ack"}
      /\ "finalize" \notin Caught(h) \cup {"free"}
  BY DEF Caught, Places, InHandler
<1> HIDE DEF h
<1>5. QED
  BY <1>1, <1>2, <1>3, <1>4, GiveUpStep DEF h

\* The ack after a retry gives up a copy that the next attempt covers.
LEMMA RetryAckKeeps == ASSUME IInv, NEW s \in Slots, RetryAck(s) PROVE IInv'
<1> DEFINE h == holds[s]
<1>1. /\ pc[s] = "retry_ack" /\ UNCHANGED <<backendVars, historyVars>>
      /\ Ack(DefaultQueue, h) \/ UNCHANGED brokerVars
      /\ Return(s, "free", Escape) \/ Raise(s, Escape)
  BY DEF RetryAck, BrokerCall
<1>2. /\ BrokerInv' /\ msgs' = msgs
      /\ \A x \in Copies : x # h /\ Kept(x) => Kept(x)'
  BY <1>1, AckStep
<1>3. ModeOf[TaskOf(h)] = ALO => Covered(TaskOf(h), h)
  BY <1>1, CoveredHere
<1>4. /\ Escape \cup {"free"} \subseteq
            Places \ {"early_ack", "ack", "dead_letter", "retry_ack"}
      /\ "finalize" \notin Escape \cup {"free"}
  BY DEF Escape, Places, InHandler
<1> HIDE DEF h
<1>5. QED
  BY <1>1, <1>2, <1>3, <1>4, GiveUpStep DEF h

\* The fallback nack gives up a copy of a finished task.
LEMMA FinalizeKeeps == ASSUME IInv, NEW s \in Slots, Finalize(s) PROVE IInv'
<1> DEFINE h == holds[s]
<1>1. /\ pc[s] = "finalize" /\ UNCHANGED <<backendVars, historyVars>>
      /\ Ack(DefaultQueue, h) \/ UNCHANGED brokerVars
      /\ Return(s, "free", Escape) \/ Raise(s, Escape)
  BY DEF Finalize, BrokerCall, NackDrop
<1>2. /\ BrokerInv' /\ msgs' = msgs
      /\ \A x \in Copies : x # h /\ Kept(x) => Kept(x)'
  BY <1>1, AckStep
<1>3. ModeOf[TaskOf(h)] = ALO => Covered(TaskOf(h), h)
  BY <1>1, CoveredHere
<1>4. /\ Escape \cup {"free"} \subseteq
            Places \ {"early_ack", "ack", "dead_letter", "retry_ack"}
      /\ "finalize" \notin Escape \cup {"free"}
  BY DEF Escape, Places, InHandler
<1> HIDE DEF h
<1>5. QED
  BY <1>1, <1>2, <1>3, <1>4, GiveUpStep DEF h

\* Dead-lettering or dropping gives up a copy of a finished task.
LEMMA DeadLetterKeeps == ASSUME IInv, NEW s \in Slots, DeadLetter(s) PROVE IInv'
<1> DEFINE h == holds[s]
           q == QueueOf[s[1]]
<1>1. /\ pc[s] = "dead_letter" /\ UNCHANGED <<backendVars, historyVars>>
      /\ MoveToDlq(q, h) \/ Ack(DefaultQueue, h) \/ UNCHANGED brokerVars
      /\ Return(s, "free", {"finalize"}) \/ Raise(s, {"finalize"})
  BY DEF DeadLetter, BrokerCall, NackDrop
<1>2. /\ BrokerInv' /\ msgs' = msgs
      /\ \A x \in Copies : x # h /\ Kept(x) => Kept(x)'
  <2>1. CASE MoveToDlq(q, h)
    <3>1. q \in Queues /\ h \in Nat /\ BrokerInv
      BY WorkerAssumption DEF Slots, IInv, TypeOK, BrokerInv
    <3>2. QED
      BY <2>1, <3>1, MoveToDlqKeeps
  <2>2. CASE Ack(DefaultQueue, h) \/ UNCHANGED brokerVars
    BY <2>2, AckStep
  <2>3. QED
    BY <1>1, <2>1, <2>2
<1>3. /\ ModeOf[TaskOf(h)] = ALO => Covered(TaskOf(h), h)
      /\ TaskOf(h) \in finished
  BY <1>1, CoveredHere
<1>4. {"finalize"} \cup {"free"} \subseteq
            Places \ {"early_ack", "ack", "dead_letter", "retry_ack"}
  BY DEF Places, InHandler
<1> HIDE DEF h
<1>5. QED
  BY <1>1, <1>2, <1>3, <1>4, GiveUpStep DEF h

\* The next attempt is a younger copy, live as soon as it is published.
LEMMA RepublishKeeps == ASSUME IInv, NEW s \in Slots, Republish(s) PROVE IInv'
<1> PICK h : h = holds[s]
  OBVIOUS
<1> PICK m : m = [msgs[h] EXCEPT !.retries = @ + 1]
  OBVIOUS
<1> PICK c : c = Len(msgs) + 1
  OBVIOUS
<1> PICK p : p = IF ModeOf[msgs[h].task] = ALO THEN "retry_ack" ELSE "free"
  OBVIOUS
<1>1. /\ pc[s] = "republish" /\ UNCHANGED <<backendVars, historyVars>>
      /\ \/ (\E later \in BOOLEAN : Publish(m, DefaultQueue, later))
            /\ Return(s, p, Escape)
         \/ UNCHANGED brokerVars /\ Raise(s, Escape)
  BY DEF Republish, BrokerCall
<1>2. h \in Copies /\ h \in Nat
  BY <1>1 DEF IInv, SlotInv, TypeOK
<1>3. /\ BrokerInv /\ DefaultQueue \in Queues /\ TypeOK
      /\ m \in Message /\ m.task = TaskOf(h) /\ c \in Nat
  <2>1. msgs \in Seq(Message) /\ BrokerInv /\ TypeOK
    BY DEF IInv, TypeOK, BrokerTypeOK, BrokerInv
  <2>2. msgs[h] \in Message
    BY <1>2, <2>1 DEF Copies
  <2>3. QED
    BY <2>1, <2>2, BrokerAssumption DEF Message, TaskOf
<1>4. Escape = {"free"} /\ p \in {"retry_ack", "free"} /\ p \in Places /\ "free" \in Places
  BY DEF Escape, Places, InHandler
<1>5. finished' = finished
  BY <1>1 DEF backendVars
<1>6. CASE UNCHANGED brokerVars /\ Raise(s, Escape)
  <2>1. BrokerInv' /\ Advances /\ \A x \in Copies' : x \in Copies \/ Kept(x)'
    BY <1>3, <1>5, <1>6, BrokerStutter, KeepingAdvances DEF Copies
  <2>2. faults' \in 0 .. MaxFaults /\ Goto(s, "free")
    <3>1. \E r \in Escape \cup {"free"} : Goto(s, r)
      BY <1>6, <1>3, ReturnFacts
    <3>2. faults' \in 0 .. MaxFaults
      BY <1>6, <1>3, ReturnFacts
    <3>3. QED
      BY <1>4, <3>1, <3>2
  <2>3. QED
    BY <1>1, <1>4, <2>1, <2>2, BrokerStep
<1>7. CASE /\ \E later \in BOOLEAN : Publish(m, DefaultQueue, later)
           /\ Return(s, p, Escape)
  <2>1. PICK later \in BOOLEAN : Publish(m, DefaultQueue, later)
    BY <1>7
  <2>2. /\ BrokerInv' /\ msgs' = Append(msgs, m)
        /\ Copies' = Copies \cup {c} /\ Live(c)'
        /\ \A x \in Copies : Kept(x) => Kept(x)'
    BY <1>3, <2>1, PublishKeeps
  <2>3. Advances /\ TaskOf(c)' = m.task /\ Kept(c)' /\ \A x \in Copies : c > x
    BY <1>3, <1>5, <2>2, PublishingAdvances
  <2>4. \A x \in Copies' : x \in Copies \/ Kept(x)'
    BY <2>2, <2>3
  <2>5. Covered(TaskOf(h), h)'
    <3>1. TaskOf(h)' = TaskOf(h)
      BY <1>2, <2>3 DEF Advances
    <3>2. c \in Copies' /\ c > h /\ TaskOf(c)' = TaskOf(h)
      BY <1>2, <1>3, <2>2, <2>3
    <3>3. QED
      BY <2>3, <3>1, <3>2 DEF Covered
  <2>6. faults' \in 0 .. MaxFaults /\ \E r \in Escape \cup {p} : Goto(s, r)
    BY <1>7, <1>3, ReturnFacts
  <2>7. PICK r \in {"free", "retry_ack"} : Goto(s, r)
    BY <1>4, <2>6
  <2>8. r \in Places \ {"early_ack"} /\ r \notin {"ack", "dead_letter", "finalize"}
    BY DEF Places, InHandler
  <2>9. QED
    BY <1>1, <2>2, <2>3, <2>4, <2>5, <2>6, <2>7, <2>8, BrokerStep
<1>8. QED
  BY <1>1, <1>6, <1>7

\* Every step of _process_envelope() keeps the invariant.
LEMMA HandleKeeps == ASSUME IInv, NEW s \in Slots, Handle(s) PROVE IInv'
BY AcquireKeeps, MarkStartedKeeps, EarlyAckKeeps, RunKeeps, StoreSuccessKeeps,
   AckDoneKeeps, RetryStateKeeps, RepublishKeeps, RetryAckKeeps, StoreFailureKeeps,
   DeadLetterKeeps, FinalizeKeeps DEF Handle

--------------------------------------------------------------------------------
(* The client, the consume loop, the delayed mover and crashes.            *)

\* A step of the environment that moves no slot.
LEMMA OtherStep ==
    ASSUME IInv, BrokerInv', Advances, \A x \in Copies' : x \in Copies \/ Kept(x)',
           UNCHANGED <<pc, holds, backendVars, historyVars, boundVars>>,
           status' \in [Workers -> {"new", "up", "dead"}]
    PROVE  IInv'
<1>1. TypeOK'
  BY DEF IInv, TypeOK, BrokerInv, backendVars, historyVars, boundVars
<1>2. \A s \in Slots : SlotInv(s)'
  BY StillSlot DEF IInv
<1>3. NoLoss'
  BY <1>1, AdvancingNoLoss DEF IInv
<1>4. QED
  BY <1>1, <1>2, <1>3 DEF IInv, BrokerInv

\* A dispatched task has a live copy at once.
LEMMA DispatchKeeps == ASSUME IInv, NEW t \in Tasks, Dispatch(t) PROVE IInv'
<1> PICK m : m = [task |-> t, retries |-> 0]
  OBVIOUS
<1> PICK c : c = Len(msgs) + 1
  OBVIOUS
<1>1. /\ Publish(m, RouteOf[t], FALSE)
      /\ UNCHANGED <<slotVars, backendVars, historyVars, boundVars>>
  BY DEF Dispatch
<1>2. BrokerInv /\ m \in Message /\ RouteOf[t] \in Queues /\ c \in Nat
  BY WorkerAssumption DEF IInv, TypeOK, BrokerInv, BrokerTypeOK, Message
<1>3. /\ BrokerInv' /\ msgs' = Append(msgs, m)
      /\ Copies' = Copies \cup {c} /\ Live(c)'
      /\ \A x \in Copies : Kept(x) => Kept(x)'
  BY <1>1, <1>2, PublishKeeps
<1>4. finished' = finished
  BY <1>1 DEF backendVars
<1>5. Advances /\ Kept(c)'
  BY <1>2, <1>3, <1>4, PublishingAdvances
<1>6. QED
  BY <1>1, <1>3, <1>5, OtherStep DEF slotVars, IInv, TypeOK

\* Creating the consumer group loses no copy.
LEMMA StartKeeps == ASSUME IInv, NEW w \in Workers, Start(w) PROVE IInv'
<1>1. /\ EnsureConsumerGroup(QueueOf[w]) /\ QueueOf[w] \in Queues
      /\ status' = [status EXCEPT ![w] = "up"]
      /\ UNCHANGED <<pc, holds, backendVars, historyVars, boundVars>>
  BY WorkerAssumption DEF Start
<1>2. /\ BrokerInv' /\ msgs' = msgs
      /\ \A x \in Copies : Kept(x) => Kept(x)'
  BY <1>1, EnsureConsumerGroupKeeps DEF IInv, TypeOK, BrokerInv
<1>3. Advances /\ \A x \in Copies' : x \in Copies \/ Kept(x)'
  BY <1>1, <1>2, KeepingAdvances DEF Copies, backendVars
<1>4. status' \in [Workers -> {"new", "up", "dead"}]
  BY <1>1 DEF IInv, TypeOK
<1>5. QED
  BY <1>1, <1>2, <1>3, <1>4, OtherStep

\* The delayed mover loses no copy.
LEMMA PromoteKeeps ==
    ASSUME IInv, NEW w \in Workers, NEW c \in Copies, Promote(w, c) PROVE IInv'
<1>1. /\ MoveReadyDelayed(QueueOf[w], c) /\ QueueOf[w] \in Queues /\ c \in Nat
      /\ UNCHANGED <<slotVars, backendVars, historyVars, boundVars>>
  BY WorkerAssumption, TaskOfType DEF Promote, IInv
<1>2. /\ BrokerInv' /\ msgs' = msgs
      /\ \A x \in Copies : Kept(x) => Kept(x)'
  BY <1>1, MoveReadyDelayedKeeps DEF IInv, TypeOK, BrokerInv
<1>3. Advances /\ \A x \in Copies' : x \in Copies \/ Kept(x)'
  BY <1>1, <1>2, KeepingAdvances DEF Copies, backendVars
<1>4. QED
  BY <1>1, <1>2, <1>3, OtherStep DEF slotVars, IInv, TypeOK

\* The pending entry of a trimmed copy goes; the copy counts as kept.
LEMMA ClaimTrimmedKeeps ==
    ASSUME IInv, NEW w \in Workers, NEW c \in Copies, ClaimTrimmed(w, c) PROVE IInv'
<1>1. /\ AutoClaimTrimmed(QueueOf[w], c) /\ QueueOf[w] \in Queues /\ c \in Nat
      /\ UNCHANGED <<slotVars, backendVars, historyVars, boundVars>>
  BY WorkerAssumption, TaskOfType DEF ClaimTrimmed, IInv
<1>2. /\ BrokerInv' /\ msgs' = msgs
      /\ \A x \in Copies : Kept(x) => Kept(x)'
  BY <1>1, AutoClaimTrimmedKeeps DEF IInv, TypeOK, BrokerInv
<1>3. Advances /\ \A x \in Copies' : x \in Copies \/ Kept(x)'
  BY <1>1, <1>2, KeepingAdvances DEF Copies, backendVars
<1>4. QED
  BY <1>1, <1>2, <1>3, OtherStep DEF slotVars, IInv, TypeOK

\* A free slot takes an envelope that the broker keeps for it.
LEMMA AcceptStep ==
    ASSUME IInv, NEW s \in Slots, NEW c \in Copies, Accept(s, c),
           BrokerInv', msgs' = msgs, \A x \in Copies : Kept(x) => Kept(x)'
    PROVE  IInv'
<1>1. /\ pc' = [pc EXCEPT ![s] = "waiting"] /\ holds' = [holds EXCEPT ![s] = c]
      /\ UNCHANGED <<status, backendVars, historyVars, boundVars>>
      /\ c \in Nat
  BY TaskOfType DEF Accept, IInv
<1>2. Advances /\ \A x \in Copies' : x \in Copies \/ Kept(x)'
  BY <1>1, KeepingAdvances DEF Copies, backendVars
<1>3. TypeOK'
  BY <1>1 DEF IInv, TypeOK, BrokerInv, backendVars, historyVars, boundVars
<1>4. pc'[s] = "waiting" /\ holds'[s] = c
  BY <1>1 DEF IInv, TypeOK
<1>5. SlotInv(s)'
  BY <1>2, <1>4 DEF SlotInv, Advances
<1>6. ASSUME NEW r \in Slots, r # s PROVE SlotInv(r)'
  BY <1>1, <1>2, <1>6, StillSlot DEF IInv, TypeOK
<1>7. NoLoss'
  BY <1>2, <1>3, AdvancingNoLoss DEF IInv
<1>8. QED
  BY <1>3, <1>5, <1>6, <1>7 DEF IInv, BrokerInv

\* A copy that is read becomes pending, in the hands of a slot.
LEMMA ReceiveKeeps == ASSUME IInv, NEW s \in Slots, Receive(s) PROVE IInv'
<1> PICK c : c = NextUnread(QueueOf[s[1]])
  OBVIOUS
<1>1. /\ ReadGroup(QueueOf[s[1]], s[1]) /\ Accept(s, c)
      /\ s[1] \in Workers /\ QueueOf[s[1]] \in Queues
  BY WorkerAssumption DEF Receive, Slots
<1>2. /\ BrokerInv' /\ msgs' = msgs /\ c \in Copies
      /\ \A x \in Copies : Kept(x) => Kept(x)'
  BY <1>1, ReadGroupKeeps DEF IInv, TypeOK, BrokerInv
<1>3. QED
  BY <1>1, <1>2, AcceptStep

\* A copy that is claimed stays pending, in the hands of another slot.
LEMMA ClaimKeeps ==
    ASSUME IInv, NEW s \in Slots, NEW c \in Copies, Claim(s, c) PROVE IInv'
<1>1. /\ AutoClaim(QueueOf[s[1]], s[1], c) /\ Accept(s, c)
      /\ s[1] \in Workers /\ QueueOf[s[1]] \in Queues /\ c \in Nat
  BY WorkerAssumption, TaskOfType DEF Claim, Slots, IInv
<1>2. /\ BrokerInv' /\ msgs' = msgs
      /\ \A x \in Copies : Kept(x) => Kept(x)'
  BY <1>1, AutoClaimKeeps DEF IInv, TypeOK, BrokerInv
<1>3. QED
  BY <1>1, <1>2, AcceptStep

\* A crash frees slots; what they worked on stays with the broker.
LEMMA CrashKeeps == ASSUME IInv, NEW w \in Workers, Crash(w) PROVE IInv'
<1>1. /\ status' = [status EXCEPT ![w] = "dead"]
      /\ pc' = [s \in Slots |-> IF s[1] = w THEN "free" ELSE pc[s]]
      /\ holds' = [s \in Slots |-> IF s[1] = w THEN 0 ELSE holds[s]]
      /\ crashes' = crashes + 1 /\ crashes < MaxCrashes
      /\ UNCHANGED <<brokerVars, backendVars, historyVars, faults>>
  BY DEF Crash
<1>2. /\ BrokerInv' /\ msgs' = msgs
      /\ \A x \in Copies : Kept(x) => Kept(x)'
  BY <1>1, BrokerStutter DEF IInv, TypeOK, BrokerInv
<1>3. Advances /\ \A x \in Copies' : x \in Copies \/ Kept(x)'
  BY <1>1, <1>2, KeepingAdvances DEF Copies, backendVars
<1>4. TypeOK'
  <2>1. status' \in [Workers -> {"new", "up", "dead"}]
    BY <1>1 DEF IInv, TypeOK
  <2>2. pc' \in [Slots -> {"free", "waiting"} \cup InHandler] /\ holds' \in [Slots -> Nat]
    BY <1>1 DEF IInv, TypeOK
  <2>3. crashes' \in 0 .. MaxCrashes
    BY <1>1, WorkerAssumption DEF IInv, TypeOK
  <2>4. QED
    BY <1>1, <1>2, <2>1, <2>2, <2>3
    DEF IInv, TypeOK, BrokerInv, backendVars, historyVars
<1>5. ASSUME NEW s \in Slots PROVE SlotInv(s)'
  <2>1. CASE s[1] = w
    BY <1>1, <2>1 DEF SlotInv
  <2>2. CASE s[1] # w
    BY <1>1, <1>3, <2>2, StillSlot DEF IInv
  <2>3. QED
    BY <2>1, <2>2
<1>6. NoLoss'
  BY <1>3, <1>4, AdvancingNoLoss DEF IInv
<1>7. QED
  BY <1>2, <1>4, <1>5, <1>6 DEF IInv, BrokerInv

--------------------------------------------------------------------------------
(* The theorems.                                                           *)

\* Nothing is dispatched at first, and every slot is free.
LEMMA InitIInv == Init => IInv
<1> SUFFICES ASSUME Init PROVE IInv
  OBVIOUS
<1>1. BrokerInv
  BY BrokerInitInv DEF Init
<1>2. TypeOK
  BY <1>1, WorkerAssumption DEF Init, TypeOK, BrokerInv
<1>3. \A s \in Slots : SlotInv(s)
  BY DEF Init, SlotInv
<1>4. NoLoss
  BY DEF Init, BrokerInit, NoLoss, Dispatched, Copies
<1>5. QED
  BY <1>1, <1>2, <1>3, <1>4 DEF IInv, BrokerInv

\* The invariant is inductive: every step, or none, keeps it.
LEMMA NextIInv == IInv /\ [Next]_vars => IInv'
<1> SUFFICES ASSUME IInv, [Next]_vars PROVE IInv'
  OBVIOUS
<1>1. CASE UNCHANGED vars
  <2>1. UNCHANGED <<brokerVars, slotVars, backendVars, historyVars, boundVars>>
    BY <1>1 DEF vars
  <2>2. /\ BrokerInv' /\ msgs' = msgs
        /\ \A x \in Copies : Kept(x) => Kept(x)'
    BY <2>1, BrokerStutter DEF IInv, TypeOK, BrokerInv
  <2>3. Advances /\ \A x \in Copies' : x \in Copies \/ Kept(x)'
    BY <2>1, <2>2, KeepingAdvances DEF Copies, backendVars
  <2>4. QED
    BY <2>1, <2>2, <2>3, OtherStep DEF slotVars, IInv, TypeOK
<1>2. CASE Next
  BY <1>2, DispatchKeeps, StartKeeps, CrashKeeps, PromoteKeeps, ClaimTrimmedKeeps,
     ClaimKeeps, ReceiveKeeps, HandleKeeps DEF Next
<1>3. QED
  BY <1>1, <1>2

\* The inductive invariant holds in every reachable state.
THEOREM Inductive == Spec => []IInv
BY InitIInv, NextIInv, PTL DEF Spec

\* Every variable keeps the shape its key, field or local variable has in the code.
THEOREM TypeCorrect == Spec => []TypeOK
<1>1. IInv => TypeOK
  BY DEF IInv
<1>2. QED
  BY <1>1, Inductive, PTL

\* An at-least-once task is never lost, but by trimming: once dispatched, its outcome
\* is stored or the broker keeps a copy of it, whatever crashes and faults interrupt
\* _process_envelope() and whichever queues the workers and the tasks use.
THEOREM NeverLost == Spec => []NoLoss
<1>1. IInv => NoLoss
  BY DEF IInv
<1>2. QED
  BY <1>1, Inductive, PTL

--------------------------------------------------------------------------------
(* The refinement: the workers and the broker implement AtLeastOnce, when the   *)
(* stream is not trimmed, for every number of crashes and faults, and entries   *)
(* claimed from workers that are alive.                                         *)


\* Without MAXLEN every copy is in the sorted set or in the stream of a queue.
Untrimmed == \A c \in Copies : \E q \in Queues : c \in delayed[q] \/ InStream(q, c)

\* Where a slot has, or may come to have, an outcome to store.
Storing == {"store_success", "ack", "store_failure"}

\* The history of the abstract specification is that of the copies: what has run
\* was published, what is concluded was dispatched, and a slot that stores the
\* outcome of a known task has run it.
HistoryInv ==
    /\ ran \subseteq Copies
    /\ \A t \in finished : Dispatched(t)
    /\ \A s \in Slots : pc[s] \in Storing =>
          holds[s] \in ran \/ TaskOf(holds[s]) \in Unregistered

RInv == IInv /\ Untrimmed /\ HistoryInv

\* What a step does to the history: nothing, one copy more, one copy run, or one
\* outcome stored.
Effect ==
    \/ UNCHANGED <<msgs, finished, ran>>
    \/ UNCHANGED <<finished, ran>> /\ \E m \in Message : msgs' = Append(msgs, m)
    \/ /\ UNCHANGED <<msgs, finished>>
       /\ \E s \in Slots : pc[s] = "running" /\ ran' = ran \cup {holds[s]}
    \/ /\ UNCHANGED <<msgs, ran>>
       /\ \E s \in Slots : /\ pc[s] \in {"store_success", "store_failure"}
                           /\ finished' = finished \cup {TaskOf(holds[s])}

\* What a step does to the slots that store.
SlotsKnow ==
    \A s \in Slots : pc'[s] \in Storing =>
        /\ pc[s] # "free" /\ holds'[s] = holds[s]
        /\ \/ pc[s] \in Storing
           \/ holds[s] \in ran'
           \/ TaskOf(holds[s]) \in Unregistered

\* What a step does to the keys that hold the messages.
Moves ==
    \/ UNCHANGED <<msgs, delayed, stream>>
    \/ \E m \in Message, q \in Queues, later \in BOOLEAN : Publish(m, q, later)
    \/ \E q \in Queues, c \in Nat : MoveReadyDelayed(q, c)

--------------------------------------------------------------------------------
(* What each step does.                                                    *)

\* Only the slot that makes a step changes its place, and it keeps its copy.
LEMMA GotoKnows ==
    ASSUME TypeOK, NEW s \in Slots, pc[s] # "free", NEW p, Goto(s, p),
           p \in Storing => \/ pc[s] \in Storing
                            \/ holds[s] \in ran'
                            \/ TaskOf(holds[s]) \in Unregistered
    PROVE  SlotsKnow
<1>1. /\ pc' = [pc EXCEPT ![s] = p]
      /\ holds' = [holds EXCEPT ![s] = IF p = "free" THEN 0 ELSE @]
      /\ DOMAIN pc = Slots /\ DOMAIN holds = Slots
  BY DEF Goto, TypeOK
<1>2. "free" \notin Storing
  BY DEF Storing
<1>3. SUFFICES ASSUME NEW r \in Slots, pc'[r] \in Storing
               PROVE  /\ pc[r] # "free" /\ holds'[r] = holds[r]
                      /\ \/ pc[r] \in Storing
                         \/ holds[r] \in ran'
                         \/ TaskOf(holds[r]) \in Unregistered
  BY DEF SlotsKnow
<1>4. CASE r = s
  BY <1>1, <1>2, <1>3, <1>4
<1>5. CASE r # s
  BY <1>1, <1>2, <1>3, <1>5
<1> QED
  BY <1>4, <1>5

\* A call that raises, or returns, takes its slot somewhere.
LEMMA CallGoes ==
    ASSUME NEW s, NEW p, NEW P, Return(s, p, P) \/ Raise(s, P)
    PROVE  \E r \in P \cup {p} : Goto(s, r)
BY DEF Return, Raise

\* ... and knows there what SlotsKnow asks for.
LEMMA CallKnows ==
    ASSUME TypeOK, NEW s \in Slots, pc[s] # "free", NEW p, NEW P,
           Return(s, p, P) \/ Raise(s, P),
           \A r \in P \cup {p} : r \in Storing => pc[s] \in Storing
    PROVE  SlotsKnow
<1>1. PICK r \in P \cup {p} : Goto(s, r)
  BY CallGoes
<1>2. r \in Storing => pc[s] \in Storing
  OBVIOUS
<1> QED
  BY <1>1, <1>2, GotoKnows

\* Steps of _process_envelope() that store no outcome and publish no attempt.
LEMMA QuietSteps ==
    ASSUME IInv, NEW s \in Slots,
           \/ Acquire(s) \/ MarkStarted(s) \/ EarlyAck(s) \/ RetryState(s)
           \/ AckDone(s) \/ RetryAck(s) \/ DeadLetter(s) \/ Finalize(s)
    PROVE  Effect /\ SlotsKnow /\ Moves
<1>1. TypeOK /\ Escape = {"free"}
  BY DEF IInv, Escape
<1>2. CASE Acquire(s)
  <2> DEFINE p == IF TaskOf(holds[s]) \in Unregistered THEN "store_failure" ELSE "starting"
  <2>1. /\ pc[s] = "waiting" /\ Goto(s, p)
        /\ UNCHANGED <<brokerVars, backendVars, historyVars>>
    BY <1>2 DEF Acquire
  <2>2. p \in Storing => TaskOf(holds[s]) \in Unregistered
    BY DEF Storing
  <2> HIDE DEF p
  <2>3. SlotsKnow
    BY <1>1, <2>1, <2>2, GotoKnows
  <2> QED
    BY <2>1, <2>3 DEF Effect, Moves, brokerVars, backendVars, historyVars
<1>3. CASE MarkStarted(s) \/ RetryState(s)
  <2>1. PICK p \in {"early_ack", "running", "republish"} :
            /\ pc[s] # "free"
            /\ Return(s, p, Escape) \/ Raise(s, Escape)
    BY <1>3 DEF MarkStarted, RetryState, BackendCall
  <2>2. UNCHANGED <<brokerVars, historyVars, finished>>
    BY <1>3 DEF MarkStarted, RetryState, BackendCall, SetState, backendVars
  <2>3. SlotsKnow
    BY <1>1, <2>1, CallKnows DEF Storing
  <2> QED
    BY <2>2, <2>3 DEF Effect, Moves, brokerVars, historyVars
<1>4. CASE EarlyAck(s) \/ RetryAck(s) \/ AckDone(s) \/ DeadLetter(s) \/ Finalize(s)
  <2>1. UNCHANGED <<msgs, delayed, stream, backendVars, historyVars>>
    BY <1>4 DEF EarlyAck, RetryAck, AckDone, DeadLetter, Finalize, BrokerCall,
        Ack, NackDrop, MoveToDlq, brokerVars
  <2>2. SlotsKnow
    <3>1. CASE EarlyAck(s) \/ RetryAck(s) \/ Finalize(s) \/ DeadLetter(s)
      <4>1. PICK p \in {"running", "free"}, e \in {"free", "finalize"} :
                /\ pc[s] # "free"
                /\ Return(s, p, {e}) \/ Raise(s, {e})
        BY <1>1, <3>1 DEF EarlyAck, RetryAck, Finalize, DeadLetter, BrokerCall
      <4> QED
        BY <1>1, <4>1, CallKnows DEF Storing
    <3>2. CASE AckDone(s)
      <4>1. /\ pc[s] = "ack"
            /\ Return(s, "free", Caught(holds[s])) \/ Raise(s, Caught(holds[s]))
        BY <3>2 DEF AckDone, BrokerCall
      <4>2. pc[s] # "free" /\ pc[s] \in Storing
        BY <4>1 DEF Storing
      <4> QED
        BY <1>1, <4>1, <4>2, CallKnows
    <3> QED
      BY <1>4, <3>1, <3>2
  <2> QED
    BY <2>1, <2>2 DEF Effect, Moves, backendVars, historyVars
<1> QED
  BY <1>2, <1>3, <1>4

\* The function runs, and its slot remembers that it did.
LEMMA RunDoes == ASSUME IInv, NEW s \in Slots, Run(s) PROVE Effect /\ SlotsKnow /\ Moves
<1>1. /\ pc[s] = "running" /\ UNCHANGED <<brokerVars, backendVars>>
      /\ ran' = ran \cup {holds[s]}
  BY DEF Run
<1>2. PICK p : Goto(s, p)
  BY DEF Run
<1>3. TypeOK /\ holds[s] \in ran'
  BY <1>1 DEF IInv
<1>4. SlotsKnow
  BY <1>1, <1>2, <1>3, GotoKnows
<1> QED
  BY <1>1, <1>4 DEF Effect, Moves, brokerVars, backendVars

\* An outcome is stored, or the call does not reach the backend.
LEMMA StoreDoes ==
    ASSUME IInv, NEW s \in Slots, StoreSuccess(s) \/ StoreFailure(s)
    PROVE  Effect /\ SlotsKnow /\ Moves
<1> DEFINE h == holds[s]
<1>1. /\ pc[s] \in {"store_success", "store_failure"}
      /\ UNCHANGED <<brokerVars, historyVars>>
      /\ finished' = finished \/ finished' = finished \cup {TaskOf(h)}
  BY DEF StoreSuccess, StoreFailure, BackendCall, StoreResult, backendVars
<1>2. \E p, P : Return(s, p, P) \/ Raise(s, P)
  BY DEF StoreSuccess, StoreFailure, BackendCall
<1>3. TypeOK /\ pc[s] # "free" /\ pc[s] \in Storing
  BY <1>1 DEF IInv, Storing
<1>4. SlotsKnow
  BY <1>2, <1>3, CallKnows
<1> QED
  BY <1>1, <1>4 DEF Effect, Moves, brokerVars, historyVars

\* The next attempt is one copy more.
LEMMA RepublishDoes ==
    ASSUME IInv, NEW s \in Slots, Republish(s) PROVE Effect /\ SlotsKnow /\ Moves
<1> PICK m : m = [msgs[holds[s]] EXCEPT !.retries = @ + 1]
  OBVIOUS
<1>1. /\ pc[s] = "republish" /\ UNCHANGED <<backendVars, historyVars>>
      /\ (\E later \in BOOLEAN : Publish(m, DefaultQueue, later)) \/ UNCHANGED brokerVars
  BY DEF Republish, BrokerCall
<1>2. PICK p \in {"retry_ack", "free"} : Return(s, p, {"free"}) \/ Raise(s, {"free"})
  BY DEF Republish, BrokerCall, Escape
<1>3. TypeOK /\ DefaultQueue \in Queues /\ m \in Message
  <2>1. msgs \in Seq(Message) /\ holds[s] \in Copies
    BY <1>1 DEF IInv, TypeOK, BrokerTypeOK, SlotInv
  <2>2. msgs[holds[s]] \in Message
    BY <2>1 DEF Copies
  <2> QED
    BY <2>2, BrokerAssumption DEF Message, IInv
<1>4. SlotsKnow
  BY <1>1, <1>2, <1>3, CallKnows DEF Storing
<1>5. CASE UNCHANGED brokerVars
  BY <1>1, <1>4, <1>5 DEF Effect, Moves, brokerVars, backendVars, historyVars
<1>6. CASE \E later \in BOOLEAN : Publish(m, DefaultQueue, later)
  <2>1. msgs' = Append(msgs, m)
    BY <1>6 DEF Publish
  <2> QED
    BY <1>1, <1>3, <1>4, <1>6, <2>1 DEF Effect, Moves, backendVars, historyVars
<1> QED
  BY <1>1, <1>5, <1>6

\* The client, the consume loop, the delayed mover and crashes store nothing, and
\* no slot comes to store by them.
LEMMA OtherDoes ==
    ASSUME IInv,
           \/ \E t \in Tasks : Dispatch(t)
           \/ \E w \in Workers : Start(w) \/ Crash(w)
           \/ \E w \in Workers, c \in Copies : Promote(w, c) \/ ClaimTrimmed(w, c)
           \/ \E s \in Slots, c \in Copies : Claim(s, c)
           \/ \E s \in Slots : Receive(s)
           \/ UNCHANGED vars
    PROVE  Effect /\ SlotsKnow /\ Moves
<1>1. TypeOK /\ "waiting" \notin Storing /\ "free" \notin Storing
  BY DEF IInv, Storing
<1>2. ASSUME UNCHANGED <<pc, holds>> PROVE SlotsKnow
  BY <1>1, <1>2 DEF SlotsKnow
<1>3. ASSUME NEW t \in Tasks, Dispatch(t) PROVE Effect /\ SlotsKnow /\ Moves
  <2> PICK m : m = [task |-> t, retries |-> 0]
    OBVIOUS
  <2>1. /\ Publish(m, RouteOf[t], FALSE)
        /\ UNCHANGED <<slotVars, backendVars, historyVars>>
    BY <1>3 DEF Dispatch
  <2>2. m \in Message /\ RouteOf[t] \in Queues /\ msgs' = Append(msgs, m)
    BY <2>1, WorkerAssumption DEF Message, Publish
  <2> QED
    BY <1>2, <2>1, <2>2 DEF Effect, Moves, slotVars, backendVars, historyVars
<1>4. ASSUME NEW w \in Workers, Start(w) PROVE Effect /\ SlotsKnow /\ Moves
  BY <1>2, <1>4 DEF Start, EnsureConsumerGroup, Effect, Moves, backendVars, historyVars
<1>5. ASSUME NEW w \in Workers, Crash(w) PROVE Effect /\ SlotsKnow /\ Moves
  <2>1. /\ pc' = [s \in Slots |-> IF s[1] = w THEN "free" ELSE pc[s]]
        /\ holds' = [s \in Slots |-> IF s[1] = w THEN 0 ELSE holds[s]]
        /\ UNCHANGED <<brokerVars, backendVars, historyVars>>
    BY <1>5 DEF Crash
  <2>2. SlotsKnow
    BY <1>1, <2>1 DEF SlotsKnow
  <2> QED
    BY <2>1, <2>2 DEF Effect, Moves, brokerVars, backendVars, historyVars
<1>6. ASSUME NEW w \in Workers, NEW c \in Copies, Promote(w, c)
      PROVE  Effect /\ SlotsKnow /\ Moves
  <2>1. QueueOf[w] \in Queues /\ c \in Nat
    BY <1>1, WorkerAssumption, TaskOfType
  <2>2. /\ MoveReadyDelayed(QueueOf[w], c) /\ msgs' = msgs
        /\ UNCHANGED <<slotVars, backendVars, historyVars>>
    BY <1>6 DEF Promote, MoveReadyDelayed
  <2> QED
    BY <1>2, <2>1, <2>2 DEF Effect, Moves, slotVars, backendVars, historyVars
<1>7. ASSUME NEW w \in Workers, NEW c \in Copies, ClaimTrimmed(w, c)
      PROVE  Effect /\ SlotsKnow /\ Moves
  BY <1>2, <1>7 DEF ClaimTrimmed, AutoClaimTrimmed, Effect, Moves, slotVars, backendVars,
     historyVars
<1>8. ASSUME NEW s \in Slots, NEW c, Accept(s, c), UNCHANGED <<msgs, delayed, stream>>
      PROVE  Effect /\ SlotsKnow /\ Moves
  <2>1. pc' = [pc EXCEPT ![s] = "waiting"] /\ holds' = [holds EXCEPT ![s] = c]
    BY <1>8 DEF Accept
  <2>2. SlotsKnow
    BY <1>1, <2>1 DEF SlotsKnow, TypeOK
  <2> QED
    BY <1>8, <2>2 DEF Accept, Effect, Moves, backendVars, historyVars
<1>9. ASSUME NEW s \in Slots, NEW c \in Copies, Claim(s, c)
      PROVE  Effect /\ SlotsKnow /\ Moves
  BY <1>8, <1>9 DEF Claim, AutoClaim
<1>10. ASSUME NEW s \in Slots, Receive(s) PROVE Effect /\ SlotsKnow /\ Moves
  BY <1>8, <1>10 DEF Receive, ReadGroup
<1>11. CASE UNCHANGED vars
  BY <1>2, <1>11 DEF vars, Effect, Moves, slotVars, brokerVars, backendVars, historyVars
<1> QED
  BY <1>3, <1>4, <1>5, <1>6, <1>7, <1>9, <1>10, <1>11

\* Every step, or none.
LEMMA NextDoes == ASSUME IInv, [Next]_vars PROVE Effect /\ SlotsKnow /\ Moves
BY QuietSteps, RunDoes, StoreDoes, RepublishDoes, OtherDoes DEF Next, Handle

--------------------------------------------------------------------------------
(* The invariant.                                                          *)

\* XADD without MAXLEN drops nothing.
LEMMA XAddHolds ==
    ASSUME MaxStreamLength = 0, BrokerTypeOK, NEW q \in Queues, NEW c \in Nat,
           XAdd(q, c) \/ XAddTrim(q, c)
    PROVE  InStream(q, c)' /\ \A p \in Queues : \A x : InStream(p, x) => InStream(p, x)'
<1>1. /\ stream \in [Queues -> Seq(Nat)]
      /\ stream' = [stream EXCEPT ![q] = Append(@, c)]
  BY DEF XAdd, XAddTrim, BrokerTypeOK
<1>2. stream[q] \in Seq(Nat) /\ stream'[q] = Append(stream[q], c)
  BY <1>1
<1>3. InStream(q, c)'
  <2>1. /\ Len(stream[q]) + 1 \in DOMAIN stream'[q]
        /\ stream'[q][Len(stream[q]) + 1] = c
    BY <1>2
  <2> QED
    BY <2>1 DEF InStream
<1>4. ASSUME NEW p \in Queues, NEW x, InStream(p, x) PROVE InStream(p, x)'
  <2>1. PICK i \in DOMAIN stream[p] : stream[p][i] = x
    BY <1>4 DEF InStream
  <2>2. CASE p # q
    BY <1>1, <2>1, <2>2 DEF InStream
  <2>3. CASE p = q
    <3>1. i \in DOMAIN stream'[q] /\ stream'[q][i] = x
      BY <1>2, <2>1, <2>3
    <3> QED
      BY <2>3, <3>1 DEF InStream
  <2> QED
    BY <2>2, <2>3
<1> QED
  BY <1>3, <1>4

\* Publishing adds a copy to a key, the mover takes one from the sorted set to the
\* stream, and no other step removes one.
LEMMA UntrimmedKept ==
    ASSUME MaxStreamLength = 0, BrokerTypeOK, Untrimmed, Moves
    PROVE  Untrimmed'
<1>1. CASE UNCHANGED <<msgs, delayed, stream>>
  BY <1>1 DEF Untrimmed, Copies, InStream
<1>2. CASE \E m \in Message, q \in Queues, later \in BOOLEAN : Publish(m, q, later)
  <2>1. PICK m \in Message, q \in Queues, later \in BOOLEAN : Publish(m, q, later)
    BY <1>2
  <2> PICK c : c = Len(msgs) + 1
    OBVIOUS
  <2>2. /\ c \in Nat /\ msgs \in Seq(Message) /\ msgs' = Append(msgs, m)
        /\ delayed \in [Queues -> SUBSET Nat]
    BY <2>1 DEF Publish, BrokerTypeOK
  <2>3. Copies' = Copies \cup {c}
    BY <2>2 DEF Copies
  <2>4. CASE delayed' = [delayed EXCEPT ![q] = @ \cup {c}] /\ UNCHANGED stream
    <3>1. c \in delayed'[q] /\ \A p \in Queues : delayed[p] \subseteq delayed'[p]
      BY <2>2, <2>4
    <3> QED
      BY <2>3, <2>4, <3>1 DEF Untrimmed, InStream
  <2>5. CASE (XAdd(q, c) \/ XAddTrim(q, c)) /\ UNCHANGED delayed
    <3>1. InStream(q, c)' /\ \A p \in Queues : \A x : InStream(p, x) => InStream(p, x)'
      BY <2>2, <2>5, XAddHolds
    <3> QED
      BY <2>3, <2>5, <3>1 DEF Untrimmed
  <2> QED
    BY <2>1, <2>4, <2>5 DEF Publish
<1>3. CASE \E q \in Queues, c \in Nat : MoveReadyDelayed(q, c)
  <2>1. PICK q \in Queues, c \in Nat : MoveReadyDelayed(q, c)
    BY <1>3
  <2>2. InStream(q, c)' /\ \A p \in Queues : \A x : InStream(p, x) => InStream(p, x)'
    BY <2>1, XAddHolds DEF MoveReadyDelayed
  <2>3. /\ Copies' = Copies
        /\ \A p \in Queues : \A x \in delayed[p] : x = c \/ x \in delayed'[p]
    BY <2>1 DEF MoveReadyDelayed, Copies, BrokerTypeOK
  <2> QED
    BY <2>2, <2>3 DEF Untrimmed
<1> QED
  BY <1>1, <1>2, <1>3 DEF Moves

\* What a copy is a copy of does not change.
LEMMA CopiesStay ==
    ASSUME TypeOK, Effect
    PROVE  /\ Copies \subseteq Copies'
           /\ \A c \in Copies : TaskOf(c)' = TaskOf(c)
           /\ \A t : Dispatched(t) => Dispatched(t)'
<1>1. CASE msgs' = msgs
  BY <1>1 DEF Copies, TaskOf, Dispatched
<1>2. CASE \E m \in Message : msgs' = Append(msgs, m)
  <2>1. PICK m \in Message : msgs' = Append(msgs, m)
    BY <1>2
  <2>2. msgs \in Seq(Message)
    BY DEF TypeOK, BrokerTypeOK
  <2>3. Copies \subseteq Copies' /\ \A c \in Copies : msgs'[c] = msgs[c]
    BY <2>1, <2>2 DEF Copies
  <2> QED
    BY <2>3 DEF TaskOf, Dispatched
<1> QED
  BY <1>1, <1>2 DEF Effect

\* A step keeps the history.
LEMMA HistoryKept ==
    ASSUME IInv, HistoryInv, Effect, SlotsKnow
    PROVE  HistoryInv'
<1>1. /\ Copies \subseteq Copies'
      /\ \A c \in Copies : TaskOf(c)' = TaskOf(c)
      /\ \A t : Dispatched(t) => Dispatched(t)'
  BY CopiesStay DEF IInv
<1>2. \A s \in Slots : pc[s] # "free" => holds[s] \in Copies
  BY DEF IInv, SlotInv
<1>3. ran' \subseteq Copies'
  BY <1>1, <1>2 DEF Effect, HistoryInv
<1>4. \A t \in finished' : Dispatched(t)'
  BY <1>1, <1>2 DEF Effect, HistoryInv, Dispatched
<1>5. ran \subseteq ran'
  BY DEF Effect
<1>6. ASSUME NEW s \in Slots, pc'[s] \in Storing
      PROVE  holds'[s] \in ran' \/ TaskOf(holds[s])' \in Unregistered
  <2>1. /\ pc[s] # "free" /\ holds'[s] = holds[s]
        /\ \/ pc[s] \in Storing \/ holds[s] \in ran' \/ TaskOf(holds[s]) \in Unregistered
    BY <1>6 DEF SlotsKnow
  <2>2. holds[s] \in ran' \/ TaskOf(holds[s]) \in Unregistered
    BY <1>5, <2>1 DEF HistoryInv
  <2>3. TaskOf(holds[s])' = TaskOf(holds[s])
    BY <1>1, <1>2, <2>1 DEF TaskOf
  <2> QED
    BY <2>1, <2>2, <2>3
<1> QED
  BY <1>3, <1>4, <1>6 DEF HistoryInv

LEMMA InitRInv == Init => RInv
<1> SUFFICES ASSUME Init PROVE RInv
  OBVIOUS
<1>1. Copies = {}
  BY DEF Init, BrokerInit, Copies
<1>2. HistoryInv
  BY DEF Init, HistoryInv, Storing
<1> QED
  BY <1>1, <1>2, InitIInv DEF RInv, Untrimmed

LEMMA NextRInv == MaxStreamLength = 0 /\ RInv /\ [Next]_vars => RInv'
<1> SUFFICES ASSUME MaxStreamLength = 0, RInv, [Next]_vars PROVE RInv'
  OBVIOUS
<1>1. IInv /\ IInv' /\ Effect /\ SlotsKnow /\ Moves
  BY NextIInv, NextDoes DEF RInv
<1>2. BrokerTypeOK
  BY <1>1 DEF IInv, TypeOK
<1> QED
  BY <1>1, <1>2, UntrimmedKept, HistoryKept DEF RInv

--------------------------------------------------------------------------------
(* The refinement.                                                         *)

\* The mapped variables of AtLeastOnce.
OpenTasks == {t \in Promised \ finished : \E c \in Copies : TaskOf(c) = t /\ Live(c)}
Begun == {TaskOf(c) : c \in ran} \cap Promised
Concluded == finished \cap Promised

\* A task is open while it was dispatched and has no outcome: by NoLoss the broker
\* can still deliver it.
OpenIsUnfinished == OpenTasks = {t \in Promised \ finished : Dispatched(t)}

LEMMA OpenNow == RInv => OpenIsUnfinished
<1> SUFFICES ASSUME RInv PROVE OpenIsUnfinished
  OBVIOUS
<1>1. \A c \in Copies : Kept(c) => Live(c)
  BY DEF RInv, Untrimmed, Kept, Trimmed
<1>2. NoLoss
  BY DEF RInv, IInv
<1> QED
  BY <1>1, <1>2 DEF OpenIsUnfinished, OpenTasks, NoLoss, Dispatched, Promised

LEMMA OpenNext == RInv' => OpenIsUnfinished'
BY OpenNow, PTL

LEMMA InitMaps == Init => ALOSpec!Init
BY DEF Init, BrokerInit, Copies, ALOSpec!Init

\* A step that publishes a copy accepts its task, or another copy of it.
LEMMA PublishMaps ==
    ASSUME RInv, RInv', UNCHANGED <<finished, ran>>,
           NEW m \in Message, msgs' = Append(msgs, m)
    PROVE  \/ UNCHANGED <<OpenTasks, Begun, Concluded>>
           \/ \E t \in Promised : /\ t \notin OpenTasks \cup Concluded
                                  /\ OpenTasks' = OpenTasks \cup {t}
                                  /\ UNCHANGED <<Begun, Concluded>>
<1> PICK t : t = m.task
  OBVIOUS
<1> PICK n : n = Len(msgs) + 1
  OBVIOUS
<1>1. /\ OpenTasks = {u \in Promised \ finished : Dispatched(u)}
      /\ OpenTasks' = {u \in Promised \ finished : Dispatched(u)'}
  BY OpenNow, OpenNext DEF OpenIsUnfinished, Promised
<1>2. msgs \in Seq(Message) /\ ran \subseteq Copies
  <2>1. TypeOK /\ HistoryInv
    BY DEF RInv, IInv
  <2> QED
    BY <2>1 DEF HistoryInv, TypeOK, BrokerTypeOK
<1>3. /\ Copies' = Copies \cup {n}
      /\ \A c \in Copies : TaskOf(c)' = TaskOf(c)
      /\ TaskOf(n)' = t
  <2>1. /\ \A c \in Copies : msgs'[c] = msgs[c]
        /\ msgs'[n] = m
    BY <1>2 DEF Copies
  <2>2. Copies' = Copies \cup {n}
    BY <1>2 DEF Copies
  <2> QED
    BY <2>1, <2>2 DEF TaskOf
<1>4. \A u : Dispatched(u)' <=> (Dispatched(u) \/ u = t)
  BY <1>3 DEF Dispatched
<1>5. UNCHANGED <<Begun, Concluded>>
  BY <1>2, <1>3 DEF Begun, Concluded, Promised
<1>6. CASE t \in Promised /\ ~Dispatched(t)
  <2>1. t \notin finished
    BY <1>6 DEF RInv, HistoryInv
  <2> QED
    BY <1>1, <1>4, <1>5, <1>6, <2>1 DEF Concluded
<1>7. CASE ~(t \in Promised /\ ~Dispatched(t))
  BY <1>1, <1>4, <1>5, <1>7
<1> QED
  BY <1>6, <1>7

\* A step that runs a copy begins its task.
LEMMA RunMaps ==
    ASSUME RInv, RInv', UNCHANGED <<msgs, finished>>,
           NEW s \in Slots, pc[s] = "running", ran' = ran \cup {holds[s]}
    PROVE  \/ UNCHANGED <<OpenTasks, Begun, Concluded>>
           \/ \E t \in Promised : /\ t \in OpenTasks \cup Concluded
                                  /\ Begun' = Begun \cup {t}
                                  /\ UNCHANGED <<OpenTasks, Concluded>>
<1> PICK t : t = TaskOf(holds[s])
  OBVIOUS
<1>1. Dispatched(t)
  BY DEF RInv, IInv, SlotInv, Dispatched
<1>2. /\ OpenTasks = {u \in Promised \ finished : Dispatched(u)}
      /\ OpenTasks' = {u \in Promised \ finished : Dispatched(u)'}
  BY OpenNow, OpenNext DEF OpenIsUnfinished, Promised
<1>3. /\ \A u : Dispatched(u)' <=> Dispatched(u)
      /\ \A c : TaskOf(c)' = TaskOf(c)
  BY DEF Dispatched, Copies, TaskOf
<1>4. UNCHANGED <<OpenTasks, Concluded>>
  BY <1>2, <1>3 DEF Concluded, Promised
<1>5. Begun' = Begun \cup ({t} \cap Promised)
  BY <1>3 DEF Begun, Promised
<1>6. CASE t \in Promised
  BY <1>1, <1>2, <1>4, <1>5, <1>6 DEF Concluded
<1>7. CASE t \notin Promised
  BY <1>4, <1>5, <1>7
<1> QED
  BY <1>6, <1>7

\* A step that stores an outcome concludes its task, or stores it once more.
LEMMA StoreMaps ==
    ASSUME RInv, RInv', UNCHANGED <<msgs, ran>>,
           NEW s \in Slots, pc[s] \in {"store_success", "store_failure"},
           finished' = finished \cup {TaskOf(holds[s])}
    PROVE  \/ UNCHANGED <<OpenTasks, Begun, Concluded>>
           \/ \E t \in Promised : /\ t \in OpenTasks
                                  /\ t \in Begun \cup Unregistered
                                  /\ OpenTasks' = OpenTasks \ {t}
                                  /\ Concluded' = Concluded \cup {t}
                                  /\ UNCHANGED Begun
<1> PICK t : t = TaskOf(holds[s])
  OBVIOUS
<1>1. Dispatched(t)
  BY DEF RInv, IInv, SlotInv, Dispatched
<1>2. /\ OpenTasks = {u \in Promised \ finished : Dispatched(u)}
      /\ OpenTasks' = {u \in Promised \ finished' : Dispatched(u)'}
  BY OpenNow, OpenNext DEF OpenIsUnfinished, Promised
<1>3. /\ \A u : Dispatched(u)' <=> Dispatched(u)
      /\ \A c : TaskOf(c)' = TaskOf(c)
  BY DEF Dispatched, Copies, TaskOf
<1>4. UNCHANGED Begun
  BY <1>3 DEF Begun, Promised
<1>5. t \in Promised => t \in Begun \cup Unregistered
  <2>1. holds[s] \in ran \/ t \in Unregistered
    BY DEF RInv, HistoryInv, Storing
  <2> QED
    BY <2>1 DEF Begun
<1>6. OpenTasks' = OpenTasks \ {t} /\ Concluded' = Concluded \cup ({t} \cap Promised)
  BY <1>2, <1>3 DEF Concluded, Promised
<1>7. CASE t \in Promised \ finished
  BY <1>1, <1>2, <1>4, <1>5, <1>6, <1>7
<1>8. CASE t \notin Promised \ finished
  BY <1>2, <1>4, <1>6, <1>8 DEF Concluded
<1> QED
  BY <1>7, <1>8

\* Every step of the workers and the broker is one of AtLeastOnce, or a stutter.
LEMMA StepMaps ==
    ASSUME RInv, RInv', [Next]_vars
    PROVE  [ALOSpec!Next]_ALOSpec!avars
<1>1. Effect
  BY NextDoes DEF RInv
<1>2. SUFFICES \/ UNCHANGED <<OpenTasks, Begun, Concluded>>
               \/ \E t \in Promised : /\ t \notin OpenTasks \cup Concluded
                                      /\ OpenTasks' = OpenTasks \cup {t}
                                      /\ UNCHANGED <<Begun, Concluded>>
               \/ \E t \in Promised : /\ t \in OpenTasks \cup Concluded
                                      /\ Begun' = Begun \cup {t}
                                      /\ UNCHANGED <<OpenTasks, Concluded>>
               \/ \E t \in Promised : /\ t \in OpenTasks
                                      /\ t \in Begun \cup Unregistered
                                      /\ OpenTasks' = OpenTasks \ {t}
                                      /\ Concluded' = Concluded \cup {t}
                                      /\ UNCHANGED Begun
  BY DEF ALOSpec!Next, ALOSpec!Accept, ALOSpec!Begin, ALOSpec!Conclude, ALOSpec!avars,
         OpenTasks, Begun, Concluded
<1>3. CASE UNCHANGED <<msgs, finished, ran>>
  <2>1. \A u : Dispatched(u)' <=> Dispatched(u)
    BY <1>3 DEF Dispatched, Copies, TaskOf
  <2>2. /\ OpenTasks = {u \in Promised \ finished : Dispatched(u)}
        /\ OpenTasks' = {u \in Promised \ finished : Dispatched(u)'}
    BY <1>3, OpenNow, OpenNext DEF OpenIsUnfinished, Promised
  <2>3. UNCHANGED <<Begun, Concluded>>
    BY <1>3 DEF Begun, Concluded, TaskOf, Promised
  <2> QED
    BY <2>1, <2>2, <2>3
<1>4. CASE UNCHANGED <<finished, ran>> /\ \E m \in Message : msgs' = Append(msgs, m)
  BY <1>4, PublishMaps
<1>5. CASE /\ UNCHANGED <<msgs, finished>>
           /\ \E s \in Slots : pc[s] = "running" /\ ran' = ran \cup {holds[s]}
  BY <1>5, RunMaps
<1>6. CASE /\ UNCHANGED <<msgs, ran>>
           /\ \E s \in Slots : /\ pc[s] \in {"store_success", "store_failure"}
                               /\ finished' = finished \cup {TaskOf(holds[s])}
  BY <1>6, StoreMaps
<1> QED
  BY <1>1, <1>3, <1>4, <1>5, <1>6 DEF Effect

\* As long as MAXLEN does not trim the stream, the workers keep the promise of
\* AtLeastOnce: nothing accepted is dropped, nothing known is concluded without a
\* run, whatever crashes, lost replies and claims of live entries interrupt.
THEOREM Implements ==
    ASSUME MaxStreamLength = 0
    PROVE  Spec => KeepsPromise
<1>1. Init => RInv /\ ALOSpec!Init
  BY InitRInv, InitMaps
<1>2. RInv /\ [Next]_vars => RInv'
  BY NextRInv
<1>3. RInv /\ RInv' /\ [Next]_vars => [ALOSpec!Next]_ALOSpec!avars
  BY StepMaps
<1> QED
  BY <1>1, <1>2, <1>3, PTL DEF Spec, KeepsPromise, ALOSpec!Spec

--------------------------------------------------------------------------------
(***************************************************************************)
(* The delivery modes, the chains of retries, the dead letters and the     *)
(* final states: under the broker's at-least-once mode, workers on the     *)
(* default queue, and entries that are not claimed while a slot works on   *)
(* them.  Each of the three is needed: the runs own_queue and live_claim   *)
(* show it for two of them, and an at-most-once broker never acknowledges. *)
(***************************************************************************)

OrdinaryUse ==
    /\ BrokerMode = ALO
    /\ ~ClaimLive
    /\ \A w \in Workers : QueueOf[w] = DefaultQueue

DeadCopies == {dead[d].copy : d \in DOMAIN dead}
HeldAt(c, P) == \E s \in Slots : pc[s] \in P /\ holds[s] = c
Open(c) == Fresh(c) \/ c \in Pending(DefaultQueue) \/ Held(c)
Used(c) == c \in Pending(DefaultQueue) \/ c \in ran \/ c \in DeadCopies \/ Held(c)

Terminal == {"SUCCESS", "FAILURE"}
BeforeRun == {"waiting", "starting", "early_ack", "running"}

IsALO(c) == ModeOf[TaskOf(c)] = ALO
IsAMO(c) == ModeOf[TaskOf(c)] = AMO
InBudget(c) == msgs[c].retries < MaxRetries \/ TaskOf(c) \in RaisesRetry

\* A group that does not exist has read nothing, and nobody consumes from another queue.
BrokerPart ==
    /\ FromStart
    /\ \A q \in Queues : q # DefaultQueue => pel[q] = {}

\* What was handed out once is not handed out as new again.
Settled ==
    /\ ran \subseteq Copies /\ DeadCopies \subseteq Copies
    /\ \A c \in Copies : Used(c) => ~Fresh(c)

\* A copy is in the hands of one slot.
SoleHolder ==
    \A r, s \in Slots : pc[r] # "free" /\ pc[s] # "free" /\ holds[r] = holds[s] => r = s

\* What a slot knows of its copy at each await.
Knows(s) ==
    /\ pc[s] \in {"waiting", "starting", "running"} /\ IsALO(holds[s])
           => holds[s] \in Pending(DefaultQueue)
    /\ pc[s] \in {"running", "store_success", "ack", "retry_state", "republish"} /\ IsAMO(holds[s])
           => holds[s] \notin Pending(DefaultQueue)
    /\ pc[s] \in BeforeRun /\ (Calm \/ IsAMO(holds[s])) => holds[s] \notin ran
    /\ pc[s] # "free" /\ holds[s] \in DeadCopies => pc[s] = "finalize"
    /\ pc[s] \in {"retry_state", "republish"} => InBudget(holds[s])

\* What has run, or is dead, is not delivered again.
Spent(c) ==
    /\ c \in ran /\ IsAMO(c) => c \notin Pending(DefaultQueue)
    /\ c \in ran /\ Calm /\ c \in Pending(DefaultQueue) => Held(c)
    /\ c \in DeadCopies => c \notin Pending(DefaultQueue)

\* Without faults, of two open copies of a task the older one is about to be
\* acknowledged after its retry.
Chain(c, d) ==
    Calm /\ c < d /\ TaskOf(c) = TaskOf(d) /\ Open(c) /\ Open(d)
        => msgs[c].retries < msgs[d].retries /\ HeldAt(c, {"retry_ack"})

\* Without faults, no open copy of a task with a final state has anything to store.
Closed(c) ==
    Calm /\ state[TaskOf(c)] \in Terminal /\ Open(c)
        => HeldAt(c, {"ack", "dead_letter", "retry_ack"})

Dead ==
    /\ \A d \in DOMAIN dead : dead[d].queue = DefaultQueue
    /\ DeadOnce

Once == AtMostOnce /\ RunOnceWhenCalm

FinalsDispatched == \A t \in Tasks : state[t] \in Terminal => Dispatched(t)

DInv ==
    /\ BrokerPart /\ Settled /\ SoleHolder /\ Dead /\ Once /\ RetryBound /\ FinalsDispatched
    /\ \A s \in Slots : Knows(s)
    /\ \A c \in Copies : Spent(c) /\ Closed(c)
    /\ \A c, d \in Copies : Chain(c, d)

--------------------------------------------------------------------------------
(* The broker.                                                             *)

\* What a call of the broker does to the copies there are.
Serves ==
    /\ BrokerPart'
    /\ Copies \subseteq Copies' /\ \A x \in Copies : msgs'[x] = msgs[x]
    /\ \A x \in Copies : Fresh(x)' => Fresh(x)

\* publish() adds one copy, which is pending nowhere.
LEMMA PublishServes ==
    ASSUME BrokerInv, BrokerPart, NEW m \in Message, NEW q \in Queues,
           NEW later \in BOOLEAN, NEW g \in Nat, g = Len(msgs) + 1, Publish(m, q, later)
    PROVE  /\ Serves
           /\ Copies' = Copies \cup {g} /\ msgs'[g] = m /\ \A x \in Copies : x < g
           /\ Pending(DefaultQueue)' = Pending(DefaultQueue) /\ dead' = dead
<1>1. /\ msgs' = Append(msgs, m) /\ UNCHANGED <<group, pel, dead, dlq>>
  BY DEF Publish
<1>2. /\ Copies' = Copies \cup {g} /\ msgs'[g] = m
      /\ \A x \in Copies : x < g /\ msgs'[x] = msgs[x]
  <2>1. msgs \in Seq(Message) /\ Len(msgs) \in Nat
    BY DEF BrokerInv, BrokerTypeOK
  <2>2. Len(msgs') = g
    BY <1>1, <2>1
  <2>3. QED
    BY <1>1, <2>1, <2>2 DEF Copies
<1>3. NoneAnew
  <2>1. Appends(m, q, later)
    BY DEF Publish, Appends
  <2>2. QED
    BY <2>1, AppendFresh DEF BrokerPart
<1>4. BrokerPart'
  BY <1>1, <1>3 DEF BrokerPart, NoneAnew
<1>5. QED
  BY <1>1, <1>2, <1>3, <1>4 DEF Serves, NoneAnew, Pending

\* The delayed mover makes unread what was delayed.
LEMMA PromoteServes ==
    ASSUME BrokerInv, BrokerPart, NEW q \in Queues, NEW c \in Nat, MoveReadyDelayed(q, c)
    PROVE  /\ Serves /\ msgs' = msgs
           /\ Pending(DefaultQueue)' = Pending(DefaultQueue) /\ dead' = dead
<1>1. NoneAnew /\ UNCHANGED <<msgs, group, pel, dead, dlq>>
  BY PromoteFresh DEF MoveReadyDelayed, BrokerPart
<1>2. BrokerPart'
  BY <1>1 DEF BrokerPart, NoneAnew
<1>3. QED
  BY <1>1, <1>2 DEF Serves, NoneAnew, Pending, Copies

\* The group is created once, and has read nothing then.
LEMMA EnsureServes ==
    ASSUME BrokerInv, BrokerPart, NEW q \in Queues, EnsureConsumerGroup(q)
    PROVE  /\ Serves /\ msgs' = msgs
           /\ Pending(DefaultQueue)' = Pending(DefaultQueue) /\ dead' = dead
<1>1. NoneAnew /\ UNCHANGED <<msgs, pel, dead, dlq>>
  BY EnsureFresh DEF EnsureConsumerGroup, BrokerPart
<1>2. BrokerPart'
  BY <1>1 DEF BrokerPart, NoneAnew
<1>3. QED
  BY <1>1, <1>2 DEF Serves, NoneAnew, Pending, Copies

\* XREADGROUP takes a copy that was fresh, and it is fresh no more.
LEMMA ReadServes ==
    ASSUME BrokerInv, BrokerPart, NEW w \in Workers, ReadGroup(DefaultQueue, w),
           NEW c, c = NextUnread(DefaultQueue)
    PROVE  /\ Serves /\ msgs' = msgs /\ dead' = dead
           /\ c \in Copies /\ Fresh(c) /\ ~Fresh(c)'
           /\ Pending(DefaultQueue)' = Pending(DefaultQueue) \cup {c}
<1>1. /\ NoneAnew /\ c \in Copies /\ Fresh(c) /\ ~Fresh(c)'
      /\ Pending(DefaultQueue)' = Pending(DefaultQueue) \cup {c}
  BY BrokerAssumption, ReadFresh DEF BrokerPart
<1>2. /\ UNCHANGED <<msgs, dead>>
      /\ \A p \in Queues : p # DefaultQueue => pel'[p] = pel[p]
  BY DEF ReadGroup, BrokerInv, BrokerTypeOK
<1>3. BrokerPart'
  BY <1>1, <1>2 DEF BrokerPart, NoneAnew
<1>4. QED
  BY <1>1, <1>2, <1>3 DEF Serves, NoneAnew, Copies

\* XAUTOCLAIM changes the owner of an entry.
LEMMA ClaimServes ==
    ASSUME BrokerInv, BrokerPart, NEW w \in Workers, NEW c, AutoClaim(DefaultQueue, w, c)
    PROVE  /\ Serves /\ msgs' = msgs /\ dead' = dead
           /\ c \in Pending(DefaultQueue)
           /\ Pending(DefaultQueue)' = Pending(DefaultQueue)
<1> DEFINE q == DefaultQueue
<1>1. /\ c \in Pending(q) /\ UNCHANGED <<msgs, delayed, stream, cursor, group, dead, dlq>>
      /\ \A p \in Queues : pel'[p] =
            IF p = q THEN {e \in pel[p] : e.copy # c} \cup {[copy |-> c, owner |-> w]} ELSE pel[p]
      /\ q \in Queues
  BY BrokerAssumption DEF AutoClaim, BrokerInv, BrokerTypeOK
<1>2. Pending(q)' = Pending(q)
  <2>1. [copy |-> c, owner |-> w].copy = c
    OBVIOUS
  <2>2. QED
    BY <1>1, <2>1 DEF Pending
<1>3. BrokerPart'
  BY <1>1 DEF BrokerPart, FromStart
<1>4. QED
  BY <1>1, <1>2, <1>3 DEF Serves, Fresh, Unread, Copies

\* XACK removes one entry.
LEMMA AckServes ==
    ASSUME BrokerInv, BrokerPart, NEW c, XAck(DefaultQueue, c),
           UNCHANGED <<msgs, delayed, stream, cursor, group>>
    PROVE  /\ Serves /\ msgs' = msgs
           /\ Pending(DefaultQueue)' = Pending(DefaultQueue) \ {c}
<1>1. /\ \A p \in Queues : pel'[p] =
            IF p = DefaultQueue THEN {e \in pel[p] : e.copy # c} ELSE pel[p]
      /\ DefaultQueue \in Queues
  BY BrokerAssumption DEF XAck, BrokerInv, BrokerTypeOK
<1>2. Pending(DefaultQueue)' = Pending(DefaultQueue) \ {c}
  BY <1>1 DEF Pending
<1>3. BrokerPart'
  BY <1>1 DEF BrokerPart, FromStart
<1>4. QED
  BY <1>1, <1>2, <1>3 DEF Serves, Fresh, Unread, Copies

\* A step that leaves the broker alone.
LEMMA StutterServes ==
    ASSUME BrokerPart, UNCHANGED brokerVars
    PROVE  /\ Serves /\ msgs' = msgs /\ dead' = dead
           /\ Pending(DefaultQueue)' = Pending(DefaultQueue)
BY DEF brokerVars, BrokerPart, FromStart, Serves, Fresh, Unread, Pending, Copies

--------------------------------------------------------------------------------
(* A step that concerns one copy.                                          *)

\* No copy but h changes its place, its slot or its history, as far as DInv tells.
Concerns(h) ==
    /\ \A r \in Slots :
          \/ pc'[r] = pc[r] /\ holds'[r] = holds[r]
          \/ (pc[r] # "free" => holds[r] = h) /\ (pc'[r] # "free" => holds'[r] = h)
          \/ pc'[r] = "free" /\ ~Calm'
    /\ \A x \in Pending(DefaultQueue) : x = h \/ x \in Pending(DefaultQueue)'
    /\ Pending(DefaultQueue)' \subseteq Pending(DefaultQueue) \cup ({h} \cap Copies)
    /\ ran \subseteq ran' /\ ran' \subseteq ran \cup ({h} \cap Copies)
    /\ DeadCopies' \subseteq DeadCopies \cup ({h} \cap Copies)
    /\ \A t \in Tasks : state'[t] = state[t] \/ (h \in Copies /\ t = TaskOf(h))
    /\ Calm' => Calm

\* What the step owes to h.
Rightly(h) ==
    h \in Copies =>
        /\ Open(h)' => Open(h)
        /\ Used(h)' => ~Fresh(h)'
        /\ \A r \in Slots : pc'[r] # "free" /\ holds'[r] = h => Knows(r)'
        /\ Spent(h)' /\ Closed(h)'
        /\ Calm' /\ Open(h)' => ~HeldAt(h, {"retry_ack"})
        /\ Calm' /\ state'[TaskOf(h)] # state[TaskOf(h)]
              => Open(h) /\ ~HeldAt(h, {"retry_ack"})

\* What the step owes to a copy that it publishes.
Publishes ==
    \A g \in Copies' \ Copies :
        /\ \A x \in Copies : x < g
        /\ TaskOf(g)' \in RaisesRetry \/ msgs'[g].retries <= MaxRetries
        /\ Closed(g)'
        /\ \A x \in Copies' : Chain(x, g)'

\* The other copies stay with their slots.
LEMMA OtherHeld ==
    ASSUME NEW h, Concerns(h), NEW x, x # h
    PROVE  /\ Held(x)' => Held(x)
           /\ \A P : Calm' /\ "free" \notin P /\ HeldAt(x, P) => HeldAt(x, P)'
           /\ Calm' /\ Held(x) => Held(x)'
<1>1. Held(x)' => Held(x)
  BY DEF Concerns, Held
<1>2. ASSUME NEW P, Calm', "free" \notin P, HeldAt(x, P) PROVE HeldAt(x, P)'
  BY <1>2 DEF Concerns, HeldAt
<1>3. Calm' /\ Held(x) => Held(x)'
  BY DEF Concerns, Held
<1>4. QED
  BY <1>1, <1>2, <1>3

\* The other copies become neither open nor used.
LEMMA OtherOpen ==
    ASSUME NEW h, Concerns(h), Serves, NEW x \in Copies, x # h
    PROVE  (Open(x)' => Open(x)) /\ (Used(x)' => Used(x))
<1>1. Held(x)' => Held(x)
  BY OtherHeld
<1>2. /\ x \in Pending(DefaultQueue)' => x \in Pending(DefaultQueue)
      /\ x \in ran' => x \in ran
      /\ x \in DeadCopies' => x \in DeadCopies
  BY DEF Concerns
<1>3. Fresh(x)' => Fresh(x)
  BY DEF Serves
<1>4. QED
  BY <1>1, <1>2, <1>3 DEF Open, Used

\* What a copy is does not change.
LEMMA SameMessage ==
    ASSUME Serves, NEW x \in Copies
    PROVE  /\ x \in Copies' /\ msgs'[x] = msgs[x] /\ TaskOf(x)' = TaskOf(x)
           /\ IsALO(x)' = IsALO(x) /\ IsAMO(x)' = IsAMO(x) /\ InBudget(x)' = InBudget(x)
BY DEF Serves, TaskOf, IsALO, IsAMO, InBudget

\* The copies there are, and those in use.
LEMMA KnownCopies ==
    ASSUME IInv, DInv
    PROVE  /\ ran \subseteq Copies /\ DeadCopies \subseteq Copies /\ reran \subseteq ran
           /\ \A x \in Pending(DefaultQueue) : x \in Copies
           /\ \A r \in Slots : pc[r] # "free" => holds[r] \in Copies
<1>1. /\ ran \subseteq Copies /\ DeadCopies \subseteq Copies /\ reran \subseteq ran
      /\ \A r \in Slots : pc[r] # "free" => holds[r] \in Copies
  BY DEF DInv, Settled, IInv, TypeOK, SlotInv
<1>2. ASSUME NEW x \in Pending(DefaultQueue) PROVE x \in Copies
  <2>1. x \in Nat
    BY BrokerAssumption DEF IInv, TypeOK, BrokerTypeOK, Pending
  <2>2. At(DefaultQueue, x)
    BY DEF At
  <2>3. QED
    BY <2>1, <2>2, BrokerAssumption DEF IInv, Placed
<1>3. QED
  BY <1>1, <1>2

\* What was settled stays so.
LEMMA StepSettled ==
    ASSUME IInv, DInv, IInv', NEW h, h \in Copies \/ h = 0, Concerns(h), Serves, Rightly(h)
    PROVE  Settled'
<1>1. ran' \subseteq Copies' /\ DeadCopies' \subseteq Copies'
  BY KnownCopies DEF Concerns, Serves
<1>2. ASSUME NEW c \in Copies', Used(c)' PROVE ~Fresh(c)'
  <2>1. CASE c \in Copies /\ c = h
    BY <1>2, <2>1 DEF Rightly
  <2>2. CASE c \in Copies /\ c # h
    <3>1. Used(c) /\ (Fresh(c)' => Fresh(c))
      BY <1>2, <2>2, OtherOpen DEF Serves
    <3>2. QED
      BY <2>2, <3>1 DEF DInv, Settled
  <2>3. CASE c \notin Copies
    <3>1. c \notin Pending(DefaultQueue)' /\ c \notin ran' /\ c \notin DeadCopies'
      BY <2>3, KnownCopies DEF Concerns
    <3>2. ~Held(c)'
      <4>1. SUFFICES ASSUME NEW r \in Slots, pc'[r] # "free", holds'[r] = c PROVE FALSE
        BY DEF Held
      <4>2. pc[r] # "free" => holds[r] \in Copies
        BY KnownCopies
      <4>3. (pc'[r] = pc[r] /\ holds'[r] = holds[r]) \/ holds'[r] = h
        BY <4>1 DEF Concerns
      <4>4. c = h /\ holds'[r] = h /\ h \notin Copies
        BY <2>3, <4>1, <4>2, <4>3
      <4>5. QED
        BY <4>4 DEF Copies
    <3>3. QED
      BY <1>2, <3>1, <3>2 DEF Used
  <2>4. QED
    BY <2>1, <2>2, <2>3
<1>3. QED
  BY <1>1, <1>2 DEF Settled

\* Every slot knows what it must.
LEMMA StepKnows ==
    ASSUME IInv, DInv, IInv', NEW h, h \in Copies \/ h = 0, Concerns(h), Serves, Rightly(h),
           NEW r \in Slots
    PROVE  Knows(r)'
<1>1. CASE pc'[r] = "free"
  BY <1>1 DEF Knows, BeforeRun
<1>2. CASE pc'[r] # "free" /\ holds'[r] = h
  <2>1. h \in Copies
    BY <1>2 DEF IInv, SlotInv, Copies
  <2>2. QED
    BY <1>2, <2>1 DEF Rightly
<1>3. CASE pc'[r] # "free" /\ holds'[r] # h
  <2> PICK x : x = holds[r]
    OBVIOUS
  <2>1. pc'[r] = pc[r] /\ holds'[r] = holds[r] /\ x # h
    BY <1>3 DEF Concerns
  <2>2. x \in Copies /\ Knows(r)
    BY <1>3, <2>1, KnownCopies DEF DInv
  <2>3. /\ x \in Pending(DefaultQueue)' <=> x \in Pending(DefaultQueue)
        /\ x \in ran' <=> x \in ran
        /\ x \in DeadCopies' => x \in DeadCopies
        /\ Calm' => Calm
    BY <2>1 DEF Concerns
  <2>4. IsALO(x)' = IsALO(x) /\ IsAMO(x)' = IsAMO(x) /\ InBudget(x)' = InBudget(x)
    BY <2>2, SameMessage
  <2>5. /\ IsALO(holds[r])' = IsALO(x)' /\ IsAMO(holds[r])' = IsAMO(x)'
        /\ InBudget(holds[r])' = InBudget(x)'
    BY <2>1 DEF IsALO, IsAMO, InBudget, TaskOf
  <2>6. QED
    BY <2>1, <2>2, <2>3, <2>4, <2>5 DEF Knows
<1>4. QED
  BY <1>1, <1>2, <1>3

\* What is spent stays spent.
LEMMA StepSpent ==
    ASSUME IInv, DInv, IInv', NEW h, Concerns(h), Serves, Rightly(h), NEW c \in Copies'
    PROVE  Spent(c)'
<1>1. CASE c \in Copies /\ c = h
  BY <1>1 DEF Rightly
<1>2. CASE c \in Copies /\ c # h
  <2>1. Spent(c) /\ IsAMO(c)' = IsAMO(c)
    BY <1>2, SameMessage DEF DInv
  <2>2. /\ c \in Pending(DefaultQueue)' => c \in Pending(DefaultQueue)
        /\ c \in ran' => c \in ran
        /\ c \in DeadCopies' => c \in DeadCopies
        /\ Calm' => Calm
    BY <1>2 DEF Concerns
  <2>3. Calm' /\ Held(c) => Held(c)'
    BY <1>2, OtherHeld
  <2>4. QED
    BY <2>1, <2>2, <2>3 DEF Spent
<1>3. CASE c \notin Copies
  <2>1. c \notin ran' /\ c \notin DeadCopies'
    BY <1>3, KnownCopies DEF Concerns
  <2>2. QED
    BY <2>1 DEF Spent
<1>4. QED
  BY <1>1, <1>2, <1>3

\* A closed copy stays closed: when a task gets its final state from h, every other
\* open copy of it is an older one that waits for its ack.
LEMMA StepClosed ==
    ASSUME IInv, DInv, IInv', NEW h, Concerns(h), Serves, Rightly(h), Publishes,
           NEW c \in Copies'
    PROVE  Closed(c)'
<1>1. CASE c \in Copies /\ c = h
  BY <1>1 DEF Rightly
<1>2. CASE c \notin Copies
  BY <1>2 DEF Publishes
<1>3. CASE c \in Copies /\ c # h
  <2> PICK t : t = TaskOf(c)
    OBVIOUS
  <2>1. SUFFICES ASSUME Calm', state'[t] \in Terminal, Open(c)'
                 PROVE  HeldAt(c, {"ack", "dead_letter", "retry_ack"})'
    BY <1>3, SameMessage DEF Closed
  <2>2. Calm /\ Open(c)
    BY <1>3, <2>1, OtherOpen DEF Concerns
  <2>3. \/ HeldAt(c, {"ack", "dead_letter", "retry_ack"})
        \/ HeldAt(c, {"retry_ack"})
    <3>1. CASE state'[t] = state[t]
      BY <1>3, <2>1, <2>2, <3>1 DEF DInv, Closed
    <3>2. CASE state'[t] # state[t]
      <4>1. t \in Tasks
        BY <1>3, TaskOfType DEF IInv
      <4>2. h \in Copies /\ t = TaskOf(h)
        BY <3>2, <4>1 DEF Concerns
      <4>3. Open(h) /\ ~HeldAt(h, {"retry_ack"})
        BY <2>1, <3>2, <4>2 DEF Rightly
      <4>4. c \in Nat /\ h \in Nat
        BY <1>3, <4>2, TaskOfType DEF IInv
      <4>5. c < h \/ h < c
        BY <1>3, <4>4
      <4>6. Chain(c, h) /\ Chain(h, c)
        BY <1>3, <4>2 DEF DInv
      <4>7. QED
        BY <2>2, <4>2, <4>3, <4>5, <4>6 DEF Chain
    <3>3. QED
      BY <3>1, <3>2
  <2>4. HeldAt(c, {"ack", "dead_letter", "retry_ack"})
    BY <2>3 DEF HeldAt
  <2>5. QED
    BY <1>3, <2>1, <2>4, OtherHeld
<1>4. QED
  BY <1>1, <1>2, <1>3

\* A chain of attempts stays one.
LEMMA StepChain ==
    ASSUME IInv, DInv, IInv', NEW h, Concerns(h), Serves, Rightly(h), Publishes,
           NEW c \in Copies', NEW d \in Copies'
    PROVE  Chain(c, d)'
<1>1. CASE d \notin Copies
  BY <1>1 DEF Publishes
<1>2. CASE d \in Copies /\ c \notin Copies
  <2>1. d < c /\ d \in Nat /\ c \in Nat
    BY <1>2, TaskOfType DEF Publishes, IInv, Copies
  <2>2. ~(c < d)
    BY <2>1
  <2>3. QED
    BY <2>2 DEF Chain
<1>3. CASE d \in Copies /\ c \in Copies
  <2>1. /\ msgs'[c] = msgs[c] /\ msgs'[d] = msgs[d]
        /\ TaskOf(c)' = TaskOf(c) /\ TaskOf(d)' = TaskOf(d)
    BY <1>3, SameMessage
  <2>2. SUFFICES ASSUME Calm', c < d, TaskOf(c) = TaskOf(d), Open(c)', Open(d)'
                 PROVE  msgs[c].retries < msgs[d].retries /\ HeldAt(c, {"retry_ack"})'
    BY <2>1 DEF Chain
  <2>3. Calm /\ Open(c) /\ Open(d)
    BY <1>3, <2>2, OtherOpen DEF Concerns, Rightly
  <2>4. msgs[c].retries < msgs[d].retries /\ HeldAt(c, {"retry_ack"})
    BY <1>3, <2>2, <2>3 DEF DInv, Chain
  <2>5. c # h
    BY <1>3, <2>2, <2>4 DEF Rightly
  <2>6. QED
    BY <2>2, <2>4, <2>5, OtherHeld
<1>4. QED
  BY <1>1, <1>2, <1>3

\* A step that concerns one copy, and does right by it, keeps the invariant.
LEMMA StepKeeps ==
    ASSUME IInv, DInv, IInv', NEW h, h \in Copies \/ h = 0,
           Concerns(h), Serves, Rightly(h), Publishes,
           SoleHolder', Dead', Once'
    PROVE  DInv'
<1>1. BrokerPart' /\ Settled'
  BY StepSettled DEF Serves
<1>2. RetryBound'
  <2>1. ASSUME NEW c \in Copies' PROVE TaskOf(c)' \in RaisesRetry \/ msgs'[c].retries <= MaxRetries
    <3>1. CASE c \in Copies
      BY <3>1, SameMessage DEF DInv, RetryBound
    <3>2. CASE c \notin Copies
      BY <3>2 DEF Publishes
    <3>3. QED
      BY <3>1, <3>2
  <2>2. QED
    BY <2>1 DEF RetryBound
<1>3. FinalsDispatched'
  <2>1. SUFFICES ASSUME NEW t \in Tasks, state'[t] \in Terminal PROVE Dispatched(t)'
    BY DEF FinalsDispatched
  <2>2. Dispatched(t)
    <3>1. CASE state'[t] = state[t]
      BY <2>1, <3>1 DEF DInv, FinalsDispatched
    <3>2. CASE state'[t] # state[t]
      BY <3>2 DEF Concerns, Dispatched
    <3>3. QED
      BY <3>1, <3>2
  <2>3. QED
    BY <2>2, SameMessage DEF Dispatched
<1>4. \A r \in Slots : Knows(r)'
  BY StepKnows
<1>5. \A c \in Copies' : Spent(c)' /\ Closed(c)'
  BY StepSpent, StepClosed
<1>6. \A c, d \in Copies' : Chain(c, d)'
  BY StepChain
<1>7. QED
  BY <1>1, <1>2, <1>3, <1>4, <1>5, <1>6 DEF DInv

--------------------------------------------------------------------------------
(* A step of _process_envelope().                                          *)

\* What slot s, which holds h, must see to when it goes on at p.
Respects(s, h, p) ==
    /\ p \in {"starting", "running"} /\ IsALO(h) => h \in Pending(DefaultQueue)'
    /\ p \in {"running", "store_success", "ack", "retry_state", "republish"} /\ IsAMO(h)
           => h \notin Pending(DefaultQueue)'
    /\ p \in BeforeRun /\ (Calm' \/ IsAMO(h)) => h \notin ran'
    /\ h \in DeadCopies' => p \in {"finalize", "free"} /\ h \notin Pending(DefaultQueue)'
    /\ p \in {"retry_state", "republish"} => InBudget(h)
    /\ h \in ran' /\ IsAMO(h) => h \notin Pending(DefaultQueue)'
    /\ Calm' /\ h \in ran' /\ p = "free" => h \notin Pending(DefaultQueue)'
    /\ Calm' /\ pc[s] \in {"ack", "dead_letter", "retry_ack"}
           => p = "free" /\ h \notin Pending(DefaultQueue)' /\ state' = state
    /\ Calm' /\ state'[TaskOf(h)] # state[TaskOf(h)] /\ state'[TaskOf(h)] \in Terminal
           => p \in {"ack", "dead_letter"} \/ (p = "free" /\ h \notin Pending(DefaultQueue)')

\* Only slot s moves.
LEMMA GotoFacts ==
    ASSUME TypeOK, NEW s \in Slots, NEW p \in Places, Goto(s, p)
    PROVE  /\ pc'[s] = p /\ (p # "free" => holds'[s] = holds[s])
           /\ \A r \in Slots : r # s => pc'[r] = pc[r] /\ holds'[r] = holds[r]
           /\ crashes' = crashes
BY DEF TypeOK, Goto

\* The copy in the slot's hands is held by that slot alone.
LEMMA HeldHere ==
    ASSUME IInv, DInv, NEW s \in Slots, pc[s] # "free", NEW h, h = holds[s]
    PROVE  /\ h \in Copies /\ h \in Nat /\ TaskOf(h) \in Tasks
           /\ Held(h) /\ Open(h) /\ Used(h) /\ ~Fresh(h) /\ Knows(s) /\ Spent(h)
           /\ \A P : HeldAt(h, P) <=> pc[s] \in P \/ ("free" \in P /\ HeldAt(h, P))
<1>1. h \in Copies /\ h \in Nat /\ TaskOf(h) \in Tasks
  BY KnownCopies, TaskOfType DEF IInv
<1>2. Held(h) /\ Open(h) /\ Used(h)
  BY DEF Held, Open, Used
<1>3. ~Fresh(h) /\ Knows(s) /\ Spent(h)
  BY <1>1, <1>2 DEF DInv, Settled
<1>4. ASSUME NEW P, "free" \notin P PROVE HeldAt(h, P) <=> pc[s] \in P
  BY <1>4 DEF DInv, SoleHolder, HeldAt
<1>5. ASSUME NEW P, pc[s] \in P PROVE HeldAt(h, P)
  BY <1>5 DEF HeldAt
<1>6. QED
  BY <1>1, <1>2, <1>3, <1>4, <1>5

\* After the step too.
LEMMA HeldThere ==
    ASSUME IInv, DInv, NEW s \in Slots, pc[s] # "free", NEW h, h = holds[s],
           NEW p \in Places, Goto(s, p)
    PROVE  /\ p = "free" => ~Held(h)'
           /\ p # "free" => Held(h)'
           /\ \A P : "free" \notin P => (HeldAt(h, P)' <=> p \in P)
           /\ \A r \in Slots : pc'[r] # "free" /\ holds'[r] = h => r = s /\ pc'[s] = p
<1>1. /\ pc'[s] = p /\ (p # "free" => holds'[s] = h)
      /\ \A r \in Slots : r # s => pc'[r] = pc[r] /\ holds'[r] = holds[r]
  BY GotoFacts DEF IInv
<1>2. \A r \in Slots : pc'[r] # "free" /\ holds'[r] = h => r = s /\ pc'[s] = p
  BY <1>1 DEF DInv, SoleHolder
<1>3. (p = "free" => ~Held(h)') /\ (p # "free" => Held(h)')
  BY <1>1, <1>2 DEF Held
<1>4. ASSUME NEW P, "free" \notin P PROVE HeldAt(h, P)' <=> p \in P
  BY <1>1, <1>2, <1>4 DEF HeldAt
<1>5. QED
  BY <1>2, <1>3, <1>4

\* A step of slot s concerns the copy that it holds.
LEMMA HandlerConcerns ==
    ASSUME IInv, DInv, NEW s \in Slots, pc[s] # "free", NEW h, h = holds[s],
           NEW p \in Places, Goto(s, p),
           \/ Pending(DefaultQueue)' = Pending(DefaultQueue)
           \/ Pending(DefaultQueue)' = Pending(DefaultQueue) \ {h},
           ran' = ran \/ ran' = ran \cup {h},
           DeadCopies' \subseteq DeadCopies \cup {h},
           \A t \in Tasks : state'[t] = state[t] \/ t = TaskOf(h),
           Calm' => Calm
    PROVE  Concerns(h)
<1>1. h \in Copies
  BY HeldHere
<1>2. \A r \in Slots :
        \/ pc'[r] = pc[r] /\ holds'[r] = holds[r]
        \/ (pc[r] # "free" => holds[r] = h) /\ (pc'[r] # "free" => holds'[r] = h)
  BY GotoFacts DEF IInv
<1>3. QED
  BY <1>1, <1>2 DEF Concerns

\* A step of slot s that respects what it must keeps the invariant.
LEMMA HandlerKeeps ==
    ASSUME IInv, DInv, IInv', NEW s \in Slots, pc[s] # "free", NEW h, h = holds[s],
           NEW p \in Places \ {"waiting"}, Goto(s, p), Serves, Publishes,
           \/ Pending(DefaultQueue)' = Pending(DefaultQueue)
           \/ Pending(DefaultQueue)' = Pending(DefaultQueue) \ {h},
           ran' = ran \/ ran' = ran \cup {h},
           DeadCopies' \subseteq DeadCopies \cup {h},
           \A t \in Tasks : state'[t] = state[t] \/ t = TaskOf(h),
           Calm' => Calm, Dead', Once', Respects(s, h, p)
    PROVE  DInv'
<1>1. /\ pc'[s] = p /\ (p # "free" => holds'[s] = h)
      /\ \A r \in Slots : r # s => pc'[r] = pc[r] /\ holds'[r] = holds[r]
  BY GotoFacts DEF IInv
<1>2. /\ h \in Copies /\ h \in Nat /\ TaskOf(h) \in Tasks
      /\ Held(h) /\ Open(h) /\ Used(h) /\ ~Fresh(h)
      /\ Knows(s) /\ Spent(h)
      /\ HeldAt(h, {"ack", "dead_letter", "retry_ack"})
            <=> pc[s] \in {"ack", "dead_letter", "retry_ack"}
      /\ HeldAt(h, {"retry_ack"}) <=> pc[s] \in {"retry_ack"}
  BY HeldHere
<1>3. /\ p = "free" => ~Held(h)'
      /\ p # "free" => Held(h)'
      /\ HeldAt(h, {"ack", "dead_letter", "retry_ack"})'
            <=> p \in {"ack", "dead_letter", "retry_ack"}
      /\ \A r \in Slots : pc'[r] # "free" /\ holds'[r] = h => r = s /\ pc'[s] = p
  BY HeldThere
<1>4. Concerns(h)
  BY HandlerConcerns
<1>5. ~Fresh(h)'
  BY <1>2 DEF Serves
<1>6. /\ TaskOf(h)' = TaskOf(h) /\ IsALO(h)' = IsALO(h)
      /\ IsAMO(h)' = IsAMO(h) /\ InBudget(h)' = InBudget(h)
  BY <1>2, SameMessage
<1>7. ASSUME NEW r \in Slots, pc'[r] # "free", holds'[r] = h PROVE Knows(r)'
  <2>1. r = s /\ pc'[r] = p
    BY <1>3, <1>7
  <2>2. /\ IsALO(holds[r])' = IsALO(h)' /\ IsAMO(holds[r])' = IsAMO(h)'
        /\ InBudget(holds[r])' = InBudget(h)'
    BY <1>7 DEF IsALO, IsAMO, InBudget, TaskOf
  <2>3. QED
    BY <1>6, <1>7, <2>1, <2>2 DEF Knows, Respects
<1>8. Spent(h)'
  <2>1. h \in ran' /\ IsAMO(h)' => h \notin Pending(DefaultQueue)'
    BY <1>6 DEF Respects
  <2>2. h \in ran' /\ Calm' /\ h \in Pending(DefaultQueue)' => Held(h)'
    BY <1>3 DEF Respects
  <2>3. h \in DeadCopies' => h \notin Pending(DefaultQueue)'
    BY DEF Respects
  <2>4. QED
    BY <2>1, <2>2, <2>3 DEF Spent
<1>9. p = "free" /\ h \notin Pending(DefaultQueue)' => ~Open(h)'
  BY <1>3, <1>5 DEF Open
<1>10. Closed(h)'
  <2> PICK t : t = TaskOf(h)
    OBVIOUS
  <2>1. SUFFICES ASSUME Calm', state'[t] \in Terminal, Open(h)'
                 PROVE  p \in {"ack", "dead_letter", "retry_ack"}
    BY <1>3, <1>6 DEF Closed
  <2>2. CASE state'[t] = state[t]
    <3>1. pc[s] \in {"ack", "dead_letter", "retry_ack"}
      BY <1>2, <2>1, <2>2 DEF DInv, Closed
    <3>2. QED
      BY <1>9, <2>1, <3>1 DEF Respects
  <2>3. CASE state'[t] # state[t]
    BY <1>9, <2>1, <2>3 DEF Respects
  <2>4. QED
    BY <2>2, <2>3
<1>11. Calm' /\ Open(h)' => ~HeldAt(h, {"retry_ack"})
  BY <1>2, <1>9 DEF Respects
<1>12. Calm' /\ state'[TaskOf(h)] # state[TaskOf(h)] => ~HeldAt(h, {"retry_ack"})
  BY <1>2 DEF Respects
<1>13. Rightly(h)
  BY <1>2, <1>5, <1>7, <1>8, <1>10, <1>11, <1>12 DEF Rightly
<1>14. SoleHolder'
  <2>1. \A r \in Slots : pc'[r] # "free" => pc[r] # "free" /\ holds'[r] = holds[r]
    BY <1>1
  <2>2. QED
    BY <2>1 DEF DInv, SoleHolder
<1>15. QED
  BY <1>2, <1>4, <1>13, <1>14, StepKeeps

\* A call that raises is a fault.
LEMMA CallEnds ==
    ASSUME TypeOK, NEW s \in Slots, NEW p, NEW P, Return(s, p, P) \/ Raise(s, P)
    PROVE  /\ Calm' => Calm
           /\ Raise(s, P) => ~Calm'
           /\ \E r \in P \cup {p} : Goto(s, r) /\ (Calm' => r = p)
<1>1. faults \in Nat
  BY DEF TypeOK
<1>2. Raise(s, P) => ~Calm' /\ \E r \in P : Goto(s, r)
  BY <1>1 DEF Raise, Calm
<1>3. Goto(s, p) /\ UNCHANGED faults => (Calm' => Calm)
  BY DEF Goto, Calm
<1>4. QED
  BY <1>2, <1>3 DEF Return

\* A step that calls no function keeps the history.
LEMMA SameOnce ==
    ASSUME IInv, DInv, Serves, Calm' => Calm, reran' = reran
    PROVE  Once'
<1>1. \A c \in reran : c \in Copies
  BY KnownCopies
<1>2. AtMostOnce'
  BY <1>1, SameMessage DEF DInv, Once, AtMostOnce
<1>3. RunOnceWhenCalm'
  BY DEF DInv, Once, RunOnceWhenCalm
<1>4. QED
  BY <1>2, <1>3 DEF Once

\* A step that writes to no DLQ keeps the dead letters.
LEMMA SameDead ==
    ASSUME DInv, dead' = dead
    PROVE  Dead' /\ DeadCopies' = DeadCopies
BY DEF DInv, Dead, DeadOnce, DeadCopies

\* A call of the backend, or none.
LEMMA BackendKeeps ==
    ASSUME IInv, DInv, IInv', NEW s \in Slots, pc[s] # "free", NEW h, h = holds[s],
           NEW p \in Places \ {"waiting"}, Goto(s, p),
           UNCHANGED <<brokerVars, historyVars>>,
           \A t \in Tasks : state'[t] = state[t] \/ t = TaskOf(h),
           Calm' => Calm, Respects(s, h, p)
    PROVE  DInv'
<1>1. /\ Serves /\ msgs' = msgs /\ dead' = dead
      /\ Pending(DefaultQueue)' = Pending(DefaultQueue)
  BY StutterServes DEF DInv
<1>2. Publishes
  BY <1>1 DEF Publishes, Copies
<1>3. ran' = ran /\ reran' = reran
  BY DEF historyVars
<1>4. Once' /\ Dead' /\ DeadCopies' = DeadCopies
  BY <1>1, <1>3, SameOnce, SameDead
<1>5. QED
  BY <1>1, <1>2, <1>3, <1>4, HandlerKeeps

\* A call of the broker that publishes nothing.
LEMMA BrokerKeeps ==
    ASSUME IInv, DInv, IInv', NEW s \in Slots, pc[s] # "free", NEW h, h = holds[s],
           NEW p \in Places \ {"waiting"}, Goto(s, p),
           Serves, msgs' = msgs,
           \/ Pending(DefaultQueue)' = Pending(DefaultQueue)
           \/ Pending(DefaultQueue)' = Pending(DefaultQueue) \ {h},
           UNCHANGED <<backendVars, historyVars>>,
           Dead', DeadCopies' \subseteq DeadCopies \cup {h},
           Calm' => Calm, Respects(s, h, p)
    PROVE  DInv'
<1>1. Publishes
  BY DEF Publishes, Copies
<1>2. ran' = ran /\ reran' = reran /\ state' = state
  BY DEF historyVars, backendVars
<1>3. Once'
  BY <1>2, SameOnce
<1>4. QED
  BY <1>1, <1>2, <1>3, HandlerKeeps

\* A task's mode is one of two.
LEMMA Modes ==
    ASSUME IInv, NEW c \in Copies
    PROVE  (IsALO(c) <=> ~IsAMO(c)) /\ (IsALO(c) <=> ModeOf[TaskOf(c)] = ALO)
BY TaskOfType DEF IInv, IsALO, IsAMO, ALO, AMO

\* What a step of a handler has at hand.
LEMMA AtHand ==
    ASSUME IInv, DInv, NEW s \in Slots, pc[s] # "free", NEW h, h = holds[s]
    PROVE  /\ h \in Copies /\ (IsALO(h) <=> ~IsAMO(h)) /\ (IsALO(h) <=> ModeOf[TaskOf(h)] = ALO)
           /\ (IsAMO(h) <=> ModeOf[TaskOf(h)] = AMO)
           /\ Knows(s) /\ Spent(h) /\ TaskOf(h) \in Tasks
BY HeldHere, Modes DEF IsAMO

\* The semaphore admits a slot: nothing but its place changes.
LEMMA AcquireDelivers ==
    ASSUME IInv, DInv, IInv', NEW s \in Slots, Acquire(s) PROVE DInv'
<1> PICK h : h = holds[s]
  OBVIOUS
<1>1. /\ pc[s] = "waiting" /\ UNCHANGED <<brokerVars, backendVars, historyVars, faults>>
      /\ \E r \in {"store_failure", "starting"} : Goto(s, r)
  BY DEF Acquire
<1>2. PICK p \in {"store_failure", "starting"} : Goto(s, p)
  BY <1>1
<1>3. p \in Places \ {"waiting"} /\ p \in {"store_failure", "starting"}
  BY DEF Places, InHandler
<1>4. Calm' = Calm /\ state' = state /\ ran' = ran /\ DeadCopies' = DeadCopies
      /\ Pending(DefaultQueue)' = Pending(DefaultQueue)
  BY <1>1, <1>2 DEF Goto, Calm, backendVars, historyVars, brokerVars, DeadCopies, Pending
<1>5. Respects(s, h, p)
  BY <1>1, <1>3, <1>4, AtHand DEF Respects, Knows, Spent, BeforeRun
<1>6. QED
  BY <1>1, <1>2, <1>3, <1>4, <1>5, BackendKeeps

\* STARTED is no final state; at-most-once work goes on to its ack, other work runs.
LEMMA MarkStartedDelivers ==
    ASSUME IInv, DInv, IInv', NEW s \in Slots, MarkStarted(s) PROVE DInv'
<1> PICK h : h = holds[s]
  OBVIOUS
<1> PICK p : p = IF ModeOf[TaskOf(h)] = AMO THEN "early_ack" ELSE "running"
  OBVIOUS
<1>1. /\ pc[s] = "starting" /\ UNCHANGED <<brokerVars, historyVars>>
      /\ SetState(TaskOf(h), "STARTED") \/ UNCHANGED backendVars
      /\ Return(s, p, Escape) \/ Raise(s, Escape)
  BY DEF MarkStarted, BackendCall
<1>2. PICK r \in {"free", p} : Goto(s, r) /\ (Calm' => r = p)
  BY <1>1, CallEnds DEF Escape, IInv
<1>3. r \in Places \ {"waiting"} /\ p \in {"early_ack", "running"}
  BY DEF Places, InHandler
<1>4. (Calm' => Calm) /\ ran' = ran /\ DeadCopies' = DeadCopies
      /\ Pending(DefaultQueue)' = Pending(DefaultQueue)
  BY <1>1, CallEnds DEF IInv, historyVars, brokerVars, DeadCopies, Pending
<1>5. /\ \A t \in Tasks : state'[t] = state[t] \/ t = TaskOf(h)
      /\ state'[TaskOf(h)] = state[TaskOf(h)] \/ state'[TaskOf(h)] = "STARTED"
  BY <1>1, AtHand DEF SetState, backendVars, IInv, TypeOK
<1>6. Respects(s, h, r)
  BY <1>1, <1>2, <1>3, <1>4, <1>5, AtHand DEF Respects, Knows, Spent, BeforeRun, Terminal
<1>7. QED
  BY <1>1, <1>2, <1>3, <1>4, <1>5, <1>6, BackendKeeps

\* RETRY is no final state, and the attempt is within its budget.
LEMMA RetryStateDelivers ==
    ASSUME IInv, DInv, IInv', NEW s \in Slots, RetryState(s) PROVE DInv'
<1> PICK h : h = holds[s]
  OBVIOUS
<1>1. /\ pc[s] = "retry_state" /\ UNCHANGED <<brokerVars, historyVars>>
      /\ SetState(TaskOf(h), "RETRY") \/ UNCHANGED backendVars
      /\ Return(s, "republish", Escape) \/ Raise(s, Escape)
  BY DEF RetryState, BackendCall
<1>2. PICK r \in {"free", "republish"} : Goto(s, r) /\ (Calm' => r = "republish")
  BY <1>1, CallEnds DEF Escape, IInv
<1>3. r \in Places \ {"waiting"}
  BY DEF Places, InHandler
<1>4. (Calm' => Calm) /\ ran' = ran /\ DeadCopies' = DeadCopies
      /\ Pending(DefaultQueue)' = Pending(DefaultQueue)
  BY <1>1, CallEnds DEF IInv, historyVars, brokerVars, DeadCopies, Pending
<1>5. /\ \A t \in Tasks : state'[t] = state[t] \/ t = TaskOf(h)
      /\ state'[TaskOf(h)] = state[TaskOf(h)] \/ state'[TaskOf(h)] = "RETRY"
  BY <1>1, AtHand DEF SetState, backendVars, IInv, TypeOK
<1>6. Respects(s, h, r)
  BY <1>1, <1>2, <1>4, <1>5, AtHand DEF Respects, Knows, Spent, BeforeRun, Terminal
<1>7. QED
  BY <1>1, <1>2, <1>3, <1>4, <1>5, <1>6, BackendKeeps

\* A failure is stored by a slot that goes on to the dead letters.
LEMMA StoreFailureDelivers ==
    ASSUME IInv, DInv, IInv', NEW s \in Slots, StoreFailure(s) PROVE DInv'
<1> PICK h : h = holds[s]
  OBVIOUS
<1>1. /\ pc[s] = "store_failure" /\ UNCHANGED <<brokerVars, historyVars>>
      /\ StoreResult(TaskOf(h), "FAILURE") \/ UNCHANGED backendVars
      /\ Return(s, "dead_letter", Escape) \/ Raise(s, Escape)
  BY DEF StoreFailure, BackendCall
<1>2. PICK r \in {"free", "dead_letter"} : Goto(s, r) /\ (Calm' => r = "dead_letter")
  BY <1>1, CallEnds DEF Escape, IInv
<1>3. r \in Places \ {"waiting"}
  BY DEF Places, InHandler
<1>4. (Calm' => Calm) /\ ran' = ran /\ DeadCopies' = DeadCopies
      /\ Pending(DefaultQueue)' = Pending(DefaultQueue)
  BY <1>1, CallEnds DEF IInv, historyVars, brokerVars, DeadCopies, Pending
<1>5. \A t \in Tasks : state'[t] = state[t] \/ t = TaskOf(h)
  BY <1>1, AtHand DEF StoreResult, backendVars, IInv, TypeOK
<1>6. Respects(s, h, r)
  BY <1>1, <1>2, <1>4, <1>5, AtHand DEF Respects, Knows, Spent, BeforeRun, Terminal
<1>7. QED
  BY <1>1, <1>2, <1>3, <1>4, <1>5, <1>6, BackendKeeps

\* After a success at-least-once work goes on to its ack; at-most-once work was
\* acknowledged before it ran.
LEMMA StoreSuccessDelivers ==
    ASSUME IInv, DInv, IInv', NEW s \in Slots, StoreSuccess(s) PROVE DInv'
<1> PICK h : h = holds[s]
  OBVIOUS
<1> PICK p : p = IF ModeOf[TaskOf(h)] = ALO THEN "ack" ELSE "free"
  OBVIOUS
<1>1. /\ pc[s] = "store_success" /\ UNCHANGED <<brokerVars, historyVars>>
      /\ state' = [state EXCEPT ![TaskOf(h)] = "SUCCESS"] \/ UNCHANGED backendVars
      /\ Return(s, p, Caught(h)) \/ Raise(s, Caught(h))
  BY DEF StoreSuccess, BackendCall, StoreResult
<1>2. PICK r \in Caught(h) \cup {p} : Goto(s, r) /\ (Calm' => r = p)
  BY <1>1, CallEnds DEF IInv
<1>3. /\ p \in {"ack", "free"} /\ (p = "ack" <=> ModeOf[TaskOf(h)] = ALO)
      /\ r \in {p, "store_failure", "retry_state"} /\ r \in Places \ {"waiting"}
      /\ r = "retry_state" => InBudget(h)
  BY DEF Places, InHandler, Caught, InBudget
<1>4. (Calm' => Calm) /\ ran' = ran /\ DeadCopies' = DeadCopies
      /\ Pending(DefaultQueue)' = Pending(DefaultQueue)
  BY <1>1, CallEnds DEF IInv, historyVars, brokerVars, DeadCopies, Pending
<1>5. \A t \in Tasks : state'[t] = state[t] \/ t = TaskOf(h)
  BY <1>1, AtHand DEF backendVars, IInv, TypeOK
<1>6. Respects(s, h, r)
  BY <1>1, <1>2, <1>3, <1>4, <1>5, AtHand DEF Respects, Knows, Spent, BeforeRun, Terminal
<1>7. QED
  BY <1>1, <1>2, <1>3, <1>4, <1>5, <1>6, BackendKeeps

\* A slot that runs its copy has not run it before, if at most once or without faults.
LEMMA RunDelivers ==
    ASSUME IInv, DInv, IInv', NEW s \in Slots, Run(s) PROVE DInv'
<1> PICK h : h = holds[s]
  OBVIOUS
<1>1. /\ pc[s] = "running" /\ UNCHANGED <<brokerVars, backendVars, faults>>
      /\ ran' = ran \cup {h} /\ reran' = reran \cup (ran \cap {h})
      /\ \E p \in {"store_success", "store_failure", "retry_state"} :
            Goto(s, p) /\ (p = "retry_state" => InBudget(h))
  BY DEF Run, Caught, InBudget
<1>2. PICK p \in {"store_success", "store_failure", "retry_state"} :
            Goto(s, p) /\ (p = "retry_state" => InBudget(h))
  BY <1>1
<1>3. p \in Places \ {"waiting"}
  BY DEF Places, InHandler
<1>4. /\ Serves /\ msgs' = msgs /\ dead' = dead
      /\ Pending(DefaultQueue)' = Pending(DefaultQueue)
  BY <1>1, StutterServes DEF DInv
<1>5. /\ Publishes /\ Calm' = Calm /\ state' = state
      /\ Dead' /\ DeadCopies' = DeadCopies
  BY <1>1, <1>2, <1>4, SameDead DEF Publishes, Copies, Goto, Calm, backendVars
<1>6. Once'
  <2>1. /\ h \in Copies /\ reran \subseteq Copies
        /\ (Calm \/ IsAMO(h)) => h \notin ran
    BY <1>1, AtHand, KnownCopies DEF Knows, BeforeRun
  <2>2. RunOnceWhenCalm'
    BY <1>1, <1>5, <2>1 DEF DInv, Once, RunOnceWhenCalm
  <2>3. ASSUME NEW c \in reran' PROVE ModeOf[TaskOf(c)'] = ALO
    <3>1. c \in Copies /\ TaskOf(c)' = TaskOf(c)
      BY <1>1, <1>4, <2>1, <2>3, SameMessage
    <3>2. CASE c \in reran
      BY <3>1, <3>2 DEF DInv, Once, AtMostOnce
    <3>3. CASE c = h /\ h \in ran
      BY <2>1, <3>1, <3>3, Modes
    <3>4. QED
      BY <1>1, <2>3, <3>2, <3>3
  <2>4. QED
    BY <2>2, <2>3 DEF Once, AtMostOnce
<1>7. Respects(s, h, p)
  BY <1>1, <1>2, <1>4, <1>5, AtHand DEF Respects, Knows, Spent, BeforeRun
<1>8. QED
  BY <1>1, <1>2, <1>3, <1>4, <1>5, <1>6, <1>7, HandlerKeeps

\* The slot goes on after its ack: an ack that returns has gone through.
Ends(s, h, p, P) ==
    \E r \in P \cup {p} :
        /\ Goto(s, r)
        /\ r = p /\ p \notin P => h \notin Pending(DefaultQueue)'
        /\ Calm' => r = p /\ h \notin Pending(DefaultQueue)'

\* How a call of ack() ends.
LEMMA AckEnds ==
    ASSUME OrdinaryUse, IInv, DInv, NEW s \in Slots, NEW h, NEW p, NEW P,
           \/ Ack(DefaultQueue, h) /\ Return(s, p, P)
           \/ UNCHANGED brokerVars /\ Raise(s, P)
    PROVE  /\ Serves /\ msgs' = msgs /\ Dead' /\ DeadCopies' = DeadCopies /\ (Calm' => Calm)
           /\ \/ Pending(DefaultQueue)' = Pending(DefaultQueue)
              \/ Pending(DefaultQueue)' = Pending(DefaultQueue) \ {h}
           /\ Ends(s, h, p, P)
<1>1. CASE Ack(DefaultQueue, h) /\ Return(s, p, P)
  <2>1. /\ Serves /\ msgs' = msgs /\ dead' = dead
        /\ Pending(DefaultQueue)' = Pending(DefaultQueue) \ {h}
    BY <1>1, AckServes DEF Ack, OrdinaryUse, DInv, IInv, TypeOK, BrokerInv
  <2>2. (Calm' => Calm) /\ \E r \in P \cup {p} : Goto(s, r) /\ (Calm' => r = p)
    BY <1>1, CallEnds DEF IInv
  <2>3. QED
    BY <2>1, <2>2, SameDead DEF Ends
<1>2. CASE UNCHANGED brokerVars /\ Raise(s, P)
  <2>1. /\ Serves /\ msgs' = msgs /\ dead' = dead
        /\ Pending(DefaultQueue)' = Pending(DefaultQueue)
    BY <1>2, StutterServes DEF DInv
  <2>2. (Calm' => Calm) /\ ~Calm' /\ \E r \in P : Goto(s, r)
    BY <1>2, CallEnds DEF IInv, Raise
  <2>3. PICK r \in P : Goto(s, r)
    BY <2>2
  <2>4. r \in P \cup {p} /\ ~(r = p /\ p \notin P)
    OBVIOUS
  <2>5. QED
    BY <2>1, <2>2, <2>3, <2>4, SameDead DEF Ends
<1>3. QED
  BY <1>1, <1>2

\* At-most-once work starts once its ack has gone through.
LEMMA EarlyAckDelivers ==
    ASSUME OrdinaryUse, IInv, DInv, IInv', NEW s \in Slots, EarlyAck(s) PROVE DInv'
<1> PICK h : h = holds[s]
  OBVIOUS
<1>1. /\ pc[s] = "early_ack" /\ UNCHANGED <<backendVars, historyVars>>
      /\ \/ Ack(DefaultQueue, h) /\ Return(s, "running", Escape)
         \/ UNCHANGED brokerVars /\ Raise(s, Escape)
  BY DEF EarlyAck, BrokerCall
<1>2. /\ Serves /\ msgs' = msgs /\ Dead' /\ DeadCopies' = DeadCopies /\ (Calm' => Calm)
      /\ \/ Pending(DefaultQueue)' = Pending(DefaultQueue)
         \/ Pending(DefaultQueue)' = Pending(DefaultQueue) \ {h}
  BY <1>1, AckEnds
<1>3. PICK r \in {"free", "running"} :
         /\ Goto(s, r)
         /\ r = "running" => h \notin Pending(DefaultQueue)'
         /\ Calm' => r = "running"
  <2>1. Ends(s, h, "running", Escape)
    BY <1>1, AckEnds
  <2>2. QED
    BY <2>1 DEF Ends, Escape
<1>4. r \in Places \ {"waiting"}
  BY DEF Places, InHandler
<1>5. IsAMO(h) /\ ~IsALO(h) /\ h \notin ran /\ h \notin DeadCopies
  BY <1>1, AtHand DEF IInv, SlotInv, Knows, BeforeRun
<1>6. ran' = ran /\ state' = state
  BY <1>1 DEF historyVars, backendVars
<1>7. Respects(s, h, r)
  BY <1>1, <1>2, <1>3, <1>5, <1>6 DEF Respects
<1>8. QED
  BY <1>1, <1>2, <1>3, <1>4, <1>7, BrokerKeeps

\* An ack that raises leaves the task to the except clauses.
LEMMA AckDoneDelivers ==
    ASSUME OrdinaryUse, IInv, DInv, IInv', NEW s \in Slots, AckDone(s) PROVE DInv'
<1> PICK h : h = holds[s]
  OBVIOUS
<1>1. /\ pc[s] = "ack" /\ UNCHANGED <<backendVars, historyVars>>
      /\ \/ Ack(DefaultQueue, h) /\ Return(s, "free", Caught(h))
         \/ UNCHANGED brokerVars /\ Raise(s, Caught(h))
  BY DEF AckDone, BrokerCall
<1>2. /\ Serves /\ msgs' = msgs /\ Dead' /\ DeadCopies' = DeadCopies /\ (Calm' => Calm)
      /\ \/ Pending(DefaultQueue)' = Pending(DefaultQueue)
         \/ Pending(DefaultQueue)' = Pending(DefaultQueue) \ {h}
  BY <1>1, AckEnds
<1>3. PICK r \in Caught(h) \cup {"free"} :
         /\ Goto(s, r)
         /\ Calm' => r = "free" /\ h \notin Pending(DefaultQueue)'
  <2>1. Ends(s, h, "free", Caught(h))
    BY <1>1, AckEnds
  <2>2. QED
    BY <2>1 DEF Ends
<1>4. /\ r \in {"free", "store_failure", "retry_state"} /\ r \in Places \ {"waiting"}
      /\ r = "retry_state" => InBudget(h)
  BY DEF Places, InHandler, Caught, InBudget
<1>5. ran' = ran /\ state' = state
  BY <1>1 DEF historyVars, backendVars
<1>6. Respects(s, h, r)
  BY <1>1, <1>2, <1>3, <1>4, <1>5, AtHand DEF Respects, Knows, Spent, BeforeRun
<1>7. QED
  BY <1>1, <1>2, <1>3, <1>4, <1>6, BrokerKeeps

\* The last ack of an attempt, whose task is over or has its next attempt.
LEMMA LastAckDelivers ==
    ASSUME OrdinaryUse, IInv, DInv, IInv', NEW s \in Slots, RetryAck(s) \/ Finalize(s)
    PROVE  DInv'
<1> PICK h : h = holds[s]
  OBVIOUS
<1>1. /\ pc[s] \in {"retry_ack", "finalize"} /\ UNCHANGED <<backendVars, historyVars>>
      /\ \/ Ack(DefaultQueue, h) /\ Return(s, "free", Escape)
         \/ UNCHANGED brokerVars /\ Raise(s, Escape)
  BY DEF RetryAck, Finalize, NackDrop, BrokerCall
<1>2. /\ Serves /\ msgs' = msgs /\ Dead' /\ DeadCopies' = DeadCopies /\ (Calm' => Calm)
      /\ \/ Pending(DefaultQueue)' = Pending(DefaultQueue)
         \/ Pending(DefaultQueue)' = Pending(DefaultQueue) \ {h}
  BY <1>1, AckEnds
<1>3. Ends(s, h, "free", Escape)
  BY <1>1, AckEnds
<1>4. Goto(s, "free") /\ (Calm' => h \notin Pending(DefaultQueue)')
  BY <1>3 DEF Ends, Escape
<1>5. ran' = ran /\ state' = state
  BY <1>1 DEF historyVars, backendVars
<1>6. Respects(s, h, "free")
  BY <1>1, <1>2, <1>4, <1>5, AtHand DEF Respects, Knows, Spent, BeforeRun
<1>7. "free" \in Places \ {"waiting"}
  BY DEF Places
<1>8. QED
  BY <1>1, <1>2, <1>4, <1>6, <1>7, BrokerKeeps

\* move_to_dlq() acknowledges what it dead-letters, and what it dead-letters is new there.
LEMMA MoveToDlqDead ==
    ASSUME IInv, DInv, BrokerMode = ALO, NEW h \in Nat, h \notin DeadCopies,
           MoveToDlq(DefaultQueue, h)
    PROVE  /\ Serves /\ msgs' = msgs /\ Dead' /\ DeadCopies' = DeadCopies \cup {h}
           /\ Pending(DefaultQueue)' = Pending(DefaultQueue) \ {h}
<1> PICK e : e = [copy |-> h, queue |-> DefaultQueue]
  OBVIOUS
<1>1. /\ XAck(DefaultQueue, h) /\ UNCHANGED <<msgs, delayed, stream, cursor, group>>
      /\ dead' = Append(dead, e)
  BY DEF MoveToDlq
<1>2. Serves /\ msgs' = msgs /\ Pending(DefaultQueue)' = Pending(DefaultQueue) \ {h}
  BY <1>1, AckServes DEF DInv, IInv, TypeOK, BrokerInv
<1>3. dead \in Seq(DeadEntry) /\ e \in DeadEntry /\ e.copy = h /\ e.queue = DefaultQueue
  BY BrokerAssumption DEF IInv, TypeOK, BrokerTypeOK, DeadEntry
<1>4. /\ DOMAIN dead' = 1 .. Len(dead) + 1 /\ Len(dead) \in Nat /\ DOMAIN dead = 1 .. Len(dead)
      /\ \A d \in DOMAIN dead : dead'[d] = dead[d]
      /\ dead'[Len(dead) + 1] = e
  BY <1>1, <1>3
<1>5. \A d \in DOMAIN dead' : d \in DOMAIN dead \/ d = Len(dead) + 1
  BY <1>4
<1>6. \A d \in DOMAIN dead : d \in DOMAIN dead' /\ dead[d].copy # h
  BY <1>4 DEF DeadCopies
<1>7. DeadCopies' = DeadCopies \cup {h}
  <2>1. \A d \in DOMAIN dead' : dead'[d].copy \in DeadCopies \cup {h}
    BY <1>3, <1>4, <1>5 DEF DeadCopies
  <2>2. \A d \in DOMAIN dead : dead[d].copy \in DeadCopies'
    BY <1>4, <1>6 DEF DeadCopies
  <2>3. h \in DeadCopies'
    <3>1. Len(dead) + 1 \in DOMAIN dead'
      BY <1>4
    <3>2. QED
      BY <1>3, <1>4, <3>1 DEF DeadCopies
  <2>4. QED
    BY <2>1, <2>2, <2>3 DEF DeadCopies
<1>8. Dead'
  <2>1. \A d \in DOMAIN dead' : dead'[d].queue = DefaultQueue
    BY <1>3, <1>4, <1>5 DEF DInv, Dead
  <2>2. ASSUME NEW d \in DOMAIN dead', NEW f \in DOMAIN dead', dead'[d].copy = dead'[f].copy
        PROVE  d = f
    BY <1>3, <1>4, <1>5, <1>6, <2>2 DEF DInv, Dead, DeadOnce
  <2>3. QED
    BY <2>1, <2>2 DEF Dead, DeadOnce
<1>9. QED
  BY <1>2, <1>7, <1>8

\* The copy of a task that failed for good leaves the PEL for the DLQ, or is dropped.
LEMMA DeadLetterDelivers ==
    ASSUME OrdinaryUse, IInv, DInv, IInv', NEW s \in Slots, DeadLetter(s) PROVE DInv'
<1> PICK h : h = holds[s]
  OBVIOUS
<1>1. /\ pc[s] = "dead_letter" /\ UNCHANGED <<backendVars, historyVars>>
      /\ \/ MoveToDlq(DefaultQueue, h) /\ Return(s, "free", {"finalize"})
         \/ Ack(DefaultQueue, h) /\ Return(s, "free", {"finalize"})
         \/ UNCHANGED brokerVars /\ Raise(s, {"finalize"})
  BY DEF DeadLetter, BrokerCall, NackDrop, OrdinaryUse, Slots
<1>2. h \in Nat /\ h \in Copies /\ h \notin DeadCopies /\ Spent(h)
  BY <1>1, HeldHere DEF Knows
<1>3. ran' = ran /\ state' = state
  BY <1>1 DEF historyVars, backendVars
<1>4. {"free", "finalize"} \subseteq Places \ {"waiting"}
  BY DEF Places, InHandler
<1>5. CASE MoveToDlq(DefaultQueue, h) /\ Return(s, "free", {"finalize"})
  <2>1. /\ Serves /\ msgs' = msgs /\ Dead' /\ DeadCopies' = DeadCopies \cup {h}
        /\ Pending(DefaultQueue)' = Pending(DefaultQueue) \ {h}
    BY <1>2, <1>5, MoveToDlqDead DEF OrdinaryUse
  <2>2. Calm' => Calm
    BY <1>5, CallEnds DEF IInv
  <2>3. PICK r \in {"finalize", "free"} : Goto(s, r) /\ (Calm' => r = "free")
    BY <1>5, CallEnds DEF IInv
  <2>4. Respects(s, h, r)
    BY <1>1, <1>2, <1>3, <2>1, <2>3 DEF Respects, BeforeRun
  <2>5. QED
    BY <1>1, <1>4, <2>1, <2>2, <2>3, <2>4, BrokerKeeps
<1>6. CASE \/ Ack(DefaultQueue, h) /\ Return(s, "free", {"finalize"})
           \/ UNCHANGED brokerVars /\ Raise(s, {"finalize"})
  <2>1. /\ Serves /\ msgs' = msgs /\ Dead' /\ DeadCopies' = DeadCopies /\ (Calm' => Calm)
        /\ \/ Pending(DefaultQueue)' = Pending(DefaultQueue)
           \/ Pending(DefaultQueue)' = Pending(DefaultQueue) \ {h}
    BY <1>6, AckEnds
  <2>2. PICK r \in {"finalize"} \cup {"free"} :
           /\ Goto(s, r)
           /\ Calm' => r = "free" /\ h \notin Pending(DefaultQueue)'
    <3>1. Ends(s, h, "free", {"finalize"})
      BY <1>6, AckEnds
    <3>2. QED
      BY <3>1 DEF Ends
  <2>3. Respects(s, h, r)
    BY <1>1, <1>2, <1>3, <2>1, <2>2 DEF Respects, BeforeRun, Spent
  <2>4. r \in Places \ {"waiting"}
    BY <1>4
  <2>5. QED
    BY <1>1, <2>1, <2>2, <2>3, <2>4, BrokerKeeps
<1>7. QED
  BY <1>1, <1>5, <1>6

\* The next attempt comes after every other one, and its predecessor goes on to its
\* ack, or was acknowledged before it ran.
LEMMA NextAttempt ==
    ASSUME IInv, DInv, NEW s \in Slots, pc[s] = "republish", NEW h, h = holds[s],
           NEW g \in Nat, g = Len(msgs) + 1, Serves, Copies' = Copies \cup {g},
           \A x \in Copies : x < g,
           msgs'[g] = [msgs[h] EXCEPT !.retries = @ + 1],
           Pending(DefaultQueue)' = Pending(DefaultQueue), dead' = dead,
           UNCHANGED <<backendVars, historyVars>>, Calm' => Calm,
           NEW r \in Places, Goto(s, r),
           Calm' => r = IF IsALO(h) THEN "retry_ack" ELSE "free"
    PROVE  Publishes
<1>1. /\ h \in Copies /\ h \in Nat /\ h < g /\ Open(h) /\ ~Fresh(h) /\ Knows(s)
      /\ ~HeldAt(h, {"ack", "dead_letter", "retry_ack"}) /\ ~HeldAt(h, {"retry_ack"})
  BY HeldHere
<1>2. /\ msgs[h] \in Message /\ msgs[h].retries \in Nat /\ MaxRetries \in Nat
      /\ msgs'[g].task = TaskOf(h) /\ msgs'[g].retries = msgs[h].retries + 1
  <2>1. msgs \in Seq(Message)
    BY DEF IInv, TypeOK, BrokerTypeOK
  <2>2. msgs[h] \in Message
    BY <1>1, <2>1 DEF Copies
  <2>3. QED
    BY <2>2, WorkerAssumption DEF Message, TaskOf
<1>3. TaskOf(g)' = TaskOf(h)
  BY <1>2 DEF TaskOf
<1>4. TaskOf(g)' \in RaisesRetry \/ msgs'[g].retries <= MaxRetries
  BY <1>1, <1>2, <1>3 DEF Knows, InBudget
<1>5. Closed(g)'
  <2>1. Calm => state[TaskOf(h)] \notin Terminal
    BY <1>1 DEF DInv, Closed
  <2>2. QED
    BY <1>3, <2>1 DEF Closed, backendVars
<1>6. Concerns(h)
  <2>1. DeadCopies' = DeadCopies /\ ran' = ran /\ state' = state
    BY DEF DeadCopies, historyVars, backendVars
  <2>2. QED
    BY <2>1, HandlerConcerns
<1>7. ASSUME NEW x \in Copies, Calm', TaskOf(x) = TaskOf(h), Open(x)'
      PROVE  msgs[x].retries < msgs[h].retries + 1 /\ HeldAt(x, {"retry_ack"})'
  <2>1. CASE x = h
    <3>1. IsALO(h)
      <4>1. SUFFICES ASSUME ~IsALO(h) PROVE FALSE
        OBVIOUS
      <4>2. r = "free" /\ IsAMO(h)
        BY <1>1, <1>7, <4>1, Modes
      <4>3. ~Held(h)'
        BY <4>2, HeldThere
      <4>4. h \notin Pending(DefaultQueue)'
        BY <1>1, <4>2 DEF Knows
      <4>5. ~Fresh(h)'
        BY <1>1 DEF Serves
      <4>6. QED
        BY <1>7, <2>1, <4>3, <4>4, <4>5 DEF Open
    <3>2. r = "retry_ack"
      BY <1>7, <3>1
    <3>3. HeldAt(h, {"retry_ack"})'
      BY <3>2, HeldThere
    <3>4. QED
      BY <1>2, <2>1, <3>3
  <2>2. CASE x # h
    <3>1. Open(x) /\ Calm
      BY <1>6, <1>7, <2>2, OtherOpen
    <3>2. x \in Nat /\ msgs[x].retries \in Nat
      <4>1. msgs \in Seq(Message) /\ x \in Nat
        BY TaskOfType DEF IInv, TypeOK, BrokerTypeOK
      <4>2. msgs[x] \in Message
        BY <4>1 DEF Copies
      <4>3. QED
        BY <4>1, <4>2 DEF Message
    <3>3. ~(h < x)
      BY <1>1, <1>7, <3>1 DEF DInv, Chain
    <3>4. x < h
      BY <1>1, <2>2, <3>2, <3>3
    <3>5. msgs[x].retries < msgs[h].retries /\ HeldAt(x, {"retry_ack"})
      BY <1>1, <1>7, <3>1, <3>4 DEF DInv, Chain
    <3>6. HeldAt(x, {"retry_ack"})'
      BY <1>6, <1>7, <2>2, <3>5, OtherHeld
    <3>7. QED
      BY <1>2, <3>2, <3>5, <3>6
  <2>3. QED
    BY <2>1, <2>2
<1>8. ASSUME NEW x \in Copies' PROVE Chain(x, g)'
  <2>1. CASE x = g
    <3>1. ~(x < g)
      BY <2>1
    <3>2. QED
      BY <3>1 DEF Chain
  <2>2. CASE x \in Copies
    <3>1. TaskOf(x)' = TaskOf(x) /\ msgs'[x] = msgs[x]
      BY <2>2, SameMessage
    <3>2. QED
      BY <1>2, <1>3, <1>7, <2>2, <3>1 DEF Chain
  <2>3. QED
    BY <2>1, <2>2
<1>9. QED
  BY <1>4, <1>5, <1>8 DEF Publishes

\* _handle_retry() publishes the next attempt of a task that has not ended.
LEMMA RepublishDelivers ==
    ASSUME IInv, DInv, IInv', NEW s \in Slots, Republish(s) PROVE DInv'
<1> PICK h : h = holds[s]
  OBVIOUS
<1> PICK m : m = [msgs[h] EXCEPT !.retries = @ + 1]
  OBVIOUS
<1> PICK p : p = IF ModeOf[msgs[h].task] = ALO THEN "retry_ack" ELSE "free"
  OBVIOUS
<1>1. /\ pc[s] = "republish" /\ UNCHANGED <<backendVars, historyVars>>
      /\ \/ (\E later \in BOOLEAN : Publish(m, DefaultQueue, later))
            /\ Return(s, p, Escape)
         \/ UNCHANGED brokerVars /\ Raise(s, Escape)
  BY DEF Republish, BrokerCall
<1>2. PICK r \in Escape \cup {p} : Goto(s, r) /\ (Calm' => r = p)
  BY <1>1, CallEnds DEF IInv
<1>3. /\ r \in {"free", "retry_ack"} /\ r \in Places \ {"waiting"}
      /\ p = IF IsALO(h) THEN "retry_ack" ELSE "free"
  BY DEF Escape, Places, InHandler, IsALO, TaskOf
<1>4. /\ (Calm' => Calm) /\ (Raise(s, Escape) => ~Calm')
      /\ ran' = ran /\ reran' = reran /\ state' = state
  BY <1>1, CallEnds DEF IInv, historyVars, backendVars
<1>5. ASSUME Pending(DefaultQueue)' = Pending(DefaultQueue), DeadCopies' = DeadCopies
      PROVE  Respects(s, h, r)
  <2>1. Calm' /\ r = "free" => h \notin Pending(DefaultQueue)
    BY <1>1, <1>2, <1>3, AtHand DEF Knows
  <2>2. QED
    BY <1>1, <1>3, <1>4, <1>5, <2>1, AtHand DEF Respects, Knows, Spent, BeforeRun
<1>6. CASE UNCHANGED brokerVars /\ Raise(s, Escape)
  <2>1. /\ Serves /\ msgs' = msgs /\ dead' = dead
        /\ Pending(DefaultQueue)' = Pending(DefaultQueue)
    BY <1>6, StutterServes DEF DInv
  <2>2. Dead' /\ DeadCopies' = DeadCopies
    BY <2>1, SameDead
  <2>3. QED
    BY <1>1, <1>2, <1>3, <1>4, <1>5, <2>1, <2>2, BrokerKeeps
<1>7. CASE \E later \in BOOLEAN : Publish(m, DefaultQueue, later)
  <2> PICK g : g = Len(msgs) + 1
    OBVIOUS
  <2>1. PICK later \in BOOLEAN : Publish(m, DefaultQueue, later)
    BY <1>7
  <2>2. /\ BrokerInv /\ BrokerPart /\ DefaultQueue \in Queues /\ g \in Nat /\ m \in Message
    <3>1. h \in Copies /\ msgs \in Seq(Message)
      BY <1>1, AtHand DEF IInv, TypeOK, BrokerTypeOK
    <3>2. msgs[h] \in Message
      BY <3>1 DEF Copies
    <3>3. m \in Message /\ g \in Nat
      BY <3>1, <3>2 DEF Message
    <3>4. QED
      BY <3>3, BrokerAssumption DEF DInv, IInv, TypeOK, BrokerInv
  <2>3. /\ Serves /\ Copies' = Copies \cup {g} /\ msgs'[g] = m /\ \A x \in Copies : x < g
        /\ Pending(DefaultQueue)' = Pending(DefaultQueue) /\ dead' = dead
    BY <2>1, <2>2, PublishServes
  <2>4. Publishes
    BY <1>1, <1>2, <1>3, <1>4, <2>2, <2>3, NextAttempt
  <2>5. Dead' /\ DeadCopies' = DeadCopies /\ Once'
    BY <1>4, <2>3, SameDead, SameOnce
  <2>6. Respects(s, h, r)
    BY <1>5, <2>3, <2>5
  <2>7. QED
    BY <1>1, <1>2, <1>3, <1>4, <2>3, <2>4, <2>5, <2>6, HandlerKeeps
<1>8. QED
  BY <1>1, <1>6, <1>7

\* Every step of _process_envelope() keeps the invariant.
LEMMA HandleDelivers ==
    ASSUME OrdinaryUse, IInv, DInv, IInv', NEW s \in Slots, Handle(s) PROVE DInv'
BY AcquireDelivers, MarkStartedDelivers, EarlyAckDelivers, RunDelivers,
   StoreSuccessDelivers, AckDoneDelivers, RetryStateDelivers, RepublishDelivers,
   LastAckDelivers, StoreFailureDelivers, DeadLetterDelivers DEF Handle

--------------------------------------------------------------------------------
(* The client, the consume loop, the delayed mover and crashes.            *)

\* A step that moves no slot, publishes nothing and at most drops the pending entry of
\* a copy that no slot holds.
LEMMA StillDelivers ==
    ASSUME IInv, DInv, IInv', NEW h, h \in Copies \/ h = 0, ~Held(h) \/ h = 0,
           Serves, msgs' = msgs, dead' = dead,
           \/ Pending(DefaultQueue)' = Pending(DefaultQueue)
           \/ Pending(DefaultQueue)' = Pending(DefaultQueue) \ {h},
           UNCHANGED <<pc, holds, backendVars, historyVars, boundVars>>
    PROVE  DInv'
<1>1. /\ ran' = ran /\ reran' = reran /\ state' = state /\ Calm' = Calm
      /\ Dead' /\ DeadCopies' = DeadCopies
  BY SameDead DEF historyVars, backendVars, boundVars, Calm
<1>2. Publishes
  BY DEF Publishes, Copies
<1>3. Once'
  BY <1>1, SameOnce
<1>4. SoleHolder'
  BY DEF DInv, SoleHolder
<1>5. Concerns(h)
  BY <1>1 DEF Concerns
<1>6. ASSUME h \in Copies PROVE Rightly(h)
  <2>1. ~Held(h) /\ ~Held(h)'
    BY <1>6 DEF Held, Copies
  <2>2. \A P : "free" \notin P => ~HeldAt(h, P) /\ ~HeldAt(h, P)'
    BY <2>1 DEF Held, HeldAt
  <2>3. /\ h \in Pending(DefaultQueue)' => h \in Pending(DefaultQueue)
        /\ Fresh(h)' => Fresh(h)
        /\ IsAMO(h)' = IsAMO(h) /\ TaskOf(h)' = TaskOf(h)
    BY <1>6, SameMessage DEF Serves
  <2>4. (Open(h)' => Open(h)) /\ (Used(h)' => ~Fresh(h)')
    BY <1>1, <1>6, <2>1, <2>3 DEF Open, Used, DInv, Settled
  <2>5. \A r \in Slots : pc'[r] # "free" => holds'[r] # h
    BY <2>1 DEF Held
  <2>6. Spent(h)'
    BY <1>1, <1>6, <2>1, <2>3 DEF DInv, Spent
  <2>7. Closed(h)'
    BY <1>1, <1>6, <2>2, <2>3, <2>4 DEF DInv, Closed
  <2>8. QED
    BY <1>1, <2>2, <2>4, <2>5, <2>6, <2>7 DEF Rightly
<1>7. QED
  BY <1>1, <1>2, <1>3, <1>4, <1>5, <1>6, StepKeeps DEF Rightly

\* A free slot takes a copy that is open, has not run, and that nobody holds.
LEMMA AcceptDelivers ==
    ASSUME IInv, DInv, IInv', NEW s \in Slots, pc[s] = "free", NEW h \in Copies,
           Accept(s, h), Serves, msgs' = msgs, dead' = dead, Open(h), ~Held(h), ~Fresh(h)',
           h \notin DeadCopies, Calm \/ IsAMO(h) => h \notin ran,
           h \in Pending(DefaultQueue)',
           Pending(DefaultQueue)' = Pending(DefaultQueue) \cup {h}
    PROVE  DInv'
<1>1. /\ ran' = ran /\ reran' = reran /\ state' = state /\ Calm' = Calm
      /\ Dead' /\ DeadCopies' = DeadCopies
  BY SameDead DEF Accept, historyVars, backendVars, boundVars, Calm
<1>2. /\ pc'[s] = "waiting" /\ holds'[s] = h
      /\ \A r \in Slots : r # s => pc'[r] = pc[r] /\ holds'[r] = holds[r]
  BY DEF Accept, IInv, TypeOK
<1>3. Publishes
  BY DEF Publishes, Copies
<1>4. Once'
  BY <1>1, SameOnce
<1>5. \A r \in Slots : pc[r] # "free" => holds[r] # h
  BY DEF Held
<1>6. SoleHolder'
  <2>1. SUFFICES ASSUME NEW q \in Slots, NEW r \in Slots, pc'[q] # "free", pc'[r] # "free",
                        holds'[q] = holds'[r]
                 PROVE  q = r
    BY DEF SoleHolder
  <2>2. CASE q # s /\ r # s
    BY <1>2, <2>1, <2>2 DEF DInv, SoleHolder
  <2>3. CASE q = s \/ r = s
    BY <1>2, <1>5, <2>1, <2>3
  <2>4. QED
    BY <2>2, <2>3
<1>7. Concerns(h)
  <2>1. \A r \in Slots :
          \/ pc'[r] = pc[r] /\ holds'[r] = holds[r]
          \/ (pc[r] # "free" => holds[r] = h) /\ (pc'[r] # "free" => holds'[r] = h)
    BY <1>2
  <2>2. QED
    BY <1>1, <2>1 DEF Concerns
<1>8. \A P : "free" \notin P => ~HeldAt(h, P)
  BY <1>5 DEF HeldAt
<1>9. /\ IsALO(h)' = IsALO(h) /\ IsAMO(h)' = IsAMO(h) /\ TaskOf(h)' = TaskOf(h)
      /\ (IsALO(h) <=> ~IsAMO(h))
  BY SameMessage, Modes
<1>10. ASSUME NEW r \in Slots, pc'[r] # "free", holds'[r] = h PROVE Knows(r)'
  <2>1. r = s
    BY <1>2, <1>5, <1>10
  <2>2. IsALO(holds[r])' = IsALO(h)' /\ IsAMO(holds[r])' = IsAMO(h)'
    BY <1>10 DEF IsALO, IsAMO, TaskOf
  <2>3. QED
    BY <1>1, <1>2, <1>9, <1>10, <2>1, <2>2 DEF Knows, BeforeRun
<1>11. Spent(h)'
  <2>1. Held(h)'
    BY <1>2 DEF Held
  <2>2. QED
    BY <1>1, <1>9, <2>1 DEF Spent
<1>12. Closed(h)'
  <2>1. Calm => state[TaskOf(h)] \notin Terminal
    BY <1>8 DEF DInv, Closed
  <2>2. QED
    BY <1>1, <1>9, <2>1 DEF Closed
<1>13. ~HeldAt(h, {"retry_ack"})'
  BY <1>2, <1>5 DEF HeldAt
<1>14. Rightly(h)
  BY <1>1, <1>8, <1>10, <1>11, <1>12 DEF Rightly
<1>15. QED
  BY <1>1, <1>3, <1>4, <1>6, <1>7, <1>14, StepKeeps

\* What is read was new.
LEMMA ReceiveDelivers ==
    ASSUME OrdinaryUse, IInv, DInv, IInv', NEW s \in Slots, Receive(s) PROVE DInv'
<1> PICK h : h = NextUnread(DefaultQueue)
  OBVIOUS
<1>1. /\ pc[s] = "free" /\ ReadGroup(DefaultQueue, s[1]) /\ Accept(s, h) /\ s[1] \in Workers
  BY DEF Receive, OrdinaryUse, Slots
<1>2. /\ Serves /\ msgs' = msgs /\ dead' = dead
      /\ h \in Copies /\ Fresh(h) /\ ~Fresh(h)'
      /\ Pending(DefaultQueue)' = Pending(DefaultQueue) \cup {h}
  BY <1>1, ReadServes DEF DInv, IInv, TypeOK, BrokerInv
<1>3. ~Used(h)
  BY <1>2 DEF DInv, Settled
<1>4. QED
  BY <1>1, <1>2, <1>3, AcceptDelivers DEF Used, Open

\* What is claimed is pending and in nobody's hands, so it has not run, if at most once
\* or without faults.
LEMMA ClaimDelivers ==
    ASSUME OrdinaryUse, IInv, DInv, IInv', NEW s \in Slots, NEW h \in Copies, Claim(s, h)
    PROVE  DInv'
<1>1. /\ pc[s] = "free" /\ AutoClaim(DefaultQueue, s[1], h) /\ Accept(s, h)
      /\ s[1] \in Workers /\ ~Held(h)
  BY DEF Claim, OrdinaryUse, Slots, MayClaim
<1>2. /\ Serves /\ msgs' = msgs /\ dead' = dead /\ h \in Pending(DefaultQueue)
      /\ Pending(DefaultQueue)' = Pending(DefaultQueue)
  BY <1>1, ClaimServes DEF DInv, IInv, TypeOK, BrokerInv
<1>3. Pending(DefaultQueue)' = Pending(DefaultQueue) \cup {h}
  BY <1>2
<1>4. Open(h) /\ ~Fresh(h)' /\ Spent(h)
  BY <1>2 DEF Open, Used, DInv, Settled, Serves
<1>5. h \notin DeadCopies /\ (Calm \/ IsAMO(h) => h \notin ran)
  BY <1>1, <1>2, <1>4 DEF Spent
<1>6. QED
  BY <1>1, <1>2, <1>3, <1>4, <1>5, AcceptDelivers

\* The client publishes the first attempt of a task that has no state yet.
LEMMA DispatchDelivers ==
    ASSUME IInv, DInv, IInv', NEW t \in Tasks, Dispatch(t) PROVE DInv'
<1> PICK m : m = [task |-> t, retries |-> 0]
  OBVIOUS
<1> PICK g : g = Len(msgs) + 1
  OBVIOUS
<1>1. /\ Publish(m, RouteOf[t], FALSE) /\ ~Dispatched(t)
      /\ UNCHANGED <<slotVars, backendVars, historyVars, boundVars>>
  BY DEF Dispatch
<1>2. m \in Message /\ RouteOf[t] \in Queues /\ g \in Nat /\ BrokerInv /\ BrokerPart
  BY WorkerAssumption DEF IInv, DInv, TypeOK, BrokerInv, BrokerTypeOK, Message
<1>3. /\ Serves /\ Copies' = Copies \cup {g} /\ msgs'[g] = m /\ \A x \in Copies : x < g
      /\ Pending(DefaultQueue)' = Pending(DefaultQueue) /\ dead' = dead
  BY <1>1, <1>2, PublishServes
<1>4. /\ ran' = ran /\ reran' = reran /\ state' = state /\ Calm' = Calm
      /\ Dead' /\ DeadCopies' = DeadCopies
  BY <1>1, <1>3, SameDead DEF historyVars, backendVars, boundVars, Calm
<1>5. TaskOf(g)' = t
  BY <1>3 DEF TaskOf
<1>6. Publishes
  <2>1. state[t] \notin Terminal
    BY <1>1 DEF DInv, FinalsDispatched
  <2>2. Closed(g)'
    BY <1>4, <1>5, <2>1 DEF Closed
  <2>3. msgs'[g].retries <= MaxRetries
    BY <1>3, WorkerAssumption
  <2>4. ASSUME NEW x \in Copies' PROVE Chain(x, g)'
    <3>1. CASE x = g
      <4>1. ~(x < g)
        BY <1>2, <3>1
      <4>2. QED
        BY <4>1 DEF Chain
    <3>2. CASE x \in Copies
      <4>1. TaskOf(x)' # TaskOf(g)'
        BY <1>1, <1>3, <1>5, <3>2, SameMessage DEF Dispatched
      <4>2. QED
        BY <4>1 DEF Chain
    <3>3. QED
      BY <1>3, <3>1, <3>2
  <2>5. QED
    BY <1>3, <2>2, <2>3, <2>4 DEF Publishes
<1>7. Once' /\ SoleHolder'
  BY <1>1, <1>3, <1>4, SameOnce DEF DInv, SoleHolder, slotVars
<1>8. Concerns(0) /\ 0 \notin Copies
  BY <1>1, <1>3, <1>4 DEF Concerns, Copies, slotVars
<1>9. Rightly(0)
  BY <1>8 DEF Rightly
<1>10. QED
  BY <1>3, <1>4, <1>6, <1>7, <1>8, <1>9, StepKeeps

\* A crash frees slots, and is not without consequence.
LEMMA CrashDelivers ==
    ASSUME IInv, DInv, IInv', NEW w \in Workers, Crash(w) PROVE DInv'
<1>1. /\ pc' = [s \in Slots |-> IF s[1] = w THEN "free" ELSE pc[s]]
      /\ holds' = [s \in Slots |-> IF s[1] = w THEN 0 ELSE holds[s]]
      /\ crashes' = crashes + 1
      /\ UNCHANGED <<brokerVars, backendVars, historyVars, faults>>
  BY DEF Crash
<1>2. ~Calm'
  <2>1. crashes \in Nat
    BY DEF IInv, TypeOK
  <2>2. QED
    BY <1>1, <2>1 DEF Calm
<1>3. /\ Serves /\ msgs' = msgs /\ dead' = dead
      /\ Pending(DefaultQueue)' = Pending(DefaultQueue)
  BY <1>1, StutterServes DEF DInv
<1>4. /\ ran' = ran /\ reran' = reran /\ state' = state
      /\ Dead' /\ DeadCopies' = DeadCopies
  BY <1>1, <1>3, SameDead DEF historyVars, backendVars
<1>5. Publishes
  BY <1>3 DEF Publishes, Copies
<1>6. Once'
  BY <1>2, <1>3, <1>4, SameOnce
<1>7. \A r \in Slots : pc'[r] = "free" \/ (pc'[r] = pc[r] /\ holds'[r] = holds[r])
  BY <1>1
<1>8. SoleHolder'
  BY <1>7 DEF DInv, SoleHolder
<1>9. Concerns(0) /\ 0 \notin Copies
  BY <1>2, <1>3, <1>4, <1>7 DEF Concerns, Copies
<1>10. Rightly(0)
  BY <1>9 DEF Rightly
<1>11. QED
  BY <1>3, <1>4, <1>5, <1>6, <1>8, <1>9, <1>10, StepKeeps

\* The first worker creates the group.
LEMMA StartDelivers ==
    ASSUME IInv, DInv, IInv', NEW w \in Workers, Start(w) PROVE DInv'
<1>1. /\ EnsureConsumerGroup(QueueOf[w]) /\ QueueOf[w] \in Queues
      /\ UNCHANGED <<pc, holds, backendVars, historyVars, boundVars>>
  BY WorkerAssumption DEF Start
<1>2. /\ Serves /\ msgs' = msgs /\ dead' = dead
      /\ Pending(DefaultQueue)' = Pending(DefaultQueue)
  BY <1>1, EnsureServes DEF DInv, IInv, TypeOK, BrokerInv
<1>3. QED
  BY <1>1, <1>2, StillDelivers

\* What was delayed becomes unread.
LEMMA PromoteDelivers ==
    ASSUME IInv, DInv, IInv', NEW w \in Workers, NEW c \in Copies, Promote(w, c) PROVE DInv'
<1>1. /\ MoveReadyDelayed(QueueOf[w], c) /\ QueueOf[w] \in Queues /\ c \in Nat
      /\ UNCHANGED <<slotVars, backendVars, historyVars, boundVars>>
  BY WorkerAssumption, TaskOfType DEF Promote, IInv
<1>2. /\ Serves /\ msgs' = msgs /\ dead' = dead
      /\ Pending(DefaultQueue)' = Pending(DefaultQueue)
  BY <1>1, PromoteServes DEF DInv, IInv, TypeOK, BrokerInv
<1>3. QED
  BY <1>1, <1>2, StillDelivers DEF slotVars

\* The pending entry of a trimmed copy that nobody holds goes.
LEMMA ClaimTrimmedDelivers ==
    ASSUME OrdinaryUse, IInv, DInv, IInv', NEW w \in Workers, NEW c \in Copies,
           ClaimTrimmed(w, c)
    PROVE  DInv'
<1>1. /\ AutoClaimTrimmed(DefaultQueue, c) /\ ~Held(c)
      /\ UNCHANGED <<slotVars, backendVars, historyVars, boundVars>>
  BY DEF ClaimTrimmed, OrdinaryUse, MayClaim
<1>2. XAck(DefaultQueue, c) /\ UNCHANGED <<msgs, delayed, stream, cursor, group, dead, dlq>>
  BY <1>1 DEF AutoClaimTrimmed
<1>3. /\ Serves /\ msgs' = msgs
      /\ Pending(DefaultQueue)' = Pending(DefaultQueue) \ {c}
  BY <1>2, AckServes DEF DInv, IInv, TypeOK, BrokerInv
<1>4. QED
  BY <1>1, <1>2, <1>3, StillDelivers DEF slotVars

\* A step of nobody.
LEMMA StutterDelivers ==
    ASSUME IInv, DInv, IInv', UNCHANGED vars PROVE DInv'
<1>1. UNCHANGED <<brokerVars, slotVars, backendVars, historyVars, boundVars>>
  BY DEF vars
<1>2. /\ Serves /\ msgs' = msgs /\ dead' = dead
      /\ Pending(DefaultQueue)' = Pending(DefaultQueue)
  BY <1>1, StutterServes DEF DInv
<1>3. QED
  BY <1>1, <1>2, StillDelivers DEF slotVars

--------------------------------------------------------------------------------
(* The theorems.                                                           *)

\* Nothing is published, held or dead at first.
LEMMA InitDInv == Init => DInv
<1> SUFFICES ASSUME Init PROVE DInv
  OBVIOUS
<1>1. /\ Copies = {} /\ DeadCopies = {} /\ ran = {} /\ reran = {} /\ DOMAIN dead = {}
      /\ \A s \in Slots : pc[s] = "free"
      /\ \A t \in Tasks : state[t] = "PENDING"
      /\ \A q \in Queues : cursor[q] = 0 /\ pel[q] = {}
  BY DEF Init, BrokerInit, Copies, DeadCopies
<1>2. BrokerPart /\ Settled /\ SoleHolder
  BY <1>1 DEF BrokerPart, FromStart, Settled, SoleHolder
<1>3. Dead /\ Once /\ RetryBound /\ FinalsDispatched
  BY <1>1 DEF Dead, DeadOnce, Once, AtMostOnce, RunOnceWhenCalm, RetryBound,
              FinalsDispatched, Terminal
<1>4. \A s \in Slots : Knows(s)
  BY <1>1 DEF Knows, BeforeRun
<1>5. QED
  BY <1>1, <1>2, <1>3, <1>4 DEF DInv

\* In ordinary use every step keeps the invariant.
LEMMA NextDInv == OrdinaryUse /\ IInv /\ DInv /\ [Next]_vars => DInv'
<1> SUFFICES ASSUME OrdinaryUse, IInv, DInv, [Next]_vars PROVE DInv'
  OBVIOUS
<1>1. IInv'
  BY NextIInv
<1>2. CASE UNCHANGED vars
  BY <1>1, <1>2, StutterDelivers
<1>3. CASE Next
  BY <1>1, <1>3, DispatchDelivers, StartDelivers, CrashDelivers, PromoteDelivers,
     ClaimTrimmedDelivers, ClaimDelivers, ReceiveDelivers, HandleDelivers DEF Next
<1>4. QED
  BY <1>2, <1>3

\* The inductive invariant holds in every reachable state of ordinary use.
LEMMA DeliveryInductive == ASSUME OrdinaryUse PROVE Spec => [](IInv /\ DInv)
<1>1. IInv /\ DInv /\ [Next]_vars => IInv' /\ DInv'
  BY NextIInv, NextDInv
<1>2. Init => IInv /\ DInv
  BY InitIInv, InitDInv
<1>3. QED
  BY <1>1, <1>2, PTL DEF Spec

\* In ordinary use the delivery mode is kept: at-most-once work is acknowledged before
\* its function is called, and never called again; at-least-once work is pending when
\* its function is called, whatever crashes and faults there are.
THEOREM ModeKept == ASSUME OrdinaryUse PROVE Spec => []ModeIsKept
<1>1. ASSUME IInv, DInv PROVE ModeIsKept
  <2>1. AtMostOnce
    BY <1>1 DEF DInv, Once
  <2>2. ASSUME NEW s \in Slots, pc[s] = "running"
        PROVE  /\ Knows(s) /\ QueueOf[s[1]] = DefaultQueue
               /\ IsAMO(holds[s]) <=> ModeOf[TaskOf(holds[s])] = AMO
               /\ IsALO(holds[s]) <=> ModeOf[TaskOf(holds[s])] = ALO
    BY <1>1 DEF DInv, OrdinaryUse, Slots, IsAMO, IsALO
  <2>3. AckedBeforeRun
    BY <2>2 DEF AckedBeforeRun, Knows
  <2>4. NeverRunAfterAck
    BY <2>2 DEF NeverRunAfterAck, Knows
  <2>5. QED
    BY <2>1, <2>3, <2>4 DEF ModeIsKept
<1>2. QED
  BY <1>1, DeliveryInductive, PTL

\* In ordinary use the attempts of a task stay within its budget, and without faults
\* they form one chain.
THEOREM ChainKept == ASSUME OrdinaryUse PROVE Spec => []ChainWithinBudget
<1>1. ASSUME IInv, DInv PROVE ChainWithinBudget
  <2>1. RetryBound
    BY <1>1 DEF DInv
  <2>2. ASSUME NEW c \in Copies, Live(c) PROVE Open(c)
    <3>1. \A q \in Queues : q # DefaultQueue => Pending(q) = {}
      BY <1>1 DEF DInv, BrokerPart, Pending
    <3>2. QED
      BY <2>2, <3>1 DEF Live, Open, Fresh
  <2>3. OneRetryChain
    <3>1. SUFFICES ASSUME Calm, NEW c \in Copies, NEW d \in Copies,
                          c < d, TaskOf(c) = TaskOf(d), Live(c), Live(d)
                   PROVE  /\ msgs[c].retries < msgs[d].retries
                          /\ \E s \in Slots : pc[s] = "retry_ack" /\ holds[s] = c
      BY DEF OneRetryChain
    <3>2. msgs[c].retries < msgs[d].retries /\ HeldAt(c, {"retry_ack"})
      BY <1>1, <2>2, <3>1 DEF DInv, Chain
    <3>3. QED
      BY <3>2 DEF HeldAt
  <2>4. QED
    BY <2>1, <2>3 DEF ChainWithinBudget
<1>2. QED
  BY <1>1, DeliveryInductive, PTL

\* In ordinary use, without faults, the function of a task is called once per attempt.
THEOREM RunOnce == ASSUME OrdinaryUse PROVE Spec => []RunOnceWhenCalm
<1>1. DInv => RunOnceWhenCalm
  BY DEF DInv, Once
<1>2. QED
  BY <1>1, DeliveryInductive, PTL

\* In ordinary use a copy is dead-lettered once, and is not pending then.
THEOREM DeadKept == ASSUME OrdinaryUse PROVE Spec => []DeadForGood
<1>1. ASSUME IInv, DInv PROVE DeadForGood
  <2>1. ASSUME NEW d \in DOMAIN dead PROVE dead[d].copy \notin Pending(dead[d].queue)
    <3>1. dead[d].copy \in DeadCopies /\ dead[d].queue = DefaultQueue
      BY <1>1 DEF DInv, Dead, DeadCopies
    <3>2. QED
      BY <1>1, <3>1 DEF DInv, Settled, Spent
  <2>2. QED
    BY <1>1, <2>1 DEF DeadForGood, DeadNotPending, DInv, Dead
<1>2. QED
  BY <1>1, DeliveryInductive, PTL

\* A state is written for the copy of a slot that has not stored its outcome yet, or
\* whose call raised since.
LEMMA StateWriters ==
    ASSUME IInv, Next, NEW t \in Tasks, state'[t] # state[t]
    PROVE  \E s \in Slots :
              /\ pc[s] \in {"starting", "store_success", "retry_state", "store_failure"}
              /\ TaskOf(holds[s]) = t
<1>1. PICK s \in Slots : Handle(s)
  <2>1. UNCHANGED backendVars => state'[t] = state[t]
    BY DEF backendVars
  <2>2. QED
    BY <2>1 DEF Next, Dispatch, Start, Crash, Promote, ClaimTrimmed, Claim, Receive, Accept
<1>2. MarkStarted(s) \/ StoreSuccess(s) \/ RetryState(s) \/ StoreFailure(s)
  <2>1. UNCHANGED backendVars => state'[t] = state[t]
    BY DEF backendVars
  <2>2. QED
    BY <1>1, <2>1 DEF Handle, Acquire, EarlyAck, Run, AckDone, Republish, RetryAck,
                      DeadLetter, Finalize, BrokerCall
<1>3. /\ pc[s] \in {"starting", "store_success", "retry_state", "store_failure"}
      /\ \/ UNCHANGED backendVars
         \/ \E st \in {"STARTED", "SUCCESS", "RETRY", "FAILURE"} :
               state' = [state EXCEPT ![TaskOf(holds[s])] = st]
  BY <1>2 DEF MarkStarted, StoreSuccess, RetryState, StoreFailure, BackendCall,
              SetState, StoreResult
<1>4. TaskOf(holds[s]) = t
  BY <1>3 DEF backendVars, IInv, TypeOK
<1>5. QED
  BY <1>3, <1>4

\* Faults and crashes are not undone.
LEMMA CalmBefore == ASSUME TypeOK, [Next]_vars PROVE Calm' => Calm
<1>1. faults \in Nat /\ crashes \in Nat
  BY DEF TypeOK
<1>2. CASE UNCHANGED vars
  BY <1>2 DEF vars, boundVars, Calm
<1>3. CASE \E s \in Slots : Handle(s)
  <2>1. PICK s \in Slots : Handle(s)
    BY <1>3
  <2>2. CASE Acquire(s) \/ Run(s)
    BY <2>2 DEF Acquire, Run, Goto, Calm
  <2>3. CASE ~(Acquire(s) \/ Run(s))
    <3>1. \E p, P : Return(s, p, P) \/ Raise(s, P)
      BY <2>1, <2>3 DEF Handle, MarkStarted, EarlyAck, StoreSuccess, AckDone, RetryState,
                        Republish, RetryAck, StoreFailure, DeadLetter, Finalize,
                        BackendCall, BrokerCall
    <3>2. QED
      BY <3>1, CallEnds
  <2>4. QED
    BY <2>2, <2>3
<1>4. CASE \E w \in Workers : Crash(w)
  BY <1>1, <1>4 DEF Crash, Calm
<1>5. CASE UNCHANGED boundVars
  BY <1>5 DEF boundVars, Calm
<1>6. QED
  BY <1>2, <1>3, <1>4, <1>5
  DEF Next, Dispatch, Start, Promote, ClaimTrimmed, Claim, Receive, Accept

\* In ordinary use, without faults, a stored success or failure is never overwritten.
THEOREM FinalKept == ASSUME OrdinaryUse PROVE Spec => FinalState
<1>1. ASSUME IInv, DInv, [Next]_vars,
             NEW t \in Tasks, state[t] \in {"SUCCESS", "FAILURE"}, Calm'
      PROVE  state'[t] = state[t]
  <2>1. SUFFICES ASSUME state'[t] # state[t] PROVE FALSE
    OBVIOUS
  <2>2. Next /\ Calm
    BY <1>1, <2>1, CalmBefore DEF IInv, vars, backendVars
  <2>3. PICK s \in Slots :
           /\ pc[s] \in {"starting", "store_success", "retry_state", "store_failure"}
           /\ TaskOf(holds[s]) = t
    BY <1>1, <2>1, <2>2, StateWriters
  <2>4. PICK h : h = holds[s]
    OBVIOUS
  <2>5. /\ h \in Copies /\ Open(h)
        /\ ~HeldAt(h, {"ack", "dead_letter", "retry_ack"})
    BY <1>1, <2>3, <2>4, HeldHere
  <2>6. QED
    BY <1>1, <2>2, <2>3, <2>4, <2>5 DEF DInv, Closed, Terminal
<1>2. IInv /\ DInv /\ [Next]_vars =>
         [\A t \in Tasks : state[t] \in {"SUCCESS", "FAILURE"} /\ Calm'
             => state'[t] = state[t]]_vars
  BY <1>1
<1>3. QED
  BY <1>2, DeliveryInductive, PTL DEF Spec, FinalState
=================================================================================
