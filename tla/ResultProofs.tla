---------------------------- MODULE ResultProofs ----------------------------
(***************************************************************************)
(* The safety of the results of a task, for any number of attempts, of     *)
(* callers, of failing calls and of deletions, in both backends.           *)
(***************************************************************************)
EXTENDS ResultBackend, TLAPS

\* With the attempts at p, a final result in body was written by one that has
\* gone on since: no session takes its own result for the one it has selected.
Written(body, p) ==
    \A a \in Attempts :
        /\ body = [state |-> "SUCCESS", by |-> a] => p[a] \in {"failure", "retry", "over"}
        /\ body = [state |-> "FAILURE", by |-> a] => p[a] = "over"

Ran == {"run", "success", "failure", "retry"}

\* Attempt a runs on: no session of its own will find the row gone or taken.
GoesOn(a) ==
    \/ pc[a] \in Ran /\ snap[a] # NoRow
    \/ pc[a] = "over" /\ told[a] \in Terminal \cup {"RETRY"}

\* While nothing was lost or deleted: nobody is past its first write before there
\* is a row, and once there is one somebody goes on.
Undisturbed ==
    /\ row = NoRow =>
           \A a \in Attempts : pc[a] \in {"idle", "mark"} /\ snap[a] \in {NoRow, NoSession}
    /\ row # NoRow => \E a \in Attempts : GoesOn(a)

RInv ==
    /\ TypeOK
    /\ row = NoRow \/ row.state \in States
    /\ Written(row.body, pc)
    /\ \A a \in Attempts :
           snap[a] # NoSession =>
               kind = "sql" /\ pc[a] \in Writing /\ Written(snap[a].body, pc)
    /\ StoredIsVisible
    /\ faults = 0 /\ forgets = 0 => Undisturbed

--------------------------------------------------------------------------------
(* The rows.                                                               *)

LEMMA RowFacts ==
    /\ NoResult # NoRow
    /\ NoRow \in Rows /\ NoSession \notin Rows
    /\ \A r \in Rows : r.state \in States \cup {"none"} /\ r.body \in Results \cup {NoResult}
    /\ \A b \in Results : b # NoResult /\ b.state \in States /\ b.by \in Attempts
                          /\ b = [state |-> b.state, by |-> b.by]
    /\ NoResult.state = "none"
BY DEF NoResult, NoRow, NoSession, Rows, Results, States, Terminal

LEMMA SeenTerminal == StateSeen \in Terminal <=> row.body.state \in Terminal
BY DEF StateSeen, NoResult, Terminal

\* What an attempt writes, whole or in part, is a row.
LEMMA WritesRows ==
    ASSUME TypeOK, NEW a \in Attempts, pc[a] \in Writing
    PROVE  /\ StateAt(pc[a]) \in States
           /\ ResultAt(a) \in Results
           /\ Full(pc[a]) => StateAt(pc[a]) \in Terminal
           /\ RedisWrite(a) \in Rows
           /\ snap[a] # NoSession => Committed(a) \in Rows
<1>1. StateAt(pc[a]) \in States /\ (Full(pc[a]) => StateAt(pc[a]) \in Terminal)
  BY DEF Writing, StateAt, States, Terminal, Full
<1>2. ResultAt(a) \in Results
  BY <1>1 DEF ResultAt, Results
<1>3. row \in Rows /\ row.body \in Results \cup {NoResult}
  BY RowFacts DEF TypeOK
<1>4. RedisWrite(a) \in Rows
  BY <1>1, <1>2, <1>3 DEF RedisWrite, Rows
<1>5. ASSUME snap[a] # NoSession PROVE Committed(a) \in Rows
  <2>1. snap[a] \in Rows
    BY <1>5 DEF TypeOK
  <2>2. row.state \in States \cup {"none"}
    BY <1>3 DEF Rows
  <2> QED
    BY <1>1, <1>2, <1>3, <2>1, <2>2 DEF Committed, Updated, Column, Rows
<1> QED
  BY <1>1, <1>2, <1>4, <1>5

\* A session that stores a result stores its own.
LEMMA FullStored ==
    ASSUME RInv, NEW a \in Attempts, pc[a] \in Writing, snap[a] # NoSession
    PROVE  /\ Full(pc[a]) => Committed(a).body = ResultAt(a)
           /\ ~Full(pc[a]) /\ snap[a] # NoRow => Committed(a).body = row.body
           /\ snap[a] = NoRow => Committed(a).body = ResultAt(a)
<1>1. Written(snap[a].body, pc)
  BY DEF RInv
<1>2. Full(pc[a]) => snap[a].body # ResultAt(a)
  BY <1>1 DEF Full, Written, ResultAt, StateAt
<1> QED
  BY <1>2 DEF Committed, Updated, Column

--------------------------------------------------------------------------------

LEMMA InitRInv == Init => RInv
<1> SUFFICES ASSUME Init PROVE RInv
  OBVIOUS
<1>1. TypeOK
  BY RowFacts, BackendAssumption DEF Init, TypeOK
<1>2. Written(row.body, pc)
  BY DEF Init, Written, NoRow, NoResult
<1>3. StoredIsVisible
  BY DEF Init, StoredIsVisible, Recorded
<1> QED
  BY <1>1, <1>2, <1>3 DEF Init, RInv, Undisturbed

\* An attempt that has gone on never comes back to write the same result.
LEMMA WrittenStays ==
    ASSUME TypeOK, NEW a \in Attempts, NEW p, Goto(a, p),
           pc[a] \in {"failure", "retry"} => p = "over",
           pc[a] = "success" => p \in {"failure", "retry", "over"},
           pc[a] # "over"
    PROVE  \A body : Written(body, pc) => Written(body, pc')
BY DEF TypeOK, Goto, Written

\* Steps that write nothing: the stages of the attempts and the sessions change.
LEMMA QuietKeeps ==
    ASSUME RInv, TypeOK', UNCHANGED <<kind, row, told, forgets>>,
           faults' = 0 => faults = 0,
           \A body : Written(body, pc) => Written(body, pc'),
           \A a \in Attempts :
               snap'[a] # NoSession =>
                   kind = "sql" /\ pc'[a] \in Writing /\ snap'[a] \in {snap[a], row},
           faults' = 0 /\ forgets = 0 => Undisturbed'
    PROVE  RInv'
<1> USE DEF RInv
<1>1. Written(row.body, pc)' /\ (row = NoRow \/ row.state \in States)'
  OBVIOUS
<1>2. ASSUME NEW a \in Attempts, snap'[a] # NoSession 
      PROVE  kind' = "sql" /\ pc'[a] \in Writing /\ Written(snap'[a].body, pc')
  <2>1. kind' = "sql" /\ pc'[a] \in Writing /\ (snap'[a] = snap[a] \/ snap'[a] = row)
    BY <1>2
  <2>2. CASE snap'[a] = snap[a]
    BY <1>2, <2>1, <2>2
  <2>3. CASE snap'[a] = row
    BY <2>1, <2>3
  <2> QED
    BY <2>1, <2>2, <2>3
<1>3. StoredIsVisible'
  BY DEF StoredIsVisible, Recorded, StateSeen
<1> QED
  BY <1>1, <1>2, <1>3

\* A write of attempt a, which returns or raises after it.
LEMMA WriteKeeps ==
    ASSUME RInv, NEW a \in Attempts, pc[a] \in Writing,
           row' \in Rows, row'.state \in States,
           row'.body \in {row.body, ResultAt(a)},
           Full(pc[a]) => row'.body = ResultAt(a),
           ~Full(pc[a]) /\ row.body.state \in Terminal => row'.body = row.body,
           snap' = [snap EXCEPT ![a] = NoSession],
           Return(a) \/ (Raise(a) /\ Fault),
           UNCHANGED <<kind, got, forgets>>
    PROVE  RInv'
<1> USE DEF RInv
<1>0. PICK p \in {"run", "over", "failure", "retry"} :
          /\ Goto(a, p)
          /\ pc[a] = "mark" => p \in {"run", "over"}
          /\ pc[a] \in {"failure", "retry"} => p = "over"
          /\ pc[a] = "success" => p \in {"failure", "retry", "over"}
  BY DEF Return, Raise, Writing
<1>1. /\ StateAt(pc[a]) \in States /\ ResultAt(a) \in Results
      /\ Full(pc[a]) => ResultAt(a).state \in Terminal
  BY WritesRows DEF ResultAt
<1>2. pc' = [pc EXCEPT ![a] = p] /\ pc'[a] = p /\ \A b \in Attempts : b # a => pc'[b] = pc[b]
  BY <1>0 DEF Goto, TypeOK
<1>3. TypeOK'
  <2>1. pc' \in [Attempts -> {"idle", "run", "over"} \cup Writing]
    BY <1>2 DEF TypeOK, Writing
  <2>2. told' \in [Attempts -> States \cup {"none"}] /\ faults' \in 0 .. MaxFaults
    BY <1>1, BackendAssumption DEF TypeOK, Return, Raise, Fault
  <2>3. snap' \in [Attempts -> Rows \cup {NoSession}]
    BY DEF TypeOK
  <2> QED
    BY <2>1, <2>2, <2>3 DEF TypeOK
<1>4. \A body : Written(body, pc) => Written(body, pc')
  BY <1>0, WrittenStays DEF Writing
<1>5. Written(row.body, pc)'
  <2>1. Written(ResultAt(a), pc')
    BY <1>0, <1>2 DEF Written, ResultAt, StateAt, Writing
  <2> QED
    BY <1>4, <2>1
<1>6. \A b \in Attempts :
          snap'[b] # NoSession =>
              kind' = "sql" /\ pc'[b] \in Writing /\ Written(snap'[b].body, pc')
  <2> TAKE b \in Attempts
  <2>1. CASE b = a
    BY <2>1 DEF TypeOK
  <2>2. CASE b # a
    BY <1>2, <1>4, <2>2 DEF TypeOK
  <2> QED
    BY <2>1, <2>2
<1>7. StoredIsVisible'
  <2> SUFFICES ASSUME Recorded', forgets = 0 PROVE row'.body.state \in Terminal
    BY DEF StoredIsVisible, StateSeen, NoResult, Terminal
  <2>1. CASE Full(pc[a])
    BY <1>1, <2>1
  <2>2. CASE ~Full(pc[a])
    <3>1. Recorded
      BY <2>2 DEF Recorded, Return, Raise, Full, StateAt, TypeOK, Writing
    <3>2. row.body.state \in Terminal
      BY <3>1, SeenTerminal DEF StoredIsVisible
    <3> QED
      BY <2>2, <3>2
  <2> QED
    BY <2>1, <2>2
<1>8. ASSUME faults' = 0, forgets = 0 PROVE Undisturbed'
  <2>1. Return(a)
    BY <1>8 DEF Fault, TypeOK
  <2>2. row' # NoRow
    BY DEF NoRow, States, Terminal
  <2>3. GoesOn(a)'
    BY <1>2, <2>1, RowFacts DEF GoesOn, Return, Goto, Ran, StateAt, Terminal, Writing, TypeOK, NoRow, NoSession
  <2> QED
    BY <2>2, <2>3 DEF Undisturbed
<1> QED
  BY <1>3, <1>5, <1>6, <1>7, <1>8

--------------------------------------------------------------------------------
(* The steps.                                                              *)

LEMMA HandleKeeps == ASSUME RInv, NEW a \in Attempts, Handle(a) PROVE RInv'
<1> USE DEF RInv
<1>1. CASE Deliver(a) \/ Ends(a)
  <2>1. PICK p \in Writing :
            /\ Goto(a, p)
            /\ pc[a] \in {"idle", "run"}
            /\ pc[a] = "idle" <=> p = "mark"
    <3>1. CASE Deliver(a)
      BY <3>1 DEF Deliver, Writing
    <3>2. CASE Ends(a)
      BY <3>2 DEF Ends, Writing
    <3> QED
      BY <1>1, <3>1, <3>2
  <2>2. UNCHANGED <<kind, row, snap, told, got, faults, forgets>>
    BY <1>1 DEF Deliver, Ends
  <2>3. pc' = [pc EXCEPT ![a] = p] /\ pc'[a] = p /\ \A b \in Attempts : b # a => pc'[b] = pc[b]
    BY <2>1 DEF Goto, TypeOK
  <2>4. TypeOK'
    BY <2>2, <2>3 DEF TypeOK
  <2>5. \A body : Written(body, pc) => Written(body, pc')
    BY <2>1, WrittenStays
  <2>6. ASSUME faults = 0, forgets = 0 PROVE Undisturbed'
    <3>1. row = NoRow => \A b \in Attempts : pc'[b] \in {"idle", "mark"}
      BY <2>1, <2>3, <2>6 DEF Undisturbed
    <3>2. \A b \in Attempts : GoesOn(b) => GoesOn(b)'
      BY <2>1, <2>2, <2>3 DEF GoesOn, Ran, Writing
    <3> QED
      BY <2>2, <2>6, <3>1, <3>2 DEF Undisturbed
  <2> QED
    BY <2>1, <2>2, <2>3, <2>4, <2>5, <2>6, QuietKeeps
<1>2. CASE OpenSession(a)
  <2>1. /\ pc[a] \in Writing /\ snap' = [snap EXCEPT ![a] = row]
        /\ UNCHANGED <<kind, row, pc, told, got, faults, forgets>>
    BY <1>2 DEF OpenSession
  <2> kind = "sql"
    BY <1>2 DEF OpenSession
  <2>2. snap'[a] = row /\ \A b \in Attempts : b # a => snap'[b] = snap[b]
    BY <2>1 DEF TypeOK
  <2>3. TypeOK'
    BY <2>1 DEF TypeOK
  <2>4. ASSUME faults = 0, forgets = 0 PROVE Undisturbed'
    <3>1. row # NoRow => \A b \in Attempts : GoesOn(b) => GoesOn(b)'
      BY <2>1, <2>2 DEF GoesOn
    <3> QED
      BY <2>1, <2>2, <2>4, <3>1 DEF Undisturbed
  <2> QED
    BY <2>1, <2>2, <2>3, <2>4, QuietKeeps
<1>3. CASE WriteRedis(a)
  <2>1. pc[a] \in Writing /\ row' = RedisWrite(a) /\ snap' = snap
    BY <1>3 DEF WriteRedis
  <2>2. StateAt(pc[a]) \in States /\ RedisWrite(a) \in Rows
    BY <2>1, WritesRows
  <2>3. snap' = [snap EXCEPT ![a] = NoSession]
    BY <1>3, <2>1 DEF WriteRedis, TypeOK
  <2>4. /\ RedisWrite(a).state = StateAt(pc[a])
        /\ RedisWrite(a).body = IF Full(pc[a]) THEN ResultAt(a) ELSE row.body
    BY DEF RedisWrite
  <2> QED
    BY <1>3, <2>1, <2>2, <2>3, <2>4, WriteKeeps DEF WriteRedis
<1>4. CASE CommitSql(a)
  <2>1. pc[a] \in Writing /\ snap[a] # NoSession /\ Commits(a) /\ row' = Committed(a)
    BY <1>4 DEF CommitSql
  <2>2. StateAt(pc[a]) \in States /\ Committed(a) \in Rows
    BY <2>1, WritesRows
  <2>3. Committed(a).state \in States
    BY <2>1, <2>2 DEF Committed, Commits, Updated, Column
  <2>4. row.body.state \in Terminal => snap[a] # NoRow
    BY <2>1 DEF Commits, NoRow, NoResult, Terminal
  <2> QED
    BY <1>4, <2>1, <2>2, <2>3, <2>4, FullStored, WriteKeeps DEF CommitSql
<1>5. CASE CommitFails(a) \/ CallFails(a)
  <2>1. /\ pc[a] \in Writing /\ Raise(a)
        /\ snap' = [snap EXCEPT ![a] = NoSession]
        /\ UNCHANGED <<kind, row, told, got, forgets>>
        /\ UNCHANGED faults \/ Fault
    BY <1>5 DEF CommitFails, CallFails, Raise
  <2>2. PICK p \in {"failure", "retry", "over"} :
            Goto(a, p) /\ (pc[a] # "success" => p = "over")
    BY <2>1 DEF Raise
  <2>3. /\ pc' = [pc EXCEPT ![a] = p] /\ pc'[a] = p
        /\ snap'[a] = NoSession
        /\ \A b \in Attempts : b # a => pc'[b] = pc[b] /\ snap'[b] = snap[b]
    BY <2>1, <2>2 DEF Goto, TypeOK
  <2>4. TypeOK'
    BY <2>1, <2>3, BackendAssumption DEF TypeOK, Fault, Writing
  <2>5. \A body : Written(body, pc) => Written(body, pc')
    BY <2>1, <2>2, WrittenStays DEF Writing
  <2>6. ASSUME faults' = 0, forgets = 0 PROVE Undisturbed'
    <3>1. CommitFails(a) /\ faults = 0 /\ Undisturbed
      BY <1>5, <2>1, <2>6 DEF CallFails, Fault, TypeOK
    <3>2. row # NoRow /\ snap[a] = NoRow
      BY <3>1 DEF CommitFails, Commits, Undisturbed
    <3>3. ~GoesOn(a)
      BY <2>1, <3>2 DEF GoesOn, Writing
    <3>4. PICK b \in Attempts : GoesOn(b)
      BY <3>1, <3>2 DEF Undisturbed
    <3>5. GoesOn(b)'
      BY <2>1, <2>3, <3>3, <3>4 DEF GoesOn
    <3> QED
      BY <2>1, <3>2, <3>5 DEF Undisturbed
  <2>7. faults' = 0 => faults = 0
    BY <2>1 DEF Fault, TypeOK
  <2>8. \A b \in Attempts :
            snap'[b] # NoSession =>
                kind = "sql" /\ pc'[b] \in Writing /\ snap'[b] \in {snap[b], row}
    BY <2>3
  <2> QED
    BY <2>1, <2>4, <2>5, <2>6, <2>7, <2>8, QuietKeeps
<1> QED
  BY <1>1, <1>2, <1>3, <1>4, <1>5 DEF Handle

\* Nothing is promised of a row that was deleted or has expired.
LEMMA ForgetKeeps == ASSUME RInv, Forget \/ ExpireResult PROVE RInv'
<1> USE DEF RInv
<1>1. /\ UNCHANGED <<kind, snap, pc, told, got, faults>>
      /\ forgets' \in 1 .. MaxForgets
      /\ row' \in Rows /\ row'.body = NoResult
      /\ row' = NoRow \/ row'.state \in States
  <2>1. CASE Forget
    BY <2>1, RowFacts, BackendAssumption DEF Forget, TypeOK, NoRow
  <2>2. CASE ExpireResult
    <3>1. row # NoRow
      BY <2>2 DEF ExpireResult, NoRow
    <3>2. row' = [state |-> row.state, body |-> NoResult] /\ row.state \in States
      BY <2>2, <3>1 DEF ExpireResult, TypeOK, Rows
    <3>3. row' \in Rows /\ row'.body = NoResult /\ row'.state \in States
      BY <3>2 DEF Rows
    <3>4. forgets' \in 1 .. MaxForgets
      BY <2>2, BackendAssumption DEF ExpireResult, TypeOK
    <3> QED
      BY <2>2, <3>3, <3>4 DEF ExpireResult
  <2> QED
    BY <2>1, <2>2
<1>2. Written(row.body, pc)'
  <2>1. \A st : \A a \in Attempts : st # "none" => NoResult # [state |-> st, by |-> a]
    BY DEF NoResult
  <2> QED
    BY <1>1, <2>1 DEF Written
<1>3. TypeOK' /\ StoredIsVisible'
  BY <1>1, BackendAssumption DEF TypeOK, StoredIsVisible
<1> QED
  BY <1>1, <1>2, <1>3

LEMMA ReaderKeeps == ASSUME RInv, NEW r \in Readers, Answer(r) \/ GiveUp(r) PROVE RInv'
<1> USE DEF RInv
<1>1. UNCHANGED <<kind, row, snap, pc, told, faults, forgets>>
  BY DEF Answer, GiveUp
<1>2. TypeOK'
  BY <1>1 DEF TypeOK, Answer, GiveUp, Terminal
<1> QED
  BY <1>1, <1>2 DEF StoredIsVisible, Recorded, StateSeen, Undisturbed, GoesOn

LEMMA NextRInv == RInv /\ [Next]_vars => RInv'
<1> SUFFICES ASSUME RInv, [Next]_vars PROVE RInv'
  OBVIOUS
<1>1. CASE UNCHANGED vars
  BY <1>1 DEF RInv, vars, TypeOK, StoredIsVisible, Recorded, StateSeen, Undisturbed, GoesOn
<1>2. CASE Next
  BY <1>2, HandleKeeps, ForgetKeeps, ReaderKeeps DEF Next
<1> QED
  BY <1>1, <1>2

--------------------------------------------------------------------------------
(* The theorems.                                                           *)

\* The invariant holds in every reachable state.
THEOREM ResultsInductive == Spec => []RInv
BY InitRInv, NextRInv, PTL DEF Spec

\* Rows, the rows that sessions have selected and the answers that callers got are
\* well formed in both backends, after failed calls, deletions and expiries too.
THEOREM ResultTypes == Spec => []TypeOK
<1>1. RInv => TypeOK
  BY DEF RInv
<1> QED
  BY <1>1, ResultsInductive, PTL

\* Sessions of one task that overlap neither hide a result that was stored nor
\* all fail, however many attempts there are.
THEOREM OverlapHarmless == ASSUME Attempts # {} PROVE Spec => []OverlapIsHarmless
<1>1. RInv => OneAttemptGoesOn
  BY DEF RInv, OneAttemptGoesOn, Undisturbed, GoesOn, Ran
<1>2. RInv => OverlapIsHarmless
  BY <1>1 DEF RInv, OverlapIsHarmless
<1> QED
  BY <1>2, ResultsInductive, PTL

\* A result that is ready stays ready until it is deleted or expires.
THEOREM ReadyStays == Spec => FinalStays
<1>1. RInv /\ [Next]_vars =>
          [row.body.state \in Terminal =>
               row'.body = NoResult \/ row'.body.state \in Terminal]_row
  <2> SUFFICES ASSUME RInv, Next, row' # row, row.body.state \in Terminal
               PROVE  row'.body = NoResult \/ row'.body.state \in Terminal
    BY DEF vars
  <2>1. ASSUME NEW a \in Attempts, Handle(a) PROVE row'.body.state \in Terminal
    <3>1. WriteRedis(a) \/ CommitSql(a)
      BY <2>1 DEF Handle, Deliver, Ends, OpenSession, CommitFails, CallFails
    <3>2. pc[a] \in Writing
      BY <3>1 DEF WriteRedis, CommitSql
    <3>3. Full(pc[a]) => ResultAt(a).state \in Terminal
      BY <3>2, WritesRows DEF RInv, ResultAt
    <3>4. CASE WriteRedis(a)
      BY <3>3, <3>4 DEF WriteRedis, RedisWrite
    <3>5. CASE CommitSql(a)
      <4>1. snap[a] # NoSession /\ row' = Committed(a) /\ snap[a] # NoRow
        BY <3>5 DEF CommitSql, Commits, NoRow, NoResult, Terminal
      <4> QED
        BY <3>2, <3>3, <4>1, FullStored
    <3> QED
      BY <3>1, <3>4, <3>5
  <2>2. CASE Forget \/ ExpireResult
    BY <2>2, RowFacts DEF Forget, ExpireResult, NoRow, RInv, TypeOK, Rows
  <2>3. ASSUME NEW r \in Readers, Answer(r) \/ GiveUp(r) PROVE FALSE
    BY <2>3 DEF Answer, GiveUp
  <2> QED
    BY <2>1, <2>2, <2>3 DEF Next
<1> QED
  BY <1>1, ResultsInductive, PTL DEF Spec, FinalStays
=============================================================================
