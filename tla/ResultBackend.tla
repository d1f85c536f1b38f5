----------------------------- MODULE ResultBackend -----------------------------
(***************************************************************************)
(* The result of one task in the result backend: the workers that handle   *)
(* copies of its message and record its states (src/chicory/worker.py),    *)
(* the Redis and the SQL backend (src/chicory/backend), and the callers    *)
(* that wait with AsyncResult.get() (src/chicory/result.py).               *)
(*                                                                         *)
(* Redis keeps a state key and a result key; each call is one command or   *)
(* one MULTI.  The SQL backend keeps a row with a state column and a JSON  *)
(* column; each call is a session that selects the row, changes the object *)
(* in memory and commits the columns that changed, and another session may *)
(* commit between the two (READ COMMITTED).                                *)
(***************************************************************************)
EXTENDS Naturals

CONSTANTS
    Backends,       \* the backends looked at: a subset of {"redis", "sql"}
    Attempts,       \* the deliveries of the task's message, retries included
    Readers,        \* the callers of AsyncResult.get()
    Timed,          \* those that give a timeout
    IgnoreResult,   \* TaskOptions.ignore_result
    MaxFaults,      \* bound on the calls that raise for no reason of the backend's
    MaxForgets      \* bound on the deletions, expiries and cleanups

ASSUME BackendAssumption ==
    /\ Backends \subseteq {"redis", "sql"} /\ Backends # {}
    /\ Timed \subseteq Readers
    /\ IgnoreResult \in BOOLEAN
    /\ MaxFaults \in Nat /\ MaxForgets \in Nat

VARIABLES
    kind,           \* the backend in use
    row,            \* what it keeps of the task
    snap,           \* snap[a]: the row that the open session of a has selected
    pc,             \* pc[a]: where attempt a is in _process_envelope
    told,           \* told[a]: the last state a has recorded without an error
    got,            \* got[r]: what get() gave to r
    faults, forgets

vars == <<kind, row, snap, pc, told, got, faults, forgets>>

Terminal == {"SUCCESS", "FAILURE"}
States == Terminal \cup {"STARTED", "RETRY"}

\* A stored TaskResult: its state, and the attempt whose value or error it holds.
Results == [state : States, by : Attempts]
NoResult == [state |-> "none"]
NoRow == [state |-> "none", body |-> NoResult]
Rows == [state : States \cup {"none"}, body : Results \cup {NoResult}]
NoSession == [state |-> "closed"]

Writing == {"mark", "success", "failure", "retry"}

TypeOK ==
    /\ kind \in Backends
    /\ row \in Rows
    /\ snap \in [Attempts -> Rows \cup {NoSession}]
    /\ pc \in [Attempts -> {"idle", "run", "over"} \cup Writing]
    /\ told \in [Attempts -> States \cup {"none"}]
    /\ got \in [Readers -> Terminal \cup {"polling", "timeout"}]
    /\ faults \in 0 .. MaxFaults /\ forgets \in 0 .. MaxForgets

Init ==
    /\ kind \in Backends
    /\ row = NoRow
    /\ snap = [a \in Attempts |-> NoSession]
    /\ pc = [a \in Attempts |-> "idle"]
    /\ told = [a \in Attempts |-> "none"]
    /\ got = [r \in Readers |-> "polling"]
    /\ faults = 0 /\ forgets = 0

--------------------------------------------------------------------------------
(* set_state() and store_result().                                         *)

\* Mutant: a failed task is recorded as dead-lettered.
StateAtDeadLettered(p) == CASE p = "mark" -> "STARTED" [] p = "success" -> "SUCCESS"
                            [] p = "failure" -> "DEAD_LETTERED" [] p = "retry" -> "RETRY"

\* The state that attempt a records at p, and whether with a result.
StateAt(p) == CASE p = "mark" -> "STARTED" [] p = "success" -> "SUCCESS"
                [] p = "failure" -> "FAILURE" [] p = "retry" -> "RETRY"
Full(p) == p = "failure" \/ (p = "success" /\ ~IgnoreResult)
ResultAt(a) == [state |-> StateAt(pc[a]), by |-> a]

\* Mutant: set_state stores a minimal result each time.
RedisWriteBoth(a) == [state |-> StateAt(pc[a]), body |-> ResultAt(a)]

RedisWrite(a) ==
    [state |-> StateAt(pc[a]), body |-> IF Full(pc[a]) THEN ResultAt(a) ELSE row.body]

\* The commit writes the columns whose value differs from the selected one.
Column(selected, current, new) == IF new = selected THEN current ELSE new

\* Mutant: set_state renews the JSON column of an existing row as well.
UpdatedBoth(a) ==
    [state |-> Column(snap[a].state, row.state, StateAt(pc[a])),
     body |-> Column(snap[a].body, row.body, ResultAt(a))]

\* set_state leaves the JSON column of an existing row alone.
Updated(a) ==
    [state |-> Column(snap[a].state, row.state, StateAt(pc[a])),
     body |-> IF Full(pc[a]) THEN Column(snap[a].body, row.body, ResultAt(a)) ELSE row.body]

\* Mutant: a session always inserts.
CommitsInsertOnly(a) == row = NoRow

\* An insert needs the key to be free, an update needs the row to be there.
Commits(a) == (snap[a] = NoRow) <=> (row = NoRow)

Committed(a) ==
    IF snap[a] = NoRow THEN [state |-> StateAt(pc[a]), body |-> ResultAt(a)] ELSE Updated(a)

--------------------------------------------------------------------------------
(* _process_envelope, as far as it records states.                         *)

Goto(a, p) == pc' = [pc EXCEPT ![a] = p]

Deliver(a) ==
    /\ pc[a] = "idle"
    /\ Goto(a, "mark")
    /\ UNCHANGED <<kind, row, snap, told, got, faults, forgets>>

\* The task function returns, fails for good, or is to be retried.
Ends(a) ==
    /\ pc[a] = "run"
    /\ \E p \in Writing \ {"mark"} : Goto(a, p)
    /\ UNCHANGED <<kind, row, snap, told, got, faults, forgets>>

OpenSession(a) ==
    /\ kind = "sql" /\ pc[a] \in Writing /\ snap[a] = NoSession
    /\ snap' = [snap EXCEPT ![a] = row]
    /\ UNCHANGED <<kind, row, pc, told, got, faults, forgets>>

Return(a) ==
    /\ told' = [told EXCEPT ![a] = StateAt(pc[a])]
    /\ Goto(a, IF pc[a] = "mark" THEN "run" ELSE "over")
    /\ UNCHANGED faults

\* An error while a success is stored is caught as one of the task function;
\* any other one ends the handler.
Raise(a) ==
    /\ \E p \in IF pc[a] = "success" THEN {"failure", "retry"} ELSE {"over"} : Goto(a, p)
    /\ UNCHANGED told

Fault == faults < MaxFaults /\ faults' = faults + 1

WriteRedis(a) ==
    /\ kind = "redis" /\ pc[a] \in Writing
    /\ row' = RedisWrite(a)
    /\ Return(a) \/ (Raise(a) /\ Fault)
    /\ UNCHANGED <<kind, snap, got, forgets>>

CommitSql(a) ==
    /\ kind = "sql" /\ pc[a] \in Writing /\ snap[a] # NoSession
    /\ Commits(a)
    /\ row' = Committed(a)
    /\ snap' = [snap EXCEPT ![a] = NoSession]
    /\ Return(a) \/ (Raise(a) /\ Fault)
    /\ UNCHANGED <<kind, got, forgets>>

\* IntegrityError of an insert, StaleDataError of an update.
CommitFails(a) ==
    /\ kind = "sql" /\ pc[a] \in Writing /\ snap[a] # NoSession
    /\ ~Commits(a)
    /\ snap' = [snap EXCEPT ![a] = NoSession]
    /\ Raise(a)
    /\ UNCHANGED <<kind, row, got, faults, forgets>>

\* A call that raises and has changed nothing.
CallFails(a) ==
    /\ pc[a] \in Writing
    /\ snap' = [snap EXCEPT ![a] = NoSession]
    /\ Raise(a) /\ Fault
    /\ UNCHANGED <<kind, row, got, forgets>>

--------------------------------------------------------------------------------
(* The rest of the backend.                                                *)

\* delete_result, or the end of the keys' TTL, or cleanup_old_results.
Forget ==
    /\ forgets < MaxForgets /\ row # NoRow
    /\ row' = NoRow
    /\ forgets' = forgets + 1
    /\ UNCHANGED <<kind, snap, pc, told, got, faults>>

\* A later set_state gave the state key a new TTL, not the result key.
ExpireResult ==
    /\ kind = "redis" /\ forgets < MaxForgets /\ row.body # NoResult
    /\ row' = [row EXCEPT !.body = NoResult]
    /\ forgets' = forgets + 1
    /\ UNCHANGED <<kind, snap, pc, told, got, faults>>

--------------------------------------------------------------------------------
(* AsyncResult.                                                            *)

\* state(): get_result reads the result, and never the state by its side.
StateSeen == IF row.body = NoResult THEN "PENDING" ELSE row.body.state

Answer(r) ==
    /\ got[r] = "polling" /\ StateSeen \in Terminal
    /\ got' = [got EXCEPT ![r] = StateSeen]
    /\ UNCHANGED <<kind, row, snap, pc, told, faults, forgets>>

\* The deadline is looked at after the poll.
GiveUp(r) ==
    /\ got[r] = "polling" /\ StateSeen \notin Terminal /\ r \in Timed
    /\ got' = [got EXCEPT ![r] = "timeout"]
    /\ UNCHANGED <<kind, row, snap, pc, told, faults, forgets>>

--------------------------------------------------------------------------------

Handle(a) ==
    \/ Deliver(a) \/ Ends(a) \/ OpenSession(a)
    \/ WriteRedis(a) \/ CommitSql(a) \/ CommitFails(a) \/ CallFails(a)

Next ==
    \/ \E a \in Attempts : Handle(a)
    \/ Forget \/ ExpireResult
    \/ \E r \in Readers : Answer(r) \/ GiveUp(r)

Spec == Init /\ [][Next]_vars

\* A caller of get() goes on polling.
FairSpec == Spec /\ \A r \in Readers : WF_vars(Answer(r))

--------------------------------------------------------------------------------
(* Properties.                                                             *)

\* ready() never goes back to FALSE while the result is kept, although a copy
\* that is delivered again records STARTED and RETRY over it.
FinalStays ==
    [][row.body.state \in Terminal =>
           row'.body = NoResult \/ row'.body.state \in Terminal]_row

\* A worker has stored a final result, and the call returned.
Recorded == \E a \in Attempts : told[a] = "FAILURE" \/ (told[a] = "SUCCESS" /\ ~IgnoreResult)

\* A result that a worker has stored without an error is there to be read,
\* whatever sessions overlapped with it, unless it was deleted or expired.
StoredIsVisible == Recorded /\ forgets = 0 => StateSeen \in Terminal

\* Handlers of the same task that race to record STARTED do not all fail: one of
\* them runs the task to a recorded end, unless a call was lost or the row deleted.
OneAttemptGoesOn ==
    (\A a \in Attempts : pc[a] = "over") /\ faults = 0 /\ forgets = 0 =>
        \E a \in Attempts : told[a] \in Terminal \cup {"RETRY"}

\* Overlapping sessions of one task neither hide a stored result nor all fail.
OverlapIsHarmless == StoredIsVisible /\ OneAttemptGoesOn

\* A caller of get() gets an answer once the result of an attempt is stored.
Answered ==
    \A r \in Readers : (Recorded /\ forgets = 0) ~> (got[r] # "polling" \/ forgets > 0)
================================================================================
