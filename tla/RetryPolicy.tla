------------------------------ MODULE RetryPolicy ------------------------------
(***************************************************************************)
(* The attempts of one task under its retry policy: calculate_delay and    *)
(* should_retry (src/chicory/types.py), what the task function may do with *)
(* its TaskContext (context.py), and where the worker sends what it raises *)
(* (the except clauses of worker.py).                                      *)
(*                                                                         *)
(* One attempt runs at a time and every call succeeds; redelivery, faults  *)
(* and several workers are in Worker.  Delays are integers in a unit of    *)
(* which every configured delay is a multiple of four, so that the jitter  *)
(* of a quarter is exact.                                                  *)
(***************************************************************************)
EXTENDS Integers

CONSTANTS
    Policies,       \* the policies the task may have
    Exceptions,     \* the exceptions the function may raise by itself
    NamesOf(_),     \* the two names of an exception: of its class, with its module
    Countdowns,     \* what ctx.retry and RetryError may be given
    MaxExponent,    \* the largest n for which 2^n can be made a float
    MaxDirect       \* bound: the RetryErrors that the function raises by itself

None == "none"                          \* no exception
NoDelay == -1                           \* a countdown, or an eta, of None
AllErrors == {"all"}                    \* a retry_on of None
Backoffs == {"fixed", "linear", "exponential"}

ASSUME RetryAssumption ==
    /\ \A p \in Policies :
        /\ {p.max_retries, p.retry_delay, p.max_delay} \subseteq Nat
        /\ p.retry_delay % 4 = 0 /\ p.max_delay % 4 = 0
        /\ p.backoff \in Backoffs /\ p.jitter \in BOOLEAN
    /\ {None, "overflow"} \cap Exceptions = {}
    /\ Countdowns \subseteq Nat
    /\ MaxExponent \in Nat /\ MaxDirect \in Nat

VARIABLES
    policy,         \* task.options.get_retry_policy()
    pc,             \* where the current attempt is
    raised,         \* what its function raised
    retries,        \* TaskMessage.retries of the current attempt
    eta,            \* how long its publication was put off; NoDelay for not at all
    automatic,      \* that delay was calculated by the policy
    direct          \* RetryErrors raised without ctx.retry

vars == <<policy, pc, raised, retries, eta, automatic, direct>>

Ended == {"succeeded", "dead"}
Nothing == [kind |-> "nothing", exc |-> None, countdown |-> NoDelay, computed |-> FALSE]

TypeOK ==
    /\ policy \in Policies
    /\ pc \in Ended \cup {"queued", "running", "raised", "escaped"}
    /\ raised \in [kind : {"nothing", "retry", "exceeded", "invalid", "error"},
                   exc : Exceptions \cup {None, "overflow"},
                   countdown : Nat \cup {NoDelay}, computed : BOOLEAN]
    /\ retries \in 0 .. (policy.max_retries + MaxDirect)
    /\ eta \in Nat \cup {NoDelay}
    /\ automatic \in BOOLEAN
    /\ direct \in 0..MaxDirect

Init ==
    /\ policy \in Policies
    /\ pc = "queued"
    /\ raised = Nothing
    /\ retries = 0 /\ eta = NoDelay /\ automatic = FALSE
    /\ direct = 0

--------------------------------------------------------------------------------
(* RetryPolicy.                                                            *)

Least(a, b) == IF a < b THEN a ELSE b

\* Mutant: the exponent counts from one.
BaseDelayLate(p, attempt) ==
    Least(p.max_delay,
          CASE p.backoff = "fixed" -> p.retry_delay
            [] p.backoff = "linear" -> p.retry_delay * attempt
            [] p.backoff = "exponential" -> p.retry_delay * 2^attempt)

\* The delay before the jitter.
BaseDelay(p, attempt) ==
    Least(p.max_delay,
          CASE p.backoff = "fixed" -> p.retry_delay
            [] p.backoff = "linear" -> p.retry_delay * attempt
            [] p.backoff = "exponential" -> p.retry_delay * 2^(attempt - 1))

\* calculate_delay: the cap comes first, then a jitter of a quarter.
Delays(p, attempt) ==
    LET d == BaseDelay(p, attempt) IN
    IF p.jitter THEN (d - d \div 4) .. (d + d \div 4) ELSE {d}

\* The product of a float and an int that is too large to be one raises
\* OverflowError, before the cap is looked at.
Overflows(p, attempt) == p.backoff = "exponential" /\ attempt - 1 > MaxExponent

\* should_retry: an exception is named by its class or with its module; an
\* empty ignore_on is as good as none, an empty retry_on allows nothing.
ShouldRetry(p, e) ==
    /\ NamesOf(e) \cap p.ignore_on = {}
    /\ p.retry_on # AllErrors => NamesOf(e) \cap p.retry_on # {}

--------------------------------------------------------------------------------
(* The task function and its TaskContext.                                  *)

Raise(kind, exc, countdown, computed) ==
    raised' = [kind |-> kind, exc |-> exc, countdown |-> countdown, computed |-> computed]

Deliver ==
    /\ pc = "queued"
    /\ pc' = "running"
    /\ raised' = Nothing
    /\ UNCHANGED <<policy, retries, eta, automatic, direct>>

Return ==
    /\ pc = "running"
    /\ pc' = "succeeded"
    /\ UNCHANGED <<policy, raised, retries, eta, automatic, direct>>

\* The function leaves by an exception.
Leave == pc = "running" /\ pc' = "raised"

Fails ==
    /\ Leave
    /\ \/ \E e \in Exceptions : Raise("error", e, NoDelay, FALSE)
       \/ Raise("invalid", None, NoDelay, FALSE)
    /\ UNCHANGED <<policy, retries, eta, automatic, direct>>

\* ctx.fail(exc) raises exc.
CtxFail ==
    /\ Leave
    /\ \E e \in Exceptions : Raise("error", e, NoDelay, FALSE)
    /\ UNCHANGED <<policy, retries, eta, automatic, direct>>

\* The countdown that was given, or else the policy's.
Schedules(e, n) ==
    \/ n # NoDelay /\ Raise("retry", e, n, FALSE)
    \/ /\ n = NoDelay /\ Overflows(policy, retries + 1)
       /\ Raise("error", "overflow", NoDelay, FALSE)
    \/ /\ n = NoDelay /\ ~Overflows(policy, retries + 1)
       /\ \E d \in Delays(policy, retries + 1) : Raise("retry", e, d, TRUE)

\* Mutant: the exception given to ctx.retry is not looked at.
CtxRetryAny ==
    /\ Leave
    /\ \E e \in Exceptions \cup {None}, n \in Countdowns \cup {NoDelay} :
        \/ retries >= policy.max_retries /\ Raise("exceeded", None, NoDelay, FALSE)
        \/ retries < policy.max_retries /\ Schedules(e, n)
    /\ UNCHANGED <<policy, retries, eta, automatic, direct>>

\* ctx.retry(countdown, exc).
CtxRetry ==
    /\ Leave
    /\ \E e \in Exceptions \cup {None}, n \in Countdowns \cup {NoDelay} :
        LET allowed == e = None \/ ShouldRetry(policy, e) IN
        \/ retries >= policy.max_retries /\ Raise("exceeded", None, NoDelay, FALSE)
        \/ retries < policy.max_retries /\ ~allowed /\ Raise("error", e, NoDelay, FALSE)
        \/ retries < policy.max_retries /\ allowed /\ Schedules(e, n)
    /\ UNCHANGED <<policy, retries, eta, automatic, direct>>

\* The function raises RetryError itself; nothing is checked.
DirectRetry ==
    /\ direct < MaxDirect
    /\ Leave
    /\ \E n \in Countdowns \cup {NoDelay} : Raise("retry", None, n, FALSE)
    /\ direct' = direct + 1
    /\ UNCHANGED <<policy, retries, eta, automatic>>

\* ctx.is_last_retry
IsLastRetry == retries >= policy.max_retries - 1

--------------------------------------------------------------------------------
(* The except clauses of _process_envelope.                                *)

\* _handle_retry: the next attempt; a countdown of zero is like none.
Again(countdown, computed) ==
    /\ retries' = retries + 1
    /\ eta' = IF countdown = 0 THEN NoDelay ELSE countdown
    /\ automatic' = computed
    /\ pc' = "queued"
    /\ UNCHANGED <<policy, raised, direct>>

\* _store_failure, and _move_to_dlq.
Conclude ==
    /\ pc' = "dead"
    /\ UNCHANGED <<policy, raised, retries, eta, automatic, direct>>

OnRetryError ==
    /\ pc = "raised" /\ raised.kind = "retry"
    /\ Again(raised.countdown, raised.computed)

OnExceeded == pc = "raised" /\ raised.kind = "exceeded" /\ Conclude
OnInvalid == pc = "raised" /\ raised.kind = "invalid" /\ Conclude

\* An OverflowError in an except clause leaves the handler, and the envelope
\* is neither acknowledged nor dead-lettered.
Escape ==
    /\ pc' = "escaped"
    /\ UNCHANGED <<policy, raised, retries, eta, automatic, direct>>

\* OverflowError is not among the names that policies list.
Retryable == IF raised.exc = "overflow" THEN policy.retry_on = AllErrors
                                       ELSE ShouldRetry(policy, raised.exc)

\* An automatic retry: its delay may not be computable.
AutoRetry ==
    \/ Overflows(policy, retries + 1) /\ Escape
    \/ /\ ~Overflows(policy, retries + 1)
       /\ \E d \in Delays(policy, retries + 1) : Again(d, TRUE)

\* Mutant: the next attempt is published with the count of this one.
OnExceptionUncounted ==
    /\ pc = "raised" /\ raised.kind = "error"
    /\ \/ ~Retryable /\ Conclude
       \/ /\ Retryable
          /\ pc' = "queued"
          /\ UNCHANGED <<policy, raised, retries, eta, automatic, direct>>

\* _handle_exception_with_policy
OnException ==
    /\ pc = "raised" /\ raised.kind = "error"
    /\ IF Retryable /\ retries < policy.max_retries THEN AutoRetry ELSE Conclude

--------------------------------------------------------------------------------

Attempt == Deliver \/ Return \/ Fails \/ CtxFail \/ CtxRetry \/ DirectRetry
Handle == OnRetryError \/ OnExceeded \/ OnInvalid \/ OnException

Next == Attempt \/ Handle
Spec == Init /\ [][Next]_vars

\* Envelopes are delivered, functions end, handlers go on.
FairSpec == Spec /\ WF_vars(Next)

--------------------------------------------------------------------------------
(* Properties.                                                             *)

\* The retries of a task are those of its policy, whatever mixture of raised
\* exceptions and ctx.retry calls asked for them; only RetryErrors that the
\* function raises by itself come on top.
BudgetHolds == retries - direct <= policy.max_retries

\* No attempt follows one that failed with an exception that the policy does
\* not retry, whether it was raised, passed to ctx.fail or given to ctx.retry.
PermanentIsFinal ==
    [][retries' > retries /\ raised.exc \in Exceptions => ShouldRetry(policy, raised.exc)]_vars

\* The base delay that the policy promises for an attempt: the last one again, one
\* step more, or doubled, under the cap.
Schedule(p) ==
    LET f[n \in 1 .. (p.max_retries + MaxDirect)] ==
            IF n = 1 THEN Least(p.retry_delay, p.max_delay)
            ELSE CASE p.backoff = "fixed" -> f[n - 1]
                   [] p.backoff = "linear" -> Least(p.max_delay, f[n - 1] + p.retry_delay)
                   [] p.backoff = "exponential" -> Least(p.max_delay, 2 * f[n - 1])
    IN f

\* A calculated delay is the one of the schedule of the docs ("2s, 4s, 6s"), and with
\* jitter within a quarter of it ("~1s, ~2s, ~4s"), at every attempt that may come.
\* The cap is one on the base delay: the jitter comes after it, so a delay may be longer
\* than max_delay by a quarter ("never wait more" in docs/tutorial/retry-policies.md:166).
OnSchedule ==
    automatic =>
        LET d == IF eta = NoDelay THEN 0 ELSE eta
            s == Schedule(policy)[retries]
        IN  IF policy.jitter THEN 4 * d >= 3 * s /\ 4 * d <= 5 * s ELSE d = s

\* What a function may conclude from is_last_retry: it is not surprised by
\* MaxRetriesExceededError, which ctx.retry raises only where is_last_retry is true; and
\* where it is true and ctx.retry grants a retry all the same, that is the last one (the
\* "final attempt" of docs/tutorial/task-context.md:75-76 is the one after).
LastRetryAnnounced ==
    /\ raised.kind = "exceeded" => IsLastRetry
    /\ pc = "raised" /\ raised.kind = "retry" /\ IsLastRetry /\ direct = 0
           => retries + 1 = policy.max_retries

\* Every task comes to an end: its retries are bounded, whoever asks for them.
Concluded == <>(pc \in Ended \cup {"escaped"})

================================================================================
