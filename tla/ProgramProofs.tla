----------------------------- MODULE ProgramProofs -----------------------------
(***************************************************************************)
(* What Program says of its parts, for every instance of them: the retries *)
(* and the delays of a task under its policy, the settings and addresses   *)
(* that passed validation, the settings objects that applications share,   *)
(* the names of tasks, the arguments of a call, and the processes of the   *)
(* worker command.                                                         *)
(***************************************************************************)
EXTENDS Program, FunctionTheorems, FiniteSetTheorems, SequenceTheorems, WellFoundedInduction,
        TLAPS

--------------------------------------------------------------------------------
(* Powers of two.                                                          *)

\* Adding an element doubles the subsets.
LEMMA Doubling ==
    ASSUME NEW S, IsFiniteSet(S), NEW x, x \notin S
    PROVE  Cardinality(SUBSET (S \cup {x})) = 2 * Cardinality(SUBSET S)
<1> DEFINE T == SUBSET S
           U == {A \cup {x} : A \in T}
           f == [A \in T |-> A \cup {x}]
<1>1. IsFiniteSet(T) /\ Cardinality(T) \in Nat
  BY FS_SUBSET, FS_CardinalityType
<1>2. f \in Bijection(T, U)
  <2>1. f \in [T -> U]
    OBVIOUS
  <2>2. \A A, B \in T : f[A] = f[B] => A = B
    <3> SUFFICES ASSUME NEW A \in T, NEW B \in T, A \cup {x} = B \cup {x} PROVE A = B
      OBVIOUS
    <3>1. x \notin A /\ x \notin B
      OBVIOUS
    <3> QED
      BY <3>1
  <2>3. \A V \in U : \E A \in T : f[A] = V
    OBVIOUS
  <2> QED
    BY <2>1, <2>2, <2>3, Fun_IsBij
<1>3. IsFiniteSet(U) /\ Cardinality(U) = Cardinality(T)
  BY <1>1, <1>2, FS_Bijection DEF ExistsBijection
<1>4. T \cap U = {}
  <2> SUFFICES ASSUME NEW A \in T, A \in U PROVE FALSE
    OBVIOUS
  <2>1. x \in A
    OBVIOUS
  <2> QED
    BY <2>1
<1>5. SUBSET (S \cup {x}) = T \cup U
  <2>1. ASSUME NEW V \in SUBSET (S \cup {x}), x \in V
        PROVE  V \in U
    <3>1. V \ {x} \in T /\ V = (V \ {x}) \cup {x}
      BY <2>1
    <3> QED
      BY <3>1
  <2>2. ASSUME NEW V \in SUBSET (S \cup {x}), x \notin V
        PROVE  V \in T
    BY <2>2
  <2>3. T \cup U \subseteq SUBSET (S \cup {x})
    OBVIOUS
  <2> QED
    BY <2>1, <2>2, <2>3
<1> HIDE DEF T, U, f
<1>6. Cardinality(T \cup U) = Cardinality(T) + Cardinality(U) - Cardinality(T \cap U)
  BY <1>1, <1>3, FS_Union
<1>7. Cardinality(T \cap U) = 0
  BY <1>4, FS_EmptySet
<1>8. Cardinality(T \cup U) = 2 * Cardinality(T)
  BY <1>1, <1>3, <1>6, <1>7
<1>9. Cardinality(SUBSET (S \cup {x})) = 2 * Cardinality(T)
  BY <1>5, <1>8
<1> QED
  BY <1>9 DEF T

\* 2^n is the number of subsets of n things.
LEMMA Powers ==
    /\ 2^0 = 1
    /\ \A n \in Nat : 2^n \in Nat /\ 2^(n + 1) = 2 * 2^n
<1>1. \A n \in Nat : IsFiniteSet(1..n) /\ Cardinality(1..n) = n
  <2> SUFFICES ASSUME NEW n \in Nat PROVE IsFiniteSet(1..n) /\ Cardinality(1..n) = n
    OBVIOUS
  <2> QED
    BY FS_Interval
<1>2. \A n \in Nat : IsFiniteSet(SUBSET (1..n)) /\ Cardinality(SUBSET (1..n)) = 2^n
  <2> SUFFICES ASSUME NEW n \in Nat
               PROVE  IsFiniteSet(SUBSET (1..n)) /\ Cardinality(SUBSET (1..n)) = 2^n
    OBVIOUS
  <2> QED
    BY <1>1, FS_SUBSET
<1>3. \A n \in Nat : 2^n \in Nat
  BY <1>2, FS_CardinalityType
<1>4. 2^0 = 1
  <2>1. SUBSET (1..0) = {{}}
    OBVIOUS
  <2>2. Cardinality({{}}) = 1
    BY FS_Singleton
  <2>3. Cardinality(SUBSET (1..0)) = 2^0
    BY <1>2
  <2> QED
    BY <2>1, <2>2, <2>3
<1>5. ASSUME NEW n \in Nat PROVE 2^(n + 1) = 2 * 2^n
  <2>1. 1..(n + 1) = (1..n) \cup {n + 1} /\ n + 1 \notin 1..n /\ n + 1 \in Nat
    OBVIOUS
  <2>2. Cardinality(SUBSET ((1..n) \cup {n + 1})) = 2 * Cardinality(SUBSET (1..n))
    BY <1>1, <2>1, Doubling
  <2>3. Cardinality(SUBSET (1..(n + 1))) = 2^(n + 1) /\ Cardinality(SUBSET (1..n)) = 2^n
    BY <1>2, <2>1
  <2> QED
    BY <2>1, <2>2, <2>3
<1> QED
  BY <1>3, <1>4, <1>5

--------------------------------------------------------------------------------
(* The delays.                                                             *)

\* A non-empty set of naturals has a least element.
LEMMA Smallest ==
    ASSUME NEW T, T \subseteq Nat, T # {}
    PROVE  \E m \in T : \A n \in T : m <= n
<1> DEFINE R == OpToRel(<, Nat)
<1>1. \E x \in T : \A y \in T : <<y, x>> \notin R
  <2> HIDE DEF R
  <2>1. IsWellFoundedOn(R, Nat)
    BY NatLessThanWellFounded DEF R
  <2> QED
    BY <2>1, WFMin
<1>2. R = {ss \in Nat \X Nat : ss[1] < ss[2]}
  BY DEF OpToRel
<1> HIDE DEF R
<1>3. \A x, y \in Nat : <<y, x>> \in R <=> y < x
  BY <1>2
<1>4. \A x, y \in Nat : ~(y < x) => x <= y
  OBVIOUS
<1> QED
  BY <1>1, <1>3, <1>4

LEMMA Numbers ==
    ASSUME NEW p \in Policies
    PROVE  /\ p.max_retries \in Nat /\ p.retry_delay \in Nat /\ p.max_delay \in Nat
           /\ p.backoff \in Backoffs /\ MaxDirect \in Nat
BY RetryAssumption

\* The delay of the first attempt, and of each from the one before it.
LEMMA BaseDelaySteps ==
    ASSUME NEW p \in Policies, NEW n \in Nat, n >= 1
    PROVE  /\ BaseDelay(p, n) \in Nat
           /\ BaseDelay(p, n) =
                IF n = 1 THEN Least(p.retry_delay, p.max_delay)
                ELSE CASE p.backoff = "fixed" -> BaseDelay(p, n - 1)
                       [] p.backoff = "linear" ->
                            Least(p.max_delay, BaseDelay(p, n - 1) + p.retry_delay)
                       [] p.backoff = "exponential" ->
                            Least(p.max_delay, 2 * BaseDelay(p, n - 1))
<1>1. PICK r \in Nat, m \in Nat : r = p.retry_delay /\ m = p.max_delay
  BY Numbers
<1>2. CASE p.backoff = "fixed"
  BY <1>1, <1>2 DEF BaseDelay, Least
<1>3. CASE p.backoff = "linear"
  <2>1. \A k \in Nat : r * k \in Nat
    BY <1>1
  <2>2. \A k \in Nat : BaseDelay(p, k) = Least(m, r * k)
    BY <1>1, <1>3 DEF BaseDelay
  <2>3. CASE n = 1
    <3>1. r * 1 = r
      BY <1>1
    <3> QED
      BY <1>1, <2>2, <2>3, <3>1 DEF Least
  <2>4. CASE n # 1
    <3>1. n - 1 \in Nat /\ r * n = r * (n - 1) + r
      BY <1>1, <2>4
    <3>2. PICK a \in Nat : a = r * (n - 1)
      BY <2>1, <3>1
    <3>3. Least(m, a + r) = Least(m, Least(m, a) + r) /\ Least(m, a + r) \in Nat
      BY <1>1, <3>2 DEF Least
    <3> QED
      BY <1>1, <1>3, <2>2, <2>4, <3>1, <3>2, <3>3
  <2> QED
    BY <2>3, <2>4
<1>4. CASE p.backoff = "exponential"
  <2>1. \A k \in Nat : k >= 1 => BaseDelay(p, k) = Least(m, r * 2^(k - 1))
    BY <1>1, <1>4 DEF BaseDelay
  <2>2. CASE n = 1
    <3>1. n - 1 = 0 /\ 2^0 = 1 /\ r * 1 = r
      BY <1>1, <2>2, Powers
    <3>2. BaseDelay(p, n) = Least(m, r)
      BY <2>1, <3>1
    <3>3. Least(m, r) = Least(r, m) /\ Least(m, r) \in Nat
      BY <1>1 DEF Least
    <3> QED
      BY <1>1, <2>2, <3>2, <3>3
  <2>3. CASE n # 1
    <3>1. n - 2 \in Nat /\ n - 1 \in Nat /\ n - 1 >= 1 /\ (n - 2) + 1 = n - 1 /\ (n - 1) - 1 = n - 2
      BY <2>3
    <3>2. PICK w \in Nat : w = 2^(n - 2)
      BY <3>1, Powers
    <3>3. 2^(n - 1) = 2 * w
      BY <3>1, <3>2, Powers
    <3>4. PICK a \in Nat : a = r * w /\ r * (2 * w) = 2 * a
      BY <1>1, <3>2
    <3>5. BaseDelay(p, n) = Least(m, 2 * a) /\ BaseDelay(p, n - 1) = Least(m, a)
      BY <2>1, <3>1, <3>2, <3>3, <3>4
    <3>6. Least(m, 2 * a) = Least(m, 2 * Least(m, a)) /\ Least(m, 2 * a) \in Nat
      BY <1>1, <3>4 DEF Least
    <3> QED
      BY <1>1, <1>4, <2>3, <3>5, <3>6
  <2> QED
    BY <2>2, <2>3
<1> QED
  BY <1>2, <1>3, <1>4, Numbers DEF Backoffs

\* The recursion of the schedule has a solution, the delays of the code, and no other.
LEMMA ScheduleIsBaseDelay ==
    ASSUME NEW p \in Policies, NEW n \in 1 .. (p.max_retries + MaxDirect)
    PROVE  Schedule(p)[n] = BaseDelay(p, n)
<1> DEFINE D == 1 .. (p.max_retries + MaxDirect)
           Next1(g, k) == IF k = 1 THEN Least(p.retry_delay, p.max_delay)
                         ELSE CASE p.backoff = "fixed" -> g[k - 1]
                                [] p.backoff = "linear" -> Least(p.max_delay, g[k - 1] + p.retry_delay)
                                [] p.backoff = "exponential" -> Least(p.max_delay, 2 * g[k - 1])
           Solves(g) == g = [k \in D |-> Next1(g, k)]
           G == [k \in D |-> BaseDelay(p, k)]
           f == Schedule(p)
<1>1. D \subseteq Nat /\ \A k \in D : k >= 1 /\ (k # 1 => k - 1 \in D)
  BY Numbers
<1>2. f = CHOOSE g : Solves(g)
  BY DEF Schedule
<1>3. Solves(G)
  <2> SUFFICES ASSUME NEW k \in D PROVE BaseDelay(p, k) = Next1(G, k)
    OBVIOUS
  <2>1. k \in Nat /\ k >= 1 /\ (k # 1 => G[k - 1] = BaseDelay(p, k - 1))
    BY <1>1
  <2> QED
    BY <2>1, BaseDelaySteps
<1>4. Solves(f)
  <2> HIDE DEF Solves, f, G
  <2> QED
    BY <1>2, <1>3
<1>5. \A k \in D : f[k] = Next1(f, k)
  <2> HIDE DEF f, Next1
  <2> QED
    BY <1>4
<1>6. \A k \in D : f[k] = BaseDelay(p, k)
  <2> SUFFICES ASSUME NEW T, T = {k \in D : f[k] # BaseDelay(p, k)}, T # {} PROVE FALSE
    <3> HIDE DEF f
    <3> QED
      OBVIOUS
  <2>1. PICK k \in T : \A j \in T : k <= j
    <3>1. T \subseteq Nat
      BY <1>1
    <3> QED
      BY <3>1, Smallest
  <2>2. k \in D /\ k \in Nat /\ f[k] # BaseDelay(p, k)
    BY <1>1, <2>1
  <2>3. k # 1 => f[k - 1] = BaseDelay(p, k - 1)
    <3>1. ASSUME k # 1 PROVE k - 1 \in D /\ k - 1 \notin T
      <4>1. ~(k <= k - 1)
        BY <2>2
      <4> QED
        BY <1>1, <2>1, <2>2, <3>1, <4>1
    <3> HIDE DEF f
    <3> QED
      BY <3>1
  <2>4. Next1(f, k) = BaseDelay(p, k)
    <3> HIDE DEF f
    <3>1. k >= 1
      BY <1>1, <2>2
    <3> QED
      BY <2>2, <2>3, <3>1, BaseDelaySteps
  <2> QED
    BY <1>5, <2>2, <2>4
<1> QED
  BY <1>6

\* The jitter is a quarter of the delay at most.
LEMMA WithinQuarter ==
    ASSUME NEW p \in Policies, NEW n \in Nat, n >= 1, NEW d \in Delays(p, n)
    PROVE  /\ d \in Nat
           /\ 4 * d >= 3 * BaseDelay(p, n) /\ 4 * d <= 5 * BaseDelay(p, n)
<1>1. PICK b \in Nat : b = BaseDelay(p, n)
  BY BaseDelaySteps
<1>2. d \in (b - b \div 4) .. (b + b \div 4) \/ d = b
  BY <1>1 DEF Delays
<1>3. b \div 4 \in Nat /\ 4 * (b \div 4) <= b
  BY <1>1
<1> QED
  BY <1>1, <1>2, <1>3

--------------------------------------------------------------------------------
(* The attempts of a task.                                                 *)

\* What a handler relies on when it finds a RetryError: it may publish the next
\* attempt, because ctx.retry has looked at the budget and at the exception, and a
\* RetryError of the function itself has been counted.
RetryIsAllowed ==
    pc = "raised" /\ raised.kind = "retry" =>
        /\ retries - direct < policy.max_retries
        /\ raised.exc \in Exceptions => ShouldRetry(policy, raised.exc)

\* MaxRetriesExceededError is raised at the end of the budget, and not answered
\* by another attempt.
RefusalIsLast ==
    raised.kind = "exceeded" =>
        retries >= policy.max_retries /\ pc \in {"raised", "dead"}

\* The parts of the types that the arguments below need.
Typed ==
    /\ policy \in Policies
    /\ retries \in Nat /\ direct \in 0..MaxDirect
    /\ pc \in {"queued", "running", "raised", "succeeded", "dead", "escaped"}
    /\ pc = "queued" => raised.kind # "exceeded"

RInv == Typed /\ RetryIsAllowed /\ RefusalIsLast /\ BudgetHolds

LEMMA InitRInv == Init => RInv
BY RetryAssumption
DEF Init, RInv, Typed, RetryIsAllowed, RefusalIsLast, BudgetHolds, Nothing

\* The steps of the task function and of its context: none changes the count.
LEMMA AttemptKeeps ==
    ASSUME RInv, Attempt
    PROVE  RInv' /\ UNCHANGED retries
<1> USE RetryAssumption
    DEF RInv, Typed, RetryIsAllowed, RefusalIsLast, BudgetHolds
<1>1. CASE Deliver
  BY <1>1 DEF Deliver, Nothing
<1>2. CASE Return
  BY <1>2 DEF Return
<1>3. CASE Fails
  BY <1>3 DEF Fails, Leave, Raise
<1>4. CASE CtxFail
  BY <1>4 DEF CtxFail, Leave, Raise
<1>5. CASE CtxRetry
  <2>1. PICK e \in Exceptions \cup {None}, n \in Countdowns \cup {NoDelay} :
            LET allowed == e = None \/ ShouldRetry(policy, e) IN
            \/ retries >= policy.max_retries /\ Raise("exceeded", None, NoDelay, FALSE)
            \/ retries < policy.max_retries /\ ~allowed /\ Raise("error", e, NoDelay, FALSE)
            \/ retries < policy.max_retries /\ allowed /\ Schedules(e, n)
    BY <1>5 DEF CtxRetry
  <2>2. pc = "running" /\ pc' = "raised" /\ UNCHANGED <<policy, retries, direct>>
    BY <1>5 DEF CtxRetry, Leave
  <2>3. CASE retries >= policy.max_retries /\ Raise("exceeded", None, NoDelay, FALSE)
    BY <2>2, <2>3 DEF Raise
  <2>4. CASE retries < policy.max_retries /\ Raise("error", e, NoDelay, FALSE)
    BY <2>2, <2>4 DEF Raise
  <2>5. CASE /\ retries < policy.max_retries
             /\ e = None \/ ShouldRetry(policy, e)
             /\ Schedules(e, n)
    <3>1. \/ raised'.kind = "retry" /\ raised'.exc = e
          \/ raised'.kind = "error"
      BY <2>5 DEF Schedules, Raise
    <3>2. raised'.kind = "retry" /\ raised'.exc \in Exceptions
              => ShouldRetry(policy, raised'.exc)
      BY <2>5, <3>1 DEF None
    <3>3. policy' = policy
      BY <2>2
    <3>4. raised'.kind = "retry" /\ raised'.exc \in Exceptions
              => ShouldRetry(policy, raised.exc)'
      BY <3>2, <3>3 DEF ShouldRetry
    <3> QED
      BY <2>2, <2>5, <3>1, <3>4
  <2> QED
    BY <2>1, <2>3, <2>4, <2>5
<1>6. CASE DirectRetry
  BY <1>6 DEF DirectRetry, Leave, Raise, None
<1> QED
  BY <1>1, <1>2, <1>3, <1>4, <1>5, <1>6 DEF Attempt

\* What the handler does with the next attempt.
LEMMA AgainKeeps ==
    ASSUME RInv, pc = "raised", raised.kind # "exceeded",
           retries - direct < policy.max_retries,
           NEW n, NEW b, Again(n, b)
    PROVE  RInv'
BY RetryAssumption
DEF RInv, Typed, RetryIsAllowed, RefusalIsLast, BudgetHolds, Again

\* The handler concludes the task, or an exception leaves it.
LEMMA EndKeeps ==
    ASSUME RInv, pc = "raised",
           Conclude \/ (Escape /\ raised.kind # "exceeded")
    PROVE  RInv' /\ UNCHANGED retries
BY RetryAssumption
DEF RInv, Typed, RetryIsAllowed, RefusalIsLast, BudgetHolds, Conclude, Escape

\* An exception that is retried is one that the policy retries.
LEMMA RetryableIsAllowed ==
    ASSUME Retryable, raised.exc \in Exceptions
    PROVE  ShouldRetry(policy, raised.exc)
BY RetryAssumption DEF Retryable

\* The clauses of the worker: they keep the invariant, and publish another
\* attempt only where the policy retries the exception.
LEMMA HandleKeeps ==
    ASSUME RInv, Handle
    PROVE  /\ RInv'
           /\ \/ UNCHANGED retries
              \/ raised.exc \in Exceptions => ShouldRetry(policy, raised.exc)
<1>1. CASE OnRetryError
  <2>1. /\ pc = "raised" /\ raised.kind = "retry"
        /\ Again(raised.countdown, raised.computed)
    BY <1>1 DEF OnRetryError
  <2>2. /\ retries - direct < policy.max_retries
        /\ raised.exc \in Exceptions => ShouldRetry(policy, raised.exc)
    BY <2>1 DEF RInv, RetryIsAllowed
  <2> QED
    BY <2>1, <2>2, AgainKeeps
<1>2. CASE OnExceeded
  <2>1. pc = "raised" /\ Conclude
    BY <1>2 DEF OnExceeded
  <2> QED
    BY <2>1, EndKeeps
<1>3. CASE OnInvalid
  BY <1>3, EndKeeps DEF OnInvalid
<1>4. CASE OnException
  <2>1. pc = "raised" /\ raised.kind = "error"
    BY <1>4 DEF OnException
  <2>2. CASE Conclude
    BY <2>1, <2>2, EndKeeps
  <2>3. CASE Retryable /\ retries < policy.max_retries /\ AutoRetry
    <3>1. retries - direct < policy.max_retries
      BY <2>3, RetryAssumption DEF RInv, Typed
    <3>2. CASE Escape
      BY <2>1, <3>2, EndKeeps
    <3>3. CASE \E d \in Delays(policy, retries + 1) : Again(d, TRUE)
      BY <2>1, <2>3, <3>1, <3>3, AgainKeeps, RetryableIsAllowed
    <3> QED
      BY <2>3, <3>2, <3>3 DEF AutoRetry
  <2> QED
    BY <1>4, <2>2, <2>3 DEF OnException
<1> QED
  BY <1>1, <1>2, <1>3, <1>4 DEF Handle

LEMMA NextRInv ==
    ASSUME RInv, [Next]_vars
    PROVE  RInv'
<1>1. CASE Attempt
  BY <1>1, AttemptKeeps
<1>2. CASE Handle
  BY <1>2, HandleKeeps
<1>3. CASE UNCHANGED vars
  BY <1>3
  DEF vars, RInv, Typed, RetryIsAllowed, RefusalIsLast, BudgetHolds, ShouldRetry
<1> QED
  BY <1>1, <1>2, <1>3 DEF Next


--------------------------------------------------------------------------------
(* The types of an attempt, and its delays.                                *)

Raises == [kind : {"nothing", "retry", "exceeded", "invalid", "error"},
           exc : Exceptions \cup {None, "overflow"},
           countdown : Nat \cup {NoDelay}, computed : BOOLEAN]

\* A delay that the policy calculated is that of the attempt it is for, from the
\* moment it is raised to the moment it is published.
DelaysFollow ==
    /\ pc = "raised" /\ raised.kind = "retry" /\ raised.computed =>
           raised.countdown \in Delays(policy, retries + 1)
    /\ automatic =>
           /\ retries >= 1
           /\ \E d \in Delays(policy, retries) : eta = IF d = 0 THEN NoDelay ELSE d

PInv == TypeOK /\ RInv /\ DelaysFollow

LEMMA InitPInv == Init => PInv
<1> SUFFICES ASSUME Init PROVE PInv
  OBVIOUS
<1>1. TypeOK
  <2>1. 0 \in 0 .. (policy.max_retries + MaxDirect) /\ 0 \in 0 .. MaxDirect
    BY Numbers DEF Init
  <2> QED
    BY <2>1 DEF Init, TypeOK, Nothing, Ended
<1>2. DelaysFollow
  BY DEF Init, DelaysFollow
<1> QED
  BY <1>1, <1>2, InitRInv DEF PInv

\* What a step does to the variables that the types and the delays are about.
Raised ==
    /\ raised' \in Raises
    /\ raised'.kind = "retry" /\ raised'.computed
           => raised'.countdown \in Delays(policy, retries + 1)
    /\ pc' = "raised"
    /\ UNCHANGED <<policy, retries, eta, automatic>>
    /\ direct' = direct \/ (direct < MaxDirect /\ direct' = direct + 1)
Moved ==
    /\ raised' = raised \/ raised' = Nothing
    /\ pc' \in Ended \cup {"running", "escaped"}
    /\ UNCHANGED <<policy, retries, eta, automatic, direct>>
Requeued ==
    \E n \in Nat \cup {NoDelay}, b \in BOOLEAN :
        Again(n, b) /\ (b => n \in Delays(policy, retries + 1))

LEMMA RaiseTypes ==
    ASSUME NEW k \in {"nothing", "retry", "exceeded", "invalid", "error"},
           NEW e \in Exceptions \cup {None, "overflow"},
           NEW n \in Nat \cup {NoDelay}, NEW b \in BOOLEAN, Raise(k, e, n, b)
    PROVE  /\ raised' \in Raises
           /\ raised'.kind = k /\ raised'.computed = b /\ raised'.countdown = n
BY DEF Raise, Raises

LEMMA StepsAre ==
    ASSUME PInv, Next
    PROVE  Raised \/ Moved \/ Requeued
<1> USE DEF PInv
<1>1. /\ policy \in Policies /\ retries \in Nat /\ retries + 1 >= 1 /\ retries + 1 \in Nat
      /\ NoDelay \in Nat \cup {NoDelay} /\ Countdowns \subseteq Nat
      /\ \A d \in Delays(policy, retries + 1) : d \in Nat
  BY WithinQuarter, RetryAssumption DEF RInv, Typed
<1>2. CASE Deliver \/ Return
  BY <1>2 DEF Deliver, Return, Moved, Ended
<1>3. CASE Fails \/ CtxFail
  <2>1. PICK k \in {"error", "invalid"}, e \in Exceptions \cup {None} : Raise(k, e, NoDelay, FALSE)
    BY <1>3 DEF Fails, CtxFail
  <2>2. raised' \in Raises /\ raised'.kind = k
    BY <1>1, <2>1, RaiseTypes
  <2> QED
    BY <1>3, <2>1, <2>2 DEF Fails, CtxFail, Leave, Raised
<1>4. CASE CtxRetry
  <2>1. PICK e \in Exceptions \cup {None}, n \in Countdowns \cup {NoDelay} :
            \/ Raise("exceeded", None, NoDelay, FALSE)
            \/ Raise("error", e, NoDelay, FALSE)
            \/ Schedules(e, n)
    BY <1>4 DEF CtxRetry
  <2>2. pc' = "raised" /\ UNCHANGED <<policy, retries, eta, automatic, direct>>
    BY <1>4 DEF CtxRetry, Leave
  <2>3. CASE Raise("exceeded", None, NoDelay, FALSE)
    <3>1. raised' \in Raises /\ raised'.kind = "exceeded"
      BY <1>1, <2>3, RaiseTypes
    <3> QED
      BY <2>2, <3>1 DEF Raised
  <2>4. CASE Raise("error", e, NoDelay, FALSE)
    <3>1. raised' \in Raises /\ raised'.kind = "error"
      BY <1>1, <2>4, RaiseTypes
    <3> QED
      BY <2>2, <3>1 DEF Raised
  <2>5. CASE Schedules(e, n)
    <3>1. CASE Raise("retry", e, n, FALSE)
      <4>1. raised' \in Raises /\ raised'.computed = FALSE
        BY <1>1, <3>1, RaiseTypes
      <4> QED
        BY <2>2, <4>1 DEF Raised
    <3>2. CASE Raise("error", "overflow", NoDelay, FALSE)
      <4>1. raised' \in Raises /\ raised'.kind = "error"
        BY <1>1, <3>2, RaiseTypes
      <4> QED
        BY <2>2, <4>1 DEF Raised
    <3>3. CASE \E d \in Delays(policy, retries + 1) : Raise("retry", e, d, TRUE)
      <4>1. PICK d \in Delays(policy, retries + 1) : Raise("retry", e, d, TRUE)
        BY <3>3
      <4>2. d \in Nat \cup {NoDelay} /\ e \in Exceptions \cup {None, "overflow"}
        BY <1>1
      <4>3. raised' \in Raises /\ raised'.countdown = d
        BY <4>1, <4>2, RaiseTypes
      <4> QED
        BY <2>2, <4>3 DEF Raised
    <3> QED
      BY <2>5, <3>1, <3>2, <3>3 DEF Schedules
  <2> QED
    BY <2>1, <2>3, <2>4, <2>5
<1>5. CASE DirectRetry
  <2>1. PICK n \in Countdowns \cup {NoDelay} : Raise("retry", None, n, FALSE)
    BY <1>5 DEF DirectRetry
  <2>2. raised' \in Raises /\ raised'.computed = FALSE
    BY <1>1, <2>1, RaiseTypes
  <2> QED
    BY <1>5, <2>2 DEF DirectRetry, Leave, Raised
<1>6. CASE Conclude \/ Escape
  BY <1>6 DEF Conclude, Escape, Moved, Ended
<1>7. CASE OnRetryError
  <2>1. raised \in Raises /\ Again(raised.countdown, raised.computed)
    BY <1>7 DEF OnRetryError, TypeOK, Raises
  <2>2. raised.countdown \in Nat \cup {NoDelay} /\ raised.computed \in BOOLEAN
    BY <2>1 DEF Raises
  <2>3. raised.computed => raised.countdown \in Delays(policy, retries + 1)
    BY <1>7 DEF OnRetryError, DelaysFollow
  <2> QED
    BY <2>1, <2>2, <2>3 DEF Requeued
<1>8. CASE \E d \in Delays(policy, retries + 1) : Again(d, TRUE)
  BY <1>1, <1>8 DEF Requeued
<1>9. CASE OnException
  BY <1>6, <1>8, <1>9 DEF OnException, AutoRetry
<1> QED
  BY <1>2, <1>3, <1>4, <1>5, <1>6, <1>7, <1>9 DEF Next, Attempt, Handle, OnExceeded, OnInvalid

LEMMA NextPInv == PInv /\ [Next]_vars => PInv'
<1> SUFFICES ASSUME PInv, [Next]_vars PROVE PInv'
  OBVIOUS
<1> USE DEF PInv
<1>1. RInv'
  BY NextRInv
<1>2. policy' = policy /\ policy \in Policies
  BY DEF RInv, Typed, Next, vars, Attempt, Handle, Deliver, Return, Fails, CtxFail, CtxRetry,
         DirectRetry, OnRetryError, OnExceeded, OnInvalid, OnException, AutoRetry, Again,
         Conclude, Escape
<1>3. PICK m \in Nat : m = policy.max_retries
  BY <1>2, Numbers
<1>4. MaxDirect \in Nat
  BY RetryAssumption
<1>5. retries' \in 0 .. (policy'.max_retries + MaxDirect) /\ direct' \in 0..MaxDirect
  <2>0. policy'.max_retries = m
    BY <1>2, <1>3
  <2>1. retries' \in Nat /\ direct' \in 0..MaxDirect /\ retries' - direct' <= policy'.max_retries
    BY <1>1 DEF RInv, Typed, BudgetHolds
  <2>2. retries' <= m + MaxDirect
    BY <1>3, <1>4, <2>0, <2>1
  <2> QED
    BY <1>3, <1>4, <2>0, <2>1, <2>2
<1>6. CASE Raised
  <2>1. TypeOK'
    BY <1>2, <1>5, <1>6 DEF Raised, Raises, TypeOK, Ended
  <2>2. DelaysFollow'
    BY <1>6 DEF Raised, DelaysFollow, Delays, BaseDelay
  <2> QED
    BY <1>1, <2>1, <2>2
<1>7. CASE Moved
  <2>1. Nothing \in Raises
    BY DEF Nothing, Raises
  <2>2. TypeOK'
    BY <1>2, <1>5, <1>7, <2>1 DEF Moved, Raises, TypeOK, Ended
  <2>3. DelaysFollow'
    BY <1>7 DEF Moved, DelaysFollow, Delays, BaseDelay, Ended
  <2> QED
    BY <1>1, <2>2, <2>3
<1>8. CASE Requeued
  <2>1. PICK n \in Nat \cup {NoDelay}, b \in BOOLEAN :
            Again(n, b) /\ (b => n \in Delays(policy, retries + 1))
    BY <1>8 DEF Requeued
  <2>2. /\ retries' = retries + 1 /\ eta' = (IF n = 0 THEN NoDelay ELSE n)
        /\ automatic' = b /\ pc' = "queued" /\ UNCHANGED <<policy, raised, direct>>
    BY <2>1 DEF Again
  <2>3. TypeOK'
    BY <1>2, <1>5, <2>2 DEF TypeOK
  <2>4. DelaysFollow'
    <3>1. pc' # "raised"
      BY <2>2
    <3>2. ASSUME b
          PROVE  /\ retries' >= 1
                 /\ \E d \in Delays(policy', retries') : eta' = IF d = 0 THEN NoDelay ELSE d
      <4>1. n \in Delays(policy', retries')
        BY <2>1, <2>2, <3>2
      <4>2. retries \in Nat
        BY DEF RInv, Typed
      <4> QED
        BY <2>2, <4>1, <4>2
    <3>3. automatic' => /\ retries' >= 1
                        /\ \E d \in Delays(policy', retries') : eta' = IF d = 0 THEN NoDelay ELSE d
      BY <2>2, <3>2
    <3> QED
      BY <3>1, <3>3 DEF DelaysFollow
  <2> QED
    BY <1>1, <2>3, <2>4
<1>9. CASE UNCHANGED vars
  <2>1. TypeOK'
    BY <1>9 DEF vars, TypeOK
  <2>2. DelaysFollow'
    BY <1>9 DEF vars, DelaysFollow, Delays, BaseDelay
  <2> QED
    BY <1>1, <2>1, <2>2
<1> QED
  BY <1>6, <1>7, <1>8, <1>9, StepsAre

LEMMA DelaysKept == PInv => OnSchedule
<1> SUFFICES ASSUME PInv, automatic PROVE
        LET d == IF eta = NoDelay THEN 0 ELSE eta
            s == Schedule(policy)[retries]
        IN  IF policy.jitter THEN 4 * d >= 3 * s /\ 4 * d <= 5 * s ELSE d = s
  BY DEF OnSchedule
<1>1. /\ policy \in Policies /\ retries \in Nat /\ retries >= 1
      /\ retries \in 1 .. (policy.max_retries + MaxDirect)
  BY Numbers DEF PInv, TypeOK, RInv, Typed, DelaysFollow
<1>2. PICK d \in Delays(policy, retries) : eta = IF d = 0 THEN NoDelay ELSE d
  BY DEF PInv, DelaysFollow
<1>3. PICK b \in Nat : b = Schedule(policy)[retries] /\ b = BaseDelay(policy, retries)
  BY <1>1, ScheduleIsBaseDelay, BaseDelaySteps
<1>4. d \in Nat /\ 4 * d >= 3 * b /\ 4 * d <= 5 * b
  BY <1>1, <1>2, <1>3, WithinQuarter
<1>5. d = IF eta = NoDelay THEN 0 ELSE eta
  BY <1>2, <1>4 DEF NoDelay
<1>6. ~policy.jitter => d = b
  BY <1>2, <1>3 DEF Delays
<1> QED
  BY <1>3, <1>4, <1>5, <1>6

LEMMA RefusalsAnnounced == PInv => LastRetryAnnounced
<1> SUFFICES ASSUME PInv PROVE LastRetryAnnounced
  OBVIOUS
<1>1. retries \in Nat /\ policy.max_retries \in Nat
  BY Numbers DEF PInv, RInv, Typed
<1>2. raised.kind = "exceeded" => retries >= policy.max_retries
  BY DEF PInv, RInv, RefusalIsLast
<1>3. pc = "raised" /\ raised.kind = "retry" => retries - direct < policy.max_retries
  BY DEF PInv, RInv, RetryIsAllowed
<1> QED
  BY <1>1, <1>2, <1>3 DEF LastRetryAnnounced, IsLastRetry

LEMMA AlwaysPInv == Spec => []PInv
<1> QED
  BY InitPInv, NextPInv, PTL DEF Spec

--------------------------------------------------------------------------------

\* Program lets its parts go on one at a time: each sees its own steps and stutters.
LEMMA RetriesAPart == ProgramSpec => Spec
<1>1. ProgramInit => Init
  BY DEF ProgramInit
<1>2. [ProgramNext]_programVars => [Next]_vars
  <2> SUFFICES ASSUME [ProgramNext]_programVars PROVE Next \/ UNCHANGED vars
    OBVIOUS
  <2>1. CASE Retries
    BY <2>1 DEF Retries
  <2>2. CASE SettingStep \/ TargetStep \/ SharedStep \/ CallStep \/ NamingStep \/ CommandStep
    BY <2>2 DEF SettingStep, TargetStep, SharedStep, CallStep, NamingStep, CommandStep
  <2>3. CASE UNCHANGED programVars
    BY <2>3 DEF programVars
  <2> QED
    BY <2>1, <2>2, <2>3 DEF ProgramNext
<1>3. ProgramSpec => ProgramInit /\ [][ProgramNext]_programVars
  BY PTL DEF ProgramSpec
<1> QED
  BY <1>1, <1>2, <1>3, PTL DEF Spec

\* The retries of a task stay within the budget of its policy, the RetryErrors of the
\* function apart, whatever mixture of ctx.retry calls and exceptions asks for them;
\* every delay that calculate_delay gives is the schedule's of the docs, or with jitter
\* within a quarter of it (above max_delay too), for every backoff and every attempt;
\* and ctx.retry refuses only where ctx.is_last_retry has said so, and grants one retry at
\* most where it has.
THEOREM PolicyKept == ProgramSpec => []PolicyHolds
<1>1. PInv => PolicyHolds
  BY DelaysKept, RefusalsAnnounced DEF PInv, RInv, PolicyHolds
<1> QED
  BY <1>1, AlwaysPInv, RetriesAPart, PTL

\* No attempt follows one that failed with an exception that the policy does not
\* retry, however the task function let it out.
THEOREM PermanentFailureIsFinal == ProgramSpec => PermanentIsFinal
<1>1. ASSUME PInv, [Next]_vars
      PROVE  [retries' > retries /\ raised.exc \in Exceptions
                  => ShouldRetry(policy, raised.exc)]_vars
  <2> USE DEF PInv
  <2>1. CASE Attempt
    BY <1>1, <2>1, AttemptKeeps DEF RInv, Typed
  <2>2. CASE Handle
    BY <1>1, <2>2, HandleKeeps DEF RInv, Typed
  <2>3. CASE UNCHANGED vars
    BY <2>3
  <2> QED
    BY <1>1, <2>1, <2>2, <2>3 DEF Next
<1> QED
  BY <1>1, AlwaysPInv, RetriesAPart, PTL DEF Spec, PermanentIsFinal

--------------------------------------------------------------------------------
(* The processes of the worker command: any number of them, any timeout, any *)
(* lengths of their stops and any number of signals.                         *)

\* The command line gives at least one process; times are whole units.
CommandOptions ==
    N \in Nat /\ N >= 1 /\ Timeout \in Nat /\ StopTimes \subseteq Nat /\ MaxSignals \in Nat

\* Where a process is.
States == Command!Dead \cup Command!Outbound \cup {"unborn", "importing", "connecting", "running"}

\* A process that was told to end, and is about to.
Going == {"stopping", "exiting"}

\* A process that has heard the parent: it is over or going, or dropped the signal.
Told(c) == c \in deaf \/ child[c] \in Command!Dead \cup Going

\* A process that is not alive: not yet, or no longer.
Over(c) == child[c] \in Command!Dead \cup {"unborn"}

\* Where the parent's loops have been.
LoopsInv ==
    /\ parent = "spawning" => \A c \in 1 .. (at - 1) : child[c] # "unborn"
    /\ parent \in {"installing", "half installed", "waiting"} => at = 1
    /\ parent \in {"installing", "half installed", "waiting", "terminating", "joining"} =>
           \A c \in Command!Workers : child[c] # "unborn"
    /\ parent = "terminating" => \A c \in 1 .. (at - 1) : Told(c)
    /\ parent = "joining" =>
           /\ \A c \in Command!Workers : Told(c)
           /\ \A c \in 1 .. (at - 1) : ~Command!Alive(c)

\* How the clocks of the joins and of the stops are related.
ClockInv ==
    /\ \A c \in Command!Workers : age[c] <= takes[c]
    /\ parent # "joining" => waited = 0
    /\ parent = "joining" /\ child[at] \in Going => at \in deaf \/ waited <= age[at]
    /\ parent \notin {"joining", "returned"} => spent = 0
    /\ parent = "joining" => spent <= (at - 1) * Timeout + waited

\* What the command promises, apart from the workers that are cut off.
Orderly == Command!LeavesNobody /\ Command!KilledOnlyIfStuck /\ Command!SpentBounded

SInv == Command!TypeOK /\ LoopsInv /\ ClockInv /\ Orderly

\* Until Ctrl-C is pressed only the parent tells a process to end, once each.
UntoldInv ==
    ~interrupted =>
        \A c \in Command!Workers :
            /\ child[c] # "cut"
            /\ child[c] \in Going =>
                   \/ parent \in {"joining", "returned"}
                   \/ parent = "terminating" /\ c < at

USE DEF Command!Workers, Command!Dead, Command!Leaving, Command!Outbound, States, Going

\* The bound on the joins grows by one timeout with each process.
LEMMA Product ==
    ASSUME NEW n \in Nat, NEW k \in 1 .. n, NEW t \in Nat
    PROVE  /\ k * t \in Nat /\ (k - 1) * t \in Nat /\ n * t \in Nat
           /\ (k - 1) * t + t = k * t
           /\ k * t <= n * t
<1>1. k * t \in Nat /\ (k - 1) * t \in Nat /\ n * t \in Nat
  OBVIOUS
<1>2. (k - 1) * t + t = k * t
  OBVIOUS
<1>3. n * t = k * t + (n - k) * t /\ (n - k) * t \in Nat
  OBVIOUS
<1> QED
  BY <1>1, <1>2, <1>3

LEMMA Budget ==
    ASSUME NEW n \in Nat, NEW k \in 1 .. n, NEW t \in Nat, NEW w \in 0 .. t, NEW s \in Nat,
           s <= (k - 1) * t + w
    PROVE  s <= k * t /\ s <= n * t
<1> DEFINE a == (k - 1) * t
           b == k * t
           d == n * t
<1>1. a \in Nat /\ b \in Nat /\ d \in Nat /\ a + t = b /\ b <= d
  BY Product
<1>2. s <= a + w
  OBVIOUS
<1> HIDE DEF a, b, d
<1>3. s <= b /\ s <= d
  BY <1>1, <1>2
<1> QED
  BY <1>3 DEF b, d

\* The processes that a loop has passed.
LEMMA Passed ==
    ASSUME NEW n \in Nat, NEW k \in 1 .. n
    PROVE  /\ k \in Nat
           /\ \A c \in 1 .. (k - 1) : c \in 1 .. n /\ c # k
           /\ \A c \in 1 .. ((k + 1) - 1) : c \in 1 .. (k - 1) \/ c = k
           /\ \A c \in 1 .. n : k = n => c \in 1 .. (k - 1) \/ c = k
OBVIOUS

--------------------------------------------------------------------------------

LEMMA InitSInv == CommandOptions /\ Command!Init => SInv
<1> SUFFICES ASSUME CommandOptions, Command!Init PROVE SInv
  OBVIOUS
<1>1. Command!TypeOK
  <2>1. /\ N \in Nat /\ 1 <= N /\ 0 \in 0 .. Timeout /\ 0 \in 0 .. MaxSignals
    BY DEF CommandOptions
  <2>2. /\ child \in [Command!Workers -> {"unborn"}]
        /\ age \in [Command!Workers -> {0}]
    BY DEF Command!Init
  <2>3. /\ child \in [Command!Workers -> States]
        /\ age \in [Command!Workers -> Nat]
    BY <2>2
  <2>4. at \in Command!Workers
    BY <2>1 DEF Command!Init
  <2>5. shutdown \in BOOLEAN
    BY DEF Command!Init
  <2> QED
    BY <2>1, <2>3, <2>4, <2>5 DEF Command!Init, Command!TypeOK
<1>2. ClockInv
  <2>1. \A c \in Command!Workers : age[c] = 0 /\ takes[c] \in Nat
    BY DEF CommandOptions, Command!Init
  <2> QED
    BY <2>1 DEF Command!Init, ClockInv
<1>3. LoopsInv
  BY DEF CommandOptions, Command!Init, LoopsInv
<1>4. Orderly
  <2>1. 0 <= N * Timeout
    BY DEF CommandOptions
  <2> QED
    BY <2>1
       DEF Command!Init, Orderly, Command!LeavesNobody,
           Command!KilledOnlyIfStuck, Command!SpentBounded
<1> QED
  BY <1>1, <1>2, <1>3, <1>4 DEF SInv

\* The processes go on, on their own or by a signal: what none of them undoes.
GoOn ==
    /\ child' \in [Command!Workers -> States]
    /\ deaf' \subseteq Command!Workers
    /\ \A c \in Command!Workers :
           /\ child[c] # "unborn" => child'[c] # "unborn"
           /\ Told(c) => Told(c)'
           /\ ~Command!Alive(c) => ~Command!Alive(c)'
           /\ child'[c] = "killed" => child[c] = "killed"
           /\ c \in deaf => c \in deaf'
           /\ Told(c) /\ child'[c] \in Going => c \in deaf \/ child[c] \in Going

LEMMA SignalGoesOn ==
    ASSUME Command!TypeOK, NEW C \in SUBSET Command!Workers, NEW F, Command!Signalled(C, F)
    PROVE  /\ GoOn
           /\ \A c \in C \cap F : child[c] # "unborn" => Told(c)'
<1>1. /\ \A c \in Command!Workers : child'[c] = IF c \in C THEN Command!Hears(c, c \in F) ELSE child[c]
      /\ deaf' = deaf \cup {c \in C : child[c] = "connecting"}
  BY DEF Command!Signalled
<1>2. \A c \in Command!Workers :
          Command!Hears(c, c \in F) \in States
  BY DEF Command!Hears, Command!TypeOK
<1>3. /\ child' \in [Command!Workers -> States]
      /\ deaf' \subseteq Command!Workers
  BY <1>1, <1>2 DEF Command!Signalled, Command!TypeOK
<1>4. ASSUME NEW c \in Command!Workers
      PROVE  /\ child[c] # "unborn" => child'[c] # "unborn"
             /\ Told(c) => Told(c)'
             /\ ~Command!Alive(c) => ~Command!Alive(c)'
             /\ child'[c] = "killed" => child[c] = "killed"
             /\ c \in deaf => c \in deaf'
             /\ Told(c) /\ child'[c] \in Going => c \in deaf \/ child[c] \in Going
             /\ c \in C \cap F /\ child[c] # "unborn" => Told(c)'
  <2>1. child[c] \in States
    BY DEF Command!TypeOK
  <2> QED
    BY <1>1, <2>1 DEF Command!Hears, Told, Command!Alive
<1> QED
  BY <1>3, <1>4 DEF GoOn

LEMMA ChildGoesOn ==
    ASSUME Command!TypeOK, NEW c \in Command!Workers,
           \/ Command!Advance(c) \/ Command!Crash(c)
           \/ Command!ConsumeOver(c) \/ Command!Stopped(c)
    PROVE  GoOn
<1>1. PICK s \in {"connecting", "running", "exiting", "failing", "ended"} :
          /\ child' = [child EXCEPT ![c] = s]
          /\ Command!Alive(c)
          /\ child[c] \in Going => s \in {"exiting", "ended"}
          /\ s = "exiting" => child[c] = "stopping"
  BY DEF Command!Advance, Command!Crash, Command!ConsumeOver, Command!Stopped, Command!Alive
<1>2. deaf' = deaf
  BY DEF Command!Advance, Command!Crash, Command!ConsumeOver, Command!Stopped
<1>3. child'[c] = s /\ \A d \in Command!Workers : d # c => child'[d] = child[d]
  BY <1>1 DEF Command!TypeOK
<1>4. child' \in [Command!Workers -> States]
  BY <1>1 DEF Command!TypeOK
<1> QED
  BY <1>1, <1>2, <1>3, <1>4 DEF GoOn, Told, Command!Alive, Command!TypeOK

\* What the loops have seen to stays so while they stand still, or are left.
LEMMA LoopsStay ==
    ASSUME CommandOptions, at \in Command!Workers, LoopsInv, GoOn, at' = at,
           \/ parent' = parent
           \/ parent' \in {"killed"} \cup Command!Leaving
    PROVE  LoopsInv'
<1>1. \A c \in 1 .. (at - 1) : c \in Command!Workers
  BY Passed DEF CommandOptions
<1> QED
  BY <1>1 DEF LoopsInv, GoOn

\* Steps of the processes, and the parent's that leave its loops where they are.
LEMMA GoOnKeeps ==
    ASSUME CommandOptions, SInv, GoOn, UNCHANGED <<at, Command!times>>,
           parent' \in {"spawning", "installing", "half installed", "waiting", "terminating",
                        "joining", "returned", "killed"} \cup Command!Leaving,
           shutdown' \in BOOLEAN, interrupted' \in BOOLEAN, signals' \in 0 .. MaxSignals,
           \/ parent' = parent
           \/ parent' \in {"killed"} \cup Command!Leaving /\ parent \notin {"joining", "returned"}
    PROVE  SInv'
<1> USE DEF SInv, Command!times
<1>1. Command!TypeOK'
  BY DEF Command!TypeOK, GoOn
<1>2. at \in Command!Workers
  BY DEF Command!TypeOK
<1>3. LoopsInv'
  BY <1>2, LoopsStay
<1>4. ClockInv'
  <2>1. parent' = "joining" => parent = "joining" /\ Told(at)
    BY <1>2 DEF LoopsInv
  <2> QED
    BY <1>2, <2>1 DEF ClockInv, GoOn
<1>5. Orderly'
  BY DEF Orderly, Command!LeavesNobody, Command!KilledOnlyIfStuck,
         Command!SpentBounded, GoOn
<1> QED
  BY <1>1, <1>3, <1>4, <1>5

\* A step that leaves the processes alone.
LEMMA StillGoOn == ASSUME Command!TypeOK, UNCHANGED <<child, deaf>> PROVE GoOn
BY DEF GoOn, Told, Command!Alive, Command!TypeOK

--------------------------------------------------------------------------------
(* The parent.                                                             *)

\* Before the joins: the parent starts its processes, installs its handlers,
\* waits, and tells the processes one by one.
LEMMA BeforeKeeps ==
    ASSUME CommandOptions, SInv, Command!Spawn \/ Command!Install \/ Command!Notice \/ Command!Terminate
    PROVE  SInv'
<1> USE DEF SInv, Command!times
<1>1. N \in Nat /\ at \in 1 .. N
  BY DEF CommandOptions, Command!TypeOK
<1>2. CASE Command!Spawn
  <2>1. /\ parent = "spawning" /\ child' = [child EXCEPT ![at] = "importing"]
        /\ \/ at < N /\ at' = at + 1 /\ parent' = parent
           \/ at = N /\ at' = 1 /\ parent' = "installing"
        /\ UNCHANGED <<shutdown, waited, spent, age, takes, deaf, interrupted, signals>>
    BY <1>2 DEF Command!Spawn
  <2>2. child'[at] = "importing" /\ \A c \in Command!Workers : c # at => child'[c] = child[c]
    BY <2>1 DEF Command!TypeOK
  <2>3. Command!TypeOK'
    <3>1. at' \in Command!Workers
      BY <1>1, <2>1
    <3>2. parent' \in {"spawning", "installing"}
      BY <2>1
    <3> QED
      BY <2>1, <3>1, <3>2 DEF Command!TypeOK
  <2>4. LoopsInv'
    <3>1. \A c \in 1 .. (at - 1) : child'[c] # "unborn"
      BY <1>1, <2>1, <2>2 DEF LoopsInv
    <3>2. CASE at < N
      <4>1. at' = at + 1 /\ parent' = "spawning"
        BY <1>1, <2>1, <3>2
      <4>2. \A c \in 1 .. (at' - 1) : child'[c] # "unborn"
        BY <1>1, <2>2, <3>1, <4>1, Passed
      <4> QED
        BY <4>1, <4>2 DEF LoopsInv
    <3>3. CASE at = N
      <4>1. at' = 1 /\ parent' = "installing"
        BY <1>1, <2>1, <3>3
      <4>2. \A c \in Command!Workers : child'[c] # "unborn"
        BY <1>1, <2>2, <3>1, <3>3, Passed
      <4> QED
        BY <4>1, <4>2 DEF LoopsInv
    <3> QED
      BY <1>1, <3>2, <3>3
  <2>5. ClockInv'
    BY <2>1 DEF ClockInv
  <2>6. Orderly'
    BY <2>1, <2>2
       DEF Orderly, Command!LeavesNobody, Command!KilledOnlyIfStuck,
           Command!SpentBounded
  <2> QED
    BY <2>3, <2>4, <2>5, <2>6
<1>3. CASE Command!Install \/ Command!Notice
  <2>1. /\ UNCHANGED <<at, shutdown, waited, spent, age, takes, child, deaf, interrupted, signals>>
        /\ parent \in {"installing", "half installed", "waiting"}
        /\ parent' \in {"half installed", "waiting", "terminating"}
    BY <1>3 DEF Command!Install, Command!Notice
  <2>2. Command!TypeOK'
    BY <2>1 DEF Command!TypeOK
  <2>3. LoopsInv'
    <3>1. at = 1 /\ \A c \in Command!Workers : child[c] # "unborn"
      BY <2>1 DEF LoopsInv
    <3>2. \A c \in 1 .. (at - 1) : FALSE
      BY <3>1
    <3> QED
      BY <2>1, <3>1, <3>2 DEF LoopsInv
  <2>4. ClockInv'
    BY <2>1 DEF ClockInv
  <2>5. Orderly'
    BY <2>1
       DEF Orderly, Command!LeavesNobody, Command!KilledOnlyIfStuck,
           Command!SpentBounded
  <2> QED
    BY <2>2, <2>3, <2>4, <2>5
<1>4. CASE Command!Terminate
  <2>1. /\ parent = "terminating"
        /\ \/ at < N /\ at' = at + 1 /\ parent' = parent
           \/ at = N /\ at' = 1 /\ parent' = "joining"
        /\ UNCHANGED <<shutdown, waited, spent, age, takes, interrupted, signals>>
    BY <1>4 DEF Command!Terminate
  <2>2. PICK k \in Command!Workers : k = at
    BY <1>1
  <2>3. GoOn /\ Told(k)'
    <3>1. child[k] # "unborn"
      BY <2>1, <2>2 DEF LoopsInv
    <3>2. Command!Signalled({k}, {k})
      BY <1>4, <2>2 DEF Command!Terminate
    <3> QED
      BY <3>1, <3>2, SignalGoesOn
  <2>4. Command!TypeOK'
    <3>1. at' \in Command!Workers
      BY <1>1, <2>1
    <3>2. parent' \in {"terminating", "joining"}
      BY <2>1
    <3> QED
      BY <2>1, <2>3, <3>1, <3>2 DEF Command!TypeOK, GoOn
  <2>5. \A c \in 1 .. at : c \in Command!Workers /\ Told(c)'
    BY <1>1, <2>1, <2>2, <2>3 DEF LoopsInv, GoOn
  <2>6. \A c \in Command!Workers : child'[c] # "unborn"
    BY <2>1, <2>3 DEF LoopsInv, GoOn
  <2>7. CASE at < N
    <3>0. at' = at + 1 /\ parent' = "terminating"
      BY <1>1, <2>1, <2>7
    <3>1. LoopsInv'
      <4>1. \A c \in 1 .. (at' - 1) : Told(c)'
        BY <1>1, <2>5, <3>0
      <4> QED
        BY <2>6, <3>0, <4>1 DEF LoopsInv
    <3>2. ClockInv'
      BY <2>1, <3>0 DEF ClockInv
    <3> QED
      BY <2>1, <2>3, <2>4, <3>0, <3>1, <3>2
         DEF Orderly, Command!LeavesNobody, Command!KilledOnlyIfStuck,
             Command!SpentBounded, GoOn
  <2>8. CASE at = N
    <3>0. at' = 1 /\ parent' = "joining"
      BY <1>1, <2>1, <2>8
    <3>1. LoopsInv'
      <4>1. (\A c \in Command!Workers : Told(c)') /\ \A c \in 1 .. (1 - 1) : FALSE
        BY <2>5, <2>8
      <4> QED
        BY <2>6, <3>0, <4>1 DEF LoopsInv
    <3>2. ClockInv'
      <4>1. waited' = 0 /\ spent' = 0 /\ at' = 1 /\ \A c \in Command!Workers : age'[c] \in Nat
        BY <2>1, <2>8 DEF ClockInv, Command!TypeOK
      <4>2. (at' - 1) * Timeout + waited' = 0
        BY <4>1 DEF CommandOptions
      <4> QED
        BY <1>1, <2>1, <2>8, <4>1, <4>2 DEF ClockInv
    <3> QED
      BY <2>1, <2>3, <2>4, <3>0, <3>1, <3>2
         DEF Orderly, Command!LeavesNobody, Command!KilledOnlyIfStuck,
             Command!SpentBounded, GoOn
  <2> QED
    BY <1>1, <2>7, <2>8
<1> QED
  BY <1>2, <1>3, <1>4

\* The joins: one that returns, and one that times out and kills.
LEMMA JoinKeeps == ASSUME CommandOptions, SInv, Command!Joined \/ Command!Kill PROVE SInv'
<1> USE DEF SInv
<1>1. N \in Nat /\ at \in 1 .. N /\ Timeout \in Nat /\ waited \in 0 .. Timeout /\ spent \in Nat
  BY DEF CommandOptions, Command!TypeOK
<1>2. /\ parent = "joining" /\ Command!NextJoin
      /\ UNCHANGED <<shutdown, spent, age, takes, deaf, interrupted, signals>>
  BY DEF Command!Joined, Command!Kill
<1>3. PICK k \in Command!Workers : k = at
  BY <1>1
<1>4. \/ child' = child /\ ~Command!Alive(k)
      \/ child' = [child EXCEPT ![k] = "killed"] /\ Command!Alive(k) /\ waited >= Timeout
  BY <1>3 DEF Command!Joined, Command!Kill
<1>5. /\ child' \in [Command!Workers -> States]
      /\ Over(k)'
      /\ \A c \in Command!Workers : c # k => child'[c] = child[c]
  BY <1>3, <1>4 DEF Over, Command!TypeOK, Command!Alive
<1>6. Told(k) /\ (child[k] \in Going => k \in deaf \/ waited <= age[k])
  BY <1>2, <1>3 DEF LoopsInv, ClockInv
<1>7. child'[k] = "killed" => k \in deaf \/ takes[k] >= Timeout
  <2>1. CASE child' = child
    BY <2>1 DEF Orderly, Command!KilledOnlyIfStuck
  <2>2. CASE Command!Alive(k) /\ waited >= Timeout
    <3>1. k \in deaf \/ waited <= age[k]
      BY <1>6, <2>2 DEF Told, Over, Command!Alive
    <3>2. age[k] <= takes[k] /\ age[k] \in Nat /\ takes[k] \in Nat
      BY DEF ClockInv, Command!TypeOK, CommandOptions
    <3> QED
      BY <1>1, <2>2, <3>1, <3>2
  <2> QED
    BY <1>4, <2>1, <2>2
<1>8. \A c \in Command!Workers :
        /\ child'[c] # "unborn" /\ Told(c)'
        /\ c \in 1 .. (k - 1) => Over(c)'
  <2> TAKE c \in Command!Workers
  <2>1. child[c] # "unborn" /\ Told(c) /\ (c \in 1 .. (k - 1) => ~Command!Alive(c))
    BY <1>2, <1>3 DEF LoopsInv
  <2>2. CASE c = k
    BY <1>2, <1>4, <1>5, <2>1, <2>2, <1>1, <1>3 DEF Told, Over, Command!Alive, Command!TypeOK
  <2>3. CASE c # k
    BY <1>2, <1>5, <2>1, <2>3 DEF Told, Over, Command!Alive
  <2> QED
    BY <2>2, <2>3
<1>9. spent <= k * Timeout /\ spent <= N * Timeout
  <2>1. spent <= (k - 1) * Timeout + waited
    BY <1>2, <1>3 DEF ClockInv
  <2> QED
    BY <1>1, <1>3, <2>1, Budget
<1>10. Command!KilledOnlyIfStuck' /\ Command!SpentBounded'
  BY <1>2, <1>5, <1>7, <1>9
     DEF Orderly, Command!KilledOnlyIfStuck, Command!SpentBounded
<1>11. CASE at < N
  <2>1. at' = at + 1 /\ at' \in 1 .. N /\ parent' = "joining" /\ waited' = 0
    BY <1>1, <1>2, <1>11 DEF Command!NextJoin
  <2>2. Command!TypeOK'
    BY <1>1, <1>2, <1>5, <2>1 DEF Command!TypeOK
  <2>3. LoopsInv'
    <3>1. \A c \in 1 .. (at' - 1) : c \in Command!Workers /\ (c \in 1 .. (k - 1) \/ c = k)
      BY <1>1, <1>3, <2>1
    <3>2. ASSUME NEW c \in 1 .. (at' - 1) PROVE Over(c)'
      BY <1>5, <1>8, <3>1 DEF Over, Told
    <3>3. ASSUME NEW c \in Command!Workers PROVE child'[c] # "unborn" /\ Told(c)'
      BY <1>8 DEF Over, Told
    <3> QED
      BY <2>1, <3>2, <3>3 DEF LoopsInv, Over, Command!Alive
  <2>4. ClockInv'
    <3>1. \A c \in Command!Workers : age[c] \in Nat
      BY DEF Command!TypeOK
    <3>2. (at' - 1) * Timeout + waited' = k * Timeout
      BY <1>1, <1>3, <2>1
    <3> QED
      BY <1>2, <1>9, <2>1, <3>1, <3>2 DEF ClockInv
  <2> QED
    BY <1>10, <2>1, <2>2, <2>3, <2>4 DEF Orderly, Command!LeavesNobody
<1>12. CASE at = N
  <2>1. at' = at /\ parent' = "returned" /\ waited' = 0
    BY <1>1, <1>2, <1>12 DEF Command!NextJoin
  <2>2. Command!TypeOK'
    BY <1>1, <1>2, <1>5, <2>1 DEF Command!TypeOK
  <2>3. LoopsInv' /\ ClockInv'
    BY <1>2, <2>1 DEF LoopsInv, ClockInv
  <2>4. \A c \in Command!Workers : Over(c)'
    <3>1. \A c \in Command!Workers : c \in 1 .. (k - 1) \/ c = k
      BY <1>1, <1>3, <1>12
    <3>2. ASSUME NEW c \in Command!Workers PROVE Over(c)'
      BY <1>5, <1>8, <3>1 DEF Over, Told
    <3> QED
      BY <3>2
  <2> QED
    BY <1>10, <2>1, <2>2, <2>3, <2>4
       DEF Over, Command!Alive, Orderly, Command!LeavesNobody
<1> QED
  BY <1>1, <1>11, <1>12

--------------------------------------------------------------------------------
(* The outside, and time.                                                  *)

\* A parent at its exit, and the signals.
LEMMA OutsideKeeps ==
    ASSUME CommandOptions, SInv, Command!Leave \/ Command!SigTerm \/ Command!CtrlC
    PROVE  SInv'
<1> USE DEF SInv
<1>0. signals \in Nat /\ MaxSignals \in Nat
  <2>1. MaxSignals \in Nat
    BY DEF CommandOptions
  <2>2. signals \in 0 .. MaxSignals
    BY DEF Command!TypeOK
  <2> QED
    BY <2>1, <2>2
<1>1. CASE Command!Leave
  <2>1. /\ parent' = "returned" /\ parent \in Command!Leaving
        /\ \A c \in Command!Workers : ~Command!Alive(c)
        /\ UNCHANGED <<at, shutdown, waited, spent, age, takes, child, deaf, interrupted, signals>>
    BY <1>1 DEF Command!Leave, Command!times
  <2>2. Command!TypeOK'
    BY <2>1 DEF Command!TypeOK
  <2>3. LoopsInv' /\ ClockInv'
    BY <2>1 DEF LoopsInv, ClockInv
  <2> QED
    BY <2>1, <2>2, <2>3
       DEF Orderly, Command!LeavesNobody, Command!KilledOnlyIfStuck,
           Command!SpentBounded, Command!Alive
<1>2. CASE Command!SigTerm
  <2>1. GoOn
    BY <1>2, StillGoOn DEF Command!SigTerm
  <2>2. signals' \in 0 .. MaxSignals
    <3>1. signals < MaxSignals /\ signals' = signals + 1
      BY <1>2 DEF Command!SigTerm
    <3> QED
      BY <1>0, <3>1
  <2>3. shutdown' \in BOOLEAN /\ interrupted' \in BOOLEAN
    BY <1>2 DEF Command!SigTerm, Command!TypeOK
  <2>4. parent' = parent \/ (parent' = "killed" /\ parent \notin {"joining", "returned"})
    BY <1>2 DEF Command!SigTerm
  <2>5. UNCHANGED <<at, Command!times>>
    BY <1>2 DEF Command!SigTerm
  <2> QED
    BY <2>1, <2>2, <2>3, <2>4, <2>5, GoOnKeeps DEF Command!TypeOK
<1>3. CASE Command!CtrlC
  <2>1. GoOn
    <3>1. PICK F : Command!Signalled(Command!Workers, F)
      BY <1>3 DEF Command!CtrlC
    <3> QED
      BY <3>1, SignalGoesOn
  <2>2. signals' \in 0 .. MaxSignals
    <3>1. signals < MaxSignals /\ signals' = signals + 1
      BY <1>3 DEF Command!CtrlC
    <3> QED
      BY <1>0, <3>1
  <2>3. shutdown' \in BOOLEAN /\ interrupted' \in BOOLEAN
    BY <1>3 DEF Command!CtrlC, Command!TypeOK
  <2>4. \/ parent' = parent
        \/ parent' \in {"killed"} \cup Command!Leaving /\ parent \notin {"joining", "returned"}
    BY <1>3 DEF Command!CtrlC
  <2>5. UNCHANGED <<at, Command!times>>
    BY <1>3 DEF Command!CtrlC
  <2> QED
    BY <2>1, <2>2, <2>3, <2>4, <2>5, GoOnKeeps DEF Command!TypeOK
<1> QED
  BY <1>1, <1>2, <1>3

\* The clocks of the stops and of the join go on together.
LEMMA CommandTickKeeps == ASSUME CommandOptions, SInv, Command!Tick PROVE SInv'
<1> USE DEF SInv
<1>1. /\ UNCHANGED <<parent, at, shutdown, takes, child, deaf, interrupted, signals>>
      /\ age' = [c \in Command!Workers |-> IF child[c] \in Command!Outbound THEN age[c] + 1 ELSE age[c]]
      /\ \A c \in Command!Workers : child[c] \in Command!Outbound => age[c] < takes[c]
      /\ parent = "joining" => waited < Timeout /\ waited' = waited + 1 /\ spent' = spent + 1
      /\ parent # "joining" => waited' = waited /\ spent' = spent
  BY DEF Command!Tick
<1>2. /\ N \in Nat /\ at \in 1 .. N /\ Timeout \in Nat
      /\ waited \in 0 .. Timeout /\ spent \in Nat
      /\ \A c \in Command!Workers : age[c] \in Nat /\ takes[c] \in Nat
  BY DEF CommandOptions, Command!TypeOK
<1>3. waited' \in 0 .. Timeout /\ spent' \in Nat
  BY <1>1, <1>2
<1>4. age' \in [Command!Workers -> Nat]
  BY <1>1, <1>2
<1>5. \A c \in Command!Workers :
          age'[c] = (IF child[c] \in Command!Outbound THEN age[c] + 1 ELSE age[c]) /\ age'[c] <= takes[c]
  BY <1>1, <1>2 DEF ClockInv
<1>6. Command!TypeOK'
  BY <1>1, <1>3, <1>4 DEF Command!TypeOK
<1>7. LoopsInv'
  <2>1. GoOn
    BY <1>1, StillGoOn
  <2>2. at' = at /\ parent' = parent
    BY <1>1
  <2>3. LoopsInv /\ at \in Command!Workers
    BY <1>2
  <2> QED
    BY <2>1, <2>2, <2>3, LoopsStay
<1>8. parent = "joining" => spent' <= (at - 1) * Timeout + waited'
  <2> DEFINE a == (at - 1) * Timeout
  <2>1. a \in Nat
    BY <1>2, Product
  <2>2. parent = "joining" => spent <= a + waited
    BY DEF ClockInv
  <2> HIDE DEF a
  <2>3. parent = "joining" => spent' <= a + waited'
    BY <1>1, <1>2, <2>1, <2>2
  <2> QED
    BY <2>3 DEF a
<1>9. ClockInv'
  <2>1. parent = "joining" /\ child[at] \in Going => at \in deaf \/ waited' <= age'[at]
    BY <1>1, <1>2, <1>5 DEF ClockInv
  <2> QED
    BY <1>1, <1>5, <1>8, <2>1 DEF ClockInv
<1>10. Command!SpentBounded'
  <2>1. CASE parent = "joining"
    BY <1>1, <1>2, <1>3, <1>8, <2>1, Budget DEF Command!SpentBounded
  <2>2. CASE parent # "joining"
    BY <1>1, <2>2 DEF Orderly, Command!SpentBounded
  <2> QED
    BY <2>1, <2>2
<1> QED
  BY <1>1, <1>6, <1>7, <1>9, <1>10
     DEF Orderly, Command!LeavesNobody, Command!KilledOnlyIfStuck,
         Command!Alive

LEMMA NextSInv == CommandOptions /\ SInv /\ [Command!Next]_(Command!vars) => SInv'
<1> SUFFICES ASSUME CommandOptions, SInv, [Command!Next]_(Command!vars) PROVE SInv'
  OBVIOUS
<1>1. Command!TypeOK
  BY DEF SInv
<1>2. ASSUME NEW c \in Command!Workers,
             \/ Command!Advance(c) \/ Command!Crash(c)
             \/ Command!ConsumeOver(c) \/ Command!Stopped(c)
      PROVE  SInv'
  <2>1. GoOn
    BY <1>1, <1>2, ChildGoesOn
  <2>2. UNCHANGED <<parent, at, shutdown, Command!times, interrupted, signals>>
    BY <1>2 DEF Command!Advance, Command!Crash, Command!ConsumeOver, Command!Stopped
  <2> QED
    BY <1>1, <2>1, <2>2, GoOnKeeps DEF Command!TypeOK
<1>3. CASE UNCHANGED Command!vars
  <2>1. GoOn
    BY <1>1, <1>3, StillGoOn DEF Command!vars
  <2> QED
    BY <1>1, <1>3, <2>1, GoOnKeeps DEF Command!vars, Command!TypeOK
<1> QED
  BY <1>2, <1>3, BeforeKeeps, JoinKeeps, OutsideKeeps, CommandTickKeeps
     DEF Command!Next, Command!Parent

\* The parent tells a process that nobody has told before.
LEMMA NextUntold ==
    CommandOptions /\ SInv /\ UntoldInv /\ [Command!Next]_(Command!vars) => UntoldInv'
<1> SUFFICES ASSUME CommandOptions, SInv, UntoldInv, [Command!Next]_(Command!vars), ~interrupted'
             PROVE  \A c \in Command!Workers :
                        /\ child'[c] # "cut"
                        /\ child'[c] \in Going =>
                               \/ parent' \in {"joining", "returned"}
                               \/ parent' = "terminating" /\ c < at'
  BY DEF UntoldInv
<1>1. /\ ~Command!CtrlC /\ ~interrupted
      /\ N \in Nat /\ at \in 1 .. N
      /\ \A c \in Command!Workers : child[c] \in States
  <2>1. ~Command!CtrlC
    BY DEF Command!CtrlC
  <2>2. interrupted' = interrupted
    BY <2>1 DEF Command!Next, Command!Parent, Command!vars, Command!Spawn, Command!Install,
                Command!Notice, Command!Terminate, Command!Joined, Command!Kill, Command!Leave,
                Command!SigTerm, Command!Tick, Command!Advance, Command!Crash,
                Command!ConsumeOver, Command!Stopped
  <2> QED
    BY <2>1, <2>2 DEF SInv, Command!TypeOK, CommandOptions
<1>2. \A c \in Command!Workers :
        /\ child[c] # "cut"
        /\ child[c] \in Going =>
               parent \in {"joining", "returned"} \/ (parent = "terminating" /\ c < at)
  BY <1>1 DEF UntoldInv
<1>3. CASE Command!Spawn
  <2>1. /\ parent = "spawning"
        /\ \A c \in Command!Workers : child'[c] = child[c] \/ child'[c] = "importing"
    BY <1>3 DEF Command!Spawn, SInv, Command!TypeOK
  <2> QED
    BY <1>2, <2>1
<1>4. CASE Command!Terminate
  <2>1. /\ parent = "terminating"
        /\ \A c \in Command!Workers :
               child'[c] = IF c = at THEN Command!Hears(c, TRUE) ELSE child[c]
        /\ (at < N /\ at' = at + 1 /\ parent' = "terminating") \/ parent' = "joining"
    BY <1>4 DEF Command!Terminate, Command!Signalled
  <2>2. child[at] \notin Going
    BY <1>1, <1>2, <2>1
  <2>3. \A c \in Command!Workers : child'[c] # "cut"
    BY <1>1, <1>2, <2>1, <2>2 DEF Command!Hears
  <2>4. \A c \in Command!Workers : c # at /\ child'[c] \in Going => c < at
    BY <1>2, <2>1
  <2> QED
    BY <1>1, <2>1, <2>3, <2>4
<1>5. CASE Command!Joined \/ Command!Kill \/ Command!Leave
  <2>1. /\ parent' \in {"joining", "returned"}
        /\ \A c \in Command!Workers : child'[c] = child[c] \/ child'[c] = "killed"
    BY <1>5 DEF Command!Joined, Command!Kill, Command!Leave, Command!NextJoin, SInv, Command!TypeOK
  <2> QED
    BY <1>2, <2>1
<1>6. CASE \/ Command!Install \/ Command!Notice \/ Command!SigTerm \/ Command!Tick
           \/ UNCHANGED Command!vars
  <2>1. /\ child' = child /\ at' = at
        /\ parent' = parent \/ parent \notin {"terminating", "joining", "returned"}
    BY <1>6 DEF Command!Install, Command!Notice, Command!SigTerm, Command!Tick, Command!vars
  <2> QED
    BY <1>2, <2>1
<1>7. ASSUME NEW d \in Command!Workers,
             \/ Command!Advance(d) \/ Command!Crash(d)
             \/ Command!ConsumeOver(d) \/ Command!Stopped(d)
      PROVE  \A c \in Command!Workers :
                 /\ child'[c] # "cut"
                 /\ child'[c] \in Going =>
                        parent' \in {"joining", "returned"} \/ (parent' = "terminating" /\ c < at')
  <2>1. /\ parent' = parent /\ at' = at
        /\ \A c \in Command!Workers :
               \/ child'[c] = child[c]
               \/ child'[c] \in {"connecting", "running", "failing", "ended"}
               \/ child'[c] = "exiting" /\ child[c] = "stopping"
    BY <1>7 DEF Command!Advance, Command!Crash, Command!ConsumeOver, Command!Stopped, SInv,
                Command!TypeOK
  <2> QED
    BY <1>2, <2>1
<1> QED
  BY <1>1, <1>3, <1>4, <1>5, <1>6, <1>7 DEF Command!Next, Command!Parent

--------------------------------------------------------------------------------

LEMMA AlwaysSInv == ASSUME CommandOptions PROVE Command!Spec => [](SInv /\ UntoldInv)
<1>1. Command!Init => SInv /\ UntoldInv
  BY InitSInv DEF Command!Init, UntoldInv
<1>2. SInv /\ UntoldInv /\ [Command!Next]_(Command!vars) => (SInv /\ UntoldInv)'
  BY NextSInv, NextUntold
<1> QED
  BY <1>1, <1>2, PTL DEF Command!Spec

LEMMA CommandApart == ProgramSpec => Command!Spec
<1>1. ProgramInit => Command!Init
  BY DEF ProgramInit
<1>2. [ProgramNext]_programVars => [Command!Next]_(Command!vars)
  <2> SUFFICES ASSUME [ProgramNext]_programVars PROVE Command!Next \/ UNCHANGED Command!vars
    OBVIOUS
  <2>1. CASE CommandStep
    BY <2>1 DEF CommandStep
  <2>2. CASE Retries \/ SettingStep \/ TargetStep \/ SharedStep \/ CallStep \/ NamingStep
    BY <2>2 DEF Retries, SettingStep, TargetStep, SharedStep, CallStep, NamingStep, commandVars,
                Command!vars, Command!times
  <2>3. CASE UNCHANGED programVars
    BY <2>3 DEF programVars, commandVars, Command!vars, Command!times
  <2> QED
    BY <2>1, <2>2, <2>3 DEF ProgramNext
<1>3. ProgramSpec => ProgramInit /\ [][ProgramNext]_programVars
  BY PTL DEF ProgramSpec
<1> QED
  BY <1>1, <1>2, <1>3, PTL DEF Command!Spec

\* The command leaves no process behind when it returns, kills only who is stuck
\* or has dropped its signal, and takes at most one timeout for each process; its
\* own SIGTERM cuts no process off in its exit unless Ctrl-C was pressed as well.
THEOREM CommandKeepsPromise == ASSUME CommandOptions PROVE ProgramSpec => []CommandKeepsItsWord
<1>1. SInv /\ UntoldInv => CommandKeepsItsWord
  BY DEF SInv, Orderly, UntoldInv, CommandKeepsItsWord, Command!KeepsItsWord,
         Command!CutOnlyIfInterrupted
<1>2. Command!Spec => [](SInv /\ UntoldInv)
  BY AlwaysSInv
<1> QED
  BY <1>1, <1>2, CommandApart, PTL

--------------------------------------------------------------------------------
(* The settings objects, the applications and the workers that copy from     *)
(* them.                                                                     *)

\* What a settings object may hold for the worker.
Held ==
    Shared!WorkerSettings
        \cup [Shared!Options -> UNION {Intervals, Ttls, Sizes, {10, 30, 32}}]
Objects == [mode : Shared!Modes, worker : Held]
Applications == [config : Configs, made : BOOLEAN, mode : Shared!Modes]

SharedTypes ==
    /\ env \in Shared!WorkerSettings
    /\ config \in [Configs -> Objects \cup {Shared!Unbuilt}]
    /\ app \in [Apps -> Applications \cup {Shared!Unmade}]
    /\ registered \subseteq [app : Apps, own : BOOLEAN, mode : Shared!Modes]
    /\ worker # Shared!NoWorker => worker.via \in {"app", "own", "cli"} /\ worker.app \in Apps

\* An application that made its broker and is alone with its config still has the mode
\* that the broker has; until there is a worker, every config is as it was checked.
CopiesInv ==
    /\ SharedTypes
    /\ \A a \in Apps : Shared!Made(a) => Shared!Built(app[a].config)
    /\ \A t \in registered : Shared!Made(t.app)
    /\ \A a \in Apps :
           Shared!Made(a) /\ app[a].made /\ Shared!SoleOwner(a) => Shared!ConfigOf(a).mode = app[a].mode
    /\ worker = Shared!NoWorker =>
           \A c \in Configs : Shared!Built(c) => Shared!Validated(config[c].worker)
    /\ Shared!BrokerAndTasksAgree
    /\ Shared!CheckedUnlessByHand

\* What tells the objects from the places where there are none.
LEMMA Kept ==
    /\ \A o \in Objects : o # Shared!Unbuilt /\ o.mode \in Shared!Modes
    /\ \A a \in Applications : a # Shared!Unmade /\ a.config \in Configs /\ a.mode \in Shared!Modes
<1>1. ASSUME NEW o \in Objects PROVE o # Shared!Unbuilt /\ o.mode \in Shared!Modes
  <2>1. o.mode \in Shared!Modes
    BY DEF Objects
  <2>2. Shared!Unbuilt.mode \notin Shared!Modes
    BY DEF Shared!Unbuilt, Shared!Modes, Shared!NotGiven, Shared!AtMostOnce, Shared!AtLeastOnce
  <2> QED
    BY <2>1, <2>2
<1>2. ASSUME NEW a \in Applications
      PROVE  a # Shared!Unmade /\ a.config \in Configs /\ a.mode \in Shared!Modes
  <2>1. DOMAIN a = {"config", "made", "mode"} /\ a.config \in Configs /\ a.mode \in Shared!Modes
    BY DEF Applications
  <2>2. DOMAIN Shared!Unmade = {"config"}
    BY DEF Shared!Unmade
  <2>3. "made" \notin {"config"}
    OBVIOUS
  <2> QED
    BY <2>1, <2>2, <2>3
<1> QED
  BY <1>1, <1>2

LEMMA InitCopies == Shared!Init => CopiesInv
<1> SUFFICES ASSUME Shared!Init PROVE CopiesInv
  OBVIOUS
<1>1. /\ env \in Shared!WorkerSettings
      /\ config = [c \in Configs |-> Shared!Unbuilt] /\ app = [a \in Apps |-> Shared!Unmade]
      /\ registered = {} /\ worker = Shared!NoWorker
  BY DEF Shared!Init
<1>2. \A a \in Apps : ~Shared!Made(a)
  BY <1>1 DEF Shared!Made
<1>3. \A c \in Configs : ~Shared!Built(c)
  BY <1>1 DEF Shared!Built
<1>4. SharedTypes
  BY <1>1 DEF SharedTypes
<1> QED
  BY <1>1, <1>2, <1>3, <1>4
     DEF CopiesInv, Shared!BrokerAndTasksAgree, Shared!CheckedUnlessByHand

LEMMA BuildConfigKeeps ==
    ASSUME CopiesInv, NEW c \in Configs, Shared!BuildConfig(c)
    PROVE  CopiesInv'
<1>1. PICK o \in Objects :
          config' = [config EXCEPT ![c] = o] /\ Shared!Validated(o.worker)
  <2>1. PICK mode \in Shared!Modes, w \in Shared!WorkerSettings :
            Shared!Validated(w) /\ config' = [config EXCEPT ![c] = Shared!Object(mode, w)]
    BY DEF Shared!BuildConfig
  <2>2. Shared!Object(mode, w) \in Objects /\ Shared!Object(mode, w).worker = w
    BY DEF Shared!Object, Objects, Held
  <2> QED
    BY <2>1, <2>2
<1>2. /\ worker = Shared!NoWorker /\ ~Shared!Built(c)
      /\ UNCHANGED <<env, app, registered, worker>>
  BY DEF Shared!BuildConfig
<1>3. /\ config' \in [Configs -> Objects \cup {Shared!Unbuilt}]
      /\ config'[c] = o /\ \A d \in Configs : d # c => config'[d] = config[d]
  BY <1>1 DEF CopiesInv, SharedTypes
<1>4. SharedTypes'
  BY <1>2, <1>3 DEF CopiesInv, SharedTypes
<1>5. \A a \in Apps :
        /\ Shared!Made(a)' <=> Shared!Made(a)
        /\ Shared!SoleOwner(a)' <=> Shared!SoleOwner(a)
  BY <1>2 DEF Shared!Made, Shared!SoleOwner
<1>6. ASSUME NEW a \in Apps, Shared!Made(a)
      PROVE  Shared!Built(app[a].config)' /\ Shared!ConfigOf(a)' = Shared!ConfigOf(a)
  <2>1. app[a] \in Applications /\ app[a].config \in Configs /\ Shared!Built(app[a].config)
    BY <1>6, Kept DEF CopiesInv, SharedTypes, Shared!Made
  <2>2. app'[a].config = app[a].config /\ app[a].config # c
    BY <1>2, <2>1
  <2>3. config'[app[a].config] = config[app[a].config]
    BY <1>3, <2>1, <2>2
  <2> QED
    BY <1>2, <2>1, <2>3 DEF Shared!Built, Shared!ConfigOf
<1>7. \A d \in Configs : Shared!Built(d)' => Shared!Validated(config'[d].worker)
  BY <1>1, <1>2, <1>3 DEF CopiesInv, Shared!Built
<1>8. \A t \in registered' : Shared!Made(t.app)'
  BY <1>2, <1>5 DEF CopiesInv, SharedTypes
<1>9. Shared!BrokerAndTasksAgree' /\ Shared!CheckedUnlessByHand'
  BY <1>2, <1>5 DEF CopiesInv, SharedTypes, Shared!BrokerAndTasksAgree, Shared!CheckedUnlessByHand
<1> QED
  BY <1>2, <1>4, <1>5, <1>6, <1>7, <1>8, <1>9 DEF CopiesInv

LEMMA MakeAppKeeps ==
    ASSUME CopiesInv, NEW a \in Apps, NEW c \in Configs, NEW shared \in BOOLEAN,
           NEW asked \in Shared!Given(Shared!Modes),
           NEW broker \in Shared!Given(Shared!Modes) \cup {"created"},
           Shared!MakeApp(a, c, shared, asked, broker)
    PROVE  CopiesInv'
<1>1. /\ worker = Shared!NoWorker /\ ~Shared!Made(a)
      /\ IF shared THEN Shared!Built(c) ELSE ~Shared!Built(c) /\ Shared!Validated(env)
      /\ UNCHANGED <<env, registered, worker>>
  BY DEF Shared!MakeApp
<1>2. PICK held : held = IF shared THEN config[c] ELSE Shared!Object(Shared!AtLeastOnce, env)
  OBVIOUS
<1>3. PICK mode : mode = IF asked = Shared!NotGiven THEN held.mode ELSE asked
  OBVIOUS
<1>4. PICK o : o = [held EXCEPT !.mode = mode]
  OBVIOUS
<1>5. PICK new : new = [config |-> c, made |-> broker = "created",
                        mode |-> IF broker = "created" THEN mode ELSE Shared!OwnBroker(broker)]
  OBVIOUS
<1>6. config' = [config EXCEPT ![c] = o] /\ app' = [app EXCEPT ![a] = new]
  BY <1>2, <1>3, <1>4, <1>5 DEF Shared!MakeApp
<1>7. held \in Objects /\ Shared!Validated(held.worker)
  <2>1. CASE shared
    BY <1>1, <1>2, <2>1 DEF CopiesInv, SharedTypes, Shared!Built
  <2>2. CASE ~shared
    <3>1. held = [mode |-> Shared!AtLeastOnce, worker |-> env] /\ env \in Held
      BY <1>2, <2>2 DEF Shared!Object, CopiesInv, SharedTypes, Held
    <3> QED
      BY <1>1, <2>2, <3>1 DEF Objects, Shared!Modes
  <2> QED
    BY <2>1, <2>2
<1>8. mode \in Shared!Modes
  BY <1>3, <1>7, Kept DEF Shared!Given
<1>9. o \in Objects /\ o.mode = mode /\ o.worker = held.worker
  BY <1>4, <1>7, <1>8 DEF Objects
<1>10. new \in Applications /\ new.config = c /\ (new.made => new.mode = mode)
  <2>1. Shared!OwnBroker(broker) \in Shared!Modes \/ broker = "created"
    BY DEF Shared!OwnBroker, Shared!Given, Shared!Modes
  <2>2. (broker = "created") \in BOOLEAN
    OBVIOUS
  <2> QED
    BY <1>5, <1>8, <2>1, <2>2 DEF Applications
<1>11. /\ config' \in [Configs -> Objects \cup {Shared!Unbuilt}]
       /\ config'[c] = o /\ \A d \in Configs : d # c => config'[d] = config[d]
       /\ app' \in [Apps -> Applications \cup {Shared!Unmade}]
       /\ app'[a] = new /\ \A b \in Apps : b # a => app'[b] = app[b]
  BY <1>6, <1>9, <1>10 DEF CopiesInv, SharedTypes
<1>12. SharedTypes'
  BY <1>1, <1>11 DEF CopiesInv, SharedTypes
<1>13. /\ Shared!Made(a)' /\ Shared!Built(c)'
       /\ \A b \in Apps : b # a => (Shared!Made(b)' <=> Shared!Made(b))
  BY <1>9, <1>10, <1>11, Kept DEF Shared!Made, Shared!Built
<1>14. ASSUME NEW b \in Apps, b # a, Shared!Made(b)
       PROVE  /\ Shared!Built(app[b].config)' /\ app'[b] = app[b]
              /\ Shared!SoleOwner(b)' => Shared!SoleOwner(b) /\ Shared!ConfigOf(b)' = Shared!ConfigOf(b)
  <2>1. app[b] \in Applications /\ app[b].config \in Configs /\ Shared!Built(app[b].config)
    BY <1>14, Kept DEF CopiesInv, SharedTypes, Shared!Made
  <2>2. app'[b] = app[b]
    BY <1>11, <1>14
  <2>3. Shared!Built(app[b].config)'
    BY <1>9, <1>11, <2>1, <2>2, Kept DEF Shared!Built
  <2>4. ASSUME Shared!SoleOwner(b)'
        PROVE  Shared!SoleOwner(b) /\ Shared!ConfigOf(b)' = Shared!ConfigOf(b)
    <3>1. app[b].config # c
      BY <1>10, <1>11, <1>13, <1>14, <2>2, <2>4 DEF Shared!SoleOwner
    <3>2. Shared!ConfigOf(b)' = Shared!ConfigOf(b)
      BY <1>11, <2>1, <2>2, <3>1 DEF Shared!ConfigOf
    <3>3. Shared!SoleOwner(b)
      BY <1>1, <1>11, <1>13, <2>2, <2>4 DEF Shared!SoleOwner
    <3> QED
      BY <3>2, <3>3
  <2> QED
    BY <2>2, <2>3, <2>4
<1>15. \A b \in Apps : Shared!Made(b)' => Shared!Built(app[b].config)'
  <2> SUFFICES ASSUME NEW b \in Apps, Shared!Made(b)' PROVE Shared!Built(app[b].config)'
    OBVIOUS
  <2>1. CASE b = a
    BY <1>10, <1>11, <1>13, <2>1
  <2>2. CASE b # a
    BY <1>13, <1>14, <2>2
  <2> QED
    BY <2>1, <2>2
<1>16. \A t \in registered' : t.app # a /\ Shared!Made(t.app) /\ Shared!Made(t.app)' /\ t.app \in Apps
  BY <1>1, <1>13 DEF CopiesInv, SharedTypes
<1>17. \A b \in Apps : Shared!Made(b)' /\ app'[b].made /\ Shared!SoleOwner(b)'
                           => Shared!ConfigOf(b)'.mode = app'[b].mode
  <2> SUFFICES ASSUME NEW b \in Apps, Shared!Made(b)', app'[b].made, Shared!SoleOwner(b)'
               PROVE  Shared!ConfigOf(b)'.mode = app'[b].mode
    OBVIOUS
  <2>1. CASE b = a
    BY <1>9, <1>10, <1>11, <2>1 DEF Shared!ConfigOf
  <2>2. CASE b # a
    BY <1>13, <1>14, <2>2 DEF CopiesInv
  <2> QED
    BY <2>1, <2>2
<1>18. \A d \in Configs : Shared!Built(d)' => Shared!Validated(config'[d].worker)
  BY <1>1, <1>7, <1>9, <1>11 DEF CopiesInv, Shared!Built
<1>19. Shared!BrokerAndTasksAgree'
  <2> SUFFICES ASSUME NEW t \in registered, ~t.own, app'[t.app].made, Shared!SoleOwner(t.app)'
               PROVE  t.mode = app'[t.app].mode
    BY <1>1 DEF Shared!BrokerAndTasksAgree
  <2>1. app'[t.app] = app[t.app] /\ Shared!SoleOwner(t.app)
    BY <1>1, <1>14, <1>16
  <2> QED
    BY <2>1 DEF CopiesInv, Shared!BrokerAndTasksAgree
<1>20. Shared!CheckedUnlessByHand'
  BY <1>1 DEF Shared!CheckedUnlessByHand
<1> QED
  BY <1>1, <1>12, <1>15, <1>16, <1>17, <1>18, <1>19, <1>20 DEF CopiesInv

LEMMA RegisterTaskKeeps ==
    ASSUME CopiesInv, NEW a \in Apps, NEW own \in Shared!Given(Shared!Modes),
           Shared!RegisterTask(a, own)
    PROVE  CopiesInv'
<1>1. PICK new : new = [app |-> a, own |-> own # Shared!NotGiven,
                        mode |-> IF own = Shared!NotGiven THEN Shared!ConfigOf(a).mode ELSE own]
  OBVIOUS
<1>2. /\ worker = Shared!NoWorker /\ Shared!Made(a) /\ registered' = registered \cup {new}
      /\ UNCHANGED <<env, config, app, worker>>
  BY <1>1 DEF Shared!RegisterTask
<1>3. Shared!ConfigOf(a) \in Objects /\ Shared!ConfigOf(a).mode \in Shared!Modes
  <2>1. app[a].config \in Configs /\ Shared!Built(app[a].config)
    BY <1>2, Kept DEF CopiesInv, SharedTypes, Shared!Made
  <2> QED
    BY <2>1, Kept DEF CopiesInv, SharedTypes, Shared!Built, Shared!ConfigOf
<1>4. /\ new \in [app : Apps, own : BOOLEAN, mode : Shared!Modes]
      /\ new.app = a /\ (~new.own => new.mode = Shared!ConfigOf(a).mode)
  <2>1. (own # Shared!NotGiven) \in BOOLEAN
    OBVIOUS
  <2> QED
    BY <1>1, <1>3, <2>1 DEF Shared!Given
<1>5. SharedTypes'
  BY <1>2, <1>4 DEF CopiesInv, SharedTypes
<1>6. /\ \A b \in Apps : Shared!Made(b)' <=> Shared!Made(b)
      /\ \A b \in Apps : Shared!SoleOwner(b)' <=> Shared!SoleOwner(b)
      /\ \A b \in Apps : Shared!ConfigOf(b)' = Shared!ConfigOf(b)
      /\ \A d : Shared!Built(d)' <=> Shared!Built(d)
  BY <1>2 DEF Shared!Made, Shared!SoleOwner, Shared!ConfigOf, Shared!Built
<1>7. \A t \in registered' : Shared!Made(t.app)'
  BY <1>2, <1>4, <1>6 DEF CopiesInv, SharedTypes
<1>8. Shared!BrokerAndTasksAgree'
  <2> SUFFICES ASSUME NEW t \in registered', ~t.own, app[t.app].made, Shared!SoleOwner(t.app)'
               PROVE  t.mode = app[t.app].mode
    BY <1>2 DEF Shared!BrokerAndTasksAgree
  <2>1. CASE t = new
    BY <1>2, <1>4, <1>6, <2>1 DEF CopiesInv
  <2>2. CASE t \in registered
    BY <1>6, <2>2 DEF CopiesInv, SharedTypes, Shared!BrokerAndTasksAgree
  <2> QED
    BY <1>2, <2>1, <2>2
<1>9. Shared!CheckedUnlessByHand'
  BY <1>2 DEF Shared!CheckedUnlessByHand
<1>10. \A b \in Apps : Shared!Made(b)' => Shared!Built(app[b].config)'
  BY <1>2, <1>6 DEF CopiesInv
<1>11. \A b \in Apps : Shared!Made(b)' /\ app'[b].made /\ Shared!SoleOwner(b)'
                           => Shared!ConfigOf(b)'.mode = app'[b].mode
  BY <1>2, <1>6 DEF CopiesInv
<1>12. \A d \in Configs : Shared!Built(d)' => Shared!Validated(config'[d].worker)
  BY <1>2, <1>6 DEF CopiesInv
<1> QED
  BY <1>2, <1>5, <1>7, <1>8, <1>9, <1>10, <1>11, <1>12 DEF CopiesInv

\* The worker comes last.
LEMMA WorkerKeeps ==
    ASSUME CopiesInv, NEW a \in Apps, Shared!Made(a),
           NEW c \in Configs, NEW o \in Objects, config' = [config EXCEPT ![c] = o],
           Shared!Built(c), o.mode = config[c].mode,
           UNCHANGED <<env, app, registered>>,
           worker'.via \in {"app", "own", "cli"}, worker'.app = a,
           worker'.via = "app" => Shared!Validated(worker'.settings)
    PROVE  CopiesInv'
<1>1. /\ config' \in [Configs -> Objects \cup {Shared!Unbuilt}]
      /\ config'[c] = o /\ \A d \in Configs : d # c => config'[d] = config[d]
  BY DEF CopiesInv, SharedTypes
<1>2. SharedTypes'
  BY <1>1 DEF CopiesInv, SharedTypes
<1>3. \A d \in Configs : (Shared!Built(d) => Shared!Built(d)') /\ config'[d].mode = config[d].mode
  BY <1>1, Kept DEF Shared!Built
<1>4. /\ \A b \in Apps : Shared!Made(b)' <=> Shared!Made(b)
      /\ \A b \in Apps : Shared!SoleOwner(b)' <=> Shared!SoleOwner(b)
  BY DEF Shared!Made, Shared!SoleOwner
<1>5. ASSUME NEW b \in Apps, Shared!Made(b)
      PROVE  Shared!Built(app[b].config)' /\ Shared!ConfigOf(b)'.mode = Shared!ConfigOf(b).mode
  <2>1. app[b].config \in Configs /\ Shared!Built(app[b].config)
    BY <1>5, Kept DEF CopiesInv, SharedTypes, Shared!Made
  <2> QED
    BY <1>3, <2>1 DEF Shared!ConfigOf
<1>6. \A t \in registered' : Shared!Made(t.app)'
  BY <1>4 DEF CopiesInv, SharedTypes
<1>7. worker' # Shared!NoWorker
  <2>1. Shared!NoWorker.via = "not given"
    BY DEF Shared!NoWorker, Shared!NotGiven
  <2>2. "not given" \notin {"app", "own", "cli"}
    OBVIOUS
  <2> QED
    BY <2>1, <2>2
<1>8. Shared!BrokerAndTasksAgree'
  BY <1>4 DEF CopiesInv, SharedTypes, Shared!BrokerAndTasksAgree
<1>9. Shared!CheckedUnlessByHand'
  BY DEF Shared!CheckedUnlessByHand, Shared!Validated
<1> QED
  BY <1>2, <1>4, <1>5, <1>6, <1>7, <1>8, <1>9 DEF CopiesInv

LEMMA MakeWorkerKeeps ==
    ASSUME CopiesInv, NEW a \in Apps, NEW given, Shared!MakeWorker(a, given)
    PROVE  CopiesInv'
<1>1. PICK w : w = [via |-> IF given = Shared!NoSettings THEN "app" ELSE "own",
                    app |-> a,
                    settings |-> IF given = Shared!NoSettings THEN Shared!ConfigOf(a).worker ELSE given]
  OBVIOUS
<1>2. /\ worker = Shared!NoWorker /\ Shared!Made(a) /\ worker' = w
      /\ UNCHANGED <<env, config, app, registered>>
  BY <1>1 DEF Shared!MakeWorker
<1>3. app[a].config \in Configs /\ Shared!Built(app[a].config)
  BY <1>2, Kept DEF CopiesInv, SharedTypes, Shared!Made
<1>4. PICK c \in Configs : c = app[a].config
  BY <1>3
<1>5. config[c] \in Objects /\ Shared!Validated(config[c].worker)
  BY <1>2, <1>3, <1>4 DEF CopiesInv, SharedTypes, Shared!Built
<1>6. config' = [config EXCEPT ![c] = config[c]]
  BY <1>2 DEF CopiesInv, SharedTypes
<1>7. /\ worker'.via \in {"app", "own", "cli"} /\ worker'.app = a
      /\ worker'.via = "app" => worker'.settings = config[c].worker
  BY <1>1, <1>2, <1>4 DEF Shared!ConfigOf
<1> QED
  BY <1>2, <1>3, <1>4, <1>5, <1>6, <1>7, WorkerKeeps

LEMMA RunCliKeeps ==
    ASSUME CopiesInv, NEW a \in Apps, NEW given \in SUBSET Shared!Options,
           NEW choice \in Shared!WorkerSettings, Shared!RunCli(a, given, choice)
    PROVE  CopiesInv'
<1>1. PICK w : w = Shared!Assigned(given, choice)
  OBVIOUS
<1>2. /\ worker = Shared!NoWorker /\ Shared!Made(a)
      /\ config' = [config EXCEPT ![app[a].config].worker = w]
      /\ worker' = [via |-> "cli", app |-> a, settings |-> w]
      /\ UNCHANGED <<env, app, registered>>
  BY <1>1 DEF Shared!RunCli
<1>3. app[a].config \in Configs /\ Shared!Built(app[a].config)
  BY <1>2, Kept DEF CopiesInv, SharedTypes, Shared!Made
<1>4. PICK c \in Configs : c = app[a].config
  BY <1>3
<1>5. config[c] \in Objects
  BY <1>3, <1>4 DEF CopiesInv, SharedTypes, Shared!Built
<1>6. w \in Held
  <2> DEFINE V == UNION {Intervals, Ttls, Sizes, {10, 30, 32}}
  <2>1. \A o \in Shared!Options : choice[o] \in V /\ Shared!CliDefaults[o] \in V
    BY DEF Shared!Options, Shared!WorkerSettings, Shared!CliDefaults
  <2>2. w \in [Shared!Options -> V]
    BY <1>1, <2>1 DEF Shared!Assigned
  <2> QED
    BY <2>2 DEF Held
<1>7. PICK o : o = [config[c] EXCEPT !.worker = w]
  OBVIOUS
<1>8. o \in Objects /\ o.mode = config[c].mode
  BY <1>5, <1>6, <1>7 DEF Objects
<1>9. config' = [config EXCEPT ![c] = o]
  BY <1>2, <1>4, <1>7
<1>10. worker'.via = "cli" /\ worker'.app = a
  BY <1>2
<1> QED
  BY <1>2, <1>3, <1>4, <1>8, <1>9, <1>10, WorkerKeeps

LEMMA NextCopies == CopiesInv /\ [Shared!Next]_(Shared!vars) => CopiesInv'
<1> SUFFICES ASSUME CopiesInv, [Shared!Next]_(Shared!vars) PROVE CopiesInv'
  OBVIOUS
<1>1. CASE UNCHANGED Shared!vars
  <2>1. UNCHANGED <<env, config, app, registered, worker>>
    BY <1>1 DEF Shared!vars
  <2> QED
    BY <2>1 DEF CopiesInv, SharedTypes, Shared!BrokerAndTasksAgree, Shared!CheckedUnlessByHand,
               Shared!Made, Shared!Built, Shared!ConfigOf, Shared!SoleOwner
<1>2. CASE Shared!Next
  BY <1>2, BuildConfigKeeps, MakeAppKeeps, RegisterTaskKeeps, MakeWorkerKeeps, RunCliKeeps
     DEF Shared!Next
<1> QED
  BY <1>1, <1>2

LEMMA SharedApart == ProgramSpec => Shared!Spec
<1>1. ProgramInit => Shared!Init
  BY DEF ProgramInit
<1>2. [ProgramNext]_programVars => [Shared!Next]_(Shared!vars)
  <2> SUFFICES ASSUME [ProgramNext]_programVars PROVE Shared!Next \/ UNCHANGED Shared!vars
    OBVIOUS
  <2>1. CASE SharedStep
    BY <2>1 DEF SharedStep
  <2>2. CASE Retries \/ SettingStep \/ TargetStep \/ CallStep \/ NamingStep \/ CommandStep
    BY <2>2 DEF Retries, SettingStep, TargetStep, CallStep, NamingStep, CommandStep, sharedVars,
                Shared!vars
  <2>3. CASE UNCHANGED programVars
    BY <2>3 DEF programVars, sharedVars, Shared!vars
  <2> QED
    BY <2>1, <2>2, <2>3 DEF ProgramNext
<1>3. ProgramSpec => ProgramInit /\ [][ProgramNext]_programVars
  BY PTL DEF ProgramSpec
<1> QED
  BY <1>1, <1>2, <1>3, PTL DEF Shared!Spec

\* A task that asks for no mode has that of the broker its application made, however many
\* applications, settings objects and tasks there are and in whichever order they are made,
\* as long as the application shares its settings with no other; and a worker that takes
\* its settings from its application has settings that passed the check.
THEOREM CopiesStayEqual == ProgramSpec => []CopiesAgree
<1>1. CopiesInv => CopiesAgree
  BY DEF CopiesInv, CopiesAgree
<1>2. Shared!Spec => []CopiesInv
  BY InitCopies, NextCopies, PTL DEF Shared!Spec
<1> QED
  BY <1>1, <1>2, SharedApart, PTL

--------------------------------------------------------------------------------
(* The settings and the addresses that passed validation.                  *)

\* What validation asks of a value for a field with these bounds.
Fits(bounds, v) ==
    \/ v = Setting!None /\ bounds.optional
    \/ v # Setting!None /\ bounds.lo <= v /\ (bounds.hi = Setting!NoBound \/ v <= bounds.hi)

\* What servers and libraries take at most.
SettingOptions == TtlMax \in Nat /\ WireMax \in Nat /\ SpanMax \in Nat

\* The value of a field is within its limit, or the field has none.
Within(c, f, v) == Setting!Limit(c, f) # Setting!NoBound => v <= Setting!Limit(c, f)

\* What the fields that share a shape take.
LEMMA BetweenFits ==
    ASSUME NEW low \in Int, NEW high \in Int, NEW d, NEW v \in Int,
           high # Setting!NoBound, Fits(Setting!Between(low, high, d), v)
    PROVE  low <= v /\ v <= high
BY DEF Fits, Setting!Between

LEMMA PortFits ==
    ASSUME NEW d, NEW v \in Int, Fits(Setting!Port(d), v)
    PROVE  Setting!PortWorks(v)
<1>1. 1 <= v /\ v <= 65535
  BY BetweenFits DEF Setting!Port, Setting!NoBound
<1> QED
  BY <1>1 DEF Setting!PortWorks

LEMMA DbFits ==
    ASSUME NEW d, NEW v \in Int, Fits(Setting!Db(d), v)
    PROVE  v \in 0..15
BY DEF Fits, Setting!Db, Setting!Between, Setting!NoBound

LEMMA FloorFits ==
    ASSUME NEW low \in Int, NEW d, NEW v \in Int
    PROVE  /\ Fits(Setting!AtLeast(low, d), v) => v >= low
           /\ Fits(Setting!Above(low, d), v) => v >= low + 1
           /\ Fits(Setting!OrNone(Setting!AtLeast(low, d)), v) => v = Setting!None \/ v >= low
BY DEF Fits, Setting!AtLeast, Setting!Above, Setting!Between, Setting!OrNone

LEMMA RedisBrokerFits ==
    ASSUME NEW f \in DOMAIN Setting!RedisBrokerFields, NEW v \in Int,
           Fits(Setting!RedisBrokerFields[f], v), SettingOptions, Within("RedisBroker", f, v)
    PROVE  Setting!RedisBrokerWorks(f, v)
<1>1. f \in {"port", "db", "block_ms", "claim_min_idle_ms", "max_stream_length",
             "dlq_max_length", "mover_min_sleep_ms", "mover_max_sleep_ms"}
  BY DEF Setting!RedisBrokerFields
<1>2. CASE f = "port"
  <2>1. Fits(Setting!Port(6379), v)
    BY <1>2 DEF Setting!RedisBrokerFields
  <2> QED
    BY <1>2, <2>1, PortFits DEF Setting!RedisBrokerWorks
<1>3. CASE f = "db"
  <2>1. Fits(Setting!Db(0), v)
    BY <1>3 DEF Setting!RedisBrokerFields
  <2> QED
    BY <1>3, <2>1, DbFits DEF Setting!RedisBrokerWorks
<1>0. f \in {"block_ms", "claim_min_idle_ms", "max_stream_length", "dlq_max_length"} =>
          v <= WireMax
  BY DEF Within, Setting!Limit, Setting!NoBound, SettingOptions
<1>4. CASE f \in {"block_ms", "claim_min_idle_ms", "mover_min_sleep_ms", "mover_max_sleep_ms"}
  <2>1. PICK low, d : low \in {0, 50} /\ Setting!RedisBrokerFields[f] = Setting!AtLeast(low, d)
    BY <1>4 DEF Setting!RedisBrokerFields
  <2>2. v >= 0
    BY <2>1, FloorFits
  <2>3. CASE f \in {"block_ms", "claim_min_idle_ms"}
    <3>1. v \in 0..WireMax
      BY <1>0, <2>2, <2>3 DEF SettingOptions
    <3> QED
      BY <2>3, <3>1 DEF Setting!RedisBrokerWorks
  <2>4. CASE f \in {"mover_min_sleep_ms", "mover_max_sleep_ms"}
    BY <2>2, <2>4 DEF Setting!RedisBrokerWorks
  <2> QED
    BY <1>4, <2>3, <2>4
<1>5. CASE f \in {"max_stream_length", "dlq_max_length"}
  <2>1. PICK d : Setting!RedisBrokerFields[f] = Setting!OrNone(Setting!AtLeast(1, d))
    BY <1>5 DEF Setting!RedisBrokerFields
  <2>2. v = Setting!None \/ v >= 1
    BY <2>1, FloorFits
  <2>3. v = Setting!None \/ v \in 0..WireMax
    BY <1>0, <1>5, <2>2 DEF SettingOptions
  <2> QED
    BY <1>5, <2>3 DEF Setting!RedisBrokerWorks
<1> QED
  BY <1>1, <1>2, <1>3, <1>4, <1>5

LEMMA RabbitMQBrokerFits ==
    ASSUME NEW f \in DOMAIN Setting!RabbitMQBrokerFields, NEW v \in Int,
           Fits(Setting!RabbitMQBrokerFields[f], v), SettingOptions,
           Within("RabbitMQBroker", f, v)
    PROVE  Setting!RabbitMQBrokerWorks(f, v)
<1>1. f \in {"port", "connection_pool_size", "channel_pool_size", "prefetch_count",
             "queue_max_length", "queue_max_length_bytes", "dlq_max_length", "message_ttl",
             "dlq_message_ttl", "max_priority", "channel_acquire_timeout",
             "reconnect_delay_base", "reconnect_delay_max", "max_dlq_scan_limit"}
  BY DEF Setting!RabbitMQBrokerFields
<1>2. CASE f = "port"
  <2>1. Fits(Setting!Port(5672), v)
    BY <1>2 DEF Setting!RabbitMQBrokerFields
  <2> QED
    BY <1>2, <2>1, PortFits DEF Setting!RabbitMQBrokerWorks
<1>3. CASE f \in {"connection_pool_size", "channel_pool_size", "prefetch_count",
                  "max_dlq_scan_limit"}
  <2>1. PICK d : Setting!RabbitMQBrokerFields[f] = Setting!AtLeast(1, d)
    BY <1>3 DEF Setting!RabbitMQBrokerFields
  <2>2. v >= 1
    BY <2>1, FloorFits
  <2>3. CASE f = "prefetch_count"
    <3>1. v <= 65535
      BY <2>3 DEF Within, Setting!Limit, Setting!NoBound
    <3> QED
      BY <2>2, <2>3, <3>1 DEF Setting!RabbitMQBrokerWorks
  <2>4. CASE f \in {"connection_pool_size", "channel_pool_size"}
    BY <2>2, <2>4 DEF Setting!RabbitMQBrokerWorks
  <2>5. CASE f = "max_dlq_scan_limit"
    BY <2>2, <2>5 DEF Setting!RabbitMQBrokerWorks
  <2> QED
    BY <1>3, <2>3, <2>4, <2>5
<1>4. CASE f \in {"queue_max_length", "queue_max_length_bytes", "dlq_max_length",
                  "message_ttl", "dlq_message_ttl"}
  <2>1. PICK d : Setting!RabbitMQBrokerFields[f] = Setting!OrNone(Setting!AtLeast(1, d))
    BY <1>4 DEF Setting!RabbitMQBrokerFields
  <2>2. v = Setting!None \/ v >= 1
    BY <2>1, FloorFits
  <2>3. CASE f \in {"message_ttl", "dlq_message_ttl"}
    <3>1. v <= TtlMax
      BY <2>3 DEF Within, Setting!Limit, Setting!NoBound, SettingOptions
    <3>2. v = Setting!None \/ v \in 0..TtlMax
      BY <2>2, <3>1 DEF SettingOptions
    <3> QED
      BY <2>3, <3>2 DEF Setting!RabbitMQBrokerWorks
  <2>4. CASE f \in {"queue_max_length", "queue_max_length_bytes", "dlq_max_length"}
    <3>1. v <= WireMax
      BY <2>4 DEF Within, Setting!Limit, Setting!NoBound, SettingOptions
    <3>2. v = Setting!None \/ v \in 0..WireMax
      BY <2>2, <3>1 DEF SettingOptions
    <3> QED
      BY <2>4, <3>2 DEF Setting!RabbitMQBrokerWorks
  <2> QED
    BY <1>4, <2>3, <2>4
<1>5. CASE f = "max_priority"
  <2>1. Setting!RabbitMQBrokerFields[f] =
            Setting!OrNone(Setting!Between(1, 255, Setting!None))
    BY <1>5 DEF Setting!RabbitMQBrokerFields
  <2>2. v = Setting!None \/ v \in 1..255
    BY <2>1 DEF Fits, Setting!OrNone, Setting!Between, Setting!NoBound
  <2> QED
    BY <1>5, <2>2 DEF Setting!RabbitMQBrokerWorks
<1>6. CASE f \in {"channel_acquire_timeout", "reconnect_delay_base", "reconnect_delay_max"}
  <2>1. PICK d : Setting!RabbitMQBrokerFields[f] = Setting!Above(0, d)
    BY <1>6 DEF Setting!RabbitMQBrokerFields
  <2>2. v >= 1
    BY <2>1, FloorFits
  <2>3. CASE f = "channel_acquire_timeout"
    BY <2>2, <2>3 DEF Setting!RabbitMQBrokerWorks
  <2>4. CASE f = "reconnect_delay_base"
    BY <2>2, <2>4 DEF Setting!RabbitMQBrokerWorks
  <2>5. CASE f = "reconnect_delay_max"
    BY <2>2, <2>5 DEF Setting!RabbitMQBrokerWorks
  <2> QED
    BY <1>6, <2>3, <2>4, <2>5
<1> QED
  BY <1>1, <1>2, <1>3, <1>4, <1>5, <1>6

LEMMA RedisBackendFits ==
    ASSUME NEW f \in DOMAIN Setting!RedisBackendFields, NEW v \in Int,
           Fits(Setting!RedisBackendFields[f], v), SettingOptions,
           ~(f = "result_ttl" /\ v = 0), Within("RedisBackend", f, v)
    PROVE  Setting!RedisBackendWorks(f, v)
<1>1. f \in {"port", "db", "result_ttl"}
  BY DEF Setting!RedisBackendFields
<1>2. CASE f = "port"
  <2>1. Fits(Setting!Port(6379), v)
    BY <1>2 DEF Setting!RedisBackendFields
  <2> QED
    BY <1>2, <2>1, PortFits DEF Setting!RedisBackendWorks
<1>3. CASE f = "db"
  <2>1. Fits(Setting!Db(1), v)
    BY <1>3 DEF Setting!RedisBackendFields
  <2> QED
    BY <1>3, <2>1, DbFits DEF Setting!RedisBackendWorks
<1>4. CASE f = "result_ttl"
  <2>1. Fits(Setting!AtLeast(0, 3600), v)
    BY <1>4 DEF Setting!RedisBackendFields
  <2>2. v >= 0
    BY <2>1, FloorFits
  <2>3. v <= SpanMax
    BY <1>4 DEF Within, Setting!Limit, Setting!NoBound, SettingOptions
  <2>4. v \in 1..SpanMax
    BY <1>4, <2>2, <2>3 DEF SettingOptions
  <2> QED
    BY <1>4, <2>4 DEF Setting!RedisBackendWorks
<1> QED
  BY <1>1, <1>2, <1>3, <1>4

LEMMA SqlFits ==
    ASSUME NEW p, NEW f \in DOMAIN Setting!WithPort(p), NEW v \in Int,
           Fits(Setting!WithPort(p)[f], v), SettingOptions, f = "pool_timeout" => v <= SpanMax
    PROVE  Setting!SqlWorks(f, v)
<1>1. f = "port" \/ (f # "port" /\ f \in DOMAIN Setting!PoolFields)
  BY DEF Setting!WithPort
<1>2. CASE f = "port"
  <2>1. Fits(Setting!Port(p), v)
    BY <1>2 DEF Setting!WithPort
  <2> QED
    BY <1>2, <2>1, PortFits DEF Setting!SqlWorks
<1>3. CASE f # "port" /\ f \in DOMAIN Setting!PoolFields
  <2>1. Fits(Setting!PoolFields[f], v)
    BY <1>3 DEF Setting!WithPort
  <2>2. PICK low, d : low \in {0, 1} /\ Setting!PoolFields[f] = Setting!AtLeast(low, d)
    BY <1>3 DEF Setting!PoolFields
  <2>3. v >= 0
    BY <2>1, <2>2, FloorFits
  <2>4. f = "pool_timeout" => v \in 0..SpanMax
    BY <2>3 DEF SettingOptions
  <2> QED
    BY <1>3, <2>3, <2>4 DEF Setting!SqlWorks
<1> QED
  BY <1>1, <1>2, <1>3

LEMMA SQLiteFits ==
    ASSUME NEW f \in DOMAIN Setting!SQLiteFields, NEW v \in Int,
           Fits(Setting!SQLiteFields[f], v), SettingOptions, f = "pool_timeout" => v <= SpanMax
    PROVE  Setting!SqlWorks(f, v)
<1>1. f \in DOMAIN Setting!WithPort(3306) /\ f # "port"
  BY DEF Setting!SQLiteFields, Setting!WithPort, Setting!PoolFields
<1>2. Setting!WithPort(3306)[f] = Setting!SQLiteFields[f]
  BY <1>1 DEF Setting!SQLiteFields, Setting!WithPort
<1> QED
  BY <1>1, <1>2, SqlFits

LEMMA WorkerFits ==
    ASSUME NEW f \in DOMAIN Setting!WorkerFields, NEW v \in Int,
           Fits(Setting!WorkerFields[f], v), SettingOptions, Within("Worker", f, v)
    PROVE  Setting!WorkerWorks(f, v)
<1>1. f \in {"concurrency", "heartbeat_interval", "heartbeat_ttl", "cleanup_interval",
             "stale_workers_timeout", "shutdown_timeout"}
  BY DEF Setting!WorkerFields
<1>0. f \in {"heartbeat_ttl", "stale_workers_timeout"} => v <= SpanMax
  BY DEF Within, Setting!Limit, Setting!NoBound, SettingOptions
<1>2. CASE f \in {"concurrency", "heartbeat_ttl", "cleanup_interval"}
  <2>1. PICK low, d : low \in {1, 30} /\ Setting!WorkerFields[f] = Setting!AtLeast(low, d)
    BY <1>2 DEF Setting!WorkerFields
  <2>2. v >= 1
    BY <2>1, FloorFits
  <2>3. f = "heartbeat_ttl" => v \in 1..SpanMax
    BY <1>0, <2>2 DEF SettingOptions
  <2> QED
    BY <1>2, <2>2, <2>3 DEF Setting!WorkerWorks
<1>3. CASE f = "heartbeat_interval"
  <2>1. Setting!WorkerFields[f] = Setting!Above(0, 10)
    BY <1>3 DEF Setting!WorkerFields
  <2>2. v >= 1
    BY <2>1, FloorFits
  <2> QED
    BY <1>3, <2>2 DEF Setting!WorkerWorks
<1>4. CASE f \in {"stale_workers_timeout", "shutdown_timeout"}
  <2>1. PICK low, d : low \in {0, 10} /\ Setting!WorkerFields[f] = Setting!AtLeast(low, d)
    BY <1>4 DEF Setting!WorkerFields
  <2>2. v >= 0
    BY <2>1, FloorFits
  <2>3. f = "stale_workers_timeout" => v \in 0..SpanMax
    BY <1>0, <2>2 DEF SettingOptions
  <2> QED
    BY <1>4, <2>2, <2>3 DEF Setting!WorkerWorks
<1> QED
  BY <1>1, <1>2, <1>3, <1>4

\* What validation admits works, but for the values of Unusable.
LEMMA AcceptedWorks ==
    ASSUME NEW c \in DOMAIN Setting!Fields, NEW f \in DOMAIN Setting!Fields[c], NEW v \in Int,
           Setting!Accepts(c, f, v), SettingOptions,
           ~(c = "RedisBackend" /\ f = "result_ttl" /\ v = 0), Within(c, f, v)
    PROVE  Setting!Works(c, f, v)
<1>1. Fits(Setting!Fields[c][f], v)
  BY DEF Setting!Accepts, Fits
<1>2. c \in {"RedisBroker", "RabbitMQBroker", "RedisBackend", "Postgres", "MySQL", "MSSQL",
             "SQLite", "Worker", "App"}
  BY DEF Setting!Fields
<1>3. CASE c = "RedisBroker"
  <2>1. Setting!Fields[c] = Setting!RedisBrokerFields
    BY <1>3 DEF Setting!Fields
  <2> QED
    BY <1>1, <1>3, <2>1, RedisBrokerFits DEF Setting!Works
<1>4. CASE c = "RabbitMQBroker"
  <2>1. Setting!Fields[c] = Setting!RabbitMQBrokerFields
    BY <1>4 DEF Setting!Fields
  <2> QED
    BY <1>1, <1>4, <2>1, RabbitMQBrokerFits DEF Setting!Works
<1>5. CASE c = "RedisBackend"
  <2>1. Setting!Fields[c] = Setting!RedisBackendFields
    BY <1>5 DEF Setting!Fields
  <2> QED
    BY <1>1, <1>5, <2>1, RedisBackendFits DEF Setting!Works
<1>6. CASE c \in {"Postgres", "MySQL", "MSSQL"}
  <2>1. PICK p : Setting!Fields[c] = Setting!WithPort(p)
    BY <1>6 DEF Setting!Fields, Setting!PostgresFields, Setting!MySQLFields,
                Setting!MSSQLFields
  <2>2. f = "pool_timeout" => v <= SpanMax
    BY <1>6 DEF Within, Setting!Limit, Setting!NoBound, SettingOptions
  <2>3. Setting!SqlWorks(f, v)
    BY <1>1, <2>1, <2>2, SqlFits
  <2> QED
    BY <1>6, <2>3 DEF Setting!Works
<1>7. CASE c = "SQLite"
  <2>1. Setting!Fields[c] = Setting!SQLiteFields
    BY <1>7 DEF Setting!Fields
  <2>2. f = "pool_timeout" => v <= SpanMax
    BY <1>7 DEF Within, Setting!Limit, Setting!NoBound, SettingOptions
  <2>3. Setting!SqlWorks(f, v)
    BY <1>1, <2>1, <2>2, SQLiteFits
  <2> QED
    BY <1>7, <2>3 DEF Setting!Works
<1>8. CASE c = "Worker"
  <2>1. Setting!Fields[c] = Setting!WorkerFields
    BY <1>8 DEF Setting!Fields
  <2> QED
    BY <1>1, <1>8, <2>1, WorkerFits DEF Setting!Works
<1>9. CASE c = "App"
  BY <1>9 DEF Setting!Works
<1> QED
  BY <1>2, <1>3, <1>4, <1>5, <1>6, <1>7, <1>8, <1>9

\* Each of the values of Unusable is refused.
LEMMA UnusableFails ==
    ASSUME NEW c \in DOMAIN Setting!Fields, NEW f \in DOMAIN Setting!Fields[c], NEW v \in Int,
           SettingOptions,
           \/ c = "RedisBackend" /\ f = "result_ttl" /\ v = 0
           \/ Setting!Limit(c, f) # Setting!NoBound /\ v > Setting!Limit(c, f)
    PROVE  ~Setting!Works(c, f, v)
<1> USE DEF SettingOptions, Setting!None, Setting!NoBound
<1>1. CASE c = "RedisBroker"
  BY <1>1 DEF Setting!Limit, Setting!Works, Setting!RedisBrokerWorks
<1>2. CASE c = "RabbitMQBroker"
  BY <1>2 DEF Setting!Limit, Setting!Works, Setting!RabbitMQBrokerWorks
<1>3. CASE c = "RedisBackend"
  BY <1>3 DEF Setting!Limit, Setting!Works, Setting!RedisBackendWorks
<1>4. CASE c \in {"Postgres", "MySQL", "MSSQL", "SQLite"}
  BY <1>4 DEF Setting!Limit, Setting!Works, Setting!SqlWorks
<1>5. CASE c = "Worker"
  BY <1>5 DEF Setting!Limit, Setting!Works, Setting!WorkerWorks
<1>6. CASE c = "App"
  BY <1>6 DEF Setting!Limit
<1> QED
  BY <1>1, <1>2, <1>3, <1>4, <1>5, <1>6 DEF Setting!Fields

Bounds == [lo : Int, hi : Int, default : Int, optional : BOOLEAN]

LEMMA Shapes ==
    ASSUME NEW low \in Int, NEW high \in Int, NEW d \in Int
    PROVE  /\ Setting!Between(low, high, d) \in Bounds
           /\ Setting!AtLeast(low, d) \in Bounds
           /\ Setting!Above(low, d) \in Bounds
           /\ Setting!Port(d) \in Bounds /\ Setting!Db(d) \in Bounds
BY DEF Bounds, Setting!Between, Setting!AtLeast, Setting!Above, Setting!Port, Setting!Db,
       Setting!NoBound

LEMMA OptionalShape ==
    ASSUME NEW b \in Bounds
    PROVE  Setting!OrNone(b) \in Bounds
BY DEF Bounds, Setting!OrNone

LEMMA FieldsBounded ==
    ASSUME NEW c \in DOMAIN Setting!Fields, NEW f \in DOMAIN Setting!Fields[c]
    PROVE  Setting!Fields[c][f] \in Bounds
<1>1. c \in {"RedisBroker", "RabbitMQBroker", "RedisBackend", "Postgres", "MySQL", "MSSQL",
             "SQLite", "Worker", "App"}
  BY DEF Setting!Fields
<1>2. Setting!None \in Int
  BY DEF Setting!None
<1>3. CASE c = "RedisBroker"
  <2>1. Setting!Fields[c] = Setting!RedisBrokerFields
    BY <1>3 DEF Setting!Fields
  <2>2. f \in {"port", "db", "block_ms", "claim_min_idle_ms", "max_stream_length",
               "dlq_max_length", "mover_min_sleep_ms", "mover_max_sleep_ms"}
    BY <2>1 DEF Setting!RedisBrokerFields
  <2>3. CASE f \in {"port", "db"}
    <3>1. PICK d \in Int : Setting!Fields[c][f] \in {Setting!Port(d), Setting!Db(d)}
      BY <2>1, <2>3 DEF Setting!RedisBrokerFields
    <3> QED
      BY <3>1, Shapes
  <2>4. CASE f \in {"block_ms", "claim_min_idle_ms", "mover_min_sleep_ms", "mover_max_sleep_ms"}
    <3>1. PICK low \in Int, d \in Int : Setting!Fields[c][f] = Setting!AtLeast(low, d)
      BY <2>1, <2>4 DEF Setting!RedisBrokerFields
    <3> QED
      BY <3>1, Shapes
  <2>5. CASE f \in {"max_stream_length", "dlq_max_length"}
    <3>1. PICK d \in Int : Setting!Fields[c][f] = Setting!OrNone(Setting!AtLeast(1, d))
      BY <2>1, <2>5 DEF Setting!RedisBrokerFields
    <3> QED
      BY <3>1, Shapes, OptionalShape
  <2> QED
    BY <2>2, <2>3, <2>4, <2>5
<1>4. CASE c = "RabbitMQBroker"
  <2>1. Setting!Fields[c] = Setting!RabbitMQBrokerFields
    BY <1>4 DEF Setting!Fields
  <2>2. f \in {"port", "connection_pool_size", "channel_pool_size", "prefetch_count",
               "queue_max_length", "queue_max_length_bytes", "dlq_max_length", "message_ttl",
               "dlq_message_ttl", "max_priority", "channel_acquire_timeout",
               "reconnect_delay_base", "reconnect_delay_max", "max_dlq_scan_limit"}
    BY <2>1 DEF Setting!RabbitMQBrokerFields
  <2>3. CASE f = "port"
    <3>1. Setting!Fields[c][f] = Setting!Port(5672)
      BY <2>1, <2>3 DEF Setting!RabbitMQBrokerFields
    <3> QED
      BY <3>1, Shapes
  <2>4. CASE f \in {"connection_pool_size", "channel_pool_size", "prefetch_count",
                    "max_dlq_scan_limit"}
    <3>1. PICK d \in Int : Setting!Fields[c][f] = Setting!AtLeast(1, d)
      BY <2>1, <2>4 DEF Setting!RabbitMQBrokerFields
    <3> QED
      BY <3>1, Shapes
  <2>5. CASE f \in {"queue_max_length", "queue_max_length_bytes", "dlq_max_length",
                    "message_ttl", "dlq_message_ttl"}
    <3>1. PICK d \in Int : Setting!Fields[c][f] = Setting!OrNone(Setting!AtLeast(1, d))
      BY <1>2, <2>1, <2>5 DEF Setting!RabbitMQBrokerFields
    <3> QED
      BY <3>1, Shapes, OptionalShape
  <2>6. CASE f = "max_priority"
    <3>1. Setting!Fields[c][f] = Setting!OrNone(Setting!Between(1, 255, Setting!None))
      BY <2>1, <2>6 DEF Setting!RabbitMQBrokerFields
    <3> QED
      BY <1>2, <3>1, Shapes, OptionalShape
  <2>7. CASE f \in {"channel_acquire_timeout", "reconnect_delay_base", "reconnect_delay_max"}
    <3>1. PICK d \in Int : Setting!Fields[c][f] = Setting!Above(0, d)
      BY <2>1, <2>7 DEF Setting!RabbitMQBrokerFields
    <3> QED
      BY <3>1, Shapes
  <2> QED
    BY <2>2, <2>3, <2>4, <2>5, <2>6, <2>7
<1>5. CASE c = "RedisBackend"
  <2>1. Setting!Fields[c] = Setting!RedisBackendFields
    BY <1>5 DEF Setting!Fields
  <2>2. \A g \in DOMAIN Setting!RedisBackendFields :
            \E low \in Int, d \in Int :
                Setting!RedisBackendFields[g] \in
                    {Setting!Port(d), Setting!Db(d), Setting!AtLeast(low, d)}
    BY DEF Setting!RedisBackendFields
  <2> QED
    BY <2>1, <2>2, Shapes
<1>6. \A g \in DOMAIN Setting!PoolFields : Setting!PoolFields[g] \in Bounds
  <2>1. \A g \in DOMAIN Setting!PoolFields :
            \E low \in Int, d \in Int : Setting!PoolFields[g] = Setting!AtLeast(low, d)
    BY DEF Setting!PoolFields
  <2> QED
    BY <2>1, Shapes
<1>7. CASE c \in {"Postgres", "MySQL", "MSSQL"}
  <2>1. PICK p \in Int : Setting!Fields[c] = Setting!WithPort(p)
    BY <1>7 DEF Setting!Fields, Setting!PostgresFields, Setting!MySQLFields,
                Setting!MSSQLFields
  <2>2. Setting!Port(p) \in Bounds
    BY Shapes
  <2> QED
    BY <1>6, <2>1, <2>2 DEF Setting!WithPort
<1>8. CASE c = "SQLite"
  <2>1. Setting!Fields[c] = Setting!PoolFields
    BY <1>8 DEF Setting!Fields, Setting!SQLiteFields
  <2> QED
    BY <1>6, <2>1
<1>9. CASE c = "Worker"
  <2>1. Setting!Fields[c] = Setting!WorkerFields
    BY <1>9 DEF Setting!Fields
  <2>2. \A g \in DOMAIN Setting!WorkerFields :
            \E low \in Int, d \in Int :
                Setting!WorkerFields[g] \in {Setting!AtLeast(low, d), Setting!Above(low, d)}
    BY DEF Setting!WorkerFields
  <2> QED
    BY <2>1, <2>2, Shapes
<1>10. CASE c = "App"
  <2>1. Setting!Fields[c] = Setting!AppFields
    BY <1>10 DEF Setting!Fields
  <2>2. \A g \in DOMAIN Setting!AppFields :
            \E low \in Int, d \in Int :
                Setting!AppFields[g] \in
                    {Setting!Above(low, d), Setting!OrNone(Setting!AtLeast(low, d))}
    BY <1>2 DEF Setting!AppFields
  <2> QED
    BY <2>1, <2>2, Shapes, OptionalShape
<1> QED
  BY <1>1, <1>3, <1>4, <1>5, <1>7, <1>8, <1>9, <1>10

LEMMA OffersAreNumbers ==
    ASSUME NEW c \in DOMAIN Setting!Fields, NEW f \in DOMAIN Setting!Fields[c],
           SettingOptions
    PROVE  /\ Setting!Fields[c][f].default \in Int
           /\ \A v \in Setting!Probes(c, f) \cup {Setting!None} : v \in Int
           /\ \A s \in Setting!Offers(c, f) :
                  s.argument \in Int /\ s.environment \in Int /\ s.dotenv \in Int
<1>1. Setting!Fields[c][f] \in Bounds
  BY FieldsBounded
<1>2. PICK b \in Bounds : b = Setting!Fields[c][f]
  BY <1>1
<1>3. b.lo \in Int /\ b.hi \in Int /\ b.default \in Int
  BY DEF Bounds
<1>4. Setting!None \in Int /\ Setting!Absent \in Int
  BY DEF Setting!None, Setting!Absent
<1>5. Setting!Probes(c, f) \subseteq
          {b.lo - 1, b.lo, b.lo + 1, b.default, b.hi, b.hi + 1}
          \cup UNION {{n, n + 1} : n \in {65535, TtlMax, WireMax, SpanMax}}
  BY <1>2 DEF Setting!Probes
<1>6. \A v \in Setting!Probes(c, f) \cup {Setting!None} : v \in Int
  <2>1. \A v \in UNION {{n, n + 1} : n \in {65535, TtlMax, WireMax, SpanMax}} : v \in Int
    BY DEF SettingOptions
  <2> QED
    BY <1>3, <1>4, <1>5, <2>1
<1>7. ASSUME NEW s \in Setting!Offers(c, f)
      PROVE  s.argument \in Int /\ s.environment \in Int /\ s.dotenv \in Int
  <2>1. /\ s.argument \in Setting!Probes(c, f) \cup {Setting!None, Setting!Absent}
        /\ s.environment \in {b.lo, b.lo - 1, Setting!Absent}
        /\ s.dotenv \in {b.lo + 1, Setting!Absent}
    BY <1>2 DEF Setting!Offers
  <2> QED
    BY <2>1, <1>3, <1>4, <1>6
<1> QED
  BY <1>2, <1>3, <1>6, <1>7

\* The source that decides is the first that names the field.
LEMMA FirstSourceDecides ==
    ASSUME class \in DOMAIN Setting!Fields, field \in DOMAIN Setting!Fields[class],
           source \in Setting!Offers(class, field), SettingOptions
    PROVE  /\ Setting!Resolved \in Int
           /\ \A i \in 1..3 : source[Setting!Sources[i]] \notin {Setting!Absent, Setting!Resolved} =>
                  \E j \in 1..(i - 1) : source[Setting!Sources[j]] = Setting!Resolved
<1> DEFINE offer(i) == source[Setting!Sources[i]]
           named == {i \in 1..3 : offer(i) # Setting!Absent}
<1>1. \A i \in 1..3 : offer(i) \in Int
  <2>1. source.argument \in Int /\ source.environment \in Int /\ source.dotenv \in Int
    BY OffersAreNumbers
  <2>2. offer(1) = source.argument /\ offer(2) = source.environment /\ offer(3) = source.dotenv
    BY DEF Setting!Sources
  <2> QED
    BY <2>1, <2>2
<1>2. CASE named = {}
  <2>1. Setting!Resolved = Setting!Fields[class][field].default
    BY <1>2 DEF Setting!Resolved
  <2>2. Setting!Resolved \in Int
    BY <2>1, OffersAreNumbers
  <2> QED
    BY <1>2, <2>2
<1>3. CASE named # {}
  <2>1. \E k \in named : \A j \in named : k <= j
    <3>1. CASE 1 \in named
      BY <3>1
    <3>2. CASE 1 \notin named /\ 2 \in named
      BY <3>2
    <3>3. CASE 1 \notin named /\ 2 \notin named
      BY <1>3, <3>3
    <3> QED
      BY <3>1, <3>2, <3>3
  <2>2. PICK k \in named : k = (CHOOSE i \in named : \A j \in named : i <= j)
                           /\ \A j \in named : k <= j
    BY <2>1
  <2>3. Setting!Resolved = offer(k)
    BY <1>3, <2>2 DEF Setting!Resolved
  <2>4. ASSUME NEW i \in 1..3, offer(i) # Setting!Absent, offer(i) # offer(k)
        PROVE  k \in 1..(i - 1)
    <3>1. i \in named /\ k <= i /\ k # i /\ k \in 1..3
      BY <2>2, <2>4
    <3> QED
      BY <3>1
  <2> QED
    BY <1>1, <2>2, <2>3, <2>4
<1> QED
  BY <1>2, <1>3

\* A use that was refused was of a value that does not work; as long as nobody assigned
\* to the object, what the component has is what the sources resolve to, and was checked.
SettingInv ==
    /\ class \in DOMAIN Setting!Fields /\ field \in DOMAIN Setting!Fields[class]
    /\ source \in Setting!Offers(class, field)
    /\ assigns \in Nat
    /\ stage \in {"held", "wired", "used"} => value \in Int
    /\ stage \in {"held", "wired", "used"} /\ assigns = 0 =>
           value = Setting!Resolved /\ Setting!Accepts(class, field, value)
    /\ stage \in {"wired", "used"} => wired \in Int
    /\ stage \in {"wired", "used"} /\ assigns = 0 => wired = value
    /\ failed => stage = "used"
    /\ stage = "used" => failed = ~Setting!Works(class, field, Setting!InUse)

LEMMA SettingKeeps ==
    SettingOptions /\ SettingInv /\ [Setting!Next]_(Setting!vars) => SettingInv'
<1> SUFFICES ASSUME SettingOptions, SettingInv, [Setting!Next]_(Setting!vars) PROVE SettingInv'
  OBVIOUS
<1>1. CASE Setting!Construct
  <2>1. /\ UNCHANGED <<class, field, source, wired, failed, assigns>>
        /\ stage = "new" /\ value' = Setting!Resolved /\ stage' \in {"held", "rejected"}
        /\ stage' = "held" => Setting!Accepts(class, field, Setting!Resolved)
    BY <1>1 DEF Setting!Construct
  <2>2. Setting!Resolved \in Int /\ Setting!Resolved' = Setting!Resolved
    BY <2>1, FirstSourceDecides DEF SettingInv, Setting!Resolved
  <2>3. Setting!Accepts(class, field, value)' = Setting!Accepts(class', field', value')
    BY DEF Setting!Accepts
  <2> QED
    BY <2>1, <2>2, <2>3 DEF SettingInv
<1>2. CASE Setting!Assign
  <2>1. /\ UNCHANGED <<class, field, source, stage, wired, failed>>
        /\ stage \in {"held", "wired"} /\ assigns' = assigns + 1
        /\ value' \in Setting!Probes(class, field) \cup {Setting!None}
    BY <1>2 DEF Setting!Assign
  <2>2. value' \in Int
    BY <2>1, OffersAreNumbers DEF SettingInv
  <2>3. assigns' \in Nat /\ assigns' # 0
    BY <2>1 DEF SettingInv
  <2> QED
    BY <2>1, <2>2, <2>3 DEF SettingInv
<1>3. CASE Setting!Wire
  <2>1. /\ UNCHANGED <<class, field, source, value, failed, assigns>>
        /\ stage = "held" /\ stage' = "wired" /\ wired' = value
    BY <1>3 DEF Setting!Wire
  <2>2. Setting!Resolved' = Setting!Resolved
    BY <2>1 DEF Setting!Resolved
  <2>3. Setting!Accepts(class, field, value)' = Setting!Accepts(class, field, value)
    BY <2>1 DEF Setting!Accepts
  <2> QED
    BY <2>1, <2>2, <2>3 DEF SettingInv
<1>4. CASE Setting!Use
  <2>1. /\ UNCHANGED <<class, field, source, value, wired, assigns>>
        /\ stage = "wired" /\ stage' = "used"
        /\ failed' = ~Setting!Works(class, field, Setting!InUse)
    BY <1>4 DEF Setting!Use
  <2>2. Setting!Resolved' = Setting!Resolved
    BY <2>1 DEF Setting!Resolved
  <2>3. /\ Setting!Accepts(class, field, value)' = Setting!Accepts(class, field, value)
        /\ Setting!Works(class, field, Setting!InUse)' = Setting!Works(class, field, Setting!InUse)
    BY <2>1 DEF Setting!Accepts, Setting!InUse, Setting!ReadWhenUsed
  <2> QED
    BY <2>1, <2>2, <2>3 DEF SettingInv
<1>5. CASE UNCHANGED Setting!vars
  <2>1. UNCHANGED <<class, field, source, stage, value, wired, failed, assigns>>
    BY <1>5 DEF Setting!vars
  <2>2. /\ Setting!Resolved' = Setting!Resolved
        /\ Setting!Accepts(class, field, value)' = Setting!Accepts(class, field, value)
        /\ Setting!Works(class, field, Setting!InUse)' = Setting!Works(class, field, Setting!InUse)
    BY <2>1 DEF Setting!Resolved, Setting!Accepts, Setting!InUse, Setting!ReadWhenUsed
  <2> QED
    BY <2>1, <2>2 DEF SettingInv
<1> QED
  BY <1>1, <1>2, <1>3, <1>4, <1>5 DEF Setting!Next

LEMMA SettingStart == Setting!Init => SettingInv
BY DEF Setting!Init, SettingInv

LEMMA SettingWorks ==
    SettingOptions /\ SettingInv => Setting!CheckedWorks /\ Setting!NoSourceIsOverruled
<1> SUFFICES ASSUME SettingOptions, SettingInv PROVE Setting!CheckedWorks /\ Setting!NoSourceIsOverruled
  OBVIOUS
<1>1. ASSUME failed, ~Setting!Unusable
      PROVE  assigns > 0 /\ (Setting!ReadWhenUsed \/ ~Setting!Accepts(class, field, wired))
  <2>1. /\ stage = "used" /\ value \in Int /\ wired \in Int /\ Setting!InUse \in {value, wired}
        /\ Setting!InUse \in Int
    BY <1>1 DEF SettingInv, Setting!InUse
  <2>2. ~Setting!Accepts(class, field, Setting!InUse)
    <3>1. /\ ~(class = "RedisBackend" /\ field = "result_ttl" /\ Setting!InUse = 0)
          /\ Within(class, field, Setting!InUse)
      <4>1. /\ ~(class = "RedisBackend" /\ field = "result_ttl" /\ Setting!InUse = 0)
            /\ Setting!Limit(class, field) # Setting!NoBound =>
                   ~(Setting!InUse > Setting!Limit(class, field))
        BY <1>1 DEF Setting!Unusable
      <4>2. Setting!Limit(class, field) \in Int
        BY DEF Setting!Limit, Setting!NoBound, SettingOptions
      <4> QED
        BY <2>1, <4>1, <4>2 DEF Within
    <3>2. ~Setting!Works(class, field, Setting!InUse)
      BY <1>1 DEF SettingInv
    <3> QED
      BY <2>1, <3>1, <3>2, AcceptedWorks DEF SettingInv
  <2>3. assigns \in Nat /\ assigns # 0
    BY <2>1, <2>2 DEF SettingInv
  <2>4. ~Setting!ReadWhenUsed => Setting!InUse = wired
    BY DEF Setting!InUse
  <2> QED
    BY <2>2, <2>3, <2>4
<1>2. ASSUME stage \in {"wired", "used"}, assigns = 0
      PROVE  \A i \in 1..3 :
                 Setting!InUse # source[Setting!Sources[i]]
                 /\ source[Setting!Sources[i]] # Setting!Absent =>
                     \E j \in 1..(i - 1) : source[Setting!Sources[j]] = Setting!InUse
  <2>1. Setting!InUse = Setting!Resolved
    BY <1>2 DEF SettingInv, Setting!InUse
  <2> QED
    BY <2>1, FirstSourceDecides DEF SettingInv
<1>3. ASSUME stage = "used", Setting!Unusable PROVE failed
  <2>1. Setting!InUse \in Int
    BY <1>3 DEF SettingInv, Setting!InUse
  <2>2. ~Setting!Works(class, field, Setting!InUse)
    BY <1>3, <2>1, UnusableFails DEF SettingInv, Setting!Unusable
  <2> QED
    BY <1>3, <2>2 DEF SettingInv
<1> QED
  BY <1>1, <1>2, <1>3 DEF Setting!CheckedWorks, Setting!NoSourceIsOverruled

\* An address is refused only if validation passed the scheme of a synchronous driver.
TargetInv ==
    /\ reached \in {"held", "wired"} => Target!ValidUrl(kind, Target!Url)
    /\ reached \in {"wired", "connected", "refused"} => dsn = Target!Dsn
    /\ reached = "refused" => kind \in {"Postgres", "MySQL"}

LEMMA TargetKeeps == TargetInv /\ [Target!Next]_(Target!vars) => TargetInv'
<1> SUFFICES ASSUME TargetInv, [Target!Next]_(Target!vars) PROVE TargetInv'
  OBVIOUS
<1>1. CASE Target!Construct
  <2>1. /\ UNCHANGED <<kind, parts, url, dsn>>
        /\ reached' \in {"held", "rejected"}
        /\ reached' = "held" => Target!ValidUrl(kind, Target!Url)
    BY <1>1 DEF Target!Construct
  <2>2. Target!ValidUrl(kind, Target!Url)' = Target!ValidUrl(kind, Target!Url)
    BY <2>1 DEF Target!ValidUrl, Target!Url
  <2> QED
    BY <2>1, <2>2 DEF TargetInv
<1>2. CASE Target!Wire
  <2>1. /\ UNCHANGED <<kind, parts, url>>
        /\ reached = "held" /\ reached' = "wired" /\ dsn' = Target!Dsn
    BY <1>2 DEF Target!Wire
  <2>2. /\ Target!ValidUrl(kind, Target!Url)' = Target!ValidUrl(kind, Target!Url)
        /\ Target!Dsn' = Target!Dsn
    BY <2>1 DEF Target!ValidUrl, Target!Url, Target!Dsn, Target!Host
  <2> QED
    BY <2>1, <2>2 DEF TargetInv
<1>3. CASE Target!Connect
  <2>1. /\ UNCHANGED <<kind, parts, url, dsn>>
        /\ reached = "wired" /\ reached' \in {"connected", "refused"}
        /\ reached' = "refused" => dsn.scheme # "async"
    BY <1>3 DEF Target!Connect
  <2>2. ASSUME reached' = "refused" PROVE kind \in {"Postgres", "MySQL"}
    <3>1. Target!Dsn.scheme # "async" /\ Target!ValidUrl(kind, Target!Url)
      BY <2>1, <2>2 DEF TargetInv
    <3>2. Target!Url # Target!Null /\ Target!Dsn = Target!Url
      BY <3>1 DEF Target!Dsn
    <3> QED
      BY <3>1, <3>2 DEF Target!ValidUrl
  <2>3. /\ Target!Dsn' = Target!Dsn
        /\ Target!ValidUrl(kind, Target!Url)' = Target!ValidUrl(kind, Target!Url)
    BY <2>1 DEF Target!Dsn, Target!Url, Target!Host, Target!ValidUrl
  <2> QED
    BY <2>1, <2>2, <2>3 DEF TargetInv
<1>4. CASE UNCHANGED Target!vars
  <2>1. UNCHANGED <<kind, parts, url, reached, dsn>>
    BY <1>4 DEF Target!vars
  <2> QED
    BY <2>1 DEF TargetInv, Target!ValidUrl, Target!Url, Target!Dsn, Target!Host
<1> QED
  BY <1>1, <1>2, <1>3, <1>4 DEF Target!Next

LEMMA TargetStart == Target!Init => TargetInv
BY DEF Target!Init, TargetInv

\* The address that the component got is that of the first source that names one.
LEMMA TargetOrder == TargetInv => Target!AddressInOrder
<1> SUFFICES ASSUME dsn = Target!Dsn
             PROVE  /\ url.argument # Target!Null => dsn = url.argument
                    /\ dsn \notin {url.argument, url.environment} => dsn.scheme = "async"
                    /\ dsn.place # parts.argument =>
                           \/ dsn \in {url.argument, url.environment}
                           \/ parts.argument = Target!Absent
  BY DEF TargetInv, Target!AddressInOrder
<1>1. Target!Url \in {url.argument, url.environment}
  BY DEF Target!Url
<1>2. CASE Target!Url # Target!Null
  BY <1>1, <1>2 DEF Target!Dsn, Target!Url
<1>3. CASE Target!Url = Target!Null
  <2>1. dsn = [scheme |-> "async", place |-> Target!Host] /\ url.argument = Target!Null
    BY <1>3 DEF Target!Dsn, Target!Url
  <2> QED
    BY <2>1 DEF Target!Host
<1> QED
  BY <1>2, <1>3

LEMMA SettingApart == ProgramSpec => Setting!Spec
<1>1. ProgramInit => Setting!Init
  BY DEF ProgramInit
<1>2. [ProgramNext]_programVars => [Setting!Next]_(Setting!vars)
  <2> SUFFICES ASSUME [ProgramNext]_programVars PROVE Setting!Next \/ UNCHANGED Setting!vars
    OBVIOUS
  <2>1. CASE SettingStep
    BY <2>1 DEF SettingStep
  <2>2. CASE Retries \/ SharedStep \/ TargetStep \/ CallStep \/ NamingStep \/ CommandStep
    BY <2>2 DEF Retries, SharedStep, TargetStep, CallStep, NamingStep, CommandStep, settingVars,
                Setting!vars
  <2>3. CASE UNCHANGED programVars
    BY <2>3 DEF programVars, settingVars, Setting!vars
  <2> QED
    BY <2>1, <2>2, <2>3 DEF ProgramNext
<1>3. ProgramSpec => ProgramInit /\ [][ProgramNext]_programVars
  BY PTL DEF ProgramSpec
<1> QED
  BY <1>1, <1>2, <1>3, PTL DEF Setting!Spec

LEMMA TargetApart == ProgramSpec => Target!Spec
<1>1. ProgramInit => Target!Init
  BY DEF ProgramInit
<1>2. [ProgramNext]_programVars => [Target!Next]_(Target!vars)
  <2> SUFFICES ASSUME [ProgramNext]_programVars PROVE Target!Next \/ UNCHANGED Target!vars
    OBVIOUS
  <2>1. CASE TargetStep
    BY <2>1 DEF TargetStep
  <2>2. CASE Retries \/ SharedStep \/ SettingStep \/ CallStep \/ NamingStep \/ CommandStep
    BY <2>2 DEF Retries, SharedStep, SettingStep, CallStep, NamingStep, CommandStep, targetVars,
                Target!vars
  <2>3. CASE UNCHANGED programVars
    BY <2>3 DEF programVars, targetVars, Target!vars
  <2> QED
    BY <2>1, <2>2, <2>3 DEF ProgramNext
<1>3. ProgramSpec => ProgramInit /\ [][ProgramNext]_programVars
  BY PTL DEF ProgramSpec
<1> QED
  BY <1>1, <1>2, <1>3, PTL DEF Target!Spec

\* Validation and use agree on every field of every settings class and for every value, but for
\* those that Unusable lists: a result TTL of 0, and what is above the limits of the servers and
\* libraries (16 bits for a prefetch count, RabbitMQ's longest TTL, Redis's and AMQP's largest
\* numbers, the longest span of time), of which the settings know none.  The sources are taken
\* in their order, those of an address too, where a url of the environment overrules a host
\* given to the constructor; and an address that passed validate_url is refused by its driver
\* only for the two SQL classes that take synchronous schemes.
THEOREM CheckedValuesWork == ASSUME SettingOptions PROVE ProgramSpec => []ValidatedWorks
<1>1. Setting!Spec => []SettingInv
  <2>1. Setting!Init => SettingInv
    BY SettingStart
  <2>2. SettingInv /\ [Setting!Next]_(Setting!vars) => SettingInv'
    BY SettingKeeps
  <2> QED
    BY <2>1, <2>2, PTL DEF Setting!Spec
<1>2. Target!Spec => []TargetInv
  BY TargetStart, TargetKeeps, PTL DEF Target!Spec
<1>3. SettingInv /\ TargetInv => ValidatedWorks
  BY SettingWorks, TargetOrder DEF TargetInv, ValidatedWorks, Target!ValidatedConnects
<1> QED
  BY <1>1, <1>2, <1>3, SettingApart, TargetApart, PTL

--------------------------------------------------------------------------------
(* The names of tasks, for any file and any import names.                  *)

\* No file can be imported as __main__, and NoName is no name of a module.
FileOptions ==
    /\ \E S : Functions \in Seq(S)
    /\ Naming!Main \notin ModuleNames /\ Naming!NoName \notin ModuleNames

Modules == ModuleNames \cup {Naming!Main}
Frames ==
    [module : Modules, at : 1..(Naming!Count + 1), resolving : BOOLEAN, todo : Seq(ModuleNames)]
Entries == [module : Modules, name : Naming!Names, function : Naming!Range(Functions)]

\* The name of a task by its function and the module that is executed.
RightName(o, e) ==
    /\ e.name = IF o[e.function] # Naming!NoName THEN Naming!Explicit(o[e.function])
                ELSE Naming!Derived(e.module, e.function)
    /\ o[e.function] = Naming!NoName => e.module # Naming!Main

MadeIn(m, x, f) == \E e \in m : e.module = x /\ e.function = f

\* What holds in a process with these executions, imports, entries and tasks: an execution
\* has made the tasks before the one it is at, a module that is not being executed is
\* complete, and every task is entered under its right name.
File(o, f, l, t, m) ==
    /\ f \in Seq(Frames) /\ l \subseteq Modules /\ t \subseteq Entries /\ m \subseteq Entries
    /\ \A i \in 1..Len(f) :
           /\ f[i].module \in l
           /\ f[i].resolving => f[i].module = Naming!Main
           /\ \A j \in 1..(f[i].at - 1) : MadeIn(m, f[i].module, Functions[j])
    /\ \A x \in l : \/ \E i \in 1..Len(f) : f[i].module = x
                    \/ \A j \in 1..Naming!Count : MadeIn(m, x, Functions[j])
    /\ \A e \in t \cup m : e.module \in l /\ RightName(o, e)
    /\ \A e \in m : \E u \in t : u.module = e.module /\ u.name = e.name

NamingInv ==
    /\ option \in [Naming!Range(Functions) -> ExplicitNames \cup {Naming!NoName}]
    /\ path \in [Naming!Processes -> Naming!Paths]
    /\ frames \in [Naming!Processes -> Seq(Frames)]
    /\ loaded \in [Naming!Processes -> SUBSET Modules]
    /\ tasks \in [Naming!Processes -> SUBSET Entries]
    /\ made \in [Naming!Processes -> SUBSET Entries]
    /\ died \in [Naming!Processes -> BOOLEAN]
    /\ \A p \in Naming!Processes : File(option, frames[p], loaded[p], tasks[p], made[p])

LEMMA CountIsLength ==
    ASSUME FileOptions
    PROVE  /\ Naming!Count \in Nat
           /\ \A j \in 1..Naming!Count : Functions[j] \in Naming!Range(Functions)
           /\ \A f \in Naming!Range(Functions) : \E j \in 1..Naming!Count : Functions[j] = f
<1>1. PICK S : Functions \in Seq(S)
  BY DEF FileOptions
<1>2. Naming!Count \in Nat /\ DOMAIN Functions = 1..Naming!Count
  BY <1>1 DEF Naming!Count
<1> QED
  BY <1>2 DEF Naming!Range

LEMMA NewFrame ==
    ASSUME FileOptions, NEW x \in Modules
    PROVE  /\ Naming!Frame(x) \in Frames
           /\ Naming!Frame(x).module = x /\ Naming!Frame(x).at = 1
           /\ Naming!Frame(x).resolving = FALSE
<1>1. 1 \in 1..(Naming!Count + 1)
  BY CountIsLength
<1>2. <<>> \in Seq(ModuleNames)
  OBVIOUS
<1> QED
  BY <1>1, <1>2 DEF Naming!Frame, Frames

\* A file is executed under one more name.
LEMMA Imports ==
    ASSUME FileOptions, NEW o, NEW f, NEW l, NEW t, NEW m, File(o, f, l, t, m), NEW x \in Modules
    PROVE  File(o, Append(f, Naming!Frame(x)), l \cup {x}, t, m)
<1> DEFINE g == Append(f, Naming!Frame(x))
<1>1. /\ g \in Seq(Frames) /\ Len(g) = Len(f) + 1 /\ Len(f) \in Nat
      /\ \A i \in 1..Len(f) : g[i] = f[i]
      /\ g[Len(f) + 1] = Naming!Frame(x)
  <2>1. f \in Seq(Frames)
    BY DEF File
  <2>2. PICK y \in Frames : y = Naming!Frame(x)
    BY NewFrame
  <2> QED
    BY <2>1, <2>2
<1> HIDE DEF g
<1>2. \A i \in 1..Len(g) : i \in 1..Len(f) \/ i = Len(f) + 1
  BY <1>1
<1>3. ASSUME NEW i \in 1..Len(g)
      PROVE  /\ g[i].module \in l \cup {x}
             /\ g[i].resolving => g[i].module = Naming!Main
             /\ \A j \in 1..(g[i].at - 1) : MadeIn(m, g[i].module, Functions[j])
  <2>1. CASE i \in 1..Len(f)
    BY <1>1, <2>1 DEF File
  <2>2. CASE i = Len(f) + 1
    <3>1. g[i].module = x /\ g[i].at = 1 /\ g[i].resolving = FALSE
      BY <1>1, <2>2, NewFrame
    <3>2. 1..(g[i].at - 1) = {}
      BY <3>1
    <3> QED
      BY <3>1, <3>2
  <2> QED
    BY <1>2, <2>1, <2>2
<1>4. ASSUME NEW y \in l \cup {x}
      PROVE  \/ \E i \in 1..Len(g) : g[i].module = y
             \/ \A j \in 1..Naming!Count : MadeIn(m, y, Functions[j])
  <2>1. CASE y = x
    <3>1. Len(f) + 1 \in 1..Len(g) /\ g[Len(f) + 1].module = y
      <4>1. Len(f) \in Nat
        BY DEF File
      <4>2. Len(f) + 1 \in 1..Len(g)
        BY <1>1, <4>1
      <4> QED
        BY <1>1, <2>1, <4>2, NewFrame
    <3> QED
      BY <3>1
  <2>2. CASE y \in l
    <3>1. \A i \in 1..Len(f) : i \in 1..Len(g)
      BY <1>1
    <3> QED
      BY <1>1, <2>2, <3>1 DEF File
  <2> QED
    BY <2>1, <2>2
<1>5. File(o, g, l \cup {x}, t, m)
  BY <1>1, <1>3, <1>4 DEF File
<1> QED
  BY <1>5 DEF g

\* The innermost execution goes on, or tries the next name.
LEMMA TriesNames ==
    ASSUME NEW o, NEW f, NEW l, NEW t, NEW m, File(o, f, l, t, m), f # <<>>,
           NEW g \in Frames, g.module = f[Len(f)].module, g.at = f[Len(f)].at,
           g.resolving => g.module = Naming!Main
    PROVE  File(o, [f EXCEPT ![Len(f)] = g], l, t, m)
<1> DEFINE h == [f EXCEPT ![Len(f)] = g]
<1>1. /\ h \in Seq(Frames) /\ Len(h) = Len(f) /\ Len(f) \in Nat /\ Len(f) \in 1..Len(f)
      /\ h[Len(f)] = g
      /\ \A i \in 1..Len(f) : i # Len(f) => h[i] = f[i]
  BY DEF File
<1> HIDE DEF h
<1>2. \A i \in 1..Len(f) : h[i].module = f[i].module /\ h[i].at = f[i].at
  BY <1>1
<1>3. \A i \in 1..Len(f) : h[i].resolving => h[i].module = Naming!Main
  BY <1>1 DEF File
<1>4. File(o, h, l, t, m)
  BY <1>1, <1>2, <1>3 DEF File
<1> QED
  BY <1>4 DEF h

\* A task is entered under its right name.
LEMMA Registers ==
    ASSUME FileOptions, NEW o, NEW f, NEW l, NEW t, NEW m, File(o, f, l, t, m), f # <<>>,
           NEW top, top = f[Len(f)], top.at <= Naming!Count,
           NEW e \in Entries, e.module = top.module, e.function = Functions[top.at],
           RightName(o, e),
           NEW s, s = {u \in t : u.module # e.module \/ u.name # e.name} \cup {e},
           NEW g \in Frames, g.module = top.module, g.at = top.at + 1, g.resolving = FALSE
    PROVE  File(o, [f EXCEPT ![Len(f)] = g], l, s, m \cup {e})
<1> DEFINE h == [f EXCEPT ![Len(f)] = g]
           n == m \cup {e}
<1>1. /\ h \in Seq(Frames) /\ Len(h) = Len(f) /\ Len(f) \in Nat /\ Len(f) \in 1..Len(f)
      /\ h[Len(f)] = g
      /\ \A i \in 1..Len(f) : i # Len(f) => h[i] = f[i]
  BY DEF File
<1>2. e \in n /\ m \subseteq n /\ n \subseteq Entries /\ s \subseteq Entries
  BY DEF File
<1>3. \A d \in n : d \in m \/ d = e
  OBVIOUS
<1> HIDE DEF h, n
<1>4. \A x, y : MadeIn(m, x, y) => MadeIn(n, x, y)
  BY <1>2 DEF MadeIn
<1>5. top.module \in l /\ top.at \in 1..(Naming!Count + 1)
  <2>1. top \in Frames
    BY <1>1 DEF File
  <2> QED
    BY <1>1, <2>1 DEF File, Frames
<1>6. MadeIn(n, top.module, Functions[top.at])
  BY <1>2 DEF MadeIn
<1>7. ASSUME NEW i \in 1..Len(h)
      PROVE  /\ h[i].module \in l
             /\ h[i].resolving => h[i].module = Naming!Main
             /\ \A j \in 1..(h[i].at - 1) : MadeIn(n, h[i].module, Functions[j])
  <2>1. CASE i # Len(f)
    <3>1. h[i] = f[i] /\ i \in 1..Len(f)
      BY <1>1, <2>1
    <3>2. \A j \in 1..(f[i].at - 1) : MadeIn(m, f[i].module, Functions[j])
      BY <3>1 DEF File
    <3> QED
      BY <1>4, <3>1, <3>2 DEF File
  <2>2. CASE i = Len(f)
    <3>1. h[i].module = top.module /\ h[i].at = top.at + 1 /\ h[i].resolving = FALSE
      BY <1>1, <2>2
    <3>2. \A j \in 1..(top.at - 1) : MadeIn(n, top.module, Functions[j])
      BY <1>1, <1>4 DEF File
    <3>3. \A j \in 1..(h[i].at - 1) : j \in 1..(top.at - 1) \/ j = top.at
      BY <1>5, <3>1, CountIsLength
    <3> QED
      BY <1>5, <1>6, <3>1, <3>2, <3>3
  <2> QED
    BY <2>1, <2>2
<1>8. \A i \in 1..Len(f) : h[i].module = f[i].module
  BY <1>1
<1>9. \A x \in l : \/ \E i \in 1..Len(h) : h[i].module = x
                   \/ \A j \in 1..Naming!Count : MadeIn(n, x, Functions[j])
  BY <1>1, <1>4, <1>8 DEF File
<1>10. \A d \in s \cup n : d.module \in l /\ RightName(o, d)
  BY <1>3, <1>5 DEF File
<1>11. ASSUME NEW d \in n PROVE \E u \in s : u.module = d.module /\ u.name = d.name
  <2>1. CASE d.module = e.module /\ d.name = e.name
    BY <2>1
  <2>2. CASE d.module # e.module \/ d.name # e.name
    <3>1. d \in m
      BY <1>3, <2>2
    <3>2. PICK u \in t : u.module = d.module /\ u.name = d.name
      BY <3>1 DEF File
    <3> QED
      BY <2>2, <3>2
  <2> QED
    BY <2>1, <2>2
<1>12. File(o, h, l, s, n)
  BY <1>1, <1>2, <1>7, <1>9, <1>10, <1>11 DEF File
<1> QED
  BY <1>12 DEF h, n

\* A file is executed to its end.
LEMMA Finishes ==
    ASSUME FileOptions, NEW o, NEW f, NEW l, NEW t, NEW m, File(o, f, l, t, m), f # <<>>,
           f[Len(f)].at > Naming!Count
    PROVE  File(o, Naming!Front(f), l, t, m)
<1> DEFINE g == Naming!Front(f)
<1>1. /\ g \in Seq(Frames) /\ Len(g) = Len(f) - 1 /\ Len(f) \in Nat /\ Len(f) \in 1..Len(f)
      /\ \A i \in 1..Len(g) : i \in 1..Len(f) /\ g[i] = f[i]
  <2>1. f \in Seq(Frames) /\ Len(f) \in Nat /\ Len(f) # 0
    BY DEF File
  <2>2. g = SubSeq(f, 1, Len(f) - 1)
    BY DEF Naming!Front
  <2>3. Len(f) - 1 \in Nat /\ Len(f) - 1 <= Len(f)
    BY <2>1
  <2>4. Len(g) = Len(f) - 1
    <3>1. PICK k \in Nat : k = Len(f) - 1 /\ g = SubSeq(f, 1, k)
      BY <2>2, <2>3
    <3>2. Len(SubSeq(f, 1, k)) = k
      BY <2>1, <3>1
    <3> QED
      BY <3>1, <3>2
  <2>5. \A i \in 1..Len(g) : g[i] = f[i] /\ i \in 1..Len(f)
    BY <2>1, <2>2, <2>3, <2>4
  <2>6. g \in Seq(Frames)
    BY <2>1, <2>2, <2>3
  <2> QED
    BY <2>1, <2>3, <2>4, <2>5, <2>6
<1> HIDE DEF g
<1>2. f[Len(f)].at \in 1..(Naming!Count + 1)
  <2>1. f[Len(f)] \in Frames
    BY <1>1 DEF File
  <2> QED
    BY <2>1 DEF Frames
<1>3. 1..(f[Len(f)].at - 1) = 1..Naming!Count
  BY <1>2, CountIsLength
<1>4. \A j \in 1..Naming!Count : MadeIn(m, f[Len(f)].module, Functions[j])
  BY <1>1, <1>3 DEF File
<1>5. ASSUME NEW x \in l
      PROVE  \/ \E i \in 1..Len(g) : g[i].module = x
             \/ \A j \in 1..Naming!Count : MadeIn(m, x, Functions[j])
  <2>1. CASE \E i \in 1..Len(f) : f[i].module = x
    <3>1. PICK i \in 1..Len(f) : f[i].module = x
      BY <2>1
    <3>2. CASE i = Len(f)
      BY <1>4, <3>1, <3>2
    <3>3. CASE i # Len(f)
      <4>1. i \in 1..Len(g)
        BY <1>1, <3>1, <3>3
      <4> QED
        BY <1>1, <3>1, <4>1
    <3> QED
      BY <3>2, <3>3
  <2>2. CASE ~\E i \in 1..Len(f) : f[i].module = x
    BY <2>2 DEF File
  <2> QED
    BY <2>1, <2>2
<1>6. File(o, g, l, t, m)
  BY <1>1, <1>5 DEF File
<1> QED
  BY <1>6 DEF g

\* A step of one process that leaves its file in order.
OthersStay(p) ==
    /\ frames' = [frames EXCEPT ![p] = frames'[p]] /\ loaded' = [loaded EXCEPT ![p] = loaded'[p]]
    /\ tasks' = [tasks EXCEPT ![p] = tasks'[p]] /\ made' = [made EXCEPT ![p] = made'[p]]
    /\ died' = [died EXCEPT ![p] = died'[p]] /\ died'[p] \in BOOLEAN
    /\ UNCHANGED <<option, path>>

LEMMA OneProcess ==
    ASSUME NamingInv, NEW p \in Naming!Processes, OthersStay(p),
           File(option, frames'[p], loaded'[p], tasks'[p], made'[p])
    PROVE  NamingInv'
<1>1. /\ frames'[p] \in Seq(Frames) /\ loaded'[p] \subseteq Modules
      /\ tasks'[p] \subseteq Entries /\ made'[p] \subseteq Entries
  BY DEF File
<1>2. /\ frames' \in [Naming!Processes -> Seq(Frames)]
      /\ \A q \in Naming!Processes : q # p => frames'[q] = frames[q]
  <2>1. PICK f \in Seq(Frames) : f = frames'[p]
    BY <1>1
  <2>2. frames' = [frames EXCEPT ![p] = f]
    BY <2>1 DEF OthersStay
  <2> QED
    BY <2>2 DEF NamingInv
<1>3. /\ loaded' \in [Naming!Processes -> SUBSET Modules]
      /\ \A q \in Naming!Processes : q # p => loaded'[q] = loaded[q]
  <2>1. PICK l \in SUBSET Modules : l = loaded'[p]
    BY <1>1
  <2>2. loaded' = [loaded EXCEPT ![p] = l]
    BY <2>1 DEF OthersStay
  <2> QED
    BY <2>2 DEF NamingInv
<1>4. /\ tasks' \in [Naming!Processes -> SUBSET Entries]
      /\ \A q \in Naming!Processes : q # p => tasks'[q] = tasks[q]
  <2>1. PICK t \in SUBSET Entries : t = tasks'[p]
    BY <1>1
  <2>2. tasks' = [tasks EXCEPT ![p] = t]
    BY <2>1 DEF OthersStay
  <2> QED
    BY <2>2 DEF NamingInv
<1>5. /\ made' \in [Naming!Processes -> SUBSET Entries]
      /\ \A q \in Naming!Processes : q # p => made'[q] = made[q]
  <2>1. PICK m \in SUBSET Entries : m = made'[p]
    BY <1>1
  <2>2. made' = [made EXCEPT ![p] = m]
    BY <2>1 DEF OthersStay
  <2> QED
    BY <2>2 DEF NamingInv
<1>6. died' \in [Naming!Processes -> BOOLEAN]
  <2>1. PICK d \in BOOLEAN : d = died'[p]
    BY DEF OthersStay
  <2>2. died' = [died EXCEPT ![p] = d]
    BY <2>1 DEF OthersStay
  <2> QED
    BY <2>2 DEF NamingInv
<1>7. ASSUME NEW q \in Naming!Processes
      PROVE  File(option, frames'[q], loaded'[q], tasks'[q], made'[q])
  <2>1. CASE q = p
    BY <2>1
  <2>2. CASE q # p
    BY <1>2, <1>3, <1>4, <1>5, <2>2 DEF NamingInv
  <2> QED
    BY <2>1, <2>2
<1>8. UNCHANGED <<option, path>>
  BY DEF OthersStay
<1> QED
  BY <1>2, <1>3, <1>4, <1>5, <1>6, <1>7, <1>8 DEF NamingInv

\* What a process has.
LEMMA ItsFile ==
    ASSUME NamingInv, NEW p \in Naming!Processes
    PROVE  File(option, frames[p], loaded[p], tasks[p], made[p])
BY DEF NamingInv

\* What changes is of p, and what does not is what it was.
LEMMA OnlyOfOne ==
    ASSUME NamingInv, NEW p \in Naming!Processes
    PROVE  /\ \A f : frames' = [frames EXCEPT ![p] = f] =>
                         frames' = [frames EXCEPT ![p] = frames'[p]] /\ frames'[p] = f
           /\ \A l : loaded' = [loaded EXCEPT ![p] = l] =>
                         loaded' = [loaded EXCEPT ![p] = loaded'[p]] /\ loaded'[p] = l
           /\ \A t : tasks' = [tasks EXCEPT ![p] = t] =>
                         tasks' = [tasks EXCEPT ![p] = tasks'[p]] /\ tasks'[p] = t
           /\ \A m : made' = [made EXCEPT ![p] = m] =>
                         made' = [made EXCEPT ![p] = made'[p]] /\ made'[p] = m
           /\ UNCHANGED frames => frames' = [frames EXCEPT ![p] = frames'[p]] /\ frames'[p] = frames[p]
           /\ UNCHANGED loaded => loaded' = [loaded EXCEPT ![p] = loaded'[p]] /\ loaded'[p] = loaded[p]
           /\ UNCHANGED tasks => tasks' = [tasks EXCEPT ![p] = tasks'[p]] /\ tasks'[p] = tasks[p]
           /\ UNCHANGED made => made' = [made EXCEPT ![p] = made'[p]] /\ made'[p] = made[p]
           /\ UNCHANGED died => died' = [died EXCEPT ![p] = died'[p]] /\ died'[p] \in BOOLEAN
<1>1. p \in DOMAIN frames /\ p \in DOMAIN loaded /\ p \in DOMAIN tasks /\ p \in DOMAIN made
  BY DEF NamingInv
<1>2. ASSUME UNCHANGED died
      PROVE  died' = [died EXCEPT ![p] = died'[p]] /\ died'[p] \in BOOLEAN
  BY <1>2 DEF NamingInv
<1>3. ASSUME UNCHANGED frames
      PROVE  frames' = [frames EXCEPT ![p] = frames'[p]] /\ frames'[p] = frames[p]
  BY <1>3 DEF NamingInv
<1>4. ASSUME UNCHANGED loaded
      PROVE  loaded' = [loaded EXCEPT ![p] = loaded'[p]] /\ loaded'[p] = loaded[p]
  BY <1>4 DEF NamingInv
<1>5. ASSUME UNCHANGED tasks
      PROVE  tasks' = [tasks EXCEPT ![p] = tasks'[p]] /\ tasks'[p] = tasks[p]
  BY <1>5 DEF NamingInv
<1>6. ASSUME UNCHANGED made
      PROVE  made' = [made EXCEPT ![p] = made'[p]] /\ made'[p] = made[p]
  BY <1>6 DEF NamingInv
<1> QED
  BY <1>1, <1>2, <1>3, <1>4, <1>5, <1>6

LEMMA TopFacts ==
    ASSUME FileOptions, NamingInv, NEW p \in Naming!Processes, Naming!Running(p)
    PROVE  /\ frames[p] # <<>> /\ Naming!Top(p) = frames[p][Len(frames[p])]
           /\ Naming!Top(p) \in Frames
           /\ Naming!Top(p).resolving => Naming!Top(p).module = Naming!Main
           /\ Naming!Top(p).at <= Naming!Count =>
                  Naming!Current(p) \in Naming!Range(Functions)
<1>1. frames[p] # <<>> /\ Naming!Top(p) = frames[p][Len(frames[p])]
  BY DEF Naming!Running, Naming!Top, Naming!Last
<1>2. frames[p] \in Seq(Frames) /\ Len(frames[p]) \in 1..Len(frames[p])
  BY <1>1 DEF NamingInv
<1>3. Naming!Top(p) \in Frames
  BY <1>1, <1>2
<1>4. Naming!Top(p).resolving => Naming!Top(p).module = Naming!Main
  BY <1>1, <1>2 DEF NamingInv, File
<1>5. Naming!Top(p).at <= Naming!Count => Naming!Current(p) \in Naming!Range(Functions)
  <2>1. Naming!Top(p).at \in 1..(Naming!Count + 1)
    BY <1>3 DEF Frames
  <2> QED
    BY <2>1, CountIsLength DEF Naming!Current
<1> QED
  BY <1>1, <1>3, <1>4, <1>5

LEMMA RegisterKeeps ==
    ASSUME FileOptions, NamingInv, NEW p \in Naming!Processes, Naming!Running(p),
           Naming!Top(p).at <= Naming!Count, NEW name \in Naming!Names,
           RightName(option, [module |-> Naming!Top(p).module, name |-> name,
                              function |-> Naming!Current(p)]),
           Naming!Register(p, name), UNCHANGED <<option, path, loaded, died>>
    PROVE  NamingInv'
<1>1. PICK e : e = [module |-> Naming!Top(p).module, name |-> name,
                    function |-> Naming!Current(p)]
  OBVIOUS
<1>2. PICK top \in Frames : top = Naming!Top(p)
  BY TopFacts
<1>3. PICK g : g = [top EXCEPT !.at = top.at + 1, !.resolving = FALSE, !.todo = <<>>]
  OBVIOUS
<1>4. PICK s : s = {u \in tasks[p] : u.module # e.module \/ u.name # e.name} \cup {e}
  OBVIOUS
<1>5. /\ tasks' = [tasks EXCEPT ![p] = s]
      /\ made' = [made EXCEPT ![p] = made[p] \cup {e}]
  BY <1>1, <1>2, <1>4 DEF Naming!Register
<1>6. frames' = [frames EXCEPT ![p] = [frames[p] EXCEPT ![Len(frames[p])] = g]]
  BY <1>2, <1>3 DEF Naming!Register, Naming!WithTop
<1>7. g \in Frames /\ g.module = top.module /\ g.at = top.at + 1 /\ g.resolving = FALSE
  <2>1. top.at \in 1..(Naming!Count + 1) /\ Naming!Count \in Nat
    BY CountIsLength DEF Frames
  <2>2. top.at + 1 \in 1..(Naming!Count + 1)
    BY <1>2, <2>1
  <2>3. <<>> \in Seq(ModuleNames)
    OBVIOUS
  <2> QED
    BY <1>3, <2>2, <2>3 DEF Frames
<1>8. e \in Entries /\ e.module = top.module /\ e.function = Functions[top.at]
      /\ RightName(option, e)
  <2>1. top.module \in Modules
    BY DEF Frames
  <2> QED
    BY <1>1, <1>2, <2>1, TopFacts DEF Entries, Naming!Current
<1>9. File(option, [frames[p] EXCEPT ![Len(frames[p])] = g], loaded[p], s, made[p] \cup {e})
  <2>1. File(option, frames[p], loaded[p], tasks[p], made[p])
    BY ItsFile
  <2>2. frames[p] # <<>> /\ top = frames[p][Len(frames[p])] /\ top.at <= Naming!Count
    BY <1>2, TopFacts
  <2> QED
    BY <1>4, <1>7, <1>8, <2>1, <2>2, Registers
<1>10. OthersStay(p) /\ File(option, frames'[p], loaded'[p], tasks'[p], made'[p])
  BY <1>5, <1>6, <1>9, OnlyOfOne DEF OthersStay
<1> QED
  BY <1>10, OneProcess

\* The innermost execution changes, and nothing else.
LEMMA FrameKeeps ==
    ASSUME FileOptions, NamingInv, NEW p \in Naming!Processes, Naming!Running(p),
           NEW g \in Frames, g.module = Naming!Top(p).module, g.at = Naming!Top(p).at,
           g.resolving => g.module = Naming!Main,
           frames' = [frames EXCEPT ![p] = [frames[p] EXCEPT ![Len(frames[p])] = g]],
           UNCHANGED <<option, path, loaded, tasks, made, died>>
    PROVE  NamingInv'
<1>1. File(option, [frames[p] EXCEPT ![Len(frames[p])] = g], loaded[p], tasks[p], made[p])
  BY TopFacts, ItsFile, TriesNames
<1>2. OthersStay(p) /\ File(option, frames'[p], loaded'[p], tasks'[p], made'[p])
  BY <1>1, OnlyOfOne DEF OthersStay
<1> QED
  BY <1>2, OneProcess

LEMMA StartKeeps ==
    ASSUME FileOptions, NamingInv, NEW p \in Naming!Processes, NEW x \in Modules,
           Naming!Start(p, x)
    PROVE  NamingInv'
<1>1. /\ loaded[p] = {}
      /\ frames' = [frames EXCEPT ![p] = <<Naming!Frame(x)>>]
      /\ loaded' = [loaded EXCEPT ![p] = {x}]
      /\ UNCHANGED <<option, path, tasks, made, died>>
  BY DEF Naming!Start
<1>2. frames[p] = <<>>
  <2>1. frames[p] \in Seq(Frames) /\ \A i \in 1..Len(frames[p]) : FALSE
    BY <1>1, ItsFile DEF File
  <2>2. Len(frames[p]) \in Nat
    BY <2>1
  <2>3. Len(frames[p]) = 0
    BY <2>1, <2>2
  <2> QED
    BY <2>1, <2>3
<1>3. PICK y : y = Naming!Frame(x)
  OBVIOUS
<1>4. <<y>> = Append(<<>>, y) /\ {x} = {} \cup {x}
  OBVIOUS
<1>5. File(option, <<Naming!Frame(x)>>, {x}, tasks[p], made[p])
  <2>1. File(option, <<>>, {}, tasks[p], made[p])
    BY <1>1, <1>2, ItsFile
  <2>2. File(option, Append(<<>>, Naming!Frame(x)), {} \cup {x}, tasks[p], made[p])
    BY <2>1, Imports
  <2> QED
    BY <1>3, <1>4, <2>2
<1>6. OthersStay(p) /\ File(option, frames'[p], loaded'[p], tasks'[p], made'[p])
  BY <1>1, <1>5, OnlyOfOne DEF OthersStay
<1> QED
  BY <1>6, OneProcess

LEMMA DefineNamedKeeps ==
    ASSUME FileOptions, NamingInv, NEW p \in Naming!Processes, Naming!DefineNamed(p)
    PROVE  NamingInv'
<1>1. /\ Naming!Running(p) /\ Naming!Top(p).at <= Naming!Count
      /\ UNCHANGED <<option, path, loaded, died>>
  BY DEF Naming!DefineNamed
<1>2. /\ Naming!Current(p) \in Naming!Range(Functions)
      /\ option[Naming!Current(p)] \in ExplicitNames \cup {Naming!NoName}
      /\ Naming!Top(p).module \in Modules
  BY <1>1, TopFacts DEF NamingInv, Frames
<1>3. CASE /\ option[Naming!Current(p)] # Naming!NoName
           /\ Naming!Register(p, Naming!Explicit(option[Naming!Current(p)]))
  <2>1. Naming!Explicit(option[Naming!Current(p)]) \in Naming!Names
    BY <1>2, <1>3 DEF Naming!Names
  <2>2. RightName(option, [module |-> Naming!Top(p).module,
                           name |-> Naming!Explicit(option[Naming!Current(p)]),
                           function |-> Naming!Current(p)])
    BY <1>3 DEF RightName
  <2> QED
    BY <1>1, <1>3, <2>1, <2>2, RegisterKeeps
<1>4. CASE /\ option[Naming!Current(p)] = Naming!NoName /\ Naming!Top(p).module # Naming!Main
           /\ Naming!Register(p, Naming!Derived(Naming!Top(p).module, Naming!Current(p)))
  <2>1. Naming!Derived(Naming!Top(p).module, Naming!Current(p)) \in Naming!Names
    BY <1>2 DEF Naming!Names, Modules
  <2>2. RightName(option, [module |-> Naming!Top(p).module,
                           name |-> Naming!Derived(Naming!Top(p).module, Naming!Current(p)),
                           function |-> Naming!Current(p)])
    BY <1>4 DEF RightName
  <2> QED
    BY <1>1, <1>4, <2>1, <2>2, RegisterKeeps
<1> QED
  BY <1>3, <1>4 DEF Naming!DefineNamed

LEMMA DefineInMainKeeps ==
    ASSUME FileOptions, NamingInv, NEW p \in Naming!Processes, Naming!DefineInMain(p)
    PROVE  NamingInv'
<1>1. /\ Naming!Running(p) /\ Naming!Top(p).module = Naming!Main
      /\ UNCHANGED <<option, path, loaded, tasks, made, died>>
  BY DEF Naming!DefineInMain
<1>2. PICK top \in Frames : top = Naming!Top(p) /\ top = frames[p][Len(frames[p])]
  BY <1>1, TopFacts
<1>3. PICK g : g = [top EXCEPT !.resolving = TRUE, !.todo = path[p]]
  OBVIOUS
<1>4. frames' = [frames EXCEPT ![p] = [frames[p] EXCEPT ![Len(frames[p])] = g]]
  BY <1>2, <1>3 DEF Naming!DefineInMain, Naming!WithTop
<1>5. path[p] \in Seq(ModuleNames)
  <2>1. path[p] \in Naming!Paths
    BY DEF NamingInv
  <2>2. PICK n \in 0..2 : path[p] \in [1..n -> ModuleNames]
    BY <2>1 DEF Naming!Paths
  <2> QED
    BY <2>2
<1>6. g \in Frames /\ g.module = top.module /\ g.at = top.at
  BY <1>3, <1>5 DEF Frames
<1> QED
  BY <1>1, <1>2, <1>4, <1>6, FrameKeeps

LEMMA TryImportKeeps ==
    ASSUME FileOptions, NamingInv, NEW p \in Naming!Processes, Naming!TryImport(p)
    PROVE  NamingInv'
<1>1. PICK x : x = Head(Naming!Top(p).todo)
  OBVIOUS
<1>2. /\ Naming!Running(p) /\ Naming!Top(p).todo # <<>>
      /\ loaded' = [loaded EXCEPT ![p] = loaded[p] \cup {x}]
      /\ frames' = [frames EXCEPT ![p] = Append(frames[p], Naming!Frame(x))]
      /\ UNCHANGED <<option, path, tasks, made, died>>
  BY <1>1 DEF Naming!TryImport
<1>3. x \in Modules
  <2>1. Naming!Top(p).todo \in Seq(ModuleNames)
    BY <1>2, TopFacts DEF Frames
  <2> QED
    BY <1>1, <1>2, <2>1 DEF Modules
<1>4. File(option, Append(frames[p], Naming!Frame(x)), loaded[p] \cup {x}, tasks[p], made[p])
  BY <1>3, ItsFile, Imports
<1>5. OthersStay(p) /\ File(option, frames'[p], loaded'[p], tasks'[p], made'[p])
  <2>1. /\ frames' = [frames EXCEPT ![p] = frames'[p]]
        /\ frames'[p] = Append(frames[p], Naming!Frame(x))
    BY <1>2, OnlyOfOne
  <2>2. loaded' = [loaded EXCEPT ![p] = loaded'[p]] /\ loaded'[p] = loaded[p] \cup {x}
    BY <1>2, OnlyOfOne
  <2>3. OthersStay(p) /\ tasks'[p] = tasks[p] /\ made'[p] = made[p]
    BY <1>2, <2>1, <2>2, OnlyOfOne DEF OthersStay
  <2> QED
    BY <1>2, <1>4, <2>1, <2>2, <2>3
<1> QED
  BY <1>5, OneProcess

LEMMA TryCandidateKeeps ==
    ASSUME FileOptions, NamingInv, NEW p \in Naming!Processes, Naming!TryCandidate(p)
    PROVE  NamingInv'
<1>1. PICK top \in Frames : top = Naming!Top(p) /\ top = frames[p][Len(frames[p])]
  BY TopFacts DEF Naming!TryCandidate
<1>2. /\ Naming!Running(p) /\ top.resolving /\ top.todo # <<>>
      /\ UNCHANGED <<option, path, loaded, died>>
  BY <1>1 DEF Naming!TryCandidate
<1>3. top.todo \in Seq(ModuleNames) /\ top.module = Naming!Main
  BY <1>1, <1>2, TopFacts DEF Frames
<1>4. ~Naming!Holds(p, Head(top.todo), Naming!Current(p))
  <2>1. Head(top.todo) \in ModuleNames
    BY <1>2, <1>3
  <2> QED
    BY <1>1, <1>3, <2>1 DEF Naming!Holds, FileOptions
<1>5. PICK g : g = [top EXCEPT !.todo = Tail(top.todo)]
  OBVIOUS
<1>6. /\ frames' = [frames EXCEPT ![p] = [frames[p] EXCEPT ![Len(frames[p])] = g]]
      /\ UNCHANGED <<tasks, made>>
  BY <1>1, <1>4, <1>5 DEF Naming!TryCandidate, Naming!WithTop
<1>7. g \in Frames /\ g.module = top.module /\ g.at = top.at
  <2>1. Tail(top.todo) \in Seq(ModuleNames)
    BY <1>2, <1>3
  <2> QED
    BY <1>5, <2>1 DEF Frames
<1> QED
  BY <1>1, <1>2, <1>3, <1>6, <1>7, FrameKeeps

LEMMA FinishKeeps ==
    ASSUME FileOptions, NamingInv, NEW p \in Naming!Processes, Naming!Finish(p)
    PROVE  NamingInv'
<1>1. /\ Naming!Running(p) /\ Naming!Top(p).at > Naming!Count
      /\ frames' = [frames EXCEPT ![p] = Naming!Front(frames[p])]
      /\ UNCHANGED <<option, path, loaded, tasks, made, died>>
  BY DEF Naming!Finish
<1>2. File(option, Naming!Front(frames[p]), loaded[p], tasks[p], made[p])
  BY <1>1, TopFacts, ItsFile, Finishes
<1>3. OthersStay(p) /\ File(option, frames'[p], loaded'[p], tasks'[p], made'[p])
  BY <1>1, <1>2, OnlyOfOne DEF OthersStay
<1> QED
  BY <1>3, OneProcess

LEMMA UnresolvedKeeps ==
    ASSUME NamingInv, NEW p \in Naming!Processes, Naming!Unresolved(p)
    PROVE  NamingInv'
<1>1. /\ died' = [died EXCEPT ![p] = TRUE]
      /\ UNCHANGED <<option, path, frames, loaded, tasks, made>>
  BY DEF Naming!Unresolved
<1>2. died' = [died EXCEPT ![p] = died'[p]] /\ died'[p] \in BOOLEAN
  BY <1>1 DEF NamingInv
<1>3. OthersStay(p) /\ File(option, frames'[p], loaded'[p], tasks'[p], made'[p])
  BY <1>1, <1>2, ItsFile, OnlyOfOne DEF OthersStay
<1> QED
  BY <1>3, OneProcess

LEMMA NamingStart == FileOptions /\ Naming!Init => NamingInv
<1> SUFFICES ASSUME FileOptions, Naming!Init PROVE NamingInv
  OBVIOUS
<1>1. File(option, <<>>, {}, {}, {})
  BY DEF File
<1> QED
  BY <1>1 DEF Naming!Init, NamingInv

LEMMA NamingKeeps == FileOptions /\ NamingInv /\ [Naming!Next]_(Naming!vars) => NamingInv'
<1> SUFFICES ASSUME FileOptions, NamingInv, [Naming!Next]_(Naming!vars) PROVE NamingInv'
  OBVIOUS
<1>1. CASE Naming!Next
  <2>1. PICK p \in Naming!Processes :
            \/ \E m \in ModuleNames \cup {Naming!Main} : Naming!Start(p, m)
            \/ Naming!DefineNamed(p) \/ Naming!DefineInMain(p) \/ Naming!TryImport(p)
            \/ Naming!TryCandidate(p) \/ Naming!Unresolved(p) \/ Naming!Finish(p)
    BY <1>1 DEF Naming!Next
  <2> QED
    BY <2>1, StartKeeps, DefineNamedKeeps, DefineInMainKeeps, TryImportKeeps, TryCandidateKeeps,
       UnresolvedKeeps, FinishKeeps DEF Modules
<1>2. CASE UNCHANGED Naming!vars
  <2>1. UNCHANGED <<option, path, frames, loaded, tasks, made, died>>
    BY <1>2 DEF Naming!vars
  <2> QED
    BY <2>1 DEF NamingInv
<1> QED
  BY <1>1, <1>2

\* A process that is done has made the task of every function in every module it loaded.
LEMMA DoneMade ==
    ASSUME FileOptions, NamingInv, Naming!Done, NEW p \in Naming!Processes,
           NEW x \in loaded[p], NEW f \in Naming!Range(Functions)
    PROVE  \E e \in made[p] : e.module = x /\ e.function = f
<1>1. File(option, frames[p], loaded[p], tasks[p], made[p]) /\ frames[p] = <<>>
  BY ItsFile DEF Naming!Done
<1>2. PICK j \in 1..Naming!Count : Functions[j] = f
  BY CountIsLength
<1>3. MadeIn(made[p], x, Functions[j])
  BY <1>1 DEF File
<1> QED
  BY <1>2, <1>3 DEF MadeIn

LEMMA NamesTell ==
    ASSUME FileOptions
    PROVE  /\ \A n : Naming!Explicit(n).module = Naming!NoName /\ Naming!Explicit(n).function = n
           /\ \A x, f : Naming!Derived(x, f).module = x /\ Naming!Derived(x, f).function = f
           /\ \A x \in Modules : x # Naming!NoName
BY DEF Naming!Explicit, Naming!Derived, Modules, FileOptions, Naming!Main, Naming!NoName

\* What an entry says, in either process.
LEMMA EntrySays ==
    ASSUME FileOptions, NamingInv, NEW p \in Naming!Processes, NEW e \in tasks[p] \cup made[p]
    PROVE  /\ e.module \in loaded[p] /\ e.module \in Modules
           /\ e.function \in Naming!Range(Functions)
           /\ e.name.module # Naming!Main
           /\ e.name.module = Naming!NoName <=> option[e.function] # Naming!NoName
           /\ e.name.module = Naming!NoName => e.name = Naming!Explicit(option[e.function])
           /\ e.name.module # Naming!NoName =>
                  e.name = Naming!Derived(e.module, e.function) /\ e.name.module = e.module
<1>1. e \in Entries /\ e.module \in loaded[p] /\ RightName(option, e)
  BY ItsFile DEF File
<1>2. e.module \in Modules /\ e.function \in Naming!Range(Functions)
  BY <1>1 DEF Entries
<1>3. CASE option[e.function] # Naming!NoName
  <2>1. e.name = Naming!Explicit(option[e.function])
    BY <1>1, <1>3 DEF RightName
  <2>2. Naming!NoName # Naming!Main
    BY DEF Naming!NoName, Naming!Main
  <2> QED
    BY <1>1, <1>2, <1>3, <2>1, <2>2, NamesTell
<1>4. CASE option[e.function] = Naming!NoName
  <2>1. e.name = Naming!Derived(e.module, e.function) /\ e.module # Naming!Main
    BY <1>1, <1>4 DEF RightName
  <2> QED
    BY <1>1, <1>2, <1>4, <2>1, NamesTell
<1> QED
  BY <1>3, <1>4

LEMMA NamingAgrees ==
    ASSUME FileOptions, NamingInv
    PROVE  Naming!NeverAnotherFunction /\ Naming!KnownByTheWorker /\ Naming!NoMainInNames
<1>1. "client" \in Naming!Processes /\ "worker" \in Naming!Processes
  BY DEF Naming!Processes
<1>2. Naming!NoMainInNames
  BY EntrySays DEF Naming!NoMainInNames
<1>3. ASSUME Naming!Done, NEW t \in made["client"], Naming!OneClaim(t.name),
             NEW u \in tasks["worker"], u.name = t.name
      PROVE  u.function = t.function
  <2>1. CASE t.name.module = Naming!NoName
    <3>1. u.name = Naming!Explicit(option[u.function]) /\ option[u.function] # Naming!NoName
          /\ u.function \in Naming!Range(Functions)
      BY <1>1, <1>3, <2>1, EntrySays
    <3>2. PICK x \in loaded["client"] : TRUE
      BY <1>1, <1>3 DEF Naming!Done
    <3>3. PICK e \in made["client"] : e.function = u.function
      BY <1>1, <1>3, <3>1, <3>2, DoneMade
    <3>4. e.name = Naming!Explicit(option[u.function])
      BY <1>1, <3>1, <3>3, EntrySays
    <3> QED
      BY <1>3, <3>1, <3>3, <3>4 DEF Naming!OneClaim
  <2>2. CASE t.name.module # Naming!NoName
    <3>1. /\ t.name = Naming!Derived(t.module, t.function)
          /\ u.name = Naming!Derived(u.module, u.function)
      BY <1>1, <1>3, <2>2, EntrySays
    <3> QED
      BY <1>3, <3>1, NamesTell
  <2> QED
    BY <2>1, <2>2
<1>4. Naming!NeverAnotherFunction
  BY <1>3 DEF Naming!NeverAnotherFunction, Naming!Runs
<1>5. ASSUME Naming!Done, NEW t \in made["client"]
      PROVE  (\E u \in tasks["worker"] : u.name = t.name)
                 <=> t.name.module = Naming!NoName \/ t.name.module \in loaded["worker"]
  <2>1. ASSUME NEW u \in tasks["worker"], u.name = t.name, t.name.module # Naming!NoName
        PROVE  t.name.module \in loaded["worker"]
    BY <1>1, <2>1, EntrySays
  <2>2. ASSUME NEW x \in loaded["worker"],
               t.name.module # Naming!NoName => t.name.module = x
        PROVE  \E u \in tasks["worker"] : u.name = t.name
    <3>1. PICK e \in made["worker"] : e.module = x /\ e.function = t.function
      BY <1>1, <1>5, DoneMade, EntrySays
    <3>2. e.name = t.name
      <4>1. CASE t.name.module = Naming!NoName
        BY <1>1, <3>1, <4>1, EntrySays
      <4>2. CASE t.name.module # Naming!NoName
        <5>1. t.name = Naming!Derived(x, t.function) /\ option[t.function] = Naming!NoName
          BY <1>1, <2>2, <4>2, EntrySays
        <5>2. e.name = Naming!Derived(x, t.function)
          BY <1>1, <3>1, <5>1, EntrySays
        <5> QED
          BY <5>1, <5>2
      <4> QED
        BY <4>1, <4>2
    <3>3. PICK u \in tasks["worker"] : u.name = e.name
      BY <1>1, ItsFile DEF File
    <3> QED
      BY <3>2, <3>3
  <2>3. loaded["worker"] # {}
    BY <1>1, <1>5 DEF Naming!Done
  <2> QED
    BY <2>1, <2>2, <2>3
<1>6. Naming!KnownByTheWorker
  <2>1. \A n : Naming!Runs(n) # {} <=> \E u \in tasks["worker"] : u.name = n
    BY DEF Naming!Runs
  <2> QED
    BY <1>5, <2>1 DEF Naming!KnownByTheWorker
<1> QED
  BY <1>2, <1>4, <1>6

LEMMA NamingApart == ProgramSpec => Naming!Spec
<1>1. ProgramInit => Naming!Init
  BY DEF ProgramInit
<1>2. [ProgramNext]_programVars => [Naming!Next]_(Naming!vars)
  <2> SUFFICES ASSUME [ProgramNext]_programVars PROVE Naming!Next \/ UNCHANGED Naming!vars
    OBVIOUS
  <2>1. CASE NamingStep
    BY <2>1 DEF NamingStep
  <2>2. CASE Retries \/ SharedStep \/ SettingStep \/ CallStep \/ TargetStep \/ CommandStep
    BY <2>2 DEF Retries, SharedStep, SettingStep, CallStep, TargetStep, CommandStep, namingVars,
                Naming!vars
  <2>3. CASE UNCHANGED programVars
    BY <2>3 DEF programVars, namingVars, Naming!vars
  <2> QED
    BY <2>1, <2>2, <2>3 DEF ProgramNext
<1>3. ProgramSpec => ProgramInit /\ [][ProgramNext]_programVars
  BY PTL DEF ProgramSpec
<1> QED
  BY <1>1, <1>2, <1>3, PTL DEF Naming!Spec

\* Whatever functions a file defines, however its import names and the options of its tasks
\* are chosen and whichever of its imports starts another: a name that one function claims
\* is run by that function or by none, the worker knows exactly the tasks whose module it
\* loaded and those with a name of their own, and no name speaks of __main__.
THEOREM NamesMeanTheSame == ASSUME FileOptions PROVE ProgramSpec => []NamesAgree
<1>1. NamingInv => NamesAgree
  BY NamingAgrees DEF NamesAgree
<1>2. Naming!Spec => []NamingInv
  <2>1. Naming!Init => NamingInv
    BY NamingStart
  <2>2. NamingInv /\ [Naming!Next]_(Naming!vars) => NamingInv'
    BY NamingKeeps
  <2> QED
    BY <2>1, <2>2, PTL DEF Naming!Spec
<1> QED
  BY <1>1, <1>2, NamingApart, PTL

--------------------------------------------------------------------------------
(* The arguments of a call, for any signature that Python allows.          *)

\* A parameter is no keyword-only one if one that is given by position follows; a call
\* has finitely many arguments.
CallOptions ==
    /\ \E R : Signatures \subseteq Seq(R)
    /\ \A s \in Signatures : \A i, j \in DOMAIN s :
           i < j /\ s[i].kind = "keyword" => s[j].kind \notin {"posonly", "plain", "context"}
    /\ MaxArgs \in Nat

\* A signature of n parameters, of which the first h (none or one) are a context and the
\* first k can be given by position.
Laid(n, h, k) ==
    /\ n \in Nat /\ h \in {0, 1} /\ k \in Nat /\ h <= k /\ k <= n
    /\ Call!Params = 1..n /\ Call!Named = 1..n /\ Call!Positional = 1..k
    /\ Call!Fields = (h + 1)..n
    /\ Call!Cardinality(Call!Positional) = k /\ Call!Cardinality(Call!Fields) = n - h
    /\ \A p \in 1..n : Call!Kind(p) \notin {"star", "starstar"}
    /\ \A p \in 1..n : p > k => Call!Kind(p) = "keyword"
    /\ \A p \in 1..k : Call!Kind(p) # "keyword"
    /\ \A i \in 1..(n - h) : Call!FieldAt(i) = i + h
    /\ h = 1 <=> Call!HasContext

\* The instance counts as everybody does.
LEMMA SameCount == \A S : Call!Cardinality(S) = Cardinality(S)
BY DEF Call!Cardinality, Cardinality, Call!IsFiniteSet, IsFiniteSet

LEMMA SizeOf ==
    ASSUME NEW a \in Int, NEW b \in Int, a <= b + 1
    PROVE  Call!Cardinality(a..b) = b - a + 1
<1>1. CASE a <= b
  BY <1>1, FS_Interval, SameCount
<1>2. CASE a > b
  BY <1>2, FS_Interval, SameCount
<1> QED
  BY <1>1, <1>2

LEMMA Layout ==
    ASSUME CallOptions, sig \in Signatures, Call!Ordinary
    PROVE  \E n, h, k : Laid(n, h, k)
<1>1. PICK R : sig \in Seq(R)
  BY DEF CallOptions
<1>2. PICK n \in Nat : n = Len(sig) /\ DOMAIN sig = 1..n /\ Call!Params = 1..n
  BY <1>1 DEF Call!Params
<1>3. \A p \in 1..n : \/ sig[p].kind \in {"plain", "keyword"}
                      \/ p = 1 /\ sig[p].kind = "context"
  BY <1>2 DEF Call!Ordinary, Call!Kind
<1>4. \A i, j \in 1..n : i < j /\ sig[i].kind = "keyword" => sig[j].kind = "keyword"
  <2> SUFFICES ASSUME NEW i \in 1..n, NEW j \in 1..n, i < j, sig[i].kind = "keyword"
               PROVE  sig[j].kind = "keyword"
    OBVIOUS
  <2>1. sig[j].kind \notin {"posonly", "plain", "context"}
    BY <1>2 DEF CallOptions
  <2> QED
    BY <1>3, <2>1
<1>5. PICK h \in {0, 1} : /\ h = 1 <=> Call!HasContext
                          /\ h <= n
                          /\ \A p \in 1..n : sig[p].kind = "context" <=> p <= h
  <2>1. CASE Call!HasContext
    <3>1. n >= 1 /\ sig[1].kind = "context"
      <4>1. n # 0
        BY <1>1, <1>2, <2>1 DEF Call!HasContext
      <4> QED
        BY <4>1, <2>1 DEF Call!HasContext, Call!Kind
    <3>2. \A p \in 1..n : sig[p].kind = "context" <=> p <= 1
      BY <1>3, <3>1
    <3> QED
      BY <2>1, <3>1, <3>2
  <2>2. CASE ~Call!HasContext
    <3>1. \A p \in 1..n : sig[p].kind # "context"
      <4> SUFFICES ASSUME NEW p \in 1..n, sig[p].kind = "context" PROVE FALSE
        OBVIOUS
      <4>1. p = 1 /\ sig # <<>>
        BY <1>1, <1>2, <1>3
      <4> QED
        BY <2>2, <4>1 DEF Call!HasContext, Call!Kind
    <3>2. \A p \in 1..n : sig[p].kind = "context" <=> p <= 0
      BY <3>1
    <3> QED
      BY <2>2, <3>2
  <2> QED
    BY <2>1, <2>2
<1>6. PICK k \in Nat : k <= n /\ \A p \in 1..n : sig[p].kind = "keyword" <=> p > k
  <2> DEFINE S == {p \in Nat : p = n + 1 \/ (p \in 1..n /\ sig[p].kind = "keyword")}
  <2>1. PICK s \in S : \A p \in S : s <= p
    <3>1. n + 1 \in S /\ S \subseteq Nat
      OBVIOUS
    <3> HIDE DEF S
    <3> QED
      BY <3>1, Smallest
  <2>2. s \in 1..(n + 1)
    OBVIOUS
  <2>3. ASSUME NEW p \in 1..n PROVE sig[p].kind = "keyword" <=> p > s - 1
    <3>1. CASE p < s
      <4>1. p \notin S
        BY <2>1, <2>2, <3>1
      <4> QED
        BY <2>2, <3>1, <4>1
    <3>2. CASE p >= s
      <4>1. s \in 1..n /\ sig[s].kind = "keyword"
        BY <2>1, <2>2, <3>2
      <4> QED
        BY <1>4, <3>2, <4>1
    <3> QED
      BY <2>2, <3>1, <3>2
  <2>4. s - 1 \in Nat /\ s - 1 <= n
    BY <2>2
  <2> QED
    BY <2>3, <2>4
<1>7. h <= k
  <2>1. CASE h = 1
    <3>1. 1 \in 1..n /\ sig[1].kind = "context"
      BY <1>5, <2>1
    <3> QED
      BY <1>6, <2>1, <3>1
  <2> QED
    BY <2>1, <1>5
<1>8. Call!Positional = 1..k /\ Call!Named = 1..n /\ Call!Fields = (h + 1)..n
  <2>1. Call!Positional = {p \in 1..n : sig[p].kind \in {"posonly", "plain", "context"}}
    BY <1>2 DEF Call!Positional, Call!ParamKinds, Call!Kind
  <2>2. Call!Named = {p \in 1..n : sig[p].kind \in {"plain", "context", "keyword"}}
    BY <1>2 DEF Call!Named, Call!ParamKinds, Call!Kind
  <2>3. Call!Fields = {p \in 1..n : sig[p].kind # "context"}
    BY <1>2 DEF Call!Fields, Call!ParamKinds, Call!Kind
  <2>4. \A p \in 1..n : sig[p].kind \in {"posonly", "plain", "context"} <=> p <= k
    BY <1>3, <1>6
  <2>5. Call!Positional = 1..k
    BY <1>6, <2>1, <2>4
  <2>6. Call!Named = 1..n
    BY <1>3, <2>2
  <2>7. Call!Fields = (h + 1)..n
    BY <1>5, <2>3
  <2> QED
    BY <2>5, <2>6, <2>7
<1>9. Call!Cardinality(Call!Positional) = k /\ Call!Cardinality(Call!Fields) = n - h
  <2>1. Call!Cardinality(1..k) = k
    BY SizeOf
  <2>2. Call!Cardinality((h + 1)..n) = n - h
    BY <1>5, SizeOf
  <2> QED
    BY <1>8, <2>1, <2>2
<1>10. \A i \in 1..(n - h) : Call!FieldAt(i) = i + h
  <2> SUFFICES ASSUME NEW i \in 1..(n - h) PROVE Call!FieldAt(i) = i + h
    OBVIOUS
  <2>1. ASSUME NEW p \in (h + 1)..n PROVE Call!Cardinality({q \in Call!Fields : q <= p}) = p - h
    <3>1. {q \in Call!Fields : q <= p} = (h + 1)..p
      BY <1>8
    <3>2. p \in Int /\ h + 1 \in Int /\ h + 1 <= p + 1 /\ p - (h + 1) + 1 = p - h
      OBVIOUS
    <3>3. Call!Cardinality((h + 1)..p) = p - (h + 1) + 1
      BY <3>2, SizeOf
    <3> QED
      BY <3>1, <3>2, <3>3
  <2>2. i + h \in (h + 1)..n
    OBVIOUS
  <2>3. \A p \in (h + 1)..n : p - h = i <=> p = i + h
    OBVIOUS
  <2>4. \A p \in Call!Fields : Call!Cardinality({q \in Call!Fields : q <= p}) = i <=> p = i + h
    BY <1>8, <2>1, <2>3
  <2>5. \E p \in Call!Fields : Call!Cardinality({q \in Call!Fields : q <= p}) = i
    BY <1>8, <2>2, <2>4
  <2>6. /\ Call!FieldAt(i) \in Call!Fields
        /\ Call!Cardinality({q \in Call!Fields : q <= Call!FieldAt(i)}) = i
    BY <2>5, Zenon DEF Call!FieldAt
  <2> QED
    BY <2>4, <2>6
<1>11. /\ \A p \in 1..n : Call!Kind(p) \notin {"star", "starstar"}
       /\ \A p \in 1..n : p > k => Call!Kind(p) = "keyword"
       /\ \A p \in 1..k : Call!Kind(p) # "keyword"
  BY <1>3, <1>6 DEF Call!Kind
<1> QED
  BY <1>2, <1>5, <1>6, <1>7, <1>8, <1>9, <1>10, <1>11 DEF Laid

\* What Python takes and binds when the parameters are laid out like this.
LEMMA TakesIs ==
    ASSUME NEW n, NEW h, NEW k, Laid(n, h, k), NEW given, Len(given) \in Nat, NEW named
    PROVE  Call!PythonTakes(given, named) <=>
               /\ Len(given) <= k /\ DOMAIN named \subseteq 1..n
               /\ \A p \in 1..Len(given) : p \notin DOMAIN named
               /\ \A p \in 1..n : p > Len(given) /\ p \notin DOMAIN named => sig[p].default
<1>1. /\ n \in Nat /\ k \in Nat /\ k <= n /\ Call!Params = 1..n
      /\ Call!Named = 1..n /\ Call!Positional = 1..k /\ Call!Cardinality(Call!Positional) = k
      /\ \A p \in 1..n : Call!Kind(p) \notin {"star", "starstar"}
  BY DEF Laid
<1>2. Call!ParamKinds({"star"}) = {} /\ Call!ParamKinds({"starstar"}) = {}
  BY <1>1 DEF Call!ParamKinds
<1>3. Call!ByPosition(given) = {p \in 1..k : p <= Len(given)}
  BY <1>1 DEF Call!ByPosition
<1>4. Call!ByKeyword(named) = 1..n \cap DOMAIN named
  BY <1>1 DEF Call!ByKeyword
<1>5. Call!PythonTakes(given, named) <=>
          /\ ~(Len(given) > k) /\ DOMAIN named \subseteq 1..n
          /\ {p \in 1..k : p <= Len(given)} \cap (1..n \cap DOMAIN named) = {}
          /\ \A p \in 1..n \ ({p \in 1..k : p <= Len(given)} \cup (1..n \cap DOMAIN named)) :
                 sig[p].default
  <2>1. \A p \in Call!Params : ~(Call!Kind(p) \in {"star", "starstar"})
    BY <1>1
  <2> QED
    BY <1>1, <1>2, <1>3, <1>4, <2>1 DEF Call!PythonTakes
<1>6. CASE Len(given) <= k
  <2>1. \A p \in 1..k : p \in 1..n
    BY <1>1
  <2>2. {p \in 1..k : p <= Len(given)} = 1..Len(given)
    BY <1>1, <1>6
  <2>3. 1..Len(given) \subseteq 1..n
    BY <1>1, <1>6
  <2>4. (1..Len(given)) \cap (1..n \cap DOMAIN named) = {} <=>
            \A p \in 1..Len(given) : p \notin DOMAIN named
    BY <2>3
  <2>5. \A p \in 1..n : p \in 1..Len(given) <=> ~(p > Len(given))
    BY <1>1
  <2>6. (\A p \in 1..n \ (1..Len(given) \cup (1..n \cap DOMAIN named)) : sig[p].default) <=>
            \A p \in 1..n : p > Len(given) /\ p \notin DOMAIN named => sig[p].default
    BY <2>5
  <2>7. ~(Len(given) > k)
    BY <1>1, <1>6
  <2> QED
    BY <1>5, <1>6, <2>2, <2>4, <2>6, <2>7
<1>7. CASE ~(Len(given) <= k)
  <2>1. Len(given) > k
    BY <1>1, <1>7
  <2> QED
    BY <1>5, <1>7, <2>1
<1> QED
  BY <1>6, <1>7

LEMMA BindsIs ==
    ASSUME NEW n, NEW h, NEW k, Laid(n, h, k), NEW given, Len(given) \in Nat, Len(given) <= k,
           NEW named, \A p \in 1..Len(given) : p \notin DOMAIN named
    PROVE  /\ DOMAIN Call!PythonBinds(given, named) = 1..n
           /\ Call!PythonBinds(given, named) =
                  [p \in 1..n |-> IF p <= Len(given) THEN given[p]
                                  ELSE IF p \in DOMAIN named THEN named[p] ELSE Call!Default]
<1>1. /\ n \in Nat /\ k \in Nat /\ k <= n /\ Call!Params = 1..n
      /\ Call!Named = 1..n /\ Call!Positional = 1..k
      /\ \A p \in 1..n : Call!Kind(p) \notin {"star", "starstar"}
  BY DEF Laid
<1>2. \A p \in 1..n : p \in Call!ByPosition(given) <=> p <= Len(given)
  BY <1>1 DEF Call!ByPosition
<1>3. \A p \in 1..n : p \in Call!ByKeyword(named) <=> p \in DOMAIN named
  BY <1>1 DEF Call!ByKeyword
<1>4. Call!PythonBinds(given, named) =
          [p \in 1..n |-> CASE Call!Kind(p) \in {"star", "starstar"} -> Call!Rest
                            [] p \in Call!ByPosition(given) -> given[p]
                            [] p \in Call!ByKeyword(named) -> named[p]
                            [] OTHER -> Call!Default]
  BY <1>1 DEF Call!PythonBinds
<1>5. ASSUME NEW p \in 1..n
      PROVE  Call!PythonBinds(given, named)[p] =
                 IF p <= Len(given) THEN given[p]
                 ELSE IF p \in DOMAIN named THEN named[p] ELSE Call!Default
  <2>1. Call!PythonBinds(given, named)[p] =
            CASE Call!Kind(p) \in {"star", "starstar"} -> Call!Rest
              [] p \in Call!ByPosition(given) -> given[p]
              [] p \in Call!ByKeyword(named) -> named[p]
              [] OTHER -> Call!Default
    BY <1>4
  <2>2. Call!Kind(p) \notin {"star", "starstar"}
    BY <1>1
  <2>3. p <= Len(given) => p \notin DOMAIN named
    OBVIOUS
  <2>4. CASE p <= Len(given) /\ p \notin DOMAIN named
    BY <1>2, <1>3, <2>1, <2>2, <2>4
  <2>5. CASE ~(p <= Len(given)) /\ p \in DOMAIN named
    BY <1>2, <1>3, <2>1, <2>2, <2>5
  <2>6. CASE ~(p <= Len(given)) /\ p \notin DOMAIN named
    BY <1>2, <1>3, <2>1, <2>2, <2>6
  <2> QED
    BY <2>3, <2>4, <2>5, <2>6
<1> QED
  BY <1>4, <1>5

\* The input model as a function of the fields and the call.
BoundOf(F, a, K) ==
    LET At(i) == CHOOSE p \in F : Call!Cardinality({q \in F : q <= p}) = i IN
    [p \in {At(i) : i \in 1..(IF a < Call!Cardinality(F) THEN a ELSE Call!Cardinality(F))} \cup K |->
        IF p \in K THEN Call!Key(p)
        ELSE Call!Arg(CHOOSE i \in 1..a : i <= Call!Cardinality(F) /\ At(i) = p)]

Inputs == <<sig, validates, args, keys, valid>>
Runs == Call!PythonTakes(Call!Given, Call!Passed)
Binding == Call!PythonBinds(Call!Given, Call!Passed)

LEMMA InputsStay ==
    ASSUME UNCHANGED Inputs
    PROVE  /\ Call!Params' = Call!Params /\ (Call!ModelTakes' <=> Call!ModelTakes)
           /\ (Runs' <=> Runs) /\ Binding' = Binding
<1>1. sig' = sig /\ validates' = validates /\ args' = args /\ keys' = keys /\ valid' = valid
  BY DEF Inputs
<1>2. Call!Params' = Call!Params /\ Call!Front' = Call!Front
  BY <1>1 DEF Call!Params, Call!Front, Call!HasContext, Call!Kind
<1>3. Call!Fields' = Call!Fields
  BY <1>1, <1>2 DEF Call!Fields, Call!ParamKinds, Call!Kind
<1>4. Call!Bound' = Call!Bound
  <2>1. Call!Bound = BoundOf(Call!Fields, args, keys)
    BY Zenon DEF Call!Bound, Call!FieldAt, BoundOf
  <2>2. Call!Bound' = BoundOf(Call!Fields', args', keys')
    BY Zenon DEF Call!Bound, Call!FieldAt, BoundOf
  <2> QED
    BY <1>1, <1>3, <2>1, <2>2
<1>5. Call!Dumped' = Call!Dumped
  BY <1>3, <1>4 DEF Call!Dumped
<1>6. Call!ModelTakes' <=> Call!ModelTakes
  BY <1>1, <1>3, <1>4 DEF Call!ModelTakes
<1>7. Call!Given' = Call!Given
  BY <1>1, <1>2 DEF Call!Given
<1>8. Call!Passed' = Call!Passed
  BY <1>1, <1>5 DEF Call!Passed
<1>9. \A K : Call!ParamKinds(K)' = Call!ParamKinds(K)
  BY <1>1, <1>2 DEF Call!ParamKinds, Call!Kind
<1>10. Call!Positional' = Call!Positional /\ Call!Named' = Call!Named
  BY <1>9 DEF Call!Positional, Call!Named
<1>11. Runs' <=> Runs
  BY <1>1, <1>2, <1>7, <1>8, <1>9, <1>10
     DEF Runs, Call!PythonTakes, Call!ByPosition, Call!ByKeyword, Call!Kind
<1>12. Binding' = Binding
  BY <1>1, <1>2, <1>7, <1>8, <1>10
     DEF Binding, Call!PythonBinds, Call!ByPosition, Call!ByKeyword, Call!Kind
<1> QED
  BY <1>2, <1>6, <1>11, <1>12

\* A call is refused for what its model says, and what runs is bound as Python binds it.
CallInv ==
    /\ sig \in Signatures /\ validates \in BOOLEAN /\ valid \in BOOLEAN
    /\ args \in 0..MaxArgs /\ keys \subseteq Call!Params \cup {Call!Unknown}
    /\ call \in {"calling", "refused", "queued", "ran", "TypeError"}
    /\ call = "refused" => validates /\ ~Call!ModelTakes
    /\ call \in {"queued", "ran", "TypeError"} => (validates => Call!ModelTakes)
    /\ call = "ran" => Runs /\ got = Binding
    /\ call # "ran" => got = Call!Nothing
    /\ call = "TypeError" => ~Runs

LEMMA CallStart == Call!Init => CallInv
BY DEF Call!Init, CallInv

LEMMA CallKeeps == CallInv /\ [Call!Next]_(Call!vars) => CallInv'
<1> SUFFICES ASSUME CallInv, [Call!Next]_(Call!vars) PROVE CallInv'
  OBVIOUS
<1>1. UNCHANGED Inputs
  BY DEF Call!Next, Call!Dispatch, Call!Execute, Call!vars, Inputs
<1>2. /\ Call!Params' = Call!Params /\ (Call!ModelTakes' <=> Call!ModelTakes)
      /\ (Runs' <=> Runs) /\ Binding' = Binding
  BY <1>1, InputsStay
<1>3. /\ sig' \in Signatures /\ validates' \in BOOLEAN /\ valid' \in BOOLEAN
      /\ args' \in 0..MaxArgs /\ keys' \subseteq Call!Params' \cup {Call!Unknown}
  BY <1>1, <1>2 DEF CallInv, Inputs
<1>4. validates' = validates
  BY <1>1 DEF Inputs
<1>5. CASE Call!Dispatch
  <2>1. call = "calling" /\ call' = (IF validates /\ ~Call!ModelTakes THEN "refused" ELSE "queued")
        /\ got' = got
    BY <1>5 DEF Call!Dispatch
  <2> QED
    BY <1>2, <1>3, <1>4, <2>1 DEF CallInv
<1>6. CASE Call!Execute
  <2>1. call = "queued" /\ (validates => Call!ModelTakes)
    BY <1>6 DEF Call!Execute, CallInv
  <2>2. call' = IF Runs THEN "ran" ELSE "TypeError"
    BY <1>6, <2>1 DEF Call!Execute, Runs
  <2>3. got' = IF call' = "ran" THEN Binding ELSE Call!Nothing
    BY <1>6 DEF Call!Execute, Binding
  <2> QED
    BY <1>2, <1>3, <1>4, <2>1, <2>2, <2>3 DEF CallInv
<1>7. CASE UNCHANGED Call!vars
  <2>1. call' = call /\ got' = got
    BY <1>7 DEF Call!vars
  <2> QED
    BY <1>2, <1>3, <1>4, <2>1 DEF CallInv
<1> QED
  BY <1>5, <1>6, <1>7 DEF Call!Next

\* Values in the order they came, the context in front.
LEMMA Fronted ==
    ASSUME NEW h \in {0, 1}, h = 1 <=> Call!HasContext, args \in Nat,
           NEW T, NEW a \in [1..args -> T]
    PROVE  /\ Len(Call!Front \o a) = args + h
           /\ \A p \in 1..h : (Call!Front \o a)[p] = Call!Context
           /\ \A p \in (h + 1)..(h + args) : (Call!Front \o a)[p] = a[p - h]
<1> DEFINE U == T \cup {Call!Context}
<1>1. a \in Seq(U) /\ Len(a) = args
  <2>1. a \in [1..args -> U]
    OBVIOUS
  <2> QED
    BY <2>1
<1>2. Call!Context \in U
  OBVIOUS
<1> HIDE DEF U
<1>3. CASE h = 1
  <2> DEFINE b == <<Call!Context>>
  <2>1. Call!Front = b
    BY <1>3 DEF Call!Front
  <2>2. b \in Seq(U) /\ Len(b) = 1 /\ b[1] = Call!Context
    BY <1>2
  <2> HIDE DEF b
  <2>3. Len(b \o a) = args + 1 /\ \A p \in 1..(args + 1) :
            (b \o a)[p] = IF p <= 1 THEN b[p] ELSE a[p - 1]
    <3>1. \A x, y \in Seq(U) :
              /\ Len(x \o y) = Len(x) + Len(y)
              /\ \A p \in 1..(Len(x) + Len(y)) :
                     (x \o y)[p] = IF p <= Len(x) THEN x[p] ELSE y[p - Len(x)]
      BY ConcatProperties
    <3>2. /\ Len(b \o a) = Len(b) + Len(a)
          /\ \A p \in 1..(Len(b) + Len(a)) :
                (b \o a)[p] = IF p <= Len(b) THEN b[p] ELSE a[p - Len(b)]
      BY <1>1, <2>2, <3>1
    <3> QED
      BY <1>1, <2>2, <3>2
  <2>4. \A p \in 2..(1 + args) : p - 1 \in 1..args /\ p \in 1..(args + 1) /\ ~(p <= 1)
    OBVIOUS
  <2>5. \A p \in 2..(1 + args) : (b \o a)[p] = a[p - 1]
    BY <2>3, <2>4
  <2>6. (b \o a)[1] = Call!Context
    BY <2>2, <2>3
  <2>7. h = 1 /\ h + 1 = 2 /\ 1..h = {1}
    BY <1>3
  <2> QED
    BY <2>1, <2>3, <2>5, <2>6, <2>7
<1>4. CASE h = 0
  <2>1. Call!Front = <<>>
    BY <1>4 DEF Call!Front
  <2>2. <<>> \o a = a
    BY <1>1
  <2> QED
    BY <1>1, <1>4, <2>1, <2>2
<1> QED
  BY <1>3, <1>4

\* What Python would be given.
LEMMA MeantIs ==
    ASSUME NEW h \in {0, 1}, h = 1 <=> Call!HasContext, args \in Nat
    PROVE  /\ Len(Call!Meant) = args + h
           /\ \A p \in 1..h : Call!Meant[p] = Call!Context
           /\ \A p \in (h + 1)..(h + args) : Call!Meant[p] = Call!Arg(p - h)
<1> DEFINE a == [i \in 1..args |-> Call!Arg(i)]
           T == {Call!Arg(i) : i \in 1..args}
<1>1. a \in [1..args -> T] /\ Call!Meant = Call!Front \o a
  BY DEF Call!Meant
<1>2. \A p \in (h + 1)..(h + args) : a[p - h] = Call!Arg(p - h)
  <2>1. \A p \in (h + 1)..(h + args) : p - h \in 1..args
    OBVIOUS
  <2> QED
    BY <2>1
<1> HIDE DEF a, T
<1>3. /\ Len(Call!Front \o a) = args + h
      /\ \A p \in 1..h : (Call!Front \o a)[p] = Call!Context
      /\ \A p \in (h + 1)..(h + args) : (Call!Front \o a)[p] = a[p - h]
  BY <1>1, Fronted
<1> QED
  BY <1>1, <1>2, <1>3

\* Without validation the function is given just that.
LEMMA RawIsMeant ==
    ASSUME ~validates
    PROVE  Call!Given = Call!Meant /\ Call!Passed = Call!MeantKeys
BY DEF Call!Given, Call!Passed, Call!Meant, Call!MeantKeys

\* The form of a value does not tell where it came from.
LEMMA SameOrigin ==
    /\ \A i : Call!Origin(Call!AsData(Call!Arg(i))) = Call!Origin(Call!Arg(i))
    /\ \A p : Call!Origin(Call!AsData(Call!Key(p))) = Call!Origin(Call!Key(p))
    /\ Call!Origin(Call!AsData(Call!Default)) = Call!Origin(Call!Default)
BY DEF Call!Origin, Call!AsData, Call!Arg, Call!Key, Call!Default, Call!Value

\* With validation only the context comes by position.
LEMMA GivenIs ==
    ASSUME NEW h \in {0, 1}, h = 1 <=> Call!HasContext, validates
    PROVE  Len(Call!Given) = h /\ \A p \in 1..h : Call!Given[p] = Call!Context
<1>1. CASE h = 1
  <2>1. Call!Given = <<Call!Context>> \o <<>>
    BY <1>1 DEF Call!Given, Call!Front
  <2> QED
    BY <1>1, <2>1
<1>2. CASE h = 0
  <2>1. Call!Given = <<>> \o <<>>
    BY <1>2 DEF Call!Given, Call!Front
  <2> QED
    BY <1>2, <2>1
<1> QED
  BY <1>1, <1>2

\* The input model: m arguments find a field.
LEMMA BoundIs ==
    ASSUME NEW n, NEW h, NEW k, Laid(n, h, k), args \in Nat,
           NEW m, m = (IF args < n - h THEN args ELSE n - h)
    PROVE  /\ DOMAIN Call!Bound = (h + 1)..(h + m) \cup keys
           /\ \A p \in keys : Call!Bound[p] = Call!Key(p)
           /\ \A p \in (h + 1)..(h + m) : p \notin keys => Call!Bound[p] = Call!Arg(p - h)
<1>1. /\ n \in Nat /\ h \in {0, 1} /\ k \in Nat /\ h <= k /\ k <= n
      /\ Call!Cardinality(Call!Fields) = n - h
      /\ \A i \in 1..(n - h) : Call!FieldAt(i) = i + h
  BY DEF Laid
<1>2. m \in Nat /\ m <= n - h /\ m <= args
  BY <1>1
<1>3. {Call!FieldAt(i) : i \in 1..m} = (h + 1)..(h + m)
  <2>1. \A i \in 1..m : Call!FieldAt(i) = i + h
    BY <1>1, <1>2
  <2>2. \A p \in (h + 1)..(h + m) : p - h \in 1..m /\ p = (p - h) + h
    BY <1>1, <1>2
  <2>3. \A p \in (h + 1)..(h + m) : p = Call!FieldAt(p - h)
    BY <2>1, <2>2
  <2>4. \A i \in 1..m : i + h \in (h + 1)..(h + m)
    BY <1>1, <1>2
  <2> QED
    BY <2>1, <2>2, <2>3, <2>4
<1>4. Call!Bound =
          [p \in {Call!FieldAt(i) : i \in 1..m} \cup keys |->
              IF p \in keys THEN Call!Key(p)
              ELSE Call!Arg(CHOOSE i \in 1..args : i <= n - h /\ Call!FieldAt(i) = p)]
  BY <1>1 DEF Call!Bound
<1>5. ASSUME NEW p \in (h + 1)..(h + m)
      PROVE  (CHOOSE i \in 1..args : i <= n - h /\ Call!FieldAt(i) = p) = p - h
  <2>1. \A i \in 1..args : i <= n - h /\ Call!FieldAt(i) = p <=> i = p - h
    <3>1. \A i \in 1..args : i <= n - h => Call!FieldAt(i) = i + h
      BY <1>1
    <3>2. p - h \in 1..args /\ p - h <= n - h /\ (p - h) + h = p
      BY <1>1, <1>2
    <3>3. \A i \in 1..args : i + h = p <=> i = p - h
      BY <1>1
    <3> QED
      BY <3>1, <3>2, <3>3
  <2>2. p - h \in 1..args
    BY <1>1, <1>2
  <2>3. \E i \in 1..args : i <= n - h /\ Call!FieldAt(i) = p
    BY <2>1, <2>2
  <2> DEFINE c == CHOOSE i \in 1..args : i <= n - h /\ Call!FieldAt(i) = p
  <2>4. c \in 1..args /\ c <= n - h /\ Call!FieldAt(c) = p
    BY <2>3, Zenon
  <2> HIDE DEF c
  <2>5. c = p - h
    BY <2>1, <2>4
  <2> QED
    BY <2>5 DEF c
<1>6. ASSUME NEW p \in (h + 1)..(h + m), p \notin keys PROVE Call!Bound[p] = Call!Arg(p - h)
  BY <1>3, <1>4, <1>5, <1>6
<1> QED
  BY <1>3, <1>4, <1>6

\* What the input model, Python and the worker make of a call, all in terms of n, h and k.
LEMMA CallIs ==
    ASSUME CallOptions, CallInv, NEW n, NEW h, NEW k, Laid(n, h, k),
           NEW m, m = (IF args < n - h THEN args ELSE n - h)
    PROVE  /\ n \in Nat /\ h \in {0, 1} /\ k \in Nat /\ h <= k /\ k <= n
           /\ args \in Nat /\ m \in Nat /\ m <= args /\ h + m <= n /\ keys \subseteq 0..n
           /\ Call!ModelTakes <=>
                  /\ valid /\ keys \subseteq (h + 1)..n
                  /\ \A p \in (h + 1)..n : p > h + m /\ p \notin keys => sig[p].default
           /\ Call!PythonAgrees <=>
                  /\ args + h <= k /\ keys \subseteq 1..n
                  /\ \A p \in 1..(args + h) : p \notin keys
                  /\ \A p \in 1..n : p > args + h /\ p \notin keys => sig[p].default
<1>1. /\ n \in Nat /\ h \in {0, 1} /\ k \in Nat /\ h <= k /\ k <= n
      /\ Call!Params = 1..n /\ Call!Fields = (h + 1)..n /\ (h = 1 <=> Call!HasContext)
  BY DEF Laid
<1>2. args \in Nat /\ keys \subseteq 0..n
  BY <1>1 DEF CallInv, CallOptions, Call!Unknown
<1>3. m \in Nat /\ m <= args /\ h + m <= n
  BY <1>1, <1>2
<1>4. DOMAIN Call!Bound = (h + 1)..(h + m) \cup keys
  BY <1>2, BoundIs
<1>5. DOMAIN Call!Bound \subseteq Call!Fields <=> keys \subseteq (h + 1)..n
  <2>1. (h + 1)..(h + m) \subseteq (h + 1)..n
    BY <1>1, <1>3
  <2> QED
    BY <1>1, <1>4, <2>1
<1>6. (\A p \in Call!Fields \ DOMAIN Call!Bound : sig[p].default)
          <=> \A p \in (h + 1)..n : p > h + m /\ p \notin keys => sig[p].default
  <2>1. \A p \in (h + 1)..n : p \in (h + 1)..(h + m) <=> ~(p > h + m)
    BY <1>1, <1>3
  <2> QED
    BY <1>1, <1>4, <2>1
<1>7. Len(Call!Meant) = args + h
  BY <1>1, <1>2, MeantIs
<1>8. DOMAIN Call!MeantKeys = keys
  BY DEF Call!MeantKeys
<1>9. Call!PythonAgrees <=>
          /\ args + h <= k /\ keys \subseteq 1..n
          /\ \A p \in 1..(args + h) : p \notin keys
          /\ \A p \in 1..n : p > args + h /\ p \notin keys => sig[p].default
  <2>1. Len(Call!Meant) \in Nat
    BY <1>1, <1>2, <1>7
  <2>2. Call!PythonTakes(Call!Meant, Call!MeantKeys) <=>
            /\ Len(Call!Meant) <= k /\ DOMAIN Call!MeantKeys \subseteq 1..n
            /\ \A p \in 1..Len(Call!Meant) : p \notin DOMAIN Call!MeantKeys
            /\ \A p \in 1..n : p > Len(Call!Meant) /\ p \notin DOMAIN Call!MeantKeys
                                   => sig[p].default
    BY <2>1, TakesIs
  <2> QED
    BY <1>7, <1>8, <2>2 DEF Call!PythonAgrees
<1>10. Call!ModelTakes <=>
           /\ valid /\ keys \subseteq (h + 1)..n
           /\ \A p \in (h + 1)..n : p > h + m /\ p \notin keys => sig[p].default
  BY <1>5, <1>6 DEF Call!ModelTakes
<1> QED
  BY <1>1, <1>2, <1>3, <1>9, <1>10

\* A validated call that the model takes runs, every field by keyword.
LEMMA ValidatedRuns ==
    ASSUME CallOptions, CallInv, NEW n, NEW h, NEW k, Laid(n, h, k), validates, Call!ModelTakes
    PROVE  /\ Runs
           /\ Binding = [p \in 1..n |-> IF p <= h THEN Call!Context ELSE Call!Dumped[p]]
<1>1. /\ n \in Nat /\ h \in {0, 1} /\ k \in Nat /\ h <= k /\ k <= n
      /\ Call!Fields = (h + 1)..n /\ (h = 1 <=> Call!HasContext)
  BY DEF Laid
<1>2. Len(Call!Given) = h /\ \A p \in 1..h : Call!Given[p] = Call!Context
  BY <1>1, GivenIs
<1>3. Call!Passed = Call!Dumped /\ DOMAIN Call!Passed = (h + 1)..n
  BY <1>1 DEF Call!Passed, Call!Dumped
<1>4. Len(Call!Given) \in Nat /\ Len(Call!Given) <= k
  BY <1>1, <1>2
<1>5. \A p \in 1..Len(Call!Given) : p \notin DOMAIN Call!Passed
  BY <1>1, <1>2, <1>3
<1>6. \A p \in 1..n : p > Len(Call!Given) <=> p \in DOMAIN Call!Passed
  BY <1>1, <1>2, <1>3
<1>7. Runs
  <2>1. DOMAIN Call!Passed \subseteq 1..n
    BY <1>1, <1>3
  <2> QED
    BY <1>4, <1>5, <1>6, <2>1, TakesIs DEF Runs
<1>8. Binding = [p \in 1..n |->
                     IF p <= Len(Call!Given) THEN Call!Given[p]
                     ELSE IF p \in DOMAIN Call!Passed THEN Call!Passed[p] ELSE Call!Default]
  BY <1>4, <1>5, BindsIs DEF Binding
<1>9. \A p \in 1..n : (IF p <= Len(Call!Given) THEN Call!Given[p]
                       ELSE IF p \in DOMAIN Call!Passed THEN Call!Passed[p] ELSE Call!Default)
                      = IF p <= h THEN Call!Context ELSE Call!Dumped[p]
  <2>1. \A p \in 1..n : p <= h => p \in 1..h
    BY <1>1
  <2> QED
    BY <1>2, <1>3, <1>6, <2>1
<1> QED
  BY <1>7, <1>8, <1>9

\* What Python binds, where it takes the call.
LEMMA PythonBindsIs ==
    ASSUME CallOptions, CallInv, NEW n, NEW h, NEW k, Laid(n, h, k), Call!PythonAgrees
    PROVE  /\ args \in Nat /\ args + h <= k /\ keys \subseteq 1..n
           /\ \A p \in 1..(args + h) : p \notin keys
           /\ \A p \in 1..n :
                  Call!PythonBinds(Call!Meant, Call!MeantKeys)[p] =
                      IF p <= h THEN Call!Context
                      ELSE IF p <= args + h THEN Call!Arg(p - h)
                      ELSE IF p \in keys THEN Call!Key(p) ELSE Call!Default
<1>1. PICK m : m = (IF args < n - h THEN args ELSE n - h)
  OBVIOUS
<1>2. /\ n \in Nat /\ h \in {0, 1} /\ k \in Nat /\ h <= k /\ k <= n
      /\ args \in Nat /\ args + h <= k /\ \A p \in 1..(args + h) : p \notin keys
      /\ keys \subseteq 1..n /\ (h = 1 <=> Call!HasContext)
  BY <1>1, CallIs DEF Laid
<1>3. /\ Len(Call!Meant) = args + h
      /\ \A p \in 1..h : Call!Meant[p] = Call!Context
      /\ \A p \in (h + 1)..(h + args) : Call!Meant[p] = Call!Arg(p - h)
  BY <1>2, MeantIs
<1>4. DOMAIN Call!MeantKeys = keys /\ \A p \in keys : Call!MeantKeys[p] = Call!Key(p)
  BY DEF Call!MeantKeys
<1>5. Call!PythonBinds(Call!Meant, Call!MeantKeys) =
          [p \in 1..n |-> IF p <= Len(Call!Meant) THEN Call!Meant[p]
                          ELSE IF p \in DOMAIN Call!MeantKeys THEN Call!MeantKeys[p]
                          ELSE Call!Default]
  <2>1. Len(Call!Meant) \in Nat /\ Len(Call!Meant) <= k
    BY <1>2, <1>3
  <2>2. \A p \in 1..Len(Call!Meant) : p \notin DOMAIN Call!MeantKeys
    BY <1>2, <1>3, <1>4
  <2> QED
    BY <2>1, <2>2, BindsIs
<1>6. ASSUME NEW p \in 1..n
      PROVE  Call!PythonBinds(Call!Meant, Call!MeantKeys)[p] =
                 IF p <= h THEN Call!Context
                 ELSE IF p <= args + h THEN Call!Arg(p - h)
                 ELSE IF p \in keys THEN Call!Key(p) ELSE Call!Default
  <2>1. CASE p <= h
    <3>1. p \in 1..h /\ p <= args + h
      BY <1>2, <2>1
    <3> QED
      BY <1>3, <1>5, <2>1, <3>1
  <2>2. CASE p > h /\ p <= args + h
    <3>1. p \in (h + 1)..(h + args) /\ ~(p <= h)
      BY <1>2, <2>2
    <3> QED
      BY <1>3, <1>5, <2>2, <3>1
  <2>3. CASE p > args + h
    <3>1. ~(p <= h) /\ ~(p <= args + h)
      BY <1>2, <2>3
    <3> QED
      BY <1>3, <1>4, <1>5, <3>1
  <2> QED
    BY <1>2, <2>1, <2>2, <2>3
<1> QED
  BY <1>2, <1>6

\* A call that is not validated is the call that was meant.
LEMMA RawBinds ==
    ASSUME ~validates
    PROVE  /\ Runs <=> Call!PythonAgrees
           /\ Binding = Call!PythonBinds(Call!Meant, Call!MeantKeys)
BY RawIsMeant DEF Runs, Binding, Call!PythonAgrees

\* A call that runs has its values in the form that the validation says.
LEMMA FormIs ==
    ASSUME CallOptions, CallInv, NEW n, NEW h, NEW k, Laid(n, h, k), Runs,
           validates => Call!ModelTakes, NEW p \in Call!Fields
    PROVE  Binding[p].form = IF validates THEN "data" ELSE "object"
<1>1. /\ n \in Nat /\ h \in {0, 1} /\ Call!Fields = (h + 1)..n
      /\ p \in 1..n /\ ~(p <= h)
  BY DEF Laid
<1>2. /\ \A i : Call!Arg(i).form = "object" /\ Call!Key(i).form = "object"
      /\ Call!Default.form = "object"
      /\ \A i : Call!AsData(Call!Arg(i)).form = "data" /\ Call!AsData(Call!Key(i)).form = "data"
      /\ Call!AsData(Call!Default).form = "data"
  BY DEF Call!Arg, Call!Key, Call!Default, Call!Value, Call!AsData
<1>3. CASE ~validates
  <2>1. Binding[p] = IF p <= h THEN Call!Context
                     ELSE IF p <= args + h THEN Call!Arg(p - h)
                     ELSE IF p \in keys THEN Call!Key(p) ELSE Call!Default
    BY <1>1, <1>3, RawBinds, PythonBindsIs
  <2>2. \/ Binding[p] = Call!Arg(p - h) \/ Binding[p] = Call!Key(p)
        \/ Binding[p] = Call!Default
    BY <1>1, <2>1
  <2> QED
    BY <1>2, <1>3, <2>2
<1>4. CASE validates
  <2>1. Binding[p] = Call!Dumped[p]
    BY <1>1, <1>4, ValidatedRuns
  <2>2. Call!Dumped[p] =
            Call!AsData(IF p \in DOMAIN Call!Bound THEN Call!Bound[p] ELSE Call!Default)
    BY DEF Call!Dumped
  <2>3. p \in DOMAIN Call!Bound =>
            \E i : Call!Bound[p] = Call!Arg(i) \/ Call!Bound[p] = Call!Key(i)
    BY DEF Call!Bound
  <2> QED
    BY <1>2, <1>4, <2>1, <2>2, <2>3
<1> QED
  BY <1>3, <1>4

\* So does a validated call, where Python takes it.
LEMMA BothBind ==
    ASSUME CallOptions, CallInv, NEW n, NEW h, NEW k, Laid(n, h, k), validates,
           Call!ModelTakes, Call!PythonAgrees, NEW p \in 1..n
    PROVE  Call!Origin(Binding[p])
               = Call!Origin(Call!PythonBinds(Call!Meant, Call!MeantKeys)[p])
<1>1. PICK m : m = (IF args < n - h THEN args ELSE n - h)
  OBVIOUS
<1>2. /\ n \in Nat /\ h \in {0, 1} /\ k \in Nat /\ k <= n /\ Call!Fields = (h + 1)..n
  BY DEF Laid
<1>3. /\ args \in Nat /\ args + h <= k /\ \A q \in 1..(args + h) : q \notin keys
      /\ Call!PythonBinds(Call!Meant, Call!MeantKeys)[p] =
             IF p <= h THEN Call!Context
             ELSE IF p <= args + h THEN Call!Arg(p - h)
             ELSE IF p \in keys THEN Call!Key(p) ELSE Call!Default
  BY PythonBindsIs
<1>4. m = args
  BY <1>1, <1>2, <1>3
<1>5. /\ DOMAIN Call!Bound = (h + 1)..(h + m) \cup keys
      /\ \A q \in keys : Call!Bound[q] = Call!Key(q)
      /\ \A q \in (h + 1)..(h + m) : q \notin keys => Call!Bound[q] = Call!Arg(q - h)
  BY <1>1, <1>3, BoundIs
<1>6. Binding[p] = IF p <= h THEN Call!Context ELSE Call!Dumped[p]
  BY ValidatedRuns
<1>7. CASE p <= h
  BY <1>3, <1>6, <1>7
<1>8. CASE p > h
  <2>1. p \in (h + 1)..n /\ ~(p <= h)
    BY <1>2, <1>8
  <2>2. Call!Dumped[p] =
            Call!AsData(IF p \in DOMAIN Call!Bound THEN Call!Bound[p] ELSE Call!Default)
    BY <1>2, <2>1 DEF Call!Dumped
  <2>3. CASE p <= args + h
    <3>1. p \in (h + 1)..(h + args) /\ p \in 1..(args + h)
      BY <1>2, <1>3, <2>1, <2>3
    <3>2. Binding[p] = Call!AsData(Call!Arg(p - h))
      BY <1>3, <1>4, <1>5, <1>6, <2>1, <2>2, <3>1
    <3> QED
      BY <1>3, <2>1, <2>3, <3>2, SameOrigin
  <2>4. CASE ~(p <= args + h)
    <3>1. p \notin (h + 1)..(h + m)
      BY <1>2, <1>3, <1>4, <2>4
    <3>2. Binding[p] = IF p \in keys THEN Call!AsData(Call!Key(p))
                                     ELSE Call!AsData(Call!Default)
      BY <1>5, <1>6, <2>1, <2>2, <3>1
    <3> QED
      BY <1>3, <2>1, <2>4, <3>2, SameOrigin
  <2> QED
    BY <2>3, <2>4
<1> QED
  BY <1>2, <1>7, <1>8

\* What the model takes and Python does not is one of the three calls.
LEMMA PutRight ==
    ASSUME CallOptions, CallInv, NEW n, NEW h, NEW k, Laid(n, h, k),
           Call!ModelTakes, ~Call!PythonAgrees
    PROVE  Call!TooMany \/ Call!Doubled \/ Call!OverTheStar
<1> SUFFICES ASSUME ~Call!TooMany, ~Call!Doubled, ~Call!OverTheStar PROVE FALSE
  OBVIOUS
<1>1. PICK m : m = (IF args < n - h THEN args ELSE n - h)
  OBVIOUS
<1>2. /\ n \in Nat /\ h \in {0, 1} /\ k \in Nat /\ h <= k /\ k <= n /\ args \in Nat
      /\ keys \subseteq (h + 1)..n
      /\ \A p \in (h + 1)..n : p > h + m /\ p \notin keys => sig[p].default
      /\ ~(/\ args + h <= k /\ keys \subseteq 1..n
           /\ \A p \in 1..(args + h) : p \notin keys
           /\ \A p \in 1..n : p > args + h /\ p \notin keys => sig[p].default)
  BY <1>1, CallIs
<1>3. /\ Call!Cardinality(Call!Fields) = n - h
      /\ \A i \in 1..(n - h) : Call!FieldAt(i) = i + h
      /\ \A p \in 1..n : p > k => Call!Kind(p) = "keyword"
  BY DEF Laid
<1>4. args <= n - h /\ m = args
  BY <1>1, <1>2, <1>3 DEF Call!TooMany
<1>5. \A i \in 1..args : Call!FieldAt(i) = i + h /\ i + h \notin keys /\ i + h <= k
  <2> SUFFICES ASSUME NEW i \in 1..args
               PROVE  Call!FieldAt(i) = i + h /\ i + h \notin keys /\ i + h <= k
    OBVIOUS
  <2>1. i \in 1..(n - h) /\ i <= n - h /\ i + h \in 1..n
    BY <1>2, <1>4
  <2>2. Call!FieldAt(i) = i + h
    BY <1>3, <2>1
  <2>3. i + h \notin keys
    BY <1>3, <2>1, <2>2 DEF Call!Doubled
  <2>4. Call!Kind(i + h) # "keyword"
    BY <1>3, <2>1, <2>2 DEF Call!OverTheStar
  <2> QED
    BY <1>2, <1>3, <2>1, <2>2, <2>3, <2>4
<1>6. args + h <= k
  <2>1. CASE args = 0
    BY <1>2, <2>1
  <2>2. CASE args # 0
    <3>1. args \in 1..args
      BY <1>2, <2>2
    <3> QED
      BY <1>5, <3>1
  <2> QED
    BY <2>1, <2>2
<1>7. \A p \in 1..(args + h) : p \notin keys
  <2> SUFFICES ASSUME NEW p \in 1..(args + h) PROVE p \notin keys
    OBVIOUS
  <2>1. CASE p <= h
    BY <1>2, <2>1
  <2>2. CASE p > h
    <3>1. p - h \in 1..args /\ (p - h) + h = p
      BY <1>2, <2>2
    <3> QED
      BY <1>5, <3>1
  <2> QED
    BY <1>2, <2>1, <2>2
<1>8. \A p \in 1..n : p > args + h /\ p \notin keys => sig[p].default
  BY <1>2, <1>4
<1>9. keys \subseteq 1..n
  BY <1>2
<1> QED
  BY <1>2, <1>6, <1>7, <1>8, <1>9

\* What Python takes, with values of the right types, the model takes.
LEMMA ModelAgrees ==
    ASSUME CallOptions, CallInv, NEW n, NEW h, NEW k, Laid(n, h, k), valid, Call!PythonAgrees
    PROVE  Call!ModelTakes
<1>1. PICK m : m = (IF args < n - h THEN args ELSE n - h)
  OBVIOUS
<1>2. /\ n \in Nat /\ h \in {0, 1} /\ k \in Nat /\ h <= k /\ k <= n /\ args \in Nat
      /\ args + h <= k /\ keys \subseteq 1..n
      /\ \A p \in 1..(args + h) : p \notin keys
      /\ \A p \in 1..n : p > args + h /\ p \notin keys => sig[p].default
  BY <1>1, CallIs
<1>3. m = args
  BY <1>1, <1>2
<1>4. keys \subseteq (h + 1)..n
  <2>1. ASSUME NEW p \in keys PROVE p \in (h + 1)..n
    <3>1. p \in 1..n /\ p \notin 1..(args + h)
      BY <1>2
    <3> QED
      BY <1>2, <3>1
  <2> QED
    BY <2>1
<1>5. \A p \in (h + 1)..n : p > h + m /\ p \notin keys => sig[p].default
  BY <1>2, <1>3
<1>6. Call!ModelTakes <=>
          /\ valid /\ keys \subseteq (h + 1)..n
          /\ \A p \in (h + 1)..n : p > h + m /\ p \notin keys => sig[p].default
  BY <1>1, CallIs
<1> QED
  BY <1>4, <1>5, <1>6

LEMMA CallAgrees ==
    ASSUME CallOptions, CallInv
    PROVE  /\ Call!BindsAsPython /\ Call!ArrivesInForm
           /\ Call!TakesWhatPythonTakes /\ Call!NothingInvalidQueued
<1> SUFFICES ASSUME Call!Ordinary
             PROVE  /\ Call!BindsAsPython /\ Call!ArrivesInForm
                    /\ Call!TakesWhatPythonTakes /\ Call!NothingInvalidQueued
  BY DEF Call!BindsAsPython, Call!ArrivesInForm, Call!TakesWhatPythonTakes,
         Call!NothingInvalidQueued
<1>1. PICK n, h, k : Laid(n, h, k)
  BY Layout DEF CallInv
<1>2. ~validates => (Runs <=> Call!PythonAgrees)
  BY RawBinds
<1>3. validates /\ Call!ModelTakes => Runs
  BY <1>1, ValidatedRuns
<1>4. Call!BindsAsPython
  <2> SUFFICES ASSUME call = "ran"
               PROVE  IF Call!PythonAgrees
                      THEN \A p \in Call!Params :
                               Call!Origin(got[p])
                                   = Call!Origin(Call!PythonBinds(Call!Meant, Call!MeantKeys)[p])
                      ELSE validates /\ (Call!TooMany \/ Call!Doubled \/ Call!OverTheStar)
    BY DEF Call!BindsAsPython
  <2>1. Runs /\ got = Binding /\ (validates => Call!ModelTakes)
    BY DEF CallInv
  <2>2. Call!Params = 1..n
    BY <1>1 DEF Laid
  <2>3. CASE ~validates
    BY <1>2, <2>1, <2>3, RawBinds
  <2>4. CASE validates /\ Call!PythonAgrees
    BY <1>1, <2>1, <2>2, <2>4, BothBind
  <2>5. CASE validates /\ ~Call!PythonAgrees
    BY <1>1, <2>1, <2>5, PutRight
  <2> QED
    BY <2>3, <2>4, <2>5
<1>5. Call!TakesWhatPythonTakes
  <2> SUFFICES ASSUME call \in {"refused", "invalid", "TypeError"}, valid, Call!PythonAgrees
               PROVE  FALSE
    BY DEF Call!TakesWhatPythonTakes
  <2>1. Call!ModelTakes
    BY <1>1, ModelAgrees
  <2>2. call = "TypeError" /\ ~Runs
    BY <2>1 DEF CallInv
  <2> QED
    BY <1>2, <1>3, <2>1, <2>2
<1>6. Call!NothingInvalidQueued
  <2>1. call # "invalid" /\ (call = "TypeError" /\ validates => Call!ModelTakes /\ ~Runs)
    BY DEF CallInv
  <2> QED
    BY <1>3, <2>1 DEF Call!NothingInvalidQueued
<1>7. Call!ArrivesInForm
  <2> SUFFICES ASSUME call = "ran", NEW p \in Call!Fields
               PROVE  got[p].form = IF validates THEN "data" ELSE "object"
    BY DEF Call!ArrivesInForm
  <2>1. Runs /\ got = Binding /\ (validates => Call!ModelTakes)
    BY DEF CallInv
  <2> QED
    BY <1>1, <2>1, FormIs
<1> QED
  BY <1>4, <1>5, <1>6, <1>7

LEMMA CallApart == ProgramSpec => Call!Spec
<1>1. ProgramInit => Call!Init
  BY DEF ProgramInit
<1>2. [ProgramNext]_programVars => [Call!Next]_(Call!vars)
  <2> SUFFICES ASSUME [ProgramNext]_programVars PROVE Call!Next \/ UNCHANGED Call!vars
    OBVIOUS
  <2>1. CASE CallStep
    BY <2>1 DEF CallStep
  <2>2. CASE Retries \/ SharedStep \/ SettingStep \/ NamingStep \/ TargetStep \/ CommandStep
    BY <2>2 DEF Retries, SharedStep, SettingStep, NamingStep, TargetStep, CommandStep, callVars,
                Call!vars
  <2>3. CASE UNCHANGED programVars
    BY <2>3 DEF programVars, callVars, Call!vars
  <2> QED
    BY <2>1, <2>2, <2>3 DEF ProgramNext
<1>3. ProgramSpec => ProgramInit /\ [][ProgramNext]_programVars
  BY PTL DEF ProgramSpec
<1> QED
  BY <1>1, <1>2, <1>3, PTL DEF Call!Spec

\* Whatever the signature of a task, if it is an ordinary one, and whatever arguments come
\* by position and by keyword: a call that runs in the worker binds them as Python would and
\* hands over the caller's objects, or data where it is validated; one that Python refuses
\* runs only when it is validated and is one of three kinds; no call that Python takes is
\* refused, and none that was queued is found wanting.
THEOREM CallsMeanTheSame == ASSUME CallOptions PROVE ProgramSpec => []CallsBind
<1>1. CallInv => CallsBind
  BY CallAgrees DEF CallsBind
<1>2. Call!Spec => []CallInv
  <2>1. Call!Init => CallInv
    BY CallStart
  <2>2. CallInv /\ [Call!Next]_(Call!vars) => CallInv'
    BY CallKeeps
  <2> QED
    BY <2>1, <2>2, PTL DEF Call!Spec
<1> QED
  BY <1>1, <1>2, CallApart, PTL

--------------------------------------------------------------------------------
(* The types of the parts.                                                 *)

\* The options of all parts; the default server is one of the servers.
ProgramOptions ==
    /\ CommandOptions /\ FileOptions /\ CallOptions /\ SettingOptions
    /\ MaxAssigns \in Nat /\ Home \in Places

LEMMA SettingTyped == ASSUME ProgramOptions PROVE Setting!Spec => []Setting!TypeOK
<1> USE DEF ProgramOptions
<1>1. Setting!Init => Setting!TypeOK
  <2> SUFFICES ASSUME Setting!Init PROVE Setting!TypeOK
    OBVIOUS
  <2>1. /\ stage = "new" /\ value = Setting!Absent /\ wired = Setting!Absent
        /\ failed = FALSE /\ assigns = 0
    BY DEF Setting!Init
  <2>2. Setting!Absent \in Int /\ 0 \in 0..MaxAssigns
    BY DEF Setting!Absent
  <2>3. /\ class \in DOMAIN Setting!Fields /\ field \in DOMAIN Setting!Fields[class]
        /\ source \in Setting!Offers(class, field)
    BY DEF Setting!Init
  <2> QED
    BY <2>1, <2>2, <2>3 DEF Setting!TypeOK
<1>2. Setting!TypeOK /\ [Setting!Next]_(Setting!vars) => Setting!TypeOK'
  <2> SUFFICES ASSUME Setting!TypeOK, [Setting!Next]_(Setting!vars) PROVE Setting!TypeOK'
    OBVIOUS
  <2> USE DEF Setting!TypeOK
  <2>1. UNCHANGED <<class, field, source>>
    BY DEF Setting!Next, Setting!Construct, Setting!Assign, Setting!Wire, Setting!Use,
           Setting!vars
  <2>2. /\ class' \in DOMAIN Setting!Fields /\ field' \in DOMAIN Setting!Fields[class']
        /\ source' \in Setting!Offers(class', field')
    BY <2>1
  <2>3. CASE Setting!Construct
    <3>1. Setting!Resolved \in Int
      BY FirstSourceDecides
    <3>2. /\ value' = Setting!Resolved /\ stage' \in {"held", "rejected"}
          /\ UNCHANGED <<wired, failed, assigns>>
      BY <2>3 DEF Setting!Construct
    <3> QED
      BY <2>2, <3>1, <3>2
  <2>4. CASE Setting!Assign
    <3>1. /\ value' \in Setting!Probes(class, field) \cup {Setting!None}
          /\ assigns < MaxAssigns /\ assigns' = assigns + 1
          /\ UNCHANGED <<stage, wired, failed>>
      BY <2>4 DEF Setting!Assign
    <3>2. value' \in Int
      BY <3>1, OffersAreNumbers
    <3> QED
      BY <2>2, <3>1, <3>2
  <2>5. CASE Setting!Wire
    BY <2>2, <2>5 DEF Setting!Wire
  <2>6. CASE Setting!Use
    BY <2>2, <2>6 DEF Setting!Use
  <2>7. CASE UNCHANGED Setting!vars
    BY <2>2, <2>7 DEF Setting!vars
  <2> QED
    BY <2>3, <2>4, <2>5, <2>6, <2>7 DEF Setting!Next
<1> QED
  BY <1>1, <1>2, PTL DEF Setting!Spec

LEMMA TargetTyped == ASSUME ProgramOptions PROVE Target!Spec => []Target!TypeOK
<1> USE DEF ProgramOptions
<1>1. Target!Init => Target!TypeOK
  <2> SUFFICES ASSUME Target!Init PROVE Target!TypeOK
    OBVIOUS
  <2>1. Target!UrlsOf(kind) \subseteq Target!Urls
    BY DEF Target!UrlsOf
  <2>2. url.argument \in Target!Urls \cup {Target!Null}
        /\ url.environment \in Target!Urls \cup {Target!Null}
        /\ url = [argument |-> url.argument, environment |-> url.environment]
    BY <2>1 DEF Target!Init
  <2> QED
    BY <2>2 DEF Target!Init, Target!TypeOK
<1>2. Target!TypeOK /\ [Target!Next]_(Target!vars) => Target!TypeOK'
  <2> SUFFICES ASSUME Target!TypeOK, [Target!Next]_(Target!vars) PROVE Target!TypeOK'
    OBVIOUS
  <2> USE DEF Target!TypeOK
  <2>1. CASE Target!Construct
    BY <2>1 DEF Target!Construct
  <2>2. CASE Target!Wire
    <3>1. Target!Host \in Places
      BY DEF Target!Host
    <3>2. Target!Url \in Target!Urls \cup {Target!Null}
      BY DEF Target!Url
    <3>3. Target!Dsn \in Target!Urls \cup {Target!Null}
      BY <3>1, <3>2 DEF Target!Dsn, Target!Urls, Target!Schemes
    <3> QED
      BY <2>2, <3>3 DEF Target!Wire
  <2>3. CASE Target!Connect
    BY <2>3 DEF Target!Connect
  <2>4. CASE UNCHANGED Target!vars
    BY <2>4 DEF Target!vars
  <2> QED
    BY <2>1, <2>2, <2>3, <2>4 DEF Target!Next
<1> QED
  BY <1>1, <1>2, PTL DEF Target!Spec

LEMMA SharedTyped == CopiesInv => Shared!TypeOK
<1> SUFFICES ASSUME CopiesInv PROVE Shared!TypeOK
  OBVIOUS
<1>1. \A c \in Configs : Shared!Built(c) => config[c].mode \in Shared!Modes
  <2> SUFFICES ASSUME NEW c \in Configs, Shared!Built(c) PROVE config[c].mode \in Shared!Modes
    OBVIOUS
  <2>1. config[c] \in Objects
    BY DEF CopiesInv, SharedTypes, Shared!Built
  <2> QED
    BY <2>1, Kept
<1>2. \A a \in Apps : Shared!Made(a) => Shared!Built(app[a].config) /\ app[a].mode \in Shared!Modes
  <2> SUFFICES ASSUME NEW a \in Apps, Shared!Made(a)
               PROVE  Shared!Built(app[a].config) /\ app[a].mode \in Shared!Modes
    OBVIOUS
  <2>1. app[a] \in Applications
    BY DEF CopiesInv, SharedTypes, Shared!Made
  <2> QED
    BY <2>1, Kept DEF CopiesInv
<1>3. \A t \in registered : t.app \in Apps /\ t.mode \in Shared!Modes
  BY DEF CopiesInv, SharedTypes
<1> QED
  BY <1>1, <1>2, <1>3 DEF CopiesInv, SharedTypes, Shared!TypeOK

LEMMA CallTyped == CallInv => Call!TypeOK
<1> SUFFICES ASSUME CallInv PROVE Call!TypeOK
  OBVIOUS
<1>1. got # Call!Nothing => DOMAIN got = Call!Params
  BY DEF CallInv, Binding, Call!PythonBinds
<1> QED
  BY <1>1 DEF CallInv, Call!TypeOK

LEMMA NamingTyped == NamingInv => Naming!TypeOK
<1> SUFFICES ASSUME NamingInv PROVE Naming!TypeOK
  OBVIOUS
<1>1. ASSUME NEW p \in Naming!Processes
      PROVE  /\ path[p] \in Naming!Paths /\ loaded[p] \subseteq Modules /\ died[p] \in BOOLEAN
             /\ tasks[p] \cup made[p] \subseteq Entries /\ frames[p] \in Seq(Frames)
  BY DEF NamingInv
<1>2. ASSUME NEW e \in Entries
      PROVE  e.module \in Modules /\ e.name \in Naming!Names /\ e.function \in Naming!Range(Functions)
  BY DEF Entries
<1>3. ASSUME NEW p \in Naming!Processes, NEW i \in DOMAIN frames[p]
      PROVE  frames[p][i].at \in 1..(Naming!Count + 1)
  <2>1. frames[p][i] \in Frames
    BY <1>1
  <2> QED
    BY <2>1 DEF Frames
<1> QED
  BY <1>1, <1>2, <1>3 DEF Naming!TypeOK, Modules

\* Every part has its types, for all options of the worker command, all files, all
\* signatures and all policies.
THEOREM ProgramTypes == ASSUME ProgramOptions PROVE ProgramSpec => []ProgramTypeOK
<1>1. ProgramSpec => [](part \in Parts)
  <2>1. ProgramInit => part \in Parts
    BY DEF ProgramInit
  <2>2. part \in Parts /\ [ProgramNext]_programVars => (part \in Parts)'
    BY DEF ProgramNext, programVars, Retries, SettingStep, TargetStep, SharedStep, CallStep,
           NamingStep, CommandStep
  <2>3. ProgramSpec => ProgramInit /\ [][ProgramNext]_programVars
    BY PTL DEF ProgramSpec
  <2> QED
    BY <2>1, <2>2, <2>3, PTL
<1>2. Shared!Spec => []CopiesInv
  BY InitCopies, NextCopies, PTL DEF Shared!Spec
<1>3. Call!Spec => []CallInv
  BY CallStart, CallKeeps, PTL DEF Call!Spec
<1>4. Naming!Spec => []NamingInv
  <2>1. Naming!Init => NamingInv
    BY NamingStart DEF ProgramOptions
  <2>2. NamingInv /\ [Naming!Next]_(Naming!vars) => NamingInv'
    BY NamingKeeps DEF ProgramOptions
  <2> QED
    BY <2>1, <2>2, PTL DEF Naming!Spec
<1>5. Command!Spec => [](SInv /\ UntoldInv)
  BY AlwaysSInv DEF ProgramOptions
<1>6. Setting!Spec => []Setting!TypeOK
  BY SettingTyped
<1>7. Target!Spec => []Target!TypeOK
  BY TargetTyped
<1>8. /\ part \in Parts /\ PInv /\ Setting!TypeOK /\ Target!TypeOK /\ CopiesInv /\ CallInv
      /\ NamingInv /\ SInv
      => ProgramTypeOK
  <2> SUFFICES ASSUME part \in Parts, TypeOK, Setting!TypeOK, Target!TypeOK, Shared!TypeOK,
                      Call!TypeOK, Naming!TypeOK, Command!TypeOK
               PROVE  ProgramTypeOK
    BY SharedTyped, CallTyped, NamingTyped DEF PInv, SInv
  <2> QED
    BY DEF Parts, ProgramTypeOK
<1> QED
  BY <1>1, <1>2, <1>3, <1>4, <1>5, <1>6, <1>7, <1>8, AlwaysPInv, RetriesAPart, SettingApart,
     TargetApart, SharedApart, CallApart, NamingApart, CommandApart, PTL
=============================================================================
