# Chicory in TLA+

Chicory is a distributed task queue: applications dispatch tasks through a
message broker (Redis streams or RabbitMQ), workers run them, and a result
backend (Redis or SQL) keeps their states. This directory holds TLA+ models of
the code under `src/src/chicory`, the TLC runs that check them and the proofs
that TLAPS checks. Paths and line numbers below are relative to that directory
unless they begin with `docs/`; `PROJECT.json` maps every definition to the
lines it stands for.

    tlc -workers 2 -config worker_calm.cfg MCWorker
    tlapm WorkerProofs.tla

## 1. Inventory

| Part | State it keeps | Operations | What is hard about it |
|---|---|---|---|
| Redis broker `broker/redis.py` | Per queue: a stream with one consumer group (position, PEL), a sorted set of delayed messages, a DLQ stream | publish, delayed mover, consume (XREADGROUP, XAUTOCLAIM), ack, nack, move_to_dlq, replay / delete / purge, cleanup | Several workers per queue; claims of idle entries; trimming; operations of several round trips |
| RabbitMQ broker `broker/rabbitmq.py` | Main queue, delayed queue, DLQ; a consumer channel per worker; a pool of channels | the same interface on AMQP | Delivery tags that die with their channel; prefetch; a pool that operations share; a timeout around whole operations |
| Worker `worker.py` | Handlers in flight, a semaphore, counters | start, stop, run, consume loop, `_process_envelope` and its error paths | Any await may raise or be the last one; acknowledging, storing and republishing have to come in the right order |
| Worker lifecycle `worker.py`, `app.py`, `cli/cli.py` | `_running`, three background tasks, an executor | start, stop, run, signal handlers | `stop()` races the loops, the handlers and `run()` |
| Result backends `backend/redis.py`, `backend/database.py` | State and result of a task | set_state, store_result, get_result, delete_result, cleanups | Redelivered copies write again; SQL sessions overlap; keys expire |
| Heartbeat registry, in the same backends | Heartbeats with a time to live; on Redis also a set of names | store_heartbeat, get_active_workers, cleanup_stale_clients | Several clocks; sweeps of several round trips; a last heartbeat after draining |
| AsyncResult `result.py` | None | get, state, ready, failed | Polls what others write |
| Retry policy, context `types.py`, `context.py`, `worker.py` | The attempt number in the message | calculate_delay, should_retry, ctx.retry, ctx.fail, the except clauses | The budget is checked in several places; a power of two without bound |
| Task inputs `task.py` | None | the input model, delay / send, the call in the worker | Arguments are bound three times, each time by other code |
| Task registry `app.py`, `task.py`, `utils.py`, `cli/cli.py` | `_tasks` of each process, `sys.modules` | task, get_task, the names of tasks in `__main__` | A file that runs more than once, under more than one name |
| Configuration `config.py` | Settings objects, shared by reference | construction from arguments, environment, `.env`, defaults; validation; the copies others take | Bounds here and uses elsewhere; who copies when |
| Command line `cli/cli.py` | The parent process and its children | worker, its signals, joins and kills; listings and cleanups | Signals at any moment; children that do not answer |
| Exceptions, logging, abstract interfaces | - | - | No behaviour of their own |

How they interact: `Task.delay` binds the arguments and calls `broker.publish`.
`Worker._consume_loop` iterates `broker.consume` and makes an asyncio task of
each envelope, which records states in the backend, runs the function, and
acknowledges, republishes or dead-letters through the broker. `AsyncResult`
polls the backend. Operators (CLI, scripts) call the DLQ operations of the
broker. The worker's cleanup loop sweeps consumers and heartbeats of others.
The CLI imports the application, assigns worker settings and runs one worker, or
a parent with several of them as child processes.

What makes each part correct:

* broker: a message is in one place, leaves it only when it is acknowledged,
  dead-lettered, trimmed or purged, and is handed out once unless it is claimed;
* worker: an at-least-once task is never lost; an at-most-once task is never run
  twice for one attempt; the retry budget holds; every task is concluded;
* lifecycle: when `stop()` returns, nothing uses the connections; it does return;
* backend: a stored result can be read, and a final state does not go back;
* registry: a worker that beats is listed, one that stopped is forgotten;
* DLQ operations: they do not lose, hide or invent dead letters, and they end;
* retry policy: permanent failures are final, and delays are on their schedule;
* inputs and names: client and worker mean the same call of the same function;
* configuration: what passed validation works, and the copies of it agree;
* command line: nobody is left behind, and only who is stuck is killed.

`PROJECT.json` lists under "hazards" where in the code each of these could
break, and which property would show it.

## 2. Modules

    RedisBroker -- Worker -- MCWorker             AtLeastOnce (abstract)
        |            |                             ^         ^
        |         WorkerProofs (refines) ----------+   RabbitMQBroker -- MCRabbitMQBroker
        |            |                                       |
        |-- RedisBrokerProofs                          RabbitMQProofs (refines)
        |            |
        |         RedisAdminProofs
        |            |
        |-- RedisAdmin -- MCRedisAdmin

    WorkerLifecycle -- LifecycleProofs            ResultBackend -- ResultProofs
    HeartbeatRegistry -- HeartbeatProofs

    RetryPolicy -- Program -- MCProgram
                      |
                   ProgramProofs
    Settings (with ConfigFields), ConfigTarget, Configuration,
    TaskInputs, TaskRegistry, Supervisor: instances in Program

**RedisBroker** is the state of the Redis keys and one action per call of
`RedisBroker`. Every publish makes a new *copy*, an index of `msgs`, which
stands for the stream entry id or sorted-set member. `stream`, `cursor`,
`group`, `pel` and `delayed` are what Redis keeps for `chicory:stream:q` and
`chicory:delayed:q`; `dead` and `dlq` are the dead letters ever written and those
still in `chicory:dlq:q`. Approximate MAXLEN is a choice of how many of the
oldest entries go, never below the limit. The actions constrain only the
broker's variables and are conjoined by the callers.

**Worker** composes it with workers. A slot `<<w, l>>` is one asyncio task of
`_process_envelope`; its `pc` is the await it stands at:

| `pc` | Code | Action |
|---|---|---|
| `waiting` | `async with self._semaphore`, `get_task` | `Acquire` |
| `starting` | `set_state(STARTED)` | `MarkStarted` |
| `early_ack` | `ack` of an at-most-once envelope | `EarlyAck` |
| `running` | `_execute_task` | `Run` |
| `store_success`, `ack` | `_store_success`, `ack` | `StoreSuccess`, `AckDone` |
| `retry_state`, `republish`, `retry_ack` | `_handle_retry` | `RetryState`, `Republish`, `RetryAck` |
| `store_failure` | `_store_failure` | `StoreFailure` |
| `dead_letter`, `finalize` | `_move_to_dlq`, `_finalize_failure` | `DeadLetter`, `Finalize` |

Every call may return, raise without effect, or raise after it took effect; the
exception goes where the `try` statement of the code sends it: to an `except`
clause (`Caught`) from `store_success` and `ack`, out of the handler (`Escape`)
from everywhere else. A worker may die between any two steps.

**AtLeastOnce** is the promise to the caller: accepted tasks stay open until
they are concluded, and a known task is concluded only after it was begun.
`Worker!KeepsPromise` and `RabbitMQBroker!KeepsPromise` are refinements of it:
a task is *open* while it has no outcome and the broker can still deliver it.

**RedisAdmin** composes RedisBroker with consumers reduced to what the broker
sees, operators on the DLQ (`Operators`) and the loops and commands that clean up
(`Sweepers`). `replay_from_dlq` is `ReplayFind` then `ReplayMove`,
`cleanup_stale_clients` is `SweepList` then one `SweepDelete` per name, or
`SweepFails`, with everybody else's calls in between. A sweep lists any consumers,
dead or alive, that have nothing pending; `late` is what came to one of them after
that, `dropped` what then went with it.

**RabbitMQBroker** has the three queues of one name, the messages that each
channel holds unacknowledged, a worker's handlers with their delivery tags, and
the DLQ operations on the shared pool of channels. A channel that closes makes
its messages visible again and its delivery tags useless.

**WorkerLifecycle** is one Worker object: the event loop's tasks (consume,
heartbeat, cleanup, handlers), the threads of the executor, calls of `stop()`
with one step per await, and `run()` with signal handlers under `asyncio.run`.
`mode` says whether a program awaits `start()`/`stop()` or `run()` drives it.

**ResultBackend** is the record of one task. On Redis each call is one command
or MULTI. On SQL a call is a session: `OpenSession` selects the row,
`CommitSql` writes the columns that changed, `CommitFails` is the IntegrityError
or StaleDataError of an overlapping session. Readers poll like `AsyncResult.get`.

**HeartbeatRegistry** is the other half of the backends: `life[w]` is what is left
of the stored heartbeat, `names` the set `chicory:workers`, `drift` the clocks of
the machines, which matter in SQL only. A worker sends, rests for its interval,
drains and sends a last time; a sweep on Redis is SMEMBERS, then EXISTS and SREM
per name, a listing SMEMBERS and a pipeline of GETs. All timers run down, so that
time may go on for ever in finitely many states. The periods are any that
`validate_config` admits, with calls shorter than the interval; whether a heartbeat
outlives the sleep (`OutlivesRest`), what the worker has drained so far, or the whole
drain (`OutlivesDrain`) is a condition of the properties, not an assumption.

**RetryPolicy** is one task under one policy: an attempt runs and raises (an
exception, `ctx.retry`, `ctx.fail`, a RetryError of its own), the except clauses
decide, `calculate_delay` gives the delay. **ConfigFields** lists every numeric
field with the bounds that config.py gives it (`NoBound` where it gives none) and
with what its user takes: `TtlMax` is RabbitMQ's longest TTL, `WireMax` the largest
number of Redis and AMQP, `SpanMax` the longest span that an expiry or a timeout can
have. **Settings** takes one field from its sources through validation, assignment
and the copy a component makes to its use. **ConfigTarget** does so for an address,
given in parts or as a url, each from the constructor or the environment.
**Configuration** is the settings objects that applications, brokers, tasks and
workers share, with the moment at which each reads or writes them. **TaskInputs**
binds the arguments of a call as the input model, the worker and Python do; a value
is where it came from and its form: an object, which the pickled message keeps, or the
data that `model_dump()` makes of it.
**TaskRegistry** runs a task file in a client and in a worker, with the imports that
`resolve_module_name` causes. **Supervisor** is the parent process of
`chicory worker --workers N`, its children as far as signals concern them, and time.
A child installs its handlers when it connects and removes them when its consume
loop is over (`ConsumeOver`); from then until it exits (`exiting`) another SIGTERM ends
it.

**Program** composes these six with RetryPolicy, which it extends. They share no
variable and none waits for another, so a behaviour runs one of them (`part`)
while the others rest in one initial state: the interleavings of two would be
every pair of their states and would violate nothing that one alone does not.

**MC...** modules give names to the small instances; the **...Proofs** modules hold the
proofs. Operators whose comment begins with
"Mutant" are plausible bugs; they are used by no specification, and replacing the
definition they belong to makes the property named in `PROJECT.json` fail.

## 3. Runs

| Run | Expected | What it shows |
|---|---|---|
| `worker_calm` | holds | With claims only of entries that nobody works on: nothing lost (`NoLoss`), at-most-once is at most once and acknowledged first, at-least-once acknowledged last (`ModeIsKept`), one chain of retries within the budget (`ChainWithinBudget`), no task run twice without a fault (`RunOnceWhenCalm`), no dead letter that is still pending or doubled (`DeadForGood`), a final state that stays (`FinalState`) |
| `worker_hostile` | holds | With claims of live entries too: the refinement of `AtLeastOnce` |
| `worker_live` | holds | Every dispatched at-least-once task is concluded, every envelope leaves the broker (`EverythingEnds`) |
| `redis_admin` | holds | Operators, trimming, purges and a sweep: every copy is accounted for and read once (`NoneTwiceNoneLost`), dead letters are kept and current (`DlqIsFaithful`), and an entry goes with a swept consumer, dead or alive, only if it came to it between XINFO and DELCONSUMER (`SweepDropsOnlyLate`) |
| `lifecycle` | holds | What has ended when `stop()` disconnects, and force only after the timeout (`StopsCleanly`); the last heartbeat stands; `stop()` and `run()` end (`StopsWhenTold`) |
| `results` | holds | Overlapping writers neither hide a stored result nor all fail (`OverlapIsHarmless`); a final result stays; a caller gets its answer |
| `rabbitmq` | holds | Loss, duplicates (`OnceWhenCalm`), hidden dead letters, the pool of channels (`OperationsEnd`), the refinement of `AtLeastOnce` |
| `heartbeat` | holds | A worker whose last two heartbeats were stored is listed, while it drains too for as long as its heartbeat lasts (`SteadyListed`); nobody silent is listed and nobody lively is swept (`ListsAndSweepsHonestly`); the dead are forgotten and the living come back (`CatchesUp`) |
| `program` | holds | Budget, exact schedule and permanence of retries; values that passed validation work but for those named, which do not; the order of sources; copies of settings agree; a call binds as in Python and its values arrive as objects, or as data where it is validated; a name means one function; the worker command leaves nobody behind, kills only who is stuck and cuts off nobody unless Ctrl-C was pressed; every task and every stopped command comes to an end |
| `own_queue` | violated | worker.py:425 acknowledges on the default queue: on another queue a finished task runs again |
| `live_claim` | violated | An at-most-once task that waits longer than `claim_min_idle_ms` is run by two workers |
| `signal_drain` | violated | After a signal the tasks in flight are cancelled by `asyncio.run`, not drained |

The violations are disagreements between the code and what its documentation, or a
comment or docstring, says; `PROJECT.json` quotes them under "findings". A property of a passing run
that is a conjunction (`ModeIsKept` is `AtMostOnce`, `AckedBeforeRun` and
`NeverRunAfterAck`, and so on) has its parts, each with its own comment, just
above it.

### Bounds

* Two workers are the least that can race for an entry, take over from a dead
  one, or sweep each other. One task of each delivery mode, one retry, and so
  up to four or five copies: enough for a redelivered attempt to race its own
  retry. One lane per worker, two in `worker_hostile`, so that a worker can
  claim its own entry and so that two slots wait for one place in the semaphore.
* `MaxStreamLength` is 2 in `worker_calm` and 1 in `redis_admin`, below the
  number of copies: trimming of unread, pending and acknowledged entries
  happens. `redis_admin` has two operators, two consumers, a purge and one sweep, which
  lists any consumer that has nothing pending, the living too. Two messages are sent
  (`MaxSent`), so that the third copy (`MaxMsgs`) is always one that a replay
  publishes. `DlqMaxLength` is 0: trimming the DLQ is not exercised by a run; it is
  covered by the proofs, which hold for every value.
* `MaxFaults`, `MaxCrashes`, `MaxPurges`, `MaxEvents`, `MaxForgets` bound what the
  environment does; one of each, or two events in `rabbitmq`, lets a fault meet
  every step of the handlers. `worker_hostile` has no faults (the proof has any
  number of them).
* In `worker_live`, `MaxMsgs` is six and is never reached: two tasks, one retry,
  one fault. In the safety runs a handler that needs one more copy than
  `MaxMsgs` stops there, which is like a very slow call.
* `ClaimLive = FALSE` (`worker_calm`, `worker_live`) is a timing assumption: no
  entry is idle for `claim_min_idle_ms` while a slot works on it. `worker_hostile`
  and the proofs of `NoLoss` and of the refinement do without it.
* With one retry and no fault a task has two copies at most. Chains with three or more
  live copies are covered by the proof of `ChainWithinBudget`, not by a run.
* `heartbeat`: one worker, one sweep and one listing of each backend.
  Workers do not touch each other's heartbeats, and a sweep or a listing looks at
  names one by one. A call takes up to one unit (`Latency`), clocks differ by up to
  one (`Skew`). `RegistryAssumption` asks only for what `validate_config` asks (Ttl >
  Interval) and that a call is shorter than the interval. `Interval`, `Ttl`, `Stale`
  and `Drain` are 2, 8, 10 and 7: the heartbeat outlives the sleep and not the whole
  drain, which is how the defaults (10, 30, 300, and up to 35 seconds) relate, so that a
  draining worker does vanish, after the part of the drain that `Outlives` counts.
  The last call of a worker whose heartbeat outlives the whole drain is covered by the proof
  only. Five faults are more than two heartbeats and a whole sweep can meet.
* `program`: `MCPolicies` has every backoff, caps that are reached and that are
  not, a budget of 0 and overlapping lists; `MaxExponent` 2 stands for 1023, so that
  the power of two that is too large for a float happens; `MaxDirect` 2 RetryErrors
  of the function's own. Every field of every settings class with the values
  around its bounds and around those of its users, one assignment after validation;
  65535 < `TtlMax` < `SpanMax` < `WireMax` stand for the real limits. All 6 address
  classes.
  Two settings objects, two applications, one task. All legal signatures of up
  to three parameters of six kinds with every call of up to three positional
  arguments. A file with two tasks, two import names, two explicit names. Two
  children with stops shorter and longer than the timeout, and two signals:
  the second may come while the first is being handled.
* SYMMETRY of workers and lanes (and operators) is used in runs without liveness.
* `CHECK_DEADLOCK FALSE` everywhere but in `heartbeat`: a bounded number of tasks is
  dispatched, workers stop, each part of the program ends. The registry goes on
  for ever, and TLC checks that it can.

### Fairness

* `Worker`: each await of a live handler ends (the event loop is fair, calls
  return or raise), the consume loop reads and claims again and again
  (`while self._running`), the mover promotes what is due. Nothing is owed by the
  caller, by dead workers, or by faults. Weak fairness is enough because a slot
  that can move can always move, and because the claim of an entry stays enabled
  until somebody claims it.
* `WorkerLifecycle`: steps of `stop()`, the end of a cancelled call, the return of
  `run()`, and the end of synchronous functions, which nothing can force. Not of
  polls, heartbeats or handlers: those are cut by timeouts.
* `ResultBackend`: a caller of `get()` polls on. `RabbitMQBroker`: an operation goes
  on, or its timeout passes.
* `HeartbeatRegistry`: time passes, a heartbeat that was begun is stored or fails,
  the loops come round (`while self._running` with a sleep), and some cleanup
  runs again and again. Workers need not stop or crash, listings need not begin.
* `Program`: the attempts of a task go on (a worker is there), the parent process
  runs, time passes, and a `stop()` whose time is over ends. No signal need come.

## 4. Proofs

What is stated below holds for every value of the constants that satisfies the
named assumption of its model (the types of the constants and, for the registry, the
rule its periods obey), and for no bound on the number of workers, tasks, attempts,
crashes or faults. A hypothesis beyond that is named with the theorem. With these,
every safety property of every passing run is stated by a theorem; where a property is
a refinement or an action property, so is its theorem.

**`WorkerProofs`**, with `RedisBrokerProofs`: `TypeCorrect` (`Spec => []TypeOK`) and
`NeverLost` (`Spec => []NoLoss`). `NoLoss` excepts copies that MAXLEN trimming
removed from the stream (`Trimmed`): Redis drops them whoever needs them.
`NoLoss` is not inductive: it does not say why a copy may be acknowledged. The
invariant `IInv` adds

* `Placed` (in RedisBroker): a copy is in the keys of one queue, once in its
  stream, and not delayed while streamed or pending; the group's position is
  inside the stream. Without it, acknowledging one copy could remove another,
  and the mover could duplicate one;
* `SlotInv`: what a slot knows at each await that may give up its copy. At
  `ack`, `dead_letter` and `finalize` the task is finished; at `early_ack` it is
  at-most-once; at `retry_ack` the copy is *covered*: the task is finished or a
  **younger** copy of it is kept. "Younger" makes this inductive, as the covering
  copy may itself be given up, but only once a still younger one covers it.

`RedisBrokerProofs` shows for each broker call which copies it keeps and that it
preserves `Placed`. In `WorkerProofs`, `Advances` says what every step does
(copies grow, the finished grow, coverage is kept); there is one lemma per action,
and `NextIInv` puts them together.

The refinement is `Implements`, that is `Spec => KeepsPromise`, under the
additional hypothesis `MaxStreamLength = 0`, which the code reads as "no MAXLEN".
With trimming it is false, as an open task's only copy may be dropped: a task
would be neither open nor concluded. The invariant adds to `IInv` where copies
are when nothing is trimmed (`Untrimmed`) and how the histories of dispatched,
begun and finished tasks follow each other; every action is then a `Dispatch`,
`Begin` or `Conclude` of AtLeastOnce, or a stutter.

The other properties of `worker_calm` follow: `ModeKept`,
`ChainKept`, `RunOnce`, `DeadKept` (`Spec => []ModeIsKept` and so on) and `FinalKept`
(`Spec => FinalState`), under the hypothesis `OrdinaryUse`: the broker is in
at-least-once mode, workers consume the default queue, and `ClaimLive` is FALSE.
None of the three can be left out: `own_queue` and `live_claim` violate
`RunOnceWhenCalm` and `AtMostOnce` without the second and the third, and an
at-most-once broker never acknowledges, against `AckedBeforeRun`. The five depend on
each other, so there is one invariant, `DInv`:

* `Settled` and `SoleHolder`: a copy that was handed out is never handed out as new
  again, and one slot has it. This is where `OrdinaryUse` comes in;
* `Knows`: what a slot knows of its copy at each await (pending or acknowledged, not
  run before, within the budget);
* `Spent`: a copy that has run is acknowledged, or with faults perhaps pending, and a
  dead one is not pending;
* `Chain`: without faults, of two *open* copies of a task (unread, delayed, pending
  or in a slot's hands) the older one is held at `retry_ack`, and has fewer retries;
* `Closed`: without faults, every open copy of a task with a final state is held at
  an await after the last write of its handler. A second writer would have to be a
  slot with another open copy, which `Chain` puts at `retry_ack`; so nobody
  overwrites a final state.

Most steps concern one copy: `StepKeeps` says what such a step owes to that copy and
to one that it publishes, `HandlerKeeps` what that means for the place a slot goes on
to, and there is one lemma per action, as in `WorkerProofs`.

**`RedisAdminProofs`**, with `RedisBrokerProofs`: `AdminTypes`, `DlqFaithful`,
`NothingReadTwice`, `NoneTwice` and `SweepDropsLate`, with sweeps that list any consumer
without pending entries, dead or alive. That a sweep drops nothing at all is false;
what is true is that it drops only what came late.
`AdminInv` adds to the broker's invariant that a replay in progress names dead
letters of its own queue (`DlqInv`) and that what is still to be read as new was
never read (`ReadInv`, with `FromStart`: a group that does not exist, as after
purge_queue, has read nothing). `CountInv` accounts for every copy: what is pending for
a name on the list of a sweep came after it was listed (`SweepInv`), and a pending
entry that is no more in its stream was trimmed or purged (`TrimInv`).

**`RabbitMQProofs`**: `TypeCorrect`, `NoneHidden`, `NeverLost`, `CalmOnce` and
`Implements` (`Spec => KeepsPromise`, without a hypothesis: no limit drops a message
of the main queue here). `Shape` is the part that every argument needs: a copy is in
one queue, once (`QueuesApart`); each unacknowledged message is held by one channel,
of a worker if it is in the main queue, of the pool if it is in the DLQ, and no
worker holds more than its prefetch count (`HeldApart`); a handler with a live tag
holds its message and knows what its place in the code says (`Hands`); no two DLQ
operations have the same channel, and what one has fetched is held there (`Opers`).
Then

* `LossInv`: what is about to be acknowledged because it was published again, by a retry
  or by replay_from_dlq, is *spare*: the task is finished or a younger copy is in a
  queue. "Younger" is what makes this inductive, as in `WorkerProofs`;
* `CalmInv`: without faults, a copy has one handler (`OneHandler`), what was settled is
  in no queue (`SettledGone`), what has run and is still in the main queue is held by
  somebody who may acknowledge it (`RanHeld`, `TagsTell`), and of two copies of a task
  that are alive the older was replaced (`OneAlive`);
* `NothingHidden` is inductive with `Shape`, as long as no operation was cut off;
* the refinement needs `Shape`, `LossInv` and `Known`.

**`LifecycleProofs`**: `LifecycleTypes`, `CleanStop` and `LastBeatStands`. `LInv`
says what each await of `stop()` has seen to (`StageInv`: heartbeat, then cleanup,
then the consume loop, then handlers, then threads), that nobody stops a worker
before it is up (`StopsLater`), and that no other heartbeat is under way once the
last is sent.

**`ResultProofs`**: `ResultTypes`, `OverlapHarmless` (for a non-empty set of attempts)
and `ReadyStays`. The invariant says that an attempt never rewrites a result of its
own (`Written`), and that while nothing failed or was deleted, somebody whose
sessions find the row goes on (`Undisturbed`).

**`HeartbeatProofs`**: `RegistryTypes`, `SteadyIsListed` and `Honest`, from
`RegistryAssumption` alone. The clocks are integers: `LifeOK` bounds from below what
is left of a stored heartbeat by what its worker has done since (`Floor`). Both are
stated for a worker that is at something its heartbeat outlives (`Outlives`): sleeping
and beating if Ttl > Interval + 2 * Latency + Skew, which the defaults satisfy with
calls and clocks within 20 seconds; draining for as long as Ttl exceeds that sum and the
time it has drained; and in the last call of all if
Ttl > Interval + Drain + 3 * Latency + Skew, which they do not. Under these conditions
the bound stays positive until the next heartbeat is stored. On Redis the name is
another key: `StaleOK` says that for a name which a sweep is about to remove at most
one heartbeat has come since it asked, so that the second of two brings the name back
to stay (`NameOK`); `ReadOK` says the same of a listing.

**`ProgramProofs`**: each part of Program sees its own steps and stutters
(`RetriesAPart`, `SettingApart` and so on: `ProgramSpec => Naming!Spec`), so that a part
is reasoned about by itself.

* `ProgramTypes` (`[]ProgramTypeOK`), for options of all parts that are what they
  are said to be (`ProgramOptions`, the conjunction of the hypotheses below).
* Retries: `PolicyKept` and `PermanentFailureIsFinal`. The handler of a RetryError
  publishes without looking at the budget, so `RInv` needs `RetryIsAllowed`: whoever
  raised it looked, or it is one of the function's own, which `direct` counts.
  `DelaysFollow` carries a delay from where it is calculated to where it is
  published; without jitter the delay is the one of the schedule, with it within a
  quarter of that, above the cap too. `LastRetryAnnounced` says what `is_last_retry` is good
  for in both directions. The power of two is the number of subsets of a
  set (`Doubling`), and that the schedule is the doubled one is shown by a least
  attempt at which it were not.
* Values: `CheckedValuesWork`, for `SettingOptions` (the three limits are natural
  numbers), and for all integers. `AcceptedWorks` goes through the tables of fields:
  what validation accepts is what the user of the field takes, but for `Unusable`: a
  `result_ttl` of 0, and what lies above the limit of a user whose field has no upper
  bound in config.py; and `UnusableFails` that those do not work. `SettingInv` says that as
  long as nobody assigns, the component has what the first source says, checked; `TargetInv` that only a synchronous scheme
  of PostgreSQL or MySQL can be refused; `TargetOrder` that a url, from wherever, comes
  before the parts, and that otherwise the argument comes first.
* Shared settings: `CopiesStayEqual`. `CopiesInv` holds for every application that
  made its broker and shares its config with no other, and for every config until
  there is a worker.
* Names: `NamesMeanTheSame`, for `FileOptions` (no file can be imported as
  `__main__`). `File` describes one process: an execution has made the tasks before
  the one it is at, a module that is not being executed is complete, every task is
  entered under its right name; and `__main__` alone looks for another name.
* Calls: `CallsMeanTheSame`, for `CallOptions` (no keyword-only parameter before one
  that is given by position, which Python's grammar does not allow). An ordinary
  signature is `Laid` out as n parameters of which h are a context and k positional;
  what the input model, Python and the worker make of a call is stated in n, h and k
  (`CallIs`), and compared. Values are compared by their origin (`Origin`), as
  validation changes their form; which form they have is `FormIs`.
* The worker command: `CommandKeepsPromise`, for `CommandOptions` (at least one
  process). `LoopsInv` says what the loops over the processes have done to those
  before the current one; `ClockInv` relates the clocks: the current join has waited
  no longer than the stop it waits for has run, unless the process dropped its
  signal, and the joins before it took one timeout each. `UntoldInv` says that without
  Ctrl-C nobody is on the way out before the parent has told it, so that no
  terminate() meets a process that has removed its handlers after being told.

Where an argument is by induction over data (a least attempt, a least copy, the first
keyword-only parameter) it goes over the least element of a set of naturals
(`Smallest`, from the well-founded order of the library), as the schemes of induction
are out of the prover's reach.

Only model-checked: every liveness property and the fairness it needs
(`EverythingEnds`, `StopsWhenTold`, `Answered`, `OperationsEnd`, `CatchesUp`,
`ComesToAnEnd`), as ENABLED is outside the prover's reach too; and the violations, which
need a behaviour and not a proof.

## 5. Where the code and its texts disagree

Three disagreements have a run of their own (section 3). All of these were met while
modelling; the models follow the code, and the run, or the property that says what the code does
instead, is named where there is one:

* `--queue`: ack, nack and a retry's publish name the default queue (worker.py:425;
  `own_queue`); the cleanup loop sweeps the consumers of the default queue only
  (worker.py:232).
* XAUTOCLAIM takes entries whose owner is alive and waits for the semaphore
  (broker/redis.py:251; `live_claim`).
* `run()` returns while the `stop()` of the signal still drains (worker.py:323;
  `signal_drain`). By then it has removed its handlers, so that a second signal, such
  as the parent's terminate() after Ctrl-C, cuts the exit off (worker.py:325,
  against docs/user-guide/workers.md:132; `CutOnlyIfInterrupted`).
* `ctx.fail` only raises the exception: the retry policy may retry it
  (context.py:68; docs/tutorial/task-context.md:182 says "without retrying").
* `is_last_retry` is true one attempt early and in the last one (context.py:81;
  docs/tutorial/task-context.md:76): a refusal of `ctx.retry` is announced, an
  announced refusal may not come (`LastRetryAnnounced`).
* The jitter is added after the cap, so a delay may be a quarter above `max_delay`
  (types.py:104; docs/tutorial/retry-policies.md:166; `OnSchedule`). From the 1025th retry on
  `2 ** (attempt - 1)` is no float and raises OverflowError, in the except clause
  too, which the handler then leaves (types.py:94).
* After a signal while `start()` still connects, `_running` is not set and the
  signal is dropped (worker.py:334).
* `chicory worker` assigns the default of every option to the worker settings, so
  that it overrules the environment although no option was given
  (cli/cli.py:105, against its own help text at cli/cli.py:80). It checks nothing,
  so that `heartbeat_ttl` may be less than the interval (config.py:758 forbids it);
  a `WorkerConfig` of one's own is not compared either. `--shutdown-timeout` is
  the parent's, not the worker's. A signal that reaches the parent before its handlers
  are installed kills it and leaves its workers alone (cli/cli.py:133).
* `heartbeat_ttl > heartbeat_interval` is not enough: a worker whose heartbeat is slow
  or whose clock is behind is listed no more although it lives (config.py:758). With the
  defaults a worker that drains for longer than about 20 seconds vanishes from the
  listing until its last heartbeat: `stop()` cancels the heartbeat first and then waits up to 5 + 30
  seconds, and the heartbeat lives for 30 (worker.py:147). `SteadyListed` claims that it is
  listed until then.
* On Redis `cleanup_stale_clients` does not look at `stale_seconds` (backend/redis.py:157,
  against backend/base.py:62), and tests and removes a name in two round trips.
* On Redis a consumer of the stream may get an entry between XINFO and XGROUP
  DELCONSUMER, which drops it (broker/redis.py:666, against the comment at
  broker/redis.py:661; `SweepDropsOnlyLate`).
* RabbitMQ: `channel_acquire_timeout` cuts off the whole of an operation, past the
  "On error, requeue all messages" of its except clauses (broker/rabbitmq.py:754): what it
  fetched stays hidden on its pooled channel.
* `get_queue_size` of the Redis broker counts acknowledged entries
  (broker/redis.py:613). A broker in at-most-once mode reads without NOACK and never
  acknowledges, so that its PEL grows (broker/redis.py:348).
* An explicit mode is written into a config object that other applications share
  (app.py:84): brokers and tasks made before and after have different ones.
* `result_ttl` 0 is "no expiration" to config.py:273 and an error to Redis (`Unusable`);
  a `prefetch_count` above 65535 does not fit in AMQP, a `message_ttl` or
  `dlq_message_ttl` above 2^32 - 1 is refused by RabbitMQ (config.py:179-188), and
  several other fields without an upper bound admit numbers that Redis, AMQP or a
  date cannot take (`Limit` in Settings); the url of the environment overrules an
  explicit host (docs/user-guide/configuration.md:8; `AddressInOrder`); urls of synchronous
  drivers pass the validation of PostgreSQL and MySQL and fail on connecting.
* A task of `__main__` without a name is always refused: the file that is imported
  under its other name defines another object (utils.py:38, against the example
  at utils.py:57).
* Validated calls are more lenient than Python: a surplus argument is dropped, a
  doubled one decided for the keyword, and an argument may reach a keyword-only
  parameter (task.py:121). A parameter of a model's type receives a dict (task.py:126,
  against README.md:209; `ArrivesInForm`).
* On Redis `AsyncResult.state()` never sees STARTED or RETRY, and `get()` without a
  timeout never returns for a task with `ignore_result` (result.py:53).

## 6. Not modelled, and why

* Exceptions, logging, abstract interfaces: no behaviour of their own.
* Serialisation and malformed messages: a malformed Redis entry stays pending, a
  malformed RabbitMQ one is acknowledged and skipped; no task is behind them.
  (A message that holds an object of a class which the worker cannot import is one of
  these.) Of a single value TaskInputs knows whether it is an object or data, and of a call
  whether pydantic takes its values.
* Counts and listings of the brokers, health checks, the tables of the CLI: they
  change no state. Schema creation: once, before everything.
* Connections, reconnects and their delays, the SQL connection pool: a closed
  channel and a call that raises stand for them.
* RabbitMQ queue limits and TTLs of the main queue, priorities, declarations: the
  main queue exists from the start. A delayed message whose main queue was never
  declared is dropped by RabbitMQ, and a per-message TTL is looked at only at the
  head of the delayed queue (broker/rabbitmq.py:277): a short delay may wait for a long
  one.
* A restart of the same Worker object, KeyboardInterrupt on Windows, the counters
  of `get_stats`.

## 7. Plan

1. RabbitMQBroker: the declarations, and delayed messages in the order of their queue.
2. RedisAdmin: a second queue, whose consumers the sweep never visits.
3. The SQL pool: `DbPoolExhaustedException` and the sessions of several tasks.
4. Proofs: an abstract specification in which the broker may drop a task, refined by
   Worker without `MaxStreamLength = 0`.
