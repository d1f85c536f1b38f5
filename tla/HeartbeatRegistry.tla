--------------------------- MODULE HeartbeatRegistry ---------------------------
(***************************************************************************)
(* The registry of workers that the result backends keep: heartbeats with  *)
(* a time to live, the set of names on Redis (src/chicory/backend/redis.py)*)
(* or the table of rows in SQL (backend/database.py), the listing of active*)
(* workers, and the sweep of stale ones (worker.py, cli/cli.py).           *)
(*                                                                         *)
(* Time is discrete and relative: every timer holds what is left of it, so *)
(* that time may pass for ever in finitely many states.  A beat carries no *)
(* payload here.                                                           *)
(***************************************************************************)
EXTENDS Integers, FiniteSets

CONSTANTS
    Workers,
    Sweepers,       \* the cleanup loops, and operators that run the cleanup command
    Readers,        \* those who list the workers
    Kinds,          \* the backends looked at, of "redis" and "sql"
    Interval,       \* heartbeat_interval
    Ttl,            \* heartbeat_ttl
    Stale,          \* stale_workers_timeout, or --stale-seconds
    Drain,          \* bound: how long stop() waits before its last heartbeat
    Latency,        \* bound: how long a call of the backend takes
    Skew,           \* bound: how far apart the clocks of two machines are
    MaxFaults       \* bound: the calls that fail

ASSUME RegistryAssumption ==
    /\ Kinds \subseteq {"redis", "sql"}
    /\ {Interval, Ttl, Stale, Drain, Latency, Skew, MaxFaults} \subseteq Nat
    /\ Interval > Latency     \* a call ends before the next heartbeat is due
    /\ Ttl > Interval         \* Settings.validate_config

VARIABLES
    kind,           \* the backend, "redis" or "sql": it never changes
    drift,          \* drift[p]: how far the clock of p is ahead of the true time
    up,             \* up[w]: what the worker does about its heartbeat
    left,           \* left[w]: how long that may still take
    found,          \* found[w]: the session that is open selected a row
    life,           \* life[w]: time until the stored heartbeat expires
    names,          \* Redis: the set chicory:workers
    sweep,          \* sweep[s]: where the cleanup of s is
    reading,        \* reading[r]: the names that SMEMBERS returned
    view,           \* view[r]: the workers that the last listing showed
    calm,           \* calm[w]: heartbeats stored since one failed, up to three
    faults

beatVars == <<up, left, found, calm>>
rowVars == <<life, names>>
vars == <<kind, drift, beatVars, rowVars, sweep, reading, view, faults>>

Processes == Workers \cup Sweepers \cup Readers
Oldest == 0 - (Stale + Skew + 1)
None == Ttl + Skew + 1                      \* no heartbeat is stored
Lives == (Oldest .. Ttl + Skew) \cup {None}
Idle == [at |-> "idle", todo |-> {}, stale |-> {}, left |-> 0]
Calling == {"sending", "parting"}
Serving == {"sending", "resting", "draining", "parting"}

TypeOK ==
    /\ kind \in Kinds
    /\ drift \in [Processes -> 0..Skew]
    /\ up \in [Workers -> Serving \cup {"new", "gone"}]
    /\ left \in [Workers -> 0 .. (Interval + Drain + Latency)]
    /\ found \in [Workers -> BOOLEAN]
    /\ life \in [Workers -> Lives]
    /\ names \subseteq Workers
    /\ sweep \in [Sweepers -> [at : {"idle", "asking", "removing"}, todo : SUBSET Workers,
                              stale : SUBSET Workers, left : 0..Latency]]
    /\ reading \in [Readers -> [asked : BOOLEAN, names : SUBSET Workers, left : 0..Latency]]
    /\ view \in [Readers -> SUBSET Workers]
    /\ calm \in [Workers -> 0..3]
    /\ faults \in 0..MaxFaults

\* The clocks of a Redis server are its own; SQL compares what clients wrote.
Init ==
    /\ kind \in Kinds
    /\ drift \in [Processes -> IF kind = "sql" THEN 0..Skew ELSE {0}]
    /\ up = [w \in Workers |-> "new"]
    /\ left = [w \in Workers |-> 0]
    /\ found = [w \in Workers |-> FALSE]
    /\ life = [w \in Workers |-> None]
    /\ names = {}
    /\ sweep = [s \in Sweepers |-> Idle]
    /\ reading = [r \in Readers |-> [asked |-> FALSE, names |-> {}, left |-> 0]]
    /\ view = [r \in Readers |-> {}]
    /\ calm = [w \in Workers |-> 0]
    /\ faults = 0

--------------------------------------------------------------------------------
(* What is stored.                                                         *)

\* A row of w exists (in SQL until it is deleted, whether it expired or not).
HasRow(w) == life[w] # None
\* The key exists: Redis drops it when its time to live is over.
HasKey(w) == HasRow(w) /\ life[w] > 0

\* Does p, by its clock, see a heartbeat of w that has not expired?
Fresh(w, p) == HasRow(w) /\ life[w] > drift[p]

\* The time since the heartbeat that is stored was made.
Silence(w) == Ttl + (IF kind = "sql" THEN drift[w] ELSE 0) - life[w]

\* get_active_workers would show w, whoever calls it.
Listed(w) ==
    /\ HasRow(w) /\ life[w] > (IF kind = "sql" THEN Skew ELSE 0)
    /\ kind = "redis" => w \in names

--------------------------------------------------------------------------------
(* Heartbeats.                                                             *)

\* _send_heartbeat: the call begins.  In SQL the session selects the row.
Send(w, state) ==
    /\ up' = [up EXCEPT ![w] = state]
    /\ left' = [left EXCEPT ![w] = Latency]
    /\ found' = [found EXCEPT ![w] = kind = "sql" /\ HasRow(w)]

\* start(): the loop sends its first heartbeat at once.
Start(w) ==
    /\ up[w] = "new"
    /\ Send(w, "sending")
    /\ UNCHANGED <<kind, drift, rowVars, sweep, reading, view, calm, faults>>

\* asyncio.sleep(heartbeat_interval) is over.
NextBeat(w) ==
    /\ up[w] = "resting" /\ left[w] = 0
    /\ Send(w, "sending")
    /\ UNCHANGED <<kind, drift, rowVars, sweep, reading, view, calm, faults>>

\* Mutant: only the first heartbeat adds the name to the set.
RedisStoreFirst(w) ==
    /\ life' = [life EXCEPT ![w] = Ttl]
    /\ names' = IF HasRow(w) THEN names ELSE names \cup {w}

\* Redis: MULTI, SET with EX, SADD, EXEC.
RedisStore(w) ==
    /\ life' = [life EXCEPT ![w] = Ttl]
    /\ names' = names \cup {w}

\* Mutant: the update adds the time to live to the expires_at of its row.
SqlStoreExtends(w) ==
    /\ found[w] => HasRow(w)
    /\ life' = [life EXCEPT ![w] =
          Ttl + (IF found[w] THEN @ ELSE drift[w] - (Latency - left[w]))]
    /\ UNCHANGED names

\* SQL: insert, or update by primary key; expires_at was computed when the
\* session began, by the worker's clock.  The update of a row that was
\* deleted meanwhile raises StaleDataError.
SqlStore(w) ==
    /\ found[w] => HasRow(w)
    /\ life' = [life EXCEPT ![w] = Ttl + drift[w] - (Latency - left[w])]
    /\ UNCHANGED names

Store(w) == IF kind = "redis" THEN RedisStore(w) ELSE SqlStore(w)

\* The worker goes on after its call: to sleep, or to shut down.
GoOn(w) ==
    /\ up' = [up EXCEPT ![w] = IF up[w] = "sending" THEN "resting" ELSE "gone"]
    /\ left' = [left EXCEPT ![w] = IF up[w] = "sending" THEN Interval ELSE 0]
    /\ found' = [found EXCEPT ![w] = FALSE]

Beat(w) ==
    /\ up[w] \in Calling
    /\ Store(w)
    /\ GoOn(w)
    /\ calm' = [calm EXCEPT ![w] = IF @ < 3 THEN @ + 1 ELSE @]
    /\ UNCHANGED <<kind, drift, sweep, reading, view, faults>>

\* The call raises; it is logged, and the loop sleeps as ever.
BeatFails(w) ==
    /\ up[w] \in Calling
    /\ \/ faults < MaxFaults /\ faults' = faults + 1
       \/ found[w] /\ ~HasRow(w) /\ UNCHANGED faults
    /\ GoOn(w)
    /\ calm' = [calm EXCEPT ![w] = 0]
    /\ UNCHANGED <<kind, drift, rowVars, sweep, reading, view>>

\* A call that is cut off may have been carried out.
CutOff(w) == \/ UNCHANGED rowVars
             \/ up[w] \in Calling /\ Store(w)

\* stop() cancels the loop, and waits for the consume loop and the handlers.
Stop(w) ==
    /\ up[w] \in {"sending", "resting"}
    /\ CutOff(w)
    /\ up' = [up EXCEPT ![w] = "draining"]
    /\ left' = [left EXCEPT ![w] = Drain]
    /\ found' = [found EXCEPT ![w] = FALSE]
    /\ UNCHANGED <<kind, drift, sweep, reading, view, calm, faults>>

\* The last heartbeat, which says that the worker no longer runs.
Part(w) ==
    /\ up[w] = "draining"
    /\ Send(w, "parting")
    /\ UNCHANGED <<kind, drift, rowVars, sweep, reading, view, calm, faults>>

Crash(w) ==
    /\ up[w] \in Serving
    /\ CutOff(w)
    /\ up' = [up EXCEPT ![w] = "gone"]
    /\ left' = [left EXCEPT ![w] = 0]
    /\ found' = [found EXCEPT ![w] = FALSE]
    /\ UNCHANGED <<kind, drift, sweep, reading, view, calm, faults>>

--------------------------------------------------------------------------------
(* cleanup_stale_clients, called by the cleanup loops and by the command.  *)

\* Redis: SMEMBERS.
SweepNames(s) ==
    /\ kind = "redis" /\ sweep[s].at = "idle"
    /\ sweep' = [sweep EXCEPT ![s] = [at |-> "asking", todo |-> names, stale |-> {}, left |-> Latency]]
    /\ UNCHANGED <<kind, drift, beatVars, rowVars, reading, view, faults>>

\* EXISTS of the next name; stale_seconds is not looked at.
SweepExists(s) ==
    /\ sweep[s].at = "asking"
    /\ \E w \in sweep[s].todo :
        sweep' = [sweep EXCEPT ![s] =
                    [at |-> IF HasKey(w) THEN "asking" ELSE "removing",
                     todo |-> @.todo \ {w},
                     stale |-> IF HasKey(w) THEN {} ELSE {w},
                     left |-> Latency]]
    /\ UNCHANGED <<kind, drift, beatVars, rowVars, reading, view, faults>>

\* Mutant: the sweep forgets to remove what it found.
SweepRemoveNothing(s) ==
    /\ sweep[s].at = "removing"
    /\ sweep' = [sweep EXCEPT ![s] = [@ EXCEPT !.at = "asking", !.stale = {}, !.left = Latency]]
    /\ UNCHANGED <<kind, drift, beatVars, rowVars, reading, view, faults>>

\* SREM of the name whose key did not exist.
SweepRemove(s) ==
    /\ sweep[s].at = "removing"
    /\ names' = names \ sweep[s].stale
    /\ sweep' = [sweep EXCEPT ![s] = [@ EXCEPT !.at = "asking", !.stale = {}, !.left = Latency]]
    /\ UNCHANGED <<kind, drift, beatVars, life, reading, view, faults>>

SweepDone(s) ==
    /\ sweep[s].at = "asking" /\ sweep[s].todo = {}
    /\ sweep' = [sweep EXCEPT ![s] = Idle]
    /\ UNCHANGED <<kind, drift, beatVars, rowVars, reading, view, faults>>

\* A call raises: the loop logs it and tries again after its interval.
SweepFails(s) ==
    /\ sweep[s].at # "idle" /\ faults < MaxFaults
    /\ sweep' = [sweep EXCEPT ![s] = Idle]
    /\ faults' = faults + 1
    /\ UNCHANGED <<kind, drift, beatVars, rowVars, reading, view>>

\* Mutant: rows go as soon as they expire.
SqlSweepExpired(s) ==
    /\ kind = "sql"
    /\ life' = [w \in Workers |-> IF HasRow(w) /\ life[w] <= drift[s] THEN None ELSE life[w]]
    /\ UNCHANGED <<kind, drift, beatVars, names, sweep, reading, view, faults>>

\* SQL: DELETE the rows that expired stale_seconds ago, by the sweeper's clock.
SqlSweep(s) ==
    /\ kind = "sql"
    /\ life' = [w \in Workers |->
                  IF HasRow(w) /\ life[w] <= drift[s] - Stale THEN None ELSE life[w]]
    /\ UNCHANGED <<kind, drift, beatVars, names, sweep, reading, view, faults>>

--------------------------------------------------------------------------------
(* get_active_workers.                                                     *)

\* Redis: SMEMBERS.
ListNames(r) ==
    /\ kind = "redis" /\ ~reading[r].asked
    /\ reading' = [reading EXCEPT ![r] = [asked |-> TRUE, names |-> names, left |-> Latency]]
    /\ view' = [view EXCEPT ![r] = {}]
    /\ UNCHANGED <<kind, drift, beatVars, rowVars, sweep, faults>>

\* Redis: one pipeline of GETs.
ListBeats(r) ==
    /\ reading[r].asked
    /\ view' = [view EXCEPT ![r] = {w \in reading[r].names : HasKey(w)}]
    /\ reading' = [reading EXCEPT ![r] = [asked |-> FALSE, names |-> {}, left |-> 0]]
    /\ UNCHANGED <<kind, drift, beatVars, rowVars, sweep, faults>>

\* SQL: one SELECT, by the reader's clock.
SqlList(r) ==
    /\ kind = "sql"
    /\ view' = [view EXCEPT ![r] = {w \in Workers : Fresh(w, r)}]
    /\ UNCHANGED <<kind, drift, beatVars, rowVars, sweep, reading, faults>>

--------------------------------------------------------------------------------
(* Time.  It does not pass a deadline: the end of a sleep, a call's latency*)
(* and the time that draining takes.                                       *)

Minus(n) == IF n > 0 THEN n - 1 ELSE 0

Tick ==
    /\ \A w \in Workers : up[w] \in Serving => left[w] > 0
    /\ \A s \in Sweepers : sweep[s].at # "idle" => sweep[s].left > 0
    /\ \A r \in Readers : reading[r].asked => reading[r].left > 0
    /\ left' = [w \in Workers |-> Minus(left[w])]
    /\ sweep' = [s \in Sweepers |-> [sweep[s] EXCEPT !.left = Minus(@)]]
    /\ reading' = [r \in Readers |-> [reading[r] EXCEPT !.left = Minus(@)]]
    /\ life' = [w \in Workers |->
                  IF HasRow(w) /\ life[w] > Oldest THEN life[w] - 1 ELSE life[w]]
    /\ UNCHANGED <<kind, drift, up, found, names, view, calm, faults>>

--------------------------------------------------------------------------------

WorkerNext(w) ==
    Start(w) \/ NextBeat(w) \/ Beat(w) \/ BeatFails(w) \/ Stop(w) \/ Part(w) \/ Crash(w)
SweepNext(s) ==
    SweepNames(s) \/ SweepExists(s) \/ SweepRemove(s) \/ SweepDone(s) \/ SweepFails(s) \/ SqlSweep(s)
ListNext(r) == ListNames(r) \/ ListBeats(r) \/ SqlList(r)

Next ==
    \/ \E w \in Workers : WorkerNext(w)
    \/ \E s \in Sweepers : SweepNext(s)
    \/ \E r \in Readers : ListNext(r)
    \/ Tick

Spec == Init /\ [][Next]_vars

\* Time passes, calls end, loops go on, and someone's cleanup comes again.
FairSpec ==
    /\ Spec
    /\ WF_vars(Tick)
    /\ \A w \in Workers : WF_vars(NextBeat(w)) /\ WF_vars(Beat(w) \/ BeatFails(w)) /\ WF_vars(Part(w))
    /\ \A s \in Sweepers :
        /\ WF_vars(SweepNames(s)) /\ WF_vars(SweepExists(s) \/ SweepRemove(s) \/ SweepDone(s))
        /\ WF_vars(SqlSweep(s))
    /\ \A r \in Readers : WF_vars(ListBeats(r))

--------------------------------------------------------------------------------
(* Properties.                                                             *)

\* A heartbeat outlives the worker's sleep and its next call.  validate_config asks for
\* Ttl > Interval only; the defaults, 30 and 10 seconds, leave 20 for calls and skew.
OutlivesRest == Ttl > Interval + 2 * Latency + Skew

\* It outlives the whole of what stop() waits for, and the last call.  The defaults do
\* not grant that: stop() waits for the consume loop for 5 seconds and for the handlers
\* for 30.
OutlivesDrain == Ttl > Interval + Drain + 3 * Latency + Skew

\* The worker is at something that its last heartbeat outlives; a drain, for so long.
Outlives(w) ==
    \/ up[w] \in {"sending", "resting"} /\ OutlivesRest
    \/ up[w] = "draining" /\ Ttl > Interval + (Drain - left[w]) + 2 * Latency + Skew
    \/ up[w] = "parting" /\ OutlivesDrain

\* A worker whose last two heartbeats were stored is in the registry until
\* its next one, however the clocks differ and whatever was swept: SREM may undo one
\* heartbeat, never two.  While it drains, which it does without heartbeats, it
\* stays there for what its sleep and calls leave of the time to live, and may vanish
\* after that.
SteadyListed ==
    \A w \in Workers : Outlives(w) /\ calm[w] >= 2 => Listed(w)

\* A listing shows the workers that have been steady since it began, and
\* nobody who has been silent for longer than the time to live (and the skew).
ListingHonest ==
    [][\A r \in Readers :
        (ListBeats(r) \/ SqlList(r)) =>
            /\ {w \in Workers : Outlives(w) /\ calm[w] = 3} \subseteq view'[r]
            /\ \A w \in view'[r] : Silence(w) < Ttl + Skew]_vars

\* The registry forgets the workers that are gone, crashed or not: the sweep
\* reaches them even if some of its calls fail.
DeadForgotten ==
    \A w \in Workers :
        up[w] = "gone" ~> IF kind = "sql" THEN ~HasRow(w) ELSE w \notin names

\* A worker that goes on serving is listed again and again, although a sweep
\* may take its name or its row while its heartbeat is under way.
ComesBack ==
    \A w \in Workers : []<>(Listed(w) \/ up[w] \notin {"sending", "resting"})

\* cleanup_stale_clients removes "backend clients older than stale_seconds"
\* (base.py:62).  That holds in SQL only: the sweep of Redis does not look at
\* stale_seconds, a name goes when it is found without its key.
SweepsOnlyStale ==
    [][\A s \in Sweepers :
        SqlSweep(s) =>
            \A w \in Workers :
                HasRow(w) /\ life'[w] = None => Silence(w) + Skew >= Stale]_vars

\* What is listed is alive, and what is swept from the table was silent.
ListsAndSweepsHonestly == ListingHonest /\ SweepsOnlyStale

\* The registry catches up with the workers, with those that go and those that stay.
CatchesUp == DeadForgotten /\ ComesBack
================================================================================
