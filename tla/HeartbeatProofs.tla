---------------------------- MODULE HeartbeatProofs ----------------------------
(***************************************************************************)
(* The registry of workers, for any number of workers, sweeps and readers, *)
(* on Redis and in SQL, any periods that validate_config admits with calls *)
(* shorter than the heartbeat interval, any drift of the clocks within Skew*)
(* and any number of failed calls.                                         *)
(***************************************************************************)
EXTENDS HeartbeatRegistry, TLAPS

\* How much of its sleep, call or drain may be left to a worker.
LeftOK(w) ==
    /\ up[w] \in Calling => left[w] <= Latency
    /\ up[w] = "resting" => left[w] <= Interval
    /\ up[w] = "draining" => left[w] <= Drain
    /\ up[w] = "new" => calm[w] = 0

\* The least that a heartbeat which was stored has still to live: its own call took a
\* Latency of it at most, and after that came the sleep, the call, the drain.
Floor(w) ==
    CASE up[w] = "resting" -> Ttl - Latency - Interval + left[w]
      [] up[w] = "sending" -> Ttl - 2 * Latency - Interval + left[w]
      [] up[w] = "draining" -> Ttl - 2 * Latency - Interval - Drain + left[w]
      [] OTHER -> Ttl - 3 * Latency - Interval - Drain + left[w]

LifeOK(w) ==
    Outlives(w) /\ calm[w] >= 1 => HasRow(w) /\ life[w] >= Floor(w)

\* The second of two heartbeats brings the name back to stay.
NameOK(w) == kind = "redis" /\ Outlives(w) /\ calm[w] >= 2 => w \in names

\* Since its last heartbeat the worker slept for less than a call that is under way
\* and has n left may take; or it has stopped.
JustBeaten(w, n) ==
    \/ up[w] = "resting" /\ n + Interval - left[w] <= Latency
    \/ up[w] \in {"draining", "parting"}

\* A name that is about to be removed had no key when the sweep asked, so that one
\* heartbeat at most has come since.
StaleOK(s, w) ==
    w \in sweep[s].stale =>
        /\ sweep[s].at = "removing"
        /\ Outlives(w) /\ calm[w] >= 1
               => calm[w] = 1 /\ JustBeaten(w, sweep[s].left)

\* A listing under way misses nobody but those who came back after it began.
ReadOK(r, w) ==
    reading[r].asked /\ Outlives(w) /\ calm[w] >= 2 /\ w \notin reading[r].names
        => calm[w] = 2 /\ JustBeaten(w, reading[r].left)

HInv ==
    /\ TypeOK
    /\ \A w \in Workers : LeftOK(w) /\ LifeOK(w) /\ NameOK(w)
    /\ \A s \in Sweepers, w \in Workers : StaleOK(s, w)
    /\ \A r \in Readers : reading[r].asked => kind = "redis"
    /\ \A r \in Readers, w \in Workers : ReadOK(r, w)

USE DEF Calling, Serving, Outlives, OutlivesRest, OutlivesDrain

--------------------------------------------------------------------------------
(* Numbers.                                                                *)

LEMMA Periods ==
    /\ Interval \in Nat /\ Ttl \in Nat /\ Stale \in Nat /\ Drain \in Nat
    /\ Latency \in Nat /\ Skew \in Nat /\ MaxFaults \in Nat
    /\ Interval > Latency /\ Ttl > Interval
BY RegistryAssumption

LEMMA Values ==
    ASSUME TypeOK, NEW w \in Workers
    PROVE  /\ life[w] \in Int /\ left[w] \in Nat /\ calm[w] \in 0..3
           /\ drift[w] \in 0..Skew
           /\ HasRow(w) <=> life[w] \in Oldest .. Ttl + Skew
           /\ up[w] \in Serving \cup {"new", "gone"}
<1>1. life[w] \in Lives /\ left[w] \in 0 .. (Interval + Drain + Latency)
  BY DEF TypeOK
<1>2. Oldest \in Int /\ Oldest <= 0 /\ None \in Int /\ None = Ttl + Skew + 1
  BY Periods DEF Oldest, None
<1>3. life[w] \in Int /\ (HasRow(w) <=> life[w] \in Oldest .. Ttl + Skew)
  BY <1>1, <1>2, Periods DEF Lives, HasRow
<1>4. left[w] \in Nat
  BY <1>1
<1> QED
  BY <1>3, <1>4 DEF TypeOK, Processes

\* A heartbeat of a worker that serves and has stored one lives on, by every clock.
LEMMA Lasting ==
    ASSUME TypeOK, NEW w \in Workers, LeftOK(w), LifeOK(w), Outlives(w), calm[w] >= 1
    PROVE  /\ HasRow(w) /\ life[w] > Skew /\ HasKey(w) /\ life[w] > Oldest
           /\ \A p \in Processes : Fresh(w, p)
<1>1. HasRow(w) /\ life[w] >= Floor(w) /\ life[w] \in Int /\ left[w] \in Nat
  BY Values DEF LifeOK
<1>2. Floor(w) > Skew /\ Floor(w) \in Int
  BY <1>1, Periods DEF Floor, LeftOK
<1>3. life[w] > Skew
  BY <1>1, <1>2, Periods
<1>4. Oldest < 0
  BY Periods DEF Oldest
<1>5. \A p \in Processes : drift[p] \in 0 .. Skew
  BY DEF TypeOK
<1> QED
  BY <1>1, <1>3, <1>4, <1>5, Periods DEF HasKey, Fresh, Oldest

--------------------------------------------------------------------------------

LEMMA InitHInv == Init => HInv
<1> SUFFICES ASSUME Init PROVE HInv
  OBVIOUS
<1>1. TypeOK
  <2>1. drift \in [Processes -> 0 .. Skew]
    BY Periods DEF Init
  <2>2. left \in [Workers -> 0 .. (Interval + Drain + Latency)]
    BY Periods DEF Init
  <2>3. 0 \in 0 .. Latency /\ 0 \in 0 .. MaxFaults /\ 0 \in 0 .. 3
    BY Periods
  <2>4. None \in Lives
    BY DEF Lives
  <2> QED
    BY <2>1, <2>2, <2>3, <2>4 DEF Init, TypeOK, Idle
<1>2. \A w \in Workers : up[w] = "new" /\ calm[w] = 0
  BY DEF Init
<1>3. \A s \in Sweepers : sweep[s].stale = {}
  BY DEF Init, Idle
<1>4. \A r \in Readers : ~reading[r].asked
  BY DEF Init
<1> QED
  BY <1>1, <1>2, <1>3, <1>4 DEF HInv, LeftOK, LifeOK, NameOK, StaleOK, ReadOK

--------------------------------------------------------------------------------
(* Workers.                                                                *)

\* A step of worker v disturbs nobody else.
LEMMA OnlyOne ==
    ASSUME HInv, TypeOK', NEW v \in Workers,
           UNCHANGED <<kind, sweep, reading>>, names \subseteq names',
           \A w \in Workers \ {v} :
               UNCHANGED <<up[w], left[w], calm[w], life[w]>>,
           LeftOK(v)', LifeOK(v)', NameOK(v)',
           \A s \in Sweepers : StaleOK(s, v)', \A r \in Readers : ReadOK(r, v)'
    PROVE  HInv'
<1>1. ASSUME NEW w \in Workers \ {v}
      PROVE  /\ LeftOK(w)' /\ LifeOK(w)' /\ NameOK(w)'
             /\ \A s \in Sweepers : StaleOK(s, w)'
             /\ \A r \in Readers : ReadOK(r, w)'
  <2>1. /\ LeftOK(w) /\ LifeOK(w) /\ NameOK(w)
        /\ \A s \in Sweepers : StaleOK(s, w)
        /\ \A r \in Readers : ReadOK(r, w)
    BY DEF HInv
  <2>2. LeftOK(w)' /\ LifeOK(w)' /\ NameOK(w)'
    BY <2>1 DEF LeftOK, LifeOK, NameOK, Floor, HasRow
  <2>3. \A s \in Sweepers : StaleOK(s, w)'
    BY <2>1 DEF StaleOK, JustBeaten
  <2>4. \A r \in Readers : ReadOK(r, w)'
    BY <2>1 DEF ReadOK, JustBeaten
  <2> QED
    BY <2>2, <2>3, <2>4
<1> QED
  BY <1>1 DEF HInv

LEMMA SendTypes ==
    ASSUME TypeOK, NEW w \in Workers, NEW state \in Serving, Send(w, state)
    PROVE  /\ up' \in [Workers -> Serving \cup {"new", "gone"}]
           /\ left' \in [Workers -> 0 .. (Interval + Drain + Latency)]
           /\ found' \in [Workers -> BOOLEAN]
<1>1. Latency \in 0 .. (Interval + Drain + Latency)
  BY Periods
<1>2. (kind = "sql" /\ HasRow(w)) \in BOOLEAN
  OBVIOUS
<1> QED
  BY <1>1, <1>2 DEF Send, TypeOK

\* What Store writes: a heartbeat that lives for Ttl, but for the time of its own call
\* and the drift of the worker's clock.
LEMMA StoreWrites ==
    ASSUME TypeOK, NEW w \in Workers, LeftOK(w), up[w] \in Calling, Store(w)
    PROVE  /\ life' \in [Workers -> Lives] /\ names' \subseteq Workers
           /\ \A v \in Workers \ {w} : life'[v] = life[v]
           /\ life'[w] >= Ttl - Latency /\ life'[w] <= Ttl + Skew
           /\ life'[w] \in Int
           /\ names \subseteq names' /\ (kind = "redis" => w \in names')
<1> USE Periods
<1>1. left[w] \in Nat /\ left[w] <= Latency /\ drift[w] \in 0 .. Skew
  BY Values DEF LeftOK
<1>2. CASE kind = "redis"
  <2>1. life' = [life EXCEPT ![w] = Ttl] /\ names' = names \cup {w}
    BY <1>2 DEF Store, RedisStore
  <2>2. Ttl \in Lives
    BY DEF Lives, Oldest
  <2>3. life'[w] = Ttl /\ \A v \in Workers \ {w} : life'[v] = life[v]
    BY <2>1 DEF TypeOK
  <2>4. life' \in [Workers -> Lives] /\ names' \subseteq Workers
    BY <2>1, <2>2 DEF TypeOK
  <2> QED
    BY <2>1, <2>3, <2>4
<1>3. CASE kind # "redis"
  <2> DEFINE n == Ttl + drift[w] - (Latency - left[w])
  <2>1. life' = [life EXCEPT ![w] = n] /\ names' = names
    BY <1>3 DEF Store, SqlStore
  <2>2. n \in Int /\ n >= Ttl - Latency /\ n <= Ttl + Skew
    BY <1>1
  <2> HIDE DEF n
  <2>3. n \in Lives
    BY <2>2 DEF Lives, Oldest
  <2>4. life'[w] = n /\ \A v \in Workers \ {w} : life'[v] = life[v]
    BY <2>1 DEF TypeOK
  <2>5. life' \in [Workers -> Lives] /\ names' \subseteq Workers
    BY <2>1, <2>3 DEF TypeOK
  <2> QED
    BY <1>3, <2>1, <2>2, <2>4, <2>5
<1> QED
  BY <1>2, <1>3

LEMMA StartKeeps ==
    ASSUME HInv, NEW w \in Workers, Start(w)
    PROVE  HInv'
<1>1. /\ up[w] = "new" /\ Send(w, "sending")
      /\ UNCHANGED <<kind, drift, life, names, sweep, reading, view, calm, faults>>
  BY DEF Start, rowVars
<1>2. TypeOK'
  BY <1>1, SendTypes DEF HInv, TypeOK
<1>3. /\ up'[w] = "sending" /\ left'[w] = Latency /\ calm'[w] = 0
      /\ \A v \in Workers \ {w} : UNCHANGED <<up[v], left[v], calm[v], life[v]>>
  BY <1>1 DEF HInv, LeftOK, TypeOK, Send
<1>4. LeftOK(w)'
  BY <1>3, Periods DEF LeftOK
<1>5. /\ LifeOK(w)' /\ NameOK(w)' /\ \A s \in Sweepers : StaleOK(s, w)'
      /\ \A r \in Readers : ReadOK(r, w)'
  BY <1>1, <1>3 DEF HInv, LifeOK, NameOK, StaleOK, ReadOK
<1> QED
  BY <1>1, <1>2, <1>3, <1>4, <1>5, OnlyOne

LEMMA NextBeatKeeps ==
    ASSUME HInv, NEW w \in Workers, NextBeat(w)
    PROVE  HInv'
<1>1. /\ up[w] = "resting" /\ left[w] = 0 /\ Send(w, "sending")
      /\ UNCHANGED <<kind, drift, life, names, sweep, reading, view, calm, faults>>
  BY DEF NextBeat, rowVars
<1>2. TypeOK'
  BY <1>1, SendTypes DEF HInv, TypeOK
<1>3. /\ up'[w] = "sending" /\ left'[w] = Latency /\ calm'[w] = calm[w]
      /\ \A v \in Workers \ {w} : UNCHANGED <<up[v], left[v], calm[v], life[v]>>
  BY <1>1 DEF HInv, TypeOK, Send
<1>4. LeftOK(w)'
  BY <1>3, Periods DEF LeftOK
<1>5. LifeOK(w)' /\ NameOK(w)'
  <2>1. LifeOK(w) /\ NameOK(w) /\ life[w] \in Int
    BY Values DEF HInv
  <2>2. NameOK(w)'
    BY <1>1, <1>3, <2>1 DEF NameOK
  <2>3. LifeOK(w)'
    BY <1>1, <1>3, <2>1, Periods DEF LifeOK, Floor, HasRow
  <2> QED
    BY <2>2, <2>3
<1>6. \A n \in Nat : ~JustBeaten(w, n)
  BY <1>1, Periods DEF JustBeaten
<1>7. \A s \in Sweepers : StaleOK(s, w)'
  <2> SUFFICES ASSUME NEW s \in Sweepers PROVE StaleOK(s, w)'
    OBVIOUS
  <2>1. sweep[s].left \in Nat /\ StaleOK(s, w)
    BY DEF HInv, TypeOK
  <2> QED
    BY <1>1, <1>3, <1>6, <2>1 DEF StaleOK
<1>8. \A r \in Readers : ReadOK(r, w)'
  <2> SUFFICES ASSUME NEW r \in Readers PROVE ReadOK(r, w)'
    OBVIOUS
  <2>1. reading[r].left \in Nat /\ ReadOK(r, w)
    BY DEF HInv, TypeOK
  <2> QED
    BY <1>1, <1>3, <1>6, <2>1 DEF ReadOK
<1> QED
  BY <1>1, <1>2, <1>3, <1>4, <1>5, <1>7, <1>8, OnlyOne

LEMMA PartKeeps ==
    ASSUME HInv, NEW w \in Workers, Part(w)
    PROVE  HInv'
<1>1. /\ up[w] = "draining" /\ Send(w, "parting")
      /\ UNCHANGED <<kind, drift, life, names, sweep, reading, view, calm, faults>>
  BY DEF Part, rowVars
<1>2. TypeOK'
  BY <1>1, SendTypes DEF HInv, TypeOK
<1>3. /\ up'[w] = "parting" /\ left'[w] = Latency /\ calm'[w] = calm[w]
      /\ \A v \in Workers \ {w} : UNCHANGED <<up[v], left[v], calm[v], life[v]>>
  BY <1>1 DEF HInv, TypeOK, Send
<1>4. LeftOK(w)'
  BY <1>3, Periods DEF LeftOK
<1>8. Outlives(w)' => Outlives(w)
  <2>1. left[w] \in Nat
    BY Values DEF HInv
  <2> QED
    BY <1>1, <1>3, <2>1, Periods
<1>5. LifeOK(w)' /\ NameOK(w)'
  <2>1. LifeOK(w) /\ NameOK(w) /\ life[w] \in Int /\ left[w] \in Nat
    BY Values DEF HInv
  <2>2. NameOK(w)'
    BY <1>1, <1>3, <1>8, <2>1 DEF NameOK
  <2>3. LifeOK(w)'
    <3>1. ASSUME Outlives(w)', calm'[w] >= 1 PROVE HasRow(w)' /\ life'[w] >= Floor(w)'
      <4>1. HasRow(w) /\ life[w] >= Floor(w)
        BY <1>3, <1>8, <2>1, <3>1 DEF LifeOK
      <4> QED
        BY <1>1, <1>3, <2>1, <4>1, Periods DEF Floor, HasRow
    <3> QED
      BY <3>1 DEF LifeOK
  <2> QED
    BY <2>2, <2>3
<1>6. \A s \in Sweepers : StaleOK(s, w)'
  BY <1>1, <1>3, <1>8 DEF HInv, StaleOK, JustBeaten
<1>7. \A r \in Readers : ReadOK(r, w)'
  BY <1>1, <1>3, <1>8 DEF HInv, ReadOK, JustBeaten
<1> QED
  BY <1>1, <1>2, <1>3, <1>4, <1>5, <1>6, <1>7, OnlyOne

\* What the worker's variables are after its call.
LEMMA GoOnFacts ==
    ASSUME TypeOK, NEW w \in Workers, up[w] \in Calling, GoOn(w)
    PROVE  /\ up' \in [Workers -> Serving \cup {"new", "gone"}]
           /\ left' \in [Workers -> 0 .. (Interval + Drain + Latency)]
           /\ found' \in [Workers -> BOOLEAN]
           /\ up[w] = "sending" => up'[w] = "resting" /\ left'[w] = Interval
           /\ up[w] = "parting" => up'[w] = "gone"
           /\ \A v \in Workers \ {w} : up'[v] = up[v] /\ left'[v] = left[v]
<1>1. Interval \in 0 .. (Interval + Drain + Latency) /\ 0 \in 0 .. (Interval + Drain + Latency)
  BY Periods
<1> QED
  BY <1>1 DEF GoOn, TypeOK

LEMMA BeatKeeps ==
    ASSUME HInv, NEW w \in Workers, Beat(w)
    PROVE  HInv'
<1>1. /\ up[w] \in Calling /\ Store(w) /\ GoOn(w)
      /\ calm' = [calm EXCEPT ![w] = IF @ < 3 THEN @ + 1 ELSE @]
      /\ UNCHANGED <<kind, drift, sweep, reading, view, faults>>
  BY DEF Beat
<1>2. /\ life' \in [Workers -> Lives] /\ names' \subseteq Workers
      /\ \A v \in Workers \ {w} : life'[v] = life[v]
      /\ life'[w] >= Ttl - Latency /\ life'[w] <= Ttl + Skew
      /\ life'[w] \in Int
      /\ names \subseteq names' /\ (kind = "redis" => w \in names')
  BY <1>1, StoreWrites DEF HInv
<1>3. /\ calm' \in [Workers -> 0..3]
      /\ calm'[w] = (IF calm[w] < 3 THEN calm[w] + 1 ELSE 3)
      /\ calm[w] \in 0..3
      /\ \A v \in Workers \ {w} : calm'[v] = calm[v]
  <2>1. calm \in [Workers -> 0..3]
    BY DEF HInv, TypeOK
  <2>2. calm[w] \in 0..3
    BY <2>1
  <2> QED
    BY <1>1, <2>1, <2>2
<1>4. TypeOK'
  BY <1>1, <1>2, <1>3, GoOnFacts DEF HInv, TypeOK
<1>5. \A v \in Workers \ {w} : UNCHANGED <<up[v], left[v], calm[v], life[v]>>
  BY <1>1, <1>2, <1>3, GoOnFacts DEF HInv
<1>6. CASE up[w] = "parting"
  <2>1. up'[w] = "gone"
    BY <1>1, <1>6, GoOnFacts DEF HInv
  <2>2. LeftOK(w)' /\ LifeOK(w)' /\ NameOK(w)'
    BY <2>1 DEF LeftOK, LifeOK, NameOK
  <2>3. /\ \A s \in Sweepers : StaleOK(s, w)'
        /\ \A r \in Readers : ReadOK(r, w)'
    BY <1>1, <2>1 DEF HInv, StaleOK, ReadOK
  <2> QED
    BY <1>1, <1>2, <1>4, <1>5, <2>2, <2>3, OnlyOne
<1>7. CASE up[w] = "sending"
  <2>1. up'[w] = "resting" /\ left'[w] = Interval
    BY <1>1, <1>7, GoOnFacts DEF HInv
  <2>2. LeftOK(w)' /\ NameOK(w)'
    BY <1>1, <1>2, <2>1, Periods DEF LeftOK, NameOK
  <2>3. LifeOK(w)'
    BY <1>2, <2>1, Periods DEF LifeOK, Floor, HasRow, None
  <2>4. \A n : ~JustBeaten(w, n)
    BY <1>7 DEF JustBeaten
  <2>5. \A n \in 0 .. Latency : JustBeaten(w, n)'
    BY <2>1, Periods DEF JustBeaten
  <2>6. \A s \in Sweepers : StaleOK(s, w)'
    <3> SUFFICES ASSUME NEW s \in Sweepers, w \in sweep[s].stale
                 PROVE  /\ sweep[s].at = "removing" /\ JustBeaten(w, sweep[s].left)'
                        /\ Outlives(w)' => calm'[w] <= 1
      BY <1>1, <1>3 DEF StaleOK
    <3>1. StaleOK(s, w) /\ sweep[s].left \in 0 .. Latency
      BY DEF HInv, TypeOK
    <3>2. sweep[s].at = "removing" /\ (Outlives(w)' => calm[w] < 1)
      BY <1>3, <1>7, <2>1, <2>4, <3>1 DEF StaleOK
    <3>3. JustBeaten(w, sweep[s].left)'
      BY <1>1, <2>5, <3>1
    <3> QED
      BY <1>3, <3>2, <3>3
  <2>7. \A r \in Readers : ReadOK(r, w)'
    <3> SUFFICES ASSUME NEW r \in Readers, reading[r].asked, w \notin reading[r].names
                 PROVE  /\ JustBeaten(w, reading[r].left)'
                        /\ Outlives(w)' => calm'[w] <= 2
      BY <1>1, <1>3 DEF ReadOK
    <3>1. ReadOK(r, w) /\ reading[r].left \in 0 .. Latency
      BY DEF HInv, TypeOK
    <3>2. Outlives(w)' => calm[w] < 2
      BY <1>3, <1>7, <2>1, <2>4, <3>1 DEF ReadOK
    <3>3. JustBeaten(w, reading[r].left)'
      BY <1>1, <2>5, <3>1
    <3> QED
      BY <1>3, <3>2, <3>3
  <2> QED
    BY <1>1, <1>2, <1>4, <1>5, <2>2, <2>3, <2>6, <2>7, OnlyOne
<1> QED
  BY <1>1, <1>6, <1>7

LEMMA BeatFailsKeeps ==
    ASSUME HInv, NEW w \in Workers, BeatFails(w)
    PROVE  HInv'
<1>1. /\ up[w] \in Calling /\ GoOn(w) /\ calm' = [calm EXCEPT ![w] = 0]
      /\ UNCHANGED <<kind, drift, life, names, sweep, reading, view>>
      /\ faults' = faults \/ (faults < MaxFaults /\ faults' = faults + 1)
  BY DEF BeatFails, rowVars
<1>2. faults' \in 0 .. MaxFaults
  BY <1>1, Periods DEF HInv, TypeOK
<1>3. /\ calm' \in [Workers -> 0..3] /\ calm'[w] = 0
      /\ \A v \in Workers \ {w} : calm'[v] = calm[v]
  BY <1>1 DEF HInv, TypeOK
<1>4. TypeOK'
  BY <1>1, <1>2, <1>3, GoOnFacts DEF HInv, TypeOK
<1>5. \A v \in Workers \ {w} : UNCHANGED <<up[v], left[v], calm[v], life[v]>>
  BY <1>1, <1>3, GoOnFacts DEF HInv
<1>6. LeftOK(w)'
  BY <1>1, <1>3, GoOnFacts, Periods DEF HInv, LeftOK
<1>7. /\ LifeOK(w)' /\ NameOK(w)' /\ \A s \in Sweepers : StaleOK(s, w)'
      /\ \A r \in Readers : ReadOK(r, w)'
  BY <1>1, <1>3 DEF HInv, LifeOK, NameOK, StaleOK, ReadOK
<1> QED
  BY <1>1, <1>4, <1>5, <1>6, <1>7, OnlyOne

\* A call that is cut off has stored its heartbeat or has not.
LEMMA CutOffWrites ==
    ASSUME TypeOK, NEW w \in Workers, LeftOK(w), CutOff(w)
    PROVE  /\ life' \in [Workers -> Lives] /\ names' \subseteq Workers
           /\ \A v \in Workers \ {w} : life'[v] = life[v]
           /\ names \subseteq names'
           /\ life'[w] = life[w] \/ (life'[w] >= Ttl - Latency /\ life'[w] <= Ttl + Skew)
           /\ life'[w] \in Int
<1>1. CASE UNCHANGED rowVars
  <2>1. life' = life /\ names' = names /\ life[w] \in Int
    BY <1>1, Values DEF rowVars
  <2> QED
    BY <2>1 DEF TypeOK
<1>2. CASE up[w] \in Calling /\ Store(w)
  BY <1>2, StoreWrites
<1> QED
  BY <1>1, <1>2 DEF CutOff

LEMMA StopKeeps ==
    ASSUME HInv, NEW w \in Workers, Stop(w)
    PROVE  HInv'
<1>1. /\ up[w] \in {"sending", "resting"} /\ CutOff(w)
      /\ up' = [up EXCEPT ![w] = "draining"] /\ left' = [left EXCEPT ![w] = Drain]
      /\ found' = [found EXCEPT ![w] = FALSE]
      /\ UNCHANGED <<kind, drift, sweep, reading, view, calm, faults>>
  BY DEF Stop
<1>2. /\ life' \in [Workers -> Lives] /\ names' \subseteq Workers
      /\ \A v \in Workers \ {w} : life'[v] = life[v]
      /\ names \subseteq names'
      /\ life'[w] = life[w] \/ (life'[w] >= Ttl - Latency /\ life'[w] <= Ttl + Skew)
      /\ life'[w] \in Int
  BY <1>1, CutOffWrites DEF HInv
<1>3. TypeOK'
  <2>1. Drain \in 0 .. (Interval + Drain + Latency)
    BY Periods
  <2>2. /\ up' \in [Workers -> Serving \cup {"new", "gone"}]
        /\ left' \in [Workers -> 0 .. (Interval + Drain + Latency)]
        /\ found' \in [Workers -> BOOLEAN]
    BY <1>1, <2>1 DEF HInv, TypeOK
  <2> QED
    BY <1>1, <1>2, <2>2 DEF HInv, TypeOK
<1>4. /\ up'[w] = "draining" /\ left'[w] = Drain /\ calm'[w] = calm[w]
      /\ \A v \in Workers \ {w} : UNCHANGED <<up[v], left[v], calm[v], life[v]>>
  BY <1>1, <1>2 DEF HInv, TypeOK
<1>5. LeftOK(w)' /\ NameOK(w)'
  BY <1>1, <1>2, <1>4, Periods DEF HInv, LeftOK, NameOK
<1>6. LifeOK(w)'
  <2>1. LifeOK(w) /\ life[w] \in Int /\ left[w] \in Nat
    BY Values DEF HInv
  <2>2. CASE life'[w] = life[w]
    BY <1>1, <1>4, <2>1, <2>2, Periods DEF LifeOK, Floor, HasRow
  <2>3. CASE life'[w] >= Ttl - Latency /\ life'[w] <= Ttl + Skew
    BY <1>2, <1>4, <2>3, Periods DEF LifeOK, Floor, HasRow, None
  <2> QED
    BY <1>2, <2>2, <2>3
<1>7. Outlives(w)' => Outlives(w)
  BY <1>1, <1>4, Periods
<1>8. \A s \in Sweepers : StaleOK(s, w)'
  BY <1>1, <1>4, <1>7 DEF HInv, StaleOK, JustBeaten
<1>9. \A r \in Readers : ReadOK(r, w)'
  BY <1>1, <1>4, <1>7 DEF HInv, ReadOK, JustBeaten
<1> QED
  BY <1>1, <1>2, <1>3, <1>4, <1>5, <1>6, <1>8, <1>9, OnlyOne

LEMMA CrashKeeps ==
    ASSUME HInv, NEW w \in Workers, Crash(w)
    PROVE  HInv'
<1>1. /\ CutOff(w) /\ up' = [up EXCEPT ![w] = "gone"] /\ left' = [left EXCEPT ![w] = 0]
      /\ found' = [found EXCEPT ![w] = FALSE]
      /\ UNCHANGED <<kind, drift, sweep, reading, view, calm, faults>>
  BY DEF Crash
<1>2. /\ life' \in [Workers -> Lives] /\ names' \subseteq Workers
      /\ \A v \in Workers \ {w} : life'[v] = life[v]
      /\ names \subseteq names'
  BY <1>1, CutOffWrites DEF HInv
<1>3. TypeOK'
  <2>1. 0 \in 0 .. (Interval + Drain + Latency)
    BY Periods
  <2>2. /\ up' \in [Workers -> Serving \cup {"new", "gone"}]
        /\ left' \in [Workers -> 0 .. (Interval + Drain + Latency)]
        /\ found' \in [Workers -> BOOLEAN]
    BY <1>1, <2>1 DEF HInv, TypeOK
  <2> QED
    BY <1>1, <1>2, <2>2 DEF HInv, TypeOK
<1>4. /\ up'[w] = "gone"
      /\ \A v \in Workers \ {w} : UNCHANGED <<up[v], left[v], calm[v], life[v]>>
  BY <1>1, <1>2 DEF HInv, TypeOK
<1>5. /\ LeftOK(w)' /\ LifeOK(w)' /\ NameOK(w)'
      /\ \A s \in Sweepers : StaleOK(s, w)'
      /\ \A r \in Readers : ReadOK(r, w)'
  BY <1>1, <1>4 DEF HInv, LeftOK, LifeOK, NameOK, StaleOK, ReadOK
<1> QED
  BY <1>1, <1>2, <1>3, <1>4, <1>5, OnlyOne

--------------------------------------------------------------------------------
(* Sweeps.                                                                 *)

\* A step of a sweep that leaves what is stored alone.
LEMMA SweepOnly ==
    ASSUME HInv, NEW s \in Sweepers,
           NEW c \in [at : {"idle", "asking", "removing"}, todo : SUBSET Workers,
                      stale : SUBSET Workers, left : 0..Latency],
           sweep' = [sweep EXCEPT ![s] = c],
           faults' \in 0 .. MaxFaults,
           UNCHANGED <<kind, drift, beatVars, rowVars, reading, view>>,
           \A w \in c.stale :
               c.at = "removing" /\ ~(Outlives(w) /\ calm[w] >= 1)
    PROVE  HInv'
<1>1. UNCHANGED <<kind, drift, up, left, found, calm, life, names, reading, view>>
  BY DEF beatVars, rowVars
<1>2. /\ sweep' \in [Sweepers -> [at : {"idle", "asking", "removing"}, todo : SUBSET Workers,
                                  stale : SUBSET Workers, left : 0..Latency]]
      /\ sweep'[s] = c /\ \A t \in Sweepers \ {s} : sweep'[t] = sweep[t]
  BY DEF HInv, TypeOK
<1>3. TypeOK'
  BY <1>1, <1>2 DEF HInv, TypeOK
<1>4. \A w \in Workers : LeftOK(w)' /\ LifeOK(w)' /\ NameOK(w)'
  BY <1>1 DEF HInv, LeftOK, LifeOK, NameOK, Floor, HasRow
<1>5. \A r \in Readers, w \in Workers : ReadOK(r, w)'
  BY <1>1 DEF HInv, ReadOK, JustBeaten
<1>6. \A t \in Sweepers, w \in Workers : StaleOK(t, w)'
  <2> SUFFICES ASSUME NEW t \in Sweepers, NEW w \in Workers PROVE StaleOK(t, w)'
    OBVIOUS
  <2>1. CASE t = s
    BY <1>1, <1>2, <2>1 DEF StaleOK
  <2>2. CASE t # s
    BY <1>1, <1>2, <2>2 DEF HInv, StaleOK, JustBeaten
  <2> QED
    BY <2>1, <2>2
<1> QED
  BY <1>1, <1>3, <1>4, <1>5, <1>6 DEF HInv

LEMMA SweepNamesKeeps ==
    ASSUME HInv, NEW s \in Sweepers, SweepNames(s)
    PROVE  HInv'
<1>1. PICK c : c = [at |-> "asking", todo |-> names, stale |-> {}, left |-> Latency]
  OBVIOUS
<1>2. c \in [at : {"idle", "asking", "removing"}, todo : SUBSET Workers,
             stale : SUBSET Workers, left : 0..Latency]
  BY <1>1, Periods DEF HInv, TypeOK
<1>3. faults' \in 0 .. MaxFaults
  BY DEF SweepNames, HInv, TypeOK
<1> QED
  BY <1>1, <1>2, <1>3, SweepOnly DEF SweepNames

LEMMA SweepDoneKeeps ==
    ASSUME HInv, NEW s \in Sweepers, SweepDone(s)
    PROVE  HInv'
<1>1. PICK c : c = Idle
  OBVIOUS
<1>2. c \in [at : {"idle", "asking", "removing"}, todo : SUBSET Workers,
             stale : SUBSET Workers, left : 0..Latency] /\ c.stale = {}
  BY <1>1, Periods DEF Idle
<1>3. faults' \in 0 .. MaxFaults
  BY DEF SweepDone, HInv, TypeOK
<1> QED
  BY <1>1, <1>2, <1>3, SweepOnly DEF SweepDone

LEMMA SweepFailsKeeps ==
    ASSUME HInv, NEW s \in Sweepers, SweepFails(s)
    PROVE  HInv'
<1>1. PICK c : c = Idle
  OBVIOUS
<1>2. c \in [at : {"idle", "asking", "removing"}, todo : SUBSET Workers,
             stale : SUBSET Workers, left : 0..Latency] /\ c.stale = {}
  BY <1>1, Periods DEF Idle
<1>3. faults' \in 0 .. MaxFaults
  BY Periods DEF SweepFails, HInv, TypeOK
<1> QED
  BY <1>1, <1>2, <1>3, SweepOnly DEF SweepFails

\* A name without a key is not one of a worker that serves and has stored a heartbeat.
LEMMA SweepExistsKeeps ==
    ASSUME HInv, NEW s \in Sweepers, SweepExists(s)
    PROVE  HInv'
<1>1. PICK w \in sweep[s].todo :
        sweep' = [sweep EXCEPT ![s] =
                    [at |-> IF HasKey(w) THEN "asking" ELSE "removing",
                     todo |-> @.todo \ {w},
                     stale |-> IF HasKey(w) THEN {} ELSE {w},
                     left |-> Latency]]
  BY DEF SweepExists
<1>2. PICK c : c = [at |-> IF HasKey(w) THEN "asking" ELSE "removing",
                    todo |-> sweep[s].todo \ {w},
                    stale |-> IF HasKey(w) THEN {} ELSE {w},
                    left |-> Latency]
  OBVIOUS
<1>3. w \in Workers /\ sweep[s].todo \in SUBSET Workers
  BY DEF HInv, TypeOK
<1>4. c \in [at : {"idle", "asking", "removing"}, todo : SUBSET Workers,
             stale : SUBSET Workers, left : 0..Latency]
  BY <1>2, <1>3, Periods
<1>5. sweep' = [sweep EXCEPT ![s] = c]
  BY <1>1, <1>2
<1>6. faults' \in 0 .. MaxFaults
  BY DEF SweepExists, HInv, TypeOK
<1>7. \A v \in c.stale : c.at = "removing" /\ ~(Outlives(v) /\ calm[v] >= 1)
  <2> SUFFICES ASSUME ~HasKey(w) PROVE ~(Outlives(w) /\ calm[w] >= 1)
    BY <1>2
  <2> QED
    BY <1>3, Lasting DEF HInv
<1>8. UNCHANGED <<kind, drift, beatVars, rowVars, reading, view>>
  BY DEF SweepExists
<1> QED
  BY <1>4, <1>5, <1>6, <1>7, <1>8, SweepOnly

\* SREM takes back one heartbeat of a worker, never two.
LEMMA SweepRemoveKeeps ==
    ASSUME HInv, NEW s \in Sweepers, SweepRemove(s)
    PROVE  HInv'
<1>1. /\ sweep[s].at = "removing" /\ names' = names \ sweep[s].stale
      /\ sweep' = [sweep EXCEPT ![s] = [@ EXCEPT !.at = "asking", !.stale = {}, !.left = Latency]]
      /\ UNCHANGED <<kind, drift, up, left, found, calm, life, reading, view, faults>>
  BY DEF SweepRemove, beatVars
<1>2. PICK c : c = [sweep[s] EXCEPT !.at = "asking", !.stale = {}, !.left = Latency]
  OBVIOUS
<1>3. /\ c \in [at : {"idle", "asking", "removing"}, todo : SUBSET Workers,
                stale : SUBSET Workers, left : 0..Latency]
      /\ c.stale = {}
  <2>1. sweep[s] \in [at : {"idle", "asking", "removing"}, todo : SUBSET Workers,
                      stale : SUBSET Workers, left : 0..Latency]
    BY DEF HInv, TypeOK
  <2>2. Latency \in 0..Latency
    BY Periods
  <2>3. c = [at |-> "asking", todo |-> sweep[s].todo, stale |-> {}, left |-> Latency]
    BY <1>2, <2>1
  <2> QED
    BY <2>1, <2>2, <2>3
<1>4. /\ sweep' \in [Sweepers -> [at : {"idle", "asking", "removing"}, todo : SUBSET Workers,
                                  stale : SUBSET Workers, left : 0..Latency]]
      /\ sweep'[s].stale = {} /\ \A t \in Sweepers \ {s} : sweep'[t] = sweep[t]
  BY <1>1, <1>2, <1>3 DEF HInv, TypeOK
<1>5. TypeOK'
  BY <1>1, <1>4 DEF HInv, TypeOK
<1>6. \A w \in Workers : LeftOK(w)' /\ LifeOK(w)'
  BY <1>1 DEF HInv, LeftOK, LifeOK, Floor, HasRow
<1>7. \A w \in Workers : NameOK(w)'
  <2> SUFFICES ASSUME NEW w \in Workers, kind = "redis", Outlives(w), calm[w] >= 2
               PROVE  w \in names'
    BY <1>1 DEF NameOK
  <2>1. w \in names /\ StaleOK(s, w) /\ calm[w] \in 0..3
    BY Values DEF HInv, NameOK
  <2>2. w \notin sweep[s].stale
    BY <2>1 DEF StaleOK
  <2> QED
    BY <1>1, <2>1, <2>2
<1>8. \A t \in Sweepers, w \in Workers : StaleOK(t, w)'
  <2> SUFFICES ASSUME NEW t \in Sweepers, NEW w \in Workers PROVE StaleOK(t, w)'
    OBVIOUS
  <2>1. CASE t = s
    BY <1>4, <2>1 DEF StaleOK
  <2>2. CASE t # s
    BY <1>1, <1>4, <2>2 DEF HInv, StaleOK, JustBeaten
  <2> QED
    BY <2>1, <2>2
<1>9. \A r \in Readers, w \in Workers : ReadOK(r, w)'
  BY <1>1 DEF HInv, ReadOK, JustBeaten
<1> QED
  BY <1>1, <1>5, <1>6, <1>7, <1>8, <1>9 DEF HInv

\* A row that the sweep deletes is not one of a worker that serves and stored its heartbeats.
LEMMA SqlSweepKeeps ==
    ASSUME HInv, NEW s \in Sweepers, SqlSweep(s)
    PROVE  HInv'
<1>1. /\ life' = [w \in Workers |->
                    IF HasRow(w) /\ life[w] <= drift[s] - Stale THEN None ELSE life[w]]
      /\ UNCHANGED <<kind, drift, up, left, found, calm, names, sweep, reading, view, faults>>
  BY DEF SqlSweep, beatVars
<1>2. life' \in [Workers -> Lives]
  BY <1>1 DEF HInv, TypeOK, Lives
<1>3. TypeOK'
  BY <1>1, <1>2 DEF HInv, TypeOK
<1>4. \A w \in Workers : LeftOK(w)' /\ NameOK(w)'
  BY <1>1 DEF HInv, LeftOK, NameOK
<1>5. \A w \in Workers : LifeOK(w)'
  <2> SUFFICES ASSUME NEW w \in Workers, Outlives(w), calm[w] >= 1
               PROVE  HasRow(w)' /\ life'[w] >= Floor(w)'
    BY <1>1 DEF LifeOK
  <2>1. HasRow(w) /\ life[w] > Skew /\ life[w] >= Floor(w) /\ life[w] \in Int
    BY Lasting, Values DEF HInv, LifeOK
  <2>2. drift[s] \in 0 .. Skew
    BY DEF HInv, TypeOK, Processes
  <2>3. life'[w] = life[w]
    BY <1>1, <2>1, <2>2, Periods
  <2> QED
    BY <1>1, <2>1, <2>3 DEF HasRow, Floor
<1>6. \A t \in Sweepers, w \in Workers : StaleOK(t, w)'
  BY <1>1 DEF HInv, StaleOK, JustBeaten
<1>7. \A r \in Readers, w \in Workers : ReadOK(r, w)'
  BY <1>1 DEF HInv, ReadOK, JustBeaten
<1> QED
  BY <1>1, <1>3, <1>4, <1>5, <1>6, <1>7 DEF HInv

--------------------------------------------------------------------------------
(* Listings.                                                               *)

\* A step of a listing: a worker that is steady is in the names it begins with.
LEMMA ListOnly ==
    ASSUME HInv, NEW r \in Readers,
           NEW c \in [asked : BOOLEAN, names : SUBSET Workers, left : 0..Latency],
           reading' = [reading EXCEPT ![r] = c],
           view' \in [Readers -> SUBSET Workers],
           UNCHANGED <<kind, drift, beatVars, rowVars, sweep, faults>>,
           c.asked => kind = "redis" /\ c.names = names
    PROVE  HInv'
<1>1. UNCHANGED <<kind, drift, up, left, found, calm, life, names, sweep, faults>>
  BY DEF beatVars, rowVars
<1>2. /\ reading' \in [Readers -> [asked : BOOLEAN, names : SUBSET Workers, left : 0..Latency]]
      /\ reading'[r] = c /\ \A q \in Readers \ {r} : reading'[q] = reading[q]
  BY DEF HInv, TypeOK
<1>3. TypeOK'
  BY <1>1, <1>2 DEF HInv, TypeOK
<1>4. \A w \in Workers : LeftOK(w)' /\ LifeOK(w)' /\ NameOK(w)'
  BY <1>1 DEF HInv, LeftOK, LifeOK, NameOK, Floor, HasRow
<1>5. \A t \in Sweepers, w \in Workers : StaleOK(t, w)'
  BY <1>1 DEF HInv, StaleOK, JustBeaten
<1>6. \A q \in Readers : reading'[q].asked => kind' = "redis"
  BY <1>1, <1>2 DEF HInv
<1>7. \A q \in Readers, w \in Workers : ReadOK(q, w)'
  <2> SUFFICES ASSUME NEW q \in Readers, NEW w \in Workers PROVE ReadOK(q, w)'
    OBVIOUS
  <2>1. CASE q = r
    BY <1>1, <1>2, <2>1 DEF HInv, ReadOK, NameOK
  <2>2. CASE q # r
    BY <1>1, <1>2, <2>2 DEF HInv, ReadOK, JustBeaten
  <2> QED
    BY <2>1, <2>2
<1> QED
  BY <1>3, <1>4, <1>5, <1>6, <1>7 DEF HInv

LEMMA ListNextKeeps ==
    ASSUME HInv, NEW r \in Readers, ListNext(r)
    PROVE  HInv'
<1>1. CASE ListNames(r)
  <2>1. PICK c : c = [asked |-> TRUE, names |-> names, left |-> Latency]
    OBVIOUS
  <2>2. c \in [asked : BOOLEAN, names : SUBSET Workers, left : 0..Latency]
    BY <2>1, Periods DEF HInv, TypeOK
  <2>3. view' \in [Readers -> SUBSET Workers]
    BY <1>1 DEF ListNames, HInv, TypeOK
  <2> QED
    BY <1>1, <2>1, <2>2, <2>3, ListOnly DEF ListNames
<1>2. CASE ListBeats(r)
  <2>1. PICK c : c = [asked |-> FALSE, names |-> {}, left |-> 0]
    OBVIOUS
  <2>2. c \in [asked : BOOLEAN, names : SUBSET Workers, left : 0..Latency]
    BY <2>1, Periods
  <2>3. view' \in [Readers -> SUBSET Workers]
    <3>1. {w \in reading[r].names : HasKey(w)} \subseteq Workers
      BY DEF HInv, TypeOK
    <3> QED
      BY <1>2, <3>1 DEF ListBeats, HInv, TypeOK
  <2> QED
    BY <1>2, <2>1, <2>2, <2>3, ListOnly DEF ListBeats
<1>3. CASE SqlList(r)
  <2>1. PICK c : c = reading[r]
    OBVIOUS
  <2>2. /\ c \in [asked : BOOLEAN, names : SUBSET Workers, left : 0..Latency]
        /\ reading' = [reading EXCEPT ![r] = c]
    BY <1>3, <2>1 DEF HInv, TypeOK, SqlList
  <2>3. ~c.asked
    BY <1>3, <2>1 DEF HInv, SqlList
  <2>4. view' \in [Readers -> SUBSET Workers]
    <3>1. {w \in Workers : Fresh(w, r)} \subseteq Workers
      OBVIOUS
    <3> QED
      BY <1>3, <3>1 DEF SqlList, HInv, TypeOK
  <2> QED
    BY <1>3, <2>2, <2>3, <2>4, ListOnly DEF SqlList
<1> QED
  BY <1>1, <1>2, <1>3 DEF ListNext

--------------------------------------------------------------------------------
(* Time.                                                                   *)

LEMMA MinusType == \A n \in Nat : Minus(n) \in Nat /\ Minus(n) <= n /\ (n > 0 => Minus(n) = n - 1)
BY DEF Minus

LEMMA TickTypes ==
    ASSUME HInv, Tick
    PROVE  TypeOK'
<1>1. /\ left' = [w \in Workers |-> Minus(left[w])]
      /\ sweep' = [s \in Sweepers |-> [sweep[s] EXCEPT !.left = Minus(@)]]
      /\ reading' = [r \in Readers |-> [reading[r] EXCEPT !.left = Minus(@)]]
      /\ life' = [w \in Workers |->
                    IF HasRow(w) /\ life[w] > Oldest THEN life[w] - 1 ELSE life[w]]
      /\ UNCHANGED <<kind, drift, up, found, names, view, calm, faults>>
  BY DEF Tick
<1>2. left' \in [Workers -> 0 .. (Interval + Drain + Latency)]
  <2> SUFFICES ASSUME NEW w \in Workers
               PROVE  Minus(left[w]) \in 0 .. (Interval + Drain + Latency)
    BY <1>1
  <2>1. left[w] \in 0 .. (Interval + Drain + Latency)
    BY DEF HInv, TypeOK
  <2> QED
    BY <2>1, MinusType, Periods
<1>3. sweep' \in [Sweepers -> [at : {"idle", "asking", "removing"}, todo : SUBSET Workers,
                               stale : SUBSET Workers, left : 0..Latency]]
  <2> SUFFICES ASSUME NEW s \in Sweepers
               PROVE  [sweep[s] EXCEPT !.left = Minus(@)]
                        \in [at : {"idle", "asking", "removing"}, todo : SUBSET Workers,
                             stale : SUBSET Workers, left : 0..Latency]
    BY <1>1
  <2>1. sweep[s] \in [at : {"idle", "asking", "removing"}, todo : SUBSET Workers,
                      stale : SUBSET Workers, left : 0..Latency]
    BY DEF HInv, TypeOK
  <2>2. sweep[s].left \in 0 .. Latency
    BY <2>1
  <2>3. Minus(sweep[s].left) \in 0 .. Latency
    BY <2>2, MinusType, Periods
  <2> QED
    BY <2>1, <2>3
<1>4. reading' \in [Readers -> [asked : BOOLEAN, names : SUBSET Workers, left : 0..Latency]]
  <2> SUFFICES ASSUME NEW r \in Readers
               PROVE  [reading[r] EXCEPT !.left = Minus(@)]
                        \in [asked : BOOLEAN, names : SUBSET Workers, left : 0..Latency]
    BY <1>1
  <2>1. reading[r] \in [asked : BOOLEAN, names : SUBSET Workers, left : 0..Latency]
    BY DEF HInv, TypeOK
  <2>2. reading[r].left \in 0 .. Latency
    BY <2>1
  <2>3. Minus(reading[r].left) \in 0 .. Latency
    BY <2>2, MinusType, Periods
  <2> QED
    BY <2>1, <2>3
<1>5. life' \in [Workers -> Lives]
  <2> SUFFICES ASSUME NEW w \in Workers
               PROVE  (IF HasRow(w) /\ life[w] > Oldest THEN life[w] - 1 ELSE life[w]) \in Lives
    BY <1>1
  <2>1. life[w] \in Lives /\ life[w] \in Int
    BY Values DEF HInv, TypeOK
  <2>2. ASSUME HasRow(w), life[w] > Oldest
        PROVE  life[w] - 1 \in Oldest .. Ttl + Skew
    <3>1. life[w] \in Oldest .. Ttl + Skew
      BY <2>2, Values DEF HInv
    <3>2. Oldest \in Int
      BY Periods DEF Oldest
    <3> QED
      BY <2>2, <3>1, <3>2, Periods
  <2> QED
    BY <2>1, <2>2 DEF Lives
<1> QED
  BY <1>1, <1>2, <1>3, <1>4, <1>5 DEF HInv, TypeOK

\* A heartbeat and the sleep, call or drain of its worker grow shorter together; and so
\* do a call that is under way and the sleep of the worker that has just been seen.
LEMMA TickKeeps ==
    ASSUME HInv, Tick
    PROVE  HInv'
<1>1. /\ left' = [w \in Workers |-> Minus(left[w])]
      /\ sweep' = [s \in Sweepers |-> [sweep[s] EXCEPT !.left = Minus(@)]]
      /\ reading' = [r \in Readers |-> [reading[r] EXCEPT !.left = Minus(@)]]
      /\ life' = [w \in Workers |->
                    IF HasRow(w) /\ life[w] > Oldest THEN life[w] - 1 ELSE life[w]]
      /\ UNCHANGED <<kind, drift, up, found, names, view, calm, faults>>
      /\ \A w \in Workers : up[w] \in Serving => left[w] > 0
      /\ \A s \in Sweepers : sweep[s].at # "idle" => sweep[s].left > 0
      /\ \A r \in Readers : reading[r].asked => reading[r].left > 0
  BY DEF Tick
<1>2. \A w \in Workers :
        /\ left[w] \in Nat /\ left'[w] \in Nat /\ left'[w] <= left[w]
        /\ up[w] \in Serving => left'[w] = left[w] - 1
  <2> SUFFICES ASSUME NEW w \in Workers
               PROVE  /\ left[w] \in Nat /\ left'[w] \in Nat /\ left'[w] <= left[w]
                      /\ up[w] \in Serving => left'[w] = left[w] - 1
    OBVIOUS
  <2>1. left[w] \in Nat /\ left'[w] = Minus(left[w])
    BY <1>1, Values DEF HInv
  <2> QED
    BY <1>1, <2>1, MinusType
<1>3. \A w \in Workers : LeftOK(w)'
  <2> SUFFICES ASSUME NEW w \in Workers PROVE LeftOK(w)'
    OBVIOUS
  <2>1. LeftOK(w) /\ up'[w] = up[w] /\ calm'[w] = calm[w]
    BY <1>1 DEF HInv
  <2> QED
    BY <1>2, <2>1, Periods DEF LeftOK
<1>10. \A w \in Workers : Outlives(w)' => Outlives(w)
  BY <1>1, <1>2, Periods
<1>4. \A w \in Workers : LifeOK(w)'
  <2> SUFFICES ASSUME NEW w \in Workers, Outlives(w), Outlives(w)', calm[w] >= 1
               PROVE  HasRow(w)' /\ life'[w] >= Floor(w)'
    BY <1>1, <1>10 DEF LifeOK
  <2>1. /\ HasRow(w) /\ life[w] > Oldest /\ life[w] \in Int /\ life[w] >= Floor(w)
        /\ life[w] <= Ttl + Skew
    BY Lasting, Values DEF HInv, LifeOK, Oldest
  <2>2. life'[w] = life[w] - 1
    BY <1>1, <2>1
  <2>3. left'[w] = left[w] - 1 /\ left[w] \in Nat /\ up'[w] = up[w]
    BY <1>1, <1>2
  <2>4. HasRow(w)'
    BY <2>1, <2>2, Periods DEF HasRow, None
  <2>5. Floor(w) \in Int /\ Floor(w)' = Floor(w) - 1
    BY <2>3, Periods DEF Floor
  <2> QED
    BY <2>1, <2>2, <2>4, <2>5
<1>5. \A w \in Workers : NameOK(w)'
  BY <1>1, <1>10 DEF HInv, NameOK
<1>6. ASSUME NEW w \in Workers, NEW n \in Nat, n > 0, JustBeaten(w, n)
      PROVE  JustBeaten(w, n - 1)'
  <2>1. up'[w] = up[w]
    BY <1>1
  <2>2. CASE up[w] = "resting" /\ n + Interval - left[w] <= Latency
    <3>1. left'[w] = left[w] - 1 /\ left[w] \in Nat
      BY <1>2, <2>2
    <3>2. (n - 1) + Interval - left'[w] <= Latency
      BY <2>2, <3>1, Periods
    <3> QED
      BY <2>1, <2>2, <3>2 DEF JustBeaten
  <2> QED
    BY <1>6, <2>1, <2>2 DEF JustBeaten
<1>7. \A s \in Sweepers, w \in Workers : StaleOK(s, w)'
  <2> SUFFICES ASSUME NEW s \in Sweepers, NEW w \in Workers, w \in sweep'[s].stale
               PROVE  /\ sweep'[s].at = "removing"
                      /\ Outlives(w)' /\ calm'[w] >= 1
                            => calm'[w] = 1 /\ JustBeaten(w, sweep[s].left)'
    BY DEF StaleOK
  <2>1. sweep[s] \in [at : {"idle", "asking", "removing"}, todo : SUBSET Workers,
                      stale : SUBSET Workers, left : 0..Latency]
    BY DEF HInv, TypeOK
  <2>2. /\ sweep'[s].at = sweep[s].at /\ sweep'[s].stale = sweep[s].stale
        /\ sweep'[s].left = Minus(sweep[s].left) /\ sweep[s].left \in Nat
    BY <1>1, <2>1
  <2>3. /\ sweep[s].at = "removing"
        /\ Outlives(w) /\ calm[w] >= 1 => calm[w] = 1 /\ JustBeaten(w, sweep[s].left)
    BY <2>2 DEF HInv, StaleOK
  <2>4. PICK n \in Nat : n = sweep[s].left
    BY <2>2
  <2>5. n > 0 /\ sweep'[s].left = n - 1
    BY <1>1, <2>2, <2>3, <2>4, MinusType
  <2>6. JustBeaten(w, n) => JustBeaten(w, n - 1)'
    BY <1>6, <2>5
  <2>7. sweep'[s].at = "removing" /\ up'[w] = up[w] /\ calm'[w] = calm[w]
    BY <1>1, <2>2, <2>3
  <2> QED
    BY <1>10, <2>3, <2>4, <2>5, <2>6, <2>7
<1>8. \A r \in Readers : reading'[r].asked => kind' = "redis"
  <2> SUFFICES ASSUME NEW r \in Readers PROVE reading'[r].asked => kind' = "redis"
    OBVIOUS
  <2>1. reading[r] \in [asked : BOOLEAN, names : SUBSET Workers, left : 0..Latency]
    BY DEF HInv, TypeOK
  <2>2. reading'[r].asked = reading[r].asked
    BY <1>1, <2>1
  <2> QED
    BY <1>1, <2>2 DEF HInv
<1>9. \A r \in Readers, w \in Workers : ReadOK(r, w)'
  <2> SUFFICES ASSUME NEW r \in Readers, NEW w \in Workers PROVE ReadOK(r, w)'
    OBVIOUS
  <2>1. reading[r] \in [asked : BOOLEAN, names : SUBSET Workers, left : 0..Latency]
    BY DEF HInv, TypeOK
  <2>2. /\ reading'[r].asked = reading[r].asked /\ reading'[r].names = reading[r].names
        /\ reading'[r].left = Minus(reading[r].left) /\ reading[r].left \in Nat
    BY <1>1, <2>1
  <2>3. ReadOK(r, w) /\ up'[w] = up[w] /\ calm'[w] = calm[w]
    BY <1>1 DEF HInv
  <2>4. PICK n \in Nat : n = reading[r].left
    BY <2>2
  <2>5. reading[r].asked => n > 0 /\ reading'[r].left = n - 1
    BY <1>1, <2>2, <2>4, MinusType
  <2>6. n > 0 /\ JustBeaten(w, n) => JustBeaten(w, n - 1)'
    BY <1>6
  <2> QED
    BY <1>10, <2>2, <2>3, <2>4, <2>5, <2>6 DEF ReadOK
<1> QED
  BY <1>3, <1>4, <1>5, <1>7, <1>8, <1>9, TickTypes DEF HInv

--------------------------------------------------------------------------------

LEMMA NextHInv == HInv /\ [Next]_vars => HInv'
<1> SUFFICES ASSUME HInv, [Next]_vars PROVE HInv'
  OBVIOUS
<1>1. CASE \E w \in Workers : WorkerNext(w)
  BY <1>1, StartKeeps, NextBeatKeeps, BeatKeeps, BeatFailsKeeps, StopKeeps, PartKeeps, CrashKeeps
     DEF WorkerNext
<1>2. CASE \E s \in Sweepers : SweepNext(s)
  BY <1>2, SweepNamesKeeps, SweepExistsKeeps, SweepRemoveKeeps, SweepDoneKeeps, SweepFailsKeeps,
     SqlSweepKeeps DEF SweepNext
<1>3. CASE \E r \in Readers : ListNext(r)
  BY <1>3, ListNextKeeps
<1>4. CASE Tick
  BY <1>4, TickKeeps
<1>5. CASE UNCHANGED vars
  <2>1. /\ UNCHANGED <<kind, drift, up, left, found, calm, life, names, sweep, reading, view, faults>>
    BY <1>5 DEF vars, beatVars, rowVars
  <2>2. TypeOK'
    BY <2>1 DEF HInv, TypeOK
  <2>3. \A w \in Workers : LeftOK(w)' /\ LifeOK(w)' /\ NameOK(w)'
    BY <2>1 DEF HInv, LeftOK, LifeOK, NameOK, Floor, HasRow
  <2>4. \A s \in Sweepers, w \in Workers : StaleOK(s, w)'
    BY <2>1 DEF HInv, StaleOK, JustBeaten
  <2>5. \A r \in Readers, w \in Workers : ReadOK(r, w)'
    BY <2>1 DEF HInv, ReadOK, JustBeaten
  <2> QED
    BY <2>1, <2>2, <2>3, <2>4, <2>5 DEF HInv
<1> QED
  BY <1>1, <1>2, <1>3, <1>4, <1>5 DEF Next

LEMMA AlwaysHInv == Spec => []HInv
<1> QED
  BY InitHInv, NextHInv, PTL DEF Spec

\* The variables keep their types: in particular no heartbeat lives longer than the time
\* to live and the skew of the clocks allow, whatever is stored, swept and cut off.
THEOREM RegistryTypes == Spec => []TypeOK
<1>1. HInv => TypeOK
  BY DEF HInv
<1> QED
  BY <1>1, AlwaysHInv, PTL

\* A worker whose last two heartbeats were stored stays in the registry, on Redis and in
\* SQL, whatever the sweeps remove meanwhile and however the clocks differ: while it sleeps
\* and beats again if Ttl > Interval + 2 * Latency + Skew; while it drains, for as long as
\* Ttl > Interval + 2 * Latency + Skew and the time it has drained; and in its last call if
\* Ttl > Interval + Drain + 3 * Latency + Skew.  The defaults satisfy the first condition
\* (with calls and clocks within 20 seconds), the second for the first of up to 35 seconds
\* of a drain, and not the third.
THEOREM SteadyIsListed == Spec => []SteadyListed
<1>1. HInv => SteadyListed
  <2> SUFFICES ASSUME HInv, NEW w \in Workers, Outlives(w), calm[w] >= 2
               PROVE  Listed(w)
    BY DEF SteadyListed
  <2>1. calm[w] >= 1
    BY Values DEF HInv
  <2>2. HasRow(w) /\ life[w] > Skew /\ life[w] \in Int
    BY <2>1, Lasting, Values DEF HInv
  <2> QED
    BY <2>2, Periods DEF HInv, NameOK, Listed
<1> QED
  BY <1>1, AlwaysHInv, PTL

--------------------------------------------------------------------------------

LEMMA StepHonest ==
    ASSUME HInv, NEW r \in Readers, ListBeats(r) \/ SqlList(r)
    PROVE  /\ {w \in Workers : Outlives(w) /\ calm[w] = 3} \subseteq view'[r]
           /\ \A w \in view'[r] : Silence(w) < Ttl + Skew
<1>1. /\ view'[r] = IF ListBeats(r) THEN {w \in reading[r].names : HasKey(w)}
                                    ELSE {w \in Workers : Fresh(w, r)}
      /\ view'[r] \subseteq Workers
  <2>1. view \in [Readers -> SUBSET Workers] /\ reading[r].names \subseteq Workers
    BY DEF HInv, TypeOK
  <2>2. CASE ListBeats(r)
    BY <2>1, <2>2 DEF ListBeats
  <2>3. CASE SqlList(r) /\ ~ListBeats(r)
    BY <2>1, <2>3 DEF SqlList
  <2> QED
    BY <2>2, <2>3
<1>2. ASSUME NEW w \in Workers, Outlives(w), calm[w] = 3
      PROVE  w \in view'[r]
  <2>1. HasKey(w) /\ Fresh(w, r)
    BY <1>2, Lasting DEF HInv, Processes
  <2>2. ListBeats(r) => w \in reading[r].names
    BY <1>2 DEF ListBeats, HInv, ReadOK
  <2> QED
    BY <1>1, <2>1, <2>2
<1>3. ASSUME NEW w \in view'[r]
      PROVE  Silence(w) < Ttl + Skew
  <2>1. w \in Workers
    BY <1>1
  <2>2. life[w] \in Int /\ drift[w] \in 0 .. Skew /\ drift[r] \in 0 .. Skew
    BY <2>1, Values DEF HInv, TypeOK, Processes
  <2>3. life[w] > 0
    BY <1>1, <2>2, Periods DEF HasKey, Fresh
  <2> QED
    BY <2>2, <2>3, Periods DEF Silence
<1> QED
  BY <1>2, <1>3

LEMMA StepSweeps ==
    ASSUME HInv, NEW s \in Sweepers, SqlSweep(s), NEW w \in Workers, HasRow(w), life'[w] = None
    PROVE  Silence(w) + Skew >= Stale
<1>1. life[w] <= drift[s] - Stale
  BY DEF SqlSweep, HasRow
<1>2. life[w] \in Int /\ drift[w] \in 0 .. Skew /\ drift[s] \in 0 .. Skew
  BY Values DEF HInv, TypeOK, Processes
<1> QED
  BY <1>1, <1>2, Periods DEF Silence

\* A listing shows every worker that has been steady since it began, although names and
\* heartbeats are read at different times, and nobody who has been silent for longer than
\* the time to live and the skew; and the sweep of the SQL table deletes no row of a
\* worker that was heard of within stale_seconds, but for the skew of the clocks.
THEOREM Honest == Spec => ListsAndSweepsHonestly
<1>1. HInv /\ [Next]_vars =>
        [\A r \in Readers :
            (ListBeats(r) \/ SqlList(r)) =>
                /\ {w \in Workers : Outlives(w) /\ calm[w] = 3} \subseteq view'[r]
                /\ \A w \in view'[r] : Silence(w) < Ttl + Skew]_vars
  BY StepHonest
<1>2. HInv /\ [Next]_vars =>
        [\A s \in Sweepers :
            SqlSweep(s) =>
                \A w \in Workers :
                    HasRow(w) /\ life'[w] = None => Silence(w) + Skew >= Stale]_vars
  BY StepSweeps
<1> QED
  BY <1>1, <1>2, AlwaysHInv, PTL DEF Spec, ListsAndSweepsHonestly, ListingHonest, SweepsOnlyStale
================================================================================
