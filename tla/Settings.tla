------------------------------ MODULE Settings ------------------------------
(* One numeric setting from its sources to its use.  A settings class of       *)
(* src/chicory/config.py is constructed from an argument, an environment       *)
(* variable, the .env file or the default, in that order, and checked; after   *)
(* that anybody may assign to it and nothing is checked; the component that is *)
(* given the object copies the field in its __init__ (the worker reads its     *)
(* shutdown_timeout when it stops) and uses it.                                *)
EXTENDS ConfigFields, FiniteSets

CONSTANT MaxAssigns            \* bound on the assignments to the object

VARIABLES
    class, field,              \* the setting this behaviour is about
    source,                    \* what each source offers, or Absent
    stage,                     \* "new", "rejected", "held", "wired", "used"
    value,                     \* the attribute of the settings object
    wired,                     \* the component's own copy
    failed,                    \* the use of the value was refused
    assigns                    \* how often the attribute was assigned to

vars == <<class, field, source, stage, value, wired, failed, assigns>>

Absent == -2000                \* a source that does not name the field
Sources == <<"argument", "environment", "dotenv">>

\* The values around every bound of a field, or of those who use it.
Probes(c, f) ==
    LET fld == Fields[c][f]
    IN  {fld.lo - 1, fld.lo, fld.lo + 1, fld.default} \cup
        IF fld.hi = NoBound THEN UNION {{n, n + 1} : n \in {65535, TtlMax, WireMax, SpanMax}}
                            ELSE {fld.hi, fld.hi + 1}

\* Only an argument can say None: the other sources are texts.
Offers(c, f) ==
    [argument : Probes(c, f) \cup {None, Absent},
     environment : {Fields[c][f].lo, Fields[c][f].lo - 1, Absent},
     dotenv : {Fields[c][f].lo + 1, Absent}]

Init ==
    /\ class \in DOMAIN Fields
    /\ field \in DOMAIN Fields[class]
    /\ source \in Offers(class, field)
    /\ stage = "new" /\ value = Absent /\ wired = Absent
    /\ failed = FALSE /\ assigns = 0

\* pydantic-settings: the first source that names the field, else the default.
Resolved ==
    LET named == {i \in 1..3 : source[Sources[i]] # Absent}
    IN  IF named = {} THEN Fields[class][field].default
        ELSE source[Sources[CHOOSE i \in named : \A j \in named : i <= j]]

Construct ==
    /\ stage = "new"
    /\ value' = Resolved
    /\ stage' = IF Accepts(class, field, Resolved) THEN "held" ELSE "rejected"
    /\ UNCHANGED <<class, field, source, wired, failed, assigns>>

\* "settings.field = v": validate_assignment is not set, so any value goes in.
Assign ==
    /\ stage \in {"held", "wired"}
    /\ assigns < MaxAssigns
    /\ \E v \in Probes(class, field) \cup {None} :
           v # value /\ value' = v
    /\ assigns' = assigns + 1
    /\ UNCHANGED <<class, field, source, stage, wired, failed>>

\* The __init__ of the component copies the attributes it needs.
Wire ==
    /\ stage = "held"
    /\ stage' = "wired"
    /\ wired' = value
    /\ UNCHANGED <<class, field, source, value, failed, assigns>>

\* Worker.stop() reads self.config.shutdown_timeout when it is called.
ReadWhenUsed == class = "Worker" /\ field = "shutdown_timeout"

\* Mutant: the component keeps the settings object and reads it when it needs it.
InUseLive == value

InUse == IF ReadWhenUsed THEN value ELSE wired

Use ==
    /\ stage = "wired"
    /\ stage' = "used"
    /\ failed' = ~Works(class, field, InUse)
    /\ UNCHANGED <<class, field, source, value, wired, assigns>>

Next == Construct \/ Assign \/ Wire \/ Use

Spec == Init /\ [][Next]_vars

-----------------------------------------------------------------------------
\* The state has its types.
TypeOK ==
    /\ class \in DOMAIN Fields /\ field \in DOMAIN Fields[class]
    /\ source \in Offers(class, field)
    /\ stage \in {"new", "rejected", "held", "wired", "used"}
    /\ value \in Int /\ wired \in Int /\ failed \in BOOLEAN
    /\ assigns \in 0..MaxAssigns

\* The largest value a component can use where validation sets no bound: a prefetch
\* count is sent in 16 bits, RabbitMQ bounds a TTL, Redis and AMQP a number, and
\* dates and timeouts a span of time.  The other fields have a bound, or any value
\* works (NoBound).
Limit(c, f) ==
    CASE c = "RedisBroker" /\ f \in {"block_ms", "claim_min_idle_ms", "max_stream_length",
                                     "dlq_max_length"} -> WireMax
      [] c = "RabbitMQBroker" /\ f = "prefetch_count" -> 65535
      [] c = "RabbitMQBroker" /\ f \in {"message_ttl", "dlq_message_ttl"} -> TtlMax
      [] c = "RabbitMQBroker" /\ f \in {"queue_max_length", "queue_max_length_bytes",
                                        "dlq_max_length"} -> WireMax
      [] c = "RedisBackend" /\ f = "result_ttl" -> SpanMax
      [] c \in {"Postgres", "MySQL", "MSSQL", "SQLite"} /\ f = "pool_timeout" -> SpanMax
      [] c = "Worker" /\ f \in {"heartbeat_ttl", "stale_workers_timeout"} -> SpanMax
      [] OTHER -> NoBound

\* The values validation lets through and the program cannot use: those above these
\* limits, and a result TTL of 0, which is "no expiration" to config.py:273 and an
\* invalid EX to Redis.
Unusable ==
    \/ class = "RedisBackend" /\ field = "result_ttl" /\ InUse = 0
    \/ Limit(class, field) # NoBound /\ InUse > Limit(class, field)

\* Validation and use agree but for the values of Unusable, which config.py accepts and
\* of which each one is refused where it is used: any other value that came through the
\* construction of the settings object, from whichever source, is not refused by the
\* server or the library it reaches; and a component that was made from a valid object
\* keeps working, whatever is assigned to the object afterwards (the worker's
\* shutdown_timeout alone follows it).
CheckedWorks ==
    /\ failed =>
           \/ Unusable
           \/ assigns > 0 /\ (ReadWhenUsed \/ ~Accepts(class, field, wired))
    /\ stage = "used" /\ Unusable => failed

\* The documented order of the sources (docs/user-guide/configuration.md:8-16), from
\* end to end: the value a component works with is never one that a source of
\* higher priority contradicts, unless somebody assigned it.
NoSourceIsOverruled ==
    stage \in {"wired", "used"} /\ assigns = 0 =>
        \A i \in 1..3 :
            InUse # source[Sources[i]] /\ source[Sources[i]] # Absent =>
                \E j \in 1..(i - 1) : source[Sources[j]] = InUse
=============================================================================
