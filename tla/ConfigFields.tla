---------------------------- MODULE ConfigFields ----------------------------
(* The numeric fields of the settings classes of src/chicory/config.py, as    *)
(* data: what validation admits, the default, and what the component the value *)
(* is handed to does with it.  Strings, flags and addresses are not here       *)
(* (ConfigTarget has the addresses).  A float field is taken on the integers:  *)
(* a bound gt=0 admits 1 and more.                                             *)
EXTENDS Integers

\* What the servers and libraries take at most: RabbitMQ's longest TTL, the largest
\* number in a command of Redis or an argument of AMQP, and the longest span of time
\* that an expiry, a date or a timeout can be moved by.  They are 2^32 - 1, about
\* 2^63, and about two thousand years; the settings know none of them.
CONSTANTS TtlMax, WireMax, SpanMax

None == -1000                \* Python's None
NoBound == -3000             \* a field without le=

\* ge= and le=, ge= alone, gt= alone, "int | None".
Between(low, high, value) == [lo |-> low, hi |-> high, default |-> value, optional |-> FALSE]
AtLeast(low, value) == Between(low, NoBound, value)
Above(low, value) == AtLeast(low + 1, value)
OrNone(field) == [field EXCEPT !.optional = TRUE]

Port(value) == Between(1, 65535, value)
Db(value) == Between(0, 15, value)

RedisBrokerFields ==
    [port               |-> Port(6379),
     db                 |-> Db(0),
     block_ms           |-> AtLeast(0, 5000),
     claim_min_idle_ms  |-> AtLeast(0, 30000),
     max_stream_length  |-> OrNone(AtLeast(1, 100000)),
     dlq_max_length     |-> OrNone(AtLeast(1, 10000)),
     mover_min_sleep_ms |-> AtLeast(0, 50),
     mover_max_sleep_ms |-> AtLeast(50, 1000)]

RabbitMQBrokerFields ==
    [port                   |-> Port(5672),
     connection_pool_size   |-> AtLeast(1, 1),
     channel_pool_size      |-> AtLeast(1, 10),
     prefetch_count         |-> AtLeast(1, 1),
     queue_max_length       |-> OrNone(AtLeast(1, None)),
     queue_max_length_bytes |-> OrNone(AtLeast(1, None)),
     dlq_max_length         |-> OrNone(AtLeast(1, 10000)),
     message_ttl            |-> OrNone(AtLeast(1, None)),
     dlq_message_ttl        |-> OrNone(AtLeast(1, None)),
     max_priority           |-> OrNone(Between(1, 255, None)),
     channel_acquire_timeout |-> Above(0, 10),
     reconnect_delay_base   |-> Above(0, 1),
     reconnect_delay_max    |-> Above(0, 60),
     max_dlq_scan_limit     |-> AtLeast(1, 10000)]

RedisBackendFields ==
    [port |-> Port(6379), db |-> Db(1), result_ttl |-> AtLeast(0, 3600)]

\* The four SQL classes repeat the same pool fields.
PoolFields ==
    [pool_size    |-> AtLeast(1, 5),
     max_overflow |-> AtLeast(0, 5),
     pool_recycle |-> AtLeast(0, 1800),
     pool_timeout |-> AtLeast(1, 30)]

WithPort(value) == [f \in DOMAIN PoolFields \cup {"port"} |->
                       IF f = "port" THEN Port(value) ELSE PoolFields[f]]

PostgresFields == WithPort(5432)
MySQLFields == WithPort(3306)
MSSQLFields == WithPort(1433)
SQLiteFields == PoolFields

\* The default of concurrency is min(32, cpus + 4): 8 stands for it.
WorkerFields ==
    [concurrency           |-> AtLeast(1, 8),
     heartbeat_interval    |-> Above(0, 10),
     heartbeat_ttl         |-> AtLeast(1, 30),
     cleanup_interval      |-> AtLeast(30, 900),
     stale_workers_timeout |-> AtLeast(10, 300),
     shutdown_timeout      |-> AtLeast(0, 30)]

\* The poll interval is in tenths of a second.
AppFields ==
    [result_poll_interval   |-> Above(0, 1),
     result_default_timeout |-> OrNone(AtLeast(0, None))]

Fields ==
    [RedisBroker |-> RedisBrokerFields, RabbitMQBroker |-> RabbitMQBrokerFields,
     RedisBackend |-> RedisBackendFields, Postgres |-> PostgresFields,
     MySQL |-> MySQLFields, MSSQL |-> MSSQLFields, SQLite |-> SQLiteFields,
     Worker |-> WorkerFields, App |-> AppFields]

\* pydantic's check of one field when the settings object is constructed
\* (defaults are checked too: BaseSettings validates them).
Accepts(class, field, value) ==
    LET f == Fields[class][field]
    IN  \/ value = None /\ f.optional
        \/ /\ value # None /\ f.lo <= value
           /\ f.hi = NoBound \/ value <= f.hi

-----------------------------------------------------------------------------
\* What the components do with a value.

\* Values a server or a library refuses whichever component sends them.
PortWorks(value) == 1 <= value /\ value <= 65535

\* broker/redis.py: XREADGROUP BLOCK and XAUTOCLAIM take no negative number;
\* "if self.max_stream_length:" leaves MAXLEN out for None and for 0.  The sleeps of
\* the mover are Python's own.
RedisBrokerWorks(field, value) ==
    CASE field = "port" -> PortWorks(value)
      [] field = "db" -> value \in 0..15
      [] field \in {"block_ms", "claim_min_idle_ms"} -> value \in 0..WireMax
      [] field \in {"max_stream_length", "dlq_max_length"} ->
             value = None \/ value \in 0..WireMax
      [] OTHER -> value >= 0

\* broker/rabbitmq.py: basic.qos carries the prefetch count in 16 bits; a priority
\* is a byte, x-message-ttl is checked by the server when the queue is declared; a
\* queue argument is left out when it is None or, priority apart, 0.
RabbitMQBrokerWorks(field, value) ==
    CASE field = "port" -> PortWorks(value)
      [] field = "prefetch_count" -> 0 <= value /\ value <= 65535
      [] field = "max_priority" -> value = None \/ value \in 1..255
      [] field \in {"message_ttl", "dlq_message_ttl"} -> value = None \/ value \in 0..TtlMax
      [] field \in {"queue_max_length", "queue_max_length_bytes", "dlq_max_length"} ->
             value = None \/ value \in 0..WireMax
      [] field \in {"connection_pool_size", "channel_pool_size"} -> value >= 1
      [] OTHER -> value >= 0

\* backend/redis.py: SET key value EX result_ttl, which Redis refuses for 0.
RedisBackendWorks(field, value) ==
    CASE field = "port" -> PortWorks(value)
      [] field = "db" -> value \in 0..15
      [] OTHER -> value \in 1..SpanMax

\* backend/database.py: SQLAlchemy's queue pool, which waits for pool_timeout.
SqlWorks(field, value) ==
    CASE field = "port" -> PortWorks(value)
      [] field = "pool_timeout" -> value \in 0..SpanMax
      [] OTHER -> value >= 0

\* worker.py: ThreadPoolExecutor refuses 0 workers; an interval of 0 makes its loop
\* spin.  The TTL of a heartbeat is Redis's EX, which is not 0, or added to a date,
\* and stale_workers_timeout is taken from one.
WorkerWorks(field, value) ==
    CASE field = "heartbeat_ttl" -> value \in 1..SpanMax
      [] field = "stale_workers_timeout" -> value \in 0..SpanMax
      [] field \in {"concurrency", "heartbeat_interval", "cleanup_interval"} -> value >= 1
      [] OTHER -> value >= 0

Works(class, field, value) ==
    CASE class = "RedisBroker" -> RedisBrokerWorks(field, value)
      [] class = "RabbitMQBroker" -> RabbitMQBrokerWorks(field, value)
      [] class = "RedisBackend" -> RedisBackendWorks(field, value)
      [] class = "Worker" -> WorkerWorks(field, value)
      [] class \in {"Postgres", "MySQL", "MSSQL", "SQLite"} -> SqlWorks(field, value)
      [] OTHER -> TRUE       \* no code reads the App fields
=============================================================================
