---------------------------- MODULE ConfigTarget ----------------------------
(* Where a broker or a backend connects to.  Every address class of            *)
(* src/chicory/config.py has the parts of an address (host, port, user, ...)   *)
(* and a url that replaces them; each of the two comes from the constructor,   *)
(* from the environment or from the default, validate_url looks at the scheme  *)
(* of the url, the dsn property picks one of the two, and the component passes *)
(* the dsn to its driver, which may refuse the scheme.                         *)
EXTENDS FiniteSets

CONSTANTS
    Kinds,        \* the address classes
    Places,       \* servers an address can name
    Home          \* the server of the default parts ("localhost"), one of Places

VARIABLES kind, parts, url, stage, dsn
vars == <<kind, parts, url, stage, dsn>>

Absent == "absent"
Null == [scheme |-> Absent, place |-> Home]

\* "async": the scheme the driver chicory uses answers to; "sync": another driver
\* of the same server (postgresql://, mysql://); "other": another server's scheme.
Schemes == {"async", "sync", "other"}
Urls == [scheme : Schemes, place : Places]
HasSyncDrivers == {"Postgres", "MySQL", "MSSQL", "SQLite"}

\* An SQL class can be given the scheme of a synchronous driver, the rest cannot.
UrlsOf(k) == IF k \in HasSyncDrivers THEN Urls ELSE {u \in Urls : u.scheme # "sync"}

Init ==
    /\ kind \in Kinds
    /\ parts \in [argument : Places \cup {Absent}, environment : Places \cup {Absent}]
    /\ url \in [argument : UrlsOf(kind) \cup {Null}, environment : UrlsOf(kind) \cup {Null}]
    /\ stage = "new"
    /\ dsn = Null

\* Each field is resolved by itself, the argument before the environment.
Host ==
    CASE parts.argument # Absent -> parts.argument
      [] parts.argument = Absent /\ parts.environment # Absent -> parts.environment
      [] OTHER -> Home

Url == IF url.argument # Null THEN url.argument ELSE url.environment

\* validate_url: RedisDsn and AmqpDsn, MSSQL and SQLite know one family of
\* schemes; PostgresDsn and MySQLDsn also pass the synchronous drivers.
ValidUrl(k, u) ==
    \/ u = Null
    \/ u.scheme = "async"
    \/ u.scheme = "sync" /\ k \in {"Postgres", "MySQL"}

Construct ==
    /\ stage = "new"
    /\ stage' = IF ValidUrl(kind, Url) THEN "held" ELSE "rejected"
    /\ UNCHANGED <<kind, parts, url, dsn>>

\* Mutant: the scheme of the url with the host of the parts.
DsnMixed == [scheme |-> Url.scheme, place |-> Host]

\* The dsn property, read by the __init__ of the component.
Dsn == IF Url # Null THEN Url ELSE [scheme |-> "async", place |-> Host]

Wire ==
    /\ stage = "held"
    /\ stage' = "wired"
    /\ dsn' = Dsn
    /\ UNCHANGED <<kind, parts, url>>

\* create_async_engine and the Redis and AMQP clients look at the scheme.
Connect ==
    /\ stage = "wired"
    /\ stage' = IF dsn.scheme = "async" THEN "connected" ELSE "refused"
    /\ UNCHANGED <<kind, parts, url, dsn>>

Next == Construct \/ Wire \/ Connect

Spec == Init /\ [][Next]_vars

-----------------------------------------------------------------------------
\* The state has its types.
TypeOK ==
    /\ kind \in Kinds
    /\ parts \in [argument : Places \cup {Absent}, environment : Places \cup {Absent}]
    /\ url \in [argument : Urls \cup {Null}, environment : Urls \cup {Null}]
    /\ stage \in {"new", "rejected", "held", "wired", "connected", "refused"}
    /\ dsn \in Urls \cup {Null}

\* A url that validate_url passed is one the driver takes; PostgresDsn and MySQLDsn
\* are the exception: they pass the synchronous drivers, which
\* create_async_engine refuses when the worker connects.
ValidatedConnects == stage = "refused" => kind \in {"Postgres", "MySQL"}

\* The order of an address's sources: a component never goes anywhere else than a
\* url given to the constructor says, nor to a server or a scheme put together from
\* two of them; and a part given to the constructor is overruled by a url alone, that
\* of the environment included (against docs/user-guide/configuration.md:8-14, where an
\* explicit parameter comes before the environment).
AddressInOrder ==
    stage \in {"wired", "connected", "refused"} =>
        /\ url.argument # Null => dsn = url.argument
        /\ dsn \notin {url.argument, url.environment} => dsn.scheme = "async"
        /\ dsn.place # parts.argument =>
               dsn \in {url.argument, url.environment} \/ parts.argument = Absent
=============================================================================
