\* One part of the program at a time.
SPECIFICATION ProgramSpec
CONSTANTS
    Policies <- MCPolicies
    Exceptions <- MCExceptions
    NamesOf <- MCNamesOf
    Countdowns = {0, 3}
    MaxExponent = 2
    MaxDirect = 2
    MaxAssigns = 1
    TtlMax = 200000
    WireMax = 400000
    SpanMax = 300000
    Kinds = {"Redis", "RabbitMQ", "Postgres", "MySQL", "MSSQL", "SQLite"}
    Places = {"localhost", "alpha", "beta"}
    Home = "localhost"
    Configs = {c1, c2}
    Apps = {a1, a2}
    Intervals = {10, 30}
    Ttls = {30}
    Sizes = {8}
    MaxTasks = 1
    Signatures <- MCSignatures
    MaxArgs = 3
    Functions <- MCFunctions
    ModuleNames = {"tasks", "app.tasks"}
    ExplicitNames = {"job", "tidy"}
    N = 2
    Timeout = 2
    StopTimes = {1, 3}
    MaxSignals = 2
INVARIANTS
    ProgramTypeOK
    PolicyHolds
    ValidatedWorks
    CopiesAgree
    CallsBind
    NamesAgree
    
PROPERTIES
    PermanentIsFinal
    ComesToAnEnd
\* Each part ends.
CHECK_DEADLOCK FALSE
