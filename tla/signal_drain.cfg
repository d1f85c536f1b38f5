\* A worker under asyncio.run(run()), stopped by a signal.
SPECIFICATION Spec
CONSTANTS
    Envelopes = {e1, e2}
    Threaded = {e2}
    Stoppers = {c1, c2}
    Modes = {"run"}
INVARIANT
    DrainsOnSignal
CHECK_DEADLOCK FALSE
