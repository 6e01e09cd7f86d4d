SPECIFICATION Spec
CONSTANTS
    r1 = r1  r2 = r2  r3 = r3  r4 = r4
    c1 = c1  c2 = c2  c3 = c3  c4 = c4
    Requests = {r1, r2, r3, r4}
    Connections = {c1, c2, c3, c4}
    ConnOf <- MCConnOf4
    MaxSize = 3
    Impatient = {r2}
    Progressive = {r2}
    Finite = {}
    CancelOnNewRequest = TRUE
    NoRequest = NoRequest
CHECK_DEADLOCK FALSE
INVARIANTS
    SingleWorker
    NoLostWaiter
    CapacityAccounting
    OutcomesCountedOnce
    DrainGate
    ShutdownStopsSynthesis
PROPERTIES
    NoStartAfterDrain
    ImplementsGate
    EveryWaitEnds
