SPECIFICATION Spec
CONSTANTS
    r1 = r1  r2 = r2  r3 = r3  r4 = r4
    c1 = c1  c2 = c2  c3 = c3  c4 = c4
    Requests = {r1, r2, r3}
    Connections = {c1, c2, c3}
    ConnOf <- MCConnOf3
    MaxSize = 3
    Impatient = {r3}
    Progressive = {r1, r2}
    Finite = {}
    CancelOnNewRequest = FALSE
    NoRequest = NoRequest
CHECK_DEADLOCK FALSE
INVARIANTS
    NoPermitLeak
