CONSTANTS
    Clients = {c1, c2}
    Signals = {s1, s2}
    AdminEnabled = TRUE
SPECIFICATION FairSpec
\* A process that has exited does nothing more.
CHECK_DEADLOCK FALSE
INVARIANTS
    ReleasedOnlyWhenOver
    CleanExit
PROPERTIES
    LifecycleForward
    NoAdmissionWhenStopping
    SignalTerminates
