CONSTANTS
    Requests = {r1, r2}
    MaxAttempts = 2
SPECIFICATION FairSpec
\* Nothing is left to do when every request is done.
CHECK_DEADLOCK FALSE
INVARIANTS
    OneAnswer
    NoFalseSuccess
    StreamsReleased
    OneReader
PROPERTIES
    NothingBegunLate
    EveryRequestEnds
