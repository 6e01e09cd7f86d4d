CONSTANTS
    MaxPhrases = 4
    MaxRefusals = 1
    StreamBackend = TRUE
    CancelOnDisconnect = TRUE
SPECIFICATION FairSpec
\* A closed connection does nothing more.
CHECK_DEADLOCK FALSE
INVARIANTS
    OneEnvelope
    NoFalseSuccess
    WorkerReleased
PROPERTIES
    NoPhraseAfterCancel
    StopAnswered
    ConnectionEnds
