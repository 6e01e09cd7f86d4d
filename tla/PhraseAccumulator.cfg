CONSTANTS
    SoftMax = 2
    PhraseMax = 4
    RetainedMax = 4
    MaxText = 5
SPECIFICATION Spec
\* A flushed text is the end.
CHECK_DEADLOCK FALSE
INVARIANTS
    NothingLost
    PeriodsDecidedOnce
