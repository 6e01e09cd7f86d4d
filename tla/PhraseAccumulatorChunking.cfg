CONSTANTS
    SoftMax = 2
    PhraseMax = 4
    RetainedMax = 4
    MaxText = 5
SPECIFICATION Spec
CHECK_DEADLOCK FALSE
INVARIANTS
    ChunkingInvariant
