CONSTANTS
    Rate = 440
    FrameSize = 2
    ChunkMs = 5
    Policies <- MCPolicies
    Phrases = 3
    MaxBytes = 11
SPECIFICATION Spec
\* A closed session is over.
CHECK_DEADLOCK FALSE
INVARIANTS
    AudioIntact
    OneTimeline
