SPECIFICATION HarnessSpec
CONSTANTS
    Tried = {"S2_TEMPERATURE", "S2_STREAM", "S2_SYNTHESIS_TIMEOUT_SEC",
             "S2_CODEC_CONTEXT_FRAMES", "S2_PORT", "ADMIN_HTTP_HOST"}
    MaxSet = 2
    MaxReads = 3
    ReadSizes = {2, 4}
    Channels = {0, 2, 3}
\* The program ends.
CHECK_DEADLOCK FALSE
INVARIANTS
    VerdictEarned
    NoContactUnasked
