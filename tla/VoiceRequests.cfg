SPECIFICATION Spec
CONSTANTS
    Voices = {ann, Ann}
    Fold <- MCFold
    Sources <- MCSources
    Accompanied <- MCAccompanied
    Documented <- MCDocumented
    Importers = {i1, i2}
    MaxImports = 2
    MaxCrashes = 1
    MaxStuck = 1
    MaxRemovals = 1
    Generic = Generic
    NoVoice = NoVoice
    DefaultVoice = NoVoice
    Streaming = TRUE
    ContextFrames = 4
    NoContext = NoContext
    Answers <- MCAnswers
    MaxPhrases = 2
SYMMETRY MCSymmetry
CHECK_DEADLOCK FALSE
INVARIANTS
    ServedWhole
    TempsReclaimed
    OneVoicePerSession
