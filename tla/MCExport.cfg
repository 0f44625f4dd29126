SPECIFICATION FairProgramSpec
CONSTANTS
    c1 = c1
    c2 = c2
    s1 = s1
    s2 = s2
    Collectors = {c1, c2}
    WithoutURL = {}
    Sinks = {s1, s2}
    FetchLimit = 1
    PushLimit = 1
    MaxBatches = 2
    MaxTotal = 2
INVARIANTS
    TypeOK
    NoSendOnClosed
    Accounted
    PushedOnce
PROPERTIES
    OneBatchCut
    RoundEnds
    SignalEndsProgram
