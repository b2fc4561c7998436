SPECIFICATION CcixSpec
CONSTANTS
    CachelineSz = 64
    FlitWords = 8
    MaxPktPerFlit = 2
    Lines = {1, 2}
    NumIDs = 2
    ChipIDs = 6
    MaxMsgCredits = 1
    Scenarios <- CcixScenarios
INVARIANTS LookupsSucceed NothingLeaks TranslationKeeps CopiesAreKnown
PROPERTY CcixCompletes
CHECK_DEADLOCK FALSE
