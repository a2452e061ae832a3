SPECIFICATION Spec
CONSTANTS
    raise = raise
    cut = cut
    RAISE = RAISE
    chain = chain
    NoClaim = NoClaim
    Claims = {raise, cut}
    Kind <- MCKind
    Norm <- MCNorm
    Contradicts <- MCContradicts
    Lessons <- MCLessons
    MaxAssertions = 2
    MaxVersion = 2
    MaxTurns = 3
    MaxEvidence = 2
    MaxView = 1
    MaxBackups = 1
    FaultyReads = FALSE
INVARIANTS
    TypeOK
    EngineIsSupported
    FreshTurnsAreCurrent
    ConclusionsMatchTurns
    ViewAgreesOnStaleness
    HistoryIsComplete
PROPERTIES
    TombstonesAreFinal
    ImplementsLedger
