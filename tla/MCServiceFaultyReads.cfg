SPECIFICATION FairSpec
CONSTANTS
    raise = raise
    cut = cut
    RAISE = RAISE
    chain = chain
    NoClaim = NoClaim
    Claims = {raise, chain}
    Kind <- MCKind
    Norm <- MCNorm
    Contradicts <- MCContradicts
    Lessons <- MCLessons
    MaxAssertions = 2
    MaxVersion = 2
    MaxTurns = 2
    MaxEvidence = 2
    MaxView = 1
    MaxBackups = 1
    FaultyReads = TRUE
INVARIANTS
    ViewIsRecent
PROPERTIES
    TurnsComplete
