SPECIFICATION DocumentsSpec
CONSTANTS
    raise = raise
    RAISE = RAISE
    d1 = d1
    d2 = d2
    NoClaim = NoClaim
    Claims = {raise, RAISE}
    Kind <- MCKind
    Norm <- MCNorm
    Contradicts = {}
    Lessons <- MCLessons
    MaxAssertions = 2
    MaxVersion = 2
    MaxTurns = 1
    MaxEvidence = 1
    MaxView = 1
    MaxBackups = 0
    FaultyReads = FALSE
    Documents = {d1, d2}
    Proposals <- MCProposals
    NoDocument = NoDocument
    Hand = Hand
SYMMETRY Symmetry
INVARIANTS
    DocumentsTypeOK
    ItemsPointBack
    EngineIsSupported
PROPERTIES
    RemovalLeavesNothing
    RemovalSparesTheOthers
CHECK_DEADLOCK FALSE
