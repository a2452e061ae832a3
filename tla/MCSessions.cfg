SPECIFICATION Spec
CONSTANTS
    s1 = s1
    s2 = s2
    s3 = s3
    l1 = l1
    l2 = l2
    NoTurn = NoTurn
    Sessions = {s1, s2, s3}
    MaxSessions = 2
    MaxTurnsKept = 2
    LegacyFacts = 2
    Snapshot <- MCSnapshot
    MaxTurns = 3
    MaxStops = 2
    MaxBackups = 1
INVARIANTS
    TypeOK
    ViewIsTheLatest
    PendingSurvivesRestart
    ContextFollowsTurns
    ImportIsComplete
CHECK_DEADLOCK FALSE
