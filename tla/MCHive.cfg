SPECIFICATION Spec
CONSTANTS
    a1 = a1
    a2 = a2
    c1 = c1
    c2 = c2
    Agents = {a1, a2}
    Conns = {c1, c2}
    Cohorts = {0, 1}
    Roles <- BothRoles
    Rank <- MCRank
    Views <- MCViews
    Outlook <- MCOutlook
    Similarity <- MCSimilarity
    Bundle <- MCBundle
    Floor = 55
    MaxSilent = 1
    OverflowChecks = FALSE
    MaxEpoch = 4
    MaxBusy = 2
    None = None
SYMMETRY Symmetry
INVARIANTS
    TypeOK
    GoneAgentsLeaveNothing
    SubmissionsCanExpire
    CachesAreConsistent
PROPERTIES
    SweepTakesOnlyTheSilent
CHECK_DEADLOCK FALSE
