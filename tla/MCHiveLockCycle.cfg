SPECIFICATION FairSpec
CONSTANTS
    a1 = a1
    a2 = a2
    c1 = c1
    c2 = c2
    Agents = {a1, a2}
    Conns = {c1, c2}
    Cohorts = {0}
    Roles <- OneRole
    Rank <- MCRank
    Views <- MCViews
    Outlook <- MCOutlook
    Similarity <- MCSimilarity
    Bundle <- MCBundle
    Floor = 55
    MaxSilent = 1
    OverflowChecks = FALSE
    MaxEpoch = 2
    MaxBusy = 2
    None = None
INVARIANTS
    NoLockCycle
CHECK_DEADLOCK FALSE
