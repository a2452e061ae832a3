\* One process; every backup is an upgrade's.
SPECIFICATION FairSpec
CONSTANTS
    p1 = p1
    p2 = p2
    Procs = {p1}
    raise = raise
    Lessons = {raise}
    Absent = Absent
    Schema = 2
    Newest = 3
    MaxSeconds = 1
    Before = FALSE
    After = FALSE
PROPERTIES
    RecoverTakesTheMostRecent
CHECK_DEADLOCK FALSE
