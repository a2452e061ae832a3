\* Two processes, one lesson, an upgrade from every schema, a later build.
SPECIFICATION Spec
CONSTANTS
    p1 = p1
    p2 = p2
    Procs = {p1, p2}
    raise = raise
    Lessons = {raise}
    Absent = Absent
    Schema = 2
    Newest = 3
    MaxSeconds = 1
    Before = FALSE
    After = TRUE
SYMMETRY Symmetry
INVARIANTS
    MigrationsAreExact
    ServersRunOnTheirSchema
    UpgradeKeepsAWayBack
CHECK_DEADLOCK FALSE
