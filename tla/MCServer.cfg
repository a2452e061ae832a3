SPECIFICATION FairSpec
CONSTANTS
    r1 = r1
    r2 = r2
    r3 = r3
    Requests = {r1, r2}
    Slots = 1
    MaxClaims = 2
    NoOne = NoOne
INVARIANTS
    TypeOK
    SlotsAreConserved
    LiveTurnsCanBeCancelled
    LastEventsAreTrue
PROPERTIES
    EveryRequestSettles
    CancelledInTimeTeachesNothing
    OneClaimAfterCancel
    ImplementsAdmission
CHECK_DEADLOCK FALSE
