CONSTANTS
    Requests = {r1, r2}
    Users = {u1}
    TicksPerSecond = 2
    LifeSeconds = 1
    MaxTime = 3
    MaxRows = 3
SPECIFICATION FairSpec
INVARIANT IInv
PROPERTY ImplementsSessions
PROPERTY RotationExact
PROPERTY ReuseNeedsRaceOrReissue
PROPERTY EveryRequestEnds
CHECK_DEADLOCK FALSE
