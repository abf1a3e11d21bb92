CONSTANTS
    Tasks = {t1, t2, t3}
    Posts = {p1}
    Modes = {TRUE, FALSE}
    SyncEvery = 2
    Faults = {"task", "redis"}
    MaxHits = 4
SPECIFICATION FairSpec
INVARIANT NoOvercount
INVARIANT CacheExactUnlessDisturbed
INVARIANT ReReadGrowsUnlessDisturbed
INVARIANT IInv
INVARIANT UncachedViewsExact
PROPERTY EveryReadEnds
