CONSTANTS
    Tasks = {t1, t2}
    Posts = {p1, p2}
    Modes = {TRUE}
    SyncEvery = 1
    Faults = {"job", "redis"}
    MaxHits = 2
SPECIFICATION JobSpec
SYMMETRY Symmetry
INVARIANT NoOvercountByJob
PROPERTY ViewsBackOnlyOvertaken
PROPERTY FlushedAtEnd
