CONSTANTS
    Requests = {r1, r2}
    Users = {u1, u2}
    Posts = {p1}
    UseCounterCache = TRUE
    Readers = {u1}
SPECIFICATION DetailSpec
INVARIANT CountExactUnlessDrifted
INVARIANT IInv
PROPERTY DetailCoherent
PROPERTY LikeCountsOnce
PROPERTY ImplementsSetToggle
PROPERTY EveryToggleEnds
