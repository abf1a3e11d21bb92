CONSTANTS
    Requests = {r1, r2}
    Users = {u1, u2}
    Posts = {p1, p2}
    MaxComments = 3
SPECIFICATION Spec
SYMMETRY Symmetry
INVARIANT IInv
INVARIANT ThreadsFlat
PROPERTY DeletedForGood
PROPERTY ReplyUnderDeletedOnlyIfRaced
PROPERTY AuthorRefusedOnlyUnborn
