CONSTANTS
    Requests = {r1, r2, r3}
    Users = {u1, u2}
    Fields = {title, content}
    MaxPosts = 1
SPECIFICATION Spec
SYMMETRY Symmetry
INVARIANT IInv
INVARIANT EditsKept
PROPERTY DeletedForGood
PROPERTY RefusalTrue
