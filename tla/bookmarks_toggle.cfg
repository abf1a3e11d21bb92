CONSTANTS
    Requests = {r1, r2, r3}
    Users = {u1, u2}
    Posts = {p1, p2}
SPECIFICATION Spec
SYMMETRY Symmetry
PROPERTY ImplementsSetToggle
