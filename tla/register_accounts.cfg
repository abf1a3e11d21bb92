CONSTANTS
    Requests = {r1, r2, r3}
    Emails = {e1, e2}
    Nicknames = {n1, n2}
SPECIFICATION Spec
SYMMETRY Symmetry
INVARIANT IInv
PROPERTY AccountsShareOnlyIfRaced
PROPERTY IndexErrorOnlyIfRaced
