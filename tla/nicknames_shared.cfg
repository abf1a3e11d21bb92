CONSTANTS
    Requests = {r1, r2}
    Emails = {e1, e2}
    Nicknames = {n1}
SPECIFICATION Spec
INVARIANT NicknamesDistinct
