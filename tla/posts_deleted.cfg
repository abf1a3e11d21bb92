CONSTANTS
    Requests = {r1, r2}
    Users = {u1}
    Fields = {title, content}
    MaxPosts = 1
SPECIFICATION Spec
PROPERTY NoInternalError
