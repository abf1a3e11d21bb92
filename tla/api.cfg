CONSTANTS
    Requests = {r1, r2}
    Endpoints = {"read_post", "read_post_uncached", "read_posts_list", "refresh_token", "register", "update_post"}
    HeaderIds = {h1}
    NoId = NoId
    PoolSize = 1
SPECIFICATION Spec
INVARIANT IInv
INVARIANT TracedThroughout
INVARIANT AnswerTellsCommit
PROPERTY EveryRequestAnswered
