----------------------------- MODULE LikeToggle -----------------------------
(***************************************************************************)
(* Concurrent like/unlike toggles of posts:                                *)
(*   PostService.toggle_like_post      (app/services/post_service.py)      *)
(*   LikeRepository                    (app/repositories/like.py)          *)
(*   UnitOfWork                        (app/core/uow.py)                   *)
(* over PostgreSQL at READ COMMITTED.  One action is one SQL statement (or *)
(* the commit); between two of them any other request may run.  A          *)
(* statement sees the committed rows and its own transaction's writes; a   *)
(* row it wrote stays locked until its transaction ends, and another       *)
(* statement on that row waits (it is not enabled).                        *)
(*                                                                         *)
(* A member of Requests is a connection that serves one toggle after the   *)
(* other, so the number of toggles is unbounded and the state is finite.   *)
(***************************************************************************)
EXTENDS Naturals, FiniteSets

CONSTANTS
    Requests,         \* connections that serve toggle requests
    Users,
    Posts,
    UseCounterCache   \* the argument use_counter_cache of toggle_like_post

ASSUME UsersAssumption == IsFiniteSet(Users)
ASSUME ModeAssumption == UseCounterCache \in BOOLEAN

NoPair == <<>>
Pairs == Users \X Posts

VARIABLES
    likes,       \* committed rows of likes: a set of <<user, post>>
    likesCount,  \* committed posts.likes_count
    deleted,     \* committed posts.is_deleted
    pc,          \* the statement a request is about to run
    pair,        \* its (user_id, post_id)
    isLiked,     \* is_liked, the answer decided by exists_like
    wrote,       \* the row its open transaction has written
    count,       \* new_count / real_count, the count it will answer
    (* History, read by no guard:                                          *)
    served,      \* r's last toggle was answered, and did not fail
    missed,      \* a commit changed the post's likes after r's recount
    drifted      \* posts whose last unlike wrote a count that missed one

requestVars == <<pc, pair, isLiked, wrote, count>>
vars == <<likes, likesCount, deleted, requestVars, served, missed, drifted>>

Statements == {"exists", "insert", "delete", "increment", "recount",
               "overwrite", "cached", "commit"}
AfterRecount == {"overwrite", "commit"}

PostOf(r) == pair[r][2]
LikesOf(p) == {x \in likes : x[2] = p}

(* The rows of likes that r's own statements see. *)
VisibleLikes(r) ==
    CASE wrote[r] = "insert" -> likes \cup {pair[r]}
      [] wrote[r] = "delete" -> likes \ {pair[r]}
      [] OTHER -> likes

(* Plausible bug: unlike decrements the counter it reads. *)
VisibleCountDecrements(r) == likesCount[PostOf(r)] - 1

VisibleCount(r) == Cardinality({x \in VisibleLikes(r) : x[2] = PostOf(r)})

(* Plausible bugs: no unique constraint, so nothing waits; exists_like     *)
(* takes a share lock that the write must upgrade.                         *)
RowNeverLocked(r) == FALSE
RowLockedByReaders(r) == \E s \in Requests \ {r} : pair[s] = pair[r]

(* Another open transaction has inserted or deleted r's row of likes. *)
RowLocked(r) ==
    \E s \in Requests \ {r} : wrote[s] # "none" /\ pair[s] = pair[r]

(* r's open transaction has updated its row of posts. *)
HoldsPost(r) == UseCounterCache /\ wrote[r] # "none" /\ pc[r] = "commit"

(* Plausible bug: likes_count is read, increased in Python, written back.  *)
PostNeverLocked(p) == FALSE

PostLocked(p) == \E s \in Requests : HoldsPost(s) /\ PostOf(s) = p

Init ==
    /\ likes = {}
    /\ likesCount = [p \in Posts |-> 0]
    /\ deleted = {}
    /\ pc = [r \in Requests |-> "idle"]
    /\ pair = [r \in Requests |-> NoPair]
    /\ isLiked = [r \in Requests |-> FALSE]
    /\ wrote = [r \in Requests |-> "none"]
    /\ count = [r \in Requests |-> 0]
    /\ served = [r \in Requests |-> FALSE]
    /\ missed = [r \in Requests |-> FALSE]
    /\ drifted = {}

(* What only the end of a transaction changes. *)
tableVars == <<likes, likesCount, deleted, served, drifted>>

(* get_post: a deleted post ends the request with PostNotFoundException    *)
(* and a transaction that changed nothing.                                 *)
GetPost(r, u, p) ==
    /\ pc[r] = "idle"
    /\ IF p \in deleted
       THEN UNCHANGED <<pc, pair>>
       ELSE /\ pc' = [pc EXCEPT ![r] = "exists"]
            /\ pair' = [pair EXCEPT ![r] = <<u, p>>]
    /\ UNCHANGED <<tableVars, isLiked, wrote, count, missed>>

(* exists_like chooses the method and the answer. *)
ExistsLike(r) ==
    /\ pc[r] = "exists"
    /\ pc' = [pc EXCEPT ![r] = IF pair[r] \in likes THEN "delete" ELSE "insert"]
    /\ isLiked' = [isLiked EXCEPT ![r] = pair[r] \notin likes]
    /\ UNCHANGED <<tableVars, pair, wrote, count, missed>>

(* What follows the write of the row: the two methods with the counter     *)
(* cache read the cached count when they changed nothing, the two without  *)
(* it always count the rows.                                               *)
AfterWrite(changed, next) ==
    IF ~UseCounterCache THEN "recount" ELSE IF changed THEN next ELSE "cached"

(* INSERT ... ON CONFLICT DO NOTHING RETURNING id *)
InsertLike(r) ==
    /\ pc[r] = "insert"
    /\ ~RowLocked(r)
    /\ wrote' = [wrote EXCEPT ![r] = IF pair[r] \in likes THEN "none" ELSE "insert"]
    /\ pc' = [pc EXCEPT ![r] = AfterWrite(pair[r] \notin likes, "increment")]
    /\ UNCHANGED <<tableVars, pair, isLiked, count, missed>>

(* DELETE ... RETURNING id waits for another DELETE of the committed row;  *)
(* it does not see a row that another transaction has inserted, and ends   *)
(* at once. *)
DeleteLike(r) ==
    /\ pc[r] = "delete"
    /\ pair[r] \in likes => ~RowLocked(r)
    /\ wrote' = [wrote EXCEPT ![r] = IF pair[r] \in likes THEN "delete" ELSE "none"]
    /\ pc' = [pc EXCEPT ![r] = AfterWrite(pair[r] \in likes, "recount")]
    /\ UNCHANGED <<tableVars, pair, isLiked, count, missed>>

(* UPDATE posts SET likes_count = likes_count + 1 RETURNING likes_count *)
IncrementCount(r) ==
    /\ pc[r] = "increment"
    /\ ~PostLocked(PostOf(r))
    /\ count' = [count EXCEPT ![r] = likesCount[PostOf(r)] + 1]
    /\ pc' = [pc EXCEPT ![r] = "commit"]
    /\ UNCHANGED <<tableVars, pair, isLiked, wrote, missed>>

(* get_count_likes: SELECT count(id), which takes no lock *)
Recount(r) ==
    /\ pc[r] = "recount"
    /\ count' = [count EXCEPT ![r] = VisibleCount(r)]
    /\ pc' = [pc EXCEPT ![r] = IF UseCounterCache THEN "overwrite" ELSE "commit"]
    /\ UNCHANGED <<tableVars, pair, isLiked, wrote, missed>>

(* UPDATE posts SET likes_count = real_count *)
OverwriteCount(r) ==
    /\ pc[r] = "overwrite"
    /\ ~PostLocked(PostOf(r))
    /\ pc' = [pc EXCEPT ![r] = "commit"]
    /\ UNCHANGED <<tableVars, pair, isLiked, wrote, count, missed>>

(* get_cached_count_likes *)
ReadCachedCount(r) ==
    /\ pc[r] = "cached"
    /\ count' = [count EXCEPT ![r] = likesCount[PostOf(r)]]
    /\ pc' = [pc EXCEPT ![r] = "commit"]
    /\ UNCHANGED <<tableVars, pair, isLiked, wrote, missed>>

(* The request is over, with success or without, and its connection serves *)
(* the next one. *)
Finish(r, success) ==
    /\ served' = [served EXCEPT ![r] = success]
    /\ pc' = [pc EXCEPT ![r] = "idle"]
    /\ pair' = [pair EXCEPT ![r] = NoPair]
    /\ isLiked' = [isLiked EXCEPT ![r] = FALSE]
    /\ wrote' = [wrote EXCEPT ![r] = "none"]
    /\ count' = [count EXCEPT ![r] = 0]

(* The unlikes of r's post whose count does not know of r's commit. *)
MissedBy(r, s) ==
    /\ s # r
    /\ wrote[r] # "none"
    /\ wrote[s] = "delete"
    /\ pc[s] \in AfterRecount
    /\ PostOf(s) = PostOf(r)

(* UnitOfWork.__aexit__ without an exception: the transaction's writes     *)
(* become visible at once and its locks are released.                      *)
Commit(r) ==
    /\ pc[r] = "commit"
    /\ likes' = VisibleLikes(r)
    /\ likesCount' = IF HoldsPost(r)
                     THEN [likesCount EXCEPT ![PostOf(r)] = count[r]]
                     ELSE likesCount
    /\ drifted' = CASE HoldsPost(r) /\ wrote[r] = "delete" /\ missed[r]
                         -> drifted \cup {PostOf(r)}
                    [] HoldsPost(r) /\ wrote[r] = "delete" /\ ~missed[r]
                         -> drifted \ {PostOf(r)}
                    [] OTHER -> drifted
    /\ missed' = [s \in Requests |-> s # r /\ (missed[s] \/ MissedBy(r, s))]
    /\ Finish(r, TRUE)
    /\ UNCHANGED deleted

(* A statement raises, the client disconnects or the process dies: the     *)
(* transaction is rolled back.                                             *)
Fail(r) ==
    /\ pc[r] # "idle"
    /\ missed' = [missed EXCEPT ![r] = FALSE]
    /\ Finish(r, FALSE)
    /\ UNCHANGED <<likes, likesCount, deleted, drifted>>

(* soft_delete_post_core of the author: one UPDATE of the row of posts in  *)
(* a transaction of its own.                                               *)
DeletePost(p) ==
    /\ p \notin deleted
    /\ ~PostLocked(p)
    /\ deleted' = deleted \cup {p}
    /\ UNCHANGED <<likes, likesCount, drifted, requestVars, served, missed>>

(* The steps a started request takes unless it fails. *)
Step(r) ==
    \/ ExistsLike(r)
    \/ InsertLike(r)
    \/ DeleteLike(r)
    \/ IncrementCount(r)
    \/ Recount(r)
    \/ OverwriteCount(r)
    \/ ReadCachedCount(r)
    \/ Commit(r)

Next ==
    \/ \E r \in Requests :
          \/ \E u \in Users, p \in Posts : GetPost(r, u, p)
          \/ Step(r)
          \/ Fail(r)
    \/ \E p \in Posts : DeletePost(p)

Spec == Init /\ [][Next]_vars

(* Once started, a request keeps running: the event loop resumes it after  *)
(* every await, and PostgreSQL serves the waiters of a row in turn, so a   *)
(* statement whose lock is free again and again gets it (SF).  Nothing     *)
(* obliges a client to send a request, the author to delete or a request   *)
(* to fail.                                                                *)
FairSpec == Spec /\ \A r \in Requests : SF_vars(Step(r))
-----------------------------------------------------------------------------
TypeOK ==
    /\ likes \subseteq Pairs
    /\ likesCount \in [Posts -> Nat]
    /\ deleted \subseteq Posts
    /\ pc \in [Requests -> Statements \cup {"idle"}]
    /\ pair \in [Requests -> Pairs \cup {NoPair}]
    /\ isLiked \in [Requests -> BOOLEAN]
    /\ wrote \in [Requests -> {"none", "insert", "delete"}]
    /\ count \in [Requests -> Nat]
    /\ served \in [Requests -> BOOLEAN]
    /\ missed \in [Requests -> BOOLEAN]
    /\ drifted \subseteq Posts

(* The parts of the inductive invariant.  Which rows a request has written *)
(* at which statement: *)
PhaseOK ==
    \A r \in Requests :
        /\ pc[r] = "idle" => pair[r] = NoPair
        /\ pc[r] # "idle" => pair[r] \in Pairs
        /\ pc[r] \in {"idle", "exists", "insert", "delete", "cached"} => wrote[r] = "none"
        /\ pc[r] = "increment" => wrote[r] = "insert" /\ UseCounterCache
        /\ pc[r] = "overwrite" => wrote[r] = "delete" /\ UseCounterCache
        /\ pc[r] = "recount" /\ UseCounterCache => wrote[r] = "delete"

(* is_liked is what the request has done or found done. *)
AnswerOK ==
    \A r \in Requests :
        /\ pc[r] \in {"idle", "exists", "delete"} => ~isLiked[r]
        /\ pc[r] = "insert" => isLiked[r]
        /\ wrote[r] = "insert" => isLiked[r]
        /\ wrote[r] = "delete" => ~isLiked[r]

(* An uncommitted insert is of a row not committed, a delete of one that   *)
(* is: nobody else changes the row before the transaction ends. *)
WrittenRow ==
    \A r \in Requests :
        /\ wrote[r] = "insert" => pair[r] \notin likes
        /\ wrote[r] = "delete" => pair[r] \in likes

(* A row has one writer. *)
RowsApart ==
    \A r, s \in Requests :
        r # s /\ wrote[r] # "none" /\ wrote[s] # "none" => pair[r] # pair[s]

PostsApart ==
    \A r, s \in Requests :
        r # s /\ HoldsPost(r) /\ HoldsPost(s) => PostOf(r) # PostOf(s)

(* An increment stays current until its commit. *)
IncrementCurrent ==
    \A r \in Requests :
        HoldsPost(r) /\ wrote[r] = "insert" => count[r] = likesCount[PostOf(r)] + 1

(* A recount that missed no commit is one less than the committed rows. *)
RecountCurrent ==
    \A r \in Requests :
        UseCounterCache /\ wrote[r] = "delete" /\ pc[r] \in AfterRecount /\ ~missed[r]
            => count[r] + 1 = Cardinality(LikesOf(PostOf(r)))

(* posts.likes_count is the number of likes of the post, at every moment,  *)
(* failures and deletions included, as long as its last unlike did not     *)
(* overwrite it with a recount that had missed another commit; the next    *)
(* undisturbed unlike repairs it (like_with_counter_cache and              *)
(* unlike_with_counter_cache against each other).                          *)
CountExactUnlessDrifted ==
    UseCounterCache =>
        \A p \in Posts \ drifted : likesCount[p] = Cardinality(LikesOf(p))

(* The inductive invariant: locks keep the writers of a row and of a post  *)
(* apart, so every uncommitted write stays true of the committed tables it *)
(* will replace, and the counter follows the rows (like.py, uow.py). *)
IInv ==
    /\ TypeOK
    /\ PhaseOK
    /\ AnswerOK
    /\ WrittenRow
    /\ RowsApart
    /\ PostsApart
    /\ IncrementCurrent
    /\ RecountCurrent
    /\ CountExactUnlessDrifted

LikeAddsOne ==
    UseCounterCache =>
        \A p \in Posts :
            (\E u \in Users : <<u, p>> \in likes' \ likes)
                => likesCount'[p] = likesCount[p] + 1

(* The increment of like_with_counter_cache is atomic: in the step in      *)
(* which a like becomes visible the counter grows by exactly one, whatever *)
(* other likes, unlikes and rollbacks came between the UPDATE and the      *)
(* commit, and on a drifted counter too.                                   *)
LikeCountsOnce == [][LikeAddsOne]_vars

(* toggle_like_post implements the atomic toggle of SetToggle: it aims     *)
(* once exists_like has answered, and has agreed once its statement found  *)
(* that another toggle had already done the same. *)
AbsPhase(r) ==
    IF pc[r] \in {"idle", "exists"} THEN "idle"
    ELSE IF pc[r] \in {"insert", "delete"} \/ wrote[r] # "none" THEN "aiming"
    ELSE "agreed"

AbsItem(r) == IF pc[r] \in {"idle", "exists"} THEN NoPair ELSE pair[r]

Toggle == INSTANCE SetToggle
    WITH Clients <- Requests, Items <- Pairs, members <- likes,
         phase <- [r \in Requests |-> AbsPhase(r)],
         item <- [r \in Requests |-> AbsItem(r)],
         want <- isLiked

ImplementsSetToggle == Toggle!AbsSpec

(* No two toggles wait for each other for ever: every request that starts  *)
(* ends, because all of them lock the row of likes before the row of posts.*)
EveryToggleEnds == \A r \in Requests : pc[r] # "idle" ~> pc[r] = "idle"
=============================================================================
