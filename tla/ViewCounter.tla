---------------------------- MODULE ViewCounter ----------------------------
(***************************************************************************)
(* The view counter of posts, write-behind through Redis:                  *)
(*   PostService.read_post_by_id, increment_views_background               *)
(*   PostRepository.get_post_with_user, increment_views_if_exists,         *)
(*   sync_views, and the endpoint read_post that schedules the task.       *)
(* With useCache (USE_VIEWS_COUNTER_CACHE) a read answers the counter in   *)
(* Redis, filling it from posts.views when it is missing, and a background *)
(* task started after the response increments it and copies every          *)
(* SyncEvery-th value to posts.views.  Without, the read itself increments *)
(* posts.views.                                                            *)
(*                                                                         *)
(* GET, SET and INCR are separate round trips: any other task may run      *)
(* between two of them.  A member of Tasks serves one read, with its       *)
(* background task, after the other.                                       *)
(***************************************************************************)
EXTENDS Integers, FiniteSets

CONSTANTS
    Tasks,      \* reads in flight, each with its background task
    Posts,
    Modes,      \* the values of USE_VIEWS_COUNTER_CACHE it may start with
    SyncEvery,  \* 10 in increment_views_background
    Faults,     \* which of {"task", "redis"} may fail, and "job" in ViewSyncJob
    MaxHits     \* bound: views of one post in a behaviour

ASSUME ModeAssumption == Modes \subseteq BOOLEAN
ASSUME SyncAssumption == SyncEvery \in Nat \ {0}
ASSUME BoundAssumption == MaxHits \in Nat

Nil == -1
NoPost == "none"
ASSUME PostsAssumption == NoPost \notin Posts

VARIABLES
    useCache,   \* settings.USE_VIEWS_COUNTER_CACHE, read at start-up
    views,      \* committed posts.views
    deleted,    \* committed posts.is_deleted
    cache,      \* Redis: post:views:{post_id}, or Nil
    pc,
    post,       \* the post a task reads
    answer,     \* post_dto.views
    newViews,   \* new_views of the background task
    (* History: *)
    hits,       \* views counted so far
    seen,       \* the least a re-read of the post ought to answer
    floor,      \* that bound when the task's read began
    disturbed   \* posts whose Redis counter was lost, or SET over a newer one

tables == <<views, deleted>>
locals == <<pc, post, answer, newViews, floor>>
history == <<hits, seen, disturbed>>
vars == <<useCache, tables, cache, locals, history>>

Init ==
    /\ useCache \in Modes
    /\ views = [p \in Posts |-> 0]
    /\ deleted = {}
    /\ cache = [p \in Posts |-> Nil]
    /\ pc = [t \in Tasks |-> "idle"]
    /\ post = [t \in Tasks |-> NoPost]
    /\ answer = [t \in Tasks |-> 0]
    /\ newViews = [t \in Tasks |-> 0]
    /\ hits = [p \in Posts |-> 0]
    /\ seen = [p \in Posts |-> 0]
    /\ floor = [t \in Tasks |-> 0]
    /\ disturbed = {}

(* Plausible bugs: posts.views is read, increased in Python and written    *)
(* back; a second UnitOfWork waits for the row the first one has locked.   *)
PostNeverLocked(p) == FALSE
PostLockedByOwnTask(p) ==
    \E t \in Tasks : pc[t] \in {"sync", "increment", "commit"} /\ post[t] = p

(* An open transaction has updated the row of posts. *)
PostLocked(p) == \E t \in Tasks : pc[t] = "commit" /\ post[t] = p

(* The bound: a view is counted, or still may be, by every task on p. *)
MayBegin(p) == hits[p] + Cardinality({t \in Tasks : post[t] = p}) < MaxHits

Goto(t, l) == pc' = [pc EXCEPT ![t] = l]

(* The task is over: the response is sent, or the exception, and no        *)
(* background work is left. *)
Finish(t) ==
    /\ Goto(t, "idle")
    /\ post' = [post EXCEPT ![t] = NoPost]
    /\ answer' = [answer EXCEPT ![t] = 0]
    /\ newViews' = [newViews EXCEPT ![t] = 0]
    /\ floor' = [floor EXCEPT ![t] = 0]

(* read_post_by_id, cached: get_post_with_user reads posts.views.  A       *)
(* deleted post ends the read with PostNotFoundException. *)
ReadPost(t, p) ==
    /\ useCache
    /\ pc[t] = "idle"
    /\ IF p \in deleted
       THEN UNCHANGED locals
       ELSE /\ MayBegin(p)
            /\ Goto(t, "get")
            /\ post' = [post EXCEPT ![t] = p]
            /\ answer' = [answer EXCEPT ![t] = views[p]]
            /\ floor' = [floor EXCEPT ![t] = seen[p]]
            /\ UNCHANGED newViews
    /\ UNCHANGED <<tables, cache, history>>

(* redis.get *)
GetCached(t) ==
    /\ pc[t] = "get"
    /\ IF cache[post[t]] = Nil
       THEN Goto(t, "set") /\ UNCHANGED answer
       ELSE /\ Goto(t, "answer")
            /\ answer' = [answer EXCEPT ![t] = cache[post[t]]]
    /\ UNCHANGED <<tables, cache, post, newViews, floor, history>>

(* Plausible bug: the missing counter starts at 1 for the view being made, *)
(* and the background task counts it again. *)
FilledValuePlusOne(t) == answer[t] + 1

(* What SET writes: posts.views as this read found it. *)
FilledValue(t) == answer[t]

(* redis.set, unconditional.  It disturbs a counter that another read has  *)
(* filled, and moved, in the meantime. *)
SetCached(t) ==
    /\ pc[t] = "set"
    /\ cache' = [cache EXCEPT ![post[t]] = FilledValue(t)]
    /\ disturbed' = IF cache[post[t]] \in {Nil, FilledValue(t)}
                    THEN disturbed ELSE disturbed \cup {post[t]}
    /\ Goto(t, "answer")
    /\ UNCHANGED <<tables, post, answer, newViews, floor, hits, seen>>

(* The read commits and is answered; only then read_post's background task *)
(* runs. *)
Answer(t) ==
    /\ pc[t] = "answer"
    /\ Goto(t, "incr")
    /\ UNCHANGED <<tables, cache, post, answer, newViews, floor, history>>

Raise(s, v) == IF s < v THEN v ELSE s

(* Plausible bug: GET and SET where INCR is one round trip. *)
IncrementedFromAnswer(t) == answer[t] + 1

(* redis.incr: a missing key counts as 0. *)
Incremented(t) == IF cache[post[t]] = Nil THEN 1 ELSE cache[post[t]] + 1

(* increment_views_background *)
Incr(t) ==
    /\ pc[t] = "incr"
    /\ LET p == post[t]
           n == Incremented(t)
       IN  /\ cache' = [cache EXCEPT ![p] = n]
           /\ hits' = [hits EXCEPT ![p] = @ + 1]
           /\ seen' = [seen EXCEPT ![p] = Raise(@, answer[t] + 1)]
           /\ IF n % SyncEvery = 0
              THEN /\ Goto(t, "sync")
                   /\ newViews' = [newViews EXCEPT ![t] = n]
                   /\ UNCHANGED <<post, answer, floor>>
              ELSE Finish(t)
    /\ UNCHANGED <<tables, disturbed>>

(* sync_views: UPDATE posts SET views = new_views, deleted post or not *)
SyncViews(t) ==
    /\ pc[t] = "sync"
    /\ ~PostLocked(post[t])
    /\ Goto(t, "commit")
    /\ UNCHANGED <<tables, cache, post, answer, newViews, floor, history>>

CommitSync(t) ==
    /\ useCache
    /\ pc[t] = "commit"
    /\ views' = [views EXCEPT ![post[t]] = newViews[t]]
    /\ Finish(t)
    /\ UNCHANGED <<deleted, cache, history>>

(* read_post_by_id without the cache. *)
BeginUncached(t, p) ==
    /\ ~useCache
    /\ pc[t] = "idle"
    /\ p \in deleted \/ MayBegin(p)
    /\ Goto(t, "increment")
    /\ post' = [post EXCEPT ![t] = p]
    /\ floor' = [floor EXCEPT ![t] = seen[p]]
    /\ UNCHANGED <<tables, cache, answer, newViews, history>>

(* increment_views_if_exists: UPDATE ... WHERE NOT is_deleted RETURNING    *)
(* views; no row is PostNotFoundException. *)
IncrementViews(t) ==
    /\ pc[t] = "increment"
    /\ ~PostLocked(post[t])
    /\ IF post[t] \in deleted
       THEN Finish(t)
       ELSE /\ Goto(t, "commit")
            /\ answer' = [answer EXCEPT ![t] = views[post[t]] + 1]
            /\ UNCHANGED <<post, newViews, floor>>
    /\ UNCHANGED <<tables, cache, history>>

CommitUncached(t) ==
    /\ ~useCache
    /\ pc[t] = "commit"
    /\ views' = [views EXCEPT ![post[t]] = answer[t]]
    /\ hits' = [hits EXCEPT ![post[t]] = @ + 1]
    /\ seen' = [seen EXCEPT ![post[t]] = Raise(@, answer[t] + 1)]
    /\ Finish(t)
    /\ UNCHANGED <<deleted, cache, disturbed>>

(* A statement or a Redis call raises, or the process dies, background     *)
(* task and all: the transaction is rolled back, the SET and INCR of Redis *)
(* are not. *)
Fail(t) ==
    /\ "task" \in Faults
    /\ pc[t] # "idle"
    /\ Finish(t)
    /\ UNCHANGED <<tables, cache, history>>

(* Redis restarts empty, or evicts its keys. *)
RedisLoss ==
    /\ "redis" \in Faults
    /\ \E p \in Posts : cache[p] # Nil
    /\ cache' = [p \in Posts |-> Nil]
    /\ disturbed' = disturbed \cup {p \in Posts : cache[p] # Nil}
    /\ UNCHANGED <<tables, locals, hits, seen>>

(* soft_delete_post_core *)
DeletePost(p) ==
    /\ p \notin deleted
    /\ ~PostLocked(p)
    /\ deleted' = deleted \cup {p}
    /\ UNCHANGED <<views, cache, locals, history>>

(* The steps a started task takes unless it fails. *)
Step(t) ==
    \/ GetCached(t)
    \/ SetCached(t)
    \/ Answer(t)
    \/ Incr(t)
    \/ SyncViews(t)
    \/ CommitSync(t)
    \/ IncrementViews(t)
    \/ CommitUncached(t)

Next ==
    /\ \/ \E t \in Tasks :
             \/ \E p \in Posts : ReadPost(t, p) \/ BeginUncached(t, p)
             \/ Step(t)
             \/ Fail(t)
       \/ RedisLoss
       \/ \E p \in Posts : DeletePost(p)
    /\ UNCHANGED useCache

Spec == Init /\ [][Next]_vars

(* The event loop resumes a task after each await; PostgreSQL serves the   *)
(* waiters of a row in turn. *)
FairSpec == Spec /\ \A t \in Tasks : SF_vars(Step(t) /\ UNCHANGED useCache)
-----------------------------------------------------------------------------
TypeOK ==
    /\ useCache \in Modes
    /\ views \in [Posts -> Nat]
    /\ deleted \subseteq Posts
    /\ cache \in [Posts -> Nat \cup {Nil}]
    /\ pc \in [Tasks -> {"idle", "get", "set", "answer", "incr", "sync",
                         "increment", "commit"}]
    /\ post \in [Tasks -> Posts \cup {NoPost}]
    /\ answer \in [Tasks -> Nat]
    /\ newViews \in [Tasks -> Nat]
    /\ hits \in [Posts -> Nat]
    /\ seen \in [Posts -> Nat]
    /\ floor \in [Tasks -> Nat]
    /\ disturbed \subseteq Posts

(* No view is ever counted twice, in Redis, in posts.views or in a sync    *)
(* under way: whatever is lost, refilled or copied late, every counter is  *)
(* at most the number of views. *)
NoOvercount ==
    /\ \A p \in Posts : views[p] <= hits[p] /\ cache[p] <= hits[p]
    /\ \A t \in Tasks :
          useCache /\ pc[t] \in {"sync", "commit"} => newViews[t] <= hits[post[t]]

(* The Redis counter of a post is the number of its views, as long as no   *)
(* read filled it over a newer one and Redis did not lose it.  Failing     *)
(* tasks and late syncs to posts.views do not disturb it. *)
CacheExactUnlessDisturbed ==
    useCache =>
        \A p \in Posts \ disturbed :
            IF cache[p] = Nil THEN hits[p] = 0 ELSE cache[p] = hits[p]

(* What test_read_post_and_views expects of one client, for any number of  *)
(* overlapping ones: a read that begins after another one was answered and *)
(* counted answers more than it, unless the post's counter is disturbed. *)
ReReadGrowsUnlessDisturbed ==
    \A t \in Tasks :
        pc[t] \in {"answer", "incr", "sync", "commit"} /\ post[t] \notin disturbed
            => answer[t] >= floor[t]

(* Without the cache posts.views counts every answered read and nothing    *)
(* else. *)
UncachedViewsExact == ~useCache => \A p \in Posts : views[p] = hits[p]

(* The least answer a read that begins now may give. *)
NextAnswer(p) == IF useCache THEN hits[p] ELSE hits[p] + 1

(* Which task is where, and what its local values are worth there. *)
TaskOK ==
    \A t \in Tasks :
        /\ pc[t] = "idle" <=> post[t] = NoPost
        /\ pc[t] \in {"get", "set", "answer", "incr", "sync"} => useCache
        /\ pc[t] = "increment" => ~useCache
        /\ pc[t] # "idle" => floor[t] <= seen[post[t]]
        /\ pc[t] \in {"get", "set", "answer", "incr"} => answer[t] <= hits[post[t]]
        /\ pc[t] = "set" /\ post[t] \notin disturbed => floor[t] = 0
        /\ pc[t] \in {"answer", "incr"} /\ cache[post[t]] = Nil => post[t] \in disturbed
        /\ pc[t] = "commit" /\ ~useCache => answer[t] = views[post[t]] + 1

(* A row of posts has one writer. *)
PostsApart ==
    \A t, s \in Tasks :
        t # s /\ pc[t] = "commit" /\ pc[s] = "commit" => post[t] # post[s]

SeenOK == \A p \in Posts : seen[p] <= NextAnswer(p)

(* The inductive invariant: every counter and every copy of one held by a  *)
(* task is bounded by the views counted, and an undisturbed one is current *)
(* (read_post_by_id, increment_views_background). *)
IInv ==
    /\ TypeOK
    /\ TaskOK
    /\ PostsApart
    /\ SeenOK
    /\ NoOvercount
    /\ CacheExactUnlessDisturbed
    /\ ReReadGrowsUnlessDisturbed
    /\ UncachedViewsExact

(* Every read that starts ends, with its background task: nothing waits    *)
(* for the row of posts for ever. *)
EveryReadEnds == \A t \in Tasks : pc[t] # "idle" ~> pc[t] = "idle"
=============================================================================
