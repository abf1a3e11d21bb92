-------------------------- MODULE ViewCounterProofs --------------------------
(***************************************************************************)
(* Proofs about ViewCounter and, beside it, ViewSyncJob, for any tasks and *)
(* posts, any period, with and without the cache, whatever fails.  The job *)
(* writes only posts.views, so the invariant of ViewCounter holds beside   *)
(* it too.                                                                 *)
(***************************************************************************)
EXTENDS ViewSyncJob, TLAPS

-----------------------------------------------------------------------------
(* A task under way reads a post. *)
LEMMA PostType ==
    ASSUME IInv, NEW t \in Tasks, pc[t] # "idle"
    PROVE  post[t] \in Posts
BY DEF IInv, TypeOK, TaskOK

-----------------------------------------------------------------------------
(* One lemma per action: it preserves the inductive invariant. *)

(* What Finish does to the locals of its task, and of the others. *)
LEMMA FinishLocals ==
    ASSUME IInv, NEW t \in Tasks, Finish(t)
    PROVE  /\ pc' \in [Tasks -> {"idle", "get", "set", "answer", "incr", "sync",
                                 "increment", "commit"}]
           /\ post' \in [Tasks -> Posts \cup {NoPost}]
           /\ answer' \in [Tasks -> Nat]
           /\ newViews' \in [Tasks -> Nat]
           /\ floor' \in [Tasks -> Nat]
           /\ pc'[t] = "idle" /\ post'[t] = NoPost
           /\ \A s \in Tasks \ {t} :
                /\ pc'[s] = pc[s] /\ post'[s] = post[s] /\ answer'[s] = answer[s]
                /\ newViews'[s] = newViews[s] /\ floor'[s] = floor[s]
BY DEF IInv, TypeOK, Finish, Goto

(* A read begins, or finds the post deleted. *)
LEMMA ReadPostStep ==
    ASSUME IInv, NEW t \in Tasks, NEW p \in Posts, ReadPost(t, p), UNCHANGED useCache
    PROVE  IInv'
<1>1. TypeOK'
  BY DEF IInv, TypeOK, ReadPost, tables, locals, history, Goto
<1>2. TaskOK'
  BY PostsAssumption DEF IInv, TypeOK, TaskOK, NoOvercount, ReadPost, locals, history, Goto
<1>3. PostsApart'
  BY DEF IInv, TypeOK, PostsApart, ReadPost, locals, Goto
<1>4. SeenOK'
  BY DEF IInv, TypeOK, SeenOK, ReadPost, history, NextAnswer
<1>5. NoOvercount'
  BY DEF IInv, TypeOK, NoOvercount, ReadPost, tables, locals, history, Goto
<1>6. CacheExactUnlessDisturbed'
  BY DEF IInv, TypeOK, CacheExactUnlessDisturbed, ReadPost, history
<1>7. ReReadGrowsUnlessDisturbed'
  BY DEF IInv, TypeOK, ReReadGrowsUnlessDisturbed, ReadPost, locals, history, Goto
<1>8. UncachedViewsExact'
  BY DEF IInv, TypeOK, UncachedViewsExact, ReadPost
<1>. QED
  BY <1>1, <1>2, <1>3, <1>4, <1>5, <1>6, <1>7, <1>8 DEF IInv

(* A cached value is current unless disturbed, so it is at least what was  *)
(* seen; a miss on an undisturbed post means that nothing was counted yet. *)
LEMMA GetCachedStep ==
    ASSUME IInv, NEW t \in Tasks, GetCached(t), UNCHANGED useCache
    PROVE  IInv'
<1>1. TypeOK'
  BY PostType DEF IInv, TypeOK, GetCached, tables, history, Goto
<1>2. TaskOK'
  BY DEF IInv, TypeOK, TaskOK, SeenOK, NoOvercount, CacheExactUnlessDisturbed, GetCached,
       history, Goto, NextAnswer
<1>3. PostsApart'
  BY DEF IInv, TypeOK, PostsApart, GetCached, Goto
<1>4. SeenOK'
  BY DEF IInv, TypeOK, SeenOK, GetCached, history, NextAnswer
<1>5. NoOvercount'
  BY DEF IInv, TypeOK, NoOvercount, GetCached, tables, history, Goto
<1>6. CacheExactUnlessDisturbed'
  BY DEF IInv, TypeOK, CacheExactUnlessDisturbed, GetCached, history
<1>7. ReReadGrowsUnlessDisturbed'
  BY DEF IInv, TypeOK, TaskOK, SeenOK, CacheExactUnlessDisturbed,
       ReReadGrowsUnlessDisturbed, GetCached, history, Goto, NextAnswer
<1>8. UncachedViewsExact'
  BY DEF IInv, TypeOK, UncachedViewsExact, GetCached, tables, history
<1>. QED
  BY <1>1, <1>2, <1>3, <1>4, <1>5, <1>6, <1>7, <1>8 DEF IInv

(* SET either writes the first value, or disturbs the post. *)
LEMMA SetCachedStep ==
    ASSUME IInv, NEW t \in Tasks, SetCached(t), UNCHANGED useCache
    PROVE  IInv'
<1>1. TypeOK'
  BY PostType DEF IInv, TypeOK, SetCached, tables, FilledValue, Goto
<1>2. TaskOK'
  BY DEF IInv, TypeOK, TaskOK, SetCached, FilledValue, Goto, Nil
<1>3. PostsApart'
  BY DEF IInv, TypeOK, PostsApart, SetCached, Goto
<1>4. SeenOK'
  BY DEF IInv, TypeOK, SeenOK, SetCached, NextAnswer
<1>5. NoOvercount'
  BY DEF IInv, TypeOK, TaskOK, NoOvercount, SetCached, tables, FilledValue, Goto
<1>6. CacheExactUnlessDisturbed'
  BY DEF IInv, TypeOK, TaskOK, CacheExactUnlessDisturbed, SetCached, FilledValue
<1>7. ReReadGrowsUnlessDisturbed'
  BY DEF IInv, TypeOK, TaskOK, ReReadGrowsUnlessDisturbed, SetCached, Goto
<1>8. UncachedViewsExact'
  BY DEF IInv, TypeOK, UncachedViewsExact, SetCached, tables
<1>. QED
  BY <1>1, <1>2, <1>3, <1>4, <1>5, <1>6, <1>7, <1>8 DEF IInv

(* Only pc moves. *)
LEMMA AnswerStep ==
    ASSUME IInv, NEW t \in Tasks, Answer(t), UNCHANGED useCache
    PROVE  IInv'
<1>1. TypeOK'
  BY DEF IInv, TypeOK, Answer, tables, history, Goto
<1>2. TaskOK'
  BY DEF IInv, TypeOK, TaskOK, Answer, history, Goto
<1>3. PostsApart'
  BY DEF IInv, TypeOK, PostsApart, Answer, Goto
<1>4. SeenOK'
  BY DEF IInv, TypeOK, SeenOK, Answer, history, NextAnswer
<1>5. NoOvercount'
  BY DEF IInv, TypeOK, NoOvercount, Answer, tables, history, Goto
<1>6. CacheExactUnlessDisturbed'
  BY DEF IInv, TypeOK, CacheExactUnlessDisturbed, Answer, history
<1>7. ReReadGrowsUnlessDisturbed'
  BY DEF IInv, TypeOK, ReReadGrowsUnlessDisturbed, Answer, history, Goto
<1>8. UncachedViewsExact'
  BY DEF IInv, TypeOK, UncachedViewsExact, Answer, tables, history
<1>. QED
  BY <1>1, <1>2, <1>3, <1>4, <1>5, <1>6, <1>7, <1>8 DEF IInv

(* INCR counts the view in Redis and in the history at once. *)
LEMMA IncrStep ==
    ASSUME IInv, NEW t \in Tasks, Incr(t), UNCHANGED useCache
    PROVE  IInv'
<1>1. TypeOK'
  BY PostType DEF IInv, TypeOK, Incr, tables, Goto, Incremented, Raise, Finish
<1>2. TaskOK'
  BY DEF IInv, TypeOK, TaskOK, Incr, Goto, Incremented, Raise, Finish, Nil
<1>3. PostsApart'
  BY DEF IInv, TypeOK, PostsApart, Incr, Goto, Finish
<1>4. SeenOK'
  BY DEF IInv, TypeOK, TaskOK, SeenOK, Incr, Raise, NextAnswer
<1>5. NoOvercount'
  BY PostType DEF IInv, TypeOK, NoOvercount, Incr, tables, Goto, Incremented, Finish
<1>6. CacheExactUnlessDisturbed'
  BY DEF IInv, TypeOK, CacheExactUnlessDisturbed, Incr, Incremented, Nil
<1>7. ReReadGrowsUnlessDisturbed'
  BY DEF IInv, TypeOK, ReReadGrowsUnlessDisturbed, Incr, Goto, Finish
<1>8. UncachedViewsExact'
  BY DEF IInv, TypeOK, TaskOK, UncachedViewsExact, Incr
<1>. QED
  BY <1>1, <1>2, <1>3, <1>4, <1>5, <1>6, <1>7, <1>8 DEF IInv

(* The UPDATE takes the lock of the row. *)
LEMMA SyncViewsStep ==
    ASSUME IInv, NEW t \in Tasks, SyncViews(t), UNCHANGED useCache
    PROVE  IInv'
<1>1. TypeOK'
  BY DEF IInv, TypeOK, SyncViews, tables, history, Goto
<1>2. TaskOK'
  BY DEF IInv, TypeOK, TaskOK, SyncViews, history, Goto
<1>3. PostsApart'
  BY DEF IInv, TypeOK, PostsApart, SyncViews, Goto, PostLocked
<1>4. SeenOK'
  BY DEF IInv, TypeOK, SeenOK, SyncViews, history, NextAnswer
<1>5. NoOvercount'
  BY DEF IInv, TypeOK, NoOvercount, SyncViews, tables, history, Goto
<1>6. CacheExactUnlessDisturbed'
  BY DEF IInv, TypeOK, CacheExactUnlessDisturbed, SyncViews, history
<1>7. ReReadGrowsUnlessDisturbed'
  BY DEF IInv, TypeOK, ReReadGrowsUnlessDisturbed, SyncViews, history, Goto
<1>8. UncachedViewsExact'
  BY DEF IInv, TypeOK, UncachedViewsExact, SyncViews, tables, history
<1>. QED
  BY <1>1, <1>2, <1>3, <1>4, <1>5, <1>6, <1>7, <1>8 DEF IInv

(* A late sync copies a value that was counted: at most the hits. *)
LEMMA CommitSyncStep ==
    ASSUME IInv, NEW t \in Tasks, CommitSync(t), UNCHANGED useCache
    PROVE  IInv'
<1>1. TypeOK'
  BY DEF IInv, TypeOK, CommitSync, history, Finish, Goto
<1>2. TaskOK'
  BY DEF IInv, TypeOK, TaskOK, CommitSync, history, Finish, Goto
<1>3. PostsApart'
  BY DEF IInv, TypeOK, PostsApart, CommitSync, Finish, Goto
<1>4. SeenOK'
  BY DEF IInv, TypeOK, SeenOK, CommitSync, history, NextAnswer
<1>5. NoOvercount'
  BY DEF IInv, TypeOK, NoOvercount, CommitSync, history, Finish, Goto
<1>6. CacheExactUnlessDisturbed'
  BY DEF IInv, TypeOK, CacheExactUnlessDisturbed, CommitSync, history
<1>7. ReReadGrowsUnlessDisturbed'
  BY DEF IInv, TypeOK, ReReadGrowsUnlessDisturbed, CommitSync, history, Finish, Goto
<1>8. UncachedViewsExact'
  BY DEF IInv, TypeOK, UncachedViewsExact, CommitSync
<1>. QED
  BY <1>1, <1>2, <1>3, <1>4, <1>5, <1>6, <1>7, <1>8 DEF IInv

(* A read without the cache begins. *)
LEMMA BeginUncachedStep ==
    ASSUME IInv, NEW t \in Tasks, NEW p \in Posts, BeginUncached(t, p), UNCHANGED useCache
    PROVE  IInv'
<1>1. TypeOK'
  BY DEF IInv, TypeOK, BeginUncached, tables, history, Goto
<1>2. TaskOK'
  BY PostsAssumption DEF IInv, TypeOK, TaskOK, BeginUncached, tables, history, Goto
<1>3. PostsApart'
  BY DEF IInv, TypeOK, PostsApart, BeginUncached, Goto
<1>4. SeenOK'
  BY DEF IInv, TypeOK, SeenOK, BeginUncached, history, NextAnswer
<1>5. NoOvercount'
  BY DEF IInv, TypeOK, NoOvercount, BeginUncached, tables, history
<1>6. CacheExactUnlessDisturbed'
  BY DEF IInv, TypeOK, CacheExactUnlessDisturbed, BeginUncached
<1>7. ReReadGrowsUnlessDisturbed'
  BY DEF IInv, TypeOK, ReReadGrowsUnlessDisturbed, BeginUncached, history, Goto
<1>8. UncachedViewsExact'
  BY DEF IInv, TypeOK, UncachedViewsExact, BeginUncached, tables, history
<1>. QED
  BY <1>1, <1>2, <1>3, <1>4, <1>5, <1>6, <1>7, <1>8 DEF IInv

(* The UPDATE reads the committed views, and its lock keeps them so. *)
LEMMA IncrementViewsStep ==
    ASSUME IInv, NEW t \in Tasks, IncrementViews(t), UNCHANGED useCache
    PROVE  IInv'
<1>1. TypeOK'
  BY PostType DEF IInv, TypeOK, IncrementViews, tables, history, Goto, Finish
<1>2. TaskOK'
  BY DEF IInv, TypeOK, TaskOK, IncrementViews, tables, history, Goto, Finish
<1>3. PostsApart'
  BY DEF IInv, TypeOK, PostsApart, IncrementViews, Goto, Finish, PostLocked
<1>4. SeenOK'
  BY DEF IInv, TypeOK, SeenOK, IncrementViews, history, NextAnswer
<1>5. NoOvercount'
  BY DEF IInv, TypeOK, TaskOK, NoOvercount, IncrementViews, tables, history
<1>6. CacheExactUnlessDisturbed'
  BY DEF IInv, TypeOK, CacheExactUnlessDisturbed, IncrementViews, history
<1>7. ReReadGrowsUnlessDisturbed'
  BY DEF IInv, TypeOK, TaskOK, SeenOK, ReReadGrowsUnlessDisturbed, UncachedViewsExact,
       IncrementViews, Goto, Finish, NextAnswer
<1>8. UncachedViewsExact'
  BY DEF IInv, TypeOK, UncachedViewsExact, IncrementViews, tables, history
<1>. QED
  BY <1>1, <1>2, <1>3, <1>4, <1>5, <1>6, <1>7, <1>8 DEF IInv

(* The one writer of the row commits the increment. *)
LEMMA CommitUncachedStep ==
    ASSUME IInv, NEW t \in Tasks, CommitUncached(t), UNCHANGED useCache
    PROVE  IInv'
<1>1. TypeOK'
  BY PostType DEF IInv, TypeOK, CommitUncached, Finish, Goto, Raise
<1>2. TaskOK'
  BY DEF IInv, TypeOK, TaskOK, PostsApart, CommitUncached, Finish, Goto, Raise
<1>3. PostsApart'
  BY DEF IInv, TypeOK, PostsApart, CommitUncached, Finish, Goto
<1>4. SeenOK'
  BY DEF IInv, TypeOK, TaskOK, SeenOK, UncachedViewsExact, CommitUncached, Raise, NextAnswer
<1>5. NoOvercount'
  BY DEF IInv, TypeOK, TaskOK, NoOvercount, CommitUncached, Nil
<1>6. CacheExactUnlessDisturbed'
  BY DEF IInv, TypeOK, CacheExactUnlessDisturbed, CommitUncached
<1>7. ReReadGrowsUnlessDisturbed'
  BY DEF IInv, TypeOK, ReReadGrowsUnlessDisturbed, CommitUncached, Finish, Goto
<1>8. UncachedViewsExact'
  BY DEF IInv, TypeOK, TaskOK, UncachedViewsExact, CommitUncached
<1>. QED
  BY <1>1, <1>2, <1>3, <1>4, <1>5, <1>6, <1>7, <1>8 DEF IInv

(* A failing task only loses its locals. *)
LEMMA FailStep ==
    ASSUME IInv, NEW t \in Tasks, Fail(t), UNCHANGED useCache
    PROVE  IInv'
<1>1. TypeOK'
  BY DEF IInv, TypeOK, Fail, tables, history, Finish, Goto
<1>2. TaskOK'
  BY DEF IInv, TypeOK, TaskOK, Fail, tables, history, Finish, Goto
<1>3. PostsApart'
  BY DEF IInv, TypeOK, PostsApart, Fail, Finish, Goto
<1>4. SeenOK'
  BY DEF IInv, TypeOK, SeenOK, Fail, history, NextAnswer
<1>5. NoOvercount'
  BY DEF IInv, TypeOK, NoOvercount, Fail, tables, history, Finish, Goto
<1>6. CacheExactUnlessDisturbed'
  BY DEF IInv, TypeOK, CacheExactUnlessDisturbed, Fail, history
<1>7. ReReadGrowsUnlessDisturbed'
  BY DEF IInv, TypeOK, ReReadGrowsUnlessDisturbed, Fail, history, Finish, Goto
<1>8. UncachedViewsExact'
  BY DEF IInv, TypeOK, UncachedViewsExact, Fail, tables, history
<1>. QED
  BY <1>1, <1>2, <1>3, <1>4, <1>5, <1>6, <1>7, <1>8 DEF IInv

(* A lost counter disturbs its post. *)
LEMMA RedisLossStep ==
    ASSUME IInv, RedisLoss, UNCHANGED useCache
    PROVE  IInv'
<1>1. TypeOK'
  BY DEF IInv, TypeOK, RedisLoss, tables, locals
<1>2. TaskOK'
  BY DEF IInv, TypeOK, TaskOK, RedisLoss, tables, locals
<1>3. PostsApart'
  BY DEF IInv, TypeOK, PostsApart, RedisLoss, locals
<1>4. SeenOK'
  BY DEF IInv, TypeOK, SeenOK, RedisLoss, NextAnswer
<1>5. NoOvercount'
  BY DEF IInv, TypeOK, NoOvercount, RedisLoss, tables, locals, Nil
<1>6. CacheExactUnlessDisturbed'
  BY DEF IInv, TypeOK, CacheExactUnlessDisturbed, RedisLoss
<1>7. ReReadGrowsUnlessDisturbed'
  BY DEF IInv, TypeOK, ReReadGrowsUnlessDisturbed, RedisLoss, locals
<1>8. UncachedViewsExact'
  BY DEF IInv, TypeOK, UncachedViewsExact, RedisLoss, tables
<1>. QED
  BY <1>1, <1>2, <1>3, <1>4, <1>5, <1>6, <1>7, <1>8 DEF IInv

(* A deletion touches no counter. *)
LEMMA DeletePostStep ==
    ASSUME IInv, NEW p \in Posts, DeletePost(p), UNCHANGED useCache
    PROVE  IInv'
<1>1. TypeOK'
  BY DEF IInv, TypeOK, DeletePost, locals, history
<1>2. TaskOK'
  BY DEF IInv, TypeOK, TaskOK, DeletePost, locals, history
<1>3. PostsApart'
  BY DEF IInv, TypeOK, PostsApart, DeletePost, locals
<1>4. SeenOK'
  BY DEF IInv, TypeOK, SeenOK, DeletePost, history, NextAnswer
<1>5. NoOvercount'
  BY DEF IInv, TypeOK, NoOvercount, DeletePost, locals, history
<1>6. CacheExactUnlessDisturbed'
  BY DEF IInv, TypeOK, CacheExactUnlessDisturbed, DeletePost, history
<1>7. ReReadGrowsUnlessDisturbed'
  BY DEF IInv, TypeOK, ReReadGrowsUnlessDisturbed, DeletePost, locals, history
<1>8. UncachedViewsExact'
  BY DEF IInv, TypeOK, UncachedViewsExact, DeletePost, history
<1>. QED
  BY <1>1, <1>2, <1>3, <1>4, <1>5, <1>6, <1>7, <1>8 DEF IInv

-----------------------------------------------------------------------------
(* The invariant holds at the start ... *)
LEMMA InitIInv == Init => IInv
<1>. SUFFICES ASSUME Init PROVE IInv
  OBVIOUS
<1>1. TypeOK
  BY DEF Init, TypeOK
<1>2. TaskOK /\ PostsApart
  BY DEF Init, TaskOK, PostsApart
<1>3. SeenOK
  BY DEF Init, SeenOK, NextAnswer
<1>4. NoOvercount
  BY DEF Init, NoOvercount, Nil
<1>5. CacheExactUnlessDisturbed
  BY DEF Init, CacheExactUnlessDisturbed
<1>6. ReReadGrowsUnlessDisturbed
  BY DEF Init, ReReadGrowsUnlessDisturbed
<1>7. UncachedViewsExact
  BY DEF Init, UncachedViewsExact
<1>. QED
  BY <1>1, <1>2, <1>3, <1>4, <1>5, <1>6, <1>7 DEF IInv

(* ... and every step preserves it. *)
LEMMA NextIInv == IInv /\ [Next]_vars => IInv'
<1>. SUFFICES ASSUME IInv, [Next]_vars PROVE IInv'
  OBVIOUS
<1>1. ASSUME NEW t \in Tasks, NEW p \in Posts, ReadPost(t, p) \/ BeginUncached(t, p),
             UNCHANGED useCache
      PROVE  IInv'
  BY <1>1, ReadPostStep, BeginUncachedStep
<1>2. ASSUME NEW t \in Tasks, Step(t), UNCHANGED useCache
      PROVE  IInv'
  BY <1>2, GetCachedStep, SetCachedStep, AnswerStep, IncrStep, SyncViewsStep,
     CommitSyncStep, IncrementViewsStep, CommitUncachedStep DEF Step
<1>3. CASE UNCHANGED vars
  <2>1. TypeOK'
    BY <1>3 DEF IInv, TypeOK, vars, tables, locals, history
  <2>2. TaskOK' /\ PostsApart' /\ SeenOK'
    BY <1>3 DEF IInv, TaskOK, PostsApart, SeenOK, NextAnswer, vars, tables, locals, history
  <2>3. NoOvercount' /\ CacheExactUnlessDisturbed'
    BY <1>3 DEF IInv, NoOvercount, CacheExactUnlessDisturbed, vars, tables, locals, history
  <2>4. ReReadGrowsUnlessDisturbed' /\ UncachedViewsExact'
    BY <1>3 DEF IInv, ReReadGrowsUnlessDisturbed, UncachedViewsExact, vars, tables, locals,
       history
  <2>. QED
    BY <2>1, <2>2, <2>3, <2>4 DEF IInv
<1>. QED
  BY <1>1, <1>2, <1>3, FailStep, RedisLossStep, DeletePostStep DEF Next

(* The inductive invariant: counters and the copies tasks hold of them are *)
(* bounded by the views counted, and current on undisturbed posts          *)
(* (read_post_by_id, increment_views_background). *)
THEOREM Invariance == Spec => []IInv
BY InitIInv, NextIInv, PTL DEF Spec

(* Type correctness of the view counter (post_service.py, post.py). *)
THEOREM TypeCorrect == Spec => []TypeOK
<1>1. IInv => TypeOK
  BY DEF IInv
<1>. QED
  BY <1>1, Invariance, PTL

(* No view is counted twice, in Redis, in posts.views or in a sync under   *)
(* way, whatever fails (increment_views_background, sync_views). *)
THEOREM NeverOvercounted == Spec => []NoOvercount
<1>1. IInv => NoOvercount
  BY DEF IInv
<1>. QED
  BY <1>1, Invariance, PTL

(* The Redis counter of a post is the number of its views unless a read    *)
(* overwrote a newer value or Redis lost it (read_post_by_id). *)
THEOREM CacheIsExact == Spec => []CacheExactUnlessDisturbed
<1>1. IInv => CacheExactUnlessDisturbed
  BY DEF IInv
<1>. QED
  BY <1>1, Invariance, PTL

(* A read that begins after another one was answered and counted answers   *)
(* more, unless its post is disturbed; without the cache, always           *)
(* (read_post_by_id). *)
THEOREM ReReadsGrow == Spec => []ReReadGrowsUnlessDisturbed
<1>1. IInv => ReReadGrowsUnlessDisturbed
  BY DEF IInv
<1>. QED
  BY <1>1, Invariance, PTL

(* Without the cache posts.views is the number of answered reads           *)
(* (increment_views_if_exists). *)
THEOREM UncachedIsExact == Spec => []UncachedViewsExact
<1>1. IInv => UncachedViewsExact
  BY DEF IInv
<1>. QED
  BY <1>1, Invariance, PTL

-----------------------------------------------------------------------------
(* What a step of ViewCounter may do to what the job relies on. *)

(* Views are never forgotten, and a disturbed post stays so. *)
LEMMA HitsGrow ==
    ASSUME IInv, Next
    PROVE  /\ \A p \in Posts : hits[p] <= hits'[p]
           /\ disturbed \subseteq disturbed'
<1>1. ASSUME NEW t \in Tasks, Incr(t)
      PROVE  \A p \in Posts : hits[p] <= hits'[p]
  BY <1>1 DEF IInv, TypeOK, Incr
<1>2. ASSUME NEW t \in Tasks, CommitUncached(t)
      PROVE  \A p \in Posts : hits[p] <= hits'[p]
  BY <1>2 DEF IInv, TypeOK, CommitUncached
<1>3. hits' = hits \/ \E t \in Tasks : Incr(t) \/ CommitUncached(t)
  BY DEF Next, Step, ReadPost, BeginUncached, GetCached, SetCached, Answer, SyncViews,
       CommitSync, IncrementViews, Fail, RedisLoss, DeletePost, history
<1>4. disturbed \subseteq disturbed'
  BY DEF Next, Step, ReadPost, BeginUncached, GetCached, SetCached, Answer, Incr, SyncViews,
       CommitSync, IncrementViews, CommitUncached, Fail, RedisLoss, DeletePost, history
<1>5. hits' = hits => \A p \in Posts : hits[p] <= hits'[p]
  BY DEF IInv, TypeOK
<1>. QED
  BY <1>1, <1>2, <1>3, <1>4, <1>5

(* With the cache, posts.views changes only at the commit of a sync. *)
LEMMA ViewsChange ==
    ASSUME IInv, Next, useCache
    PROVE  views' = views \/ \E t \in Tasks : CommitSync(t)
BY DEF Next, Step, ReadPost, BeginUncached, GetCached, SetCached, Answer, Incr, SyncViews,
     IncrementViews, CommitUncached, Fail, RedisLoss, DeletePost, tables

(* A commit of a sync, seen from the posts. *)
LEMMA SyncEffect ==
    ASSUME IInv, NEW t \in Tasks, CommitSync(t)
    PROVE  /\ post[t] \in Posts
           /\ \A p \in Posts : views'[p] = IF p = post[t] THEN newViews[t] ELSE views[p]
BY PostType DEF CommitSync, IInv, TypeOK

(* A task's step leaves the locals of the others alone. *)
LEMMA OthersUntouched ==
    ASSUME IInv, NEW t \in Tasks, NEW s \in Tasks \ {t},
           Step(t) \/ Fail(t) \/ \E p \in Posts : ReadPost(t, p) \/ BeginUncached(t, p)
    PROVE  pc'[s] = pc[s] /\ post'[s] = post[s] /\ newViews'[s] = newViews[s]
<1>1. CASE GetCached(t) \/ SetCached(t) \/ Answer(t) \/ SyncViews(t)
  BY <1>1 DEF IInv, TypeOK, GetCached, SetCached, Answer, SyncViews, Goto
<1>2. CASE Incr(t)
  BY <1>2 DEF IInv, TypeOK, Incr, Goto, Finish
<1>3. CASE CommitSync(t) \/ CommitUncached(t) \/ Fail(t)
  BY <1>3 DEF IInv, TypeOK, CommitSync, CommitUncached, Fail, Goto, Finish
<1>4. CASE IncrementViews(t)
  BY <1>4 DEF IInv, TypeOK, IncrementViews, Goto, Finish
<1>5. ASSUME NEW p \in Posts, ReadPost(t, p) \/ BeginUncached(t, p)
      PROVE  pc'[s] = pc[s] /\ post'[s] = post[s] /\ newViews'[s] = newViews[s]
  BY <1>5 DEF IInv, TypeOK, ReadPost, BeginUncached, locals, Goto
<1>. QED
  BY <1>1, <1>2, <1>3, <1>4, <1>5 DEF Step

(* A task that carries a value carried it before, or has just counted it   *)
(* and is not behind posts.views, unless its post is disturbed.            *)
LEMMA CarriersBefore ==
    ASSUME IInv, Next, useCache, NEW s \in Tasks, pc'[s] \in {"sync", "commit"}
    PROVE  /\ post'[s] = post[s] /\ post[s] \in Posts
           /\ \/ pc[s] \in {"sync", "commit"} /\ newViews'[s] = newViews[s]
              \/ /\ views' = views
                 /\ post[s] \in disturbed \/ views[post[s]] <= newViews'[s]
<1> DEFINE Carried ==
             /\ post'[s] = post[s] /\ post[s] \in Posts
             /\ \/ pc[s] \in {"sync", "commit"} /\ newViews'[s] = newViews[s]
                \/ /\ views' = views
                   /\ post[s] \in disturbed \/ views[post[s]] <= newViews'[s]
<1>1. ASSUME NEW t \in Tasks \ {s},
             Step(t) \/ Fail(t) \/ \E p \in Posts : ReadPost(t, p) \/ BeginUncached(t, p)
      PROVE  Carried
  BY <1>1, OthersUntouched, PostType
<1>2. CASE Incr(s)
  <2>1. /\ pc[s] = "incr" /\ post[s] \in Posts /\ post' = post /\ views' = views
        /\ newViews'[s] = Incremented(s)
    BY <1>2, PostType DEF IInv, TypeOK, Incr, Goto, Finish, tables
  <2>2. post[s] \in disturbed \/ views[post[s]] <= Incremented(s)
    BY <2>1 DEF IInv, TypeOK, NoOvercount, CacheExactUnlessDisturbed, Incremented, Nil
  <2>. QED
    BY <2>1, <2>2
<1>3. CASE SyncViews(s)
  BY <1>3, PostType DEF SyncViews
<1>4. ~(GetCached(s) \/ SetCached(s) \/ Answer(s))
  BY DEF IInv, TypeOK, GetCached, SetCached, Answer, Goto
<1>5. ~(CommitSync(s) \/ CommitUncached(s) \/ Fail(s) \/ IncrementViews(s))
  BY DEF IInv, TypeOK, TaskOK, CommitSync, CommitUncached, Fail, IncrementViews, Goto, Finish
<1>6. ASSUME NEW p \in Posts, ReadPost(s, p) \/ BeginUncached(s, p)
      PROVE  FALSE
  BY <1>6 DEF IInv, TypeOK, ReadPost, BeginUncached, locals, Goto
<1>7. CASE RedisLoss \/ \E p \in Posts : DeletePost(p)
  BY <1>7, PostType DEF RedisLoss, DeletePost, locals
<1>. QED
  BY <1>1, <1>2, <1>3, <1>4, <1>5, <1>6, <1>7 DEF Next, Step

-----------------------------------------------------------------------------
(* One lemma per action: it preserves the inductive invariant. *)

(* The invariant of ViewCounter is not disturbed by a step of the job that *)
(* leaves its variables alone. *)
LEMMA JobAlone ==
    ASSUME IInv, UNCHANGED vars
    PROVE  IInv'
BY NextIInv

(* Which values are not overtaken after a step beside the job: those that  *)
(* were not before it, and whose post nobody else has synced in it.        *)
LEMMA BesideOvertakes ==
    ASSUME JobInv, Beside(Next)
    PROVE  /\ overtaken' \subseteq Tasks \cup Posts
           /\ \A p \in Posts \ overtaken' :
                 /\ p \notin overtaken
                 /\ got[p] # Nil => \A s \in Tasks : CommitSync(s) => post[s] # p
           /\ \A t \in Carriers(Posts)' \ overtaken' :
                 /\ t \notin overtaken
                 /\ pc[t] \in {"sync", "commit"} =>
                       \A s \in Tasks : CommitSync(s) => post[s] # post[t]
<1> DEFINE synced == {post[t] : t \in {s \in Tasks : CommitSync(s)}}
           carriers == {t \in Tasks : pc'[t] \in {"sync", "commit"}}
<1>1. overtaken' = (overtaken \cap (Posts \cup carriers))
                      \cup (Carriers(synced) \cap carriers)
                      \cup {p \in synced : got[p] # Nil}
  BY DEF Beside
<1>2. synced \subseteq Posts
  BY SyncEffect DEF JobInv
<1>3. overtaken' \subseteq Tasks \cup Posts
  BY <1>1, <1>2 DEF Carriers
<1>4. ASSUME NEW p \in Posts, p \notin overtaken'
      PROVE  /\ p \notin overtaken
             /\ got[p] # Nil => \A s \in Tasks : CommitSync(s) => post[s] # p
  BY <1>1, <1>4
<1>5. ASSUME NEW t \in Carriers(Posts)', t \notin overtaken'
      PROVE  /\ t \notin overtaken
             /\ pc[t] \in {"sync", "commit"} =>
                   \A s \in Tasks : CommitSync(s) => post[s] # post[t]
  <2>1. t \in Tasks /\ t \in carriers
    BY <1>5 DEF Carriers
  <2>2. t \notin overtaken /\ t \notin Carriers(synced)
    BY <2>1, <1>1, <1>5
  <2>. QED
    BY <2>1, <2>2 DEF Carriers
<1>. QED
  BY <1>3, <1>4, <1>5

(* A read, its background task, Redis or an author takes a step. *)
LEMMA BesideStep ==
    ASSUME JobInv, Beside(Next)
    PROVE  JobInv'
<1>1. Next /\ IInv /\ IInv' /\ useCache' = useCache
  BY NextIInv DEF JobInv, Beside, Next
<1>2. /\ job' = job /\ updates' = updates /\ written' = written
      /\ got' = got /\ flushed' = flushed
  BY DEF Beside
<1>3. NoOvercountByJob'
  BY <1>1, <1>2, HitsGrow DEF JobInv, IInv, TypeOK, NoOvercountByJob, JobTypeOK, Collected, Nil
<1>4. JobTypeOK'
  BY <1>2, BesideOvertakes DEF JobInv, JobTypeOK, Collected
<1>5. JobPhaseOK'
  BY <1>1, <1>2 DEF JobInv, JobPhaseOK
<1>6. ASSUME NEW p \in Collected', p \notin overtaken'
      PROVE  p \in Collected /\ p \notin overtaken /\ views'[p] = views[p]
  <2>1. p \in Posts /\ p \in Collected /\ got[p] # Nil /\ useCache
    BY <1>2, <1>6 DEF JobInv, JobPhaseOK, Collected, Nothing
  <2>2. p \notin overtaken /\ \A s \in Tasks : CommitSync(s) => post[s] # p
    BY <2>1, <1>6, BesideOvertakes
  <2>3. CASE views' = views
    BY <2>1, <2>2, <2>3
  <2>4. ASSUME NEW s \in Tasks, CommitSync(s)
        PROVE  views'[p] = views[p]
    BY <2>1, <2>2, <2>4, <1>1, SyncEffect
  <2>. QED
    BY <2>1, <2>2, <2>3, <2>4, <1>1, ViewsChange
<1>7. ASSUME useCache, NEW t \in Carriers(Posts \ disturbed)', t \notin overtaken'
      PROVE  views'[post'[t]] <= newViews'[t]
  <2>1. t \in Tasks /\ pc'[t] \in {"sync", "commit"} /\ post'[t] \in Posts \ disturbed'
    BY <1>7 DEF Carriers
  <2>2. /\ t \notin overtaken
        /\ pc[t] \in {"sync", "commit"} =>
              \A s \in Tasks : CommitSync(s) => post[s] # post[t]
    BY <2>1, <1>7, BesideOvertakes DEF Carriers
  <2>3. post'[t] = post[t] /\ post[t] \in Posts \ disturbed
    BY <2>1, <1>1, <1>7, CarriersBefore, HitsGrow
  <2>4. CASE pc[t] \in {"sync", "commit"} /\ newViews'[t] = newViews[t]
    <3>1. views[post[t]] <= newViews[t]
      BY <2>1, <2>2, <2>3, <2>4, <1>7 DEF JobInv, CurrentUnlessOvertaken, Carriers
    <3>2. ASSUME NEW s \in Tasks, CommitSync(s)
          PROVE  views'[post[t]] = views[post[t]]
      BY <2>2, <2>3, <2>4, <3>2, <1>1, SyncEffect
    <3>. QED
      BY <3>1, <3>2, <2>3, <2>4, <1>1, <1>7, ViewsChange
  <2>5. CASE views' = views /\ (post[t] \in disturbed \/ views[post[t]] <= newViews'[t])
    BY <2>3, <2>5
  <2>. QED
    BY <2>1, <2>4, <2>5, <1>1, <1>7, CarriersBefore
<1>8. CurrentUnlessOvertaken'
  BY <1>1, <1>2, <1>6, <1>7, HitsGrow DEF JobInv, CurrentUnlessOvertaken, Carriers, Collected
<1>9. FlushedStays'
  BY <1>2, <1>6 DEF JobInv, FlushedStays, Collected
<1>. QED
  BY <1>1, <1>3, <1>4, <1>5, <1>8, <1>9 DEF JobInv

(* The job starts with nothing in hand. *)
LEMMA BeginJobStep ==
    ASSUME JobInv, BeginJob
    PROVE  JobInv'
<1>1. IInv'
  BY JobAlone DEF JobInv, BeginJob
<1>2. /\ useCache /\ job' = "scan" /\ flushed' = TRUE
      /\ updates' = updates /\ got' = got /\ written' = written /\ overtaken' = overtaken
  BY DEF BeginJob
<1>3. updates = Nothing /\ written = {} /\ got = updates
  BY DEF JobInv, JobPhaseOK, BeginJob
<1>4. Collected = {} /\ Collected' = {}
  BY <1>2, <1>3 DEF Collected, Nothing
<1>5. NoOvercountByJob'
  BY <1>1, <1>4 DEF NoOvercountByJob, IInv
<1>6. JobTypeOK' /\ JobPhaseOK'
  BY <1>2, <1>3, <1>4 DEF JobInv, JobTypeOK, JobPhaseOK, BeginJob, vars
<1>7. CurrentUnlessOvertaken'
  BY <1>2, <1>4 DEF JobInv, CurrentUnlessOvertaken, BeginJob, vars, tables, locals, history,
       Carriers
<1>8. FlushedStays'
  BY <1>4 DEF FlushedStays
<1>. QED
  BY <1>1, <1>5, <1>6, <1>7, <1>8 DEF JobInv

(* The job ends with nothing in hand, wherever it was. *)
LEMMA EndJobStep ==
    ASSUME JobInv, EndJob, UNCHANGED vars, flushed' \in BOOLEAN
    PROVE  JobInv'
<1>1. IInv'
  BY JobAlone DEF JobInv
<1>2. /\ job' = "idle" /\ updates' = Nothing /\ got' = Nothing /\ written' = {}
      /\ overtaken' = overtaken \ Posts
  BY DEF EndJob, NewUpdates
<1>3. Collected' = {}
  BY <1>2 DEF Collected, Nothing
<1>4. NoOvercountByJob'
  BY <1>1, <1>3 DEF NoOvercountByJob, IInv
<1>5. JobTypeOK' /\ JobPhaseOK'
  BY <1>2, <1>3 DEF JobInv, JobTypeOK, JobPhaseOK, Nothing, Nil
<1>6. CurrentUnlessOvertaken'
  BY <1>2, <1>3, ActorsAssumption DEF JobInv, CurrentUnlessOvertaken, vars, tables, locals,
       history, Carriers
<1>7. FlushedStays'
  BY <1>3 DEF FlushedStays
<1>. QED
  BY <1>1, <1>4, <1>5, <1>6, <1>7 DEF JobInv

(* What GET answers is the number of views, unless disturbed, and never    *)
(* more. *)
LEMMA CollectKeyStep ==
    ASSUME JobInv, NEW p \in Posts, CollectKey(p)
    PROVE  JobInv'
<1>1. IInv' /\ UNCHANGED vars /\ flushed' = FALSE /\ job = "scan"
  BY JobAlone DEF JobInv, CollectKey
<1>2. PICK value \in {cache[p]} \cup {Nil} :
        IF value = Nil /\ Collected = {}
        THEN EndJob
        ELSE /\ job' = "write"
             /\ IF value = Nil
                THEN UNCHANGED <<updates, got, overtaken>>
                ELSE /\ updates' = [updates EXCEPT ![p] = value]
                     /\ got' = [got EXCEPT ![p] = value]
                     /\ overtaken' = overtaken \ {p}
             /\ UNCHANGED written
  BY DEF CollectKey
<1>3. CASE value = Nil /\ Collected = {}
  BY <1>1, <1>2, <1>3, EndJobStep
<1>4. CASE value = Nil /\ Collected # {}
  <2>1. /\ job' = "write" /\ updates' = updates /\ got' = got /\ overtaken' = overtaken
        /\ written' = written
    BY <1>2, <1>4
  <2>2. NoOvercountByJob'
    BY <1>1, <2>1 DEF JobInv, NoOvercountByJob, Collected, IInv, vars, history
  <2>3. JobTypeOK' /\ JobPhaseOK'
    BY <1>1, <2>1 DEF JobInv, JobTypeOK, JobPhaseOK, Collected, vars
  <2>4. CurrentUnlessOvertaken'
    BY <1>1, <2>1 DEF JobInv, CurrentUnlessOvertaken, vars, tables, locals, history, Carriers,
         Collected
  <2>5. FlushedStays'
    BY <1>1 DEF FlushedStays
  <2>. QED
    BY <1>1, <2>2, <2>3, <2>4, <2>5 DEF JobInv
<1>5. CASE value # Nil
  <2>1. /\ job' = "write" /\ written' = written /\ value = cache[p]
        /\ updates' = [updates EXCEPT ![p] = value]
        /\ got' = [got EXCEPT ![p] = value]
        /\ overtaken' = overtaken \ {p}
    BY <1>2, <1>5
  <2>2. /\ value \in Nat /\ value <= hits[p]
        /\ p \notin disturbed => views[p] <= value
    BY <1>1, <1>5, <2>1 DEF JobInv, JobPhaseOK, IInv, TypeOK, NoOvercount,
         CacheExactUnlessDisturbed
  <2>3. Collected' = Collected \cup {p}
    BY <1>5, <2>1 DEF JobInv, JobTypeOK, Collected
  <2>4. /\ updates'[p] = value
        /\ \A q \in Collected \ {p} : updates'[q] = updates[q]
    BY <2>1 DEF JobInv, JobTypeOK, Collected
  <2>5. NoOvercountByJob'
    BY <1>1, <2>2, <2>3, <2>4 DEF JobInv, NoOvercountByJob, IInv, vars, history
  <2>6. JobTypeOK' /\ JobPhaseOK'
    BY <1>1, <2>1, <2>2, <2>3 DEF JobInv, JobTypeOK, JobPhaseOK, vars
  <2>7. CurrentUnlessOvertaken'
    <3>1. ASSUME NEW q \in Collected', q \notin disturbed, q \notin overtaken'
          PROVE  views[q] <= updates'[q]
      BY <2>1, <2>2, <2>3, <2>4, <3>1 DEF JobInv, CurrentUnlessOvertaken
    <3>2. ASSUME useCache, NEW t \in Carriers(Posts \ disturbed), t \notin overtaken'
          PROVE  views[post[t]] <= newViews[t]
      BY <2>1, <3>2, ActorsAssumption DEF JobInv, CurrentUnlessOvertaken, Carriers
    <3>. QED
      BY <1>1, <3>1, <3>2 DEF CurrentUnlessOvertaken, vars, tables, locals, history, Carriers
  <2>8. FlushedStays'
    BY <1>1 DEF FlushedStays
  <2>. QED
    BY <1>1, <2>5, <2>6, <2>7, <2>8 DEF JobInv
<1>. QED
  BY <1>3, <1>4, <1>5

(* A row the job updates is one whose value it has collected. *)
LEMMA WriteCollectedStep ==
    ASSUME JobInv, NEW p \in Posts, WriteCollected(p)
    PROVE  JobInv'
<1>1. /\ IInv' /\ UNCHANGED vars /\ job = "write" /\ job' = job /\ updates' = updates
      /\ got' = got /\ flushed' = flushed /\ overtaken' = overtaken
      /\ written' = written \cup {p} /\ p \in Collected
  BY JobAlone DEF JobInv, WriteCollected, Unwritten
<1>2. NoOvercountByJob'
  BY <1>1 DEF JobInv, NoOvercountByJob, Collected, IInv, vars, history
<1>3. JobTypeOK' /\ JobPhaseOK'
  BY <1>1 DEF JobInv, JobTypeOK, JobPhaseOK, Collected, vars
<1>4. CurrentUnlessOvertaken'
  BY <1>1 DEF JobInv, CurrentUnlessOvertaken, vars, tables, locals, history, Carriers,
       Collected
<1>5. FlushedStays'
  BY <1>1 DEF FlushedStays
<1>. QED
  BY <1>1, <1>2, <1>3, <1>4, <1>5 DEF JobInv

(* What the commit of the job does to posts.views. *)
LEMMA JobCommits ==
    ASSUME JobInv, CommitJob
    PROVE  /\ useCache /\ written = Collected
           /\ \A p \in Posts : views'[p] = IF p \in Collected THEN updates[p] ELSE views[p]
           /\ updates' = updates
           /\ UNCHANGED <<useCache, deleted, cache, locals, history>>
BY DEF JobInv, JobTypeOK, JobPhaseOK, CommitJob, Unwritten, Synced, AfterUnit

(* A commit of the job brings every collected value to posts.views, and    *)
(* overtakes what the tasks carry for the same posts. *)
LEMMA CommitJobStep ==
    ASSUME JobInv, CommitJob
    PROVE  JobInv'
<1>1. /\ useCache /\ written = Collected
      /\ \A p \in Posts : views'[p] = IF p \in Collected THEN updates[p] ELSE views[p]
      /\ UNCHANGED <<useCache, deleted, cache, locals, history>>
  BY JobCommits
<1>2. /\ job' = "scan" /\ updates' = updates /\ got' = got /\ written' = {}
      /\ flushed' = TRUE /\ overtaken' = overtaken \cup Carriers(Collected)
      /\ views' \in [Posts -> Nat] /\ Collected' = Collected
  BY <1>1 DEF JobInv, JobTypeOK, CommitJob, Synced, AfterUnit, Collected, IInv, TypeOK
<1>3. IInv'
  <2>1. TypeOK'
    BY <1>1, <1>2 DEF JobInv, IInv, TypeOK, locals, history
  <2>2. TaskOK' /\ PostsApart'
    BY <1>1 DEF JobInv, IInv, TaskOK, PostsApart, locals, history
  <2>3. SeenOK' /\ CacheExactUnlessDisturbed' /\ ReReadGrowsUnlessDisturbed'
    BY <1>1 DEF JobInv, IInv, SeenOK, NextAnswer, CacheExactUnlessDisturbed,
         ReReadGrowsUnlessDisturbed, locals, history
  <2>4. NoOvercount'
    BY <1>1 DEF JobInv, IInv, NoOvercountByJob, NoOvercount, locals, history
  <2>5. UncachedViewsExact'
    BY <1>1 DEF UncachedViewsExact
  <2>. QED
    BY <2>1, <2>2, <2>3, <2>4, <2>5 DEF IInv
<1>4. NoOvercountByJob'
  BY <1>1, <1>2, <1>3 DEF JobInv, NoOvercountByJob, IInv, history
<1>5. JobTypeOK' /\ JobPhaseOK'
  BY <1>1, <1>2 DEF JobInv, JobTypeOK, JobPhaseOK, Carriers
<1>6. CurrentUnlessOvertaken'
  <2>1. ASSUME NEW p \in Collected', p \notin (disturbed \cup overtaken)'
        PROVE  views'[p] <= updates'[p]
    BY <2>1, <1>1, <1>2 DEF JobInv, JobTypeOK, Collected
  <2>2. ASSUME NEW t \in Carriers(Posts \ disturbed)', t \notin overtaken'
        PROVE  views'[post'[t]] <= newViews'[t]
    <3>1. t \in Carriers(Posts \ disturbed) /\ post' = post /\ newViews' = newViews
      BY <2>2, <1>1 DEF Carriers, locals, history
    <3>2. t \notin overtaken /\ post[t] \in Posts \ Collected
      BY <2>2, <3>1, <1>2 DEF Carriers
    <3>. QED
      BY <3>1, <3>2, <1>1 DEF JobInv, CurrentUnlessOvertaken
  <2>. QED
    BY <2>1, <2>2 DEF CurrentUnlessOvertaken
<1>7. FlushedStays'
  BY <1>1, <1>2 DEF JobInv, JobTypeOK, FlushedStays, Collected
<1>. QED
  BY <1>3, <1>4, <1>5, <1>6, <1>7 DEF JobInv

(* A unit of work that fails leaves the values collected. *)
LEMMA FailUnitStep ==
    ASSUME JobInv, FailUnit
    PROVE  JobInv'
<1>1. /\ IInv' /\ UNCHANGED vars /\ job' = "scan" /\ updates' = updates /\ written' = {}
      /\ got' = got /\ flushed' = flushed /\ overtaken' = overtaken
      /\ flushed = FALSE /\ useCache
  BY JobAlone DEF JobInv, FailUnit, AfterUnit, JobPhaseOK, JobTypeOK
<1>2. NoOvercountByJob'
  BY <1>1 DEF JobInv, NoOvercountByJob, Collected, IInv, vars, history
<1>3. JobTypeOK' /\ JobPhaseOK'
  BY <1>1 DEF JobInv, JobTypeOK, JobPhaseOK, Collected, vars
<1>4. CurrentUnlessOvertaken'
  BY <1>1 DEF JobInv, CurrentUnlessOvertaken, vars, tables, locals, history, Carriers,
       Collected
<1>5. FlushedStays'
  BY <1>1 DEF FlushedStays
<1>. QED
  BY <1>1, <1>2, <1>3, <1>4, <1>5 DEF JobInv

-----------------------------------------------------------------------------
(* The invariant holds at the start ... *)
LEMMA InitJobInv == JobInit => JobInv
<1>. SUFFICES ASSUME JobInit PROVE JobInv
  OBVIOUS
<1>1. IInv
  BY InitIInv DEF JobInit
<1>2. Collected = {} /\ Carriers(Posts \ disturbed) = {}
  BY DEF JobInit, Init, Collected, Nothing, Carriers
<1>3. NoOvercountByJob
  BY <1>1, <1>2 DEF NoOvercountByJob, IInv
<1>4. JobTypeOK /\ JobPhaseOK
  BY DEF JobInit, JobTypeOK, JobPhaseOK, Nothing, Nil
<1>5. CurrentUnlessOvertaken /\ FlushedStays
  BY <1>2 DEF CurrentUnlessOvertaken, FlushedStays
<1>. QED
  BY <1>1, <1>3, <1>4, <1>5 DEF JobInv

(* ... and every step preserves it. *)
LEMMA NextJobInv == JobInv /\ [JobNext]_allVars => JobInv'
<1>. SUFFICES ASSUME JobInv, [JobNext]_allVars PROVE JobInv'
  OBVIOUS
<1>1. CASE FinishScan \/ KillJob
  BY <1>1, EndJobStep DEF FinishScan, KillJob, JobInv, JobTypeOK
<1>2. CASE UNCHANGED allVars
  <2>1. IInv' /\ UNCHANGED vars /\ UNCHANGED jobVars
    BY <1>2, JobAlone DEF JobInv, allVars
  <2>2. NoOvercountByJob'
    BY <2>1 DEF JobInv, NoOvercountByJob, Collected, IInv, vars, history, jobVars
  <2>3. JobTypeOK' /\ JobPhaseOK'
    BY <2>1 DEF JobInv, JobTypeOK, JobPhaseOK, Collected, jobVars, vars
  <2>4. CurrentUnlessOvertaken' /\ FlushedStays'
    BY <2>1 DEF JobInv, CurrentUnlessOvertaken, FlushedStays, vars, tables, locals, history,
         jobVars, Carriers, Collected
  <2>. QED
    BY <2>1, <2>2, <2>3, <2>4 DEF JobInv
<1>. QED
  BY <1>1, <1>2, BesideStep, BeginJobStep, CollectKeyStep, WriteCollectedStep, CommitJobStep,
     FailUnitStep DEF JobNext

(* The inductive invariant of the reads and the job together: what is      *)
(* collected is at most the views counted, and as new as posts.views until *)
(* it is overtaken (sync_post_views_to_db, increment_views_background). *)
THEOREM JobInvariance == JobSpec => []JobInv
BY InitJobInv, NextJobInv, PTL DEF JobSpec

(* Beside the job too no view is counted twice, and no value the job has   *)
(* collected is above the number of views (sync_post_views_to_db). *)
THEOREM NeverOvercountedByJob == JobSpec => []NoOvercountByJob
<1>1. JobInv => NoOvercountByJob
  BY DEF JobInv
<1>. QED
  BY <1>1, JobInvariance, PTL

(* posts.views goes back only by a value that was overtaken, by a task or  *)
(* by the job (sync_views). *)
THEOREM ViewsBackOvertaken == JobSpec => ViewsBackOnlyOvertaken
<1> DEFINE Back(p) ==
             \/ p \in overtaken
             \/ \E t \in Tasks \cap overtaken : post[t] = p /\ pc[t] = "commit"
<1>1. ASSUME JobInv, [JobNext]_allVars, NEW p \in Posts \ disturbed, views'[p] < views[p]
      PROVE  Back(p)
  <2>1. views[p] \in Nat
    BY <1>1 DEF JobInv, IInv, TypeOK
  <2>2. CASE Next /\ useCache
    <3>1. PICK t \in Tasks : CommitSync(t)
      BY <2>1, <2>2, <1>1, ViewsChange DEF JobInv
    <3>2. post[t] = p /\ newViews[t] < views[p] /\ pc[t] = "commit"
      BY <3>1, <1>1, <2>1, SyncEffect DEF JobInv, CommitSync
    <3>. QED
      BY <3>2, <1>1, <2>1, <2>2 DEF JobInv, CurrentUnlessOvertaken, Carriers, IInv, TypeOK
  <2>3. CASE Next /\ ~useCache
    <3>1. views' = views \/ \E t \in Tasks : CommitUncached(t)
      BY <2>3 DEF Next, Step, ReadPost, BeginUncached, GetCached, SetCached, Answer, Incr,
           SyncViews, CommitSync, IncrementViews, Fail, RedisLoss, DeletePost, tables
    <3>2. ASSUME NEW t \in Tasks, CommitUncached(t)
          PROVE  FALSE
      BY <3>2, <1>1, <2>1 DEF JobInv, IInv, TypeOK, TaskOK, CommitUncached
    <3>. QED
      BY <3>1, <3>2, <1>1, <2>1
  <2>4. CASE CommitJob
    <3>1. p \in Collected /\ updates[p] < views[p]
      BY <2>4, <1>1, <2>1, JobCommits
    <3>. QED
      BY <3>1, <1>1, <2>1 DEF JobInv, JobTypeOK, CurrentUnlessOvertaken, Collected, Nil
  <2>5. CASE UNCHANGED vars
    BY <2>5, <2>1, <1>1 DEF vars, tables
  <2>. QED
    BY <2>2, <2>3, <2>4, <2>5, <1>1 DEF JobNext, Beside, BeginJob, CollectKey, WriteCollected,
       FinishScan, FailUnit, KillJob, allVars
<1>2. JobInv /\ [JobNext]_allVars =>
        [\A p \in Posts \ disturbed : views'[p] < views[p] => Back(p)]_allVars
  BY <1>1
<1>. QED
  BY <1>2, JobInvariance, PTL DEF JobSpec, ViewsBackOnlyOvertaken

(* A run whose last unit of work committed leaves posts.views at no less   *)
(* than what it collected, unless overtaken (sync_post_views_to_db). *)
THEOREM FlushesAtEnd == JobSpec => FlushedAtEnd
<1>1. ASSUME JobInv, FinishScan, flushed, NEW p \in Posts \ overtaken, got[p] # Nil
      PROVE  views[p] >= got[p]
  BY <1>1 DEF JobInv, JobPhaseOK, FlushedStays, Collected, FinishScan
<1>2. JobInv /\ [JobNext]_allVars =>
        [FinishScan /\ flushed =>
            \A p \in Posts \ overtaken : got[p] # Nil => views[p] >= got[p]]_allVars
  BY <1>1
<1>. QED
  BY <1>2, JobInvariance, PTL DEF JobSpec, FlushedAtEnd
=============================================================================
