-------------------------- MODULE LikeToggleProofs --------------------------
(***************************************************************************)
(* Proofs about LikeToggle, and about the readers PostDetail puts beside   *)
(* it, for any set of requests and posts, any finite set of users, with    *)
(* and without the counter cache.                                          *)
(***************************************************************************)
EXTENDS PostDetail, FiniteSetTheorems, TLAPS

-----------------------------------------------------------------------------
(* Counting the likes of a post. *)

(* A post has finitely many likes, since it has one per user at most. *)
LEMMA LikesFinite ==
    ASSUME NEW L \in SUBSET Pairs, NEW p
    PROVE  /\ IsFiniteSet({x \in L : x[2] = p})
           /\ Cardinality({x \in L : x[2] = p}) \in Nat
<1>1. IsFiniteSet({p})
  BY FS_Singleton
<1>2. IsFiniteSet(Users \X {p})
  BY <1>1, UsersAssumption, FS_Product
<1>3. {x \in L : x[2] = p} \in SUBSET (Users \X {p})
  BY DEF Pairs
<1>4. IsFiniteSet({x \in L : x[2] = p})
  BY <1>2, <1>3, FS_Subset
<1>. QED
  BY <1>4, FS_CardinalityType

(* A new like adds one to its post and leaves the other posts alone. *)
LEMMA AddLike ==
    ASSUME NEW L \in SUBSET Pairs, NEW y \in Pairs, y \notin L
    PROVE  /\ Cardinality({x \in L \cup {y} : x[2] = y[2]})
                = Cardinality({x \in L : x[2] = y[2]}) + 1
           /\ \A q : q # y[2] =>
                {x \in L \cup {y} : x[2] = q} = {x \in L : x[2] = q}
<1>. DEFINE S == {x \in L : x[2] = y[2]}
<1>1. IsFiniteSet(S)
  BY LikesFinite
<1>2. y \notin S
  OBVIOUS
<1>3. {x \in L \cup {y} : x[2] = y[2]} = S \cup {y}
  OBVIOUS
<1>4. Cardinality(S \cup {y}) = Cardinality(S) + 1
  BY <1>1, <1>2, FS_AddElement
<1>. QED
  BY <1>3, <1>4

(* A removed like takes one from its post and leaves the others alone. *)
LEMMA RemoveLike ==
    ASSUME NEW L \in SUBSET Pairs, NEW y \in L
    PROVE  /\ Cardinality({x \in L \ {y} : x[2] = y[2]}) + 1
                = Cardinality({x \in L : x[2] = y[2]})
           /\ \A q : q # y[2] =>
                {x \in L \ {y} : x[2] = q} = {x \in L : x[2] = q}
<1>. DEFINE S == {x \in L : x[2] = y[2]}
<1>1. IsFiniteSet(S) /\ Cardinality(S) \in Nat
  BY LikesFinite
<1>2. y \in S
  OBVIOUS
<1>3. {x \in L \ {y} : x[2] = y[2]} = S \ {y}
  OBVIOUS
<1>4. Cardinality(S \ {y}) = Cardinality(S) - 1
  BY <1>1, <1>2, FS_RemoveElement
<1>5. Cardinality({x \in L \ {y} : x[2] = y[2]}) + 1 = Cardinality({x \in L : x[2] = y[2]})
  <2>. HIDE DEF S
  <2>1. Cardinality(S \ {y}) + 1 = Cardinality(S)
    BY <1>1, <1>4
  <2>. QED
    BY <2>1, <1>3 DEF S
<1>6. \A q : q # y[2] => {x \in L \ {y} : x[2] = q} = {x \in L : x[2] = q}
  OBVIOUS
<1>. QED
  BY <1>5, <1>6

(* What r's statements see is a set of rows, and its count a number. *)
LEMMA VisibleType ==
    ASSUME IInv, NEW r \in Requests
    PROVE  /\ VisibleLikes(r) \in SUBSET Pairs
           /\ VisibleCount(r) \in Nat
<1>1. VisibleLikes(r) \in SUBSET Pairs
  BY DEF IInv, TypeOK, PhaseOK, VisibleLikes, Statements
<1>. QED
  BY <1>1, LikesFinite DEF VisibleCount

-----------------------------------------------------------------------------
(* One lemma per action: it preserves the inductive invariant. *)

LEMMA GetPostStep ==
    ASSUME IInv, NEW r \in Requests, NEW u \in Users, NEW p \in Posts, GetPost(r, u, p)
    PROVE  IInv'
<1>1. CASE p \in deleted
  BY <1>1 DEF IInv, GetPost, tableVars, TypeOK, PhaseOK, AnswerOK, WrittenRow, RowsApart,
     PostsApart, IncrementCurrent, RecountCurrent, CountExactUnlessDrifted, HoldsPost,
     PostOf, LikesOf
<1>2. CASE p \notin deleted
  <2>1. /\ pc' = [pc EXCEPT ![r] = "exists"]
        /\ pair' = [pair EXCEPT ![r] = <<u, p>>]
        /\ pc[r] = "idle"
        /\ UNCHANGED <<tableVars, isLiked, wrote, count, missed>>
    BY <1>2 DEF GetPost
  <2>2. wrote[r] = "none" /\ ~isLiked[r]
    BY <2>1 DEF IInv, PhaseOK, AnswerOK
  <2>3. TypeOK'
    BY <2>1 DEF IInv, TypeOK, tableVars, Pairs, Statements
  <2>4. PhaseOK' /\ AnswerOK'
    BY <2>1, <2>2 DEF IInv, TypeOK, PhaseOK, AnswerOK, Pairs
  <2>5. WrittenRow' /\ RowsApart'
    BY <2>1, <2>2 DEF IInv, TypeOK, WrittenRow, RowsApart, tableVars
  <2>6. PostsApart' /\ IncrementCurrent'
    BY <2>1, <2>2 DEF IInv, TypeOK, PostsApart, IncrementCurrent, HoldsPost, PostOf, tableVars
  <2>7. RecountCurrent' /\ CountExactUnlessDrifted'
    BY <2>1, <2>2 DEF IInv, TypeOK, RecountCurrent, CountExactUnlessDrifted, PostOf, LikesOf,
       tableVars
  <2>. QED
    BY <2>3, <2>4, <2>5, <2>6, <2>7 DEF IInv
<1>. QED
  BY <1>1, <1>2

LEMMA ExistsLikeStep ==
    ASSUME IInv, NEW r \in Requests, ExistsLike(r)
    PROVE  IInv'
<1>. USE DEF ExistsLike, tableVars
<1>1. wrote[r] = "none"
  BY DEF IInv, PhaseOK
<1>2. TypeOK'
  BY DEF IInv, TypeOK, Statements
<1>3. PhaseOK' /\ AnswerOK'
  BY <1>1 DEF IInv, TypeOK, PhaseOK, AnswerOK
<1>4. WrittenRow' /\ RowsApart'
  BY DEF IInv, TypeOK, WrittenRow, RowsApart
<1>5. PostsApart' /\ IncrementCurrent'
  BY <1>1 DEF IInv, TypeOK, PostsApart, IncrementCurrent, HoldsPost, PostOf
<1>6. RecountCurrent' /\ CountExactUnlessDrifted'
  BY <1>1 DEF IInv, TypeOK, RecountCurrent, CountExactUnlessDrifted, PostOf, LikesOf
<1>. QED
  BY <1>2, <1>3, <1>4, <1>5, <1>6 DEF IInv

LEMMA InsertLikeStep ==
    ASSUME IInv, NEW r \in Requests, InsertLike(r)
    PROVE  IInv'
<1>. USE DEF InsertLike, tableVars
<1>1. wrote[r] = "none" /\ isLiked[r]
  BY DEF IInv, PhaseOK, AnswerOK
<1>2. pc'[r] \in {"recount", "increment", "cached"}
  BY DEF IInv, TypeOK, AfterWrite
<1>3. TypeOK'
  BY <1>2 DEF IInv, TypeOK, Statements
<1>4. PhaseOK' /\ AnswerOK'
  BY <1>1, ModeAssumption DEF IInv, TypeOK, PhaseOK, AnswerOK, AfterWrite
<1>5. WrittenRow'
  BY DEF IInv, TypeOK, WrittenRow
<1>6. RowsApart'
  BY DEF IInv, TypeOK, RowsApart, RowLocked
<1>7. PostsApart' /\ IncrementCurrent'
  BY <1>2 DEF IInv, TypeOK, PostsApart, IncrementCurrent, HoldsPost, PostOf
<1>8. RecountCurrent' /\ CountExactUnlessDrifted'
  BY <1>2 DEF IInv, TypeOK, RecountCurrent, CountExactUnlessDrifted, PostOf, LikesOf,
     AfterRecount
<1>. QED
  BY <1>3, <1>4, <1>5, <1>6, <1>7, <1>8 DEF IInv

LEMMA DeleteLikeStep ==
    ASSUME IInv, NEW r \in Requests, DeleteLike(r)
    PROVE  IInv'
<1>. USE DEF DeleteLike, tableVars
<1>1. wrote[r] = "none" /\ ~isLiked[r]
  BY DEF IInv, PhaseOK, AnswerOK
<1>2. pc'[r] \in {"recount", "cached"}
  BY DEF IInv, TypeOK, AfterWrite
<1>3. TypeOK'
  BY <1>2 DEF IInv, TypeOK, Statements
<1>4. PhaseOK' /\ AnswerOK'
  BY <1>1, ModeAssumption DEF IInv, TypeOK, PhaseOK, AnswerOK, AfterWrite
<1>5. WrittenRow'
  BY DEF IInv, TypeOK, WrittenRow
<1>6. RowsApart'
  BY DEF IInv, TypeOK, RowsApart, RowLocked
<1>7. PostsApart' /\ IncrementCurrent'
  BY <1>2 DEF IInv, TypeOK, PostsApart, IncrementCurrent, HoldsPost, PostOf
<1>8. RecountCurrent' /\ CountExactUnlessDrifted'
  BY <1>2 DEF IInv, TypeOK, RecountCurrent, CountExactUnlessDrifted, PostOf, LikesOf,
     AfterRecount
<1>. QED
  BY <1>3, <1>4, <1>5, <1>6, <1>7, <1>8 DEF IInv

LEMMA IncrementCountStep ==
    ASSUME IInv, NEW r \in Requests, IncrementCount(r)
    PROVE  IInv'
<1>. USE DEF IncrementCount, tableVars
<1>1. wrote[r] = "insert" /\ pair[r] \in Pairs
  BY DEF IInv, PhaseOK
<1>2. PostOf(r) \in Posts
  BY <1>1 DEF PostOf, Pairs
<1>3. TypeOK'
  BY <1>2 DEF IInv, TypeOK, Statements
<1>4. PhaseOK' /\ AnswerOK'
  BY <1>1 DEF IInv, TypeOK, PhaseOK, AnswerOK
<1>5. WrittenRow' /\ RowsApart'
  BY DEF IInv, TypeOK, WrittenRow, RowsApart
<1>6. PostsApart'
  BY <1>2 DEF IInv, TypeOK, PostsApart, HoldsPost, PostLocked, PostOf
<1>7. IncrementCurrent'
  BY DEF IInv, TypeOK, IncrementCurrent, HoldsPost, PostOf
<1>8. RecountCurrent' /\ CountExactUnlessDrifted'
  BY <1>1 DEF IInv, TypeOK, RecountCurrent, CountExactUnlessDrifted, PostOf, LikesOf
<1>. QED
  BY <1>3, <1>4, <1>5, <1>6, <1>7, <1>8 DEF IInv

LEMMA RecountStep ==
    ASSUME IInv, NEW r \in Requests, Recount(r)
    PROVE  IInv'
<1>. USE DEF Recount, tableVars
<1>1. VisibleCount(r) \in Nat
  BY VisibleType
<1>2. pair[r] \in Pairs /\ (UseCounterCache => wrote[r] = "delete")
  BY DEF IInv, PhaseOK
<1>3. TypeOK'
  BY <1>1 DEF IInv, TypeOK, Statements
<1>4. PhaseOK' /\ AnswerOK'
  BY <1>2 DEF IInv, TypeOK, PhaseOK, AnswerOK
<1>5. WrittenRow' /\ RowsApart'
  BY DEF IInv, TypeOK, WrittenRow, RowsApart
<1>6. PostsApart' /\ IncrementCurrent'
  BY DEF IInv, TypeOK, PostsApart, IncrementCurrent, HoldsPost, PostOf
<1>7. RecountCurrent'
  <2>. SUFFICES ASSUME NEW s \in Requests, UseCounterCache, wrote'[s] = "delete",
                       pc'[s] \in AfterRecount, ~missed'[s]
                PROVE  count'[s] + 1 = Cardinality(LikesOf(PostOf(s))')
    BY DEF RecountCurrent
  <2>1. CASE s # r
    BY <2>1 DEF IInv, TypeOK, RecountCurrent, PostOf, LikesOf
  <2>2. CASE s = r
    <3>1. pair[r] \in likes /\ likes \in SUBSET Pairs
      BY <2>2 DEF IInv, TypeOK, WrittenRow
    <3>2. VisibleCount(r) = Cardinality({x \in likes \ {pair[r]} : x[2] = PostOf(r)})
      BY <2>2 DEF VisibleCount, VisibleLikes
    <3>3. VisibleCount(r) + 1 = Cardinality({x \in likes : x[2] = PostOf(r)})
      BY <3>1, <3>2, RemoveLike DEF PostOf
    <3>. QED
      BY <2>2, <3>3 DEF IInv, TypeOK, PostOf, LikesOf
  <2>. QED
    BY <2>1, <2>2
<1>8. CountExactUnlessDrifted'
  BY DEF IInv, CountExactUnlessDrifted, LikesOf
<1>. QED
  BY <1>3, <1>4, <1>5, <1>6, <1>7, <1>8 DEF IInv

LEMMA OverwriteCountStep ==
    ASSUME IInv, NEW r \in Requests, OverwriteCount(r)
    PROVE  IInv'
<1>. USE DEF OverwriteCount, tableVars
<1>1. wrote[r] = "delete" /\ pair[r] \in Pairs
  BY DEF IInv, PhaseOK
<1>2. TypeOK'
  BY DEF IInv, TypeOK, Statements
<1>3. PhaseOK' /\ AnswerOK'
  BY <1>1 DEF IInv, TypeOK, PhaseOK, AnswerOK
<1>4. WrittenRow' /\ RowsApart'
  BY DEF IInv, TypeOK, WrittenRow, RowsApart
<1>5. PostsApart'
  BY <1>1 DEF IInv, TypeOK, PostsApart, HoldsPost, PostLocked, PostOf
<1>6. IncrementCurrent'
  BY <1>1 DEF IInv, TypeOK, IncrementCurrent, HoldsPost, PostOf
<1>7. RecountCurrent' /\ CountExactUnlessDrifted'
  BY <1>1 DEF IInv, TypeOK, RecountCurrent, CountExactUnlessDrifted, PostOf, LikesOf,
     AfterRecount
<1>. QED
  BY <1>2, <1>3, <1>4, <1>5, <1>6, <1>7 DEF IInv

LEMMA ReadCachedCountStep ==
    ASSUME IInv, NEW r \in Requests, ReadCachedCount(r)
    PROVE  IInv'
<1>. USE DEF ReadCachedCount, tableVars
<1>1. wrote[r] = "none" /\ pair[r] \in Pairs
  BY DEF IInv, PhaseOK
<1>2. PostOf(r) \in Posts
  BY <1>1 DEF PostOf, Pairs
<1>3. TypeOK'
  BY <1>2 DEF IInv, TypeOK, Statements
<1>4. PhaseOK' /\ AnswerOK'
  BY <1>1 DEF IInv, TypeOK, PhaseOK, AnswerOK
<1>5. WrittenRow' /\ RowsApart'
  BY DEF IInv, TypeOK, WrittenRow, RowsApart
<1>6. PostsApart' /\ IncrementCurrent'
  BY <1>1 DEF IInv, TypeOK, PostsApart, IncrementCurrent, HoldsPost, PostOf
<1>7. RecountCurrent' /\ CountExactUnlessDrifted'
  BY <1>1 DEF IInv, TypeOK, RecountCurrent, CountExactUnlessDrifted, PostOf, LikesOf
<1>. QED
  BY <1>3, <1>4, <1>5, <1>6, <1>7 DEF IInv

(* What a commit does to the rows of each post. *)
LEMMA CommitRows ==
    ASSUME IInv, NEW r \in Requests, Commit(r)
    PROVE  /\ pair[r] \in Pairs
           /\ \A p : (p # PostOf(r) \/ wrote[r] = "none") => LikesOf(p)' = LikesOf(p)
           /\ wrote[r] = "insert" =>
                \A p : p = PostOf(r) =>
                   Cardinality(LikesOf(p)') = Cardinality(LikesOf(p)) + 1
           /\ wrote[r] = "delete" =>
                \A p : p = PostOf(r) =>
                   Cardinality(LikesOf(p)') + 1 = Cardinality(LikesOf(p))
<1>1. pair[r] \in Pairs /\ likes \in SUBSET Pairs
  BY DEF IInv, TypeOK, PhaseOK, Commit
<1>2. CASE wrote[r] = "none"
  BY <1>1, <1>2 DEF Commit, VisibleLikes, LikesOf
<1>3. CASE wrote[r] = "insert"
  <2>1. likes' = likes \cup {pair[r]} /\ pair[r] \notin likes
    BY <1>3 DEF Commit, VisibleLikes, IInv, WrittenRow
  <2>. QED
    BY <1>1, <1>3, <2>1, AddLike DEF LikesOf, PostOf
<1>4. CASE wrote[r] = "delete"
  <2>1. likes' = likes \ {pair[r]} /\ pair[r] \in likes
    BY <1>4 DEF Commit, VisibleLikes, IInv, WrittenRow
  <2>2. Cardinality({x \in likes \ {pair[r]} : x[2] = pair[r][2]}) + 1
          = Cardinality({x \in likes : x[2] = pair[r][2]})
    BY <1>1, <2>1, RemoveLike
  <2>3. \A p : p # PostOf(r) => LikesOf(p)' = LikesOf(p)
    BY <1>1, <2>1, RemoveLike DEF LikesOf, PostOf
  <2>4. \A p : p = PostOf(r) => Cardinality(LikesOf(p)') + 1 = Cardinality(LikesOf(p))
    BY <2>1, <2>2 DEF LikesOf, PostOf
  <2>. QED
    BY <1>1, <1>4, <2>3, <2>4
<1>. QED
  BY <1>2, <1>3, <1>4 DEF IInv, TypeOK

LEMMA CommitStep ==
    ASSUME IInv, NEW r \in Requests, Commit(r)
    PROVE  IInv'
<1>1. /\ pair[r] \in Pairs
      /\ PostOf(r) \in Posts
      /\ pc[r] = "commit"
      /\ HoldsPost(r) <=> UseCounterCache /\ wrote[r] # "none"
  BY CommitRows DEF Commit, PostOf, Pairs, HoldsPost
<1>2. /\ pc' = [pc EXCEPT ![r] = "idle"]
      /\ pair' = [pair EXCEPT ![r] = NoPair]
      /\ isLiked' = [isLiked EXCEPT ![r] = FALSE]
      /\ wrote' = [wrote EXCEPT ![r] = "none"]
      /\ count' = [count EXCEPT ![r] = 0]
  BY DEF Commit, Finish
<1>3. TypeOK'
  <2>1. likes' \in SUBSET Pairs
    BY VisibleType DEF Commit
  <2>2. likesCount' \in [Posts -> Nat]
    BY <1>1 DEF Commit, IInv, TypeOK
  <2>3. drifted' \subseteq Posts
    BY <1>1 DEF Commit, IInv, TypeOK
  <2>4. missed' \in [Requests -> BOOLEAN]
    BY DEF Commit, IInv, TypeOK, MissedBy
  <2>5. served' \in [Requests -> BOOLEAN]
    BY DEF Commit, Finish, IInv, TypeOK
  <2>. QED
    BY <1>2, <2>1, <2>2, <2>3, <2>4, <2>5 DEF Commit, IInv, TypeOK
<1>4. PhaseOK' /\ AnswerOK'
  BY <1>2 DEF IInv, TypeOK, PhaseOK, AnswerOK
<1>5. WrittenRow'
  <2>. SUFFICES ASSUME NEW s \in Requests, s # r, wrote[s] # "none"
                PROVE  pair[s] \in likes' <=> pair[s] \in likes
    BY <1>2 DEF IInv, TypeOK, WrittenRow
  <2>1. wrote[r] = "none" \/ pair[s] # pair[r]
    BY DEF IInv, RowsApart
  <2>. QED
    BY <2>1 DEF Commit, VisibleLikes
<1>6. RowsApart' /\ PostsApart'
  BY <1>2 DEF IInv, TypeOK, RowsApart, PostsApart, HoldsPost, PostOf
<1>7. IncrementCurrent'
  <2>. SUFFICES ASSUME NEW s \in Requests, s # r, HoldsPost(s), wrote[s] = "insert"
                PROVE  count[s] = likesCount'[PostOf(s)] + 1
    BY <1>2 DEF IInv, TypeOK, IncrementCurrent, HoldsPost, PostOf
  <2>1. count[s] = likesCount[PostOf(s)] + 1
    BY DEF IInv, IncrementCurrent
  <2>2. likesCount'[PostOf(s)] = likesCount[PostOf(s)]
    <3>1. ~HoldsPost(r) \/ PostOf(s) # PostOf(r)
      BY DEF IInv, PostsApart
    <3>2. PostOf(s) \in Posts
      BY DEF IInv, PhaseOK, HoldsPost, PostOf, Pairs
    <3>. QED
      BY <3>1, <3>2 DEF Commit, IInv, TypeOK
  <2>. QED
    BY <2>1, <2>2
<1>8. RecountCurrent'
  <2>. SUFFICES ASSUME NEW s \in Requests, UseCounterCache, s # r, wrote[s] = "delete",
                       pc[s] \in AfterRecount, ~missed'[s]
                PROVE  count[s] + 1 = Cardinality(LikesOf(PostOf(s)))'
    BY <1>2 DEF IInv, TypeOK, RecountCurrent, PostOf
  <2>1. ~missed[s] /\ ~MissedBy(r, s)
    BY DEF Commit
  <2>2. count[s] + 1 = Cardinality(LikesOf(PostOf(s)))
    BY <2>1 DEF IInv, RecountCurrent
  <2>3. wrote[r] = "none" \/ PostOf(s) # PostOf(r)
    BY <2>1 DEF MissedBy
  <2>4. \A p : p = PostOf(s) => LikesOf(p)' = LikesOf(p)
    BY <2>3, CommitRows
  <2>5. PostOf(s)' = PostOf(s)
    BY <1>2 DEF PostOf, IInv, TypeOK
  <2>. QED
    BY <2>2, <2>4, <2>5 DEF LikesOf
<1>9. CountExactUnlessDrifted'
  <2>. SUFFICES ASSUME UseCounterCache, NEW p \in Posts, p \notin drifted'
                PROVE  likesCount'[p] = Cardinality(LikesOf(p)')
    BY DEF CountExactUnlessDrifted, LikesOf
  <2>1. Cardinality(LikesOf(p)) \in Nat /\ Cardinality(LikesOf(p)') \in Nat
    <3>1. likes \in SUBSET Pairs /\ likes' \in SUBSET Pairs
      BY <1>3 DEF IInv, TypeOK
    <3>2. Cardinality({x \in likes : x[2] = p}) \in Nat
      BY <3>1, LikesFinite
    <3>3. Cardinality({x \in likes' : x[2] = p}) \in Nat
      BY <3>1, LikesFinite
    <3>. QED
      BY <3>2, <3>3 DEF LikesOf
  <2>2. CASE p # PostOf(r) \/ wrote[r] = "none"
    <3>1. LikesOf(p)' = LikesOf(p)
      BY <2>2, CommitRows
    <3>2. likesCount'[p] = likesCount[p] /\ p \notin drifted
      BY <1>1, <2>2 DEF Commit, IInv, TypeOK
    <3>. QED
      BY <3>1, <3>2 DEF IInv, CountExactUnlessDrifted
  <2>3. CASE p = PostOf(r) /\ wrote[r] = "insert"
    <3>1. likesCount'[p] = likesCount[p] + 1 /\ p \notin drifted
      BY <1>1, <2>3 DEF Commit, IInv, TypeOK, IncrementCurrent
    <3>2. Cardinality(LikesOf(p)') = Cardinality(LikesOf(p)) + 1
      BY <2>3, CommitRows
    <3>. QED
      BY <3>1, <3>2 DEF IInv, CountExactUnlessDrifted
  <2>4. CASE p = PostOf(r) /\ wrote[r] = "delete"
    <3>1. likesCount'[p] = count[r] /\ ~missed[r]
      BY <1>1, <2>4 DEF Commit, IInv, TypeOK
    <3>2. count[r] + 1 = Cardinality(LikesOf(p))
      BY <1>1, <2>4, <3>1 DEF IInv, RecountCurrent, AfterRecount
    <3>3. Cardinality(LikesOf(p)') + 1 = Cardinality(LikesOf(p))
      BY <2>4, CommitRows
    <3>4. count[r] \in Nat
      BY DEF IInv, TypeOK
    <3>. QED
      BY <2>1, <3>1, <3>2, <3>3, <3>4
  <2>. QED
    BY <2>2, <2>3, <2>4 DEF IInv, TypeOK
<1>. QED
  BY <1>3, <1>4, <1>5, <1>6, <1>7, <1>8, <1>9 DEF IInv

LEMMA FailStep ==
    ASSUME IInv, NEW r \in Requests, Fail(r)
    PROVE  IInv'
<1>. USE DEF Fail, Finish, tableVars
<1>1. TypeOK'
  BY DEF IInv, TypeOK
<1>2. PhaseOK' /\ AnswerOK'
  BY DEF IInv, TypeOK, PhaseOK, AnswerOK
<1>3. WrittenRow' /\ RowsApart'
  BY DEF IInv, TypeOK, WrittenRow, RowsApart
<1>4. PostsApart' /\ IncrementCurrent'
  BY DEF IInv, TypeOK, PostsApart, IncrementCurrent, HoldsPost, PostOf
<1>5. RecountCurrent' /\ CountExactUnlessDrifted'
  BY DEF IInv, TypeOK, RecountCurrent, CountExactUnlessDrifted, PostOf, LikesOf
<1>. QED
  BY <1>1, <1>2, <1>3, <1>4, <1>5 DEF IInv

(* Steps that touch neither rows, nor counters, nor requests. *)
LEMMA SameTables ==
    ASSUME IInv, deleted' \subseteq Posts,
           UNCHANGED <<likes, likesCount, drifted, requestVars, served, missed>>
    PROVE  IInv'
<1>. USE DEF requestVars
<1>1. TypeOK' /\ PhaseOK' /\ AnswerOK' /\ WrittenRow' /\ RowsApart'
  BY DEF IInv, TypeOK, PhaseOK, AnswerOK, WrittenRow, RowsApart
<1>2. PostsApart' /\ IncrementCurrent' /\ RecountCurrent' /\ CountExactUnlessDrifted'
  BY DEF IInv, PostsApart, IncrementCurrent, RecountCurrent, CountExactUnlessDrifted,
     HoldsPost, PostOf, LikesOf
<1>. QED
  BY <1>1, <1>2 DEF IInv

-----------------------------------------------------------------------------
(* The invariant of every behaviour. *)

LEMMA InitIInv == Init => IInv
<1>. SUFFICES ASSUME Init PROVE IInv
  OBVIOUS
<1>. USE DEF Init
<1>1. \A p : LikesOf(p) = {}
  BY DEF LikesOf
<1>2. CountExactUnlessDrifted
  BY <1>1, FS_EmptySet DEF CountExactUnlessDrifted
<1>3. TypeOK /\ PhaseOK /\ AnswerOK /\ WrittenRow /\ RowsApart
  BY DEF TypeOK, PhaseOK, AnswerOK, WrittenRow, RowsApart
<1>4. PostsApart /\ IncrementCurrent /\ RecountCurrent
  BY DEF PostsApart, IncrementCurrent, RecountCurrent, HoldsPost
<1>. QED
  BY <1>2, <1>3, <1>4 DEF IInv

LEMMA NextIInv == IInv /\ [Next]_vars => IInv'
<1>. SUFFICES ASSUME IInv, [Next]_vars PROVE IInv'
  OBVIOUS
<1>1. ASSUME NEW r \in Requests, NEW u \in Users, NEW p \in Posts, GetPost(r, u, p)
      PROVE  IInv'
  BY <1>1, GetPostStep
<1>2. ASSUME NEW r \in Requests, Step(r)
      PROVE  IInv'
  BY <1>2, ExistsLikeStep, InsertLikeStep, DeleteLikeStep, IncrementCountStep, RecountStep,
     OverwriteCountStep, ReadCachedCountStep, CommitStep DEF Step
<1>3. ASSUME NEW r \in Requests, Fail(r)
      PROVE  IInv'
  BY <1>3, FailStep
<1>4. ASSUME NEW p \in Posts, DeletePost(p)
      PROVE  IInv'
  BY <1>4, SameTables DEF DeletePost, IInv, TypeOK
<1>5. CASE UNCHANGED vars
  BY <1>5, SameTables DEF vars, IInv, TypeOK
<1>. QED
  BY <1>1, <1>2, <1>3, <1>4, <1>5 DEF Next

(* The inductive invariant holds in every behaviour of the toggles: locks  *)
(* keep writers apart and uncommitted counts true (like.py, uow.py).       *)
THEOREM Invariance == Spec => []IInv
BY InitIInv, NextIInv, PTL DEF Spec

(* Every variable keeps its type; in particular no counter becomes         *)
(* negative and no uncommitted count is other than a number.               *)
THEOREM TypeCorrect == Spec => []TypeOK
<1>1. IInv => TypeOK
  BY DEF IInv
<1>. QED
  BY <1>1, Invariance, PTL

(* posts.likes_count is the number of likes of the post in every state in  *)
(* which the post's last unlike did not overwrite it with a recount that   *)
(* missed a commit (like_with_counter_cache, unlike_with_counter_cache).   *)
THEOREM CountExact == Spec => []CountExactUnlessDrifted
<1>1. IInv => CountExactUnlessDrifted
  BY DEF IInv
<1>. QED
  BY <1>1, Invariance, PTL

-----------------------------------------------------------------------------
(* A like counts once. *)

LEMMA StepAddsOne == IInv /\ [Next]_vars => [LikeAddsOne]_vars
<1>. SUFFICES ASSUME IInv, Next, UseCounterCache,
                     NEW p \in Posts, NEW u \in Users, <<u, p>> \in likes' \ likes
              PROVE  likesCount'[p] = likesCount[p] + 1
  BY DEF LikeAddsOne, vars
<1>1. PICK r \in Requests : Commit(r)
  BY DEF Next, Step, GetPost, ExistsLike, InsertLike, DeleteLike, IncrementCount, Recount,
     OverwriteCount, ReadCachedCount, Fail, DeletePost, tableVars
<1>2. wrote[r] = "insert" /\ <<u, p>> = pair[r]
  BY <1>1 DEF Commit, VisibleLikes
<1>3. HoldsPost(r) /\ PostOf(r) = p
  BY <1>1, <1>2 DEF Commit, HoldsPost, PostOf
<1>4. count[r] = likesCount[p] + 1
  BY <1>2, <1>3 DEF IInv, IncrementCurrent
<1>. QED
  BY <1>1, <1>3, <1>4 DEF Commit, IInv, TypeOK

(* Whatever comes between the UPDATE of like_with_counter_cache and its    *)
(* commit, a like that becomes visible adds exactly one to the counter.    *)
THEOREM LikesCountOnce == Spec => LikeCountsOnce
BY Invariance, StepAddsOne, PTL DEF Spec, LikeCountsOnce

-----------------------------------------------------------------------------
(* toggle_like_post implements SetToggle. *)

LEMMA RefineInit == Init => Toggle!AbsInit
BY DEF Init, Toggle!AbsInit, AbsPhase, AbsItem, Toggle!NoItem, NoPair

(* A step of request r alone that neither changes the rows nor takes r to  *)
(* another abstract phase is a stutter of SetToggle. *)
Others(r) ==
    \A s \in Requests \ {r} : pc'[s] = pc[s] /\ pair'[s] = pair[s] /\ wrote'[s] = wrote[s]

LEMMA RefineStutter ==
    ASSUME NEW r \in Requests, Others(r), UNCHANGED <<likes, isLiked, served>>,
           AbsPhase(r)' = AbsPhase(r), AbsItem(r)' = AbsItem(r)
    PROVE  UNCHANGED Toggle!absVars
<1>1. \A s \in Requests : AbsPhase(s)' = AbsPhase(s) /\ AbsItem(s)' = AbsItem(s)
  BY DEF Others, AbsPhase, AbsItem
<1>. QED
  BY <1>1 DEF Toggle!absVars

(* The other requests keep their abstract phase and item. *)
LEMMA RefineOthers ==
    ASSUME NEW r \in Requests, Others(r)
    PROVE  /\ [s \in Requests |-> AbsPhase(s)]'
                = [[s \in Requests |-> AbsPhase(s)] EXCEPT ![r] = AbsPhase(r)']
           /\ [s \in Requests |-> AbsItem(s)]'
                = [[s \in Requests |-> AbsItem(s)] EXCEPT ![r] = AbsItem(r)']
<1>1. \A s \in Requests \ {r} : AbsPhase(s)' = AbsPhase(s) /\ AbsItem(s)' = AbsItem(s)
  BY DEF Others, AbsPhase, AbsItem
<1>. QED
  BY <1>1

(* One lemma per kind of step. *)

LEMMA RefineGetPost ==
    ASSUME IInv, NEW r \in Requests, NEW u \in Users, NEW p \in Posts, GetPost(r, u, p)
    PROVE  UNCHANGED Toggle!absVars
<1>1. Others(r) /\ UNCHANGED <<likes, isLiked, served>>
  BY DEF GetPost, Others, IInv, TypeOK, tableVars
<1>2. pc[r] = "idle" /\ pc'[r] \in {"idle", "exists"}
  BY DEF GetPost, IInv, TypeOK
<1>. QED
  BY <1>1, <1>2, RefineStutter DEF AbsPhase, AbsItem

LEMMA RefineExistsLike ==
    ASSUME IInv, NEW r \in Requests, ExistsLike(r)
    PROVE  Toggle!Look(r, pair[r]) /\ pair[r] \in Pairs
<1>1. Others(r)
  BY DEF ExistsLike, Others, IInv, TypeOK
<1>2. pc[r] = "exists" /\ pc'[r] \in {"insert", "delete"} /\ pair'[r] = pair[r]
      /\ pair[r] \in Pairs
  BY DEF ExistsLike, IInv, TypeOK, PhaseOK
<1>3. AbsPhase(r) = "idle" /\ AbsPhase(r)' = "aiming" /\ AbsItem(r)' = pair[r]
  BY <1>2 DEF AbsPhase, AbsItem
<1>. QED
  BY <1>1, <1>2, <1>3, RefineOthers DEF Toggle!Look, ExistsLike, tableVars

(* The statement that writes the row, or finds it as it wants it. *)
LEMMA RefineWrite ==
    ASSUME IInv, NEW r \in Requests, InsertLike(r) \/ DeleteLike(r)
    PROVE  Toggle!Agree(r) \/ UNCHANGED Toggle!absVars
<1>1. Others(r) /\ UNCHANGED <<likes, isLiked, pair, served>>
  BY DEF InsertLike, DeleteLike, Others, IInv, TypeOK, tableVars
<1>2. pc[r] \in {"insert", "delete"} /\ pc'[r] \in {"increment", "recount", "cached"}
  BY DEF InsertLike, DeleteLike, IInv, TypeOK, AfterWrite
<1>3. AbsPhase(r) = "aiming" /\ AbsItem(r) = pair[r] /\ AbsItem(r)' = pair[r]
  BY <1>1, <1>2 DEF AbsPhase, AbsItem
<1>4. CASE wrote'[r] # "none"
  <2>1. AbsPhase(r)' = "aiming"
    BY <1>2, <1>4 DEF AbsPhase
  <2>. QED
    BY <1>1, <1>3, <2>1, RefineStutter
<1>5. CASE wrote'[r] = "none"
  <2>1. AbsPhase(r)' = "agreed"
    BY <1>2, <1>5 DEF AbsPhase
  <2>2. (pair[r] \in likes) = isLiked[r]
    BY <1>5 DEF InsertLike, DeleteLike, IInv, TypeOK, AnswerOK
  <2>3. [s \in Requests |-> AbsItem(s)]' = [s \in Requests |-> AbsItem(s)]
    BY <1>1, <1>3, RefineOthers
  <2>. QED
    BY <1>1, <1>3, <2>1, <2>2, <2>3, RefineOthers DEF Toggle!Agree
<1>. QED
  BY <1>4, <1>5

(* The statements that only count. *)
LEMMA RefineCounting ==
    ASSUME IInv, NEW r \in Requests,
           IncrementCount(r) \/ Recount(r) \/ OverwriteCount(r) \/ ReadCachedCount(r)
    PROVE  UNCHANGED Toggle!absVars
<1>1. Others(r) /\ UNCHANGED <<likes, isLiked, pair, wrote, served>>
  BY DEF IncrementCount, Recount, OverwriteCount, ReadCachedCount, Others, IInv, TypeOK,
     tableVars
<1>2. /\ pc[r] \in {"increment", "recount", "overwrite", "cached"}
      /\ pc'[r] \in {"overwrite", "commit"}
  BY DEF IncrementCount, Recount, OverwriteCount, ReadCachedCount, IInv, TypeOK
<1>3. AbsPhase(r)' = AbsPhase(r) /\ AbsItem(r)' = AbsItem(r)
  BY <1>1, <1>2 DEF AbsPhase, AbsItem
<1>. QED
  BY <1>1, <1>3, RefineStutter

LEMMA RefineRest ==
    ASSUME IInv, NEW r \in Requests, NEW success \in BOOLEAN, Finish(r, success)
    PROVE  Toggle!Rest(r, success)
<1>1. Others(r) /\ pc'[r] = "idle"
  BY DEF Finish, Others, IInv, TypeOK
<1>2. AbsPhase(r)' = "idle" /\ AbsItem(r)' = NoPair
  BY <1>1 DEF AbsPhase, AbsItem
<1>. QED
  BY <1>1, <1>2, RefineOthers DEF Toggle!Rest, Finish, Toggle!NoItem, NoPair

LEMMA RefineCommit ==
    ASSUME IInv, NEW r \in Requests, Commit(r)
    PROVE  Toggle!Flip(r) \/ Toggle!Answer(r)
<1>1. Toggle!Rest(r, TRUE) /\ pc[r] = "commit" /\ AbsItem(r) = pair[r]
  BY RefineRest DEF Commit, AbsItem
<1>2. CASE wrote[r] = "none"
  BY <1>1, <1>2 DEF Commit, VisibleLikes, Toggle!Answer, AbsPhase
<1>3. CASE wrote[r] # "none"
  <2>1. AbsPhase(r) = "aiming"
    BY <1>1, <1>3 DEF AbsPhase
  <2>2. (pair[r] \in likes) # isLiked[r]
    BY <1>3 DEF IInv, TypeOK, AnswerOK, WrittenRow
  <2>3. likes' = IF isLiked[r] THEN likes \cup {pair[r]} ELSE likes \ {pair[r]}
    BY <1>3 DEF Commit, VisibleLikes, IInv, TypeOK, AnswerOK
  <2>. QED
    BY <1>1, <2>1, <2>2, <2>3 DEF Toggle!Flip
<1>. QED
  BY <1>2, <1>3

LEMMA RefineFail ==
    ASSUME IInv, NEW r \in Requests, Fail(r)
    PROVE  Toggle!Abort(r)
<1>1. Toggle!Rest(r, FALSE) /\ UNCHANGED likes
  BY RefineRest DEF Fail
<1>. QED
  BY <1>1 DEF Toggle!Abort

LEMMA RefineNext == IInv /\ [Next]_vars => [Toggle!AbsNext]_(Toggle!absVars)
<1>. SUFFICES ASSUME IInv, [Next]_vars
              PROVE  Toggle!AbsNext \/ UNCHANGED Toggle!absVars
  OBVIOUS
<1>. USE DEF Toggle!AbsNext
<1>1. ASSUME NEW r \in Requests, NEW u \in Users, NEW p \in Posts, GetPost(r, u, p)
      PROVE  UNCHANGED Toggle!absVars
  BY <1>1, RefineGetPost
<1>2. ASSUME NEW r \in Requests, Step(r)
      PROVE  Toggle!AbsNext \/ UNCHANGED Toggle!absVars
  BY <1>2, RefineExistsLike, RefineWrite, RefineCounting, RefineCommit DEF Step
<1>3. ASSUME NEW r \in Requests, Fail(r)
      PROVE  Toggle!AbsNext \/ UNCHANGED Toggle!absVars
  BY <1>3, RefineFail
<1>4. ASSUME NEW p \in Posts, DeletePost(p)
      PROVE  UNCHANGED Toggle!absVars
  BY <1>4 DEF DeletePost, requestVars, Toggle!absVars, AbsPhase, AbsItem
<1>5. CASE UNCHANGED vars
  BY <1>5 DEF vars, requestVars, Toggle!absVars, AbsPhase, AbsItem
<1>. QED
  BY <1>1, <1>2, <1>3, <1>4, <1>5 DEF Next

(* Every toggle either flips exactly its own row in one atomic step, or    *)
(* sees at one moment that the row is as it wants it, or fails without a   *)
(* trace, and it answers accordingly (toggle_like_post, like.py, uow.py).  *)
THEOREM LikeToggleImplementsSetToggle == Spec => ImplementsSetToggle
BY RefineInit, RefineNext, Invariance, PTL DEF Spec, ImplementsSetToggle, Toggle!AbsSpec

-----------------------------------------------------------------------------
(* The readers of details beside the toggles. *)

(* One user likes a post at most once: its likes are never more than the   *)
(* users, and fewer as soon as somebody does not like it. *)
LEMMA LikesOfUsers ==
    ASSUME TypeOK, NEW p, NEW u \in Users, <<u, p>> \notin likes
    PROVE  Cardinality(LikesOf(p)) < Cardinality(Users)
<1> DEFINE All == Users \X {p}
<1>1. IsFiniteSet({p}) /\ Cardinality({p}) = 1
  BY FS_Singleton
<1>2. IsFiniteSet(All) /\ Cardinality(All) = Cardinality(Users) * 1
  BY <1>1, UsersAssumption, FS_Product
<1>3. Cardinality(Users) \in Nat
  BY UsersAssumption, FS_CardinalityType
<1>4. LikesOf(p) \in SUBSET All /\ <<u, p>> \in All \ LikesOf(p)
  BY DEF LikesOf, TypeOK, Pairs
<1>5. IsFiniteSet(LikesOf(p)) /\ Cardinality(LikesOf(p)) < Cardinality(All)
  BY <1>2, <1>4, FS_Subset, FS_CardinalityType
<1>. QED
  BY <1>2, <1>3, <1>5

(* A post somebody likes has likes. *)
LEMMA LikesCounted ==
    ASSUME TypeOK, NEW p, NEW u, <<u, p>> \in likes
    PROVE  Cardinality(LikesOf(p)) > 0
<1>1. IsFiniteSet(LikesOf(p)) /\ Cardinality(LikesOf(p)) \in Nat
  BY LikesFinite DEF LikesOf, TypeOK
<1>2. LikesOf(p) # {}
  BY DEF LikesOf
<1>. QED
  BY <1>1, <1>2, FS_EmptySet

LEMMA InitDetailInv == DetailInit => DetailInv
BY InitIInv DEF DetailInit, DetailInv, DetailTypeOK, ShownCurrent, NoPair

(* The likes of a post that a read beside a step holds. *)
LEMMA BesideDetail ==
    ASSUME DetailInv, Beside
    PROVE  DetailInv'
<1>1. IInv'
  BY NextIInv DEF DetailInv, Beside
<1>2. /\ reading' = reading /\ shown' = shown
      /\ outdated' \in [Readers -> BOOLEAN]
      /\ \A d \in Readers : ~outdated'[d] =>
            /\ ~outdated[d]
            /\ reading[d] # NoPair => LikesOf(reading[d][2]) = LikesOf(reading[d][2])'
  BY DEF Beside, DetailInv, DetailTypeOK
<1>3. DetailTypeOK'
  BY <1>2 DEF DetailInv, DetailTypeOK
<1>4. ShownCurrent'
  BY <1>2 DEF DetailInv, ShownCurrent
<1>. QED
  BY <1>1, <1>3, <1>4 DEF DetailInv

(* Only the first statement of a read takes a count, which is that of the  *)
(* likes unless the counter has drifted. *)
LEMMA ReadPostDetail ==
    ASSUME DetailInv, NEW d \in Readers, NEW p \in Posts, ReadPost(d, p)
    PROVE  DetailInv'
<1>1. IInv'
  BY NextIInv DEF DetailInv, ReadPost
<1>2. DetailTypeOK'
  BY ReadersAssumption DEF DetailInv, DetailTypeOK, ReadPost, IInv, TypeOK, Pairs
<1>3. ShownCurrent'
  <2> SUFFICES ASSUME UseCounterCache, NEW e \in Readers, reading'[e] # NoPair, ~outdated'[e]
               PROVE  shown'[e] = Cardinality(LikesOf(reading[e][2]))'
    BY DEF ShownCurrent
  <2>1. LikesOf(reading[e][2])' = LikesOf(reading'[e][2])
    BY DEF ReadPost, LikesOf, vars
  <2>2. CASE e = d
    BY <2>1, <2>2 DEF DetailInv, DetailTypeOK, ReadPost, IInv, CountExactUnlessDrifted
  <2>3. CASE e # d
    BY <2>1, <2>3 DEF DetailInv, DetailTypeOK, ReadPost, ShownCurrent
  <2>. QED
    BY <2>2, <2>3
<1>. QED
  BY <1>1, <1>2, <1>3 DEF DetailInv

LEMMA ReadLikeDetail ==
    ASSUME DetailInv, NEW d \in Readers, ReadLike(d)
    PROVE  DetailInv'
<1>. USE DEF ReadLike, EndRead
<1>1. IInv'
  BY NextIInv DEF DetailInv
<1>2. DetailTypeOK'
  BY DEF DetailInv, DetailTypeOK
<1>3. ShownCurrent'
  BY DEF DetailInv, DetailTypeOK, ShownCurrent, vars, LikesOf
<1>. QED
  BY <1>1, <1>2, <1>3 DEF DetailInv

LEMMA NextDetailInv == DetailInv /\ [DetailNext]_detailVars => DetailInv'
<1>. SUFFICES ASSUME DetailInv, [DetailNext]_detailVars PROVE DetailInv'
  OBVIOUS
<1>1. CASE UNCHANGED detailVars
  <2>1. IInv' /\ UNCHANGED vars /\ UNCHANGED readerVars
    BY <1>1, NextIInv DEF DetailInv, detailVars
  <2>. QED
    BY <2>1 DEF DetailInv, DetailTypeOK, ShownCurrent, readerVars, vars, LikesOf
<1>. QED
  BY <1>1, BesideDetail, ReadPostDetail, ReadLikeDetail DEF DetailNext

(* A count that a detail holds between its two statements stays the number *)
(* of likes until a toggle of the post commits (read_post_by_id). *)
THEOREM DetailInvariance == DetailSpec => []DetailInv
BY InitDetailInv, NextDetailInv, PTL DEF DetailSpec

(* A detail contradicts itself only if a toggle of the post committed      *)
(* between its two statements, or the counter had drifted                  *)
(* (read_post_by_id). *)
THEOREM DetailsCoherent == DetailSpec => DetailCoherent
<1>1. ASSUME DetailInv, UseCounterCache, NEW d \in Readers, ReadLike(d), ~outdated[d]
      PROVE  Coherent(shown[d], LikedByMe(d))
  <2>1. PICK p \in Posts : reading[d] = <<d, p>>
    BY <1>1 DEF DetailInv, DetailTypeOK, ReadLike
  <2>2. shown[d] = Cardinality(LikesOf(p)) /\ d \in Users /\ TypeOK
    BY <2>1, <1>1, ReadersAssumption DEF DetailInv, ShownCurrent, ReadLike, IInv
  <2>. QED
    BY <2>1, <2>2, LikesOfUsers, LikesCounted DEF Coherent, LikedByMe
<1>2. DetailInv /\ [DetailNext]_detailVars =>
        [UseCounterCache =>
            \A d \in Readers :
                ReadLike(d) /\ ~outdated[d] => Coherent(shown[d], LikedByMe(d))]_detailVars
  BY <1>1
<1>. QED
  BY <1>2, DetailInvariance, PTL DEF DetailSpec, DetailCoherent
=============================================================================
