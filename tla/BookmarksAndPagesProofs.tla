----------------------- MODULE BookmarksAndPagesProofs -----------------------
(***************************************************************************)
(* The bookmark toggle implements SetToggle, for any requests, users and   *)
(* posts; the lists of posts, comments and bookmarks answer each row that  *)
(* stays, and once, as far as OFFSET can, for any rows and page size.      *)
(***************************************************************************)
EXTENDS Bookmarks, Pages, FiniteSetTheorems, TLAPS

LEMMA InitIInv == Init => IInv
  BY DEF Init, IInv, TypeOK, RowsHeld, NoPair

(* A request that ends without a change of the table. *)
LEMMA FinishIInv ==
    ASSUME IInv, NEW r \in Requests, NEW success \in BOOLEAN, Finish(r, success),
           UNCHANGED bookmarks
    PROVE  IInv'
<1>1. TypeOK'
  BY DEF IInv, TypeOK, Finish
<1>2. RowsHeld'
  BY DEF IInv, TypeOK, RowsHeld, Finish
<1>. QED
  BY <1>1, <1>2 DEF IInv

(* A commit changes the pair it holds, and no other transaction holds it. *)
LEMMA CommitIInv ==
    ASSUME IInv, NEW r \in Requests, Commit(r)
    PROVE  IInv'
<1>1. CASE wrote[r] = "none"
  <2>1. bookmarks' = bookmarks
    BY <1>1 DEF Commit
  <2>. QED
    BY <2>1, FinishIInv DEF Commit
<1>2. CASE wrote[r] # "none"
  <2>1. pair[r] \in Pairs
    BY DEF IInv, RowsHeld, Commit
  <2>2. \/ bookmarks' = bookmarks \cup {pair[r]}
        \/ bookmarks' = bookmarks \ {pair[r]}
    BY <1>2 DEF Commit, IInv, TypeOK
  <2>3. TypeOK'
    BY <2>1, <2>2 DEF IInv, TypeOK, Commit, Finish
  <2>4. \A s \in Requests \ {r} : wrote[s] # "none" => pair[s] # pair[r]
    BY <1>2 DEF IInv, RowsHeld
  <2>5. RowsHeld'
    BY <2>2, <2>4 DEF IInv, TypeOK, RowsHeld, Commit, Finish
  <2>. QED
    BY <2>3, <2>5 DEF IInv
<1>. QED
  BY <1>1, <1>2

LEMMA StepIInv == IInv /\ [Next]_vars => IInv'
<1>. SUFFICES ASSUME IInv, [Next]_vars PROVE IInv'
  OBVIOUS
<1>1. ASSUME NEW r \in Requests, NEW u \in Users, NEW p \in Posts, PostExists(r, u, p)
      PROVE  IInv'
  <2>1. <<u, p>> \in Pairs
    BY DEF Pairs
  <2>. QED
    BY <1>1, <2>1 DEF PostExists, IInv, TypeOK, RowsHeld
<1>2. ASSUME NEW r \in Requests, BookmarkExists(r) PROVE IInv'
  BY <1>2 DEF BookmarkExists, IInv, TypeOK, RowsHeld
<1>3. ASSUME NEW r \in Requests, Regist(r) PROVE IInv'
  BY <1>3 DEF Regist, RowLocked, IInv, TypeOK, RowsHeld
<1>4. ASSUME NEW r \in Requests, Remove(r) PROVE IInv'
  BY <1>4 DEF Remove, RowLocked, IInv, TypeOK, RowsHeld
<1>5. ASSUME NEW r \in Requests, Commit(r) PROVE IInv'
  BY <1>5, CommitIInv
<1>6. ASSUME NEW r \in Requests, Fail(r) PROVE IInv'
  BY <1>6, FinishIInv DEF Fail
<1>7. ASSUME NEW p \in Posts, CreatePost(p) PROVE IInv'
  BY <1>7 DEF CreatePost, IInv, TypeOK, RowsHeld
<1>8. CASE UNCHANGED vars
  BY <1>8 DEF vars, IInv, TypeOK, RowsHeld
<1>. QED
  BY <1>1, <1>2, <1>3, <1>4, <1>5, <1>6, <1>7, <1>8 DEF Next, Step

(* An open transaction holds its pair alone. *)
THEOREM Invariance == Spec => []IInv
  BY InitIInv, StepIInv, PTL DEF Spec

-----------------------------------------------------------------------------
LEMMA RefineInit == Init => Toggle!AbsInit
<1>. SUFFICES ASSUME Init PROVE Toggle!AbsInit
  OBVIOUS
<1>1. \A r \in Requests : pc[r] = "idle"
  BY DEF Init
<1>. QED
  BY <1>1 DEF Init, Toggle!AbsInit, AbsPhase, AbsItem, Toggle!NoItem, NoPair, Pairs

(* The other requests keep their abstract phase and item. *)
Others(r) ==
    \A s \in Requests \ {r} : pc'[s] = pc[s] /\ pair'[s] = pair[s] /\ wrote'[s] = wrote[s]

LEMMA RefineOthers ==
    ASSUME NEW r \in Requests, Others(r)
    PROVE  /\ [s \in Requests |-> AbsPhase(s)]'
                = [[s \in Requests |-> AbsPhase(s)] EXCEPT ![r] = AbsPhase(r)']
           /\ [s \in Requests |-> AbsItem(s)]'
                = [[s \in Requests |-> AbsItem(s)] EXCEPT ![r] = AbsItem(r)']
<1>1. \A s \in Requests \ {r} : AbsPhase(s)' = AbsPhase(s) /\ AbsItem(s)' = AbsItem(s)
  BY DEF Others, AbsPhase, AbsItem
<1>. QED
  BY <1>1

(* The look at the post is before SetToggle's request begins. *)
LEMMA RefinePostExists ==
    ASSUME IInv, NEW r \in Requests, NEW u \in Users, NEW p \in Posts, PostExists(r, u, p)
    PROVE  UNCHANGED Toggle!absVars
<1>1. \A s \in Requests : AbsPhase(s)' = AbsPhase(s) /\ AbsItem(s)' = AbsItem(s)
  BY DEF PostExists, IInv, TypeOK, AbsPhase, AbsItem
<1>. QED
  BY <1>1 DEF PostExists, Toggle!absVars

LEMMA RefineBookmarkExists ==
    ASSUME IInv, NEW r \in Requests, BookmarkExists(r)
    PROVE  pair[r] \in Pairs /\ Toggle!Look(r, pair[r])
<1>1. Others(r)
  BY DEF BookmarkExists, Others, IInv, TypeOK
<1>2. pc[r] = "exists" /\ pc'[r] = "write" /\ pair'[r] = pair[r] /\ pair[r] \in Pairs
  BY DEF BookmarkExists, IInv, TypeOK, RowsHeld
<1>3. AbsPhase(r) = "idle" /\ AbsPhase(r)' = "aiming" /\ AbsItem(r)' = pair[r]
  BY <1>2 DEF AbsPhase, AbsItem
<1>. QED
  BY <1>1, <1>2, <1>3, RefineOthers DEF Toggle!Look, BookmarkExists

(* The statement that writes the row, or finds it as it wants it. *)
LEMMA RefineWrite ==
    ASSUME IInv, NEW r \in Requests, Regist(r) \/ Remove(r)
    PROVE  Toggle!Agree(r) \/ UNCHANGED Toggle!absVars
<1>1. Others(r) /\ UNCHANGED <<bookmarks, adds, pair, served>>
  BY DEF Regist, Remove, Others, IInv, TypeOK
<1>2. pc[r] = "write" /\ pc'[r] = "commit"
  BY DEF Regist, Remove, IInv, TypeOK
<1>3. AbsPhase(r) = "aiming" /\ AbsItem(r) = pair[r] /\ AbsItem(r)' = pair[r]
  BY <1>1, <1>2 DEF AbsPhase, AbsItem
<1>4. [s \in Requests |-> AbsItem(s)]' = [s \in Requests |-> AbsItem(s)]
  BY <1>1, <1>3, RefineOthers
<1>5. CASE wrote'[r] # "none"
  <2>1. AbsPhase(r)' = "aiming"
    BY <1>2, <1>5 DEF AbsPhase
  <2>2. [s \in Requests |-> AbsPhase(s)]' = [s \in Requests |-> AbsPhase(s)]
    BY <1>1, <1>3, <2>1, RefineOthers
  <2>. QED
    BY <1>1, <1>4, <2>2 DEF Toggle!absVars
<1>6. CASE wrote'[r] = "none"
  <2>1. AbsPhase(r)' = "agreed"
    BY <1>2, <1>6 DEF AbsPhase
  <2>2. (pair[r] \in bookmarks) = adds[r]
    BY <1>6 DEF Regist, Remove, IInv, TypeOK
  <2>. QED
    BY <1>1, <1>3, <1>4, <2>1, <2>2, RefineOthers DEF Toggle!Agree
<1>. QED
  BY <1>5, <1>6

LEMMA RefineRest ==
    ASSUME IInv, NEW r \in Requests, NEW success \in BOOLEAN, Finish(r, success)
    PROVE  Toggle!Rest(r, success)
<1>1. Others(r) /\ pc'[r] = "idle"
  BY DEF Finish, Others, IInv, TypeOK
<1>2. AbsPhase(r)' = "idle" /\ AbsItem(r)' = NoPair
  BY <1>1 DEF AbsPhase, AbsItem
<1>. QED
  BY <1>1, <1>2, RefineOthers DEF Toggle!Rest, Finish, Toggle!NoItem, NoPair

LEMMA RefineCommit ==
    ASSUME IInv, NEW r \in Requests, Commit(r)
    PROVE  Toggle!Flip(r) \/ Toggle!Answer(r)
<1>1. Toggle!Rest(r, TRUE) /\ pc[r] = "commit" /\ AbsItem(r) = pair[r]
  BY RefineRest DEF Commit, AbsItem
<1>2. CASE wrote[r] = "none"
  BY <1>1, <1>2 DEF Commit, Toggle!Answer, AbsPhase
<1>3. CASE wrote[r] # "none"
  <2>1. AbsPhase(r) = "aiming"
    BY <1>1, <1>3 DEF AbsPhase
  <2>2. (pair[r] \in bookmarks) # adds[r]
    BY <1>3 DEF IInv, TypeOK, RowsHeld
  <2>3. bookmarks' = IF adds[r] THEN bookmarks \cup {pair[r]} ELSE bookmarks \ {pair[r]}
    BY <1>3 DEF Commit, IInv, TypeOK, RowsHeld
  <2>. QED
    BY <1>1, <2>1, <2>2, <2>3 DEF Toggle!Flip
<1>. QED
  BY <1>2, <1>3

LEMMA RefineFail ==
    ASSUME IInv, NEW r \in Requests, Fail(r)
    PROVE  Toggle!Abort(r)
<1>1. Toggle!Rest(r, FALSE) /\ UNCHANGED bookmarks
  BY RefineRest DEF Fail
<1>. QED
  BY <1>1 DEF Toggle!Abort

LEMMA RefineNext == IInv /\ [Next]_vars => [Toggle!AbsNext]_(Toggle!absVars)
<1>. SUFFICES ASSUME IInv, [Next]_vars
              PROVE  Toggle!AbsNext \/ UNCHANGED Toggle!absVars
  OBVIOUS
<1>. USE DEF Toggle!AbsNext
<1>1. ASSUME NEW r \in Requests, NEW u \in Users, NEW p \in Posts, PostExists(r, u, p)
      PROVE  UNCHANGED Toggle!absVars
  BY <1>1, RefinePostExists
<1>2. ASSUME NEW r \in Requests, Step(r)
      PROVE  Toggle!AbsNext \/ UNCHANGED Toggle!absVars
  BY <1>2, RefineBookmarkExists, RefineWrite, RefineCommit DEF Step
<1>3. ASSUME NEW r \in Requests, Fail(r)
      PROVE  Toggle!AbsNext \/ UNCHANGED Toggle!absVars
  BY <1>3, RefineFail
<1>4. ASSUME NEW p \in Posts, CreatePost(p)
      PROVE  UNCHANGED Toggle!absVars
  BY <1>4 DEF CreatePost, Toggle!absVars, AbsPhase, AbsItem
<1>5. CASE UNCHANGED vars
  BY <1>5 DEF vars, Toggle!absVars, AbsPhase, AbsItem
<1>. QED
  BY <1>1, <1>2, <1>3, <1>4, <1>5 DEF Next

(* Every bookmark toggle either flips exactly its own row in one atomic    *)
(* step, or sees at one moment that the row is as it wants it, or fails    *)
(* without a trace, and is answered accordingly (toggle_bookmark_to_post). *)
THEOREM BookmarksImplementSetToggle == Spec => ImplementsSetToggle
  BY RefineInit, RefineNext, Invariance, PTL DEF Spec, ImplementsSetToggle, Toggle!AbsSpec

-----------------------------------------------------------------------------
(* A set of rows has a size, and a larger one is not smaller. *)
LEMMA Sizes ==
    /\ \A S \in SUBSET Rows : IsFiniteSet(S) /\ Cardinality(S) \in Nat
    /\ \A S \in SUBSET Rows : \A T \in SUBSET S : Cardinality(T) <= Cardinality(S)
<1>1. \A S \in SUBSET Rows : IsFiniteSet(S)
  BY RowsAssumption, FS_Subset
<1>2. \A S \in SUBSET Rows : Cardinality(S) \in Nat
  BY <1>1, FS_CardinalityType
<1>3. ASSUME NEW S \in SUBSET Rows, NEW T \in SUBSET S
      PROVE  Cardinality(T) <= Cardinality(S)
  BY <1>1, FS_Subset
<1>. QED
  BY <1>1, <1>2, <1>3

LEMMA SmallerWithout ==
    ASSUME NEW S \in SUBSET Rows, NEW x \in S, NEW T \in SUBSET (S \ {x})
    PROVE  Cardinality(T) < Cardinality(S)
<1>1. Cardinality(S \ {x}) = Cardinality(S) - 1
  BY Sizes, FS_RemoveElement
<1>2. Cardinality(T) <= Cardinality(S \ {x})
  BY Sizes
<1>. QED
  BY <1>1, <1>2, Sizes

LEMMA DisjointUnion ==
    ASSUME NEW S \in SUBSET Rows, NEW T \in SUBSET Rows, S \cap T = {}
    PROVE  Cardinality(S \cup T) = Cardinality(S) + Cardinality(T)
<1>1. IsFiniteSet(S) /\ IsFiniteSet(T) /\ Cardinality(S) \in Nat /\ Cardinality(T) \in Nat
  BY Sizes
<1>2. Cardinality(S \cup T)
        = Cardinality(S) + Cardinality(T) - Cardinality(S \cap T)
  BY <1>1, FS_Union
<1>3. Cardinality(S \cap T) = 0
  BY FS_EmptySet
<1>. QED
  BY <1>1, <1>2, <1>3

-----------------------------------------------------------------------------
(* ORDER BY created_at leaves open only the order of rows that tie. *)
LEMMA SoonerOrder ==
    ASSUME ListTypeOK
    PROVE  /\ \A x \in Rows : ~Sooner(x, x)
           /\ \A x, y \in Rows : Sooner(x, y) => ~Sooner(y, x)
           /\ \A x \in Committed \ Tied : \A y \in Committed \ {x} : Sooner(x, y) \/ Sooner(y, x)
<1>1. \A x \in Rows : created[x] \in Nat
  BY TimeAssumption DEF ListTypeOK
<1>2. \A x \in Committed \ Tied : \A y \in Committed \ {x} : created[x] # created[y]
  BY DEF Tied
<1>3. Committed \subseteq Rows
  BY DEF Committed
<1>. QED
  BY <1>1, <1>2, <1>3 DEF Sooner

(* Rows that are committed keep created_at: ties and the order stay. *)
RowsKept ==
    /\ list' = list
    /\ \A x \in Committed : x \in Committed' /\ created'[x] = created[x]

LEMMA RowsKeptOrder ==
    ASSUME RowsKept
    PROVE  /\ Tied \subseteq Tied'
           /\ \A x, y \in Committed : Sooner(x, y)' = Sooner(x, y)
BY DEF RowsKept, Tied, Sooner

(* What a page is, with the rows that OFFSET skips. *)
IsPage(page, skipped) ==
    /\ page \in SUBSET In
    /\ skipped \in SUBSET (In \ page)
    /\ Cardinality(skipped) = AtMost(offset, Cardinality(In))
    /\ Cardinality(page) = AtMost(Limit, Cardinality(In) - Cardinality(skipped))
    /\ \A x \in skipped, y \in In \ skipped : ~Sooner(y, x)
    /\ \A x \in page, y \in In \ (skipped \cup page) : ~Sooner(y, x)

(* A skipped row has only skipped rows ahead of it; one on the page only   *)
(* rows that are skipped or on the page, and all the skipped ones if it    *)
(* has no tie; one that follows all of these. *)
LEMMA PlaceOfRow ==
    ASSUME ListTypeOK, NEW page, NEW skipped, IsPage(page, skipped), NEW x \in In
    PROVE  /\ x \in skipped => Ahead(x) \subseteq skipped \ {x}
           /\ x \in page => Ahead(x) \subseteq (skipped \cup page) \ {x}
           /\ x \in page \ Tied => skipped \subseteq Ahead(x)
           /\ x \notin skipped \cup page \cup Tied => skipped \cup page \subseteq Ahead(x)
<1>1. In \subseteq Committed /\ In \subseteq Rows
  BY DEF In, Committed
<1>2. x \notin Ahead(x)
  BY <1>1, SoonerOrder DEF Ahead
<1>3. ASSUME x \in skipped PROVE Ahead(x) \subseteq skipped \ {x}
  BY <1>2, <1>3 DEF IsPage, Ahead
<1>4. ASSUME x \in page PROVE Ahead(x) \subseteq (skipped \cup page) \ {x}
  BY <1>2, <1>4 DEF IsPage, Ahead
<1>5. ASSUME x \notin Tied, NEW y \in In, y # x, ~Sooner(x, y) PROVE y \in Ahead(x)
  BY <1>1, <1>5, SoonerOrder DEF Ahead
<1>6. ASSUME x \in page \ Tied PROVE skipped \subseteq Ahead(x)
  BY <1>5, <1>6 DEF IsPage
<1>7. ASSUME x \notin skipped \cup page \cup Tied PROVE skipped \cup page \subseteq Ahead(x)
  BY <1>5, <1>7 DEF IsPage
<1>. QED
  BY <1>3, <1>4, <1>6, <1>7

(* The sizes of a page and of what it skips. *)
LEMMA PageSizes ==
    ASSUME ListTypeOK, NEW page, NEW skipped, IsPage(page, skipped)
    PROVE  /\ Cardinality(page) \in Nat /\ Cardinality(skipped) \in Nat
           /\ Cardinality(page) <= Limit /\ Cardinality(skipped) <= offset
           /\ Cardinality(skipped \cup page) = Cardinality(skipped) + Cardinality(page)
           /\ page # {} => Cardinality(skipped) = offset
           /\ Cardinality(page) < Limit => skipped \cup page = In
<1>. DEFINE n == Cardinality(In)
<1>1. In \subseteq Rows /\ page \subseteq In /\ skipped \subseteq In /\ skipped \cap page = {}
  BY DEF In, IsPage
<1>2. n \in Nat /\ Cardinality(page) \in Nat /\ Cardinality(skipped) \in Nat
  BY <1>1, Sizes
<1>3. Cardinality(skipped \cup page) = Cardinality(skipped) + Cardinality(page)
  BY <1>1, DisjointUnion
<1>4. Cardinality(skipped) = AtMost(offset, n)
      /\ Cardinality(page) = AtMost(Limit, n - Cardinality(skipped))
  BY DEF IsPage
<1>5. offset \in Nat /\ Limit \in Nat
  BY LimitAssumption DEF ListTypeOK
<1>. HIDE DEF n
<1>6. Cardinality(page) <= Limit /\ Cardinality(skipped) <= offset
  BY <1>2, <1>4, <1>5 DEF AtMost
<1>7. ASSUME page # {} PROVE Cardinality(skipped) = offset
  <2>1. Cardinality(page) > 0
    BY <1>1, <1>2, <1>7, Sizes, FS_EmptySet
  <2>. QED
    BY <2>1, <1>2, <1>4, <1>5 DEF AtMost
<1>8. ASSUME Cardinality(page) < Limit PROVE skipped \cup page = In
  <2>1. Cardinality(skipped \cup page) = n
    BY <1>2, <1>3, <1>4, <1>5, <1>8 DEF AtMost
  <2>2. IsFiniteSet(In) /\ skipped \cup page \in SUBSET In
    BY <1>1, Sizes
  <2>. QED
    BY <2>1, <2>2, FS_Subset DEF n
<1>. QED
  BY <1>2, <1>3, <1>6, <1>7, <1>8

-----------------------------------------------------------------------------
LEMMA InitListInv == ListInit => ListInv
<1>. SUFFICES ASSUME ListInit PROVE ListInv
  OBVIOUS
<1>1. ListTypeOK
  BY TimeAssumption DEF ListInit, ListTypeOK, Committed
<1>. QED
  BY <1>1 DEF ListInit, ListInv, OffsetDivides, SkippedOnlyIfOneLeft, RepeatedOnlyIfOneEntered

(* Steps that leave the list as it is and the reader alone. *)
LEMMA QuietStep ==
    ASSUME ListInv, ListTypeOK', RowsKept, In' = In, UNCHANGED <<reader, offset, history>>
    PROVE  ListInv'
<1>1. Tied \subseteq Tied' /\ \A x, y \in Committed : Sooner(x, y)' = Sooner(x, y)
  BY RowsKeptOrder
<1>2. In \subseteq Committed
  BY DEF In, Committed
<1>3. \A x \in Committed : Ahead(x)' = Ahead(x)
  BY <1>1, <1>2 DEF Ahead
<1>4. OffsetDivides'
  BY <1>1, <1>2, <1>3 DEF ListInv, ListTypeOK, OffsetDivides, history
<1>5. SkippedOnlyIfOneLeft' /\ RepeatedOnlyIfOneEntered'
  BY <1>1 DEF ListInv, SkippedOnlyIfOneLeft, RepeatedOnlyIfOneEntered, history
<1>. QED
  BY <1>4, <1>5 DEF ListInv

LEMMA TickListInv == ListInv /\ Tick => ListInv'
<1>. SUFFICES ASSUME ListInv, Tick PROVE ListInv'
  OBVIOUS
<1>1. RowsKept /\ In' = In /\ Committed' = Committed
  BY DEF Tick, RowsKept, In, Committed
<1>2. ListTypeOK'
  BY <1>1, TimeAssumption DEF Tick, ListInv, ListTypeOK, history
<1>. QED
  BY <1>1, <1>2, QuietStep DEF Tick

LEMMA BeginListInv == ASSUME ListInv, NEW x \in Rows, Begin(x) \/ Rollback(x) PROVE ListInv'
<1>1. RowsKept /\ In' = In /\ Committed' = Committed
  BY DEF Begin, Rollback, RowsKept, In, Committed, ListInv, ListTypeOK
<1>2. ListTypeOK'
  BY <1>1, TimeAssumption DEF Begin, Rollback, CreatedNow, ListInv, ListTypeOK, history
<1>. QED
  BY <1>1, <1>2, QuietStep DEF Begin, Rollback

(* A row that is not behind x keeps the same rows ahead of it when x       *)
(* enters or leaves. *)
LEMMA NotBehind ==
    ASSUME ListTypeOK, NEW x \in Rows, NEW z \in Committed \ Behind(x), RowsKept,
           In' = In \cup {x} \/ In' = In \ {x}, Committed \cup {x} \subseteq Committed',
           created' = created
    PROVE  Ahead(z)' = Ahead(z)
<1>1. \A y \in Rows : Sooner(y, z)' = Sooner(y, z)
  BY DEF Sooner, RowsKept
<1>2. ~Sooner(x, z)
  BY SoonerOrder DEF Behind, Committed
<1>. QED
  BY <1>1, <1>2 DEF Ahead, In

LEMMA EnterListInv == ASSUME ListInv, NEW x \in Rows, Enter(x) PROVE ListInv'
<1>. USE DEF ListInv
<1>1. /\ In' = In \cup {x} /\ Committed' = Committed \cup {x} /\ created' = created
      /\ RowsKept
  BY DEF Enter, In, Committed, RowsKept, ListTypeOK
<1>2. ListTypeOK'
  BY <1>1 DEF Enter, ListTypeOK
<1>3. Tied \subseteq Tied' /\ \A y, z \in Committed : Sooner(y, z)' = Sooner(y, z)
  BY <1>1, RowsKeptOrder
<1>4. enteredAhead \subseteq enteredAhead'
  BY DEF Enter
<1>5. SkippedOnlyIfOneLeft' /\ RepeatedOnlyIfOneEntered'
  BY <1>3, <1>4 DEF Enter, SkippedOnlyIfOneLeft, RepeatedOnlyIfOneEntered
<1>6. ASSUME reader = "reading",
             NEW z \in staying' \ (answered' \cup leftAhead' \cup Tied')
      PROVE  Cardinality(Ahead(z)') >= offset'
  <2>1. z \in Committed /\ Cardinality(Ahead(z)) >= offset
    BY <1>3, <1>6 DEF Enter, OffsetDivides, ListTypeOK
  <2>2. Ahead(z) \subseteq Ahead(z)'
    BY <1>1 DEF Ahead, Sooner, Enter
  <2>3. Ahead(z)' \subseteq Rows
    BY DEF Ahead, In
  <2>. QED
    BY <2>1, <2>2, <2>3, Sizes DEF Enter, ListTypeOK
<1>7. ASSUME reader = "reading", NEW z \in answered' \ (enteredAhead' \cup Tied')
      PROVE  Cardinality(Ahead(z)') < offset'
  <2>1. z \in Committed /\ Cardinality(Ahead(z)) < offset
    BY <1>3, <1>4, <1>7 DEF Enter, OffsetDivides, ListTypeOK
  <2>2. z \notin Behind(x)
    BY <1>7 DEF Enter
  <2>3. Ahead(z)' = Ahead(z)
    BY <1>1, <2>1, <2>2, NotBehind
  <2>. QED
    BY <2>1, <2>3 DEF Enter
<1>8. OffsetDivides'
  BY <1>1, <1>6, <1>7 DEF Enter, OffsetDivides
<1>. QED
  BY <1>2, <1>5, <1>8

LEMMA LeaveListInv == ASSUME ListInv, NEW x \in Rows, Leave(x) PROVE ListInv'
<1>. USE DEF ListInv
<1>1. /\ In' = In \ {x} /\ Committed' = Committed /\ x \in Committed /\ created' = created
      /\ RowsKept
  BY DEF Leave, In, Committed, RowsKept, ListTypeOK
<1>2. ListTypeOK'
  BY <1>1 DEF Leave, ListTypeOK
<1>3. Tied \subseteq Tied' /\ \A y, z \in Committed : Sooner(y, z)' = Sooner(y, z)
  BY <1>1, RowsKeptOrder
<1>4. leftAhead \subseteq leftAhead' /\ staying' \subseteq staying
  BY DEF Leave
<1>5. SkippedOnlyIfOneLeft' /\ RepeatedOnlyIfOneEntered'
  BY <1>3, <1>4 DEF Leave, SkippedOnlyIfOneLeft, RepeatedOnlyIfOneEntered
<1>6. ASSUME reader = "reading",
             NEW z \in staying' \ (answered' \cup leftAhead' \cup Tied')
      PROVE  Cardinality(Ahead(z)') >= offset'
  <2>1. z \in Committed /\ Cardinality(Ahead(z)) >= offset
    BY <1>3, <1>4, <1>6 DEF Leave, OffsetDivides, ListTypeOK
  <2>2. z \notin Behind(x)
    BY <1>6 DEF Leave
  <2>3. Ahead(z)' = Ahead(z)
    BY <1>1, <2>1, <2>2, NotBehind
  <2>. QED
    BY <2>1, <2>3 DEF Leave
<1>7. ASSUME reader = "reading", NEW z \in answered' \ (enteredAhead' \cup Tied')
      PROVE  Cardinality(Ahead(z)') < offset'
  <2>1. z \in Committed /\ Cardinality(Ahead(z)) < offset
    BY <1>3, <1>7 DEF Leave, OffsetDivides, ListTypeOK
  <2>2. Ahead(z)' \subseteq Ahead(z)
    BY <1>1 DEF Ahead, Sooner, Leave
  <2>3. Ahead(z) \subseteq Rows
    BY DEF Ahead, In
  <2>. QED
    BY <2>1, <2>2, <2>3, Sizes DEF Leave, ListTypeOK
<1>8. OffsetDivides'
  <2>1. reader = "reading" => staying' \subseteq In'
    BY <1>1 DEF Leave, OffsetDivides
  <2>. QED
    BY <2>1, <1>6, <1>7 DEF Leave, OffsetDivides
<1>. QED
  BY <1>2, <1>5, <1>8

LEMMA StartListInv == ListInv /\ StartRead => ListInv'
<1>. SUFFICES ASSUME ListInv, StartRead PROVE ListInv'
  OBVIOUS
<1>1. In' = In /\ Committed' = Committed /\ In \subseteq Committed
  BY DEF StartRead, rowVars, In, Committed
<1>2. ListTypeOK'
  BY <1>1 DEF StartRead, rowVars, ListInv, ListTypeOK
<1>3. \A z \in Rows : Cardinality(Ahead(z)') >= 0
  BY Sizes DEF Ahead, In
<1>4. OffsetDivides'
  BY <1>1, <1>3 DEF StartRead, OffsetDivides, In
<1>. QED
  BY <1>2, <1>4
  DEF StartRead, ListInv, SkippedOnlyIfOneLeft, RepeatedOnlyIfOneEntered

(* A page moves every row without a tie to its side of the offset; a row   *)
(* that has fewer rows ahead of it than were skipped is on no later page,  *)
(* and a short page leaves none behind. *)
LEMMA ReadListInv == ListInv /\ ReadPage => ListInv'
<1>. SUFFICES ASSUME ListInv, ReadPage PROVE ListInv'
  OBVIOUS
<1>. USE DEF ListInv
<1>1. PICK page \in PagesAt(offset) :
          /\ answered' = answered \cup page
          /\ repeated' = repeated \cup (answered \cap page)
          /\ IF Cardinality(page) < Limit
             THEN reader' = "done" /\ UNCHANGED offset
             ELSE offset' = offset + Limit /\ UNCHANGED reader
  BY DEF ReadPage
<1>2. PICK skipped : IsPage(page, skipped)
  BY DEF PagesAt, IsPage
<1>3. /\ UNCHANGED <<list, now, state, created>> /\ In' = In /\ Committed' = Committed
      /\ Tied' = Tied /\ \A z \in Rows : Ahead(z)' = Ahead(z)
      /\ UNCHANGED <<staying, leftAhead, enteredAhead>> /\ reader = "reading"
  BY DEF ReadPage, rowVars, In, Committed, Tied, Ahead, Sooner
<1>4. /\ page \subseteq In /\ skipped \subseteq In /\ skipped \cap page = {}
      /\ In \subseteq Committed /\ In \subseteq Rows /\ Limit \in Nat \ {0} /\ offset \in Nat
      /\ staying \subseteq In
  BY <1>2, <1>3, LimitAssumption DEF IsPage, In, Committed, ListTypeOK, OffsetDivides
<1>5. ListTypeOK'
  BY <1>1, <1>3, <1>4 DEF ListTypeOK
<1>6. \A z \in In : Cardinality(Ahead(z)) \in Nat /\ Ahead(z) \subseteq Rows
  BY Sizes DEF Ahead, In
<1>7. /\ Cardinality(page) \in Nat /\ Cardinality(skipped) \in Nat
      /\ Cardinality(page) <= Limit /\ Cardinality(skipped) <= offset
      /\ Cardinality(skipped \cup page) = Cardinality(skipped) + Cardinality(page)
      /\ page # {} => Cardinality(skipped) = offset
      /\ Cardinality(page) < Limit => skipped \cup page = In
  BY <1>2, PageSizes
<1>8. ASSUME NEW z \in skipped PROVE Cardinality(Ahead(z)) < offset
  <2>1. Ahead(z) \subseteq skipped \ {z}
    BY <1>2, <1>4, <1>8, PlaceOfRow
  <2>2. Cardinality(Ahead(z)) < Cardinality(skipped)
    BY <1>4, <2>1, SmallerWithout
  <2>. QED
    BY <2>2, <1>4, <1>6, <1>7
<1>9. ASSUME NEW z \in staying \ (answered' \cup leftAhead \cup Tied) PROVE z \notin skipped
  <2>1. Cardinality(Ahead(z)) >= offset
    BY <1>1, <1>3, <1>9 DEF OffsetDivides
  <2>. QED
    BY <2>1, <1>4, <1>6, <1>8
<1>10. ASSUME NEW z \in page PROVE Cardinality(Ahead(z)) < offset + Limit
  <2>1. Ahead(z) \subseteq (skipped \cup page) \ {z}
    BY <1>2, <1>4, <1>10, PlaceOfRow
  <2>2. Cardinality(Ahead(z)) < Cardinality(skipped \cup page)
    BY <1>4, <2>1, SmallerWithout
  <2>. QED
    BY <2>2, <1>4, <1>6, <1>7
<1>11. ASSUME NEW z \in page \cap answered PROVE z \in enteredAhead \cup Tied
  <2>. SUFFICES ASSUME z \notin enteredAhead \cup Tied PROVE FALSE
    OBVIOUS
  <2>1. Cardinality(Ahead(z)) < offset
    BY <1>3 DEF OffsetDivides
  <2>2. skipped \subseteq Ahead(z)
    BY <1>2, <1>4, PlaceOfRow
  <2>3. Cardinality(skipped) <= Cardinality(Ahead(z)) /\ Cardinality(skipped) = offset
    BY <2>2, <1>4, <1>6, <1>7, Sizes
  <2>. QED
    BY <2>1, <2>3, <1>4, <1>6
<1>12. RepeatedOnlyIfOneEntered'
  BY <1>1, <1>3, <1>11 DEF RepeatedOnlyIfOneEntered
<1>13. CASE Cardinality(page) < Limit
  <2>1. reader' = "done" /\ skipped \cup page = In
    BY <1>1, <1>13, <1>7
  <2>2. SkippedOnlyIfOneLeft'
    BY <2>1, <1>1, <1>3, <1>4, <1>9 DEF SkippedOnlyIfOneLeft
  <2>3. OffsetDivides'
    BY <2>1 DEF OffsetDivides
  <2>. QED
    BY <2>2, <2>3, <1>5, <1>12
<1>14. CASE ~(Cardinality(page) < Limit)
  <2>1. offset' = offset + Limit /\ reader' = "reading"
    BY <1>1, <1>3, <1>14
  <2>2. Cardinality(page) = Limit /\ page # {}
    BY <1>4, <1>14, <1>7, FS_EmptySet
  <2>3. Cardinality(skipped \cup page) = offset + Limit
    BY <2>2, <1>7
  <2>4. ASSUME NEW z \in staying' \ (answered' \cup leftAhead' \cup Tied')
        PROVE  Cardinality(Ahead(z)') >= offset'
    <3>1. z \in In /\ z \notin skipped \cup page \cup Tied
      BY <1>1, <1>3, <1>4, <1>9, <2>4
    <3>2. skipped \cup page \subseteq Ahead(z)
      BY <3>1, <1>2, PlaceOfRow
    <3>3. Cardinality(Ahead(z)) >= Cardinality(skipped \cup page)
      BY <3>1, <3>2, <1>6, <1>4, Sizes
    <3>. QED
      BY <3>1, <3>3, <2>1, <2>3, <1>3, <1>4
  <2>5. ASSUME NEW z \in answered' \ (enteredAhead' \cup Tied')
        PROVE  Cardinality(Ahead(z)') < offset'
    <3>1. z \in Rows
      BY <1>1, <1>4, <2>5 DEF ListTypeOK, Committed
    <3>2. Cardinality(Ahead(z)) \in Nat
      BY Sizes DEF Ahead, In
    <3>3. z \notin page => Cardinality(Ahead(z)) < offset
      BY <1>1, <1>3, <2>5 DEF OffsetDivides
    <3>. QED
      BY <3>1, <3>2, <3>3, <2>1, <1>3, <1>4, <1>10
  <2>6. OffsetDivides'
    BY <2>4, <2>5, <1>3, <1>4 DEF OffsetDivides
  <2>7. SkippedOnlyIfOneLeft'
    BY <2>1 DEF SkippedOnlyIfOneLeft
  <2>. QED
    BY <2>6, <2>7, <1>5, <1>12
<1>. QED
  BY <1>13, <1>14

LEMMA StepListInv == ListInv /\ [ListNext]_listVars => ListInv'
<1>. SUFFICES ASSUME ListInv, [ListNext]_listVars PROVE ListInv'
  OBVIOUS
<1>1. CASE UNCHANGED listVars
  <2>1. RowsKept /\ In' = In /\ Committed' = Committed
    BY <1>1 DEF listVars, rowVars, RowsKept, In, Committed
  <2>2. ListTypeOK'
    BY <1>1, <2>1 DEF listVars, rowVars, history, ListInv, ListTypeOK
  <2>. QED
    BY <1>1, <2>1, <2>2, QuietStep DEF listVars
<1>. QED
  BY <1>1, TickListInv, BeginListInv, EnterListInv, LeaveListInv, StartListInv, ReadListInv
  DEF ListNext

(* The offset divides the list: rows without a tie that are still to come  *)
(* have at least offset rows ahead of them, those that have come fewer,    *)
(* unless one ahead of them left or entered. *)
THEOREM ListInvariance == ListSpec => []ListInv
  BY InitListInv, StepListInv, PTL DEF ListSpec

(* get_posts_list, get_comments, list_by_user: whatever the page size and  *)
(* however many rows come and go, a row that stays is skipped only if one  *)
(* ahead of it left, or if its created_at ties. *)
THEOREM NoneSkipped == ListSpec => []SkippedOnlyIfOneLeft
<1>1. ListInv => SkippedOnlyIfOneLeft
  BY DEF ListInv
<1>. QED
  BY <1>1, ListInvariance, PTL

(* ... and comes twice only if one entered ahead of it, or if its          *)
(* created_at ties. *)
THEOREM NoneRepeated == ListSpec => []RepeatedOnlyIfOneEntered
<1>1. ListInv => RepeatedOnlyIfOneEntered
  BY DEF ListInv
<1>. QED
  BY <1>1, ListInvariance, PTL
=============================================================================
