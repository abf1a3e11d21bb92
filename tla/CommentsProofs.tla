--------------------------- MODULE CommentsProofs ---------------------------
(***************************************************************************)
(* Proofs about Comments, for any finite set of requests, any users and    *)
(* posts and any bound of ids.                                             *)
(***************************************************************************)
EXTENDS Comments, FiniteSetTheorems, TLAPS

(* A row is told from the lack of one by its author; both have the parts   *)
(* of a row. *)
LEMMA RowsAreRows ==
    /\ \A x \in Rows : x # NoRow /\ x.author \in Users
    /\ \A x \in Rows \cup {NoRow} : /\ x.deleted \in BOOLEAN /\ x.parent \in Ids \cup {0}
                                    /\ x.deleted \/ x.parent # 0 => x \in Rows
<1>1. NoRow.author = Nobody /\ NoRow.deleted = FALSE /\ NoRow.parent = 0
  BY DEF NoRow
<1>2. \A x \in Rows : x.author \in Users /\ x.deleted \in BOOLEAN /\ x.parent \in Ids \cup {0}
  BY DEF Rows
<1>3. \A x \in Rows : x # NoRow
  BY <1>1, <1>2, UsersAssumption
<1>. QED
  BY <1>1, <1>2, <1>3

(* An edit and a deletion change one part of a row. *)
LEMMA ChangedRows ==
    ASSUME NEW x \in Rows
    PROVE  /\ [x EXCEPT !.edited = TRUE] \in Rows /\ [x EXCEPT !.deleted = TRUE] \in Rows
           /\ \A e, d \in BOOLEAN :
                 LET y == [x EXCEPT !.edited = e, !.deleted = d]
                 IN  /\ y.author = x.author /\ y.parent = x.parent /\ y.post = x.post
                     /\ y.edited = e /\ y.deleted = d
<1>1. [x EXCEPT !.edited = TRUE] \in Rows /\ [x EXCEPT !.deleted = TRUE] \in Rows
  BY DEF Rows
<1>2. ASSUME NEW e \in BOOLEAN, NEW d \in BOOLEAN
      PROVE  LET y == [x EXCEPT !.edited = e, !.deleted = d]
             IN  /\ y.author = x.author /\ y.parent = x.parent /\ y.post = x.post
                 /\ y.edited = e /\ y.deleted = d
  BY DEF Rows
<1>. QED
  BY <1>1, <1>2

(* How the registrations without a number change with a step of r. *)
LEMMA NumberlessCounted ==
    /\ Cardinality(Numberless) \in Nat /\ Cardinality(Numberless') \in Nat
    /\ \A r \in Requests :
          Numberless' \subseteq Numberless \cup {r}
             => Cardinality(Numberless') <= Cardinality(Numberless) + 1
    /\ Numberless' \subseteq Numberless
          => Cardinality(Numberless') <= Cardinality(Numberless)
    /\ \A r \in Numberless :
          Numberless' = Numberless \ {r}
             => Cardinality(Numberless') = Cardinality(Numberless) - 1
<1>1. /\ IsFiniteSet(Numberless) /\ Cardinality(Numberless) \in Nat
      /\ IsFiniteSet(Numberless') /\ Cardinality(Numberless') \in Nat
  <2>1. Numberless \subseteq Requests /\ Numberless' \subseteq Requests
    BY DEF Numberless
  <2>. QED
    BY <2>1, RequestsAssumption, FS_Subset, FS_CardinalityType
<1>2. ASSUME NEW r \in Requests, Numberless' \subseteq Numberless \cup {r}
      PROVE  Cardinality(Numberless') <= Cardinality(Numberless) + 1
  <2>1. /\ IsFiniteSet(Numberless \cup {r})
        /\ Cardinality(Numberless \cup {r}) <= Cardinality(Numberless) + 1
    BY <1>1, FS_AddElement
  <2>2. Cardinality(Numberless') <= Cardinality(Numberless \cup {r})
    BY <1>2, <2>1, FS_Subset
  <2>3. Cardinality(Numberless \cup {r}) \in Nat
    BY <2>1, FS_CardinalityType
  <2>. QED
    BY <1>1, <2>1, <2>2, <2>3
<1>3. ASSUME Numberless' \subseteq Numberless
      PROVE  Cardinality(Numberless') <= Cardinality(Numberless)
  BY <1>1, <1>3, FS_Subset
<1>4. ASSUME NEW r \in Numberless, Numberless' = Numberless \ {r}
      PROVE  Cardinality(Numberless') = Cardinality(Numberless) - 1
  BY <1>1, <1>4, FS_RemoveElement
<1>. QED
  BY <1>1, <1>2, <1>3, <1>4

(* The empty database satisfies the invariant. *)
LEMMA InitIInv == Init => IInv
<1>. SUFFICES ASSUME Init PROVE IInv
  OBVIOUS
<1>1. TypeOK
  BY BoundAssumption DEF Init, TypeOK, Ids, NoRow
<1>2. PhaseOK /\ CommentsBorn /\ WritersApart /\ ParentsStay /\ ReasonTrue /\ DeletedOnce
  BY DEF Init, PhaseOK, CommentsBorn, WritersApart, ParentsStay, TrustsParent, ReasonTrue,
         DeletedOnce
<1>3. ThreadsFlat
  BY DEF Init, ThreadsFlat, NoRow
<1>4. IdsLeft
  <2>1. Numberless = {}
    BY DEF Init, Numberless
  <2>. QED
    BY <2>1, FS_EmptySet, BoundAssumption DEF Init, IdsLeft
<1>. QED
  BY <1>1, <1>2, <1>3, <1>4 DEF IInv

LEMMA BeginRegisterIInv ==
    ASSUME IInv, NEW r \in Requests, NEW u \in Users, NEW p \in Posts,
           NEW par \in Ids \cup {0}, BeginRegister(r, u, p, par)
    PROVE  IInv'
<1>. USE DEF IInv, BeginRegister, Goto, history
<1>1. TypeOK'
  BY DEF TypeOK
<1>2. id[r] = 0 /\ row[r] = NoRow
  BY DEF PhaseOK
<1>3. PhaseOK'
  BY <1>2 DEF PhaseOK, TypeOK
<1>4. CommentsBorn' /\ ThreadsFlat' /\ DeletedOnce'
  BY DEF CommentsBorn, ThreadsFlat, DeletedOnce
<1>5. WritersApart'
  <2>1. \A s \in Requests : row[s] # NoRow => s # r
    BY <1>2
  <2>. QED
    BY <2>1 DEF WritersApart, WritesOnTop, NewComment, TypeOK
<1>6. ParentsStay' /\ ReasonTrue'
  <2>1. ASSUME NEW i \in Ids PROVE ~TrustsParent(r, i)'
    BY DEF TrustsParent, TypeOK, Ids
  <2>2. \A s \in Requests \ {r}, i \in Ids :
           /\ TrustsParent(s, i)' <=> TrustsParent(s, i)
           /\ post'[s] = post[s] /\ bereft'[s] = bereft[s]
    BY DEF TrustsParent, TypeOK
  <2>3. ParentsStay'
    BY <2>1, <2>2 DEF ParentsStay
  <2>. QED
    BY <2>3 DEF ReasonTrue, TypeOK
<1>7. IdsLeft'
  <2>1. Numberless' \subseteq Numberless \cup {r}
    BY DEF Numberless, TypeOK
  <2>. QED
    BY <2>1, NumberlessCounted, BoundAssumption DEF IdsLeft, MayRegister, TypeOK
<1>. QED
  BY <1>1, <1>3, <1>4, <1>5, <1>6, <1>7

LEMMA BeginWriteIInv ==
    ASSUME IInv, NEW r \in Requests, NEW o \in {"update", "delete"}, NEW u \in Users,
           NEW i \in Ids, BeginWrite(r, o, u, i)
    PROVE  IInv'
<1>. USE DEF IInv, BeginWrite, Goto, history
<1>1. TypeOK'
  BY DEF TypeOK
<1>2. row[r] = NoRow /\ op[r] = "none"
  BY DEF PhaseOK
<1>3. PhaseOK'
  BY <1>2 DEF PhaseOK, TypeOK
<1>4. CommentsBorn' /\ ThreadsFlat' /\ DeletedOnce'
  BY DEF CommentsBorn, ThreadsFlat, DeletedOnce
<1>5. WritersApart'
  <2>1. \A s \in Requests : row[s] # NoRow => s # r
    BY <1>2
  <2>. QED
    BY <2>1 DEF WritersApart, WritesOnTop, NewComment, TypeOK
<1>6. ParentsStay' /\ ReasonTrue'
  BY DEF ParentsStay, TrustsParent, ReasonTrue, TypeOK
<1>7. IdsLeft'
  <2>1. Numberless' \subseteq Numberless
    BY <1>2 DEF Numberless, TypeOK
  <2>. QED
    BY <2>1, NumberlessCounted, BoundAssumption DEF IdsLeft, TypeOK
<1>. QED
  BY <1>1, <1>3, <1>4, <1>5, <1>6, <1>7

(* A request that ends without a row leaves the comments as they are. *)
LEMMA FinishIInv ==
    ASSUME IInv, NEW r \in Requests, Rollback(r)
    PROVE  IInv'
<1>. USE DEF IInv, Rollback, Finish, Goto
<1>1. TypeOK'
  BY DEF TypeOK
<1>2. PhaseOK'
  BY DEF PhaseOK, TypeOK
<1>3. CommentsBorn' /\ ThreadsFlat' /\ DeletedOnce'
  BY DEF CommentsBorn, ThreadsFlat, DeletedOnce
<1>4. WritersApart'
  BY DEF WritersApart, WritesOnTop, NewComment, TypeOK
<1>5. ParentsStay' /\ ReasonTrue'
  BY DEF ParentsStay, TrustsParent, ReasonTrue, TypeOK
<1>6. IdsLeft'
  <2>1. Numberless' \subseteq Numberless
    BY DEF Numberless, TypeOK
  <2>. QED
    BY <2>1, NumberlessCounted, BoundAssumption DEF IdsLeft, TypeOK
<1>. QED
  BY <1>1, <1>2, <1>3, <1>4, <1>5, <1>6

(* The look at the parent: the reply goes on under a live top-level        *)
(* comment of its post. *)
LEMMA CheckParentIInv ==
    ASSUME IInv, NEW r \in Requests, CheckParent(r)
    PROVE  IInv'
<1>1. CASE ~TakesReply(r)
  BY <1>1, FinishIInv DEF CheckParent
<1>2. CASE TakesReply(r)
  <2>. USE <1>2 DEF IInv, Goto, history
  <2>1. /\ pc[r] = "parent" /\ pc' = [pc EXCEPT ![r] = "insert"]
        /\ UNCHANGED <<comments, nextId, op, user, id, post, parent, row, status, history>>
    BY DEF CheckParent
  <2>2. TypeOK'
    BY <2>1 DEF TypeOK
  <2>3. PhaseOK'
    BY <2>1 DEF PhaseOK, TypeOK
  <2>4. CommentsBorn' /\ ThreadsFlat' /\ DeletedOnce'
    BY <2>1 DEF CommentsBorn, ThreadsFlat, DeletedOnce
  <2>5. WritersApart'
    BY <2>1 DEF WritersApart, WritesOnTop, NewComment
  <2>6. ParentsStay' /\ ReasonTrue'
    BY <2>1 DEF ParentsStay, TrustsParent, ReasonTrue, TakesReply, TypeOK
  <2>7. IdsLeft'
    BY <2>1 DEF IdsLeft, Numberless
  <2>. QED
    BY <2>2, <2>3, <2>4, <2>5, <2>6, <2>7
<1>. QED
  BY <1>1, <1>2

(* INSERT takes an id nobody holds, above that of the parent. *)
LEMMA AddCommentIInv ==
    ASSUME IInv, NEW r \in Requests, AddComment(r)
    PROVE  IInv'
<1>. USE DEF IInv, AddComment, history
<1>. DEFINE new == NewComment(r)
<1>1. op[r] = "register" /\ user[r] \in Users /\ post[r] \in Posts /\ id[r] = 0
  BY DEF PhaseOK
<1>2. r \in Numberless /\ Cardinality(Numberless) # 0
  <2>1. r \in Numberless
    BY <1>1 DEF Numberless
  <2>2. IsFiniteSet(Numberless)
    BY RequestsAssumption, FS_Subset DEF Numberless
  <2>. QED
    BY <2>1, <2>2, FS_EmptySet
<1>3. nextId \in Ids /\ nextId' \in 1 .. MaxComments + 1 /\ nextId # 0
  BY <1>2, NumberlessCounted, BoundAssumption DEF IdsLeft, TypeOK, Ids
<1>4. new \in Rows /\ new # NoRow
  BY <1>1, RowsAreRows DEF NewComment, Rows, TypeOK
<1>5. comments[nextId] = NoRow
  BY <1>3 DEF CommentsBorn, TypeOK
<1>6. parent[r] < nextId
  <2>1. CASE parent[r] = 0
    BY <2>1, <1>3 DEF TypeOK
  <2>2. CASE parent[r] # 0
    BY <2>2, <1>1 DEF ParentsStay, TrustsParent, CommentsBorn, TypeOK
  <2>. QED
    BY <2>1, <2>2
<1>7. /\ id'[r] = nextId /\ row'[r] = new /\ pc' = [pc EXCEPT ![r] = "commit"]
      /\ \A s \in Requests \ {r} : id'[s] = id[s] /\ row'[s] = row[s]
  BY DEF TypeOK, Goto
<1>. HIDE DEF new
<1>8. TypeOK'
  BY <1>3, <1>4, <1>7 DEF TypeOK, new
<1>9. PhaseOK'
  BY <1>1, <1>3, <1>7 DEF PhaseOK, TypeOK
<1>10. CommentsBorn' /\ ThreadsFlat' /\ DeletedOnce'
  BY <1>3 DEF CommentsBorn, ThreadsFlat, DeletedOnce, TypeOK, Ids
<1>11. WritersApart'
  <2>1. \A s \in Requests \ {r} : row[s] # NoRow => id[s] # nextId /\ id[s] < nextId
    <3>1. \A s \in Requests : row[s] # NoRow => id[s] < nextId
      BY DEF WritersApart, WritesOnTop
    <3>. QED
      BY <3>1, <1>3 DEF TypeOK, Ids
  <2>2. \A s, t \in Requests :
           s # t /\ row'[s] # NoRow /\ row'[t] # NoRow => id'[s] # id'[t]
    BY <2>1, <1>7 DEF WritersApart
  <2>3. ASSUME NEW s \in Requests, row'[s] # NoRow PROVE WritesOnTop(s)'
    <3>1. CASE s = r
      <4>1. row'[r] = NewComment(r)'
        BY <1>7 DEF new, NewComment
      <4>2. id'[r] < nextId'
        BY <1>3, <1>7 DEF TypeOK, Ids
      <4>. QED
        BY <3>1, <4>1, <4>2, <1>1, <1>5, <1>6, <1>7 DEF WritesOnTop
    <3>2. CASE s # r
      <4>1. WritesOnTop(s) /\ row'[s] = row[s] /\ id'[s] = id[s]
        BY <3>2, <2>3, <1>7 DEF WritersApart
      <4>2. id[s] < nextId'
        BY <3>2, <2>3, <4>1, <2>1, <1>3 DEF TypeOK, Ids
      <4>. QED
        BY <4>1, <4>2 DEF WritesOnTop, NewComment
    <3>. QED
      BY <3>1, <3>2
  <2>. QED
    BY <2>2, <2>3 DEF WritersApart
<1>12. ParentsStay'
  BY <1>7 DEF ParentsStay, TrustsParent, TypeOK
<1>13. ReasonTrue'
  BY <1>1, <1>7 DEF ReasonTrue, PhaseOK, TypeOK
<1>14. IdsLeft'
  <2>1. Numberless' = Numberless \ {r}
    BY <1>2, <1>3, <1>7 DEF Numberless
  <2>2. Cardinality(Numberless') = Cardinality(Numberless) - 1
    BY <2>1, <1>2, NumberlessCounted
  <2>3. Cardinality(Numberless) \in Nat /\ nextId \in Nat
    BY <1>3, NumberlessCounted DEF Ids
  <2>. QED
    BY <2>2, <2>3, BoundAssumption DEF IdsLeft
<1>. QED
  BY <1>8, <1>9, <1>10, <1>11, <1>12, <1>13, <1>14

(* The UPDATE of the author finds a live row no open transaction holds. *)
LEMMA WriteRowIInv ==
    ASSUME IInv, NEW r \in Requests, WriteRow(r)
    PROVE  IInv'
<1>. USE DEF IInv, WriteRow, Goto, history
<1>. DEFINE old == comments[id[r]]
            new == IF op[r] = "update" THEN [old EXCEPT !.edited = TRUE]
                   ELSE [old EXCEPT !.deleted = TRUE]
<1>1. id[r] \in Ids /\ user[r] \in Users /\ op[r] \in {"update", "delete"}
  BY DEF PhaseOK
<1>2. old \in Rows /\ old # NoRow /\ ~old.deleted
  <2>1. old.author \in Users /\ ~old.deleted
    BY <1>1 DEF Matches
  <2>2. NoRow.author \notin Users
    BY UsersAssumption DEF NoRow
  <2>. QED
    BY <2>1, <2>2, <1>1 DEF TypeOK
<1>3. new \in Rows /\ new # NoRow
  BY <1>2, ChangedRows, RowsAreRows
<1>4. new = [old EXCEPT !.edited = new.edited, !.deleted = op[r] = "delete"]
  BY <1>1, <1>2 DEF Rows
<1>5. /\ row'[r] = new /\ pc' = [pc EXCEPT ![r] = "commit"]
      /\ row' = [row EXCEPT ![r] = new]
      /\ \A s \in Requests \ {r} : row'[s] = row[s]
  BY DEF TypeOK
<1>. HIDE DEF new
<1>6. TypeOK'
  BY <1>3, <1>5 DEF TypeOK
<1>7. PhaseOK'
  BY <1>1, <1>5 DEF PhaseOK, TypeOK
<1>8. CommentsBorn' /\ ThreadsFlat' /\ DeletedOnce' /\ IdsLeft'
  BY DEF CommentsBorn, ThreadsFlat, DeletedOnce, IdsLeft, Numberless
<1>9. WritersApart'
  <2>1. \A s \in Requests \ {r} : row[s] # NoRow => id[s] # id[r]
    BY DEF RowLocked
  <2>2. \A s, t \in Requests :
           s # t /\ row'[s] # NoRow /\ row'[t] # NoRow => id'[s] # id'[t]
    BY <2>1, <1>5 DEF WritersApart
  <2>3. WritesOnTop(r)'
    BY <1>1, <1>2, <1>4, <1>5 DEF WritesOnTop, CommentsBorn
  <2>4. ASSUME NEW s \in Requests, row'[s] # NoRow, s # r PROVE WritesOnTop(s)'
    BY <2>4, <1>5 DEF WritersApart, WritesOnTop, NewComment
  <2>. QED
    BY <2>2, <2>3, <2>4 DEF WritersApart
<1>10. ParentsStay'
  BY <1>1, <1>5 DEF ParentsStay, TrustsParent, TypeOK
<1>11. ReasonTrue'
  BY <1>5 DEF ReasonTrue, PhaseOK, TypeOK
<1>. QED
  BY <1>6, <1>7, <1>8, <1>9, <1>10, <1>11

(* The UPDATE finds no row: there is none, or it is deleted or another     *)
(* user's. *)
LEMMA FindNoRowIInv ==
    ASSUME IInv, NEW r \in Requests, FindNoRow(r)
    PROVE  IInv'
<1>. USE DEF IInv, FindNoRow, Goto
<1>1. TypeOK'
  BY DEF TypeOK
<1>2. PhaseOK'
  BY DEF PhaseOK, TypeOK
<1>3. CommentsBorn' /\ ThreadsFlat' /\ DeletedOnce' /\ IdsLeft' /\ WritersApart'
  BY DEF CommentsBorn, ThreadsFlat, DeletedOnce, IdsLeft, Numberless, WritersApart,
         WritesOnTop, NewComment
<1>4. ParentsStay'
  BY DEF ParentsStay, TrustsParent, TypeOK
<1>5. ReasonTrue'
  BY DEF ReasonTrue, Matches, TypeOK
<1>. QED
  BY <1>1, <1>2, <1>3, <1>4, <1>5

(* The second statement, on whatever the row has become since the first: a *)
(* live row that was not the author's then is not his now. *)
LEMMA AnalyzeFailureIInv ==
    ASSUME IInv, NEW r \in Requests, AnalyzeFailure(r)
    PROVE  IInv'
<1>. USE DEF IInv, AnalyzeFailure, Goto, history
<1>1. /\ Failure(r) \in {"NOT_FOUND", "ALREADY_DELETED", "FORBIDDEN"}
      /\ Failure(r) = "FORBIDDEN" => comments[id[r]] # NoRow /\ ~comments[id[r]].deleted
  BY DEF Failure
<1>2. TypeOK'
  BY <1>1 DEF TypeOK
<1>3. PhaseOK'
  BY DEF PhaseOK, TypeOK
<1>4. CommentsBorn' /\ ThreadsFlat' /\ DeletedOnce' /\ IdsLeft' /\ WritersApart'
  BY DEF CommentsBorn, ThreadsFlat, DeletedOnce, IdsLeft, Numberless, WritersApart,
         WritesOnTop, NewComment
<1>5. ParentsStay'
  BY DEF ParentsStay, TrustsParent, PhaseOK, TypeOK
<1>6. ReasonTrue'
  BY <1>1 DEF ReasonTrue, TypeOK
<1>. QED
  BY <1>2, <1>3, <1>4, <1>5, <1>6

(* What a commit changes: one comment, that was live, to a row on the same *)
(* level of the same thread. *)
LEMMA CommitWrites ==
    ASSUME IInv, NEW r \in Requests, Commit(r), row[r] # NoRow
    PROVE  /\ id[r] \in Ids /\ row[r] \in Rows /\ op[r] # "none"
           /\ comments' = [comments EXCEPT ![id[r]] = row[r]]
           /\ op[r] = "register" <=> comments[id[r]] = NoRow
           /\ ~comments[id[r]].deleted
           /\ op[r] # "register" =>
                 /\ row[r].author = comments[id[r]].author
                 /\ row[r].parent = comments[id[r]].parent
                 /\ row[r].post = comments[id[r]].post
                 /\ row[r].deleted <=> op[r] = "delete"
           /\ op[r] = "register" => row[r] = NewComment(r) /\ parent[r] < id[r]
<1>. DEFINE old == comments[id[r]]
<1>1. /\ id[r] \in Ids /\ row[r] \in Rows /\ old \in Rows \cup {NoRow} /\ op[r] # "none"
      /\ comments' = [comments EXCEPT ![id[r]] = row[r]]
  BY DEF IInv, PhaseOK, TypeOK, Commit
<1>2. WritesOnTop(r)
  BY DEF IInv, WritersApart
<1>3. ~old.deleted
  BY <1>2 DEF WritesOnTop, NoRow
<1>4. ASSUME op[r] # "register"
      PROVE  /\ row[r].author = old.author /\ row[r].parent = old.parent
             /\ row[r].post = old.post /\ (row[r].deleted <=> op[r] = "delete")
  <2>1. old \in Rows
    BY <1>1, <1>2, <1>4 DEF WritesOnTop
  <2>2. row[r] = [old EXCEPT !.edited = row[r].edited, !.deleted = op[r] = "delete"]
    BY <1>2, <1>4 DEF WritesOnTop
  <2>3. row[r].edited \in BOOLEAN
    BY <1>1 DEF Rows
  <2>4. CASE op[r] = "delete"
    <3>1. row[r] = [old EXCEPT !.edited = row[r].edited, !.deleted = TRUE]
      BY <2>2, <2>4
    <3>. QED
      BY <2>1, <2>3, <2>4, <3>1 DEF Rows
  <2>5. CASE op[r] # "delete"
    <3>1. row[r] = [old EXCEPT !.edited = row[r].edited, !.deleted = FALSE]
      BY <2>2, <2>5
    <3>. QED
      BY <2>1, <2>3, <2>5, <3>1 DEF Rows
  <2>. QED
    BY <2>4, <2>5
<1>. QED
  BY <1>1, <1>2, <1>3, <1>4 DEF WritesOnTop

(* The commit publishes a row; nobody else holds its comment, and the      *)
(* replies below it and the parent above it stay where they are. *)
LEMMA CommitIInv ==
    ASSUME IInv, NEW r \in Requests, Commit(r)
    PROVE  IInv'
<1>1. CASE row[r] = NoRow
  <2>1. bereft' = [s \in Requests |-> s # r /\ bereft[s]]
    BY <1>1, Zenon DEF Commit
  <2>2. bereft' = [bereft EXCEPT ![r] = FALSE]
    BY <2>1 DEF IInv, TypeOK
  <2>3. Rollback(r)
    BY <1>1, <2>2 DEF Commit, Rollback
  <2>. QED
    BY <2>3, FinishIInv
<1>2. CASE row[r] # NoRow
  <2>. USE DEF IInv, Finish, Goto
  <2>. DEFINE i == id[r]
  <2>1. /\ i \in Ids /\ row[r] \in Rows /\ Finish(r) /\ nextId' = nextId
        /\ comments' = [comments EXCEPT ![i] = row[r]]
        /\ deletions' = IF op[r] = "delete" THEN [deletions EXCEPT ![i] = @ + 1]
                        ELSE deletions
    BY <1>2, CommitWrites DEF Commit
  <2>2. /\ op[r] = "register" <=> comments[i] = NoRow
        /\ ~comments[i].deleted /\ i < nextId
        /\ op[r] # "register" =>
              /\ row[r].author = comments[i].author
              /\ row[r].parent = comments[i].parent
              /\ row[r].post = comments[i].post
              /\ row[r].deleted <=> op[r] = "delete"
        /\ op[r] = "register" => row[r] = NewComment(r) /\ parent[r] < i
    BY <1>2, CommitWrites DEF WritersApart, WritesOnTop
  <2>3. row[r] # NoRow /\ deletions[i] = 0
    BY <1>2, <2>1, <2>2 DEF CommentsBorn
  <2>4. /\ comments'[i] = row[r]
        /\ \A j \in Ids \ {i} : comments'[j] = comments[j]
        /\ \A j \in Ids : comments[j] # NoRow =>
              /\ comments'[j] # NoRow
              /\ comments'[j].author = comments[j].author
              /\ comments'[j].parent = comments[j].parent
              /\ comments'[j].post = comments[j].post
    BY <2>1, <2>2, <2>3 DEF TypeOK
  <2>5. TypeOK'
    <3>1. bereft' \in [Requests -> BOOLEAN]
      BY Zenon DEF Commit
    <3>2. /\ comments' \in [Ids -> Rows \cup {NoRow}] /\ nextId' \in 1 .. MaxComments + 1
          /\ row' \in [Requests -> Rows \cup {NoRow}] /\ deletions' \in [Ids -> Nat]
          /\ id' \in [Requests -> Ids \cup {0}] /\ parent' \in [Requests -> Ids \cup {0}]
      BY <2>1 DEF TypeOK
    <3>3. /\ pc' \in [Requests -> {"idle", "parent", "insert", "write", "analyze", "commit"}]
          /\ op' \in [Requests -> {"none", "register", "update", "delete"}]
          /\ user' \in [Requests -> Users \cup {Nobody}]
          /\ post' \in [Requests -> Posts \cup {Nobody}]
          /\ status' \in [Requests -> {"none", "NOT_FOUND", "ALREADY_DELETED", "FORBIDDEN"}]
          /\ unborn' \in [Requests -> BOOLEAN]
      BY <2>1 DEF TypeOK
    <3>. QED
      BY ONLY <3>1, <3>2, <3>3 DEF TypeOK
  <2>6. PhaseOK'
    BY <2>1 DEF PhaseOK, TypeOK
  <2>7. CommentsBorn' /\ DeletedOnce'
    BY <2>1, <2>2, <2>3, <2>4 DEF CommentsBorn, DeletedOnce, NewComment, TypeOK
  <2>8. WritersApart'
    <3>1. ASSUME NEW s \in Requests, row'[s] # NoRow
          PROVE  /\ s # r /\ row'[s] = row[s] /\ id'[s] = id[s] /\ op'[s] = op[s]
                 /\ user'[s] = user[s] /\ post'[s] = post[s] /\ parent'[s] = parent[s]
      BY <3>1, <2>1 DEF TypeOK
    <3>2. \A s, t \in Requests :
             s # t /\ row'[s] # NoRow /\ row'[t] # NoRow => id'[s] # id'[t]
      BY <3>1 DEF WritersApart
    <3>3. ASSUME NEW s \in Requests, row'[s] # NoRow PROVE WritesOnTop(s)'
      <4>1. WritesOnTop(s) /\ id[s] \in Ids /\ id[s] # i
        BY <3>1, <3>3, <1>2 DEF WritersApart, PhaseOK
      <4>2. comments'[id[s]] = comments[id[s]]
        BY <4>1, <2>4
      <4>3. nextId' = nextId
        BY <2>1
      <4>4. /\ row'[s] = row[s] /\ id'[s] = id[s] /\ op'[s] = op[s]
            /\ user'[s] = user[s] /\ post'[s] = post[s] /\ parent'[s] = parent[s]
        BY <3>1, <3>3
      <4>5. NewComment(s)' = NewComment(s)
        BY <4>4 DEF NewComment
      <4>6. comments'[id'[s]] = comments[id[s]]
        BY <4>2, <4>4
      <4>. QED
        BY ONLY <4>1, <4>3, <4>4, <4>5, <4>6 DEF WritesOnTop
    <3>. QED
      BY <3>2, <3>3 DEF WritersApart
  <2>9. ParentsStay'
    <3>1. \A s \in Requests :
             op'[s] = "register" => /\ s # r /\ op'[s] = op[s] /\ pc'[s] = pc[s]
                                    /\ post'[s] = post[s] /\ parent'[s] = parent[s]
      BY <2>1 DEF TypeOK
    <3>2. \A s \in Requests : parent[s] \in Ids \cup {0}
      BY DEF TypeOK
    <3>3. \A s \in Requests \ {r}, j \in Ids :
             TrustsParent(s, j) /\ comments'[j].deleted => bereft'[s]
      <4>1. ASSUME NEW s \in Requests \ {r}, NEW j \in Ids, TrustsParent(s, j),
                   comments'[j].deleted
            PROVE  bereft'[s]
        <5>1. bereft'[s] = (bereft[s] \/ (op[r] = "delete" /\ TrustsParent(s, i)))
          BY <1>2 DEF Commit
        <5>2. CASE comments[j].deleted
          BY <4>1, <5>1, <5>2 DEF ParentsStay
        <5>3. CASE ~comments[j].deleted
          <6>1. j = i /\ row[r].deleted
            BY <4>1, <5>3, <2>4
          <6>2. op[r] = "delete"
            BY <6>1, <2>2 DEF NewComment
          <6>. QED
            BY <4>1, <5>1, <6>1, <6>2
        <5>. QED
          BY <5>2, <5>3
      <4>. QED
        BY <4>1
    <3>. QED
      BY <3>1, <3>2, <3>3, <2>4 DEF ParentsStay, TrustsParent
  <2>10. ReasonTrue'
    <3>1. /\ pc'[r] = "idle"
          /\ \A s \in Requests \ {r} :
                /\ pc'[s] = pc[s] /\ id'[s] = id[s] /\ user'[s] = user[s]
                /\ status'[s] = status[s] /\ unborn'[s] = unborn[s]
      BY <2>1 DEF TypeOK
    <3>2. \A s \in Requests : pc[s] \in {"analyze", "commit"} => id[s] \in Ids
      BY DEF PhaseOK
    <3>3. \A j \in Ids : comments[j].deleted => comments'[j].deleted
      BY <2>2, <2>4
    <3>. QED
      BY <3>1, <3>2, <3>3, <2>4 DEF ReasonTrue
  <2>11. ThreadsFlat'
    <3>. SUFFICES ASSUME NEW j \in Ids, comments'[j].parent # 0
                  PROVE  LET c == comments'[j]
                         IN  /\ c.parent < j /\ comments'[c.parent] # NoRow
                             /\ comments'[c.parent].parent = 0
                             /\ comments'[c.parent].post = c.post
      BY DEF ThreadsFlat
    <3>1. CASE comments[j] # NoRow
      <4>. DEFINE p == comments[j].parent
      <4>1. comments'[j].parent = p /\ comments'[j].post = comments[j].post
        BY <3>1, <2>4
      <4>2. p \in Ids
        BY <3>1, <4>1 DEF TypeOK, Rows
      <4>3. /\ p < j /\ comments[p] # NoRow
            /\ comments[p].parent = 0 /\ comments[p].post = comments[j].post
        BY <4>1 DEF ThreadsFlat
      <4>. QED
        BY <4>1, <4>2, <4>3, <2>4
    <3>2. CASE comments[j] = NoRow
      <4>1. j = i /\ op[r] = "register"
        BY <3>2, <2>2, <2>4 DEF NoRow
      <4>2. /\ comments'[j].parent = parent[r] /\ comments'[j].post = post[r]
            /\ parent[r] < j /\ parent[r] \in Ids
        BY <4>1, <2>2, <2>4 DEF NewComment, TypeOK
      <4>3. LET c == comments[parent[r]] IN c # NoRow /\ c.parent = 0 /\ c.post = post[r]
        BY <4>1, <4>2 DEF ParentsStay, TrustsParent, Commit, Ids
      <4>. QED
        BY <4>2, <4>3, <2>4
    <3>. QED
      BY <3>1, <3>2
  <2>12. IdsLeft'
    <3>1. Numberless' \subseteq Numberless
      BY <2>1 DEF Numberless, TypeOK
    <3>. QED
      BY <3>1, <2>1, NumberlessCounted, BoundAssumption DEF IdsLeft, TypeOK
  <2>. QED
    BY <2>5, <2>6, <2>7, <2>8, <2>9, <2>10, <2>11, <2>12
<1>. QED
  BY <1>1, <1>2

LEMMA StepIInv == IInv /\ [Next]_vars => IInv'
<1>. SUFFICES ASSUME IInv, [Next]_vars PROVE IInv'
  OBVIOUS
<1>1. ASSUME NEW r \in Requests, NEW u \in Users, NEW p \in Posts,
             NEW par \in Ids \cup {0}, BeginRegister(r, u, p, par)
      PROVE  IInv'
  BY <1>1, BeginRegisterIInv
<1>2. ASSUME NEW r \in Requests, NEW u \in Users, NEW o \in {"update", "delete"},
             NEW i \in Ids, BeginWrite(r, o, u, i)
      PROVE  IInv'
  BY <1>2, BeginWriteIInv
<1>3. ASSUME NEW r \in Requests, CheckParent(r) PROVE IInv'
  BY <1>3, CheckParentIInv
<1>4. ASSUME NEW r \in Requests, AddComment(r) PROVE IInv'
  BY <1>4, AddCommentIInv
<1>5. ASSUME NEW r \in Requests, WriteRow(r) PROVE IInv'
  BY <1>5, WriteRowIInv
<1>6. ASSUME NEW r \in Requests, FindNoRow(r) PROVE IInv'
  BY <1>6, FindNoRowIInv
<1>7. ASSUME NEW r \in Requests, AnalyzeFailure(r) PROVE IInv'
  BY <1>7, AnalyzeFailureIInv
<1>8. ASSUME NEW r \in Requests, Commit(r) PROVE IInv'
  BY <1>8, CommitIInv
<1>9. ASSUME NEW r \in Requests, Fail(r) PROVE IInv'
  BY <1>9, FinishIInv DEF Fail
<1>10. CASE UNCHANGED vars
  <2>. USE <1>10 DEF vars, locals, history, IInv
  <2>1. TypeOK'
    BY DEF TypeOK
  <2>2. PhaseOK' /\ IdsLeft' /\ CommentsBorn'
    BY DEF PhaseOK, IdsLeft, Numberless, CommentsBorn
  <2>3. WritersApart'
    BY DEF WritersApart, WritesOnTop, NewComment
  <2>4. ParentsStay' /\ ReasonTrue' /\ ThreadsFlat' /\ DeletedOnce'
    BY DEF ParentsStay, TrustsParent, ReasonTrue, ThreadsFlat, DeletedOnce
  <2>. QED
    BY <2>1, <2>2, <2>3, <2>4
<1>. QED
  BY <1>1, <1>2, <1>3, <1>4, <1>5, <1>6, <1>7, <1>8, <1>9, <1>10 DEF Next

(* Comments are numbered once, written by one request at a time and        *)
(* answered only on their own level, with any number of requests.          *)
THEOREM Invariance == Spec => []IInv
  BY InitIInv, StepIInv, PTL DEF Spec

(* A thread has one level, under one post, whatever was edited, deleted or *)
(* rolled back between the look at the parent and the INSERT               *)
(* (register_comment). *)
THEOREM ThreadsStayFlat == Spec => []ThreadsFlat
<1>1. IInv => ThreadsFlat
  BY DEF IInv
<1>. QED
  BY <1>1, Invariance, PTL

(* Of overlapping and repeated deletions of a comment one succeeds         *)
(* (soft_delete_comment_core). *)
THEOREM OneDeletion == Spec => []DeletedOnce
<1>1. IInv => DeletedOnce
  BY DEF IInv
<1>. QED
  BY <1>1, Invariance, PTL

(* A deleted comment never changes again (update_comment_core). *)
THEOREM DeletionIsFinal == Spec => DeletedForGood
<1>1. IInv /\ [Next]_vars
         => [\A i \in Ids : comments[i].deleted => comments'[i] = comments[i]]_vars
  <2>. SUFFICES ASSUME IInv, Next, NEW i \in Ids, comments[i].deleted
                PROVE  comments'[i] = comments[i]
    BY DEF vars
  <2>1. ASSUME NEW r \in Requests, Commit(r) PROVE comments'[i] = comments[i]
    <3>1. CASE row[r] = NoRow
      BY <2>1, <3>1 DEF Commit
    <3>2. CASE row[r] # NoRow
      BY <2>1, <3>2, CommitWrites DEF IInv, TypeOK
    <3>. QED
      BY <3>1, <3>2
  <2>2. ASSUME NEW r \in Requests, Fail(r) \/ CheckParent(r) PROVE comments' = comments
    BY <2>2 DEF Fail, CheckParent, Rollback
  <2>3. ASSUME \A r \in Requests : ~Commit(r) /\ ~Fail(r) /\ ~CheckParent(r)
        PROVE  comments' = comments
    BY <2>3 DEF Next, BeginRegister, BeginWrite, AddComment, WriteRow, FindNoRow,
                AnalyzeFailure
  <2>. QED
    BY <2>1, <2>2, <2>3
<1>. QED
  BY <1>1, Invariance, PTL DEF Spec, DeletedForGood

(* A reply enters under a deleted comment only if the deletion committed   *)
(* after the reply's look at its parent (register_comment,                 *)
(* get_comment_by_parent_id). *)
THEOREM RepliesUnderDeletedRaced == Spec => ReplyUnderDeletedOnlyIfRaced
<1>1. IInv /\ [Next]_vars
         => [\A r \in Requests, i \in Ids :
               Commit(r) /\ op[r] = "register" /\ parent[r] = i /\ comments[i].deleted
                  => bereft[r]]_vars
  <2>. SUFFICES ASSUME IInv, NEW r \in Requests, NEW i \in Ids, Commit(r),
                       op[r] = "register", parent[r] = i, comments[i].deleted
                PROVE  bereft[r]
    BY DEF vars
  <2>1. TrustsParent(r, i)
    BY DEF TrustsParent, Commit
  <2>. QED
    BY <2>1 DEF IInv, ParentsStay
<1>. QED
  BY <1>1, Invariance, PTL DEF Spec, ReplyUnderDeletedOnlyIfRaced

(* The author of a comment is told that it is another user's only when he  *)
(* asked before the comment existed (update_comment_core,                  *)
(* _analyze_failure). *)
THEOREM AuthorsRefusedOnlyUnborn == Spec => AuthorRefusedOnlyUnborn
<1>1. IInv /\ [Next]_vars
         => [\A r \in Requests :
               Commit(r) /\ status[r] = "FORBIDDEN" /\ comments[id[r]].author = user[r]
                  => unborn[r]]_vars
  <2>. SUFFICES ASSUME IInv, NEW r \in Requests, Commit(r), status[r] = "FORBIDDEN",
                       comments[id[r]].author = user[r]
                PROVE  unborn[r]
    BY DEF vars
  <2>. QED
    BY DEF IInv, ReasonTrue, Commit
<1>. QED
  BY <1>1, Invariance, PTL DEF Spec, AuthorRefusedOnlyUnborn
=============================================================================
