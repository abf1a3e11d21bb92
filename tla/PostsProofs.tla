---------------------------- MODULE PostsProofs ----------------------------
(***************************************************************************)
(* Proofs about Posts, for any requests, users, fields and bound of ids.   *)
(***************************************************************************)
EXTENDS Posts, TLAPS

(* A row is told from the lack of one by its author; both have the parts   *)
(* of a row. *)
LEMMA RowsAreRows ==
    /\ \A x \in Rows : x # NoRow /\ x.author \in Users
    /\ \A x \in Rows \cup {NoRow} : x.deleted \in BOOLEAN /\ (x.deleted => x \in Rows)
    /\ ~NoRow.deleted
<1>1. NoRow.author = NoUser /\ NoRow.deleted = FALSE
  BY DEF NoRow
<1>2. \A x \in Rows : x.author \in Users /\ x.deleted \in BOOLEAN
  BY DEF Rows
<1>3. \A x \in Rows : x # NoRow
  BY <1>1, <1>2, UsersAssumption
<1>. QED
  BY <1>1, <1>2, <1>3

(* The empty database satisfies the invariant. *)
LEMMA InitIInv == Init => IInv
<1>. SUFFICES ASSUME Init PROVE IInv
  OBVIOUS
<1>1. TypeOK
  BY BoundAssumption DEF Init, TypeOK, Ids, NoRow
<1>2. PostsBorn /\ DeletedOnce
  BY RowsAreRows DEF Init, PostsBorn, DeletedOnce
<1>3. WritersApart /\ EditsKept /\ PhaseOK /\ ReasonTrue
  BY DEF Init, WritersApart, WritesOnTop, EditsKept, PhaseOK, ReasonTrue
<1>. QED
  BY <1>1, <1>2, <1>3 DEF IInv

(* INSERT takes an id nobody holds. *)
LEMMA CreatePostIInv ==
    ASSUME IInv, NEW r \in Requests, NEW u \in Users, CreatePost(r, u)
    PROVE  IInv'
<1>. USE DEF IInv, CreatePost, Goto, history
<1>1. /\ [author |-> u, deleted |-> FALSE, text |-> [f \in Fields |-> r]] \in Rows
      /\ nextId \in Ids /\ nextId' \in 1 .. MaxPosts + 1
  BY BoundAssumption DEF TypeOK, Rows, Ids
<1>2. posts[nextId] = NoRow
  BY <1>1 DEF PostsBorn, TypeOK
<1>3. TypeOK'
  BY <1>1 DEF TypeOK
<1>4. PhaseOK'
  BY <1>1 DEF PhaseOK, TypeOK
<1>5. PostsBorn' /\ EditsKept' /\ DeletedOnce'
  BY <1>1 DEF PostsBorn, EditsKept, DeletedOnce, TypeOK
<1>6. WritersApart'
  <2>1. \A s, t \in Requests :
           s # t /\ row'[s] # NoRow /\ row'[t] # NoRow => id'[s] # id'[t]
    <3>1. \A s \in Requests \ {r} : id'[s] = id[s] /\ row'[s] = row[s]
      BY DEF TypeOK
    <3>2. \A s \in Requests : row[s] # NoRow => id[s] < nextId
      BY DEF WritersApart, WritesOnTop
    <3>3. \A s \in Requests \ {r} : row[s] # NoRow => id[s] # nextId
      BY <1>1, <3>2 DEF TypeOK, Ids
    <3>4. id'[r] = nextId
      BY DEF TypeOK
    <3>. QED
      BY <3>1, <3>3, <3>4 DEF WritersApart
  <2>2. ASSUME NEW s \in Requests, row'[s] # NoRow, s # r
        PROVE  /\ row'[s] = row[s] /\ id'[s] = id[s] /\ op'[s] = op[s]
               /\ change'[s] = change[s] /\ id[s] < nextId'
    <3>1. /\ row'[s] = row[s] /\ id'[s] = id[s] /\ op'[s] = op[s]
          /\ change'[s] = change[s]
      BY <2>2 DEF TypeOK
    <3>2. id[s] < nextId
      BY <2>2, <3>1 DEF WritersApart, WritesOnTop
    <3>. QED
      BY <3>1, <3>2, <1>1 DEF TypeOK, Ids
  <2>3. /\ row'[r] = [author |-> u, deleted |-> FALSE, text |-> [f \in Fields |-> r]]
        /\ id'[r] = nextId /\ op'[r] = "create" /\ change'[r] = Fields
        /\ nextId < nextId'
    BY <1>1 DEF TypeOK, Ids
  <2>. QED
    BY <2>1, <2>2, <2>3, <1>2 DEF WritersApart, WritesOnTop
<1>7. ReasonTrue'
  BY <1>1 DEF ReasonTrue, TypeOK
<1>. QED
  BY <1>3, <1>4, <1>5, <1>6, <1>7

(* A request arrives; it has written nothing. *)
LEMMA BeginIInv ==
    ASSUME IInv, NEW r \in Requests, NEW o \in {"update", "delete"}, NEW u \in Users,
           NEW i \in Ids, NEW fields \in SUBSET Fields, Begin(r, o, u, i, fields),
           o = "delete" => fields = {}
    PROVE  IInv'
<1>. USE DEF IInv, Begin, Goto, history
<1>1. TypeOK'
  BY DEF TypeOK
<1>2. row[r] = NoRow
  BY DEF PhaseOK
<1>3. PhaseOK'
  BY <1>2 DEF PhaseOK, TypeOK
<1>4. PostsBorn' /\ EditsKept' /\ DeletedOnce'
  BY DEF PostsBorn, EditsKept, DeletedOnce, TypeOK
<1>5. WritersApart'
  BY <1>2 DEF WritersApart, WritesOnTop, TypeOK
<1>6. ReasonTrue'
  BY DEF ReasonTrue, TypeOK
<1>. QED
  BY <1>1, <1>3, <1>4, <1>5, <1>6

(* The UPDATE of the owner finds a live row no open transaction holds. *)
LEMMA WriteRowIInv ==
    ASSUME IInv, NEW r \in Requests, WriteRow(r)
    PROVE  IInv'
<1>. USE DEF IInv, WriteRow, Goto, history
<1>1. /\ id[r] \in Ids /\ user[r] \in Users /\ op[r] \in {"update", "delete"}
      /\ op[r] = "delete" => change[r] = {}
  BY DEF PhaseOK
<1>2. posts[id[r]] \in Rows /\ posts[id[r]] # NoRow /\ ~posts[id[r]].deleted
  BY <1>1, UsersAssumption, RowsAreRows DEF TypeOK, Matches, NoRow
<1>3. /\ Written(r) \in Rows /\ Written(r) # NoRow
      /\ Written(r).author = posts[id[r]].author
      /\ Written(r).deleted <=> op[r] = "delete"
      /\ Written(r).text = [f \in Fields |-> IF f \in change[r] THEN r ELSE posts[id[r]].text[f]]
  <2>1. CASE op[r] = "update"
    <3> DEFINE new == [f \in Fields |->
                          IF f \in change[r] THEN r ELSE posts[id[r]].text[f]]
    <3>1. Written(r) = [posts[id[r]] EXCEPT !.text = new]
      BY <2>1 DEF Written
    <3>2. new \in [Fields -> Requests]
      BY <1>2 DEF Rows
    <3>3. Written(r) \in Rows /\ Written(r).text = new
          /\ Written(r).author = posts[id[r]].author
          /\ Written(r).deleted = posts[id[r]].deleted
      <4>. HIDE DEF new
      <4>. QED
        BY <3>1, <3>2, <1>2 DEF Rows
    <3>. QED
      BY <3>3, <2>1, <1>2, RowsAreRows
  <2>2. CASE op[r] = "delete"
    BY <2>2, <1>1, <1>2, RowsAreRows DEF Written, Rows, TypeOK
  <2>. QED
    BY <2>1, <2>2, <1>1
<1>4. TypeOK'
  BY <1>3 DEF TypeOK
<1>5. PhaseOK'
  BY <1>1 DEF PhaseOK, TypeOK
<1>6. PostsBorn' /\ EditsKept' /\ DeletedOnce'
  BY DEF PostsBorn, EditsKept, DeletedOnce, TypeOK
<1>7. WritersApart'
  <2>1. \A s \in Requests \ {r} : row[s] # NoRow => id[s] # id[r]
    BY DEF RowLocked
  <2>2. \A s, t \in Requests :
           s # t /\ row'[s] # NoRow /\ row'[t] # NoRow => id'[s] # id'[t]
    BY <2>1 DEF WritersApart, TypeOK
  <2>3. id[r] < nextId
    BY <1>1, <1>2 DEF PostsBorn
  <2>4. row'[r] = Written(r) /\ \A s \in Requests \ {r} : row'[s] = row[s]
    BY DEF TypeOK
  <2>. QED
    BY <2>2, <2>3, <2>4, <1>1, <1>2, <1>3 DEF WritersApart, WritesOnTop
<1>8. ReasonTrue'
  BY <1>1 DEF ReasonTrue, TypeOK
<1>. QED
  BY <1>4, <1>5, <1>6, <1>7, <1>8

(* The UPDATE finds no row: it is missing, or another user's. *)
LEMMA FindNoRowIInv ==
    ASSUME IInv, NEW r \in Requests, FindNoRow(r)
    PROVE  IInv'
<1>. USE DEF IInv, FindNoRow, Goto, history
<1>1. id[r] \in Ids /\ user[r] \in Users /\ op[r] \in {"update", "delete"}
  BY DEF PhaseOK
<1>2. Missing(r) \in BOOLEAN
      /\ (~Missing(r) => posts[id[r]] \in Rows /\ posts[id[r]].author # user[r])
  BY <1>1, RowsAreRows DEF Missing, Matches, TypeOK
<1>3. TypeOK'
  BY <1>2 DEF TypeOK
<1>4. PhaseOK'
  BY <1>1 DEF PhaseOK, TypeOK
<1>5. PostsBorn' /\ EditsKept' /\ DeletedOnce' /\ WritersApart'
  BY DEF PostsBorn, EditsKept, DeletedOnce, WritersApart, WritesOnTop
<1>6. ReasonTrue'
  BY <1>2 DEF ReasonTrue, TypeOK
<1>. QED
  BY <1>3, <1>4, <1>5, <1>6

(* The deletion by an administrator writes a row no open transaction       *)
(* holds, whoever wrote it and deleted or not. *)
LEMMA ForceDeleteIInv ==
    ASSUME IInv, NEW r \in Requests, NEW i \in Ids, ForceDelete(r, i)
    PROVE  IInv'
<1>. USE DEF IInv, ForceDelete, Goto, history
<1>. DEFINE new == [posts[i] EXCEPT !.deleted = TRUE]
<1>1. posts[i] \in Rows
  BY DEF TypeOK
<1>2. /\ new \in Rows /\ new.author = posts[i].author /\ new.deleted
      /\ new.text = posts[i].text
  BY <1>1 DEF Rows
<1>. HIDE DEF new
<1>3. new # NoRow /\ row' = [row EXCEPT ![r] = new] /\ id' = [id EXCEPT ![r] = i]
  BY <1>2, RowsAreRows DEF new
<1>4. change[r] = {} /\ op[r] = "none"
  BY DEF PhaseOK
<1>5. TypeOK'
  BY <1>2, <1>3 DEF TypeOK
<1>6. PhaseOK'
  BY <1>3, <1>4 DEF PhaseOK, TypeOK
<1>7. PostsBorn' /\ EditsKept' /\ DeletedOnce'
  BY DEF PostsBorn, EditsKept, DeletedOnce, TypeOK
<1>8. WritersApart'
  <2>1. \A s \in Requests \ {r} : row[s] # NoRow => id[s] # i
    BY DEF RowLocked
  <2>2. \A s, t \in Requests :
           s # t /\ row'[s] # NoRow /\ row'[t] # NoRow => id'[s] # id'[t]
    BY <2>1, <1>3 DEF WritersApart, TypeOK
  <2>3. i < nextId
    BY DEF PostsBorn
  <2>4. \A s \in Requests \ {r} : /\ row'[s] = row[s] /\ id'[s] = id[s]
                                  /\ op'[s] = op[s]
    BY <1>3 DEF TypeOK
  <2>5. row'[r] = new /\ id'[r] = i /\ op'[r] = "force"
    BY <1>3 DEF TypeOK
  <2>6. posts[i].text = [f \in Fields |-> IF f \in change[r] THEN r ELSE posts[i].text[f]]
    BY <1>1, <1>4 DEF Rows
  <2>7. ASSUME NEW s \in Requests, row'[s] # NoRow
        PROVE  WritesOnTop(s)'
    <3>1. CASE s = r
      BY <3>1, <2>3, <2>5, <2>6, <1>2 DEF WritesOnTop
    <3>2. CASE s # r
      BY <3>2, <2>4, <2>7 DEF WritersApart, WritesOnTop
    <3>. QED
      BY <3>1, <3>2
  <2>. QED
    BY <2>2, <2>7 DEF WritersApart
<1>9. ReasonTrue'
  BY <1>3 DEF ReasonTrue, TypeOK
<1>. QED
  BY <1>5, <1>6, <1>7, <1>8, <1>9

(* The second statement, on whatever the row has become since the first. *)
LEMMA AnalyzeFailureIInv ==
    ASSUME IInv, NEW r \in Requests, AnalyzeFailure(r)
    PROVE  IInv'
<1>. USE DEF IInv, AnalyzeFailure, Goto, history
<1>1. id[r] \in Ids /\ user[r] \in Users /\ op[r] \in {"update", "delete"}
      /\ row[r] = NoRow
  BY DEF PhaseOK
<1>2. /\ Failure(r) \in {"NOT_FOUND", "ALREADY_DELETED", "FORBIDDEN"}
      /\ Failure(r) = "FORBIDDEN" =>
            posts[id[r]] \in Rows /\ posts[id[r]].author # user[r]
      /\ Failure(r) # "FORBIDDEN" => gone[r] \/ Missing(r)
  <2>1. ~gone[r] => posts[id[r]].author # user[r]
    BY DEF ReasonTrue
  <2>. QED
    BY <2>1, <1>1 DEF Failure, Missing, TypeOK
<1>3. Missing(r) \in BOOLEAN
  BY <1>1, RowsAreRows DEF Missing, TypeOK
<1>4. TypeOK'
  BY <1>2, <1>3 DEF TypeOK
<1>5. PhaseOK'
  BY <1>1 DEF PhaseOK, TypeOK
<1>6. PostsBorn' /\ EditsKept' /\ DeletedOnce' /\ WritersApart'
  BY DEF PostsBorn, EditsKept, DeletedOnce, WritersApart, WritesOnTop
<1>7. ReasonTrue'
  BY <1>2 DEF ReasonTrue, TypeOK
<1>. QED
  BY <1>4, <1>5, <1>6, <1>7

(* A request that ends without a row leaves the posts as they are. *)
LEMMA FinishIInv ==
    ASSUME IInv, NEW r \in Requests, Finish(r),
           UNCHANGED <<posts, nextId, lastSet, deletions>>
    PROVE  IInv'
<1>. USE DEF IInv, Finish, Goto
<1>1. TypeOK'
  BY DEF TypeOK
<1>2. PhaseOK'
  BY DEF PhaseOK, TypeOK
<1>3. PostsBorn' /\ EditsKept' /\ DeletedOnce'
  BY DEF PostsBorn, EditsKept, DeletedOnce
<1>4. WritersApart'
  BY DEF WritersApart, WritesOnTop, TypeOK
<1>5. ReasonTrue'
  BY DEF ReasonTrue, TypeOK
<1>. QED
  BY <1>1, <1>2, <1>3, <1>4, <1>5

(* What a commit changes: one post, to the row its transaction has written *)
(* on top of the committed one. *)
LEMMA CommitWrites ==
    ASSUME IInv, NEW r \in Requests, Commit(r), row[r] # NoRow
    PROVE  /\ id[r] \in Ids /\ row[r] \in Rows
           /\ posts' = [posts EXCEPT ![id[r]] = row[r]]
           /\ posts[id[r]].deleted => row[r] = posts[id[r]]
  <1>1. id[r] \in Ids /\ row[r] \in Rows
    BY DEF IInv, PhaseOK, TypeOK, Commit
  <1>2. ASSUME posts[id[r]].deleted PROVE row[r] = posts[id[r]]
    <2>. DEFINE old == posts[id[r]]
    <2>1. old \in Rows /\ old # NoRow
      BY <1>1, <1>2, RowsAreRows DEF IInv, TypeOK
    <2>2. op[r] = "force"
      BY <1>2, <2>1 DEF IInv, WritersApart, WritesOnTop, PhaseOK, TypeOK, Commit
    <2>3. /\ row[r].author = old.author /\ row[r].deleted /\ change[r] = {}
          /\ row[r].text = [f \in Fields |-> IF f \in change[r] THEN r ELSE old.text[f]]
      BY <2>2 DEF IInv, WritersApart, WritesOnTop, PhaseOK
    <2>4. row[r].text = old.text
      BY <2>1, <2>3 DEF Rows
    <2>. QED
      BY <1>1, <1>2, <2>1, <2>3, <2>4 DEF Rows
  <1>. QED
    BY <1>1, <1>2 DEF Commit

(* The commit publishes a row; nobody else holds its post. *)
LEMMA CommitIInv ==
    ASSUME IInv, NEW r \in Requests, Commit(r)
    PROVE  IInv'
<1>1. CASE row[r] = NoRow
  <2>1. Finish(r) /\ UNCHANGED <<posts, nextId, lastSet, deletions>>
    BY <1>1 DEF Commit
  <2>. QED
    BY <2>1, FinishIInv
<1>2. CASE row[r] # NoRow
  <2>. USE DEF IInv, Finish, Goto
  <2>. DEFINE i == id[r]
              set == [f \in Fields |-> IF f \in change[r] THEN r ELSE lastSet[i][f]]
  <2>1. /\ i \in Ids /\ row[r] \in Rows /\ pc[r] = "commit"
        /\ posts' = [posts EXCEPT ![i] = row[r]]
        /\ lastSet' = [lastSet EXCEPT ![i] = set]
        /\ deletions' = IF op[r] = "delete" THEN [deletions EXCEPT ![i] = @ + 1]
                        ELSE deletions
        /\ Finish(r) /\ nextId' = nextId
    BY <1>2, CommitWrites DEF Commit
  <2>2. WritesOnTop(r) /\ op[r] # "none"
    BY <1>2 DEF WritersApart, PhaseOK
  <2>3. row[r].text = set
    BY <2>1, <2>2 DEF EditsKept, WritesOnTop
  <2>4. set \in [Fields -> Requests \cup {NoWriter}]
    BY <2>1 DEF TypeOK
  <2>5. deletions[i] \in Nat /\ (op[r] = "delete" => deletions[i] = 0 /\ row[r].deleted)
    BY <2>1, <2>2 DEF PostsBorn, WritesOnTop, TypeOK
  <2>6. \A s \in Requests \ {r} : row[s] # NoRow => id[s] # i
    BY <1>2 DEF WritersApart
  <2>7. posts[i] # NoRow => row[r].author = posts[i].author
    BY <2>2 DEF WritesOnTop
  <2>8. ~row[r].deleted => ~posts[i].deleted
    BY <1>2, <2>1, CommitWrites
  <2>. HIDE DEF set
  <2>9. TypeOK'
    BY <2>1, <2>4, <2>5 DEF TypeOK
  <2>10. PhaseOK'
    BY <2>1 DEF PhaseOK, TypeOK
  <2>11. PostsBorn'
    BY <2>1, <2>2, <2>5, <2>8 DEF PostsBorn, WritesOnTop, TypeOK
  <2>12. EditsKept'
    BY <2>1, <2>3 DEF EditsKept, TypeOK
  <2>13. DeletedOnce'
    BY <2>1, <2>5 DEF DeletedOnce, TypeOK
  <2>14. WritersApart'
    <3>1. \A s, t \in Requests :
             s # t /\ row'[s] # NoRow /\ row'[t] # NoRow => id'[s] # id'[t]
      BY <2>1 DEF WritersApart, TypeOK
    <3>2. ASSUME NEW s \in Requests, row'[s] # NoRow PROVE WritesOnTop(s)'
      <4>1. s # r
        BY <3>2, <2>1 DEF TypeOK
      <4>2. /\ row'[s] = row[s] /\ id'[s] = id[s] /\ op'[s] = op[s]
            /\ change'[s] = change[s]
        BY <4>1, <2>1 DEF TypeOK
      <4>3. WritesOnTop(s) /\ posts'[id[s]] = posts[id[s]]
        BY <3>2, <4>1, <4>2, <2>1, <2>6 DEF WritersApart, PhaseOK, TypeOK
      <4>. QED
        BY <4>2, <4>3, <2>1 DEF WritesOnTop
    <3>. QED
      BY <3>1, <3>2 DEF WritersApart
  <2>15. ReasonTrue'
    <3>1. ASSUME NEW s \in Requests, s # r, id[s] \in Ids, posts[id[s]] \in Rows
          PROVE  /\ posts'[id[s]] \in Rows
                 /\ posts'[id[s]].author = posts[id[s]].author
      BY <3>1, <2>1, <2>7, RowsAreRows DEF TypeOK
    <3>2. \A s \in Requests \ {r} : /\ pc'[s] = pc[s] /\ id'[s] = id[s]
                                    /\ user'[s] = user[s] /\ status'[s] = status[s]
                                    /\ gone'[s] = gone[s]
      BY <2>1 DEF TypeOK
    <3>3. pc'[r] = "idle"
      BY <2>1 DEF TypeOK
    <3>4. \A s \in Requests : pc[s] # "idle" => id[s] \in Ids
      BY DEF PhaseOK
    <3>. QED
      BY <3>1, <3>2, <3>3, <3>4 DEF ReasonTrue
  <2>. QED
    BY <2>9, <2>10, <2>11, <2>12, <2>13, <2>14, <2>15
<1>. QED
  BY <1>1, <1>2

LEMMA StepIInv == IInv /\ [Next]_vars => IInv'
<1>. SUFFICES ASSUME IInv, [Next]_vars PROVE IInv'
  OBVIOUS
<1>1. ASSUME NEW r \in Requests, NEW u \in Users, CreatePost(r, u) PROVE IInv'
  BY <1>1, CreatePostIInv
<1>2. ASSUME NEW r \in Requests, NEW u \in Users, NEW i \in Ids,
             NEW fields \in SUBSET Fields, Begin(r, "update", u, i, fields)
      PROVE  IInv'
  BY <1>2, BeginIInv
<1>3. ASSUME NEW r \in Requests, NEW u \in Users, NEW i \in Ids,
             Begin(r, "delete", u, i, {})
      PROVE  IInv'
  BY <1>3, BeginIInv
<1>4. ASSUME NEW r \in Requests, NEW i \in Ids, ForceDelete(r, i) PROVE IInv'
  BY <1>4, ForceDeleteIInv
<1>5. ASSUME NEW r \in Requests, WriteRow(r) PROVE IInv'
  BY <1>5, WriteRowIInv
<1>6. ASSUME NEW r \in Requests, FindNoRow(r) PROVE IInv'
  BY <1>6, FindNoRowIInv
<1>7. ASSUME NEW r \in Requests, AnalyzeFailure(r) PROVE IInv'
  BY <1>7, AnalyzeFailureIInv
<1>8. ASSUME NEW r \in Requests, Commit(r) PROVE IInv'
  BY <1>8, CommitIInv
<1>9. ASSUME NEW r \in Requests, Fail(r) PROVE IInv'
  BY <1>9, FinishIInv DEF Fail
<1>10. CASE UNCHANGED vars
  BY <1>10 DEF vars, locals, history, IInv, TypeOK, PhaseOK, PostsBorn, WritersApart,
              WritesOnTop, ReasonTrue, EditsKept, DeletedOnce
<1>. QED
  BY <1>1, <1>2, <1>3, <1>4, <1>5, <1>6, <1>7, <1>8, <1>9, <1>10 DEF Next

(* Posts are numbered once and written by one request at a time, with any  *)
(* number of requests. *)
THEOREM Invariance == Spec => []IInv
  BY InitIInv, StepIInv, PTL DEF Spec

(* Overlapping edits of different fields are both kept, and a deletion     *)
(* keeps them (update_post_core, soft_delete_post_core, soft_delete_post). *)
THEOREM EditsAreKept == Spec => []EditsKept
<1>1. IInv => EditsKept
  BY DEF IInv
<1>. QED
  BY <1>1, Invariance, PTL

(* Of overlapping and repeated deletions of a post by its author one       *)
(* succeeds at most (soft_delete_post_core). *)
THEOREM OneDeletion == Spec => []DeletedOnce
<1>1. IInv => DeletedOnce
  BY DEF IInv
<1>. QED
  BY <1>1, Invariance, PTL

(* A deleted post never changes again (update_post_core). *)
THEOREM DeletionIsFinal == Spec => DeletedForGood
<1>1. IInv /\ [Next]_vars
         => [\A i \in Ids : posts[i].deleted => posts'[i] = posts[i]]_vars
  <2>. SUFFICES ASSUME IInv, Next, NEW i \in Ids, posts[i].deleted
                PROVE  posts'[i] = posts[i]
    BY DEF vars
  <2>1. ASSUME NEW r \in Requests, Commit(r) PROVE posts'[i] = posts[i]
    <3>1. CASE row[r] = NoRow
      BY <2>1, <3>1 DEF Commit
    <3>2. CASE row[r] # NoRow
      BY <2>1, <3>2, CommitWrites DEF IInv, TypeOK
    <3>. QED
      BY <3>1, <3>2
  <2>2. ASSUME NEW r \in Requests, Fail(r) PROVE posts' = posts
    BY <2>2 DEF Fail
  <2>3. (\A r \in Requests : ~Commit(r) /\ ~Fail(r)) => posts' = posts
    BY DEF Next, CreatePost, Begin, ForceDelete, WriteRow, FindNoRow, AnalyzeFailure
  <2>. QED
    BY <2>1, <2>2, <2>3
<1>. QED
  BY <1>1, Invariance, PTL DEF Spec, DeletedForGood

(* The second statement tells the truth of the first, whatever happened in *)
(* between (_analyze_failure, the services). *)
THEOREM RefusalsTrue == Spec => RefusalTrue
<1>1. IInv /\ [Next]_vars
         => [\A r \in Requests :
               Commit(r) /\ Answer(r) # "ok"
                  => IF Answer(r) = "UserMismatch" THEN posts[id[r]].author # user[r]
                     ELSE gone[r]]_vars
  <2>. SUFFICES ASSUME IInv, NEW r \in Requests, Commit(r), Answer(r) # "ok"
                PROVE  IF Answer(r) = "UserMismatch" THEN posts[id[r]].author # user[r]
                       ELSE gone[r]
    BY DEF vars
  <2>1. pc[r] = "commit" /\ status[r] \in {"NOT_FOUND", "ALREADY_DELETED", "FORBIDDEN"}
    BY DEF Commit, Answer, IInv, TypeOK, ReasonTrue
  <2>2. CASE status[r] = "FORBIDDEN"
    BY <2>1, <2>2 DEF Answer, IInv, ReasonTrue
  <2>3. CASE status[r] # "FORBIDDEN"
    BY <2>1, <2>3 DEF Answer, IInv, ReasonTrue
  <2>. QED
    BY <2>2, <2>3
<1>. QED
  BY <1>1, Invariance, PTL DEF Spec, RefusalTrue
=============================================================================
