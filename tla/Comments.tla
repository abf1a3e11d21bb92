------------------------------ MODULE Comments ------------------------------
(***************************************************************************)
(* Writing, editing and soft-deleting comments and replies, concurrently:  *)
(*   CommentService        (app/services/comment_service.py)               *)
(*   CommentRepository     (app/repositories/comment.py)                   *)
(* A reply is checked against its parent by a SELECT that takes no lock,   *)
(* and inserted by a later statement.  Whether the post exists is left to  *)
(* the foreign key, and whether it is deleted is not asked: a failing      *)
(* INSERT is Fail.                                                         *)
(***************************************************************************)
EXTENDS Integers, FiniteSets

CONSTANTS
    Requests,    \* connections that serve requests, one by one
    Users,
    Posts,
    MaxComments  \* bound: ids the sequence hands out

ASSUME BoundAssumption == MaxComments \in Nat
ASSUME RequestsAssumption == IsFiniteSet(Requests)

Nobody == "none"
ASSUME UsersAssumption == Nobody \notin Users /\ Nobody \notin Posts

VARIABLES
    comments,  \* committed rows of comments
    nextId,    \* the sequence behind comments.id
    pc,
    op,        \* "register", "update" or "delete"
    user,      \* user_id of the request
    id,        \* comment_id; for a registration, the id it was given
    post,      \* data.post_id of a registration
    parent,    \* data.parent_id, 0 for None
    row,       \* the row the open transaction has written, or NoRow
    status,    \* RepoResult.status
    (* History: *)
    unborn,    \* the comment had no row when the request's UPDATE ran
    bereft,    \* the parent's deletion has committed since the request looked at it
    deletions  \* deletions of a comment answered with success

locals == <<pc, op, user, id, post, parent, row, status>>
history == <<unborn, bereft, deletions>>
vars == <<comments, nextId, locals, history>>

Ids == 1 .. MaxComments
Rows == [post : Posts, author : Users, parent : Ids \cup {0}, deleted : BOOLEAN,
         edited : BOOLEAN]
NoRow == [post |-> Nobody, author |-> Nobody, parent |-> 0, deleted |-> FALSE,
          edited |-> FALSE]

Init ==
    /\ comments = [i \in Ids |-> NoRow]
    /\ nextId = 1
    /\ pc = [r \in Requests |-> "idle"]
    /\ op = [r \in Requests |-> "none"]
    /\ user = [r \in Requests |-> Nobody]
    /\ id = [r \in Requests |-> 0]
    /\ post = [r \in Requests |-> Nobody]
    /\ parent = [r \in Requests |-> 0]
    /\ row = [r \in Requests |-> NoRow]
    /\ status = [r \in Requests |-> "none"]
    /\ unborn = [r \in Requests |-> FALSE]
    /\ bereft = [r \in Requests |-> FALSE]
    /\ deletions = [i \in Ids |-> 0]

Goto(r, l) == pc' = [pc EXCEPT ![r] = l]

(* Registrations under way that have no id yet, and the ids left for them. *)
Numberless == {r \in Requests : op[r] = "register" /\ id[r] = 0}
MayRegister == nextId + Cardinality(Numberless) <= MaxComments

(* register_comment is called, with or without a parent. *)
BeginRegister(r, u, p, par) ==
    /\ pc[r] = "idle"
    /\ MayRegister
    /\ op' = [op EXCEPT ![r] = "register"]
    /\ user' = [user EXCEPT ![r] = u]
    /\ post' = [post EXCEPT ![r] = p]
    /\ parent' = [parent EXCEPT ![r] = par]
    /\ Goto(r, IF par = 0 THEN "insert" ELSE "parent")
    /\ UNCHANGED <<comments, nextId, id, row, status, history>>

(* update_comment or soft_delete_comment is called, for any id. *)
BeginWrite(r, o, u, i) ==
    /\ pc[r] = "idle"
    /\ op' = [op EXCEPT ![r] = o]
    /\ user' = [user EXCEPT ![r] = u]
    /\ id' = [id EXCEPT ![r] = i]
    /\ Goto(r, "write")
    /\ UNCHANGED <<comments, nextId, post, parent, row, status, history>>

Finish(r) ==
    /\ Goto(r, "idle")
    /\ op' = [op EXCEPT ![r] = "none"]
    /\ user' = [user EXCEPT ![r] = Nobody]
    /\ id' = [id EXCEPT ![r] = 0]
    /\ post' = [post EXCEPT ![r] = Nobody]
    /\ parent' = [parent EXCEPT ![r] = 0]
    /\ row' = [row EXCEPT ![r] = NoRow]
    /\ status' = [status EXCEPT ![r] = "none"]
    /\ unborn' = [unborn EXCEPT ![r] = FALSE]

Rollback(r) ==
    /\ Finish(r)
    /\ bereft' = [bereft EXCEPT ![r] = FALSE]
    /\ UNCHANGED <<comments, nextId, deletions>>

(* Plausible bug: a parent that is a reply itself, or of another post. *)
TakesAnyReply(r) ==
    LET c == comments[parent[r]] IN c # NoRow /\ ~c.deleted

(* Plausible bug: the SELECT of the parent forgets is_deleted. *)
TakesDeletedParent(r) ==
    LET c == comments[parent[r]] IN c # NoRow /\ c.parent = 0 /\ c.post = post[r]

(* The parent register_comment accepts: live, top-level, of the same post. *)
TakesReply(r) ==
    LET c == comments[parent[r]]
    IN  c # NoRow /\ ~c.deleted /\ c.parent = 0 /\ c.post = post[r]

(* get_comment_by_parent_id and the three checks; each raises. *)
CheckParent(r) ==
    /\ pc[r] = "parent"
    /\ \/ /\ TakesReply(r)
          /\ Goto(r, "insert")
          /\ UNCHANGED <<comments, nextId, op, user, id, post, parent, row, status, history>>
       \/ /\ ~TakesReply(r)
          /\ Rollback(r)

NewComment(r) ==
    [post |-> post[r], author |-> user[r], parent |-> parent[r],
     deleted |-> FALSE, edited |-> FALSE]

(* add_comment: INSERT at the flush.  The foreign key on parent_id needs   *)
(* the parent's row, deleted or not. *)
AddComment(r) ==
    /\ pc[r] = "insert"
    /\ id' = [id EXCEPT ![r] = nextId]
    /\ nextId' = nextId + 1
    /\ row' = [row EXCEPT ![r] = NewComment(r)]
    /\ Goto(r, "commit")
    /\ UNCHANGED <<comments, op, user, post, parent, status, history>>

(* Plausible bug: the WHERE forgets is_deleted. *)
MatchesDeleted(r) == comments[id[r]].author = user[r]

(* The WHERE of both UPDATEs, on the committed row. *)
Matches(r) == comments[id[r]].author = user[r] /\ ~comments[id[r]].deleted

(* Plausible bug: the row is read, changed in Python and written back. *)
RowNeverLocked(r) == FALSE

(* Another open transaction has updated the row; the UPDATE waits for it   *)
(* and then evaluates its WHERE anew. *)
RowLocked(r) == \E s \in Requests \ {r} : row[s] # NoRow /\ id[s] = id[r]

(* update_comment_core, soft_delete_comment_core: the UPDATE ... *)
WriteRow(r) ==
    /\ pc[r] = "write"
    /\ Matches(r)
    /\ ~RowLocked(r)
    /\ row' = [row EXCEPT ![r] = IF op[r] = "update"
                                 THEN [comments[id[r]] EXCEPT !.edited = TRUE]
                                 ELSE [comments[id[r]] EXCEPT !.deleted = TRUE]]
    /\ Goto(r, "commit")
    /\ UNCHANGED <<comments, nextId, op, user, id, post, parent, status, history>>

FindNoRow(r) ==
    /\ pc[r] = "write"
    /\ ~Matches(r)
    /\ Goto(r, "analyze")
    /\ unborn' = [unborn EXCEPT ![r] = comments[id[r]] = NoRow]
    /\ UNCHANGED <<comments, nextId, op, user, id, post, parent, row, status, bereft, deletions>>

(* Plausible bug: what is left after NOT_FOUND is FORBIDDEN. *)
FailureWithoutDeleted(r) ==
    IF comments[id[r]] = NoRow THEN "NOT_FOUND" ELSE "FORBIDDEN"

(* ... or, when it finds no row, why: update_comment_core looks itself and *)
(* does not compare the author, _analyze_failure does. *)
Failure(r) ==
    LET c == comments[id[r]]
    IN  IF c = NoRow THEN "NOT_FOUND"
        ELSE IF c.deleted THEN IF op[r] = "update" THEN "NOT_FOUND" ELSE "ALREADY_DELETED"
        ELSE IF op[r] = "update" \/ c.author # user[r] THEN "FORBIDDEN"
        ELSE "NOT_FOUND"

AnalyzeFailure(r) ==
    /\ pc[r] = "analyze"
    /\ status' = [status EXCEPT ![r] = Failure(r)]
    /\ Goto(r, "commit")
    /\ UNCHANGED <<comments, nextId, op, user, id, post, parent, row, history>>

(* The request is past the look at its parent, which is comment i. *)
TrustsParent(r, i) == op[r] = "register" /\ pc[r] \in {"insert", "commit"} /\ parent[r] = i

(* The transaction commits.  Statuses other than SUCCESS raise now, with   *)
(* nothing left to roll back. *)
Commit(r) ==
    /\ pc[r] = "commit"
    /\ comments' = IF row[r] = NoRow THEN comments
                   ELSE [comments EXCEPT ![id[r]] = row[r]]
    /\ LET deletes == row[r] # NoRow /\ op[r] = "delete"
       IN  /\ deletions' = IF deletes THEN [deletions EXCEPT ![id[r]] = @ + 1] ELSE deletions
           /\ bereft' = [s \in Requests |->
                            s # r /\ (bereft[s] \/ (deletes /\ TrustsParent(s, id[r])))]
    /\ Finish(r)
    /\ UNCHANGED nextId

(* A statement raises (a foreign key names no row), or the process dies. *)
Fail(r) == pc[r] # "idle" /\ Rollback(r)

Next ==
    \E r \in Requests :
        \/ \E u \in Users :
              \/ \E p \in Posts, par \in Ids \cup {0} : BeginRegister(r, u, p, par)
              \/ \E o \in {"update", "delete"}, i \in Ids : BeginWrite(r, o, u, i)
        \/ CheckParent(r)
        \/ AddComment(r)
        \/ WriteRow(r)
        \/ FindNoRow(r)
        \/ AnalyzeFailure(r)
        \/ Commit(r)
        \/ Fail(r)

Spec == Init /\ [][Next]_vars
-----------------------------------------------------------------------------
TypeOK ==
    /\ comments \in [Ids -> Rows \cup {NoRow}]
    /\ nextId \in 1 .. MaxComments + 1
    /\ pc \in [Requests -> {"idle", "parent", "insert", "write", "analyze", "commit"}]
    /\ op \in [Requests -> {"none", "register", "update", "delete"}]
    /\ user \in [Requests -> Users \cup {Nobody}]
    /\ id \in [Requests -> Ids \cup {0}]
    /\ post \in [Requests -> Posts \cup {Nobody}]
    /\ parent \in [Requests -> Ids \cup {0}]
    /\ row \in [Requests -> Rows \cup {NoRow}]
    /\ status \in [Requests -> {"none", "NOT_FOUND", "ALREADY_DELETED", "FORBIDDEN"}]
    /\ unborn \in [Requests -> BOOLEAN]
    /\ bereft \in [Requests -> BOOLEAN]
    /\ deletions \in [Ids -> Nat]

(* A thread has one level, under one post, whatever was edited, deleted or *)
(* rolled back between the look at the parent and the INSERT: the parent   *)
(* of a reply is a committed top-level comment of the same post            *)
(* (register_comment). *)
ThreadsFlat ==
    \A i \in Ids :
        LET c == comments[i]
        IN  c.parent # 0 => /\ c.parent < i
                            /\ comments[c.parent] # NoRow
                            /\ comments[c.parent].parent = 0
                            /\ comments[c.parent].post = c.post

(* Of overlapping and repeated deletions of a comment one succeeds         *)
(* (soft_delete_comment_core). *)
DeletedOnce == \A i \in Ids : deletions[i] <= 1

(* What a request has written is its change on top of the committed row,   *)
(* which is not a deleted one. *)
WritesOnTop(r) ==
    LET old == comments[id[r]]
    IN  /\ id[r] < nextId
        /\ op[r] = "register" <=> old = NoRow
        /\ IF op[r] = "register"
           THEN row[r] = NewComment(r) /\ parent[r] < id[r]
           ELSE /\ ~old.deleted
                /\ row[r] = [old EXCEPT !.edited = row[r].edited, !.deleted = op[r] = "delete"]

(* Open transactions have written to different comments. *)
WritersApart ==
    /\ \A r, s \in Requests :
          r # s /\ row[r] # NoRow /\ row[s] # NoRow => id[r] # id[s]
    /\ \A r \in Requests : row[r] # NoRow => WritesOnTop(r)

(* A parent stays acceptable but for a deletion that commits between the   *)
(* look at it and the commit of the reply. *)
ParentsStay ==
    \A r \in Requests, i \in Ids :
        LET c == comments[i]
        IN  TrustsParent(r, i) => /\ c # NoRow /\ c.parent = 0 /\ c.post = post[r]
                                  /\ c.deleted => bereft[r]

CommentsBorn ==
    \A i \in Ids :
        /\ comments[i] # NoRow => i < nextId
        /\ ~comments[i].deleted => deletions[i] = 0

(* Every registration under way finds an id left. *)
IdsLeft == nextId + Cardinality(Numberless) <= MaxComments + 1

(* Where requests are and what they know there. *)
PhaseOK ==
    \A r \in Requests :
        /\ pc[r] = "idle" => op[r] = "none" /\ id[r] = 0
        /\ pc[r] # "commit" => row[r] = NoRow /\ status[r] = "none"
        /\ pc[r] = "parent" => parent[r] \in Ids
        /\ pc[r] \in {"parent", "insert"} =>
              op[r] = "register" /\ user[r] \in Users /\ post[r] \in Posts /\ id[r] = 0
        /\ pc[r] \in {"write", "analyze"} =>
              op[r] \in {"update", "delete"} /\ user[r] \in Users
        /\ pc[r] \in {"write", "analyze", "commit"} => id[r] \in Ids /\ op[r] # "none"

(* What the UPDATE of the author's own comment has seen stays true until   *)
(* the commit: it is deleted, or not his. *)
ReasonTrue ==
    \A r \in Requests :
        LET c == comments[id[r]]
        IN  ~unborn[r] =>
               /\ pc[r] = "analyze" => c # NoRow /\ (c.author # user[r] \/ c.deleted)
               /\ pc[r] = "commit" /\ status[r] = "FORBIDDEN" => c # NoRow /\ c.author # user[r]

(* Comments are numbered once, written by one request at a time and        *)
(* answered only on their own level; on it rests that threads stay flat    *)
(* and no deletion succeeds twice (CommentService, CommentRepository). *)
IInv ==
    /\ TypeOK /\ PhaseOK /\ IdsLeft /\ CommentsBorn /\ WritersApart /\ ParentsStay /\ ReasonTrue
    /\ ThreadsFlat /\ DeletedOnce

(* A deleted comment never changes again, not by an edit that was under    *)
(* way or waited for the deletion (update_comment_core). *)
DeletedForGood ==
    [][\A i \in Ids : comments[i].deleted => comments'[i] = comments[i]]_vars

(* A reply enters under a deleted comment only if that comment's deletion  *)
(* committed after the reply's own look at it: register_comment does not   *)
(* lock the parent, but refuses every one whose deletion it can see        *)
(* (register_comment, get_comment_by_parent_id). *)
ReplyUnderDeletedOnlyIfRaced ==
    [][\A r \in Requests, i \in Ids :
         Commit(r) /\ op[r] = "register" /\ parent[r] = i /\ comments[i].deleted
            => bereft[r]]_vars

(* Who is told that the comment is another user's is not its author, or    *)
(* asked before the comment existed: only then update_comment_core, which  *)
(* does not compare the author when it looks for the reason, can take him  *)
(* for somebody else (update_comment_core, _analyze_failure). *)
AuthorRefusedOnlyUnborn ==
    [][\A r \in Requests :
         Commit(r) /\ status[r] = "FORBIDDEN" /\ comments[id[r]].author = user[r]
            => unborn[r]]_vars
=============================================================================
