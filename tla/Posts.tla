-------------------------------- MODULE Posts --------------------------------
(***************************************************************************)
(* Creating, editing and soft-deleting posts, concurrently:                *)
(*   PostService.create_post, update_post_core, soft_delete_post           *)
(*   PostRepository.create_post, update_post_core, soft_delete_post_core,  *)
(*   soft_delete_post (no caller yet), _analyze_failure                    *)
(* An edit or a deletion is one UPDATE that names the author and the live  *)
(* row in its WHERE; when it finds no row, a second statement looks why.   *)
(* Any other request may run between the two.  A text is the request that  *)
(* wrote it last.                                                          *)
(***************************************************************************)
EXTENDS Naturals

CONSTANTS
    Requests,  \* connections that serve requests, one by one
    Users,
    Fields,    \* columns PostUpdate may set or leave alone
    MaxPosts   \* bound: ids the sequence hands out

ASSUME BoundAssumption == MaxPosts \in Nat

NoUser == "none"
NoWriter == "nobody"
ASSUME UsersAssumption == NoUser \notin Users

VARIABLES
    posts,   \* committed rows of posts
    nextId,  \* the sequence behind posts.id
    pc,
    op,      \* "create", "update", "delete" or "force"
    user,    \* user_id of the request
    id,      \* post_id
    change,  \* the fields an update sets: those not None in PostUpdate
    row,     \* the row the open transaction has written, or NoRow
    status,  \* RepoResult.status
    (* History: *)
    gone,    \* the request has seen its post missing or deleted
    lastSet, \* the request whose committed write set a field last
    deletions \* the author's deletions of a post that succeeded

locals == <<pc, op, user, id, change, row, status>>
history == <<gone, lastSet, deletions>>
vars == <<posts, nextId, locals, history>>

Ids == 1 .. MaxPosts
Rows == [author : Users, deleted : BOOLEAN, text : [Fields -> Requests]]
NoRow == [author |-> NoUser, deleted |-> FALSE, text |-> [f \in Fields |-> NoWriter]]

Init ==
    /\ posts = [i \in Ids |-> NoRow]
    /\ nextId = 1
    /\ pc = [r \in Requests |-> "idle"]
    /\ op = [r \in Requests |-> "none"]
    /\ user = [r \in Requests |-> NoUser]
    /\ id = [r \in Requests |-> 0]
    /\ change = [r \in Requests |-> {}]
    /\ row = [r \in Requests |-> NoRow]
    /\ status = [r \in Requests |-> "none"]
    /\ gone = [r \in Requests |-> FALSE]
    /\ lastSet = [i \in Ids |-> NoRow.text]
    /\ deletions = [i \in Ids |-> 0]

Goto(r, l) == pc' = [pc EXCEPT ![r] = l]

(* create_post: INSERT ... RETURNING, which takes an id for good. *)
CreatePost(r, u) ==
    /\ pc[r] = "idle"
    /\ nextId <= MaxPosts
    /\ nextId' = nextId + 1
    /\ op' = [op EXCEPT ![r] = "create"]
    /\ user' = [user EXCEPT ![r] = u]
    /\ id' = [id EXCEPT ![r] = nextId]
    /\ change' = [change EXCEPT ![r] = Fields]
    /\ row' = [row EXCEPT ![r] =
                  [author |-> u, deleted |-> FALSE, text |-> [f \in Fields |-> r]]]
    /\ status' = [status EXCEPT ![r] = "SUCCESS"]
    /\ Goto(r, "commit")
    /\ UNCHANGED <<posts, history>>

(* An update or a delete request arrives, for any id. *)
Begin(r, o, u, i, fields) ==
    /\ pc[r] = "idle"
    /\ op' = [op EXCEPT ![r] = o]
    /\ user' = [user EXCEPT ![r] = u]
    /\ id' = [id EXCEPT ![r] = i]
    /\ change' = [change EXCEPT ![r] = fields]
    /\ Goto(r, "write")
    /\ UNCHANGED <<posts, nextId, row, status, history>>

(* Plausible bug: the WHERE forgets is_deleted. *)
MatchesDeleted(r) == posts[id[r]].author = user[r]

(* The WHERE of both UPDATEs, on the committed row. *)
Matches(r) == posts[id[r]].author = user[r] /\ ~posts[id[r]].deleted

(* Plausible bug: the row is read, changed in Python and written back. *)
RowNeverLocked(r, i) == FALSE

(* Another open transaction has updated the row.  The UPDATE waits for it  *)
(* and then evaluates its WHERE anew. *)
RowLocked(r, i) == \E s \in Requests \ {r} : row[s] # NoRow /\ id[s] = i

Missing(r) == posts[id[r]] = NoRow \/ posts[id[r]].deleted

(* Plausible bug: vals holds the fields that are None, too. *)
WrittenNulls(r) ==
    LET old == posts[id[r]]
    IN  IF op[r] = "update"
        THEN [old EXCEPT !.text = [f \in Fields |-> IF f \in change[r] THEN r ELSE NoWriter]]
        ELSE [old EXCEPT !.deleted = TRUE]

(* What the UPDATE writes: the columns of vals, or is_deleted. *)
Written(r) ==
    LET old == posts[id[r]]
    IN  IF op[r] = "update"
        THEN [old EXCEPT !.text = [f \in Fields |-> IF f \in change[r] THEN r ELSE @[f]]]
        ELSE [old EXCEPT !.deleted = TRUE]

(* update_post_core and soft_delete_post_core: the UPDATE finds its row ... *)
WriteRow(r) ==
    /\ pc[r] = "write"
    /\ Matches(r)
    /\ ~RowLocked(r, id[r])
    /\ row' = [row EXCEPT ![r] = Written(r)]
    /\ status' = [status EXCEPT ![r] = "SUCCESS"]
    /\ Goto(r, "commit")
    /\ UNCHANGED <<posts, nextId, op, user, id, change, history>>

(* ... or does not. *)
FindNoRow(r) ==
    /\ pc[r] = "write"
    /\ ~Matches(r)
    /\ Goto(r, "analyze")
    /\ gone' = [gone EXCEPT ![r] = Missing(r)]
    /\ UNCHANGED <<posts, nextId, op, user, id, change, row, status, lastSet, deletions>>

(* soft_delete_post, the deletion by an administrator: an UPDATE that asks  *)
(* neither for the author nor for a live row, and is told of no failure.   *)
ForceDelete(r, i) ==
    /\ pc[r] = "idle"
    /\ posts[i] # NoRow
    /\ ~RowLocked(r, i)
    /\ op' = [op EXCEPT ![r] = "force"]
    /\ id' = [id EXCEPT ![r] = i]
    /\ row' = [row EXCEPT ![r] = [posts[i] EXCEPT !.deleted = TRUE]]
    /\ status' = [status EXCEPT ![r] = "SUCCESS"]
    /\ Goto(r, "commit")
    /\ UNCHANGED <<posts, nextId, user, change, history>>

(* Plausible bug: the author is not compared (update_comment_core does     *)
(* not). *)
FailureWithoutAuthor(r) ==
    IF posts[id[r]] = NoRow THEN "NOT_FOUND"
    ELSE IF posts[id[r]].deleted THEN "ALREADY_DELETED" ELSE "FORBIDDEN"

(* What _analyze_failure finds.  The last case is a post its author has    *)
(* created since the UPDATE. *)
Failure(r) ==
    IF posts[id[r]] = NoRow THEN "NOT_FOUND"
    ELSE IF posts[id[r]].deleted THEN "ALREADY_DELETED"
    ELSE IF posts[id[r]].author # user[r] THEN "FORBIDDEN"
    ELSE "NOT_FOUND"

AnalyzeFailure(r) ==
    /\ pc[r] = "analyze"
    /\ status' = [status EXCEPT ![r] = Failure(r)]
    /\ gone' = [gone EXCEPT ![r] = @ \/ Missing(r)]
    /\ Goto(r, "commit")
    /\ UNCHANGED <<posts, nextId, op, user, id, change, row, lastSet, deletions>>

(* How the services answer a status; update_post_core does not handle      *)
(* ALREADY_DELETED. *)
Answer(r) ==
    CASE status[r] = "SUCCESS" -> "ok"
      [] status[r] = "NOT_FOUND" -> "PostNotFound"
      [] status[r] = "ALREADY_DELETED" /\ op[r] = "delete" -> "PostNotFound"
      [] status[r] = "FORBIDDEN" -> "UserMismatch"
      [] OTHER -> "InternalServer"

Finish(r) ==
    /\ Goto(r, "idle")
    /\ op' = [op EXCEPT ![r] = "none"]
    /\ user' = [user EXCEPT ![r] = NoUser]
    /\ id' = [id EXCEPT ![r] = 0]
    /\ change' = [change EXCEPT ![r] = {}]
    /\ row' = [row EXCEPT ![r] = NoRow]
    /\ status' = [status EXCEPT ![r] = "none"]
    /\ gone' = [gone EXCEPT ![r] = FALSE]

(* The transaction commits, and the service answers or raises. *)
Commit(r) ==
    /\ pc[r] = "commit"
    /\ posts' = IF row[r] = NoRow THEN posts ELSE [posts EXCEPT ![id[r]] = row[r]]
    /\ lastSet' = IF row[r] = NoRow THEN lastSet
                  ELSE [lastSet EXCEPT ![id[r]] =
                           [f \in Fields |-> IF f \in change[r] THEN r ELSE @[f]]]
    /\ deletions' = IF row[r] # NoRow /\ op[r] = "delete"
                    THEN [deletions EXCEPT ![id[r]] = @ + 1] ELSE deletions
    /\ Finish(r)
    /\ UNCHANGED nextId

(* A statement raises or the process dies: rollback. *)
Fail(r) ==
    /\ pc[r] # "idle"
    /\ Finish(r)
    /\ UNCHANGED <<posts, nextId, lastSet, deletions>>

Next ==
    \E r \in Requests :
        \/ \E u \in Users :
              \/ CreatePost(r, u)
              \/ \E i \in Ids :
                    \/ \E fields \in SUBSET Fields : Begin(r, "update", u, i, fields)
                    \/ Begin(r, "delete", u, i, {})
        \/ \E i \in Ids : ForceDelete(r, i)
        \/ WriteRow(r)
        \/ FindNoRow(r)
        \/ AnalyzeFailure(r)
        \/ Commit(r)
        \/ Fail(r)

Spec == Init /\ [][Next]_vars
-----------------------------------------------------------------------------
TypeOK ==
    /\ posts \in [Ids -> Rows \cup {NoRow}]
    /\ nextId \in 1 .. MaxPosts + 1
    /\ pc \in [Requests -> {"idle", "write", "analyze", "commit"}]
    /\ op \in [Requests -> {"none", "create", "update", "delete", "force"}]
    /\ user \in [Requests -> Users \cup {NoUser}]
    /\ id \in [Requests -> Ids \cup {0}]
    /\ change \in [Requests -> SUBSET Fields]
    /\ row \in [Requests -> Rows \cup {NoRow}]
    /\ status \in [Requests -> {"none", "SUCCESS", "NOT_FOUND", "ALREADY_DELETED",
                                "FORBIDDEN"}]
    /\ gone \in [Requests -> BOOLEAN]
    /\ lastSet \in [Ids -> [Fields -> Requests \cup {NoWriter}]]
    /\ deletions \in [Ids -> Nat]

(* Every field of a post holds what the last committed request that set it *)
(* wrote: overlapping edits of different fields are both kept, and a       *)
(* deletion, by whomever, keeps them (update_post_core,                    *)
(* soft_delete_post_core, soft_delete_post). *)
EditsKept == \A i \in Ids : posts[i].text = lastSet[i]

(* Of overlapping and repeated deletions of a post by its author one       *)
(* succeeds at most, beside any by an administrator                        *)
(* (soft_delete_post_core). *)
DeletedOnce == \A i \in Ids : deletions[i] <= 1

(* What a request has written is its change on top of the committed row,   *)
(* which is not a deleted one unless an administrator writes. *)
WritesOnTop(r) ==
    LET old == posts[id[r]]
    IN  /\ id[r] < nextId
        /\ op[r] = "create" <=> old = NoRow
        /\ op[r] # "create" => row[r].author = old.author
        /\ op[r] \in {"update", "delete"} => ~old.deleted
        /\ row[r].deleted <=> op[r] \in {"delete", "force"}
        /\ row[r].text = [f \in Fields |-> IF f \in change[r] THEN r ELSE old.text[f]]

(* Open transactions have written to different posts. *)
WritersApart ==
    /\ \A r, s \in Requests :
          r # s /\ row[r] # NoRow /\ row[s] # NoRow => id[r] # id[s]
    /\ \A r \in Requests : row[r] # NoRow => WritesOnTop(r)

(* Where requests are and what they know there. *)
PhaseOK ==
    \A r \in Requests :
        /\ IF pc[r] = "idle" THEN op[r] = "none" /\ change[r] = {} ELSE id[r] \in Ids
        /\ pc[r] \in {"write", "analyze"} =>
              user[r] \in Users /\ op[r] \in {"update", "delete"}
        /\ pc[r] = "commit" /\ status[r] # "SUCCESS" => user[r] \in Users
        /\ row[r] # NoRow => pc[r] = "commit" /\ op[r] # "none"
        /\ op[r] \in {"delete", "force"} => change[r] = {}

(* The author never changes, so what the UPDATE and _analyze_failure have  *)
(* seen of him stays true. *)
ReasonTrue ==
    \A r \in Requests :
        LET foreign == posts[id[r]] \in Rows /\ posts[id[r]].author # user[r]
        IN  /\ pc[r] = "analyze" /\ ~gone[r] => foreign
            /\ pc[r] = "commit" =>
                  /\ status[r] # "none"
                  /\ status[r] = "FORBIDDEN" => foreign
                  /\ status[r] \in {"NOT_FOUND", "ALREADY_DELETED"} => gone[r]

PostsBorn ==
    /\ \A i \in Ids : posts[i] # NoRow => i < nextId
    /\ \A i \in Ids : ~posts[i].deleted => deletions[i] = 0

(* Posts are numbered once and written by one request at a time; on it     *)
(* rests that no edit is lost and no deletion succeeds twice               *)
(* (update_post_core, soft_delete_post_core, soft_delete_post). *)
IInv ==
    /\ TypeOK /\ PhaseOK /\ PostsBorn /\ WritersApart /\ ReasonTrue
    /\ EditsKept /\ DeletedOnce

(* A deleted post never changes again, not by an edit that was under way   *)
(* or waited for the deletion (update_post_core). *)
DeletedForGood == [][\A i \in Ids : posts[i].deleted => posts'[i] = posts[i]]_vars

(* The second statement tells the truth of the first, whatever happened in *)
(* between: who is told that the post is another user's is not its author, *)
(* and who is told that it does not exist, or gets the internal error of a *)
(* deleted one, saw it missing or deleted at one of the two statements     *)
(* (_analyze_failure, the services). *)
RefusalTrue ==
    [][\A r \in Requests :
         Commit(r) /\ Answer(r) # "ok"
            => IF Answer(r) = "UserMismatch" THEN posts[id[r]].author # user[r]
               ELSE gone[r]]_vars

(* The docstring of PostService.update_post_core: a deleted post raises    *)
(* PostNotFoundException, InternalServerException is for database errors.  *)
NoInternalError ==
    [][\A r \in Requests : Commit(r) => Answer(r) # "InternalServer"]_vars
=============================================================================
