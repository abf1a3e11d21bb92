------------------------------ MODULE Bookmarks ------------------------------
(***************************************************************************)
(* Concurrent bookmark toggles:                                            *)
(*   PostService.toggle_bookmark_to_post   (app/services/post_service.py)  *)
(*   BookmarkRepository                    (app/repositories/bookmark.py)  *)
(* The same protocol as a like, without a counter and with a look at the   *)
(* post that accepts deleted ones: exists only asks for the row.           *)
(***************************************************************************)
EXTENDS Naturals

CONSTANTS
    Requests,  \* connections that serve toggle requests
    Users,
    Posts      \* post ids, those of rows of posts and others

NoPair == <<>>
Pairs == Users \X Posts

VARIABLES
    rows,       \* ids of the committed rows of posts; none is ever removed
    bookmarks,  \* committed rows of bookmarks: a set of <<user, post>>
    pc,
    pair,       \* (user_id, post_id) of the request
    adds,       \* what exists decided: regist, or remove
    wrote,      \* the row its open transaction has written
    served      \* r's last toggle was answered, and did not fail

vars == <<rows, bookmarks, pc, pair, adds, wrote, served>>

Init ==
    /\ rows = {}
    /\ bookmarks = {}
    /\ pc = [r \in Requests |-> "idle"]
    /\ pair = [r \in Requests |-> NoPair]
    /\ adds = [r \in Requests |-> FALSE]
    /\ wrote = [r \in Requests |-> "none"]
    /\ served = [r \in Requests |-> FALSE]

(* PostRepository.create_post, committed. *)
CreatePost(p) ==
    /\ p \notin rows
    /\ rows' = rows \cup {p}
    /\ UNCHANGED <<bookmarks, pc, pair, adds, wrote, served>>

(* posts.exists; without a row the request ends with PostNotFoundException.*)
PostExists(r, u, p) ==
    /\ pc[r] = "idle"
    /\ p \in rows
    /\ pc' = [pc EXCEPT ![r] = "exists"]
    /\ pair' = [pair EXCEPT ![r] = <<u, p>>]
    /\ UNCHANGED <<rows, bookmarks, adds, wrote, served>>

(* bookmarks.exists chooses between remove and regist. *)
BookmarkExists(r) ==
    /\ pc[r] = "exists"
    /\ adds' = [adds EXCEPT ![r] = pair[r] \notin bookmarks]
    /\ pc' = [pc EXCEPT ![r] = "write"]
    /\ UNCHANGED <<rows, bookmarks, pair, wrote, served>>

(* Plausible bug: no unique constraint, so nothing waits. *)
RowNeverLocked(r) == FALSE

(* Another open transaction has inserted or deleted the row. *)
RowLocked(r) == \E s \in Requests \ {r} : wrote[s] # "none" /\ pair[s] = pair[r]

(* regist: INSERT ... ON CONFLICT DO NOTHING *)
Regist(r) ==
    /\ pc[r] = "write"
    /\ adds[r]
    /\ ~RowLocked(r)
    /\ wrote' = [wrote EXCEPT ![r] = IF pair[r] \in bookmarks THEN "none" ELSE "insert"]
    /\ pc' = [pc EXCEPT ![r] = "commit"]
    /\ UNCHANGED <<rows, bookmarks, pair, adds, served>>

(* remove: DELETE, which waits for another DELETE of the committed row and *)
(* does not see a row that another transaction has inserted *)
Remove(r) ==
    /\ pc[r] = "write"
    /\ ~adds[r]
    /\ pair[r] \in bookmarks => ~RowLocked(r)
    /\ wrote' = [wrote EXCEPT ![r] = IF pair[r] \in bookmarks THEN "delete" ELSE "none"]
    /\ pc' = [pc EXCEPT ![r] = "commit"]
    /\ UNCHANGED <<rows, bookmarks, pair, adds, served>>

Finish(r, success) ==
    /\ served' = [served EXCEPT ![r] = success]
    /\ pc' = [pc EXCEPT ![r] = "idle"]
    /\ pair' = [pair EXCEPT ![r] = NoPair]
    /\ adds' = [adds EXCEPT ![r] = FALSE]
    /\ wrote' = [wrote EXCEPT ![r] = "none"]

Commit(r) ==
    /\ pc[r] = "commit"
    /\ bookmarks' = CASE wrote[r] = "insert" -> bookmarks \cup {pair[r]}
                      [] wrote[r] = "delete" -> bookmarks \ {pair[r]}
                      [] OTHER -> bookmarks
    /\ Finish(r, TRUE)
    /\ UNCHANGED rows

(* A statement raises or the process dies: rollback. *)
Fail(r) ==
    /\ pc[r] # "idle"
    /\ Finish(r, FALSE)
    /\ UNCHANGED <<rows, bookmarks>>

Step(r) ==
    \/ BookmarkExists(r)
    \/ Regist(r)
    \/ Remove(r)
    \/ Commit(r)

Next ==
    \/ \E r \in Requests :
          \/ \E u \in Users, p \in Posts : PostExists(r, u, p)
          \/ Step(r)
          \/ Fail(r)
    \/ \E p \in Posts : CreatePost(p)

Spec == Init /\ [][Next]_vars
-----------------------------------------------------------------------------
TypeOK ==
    /\ pc \in [Requests -> {"idle", "exists", "write", "commit"}]
    /\ pair \in [Requests -> Pairs \cup {NoPair}]
    /\ adds \in [Requests -> BOOLEAN]
    /\ wrote \in [Requests -> {"none", "insert", "delete"}]
    /\ served \in [Requests -> BOOLEAN]
    /\ bookmarks \subseteq Pairs

(* An open transaction holds its pair alone, and what it has written is    *)
(* the opposite of what is committed. *)
RowsHeld ==
    /\ \A r \in Requests :
          /\ pc[r] # "idle" => pair[r] \in Pairs
          /\ pc[r] \in {"idle", "exists"} => ~adds[r]
          /\ wrote[r] # "none" => pc[r] = "commit"
          /\ wrote[r] = "insert" => adds[r] /\ pair[r] \notin bookmarks
          /\ wrote[r] = "delete" => ~adds[r] /\ pair[r] \in bookmarks
    /\ \A r, s \in Requests :
          r # s /\ wrote[r] # "none" /\ wrote[s] # "none" => pair[r] # pair[s]

(* Overlapping toggles of one bookmark change its row one after the other  *)
(* (regist, remove). *)
IInv == TypeOK /\ RowsHeld

(* toggle_bookmark_to_post implements the atomic toggle of SetToggle: it   *)
(* aims once bookmarks.exists has answered, and has agreed once its        *)
(* statement found that another toggle had already done the same. *)
AbsPhase(r) ==
    IF pc[r] \in {"idle", "exists"} THEN "idle"
    ELSE IF pc[r] = "commit" /\ wrote[r] = "none" THEN "agreed" ELSE "aiming"

AbsItem(r) == IF pc[r] \in {"idle", "exists"} THEN NoPair ELSE pair[r]

Toggle == INSTANCE SetToggle
    WITH Clients <- Requests, Items <- Pairs, members <- bookmarks,
         phase <- [r \in Requests |-> AbsPhase(r)],
         item <- [r \in Requests |-> AbsItem(r)],
         want <- adds

ImplementsSetToggle == Toggle!AbsSpec
=============================================================================
