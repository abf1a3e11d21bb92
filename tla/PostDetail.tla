----------------------------- MODULE PostDetail -----------------------------
(***************************************************************************)
(* The detail of a post, read while others like and unlike it:             *)
(*   PostService.read_post_by_id         (app/services/post_service.py)    *)
(*   PostRepository.get_post_with_user   (app/repositories/post.py)        *)
(*   LikeRepository.exists_like          (app/repositories/like.py)        *)
(* beside the toggles of LikeToggle.  The post, with its likes_count, and  *)
(* the reader's own like are read by two statements of one transaction;    *)
(* at READ COMMITTED each sees the rows of its own moment.                 *)
(***************************************************************************)
EXTENDS LikeToggle

CONSTANT Readers  \* the users who read details, one at a time

ASSUME ReadersAssumption == Readers \subseteq Users

VARIABLES
    reading,  \* the (user_id, post_id) of a read between its two statements
    shown,    \* the likes_count it will answer
    outdated  \* history: shown is, or has become, another number than the
              \* likes of the post

readerVars == <<reading, shown, outdated>>
detailVars == <<vars, readerVars>>

DetailInit ==
    /\ Init
    /\ reading = [d \in Readers |-> NoPair]
    /\ shown = [d \in Readers |-> 0]
    /\ outdated = [d \in Readers |-> FALSE]

(* get_post_with_user: the row as committed, unless the post is deleted    *)
(* (PostNotFoundException).                                                *)
ReadPost(d, p) ==
    /\ reading[d] = NoPair
    /\ p \notin deleted
    /\ reading' = [reading EXCEPT ![d] = <<d, p>>]
    /\ shown' = [shown EXCEPT ![d] = likesCount[p]]
    /\ outdated' = [outdated EXCEPT ![d] = p \in drifted]
    /\ UNCHANGED vars

(* Plausible bug: the answer means what is_liked means in toggle_like_post, *)
(* that a toggle would now like. *)
WouldLike(d) == reading[d] \notin likes

LikedByMe(d) == reading[d] \in likes

EndRead(d) ==
    /\ reading' = [reading EXCEPT ![d] = NoPair]
    /\ shown' = [shown EXCEPT ![d] = 0]
    /\ outdated' = [outdated EXCEPT ![d] = FALSE]
    /\ UNCHANGED vars

(* exists_like, and the answer (shown, LikedByMe).  get_comments, between  *)
(* the two, reads rows that are not part of this model.                    *)
ReadLike(d) == reading[d] # NoPair /\ EndRead(d)

(* A toggle or a deletion takes a step beside the reads.  Reads of a post  *)
(* whose likes it changes are outdated.                                    *)
Beside ==
    /\ UNCHANGED <<reading, shown>>
    /\ Next
    /\ outdated' = [d \in Readers |->
                       \/ outdated[d]
                       \/ /\ reading[d] # NoPair
                          /\ LikesOf(reading[d][2]) # LikesOf(reading[d][2])']

DetailNext ==
    \/ Beside
    \/ \E d \in Readers : (\E p \in Posts : ReadPost(d, p)) \/ ReadLike(d)

DetailSpec ==
    /\ DetailInit
    /\ [][DetailNext]_detailVars
    /\ \A r \in Requests : SF_vars(Step(r))
-----------------------------------------------------------------------------
(* An answer of one moment: the reader's like is among the likes counted,  *)
(* and a count of all users contains the reader's. *)
Coherent(count_, liked) ==
    /\ liked => count_ > 0
    /\ ~liked => count_ < Cardinality(Users)

DetailTypeOK ==
    /\ \A d \in Readers : reading[d] # NoPair => reading[d] \in {d} \X Posts
    /\ reading \in [Readers -> Pairs \cup {NoPair}]
    /\ shown \in [Readers -> Nat]
    /\ outdated \in [Readers -> BOOLEAN]

(* What a read has found is still the number of likes, unless outdated. *)
ShownCurrent ==
    UseCounterCache =>
        \A d \in Readers :
            reading[d] # NoPair /\ ~outdated[d] =>
                shown[d] = Cardinality(LikesOf(reading[d][2]))

(* The inductive invariant of toggles and readers. *)
DetailInv == IInv /\ DetailTypeOK /\ ShownCurrent

(* A detail contradicts itself, with a like of the reader's that is not    *)
(* counted or a count of everybody but not of the reader, only if a toggle *)
(* of the post committed between the two statements of read_post_by_id, or *)
(* the counter had drifted when it was read.                               *)
DetailCoherent ==
    [][UseCounterCache =>
          \A d \in Readers :
              ReadLike(d) /\ ~outdated[d] => Coherent(shown[d], LikedByMe(d))]_detailVars
=============================================================================
