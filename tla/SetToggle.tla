----------------------------- MODULE SetToggle -----------------------------
(***************************************************************************)
(* What a toggle endpoint promises, whatever the database does below it:   *)
(* a client's request looks once whether its item is a member, aims for    *)
(* the opposite, and ends having either made the set agree with its aim in *)
(* one atomic step, or seen at one moment that the set already agreed, or  *)
(* failed without a trace; and it is answered with success in the first    *)
(* two cases only.  PostService.toggle_like_post promises this of the      *)
(* likes table, PostService.toggle_bookmark_to_post of the bookmarks.      *)
(*                                                                         *)
(* The look and the step are apart: two overlapping toggles of one item    *)
(* may aim for the same side, so two toggles need not cancel out.  That    *)
(* much the code admits (ON CONFLICT DO NOTHING, a DELETE that finds       *)
(* nothing), and nothing more.                                             *)
(***************************************************************************)
CONSTANTS
    Clients,  \* requests in flight
    Items     \* what can be a member: (user, post) pairs

NoItem == <<>>

VARIABLES
    members,  \* the committed set
    phase,    \* [Clients -> {"idle", "aiming", "agreed"}]
    item,     \* the item a client toggles, once it has looked
    want,     \* whether the client wants its item in the set
    served    \* whether the client's last request was answered with success

absVars == <<members, phase, item, want, served>>

AbsInit ==
    /\ members \in SUBSET Items
    /\ phase = [c \in Clients |-> "idle"]
    /\ item = [c \in Clients |-> NoItem]
    /\ want = [c \in Clients |-> FALSE]
    /\ served = [c \in Clients |-> FALSE]

(* The request is over, with success or without. *)
Rest(c, success) ==
    /\ phase' = [phase EXCEPT ![c] = "idle"]
    /\ item' = [item EXCEPT ![c] = NoItem]
    /\ want' = [want EXCEPT ![c] = FALSE]
    /\ served' = [served EXCEPT ![c] = success]

(* The one look at the set: the client aims for the opposite of it. *)
Look(c, x) ==
    /\ phase[c] = "idle"
    /\ phase' = [phase EXCEPT ![c] = "aiming"]
    /\ item' = [item EXCEPT ![c] = x]
    /\ want' = [want EXCEPT ![c] = x \notin members]
    /\ UNCHANGED <<members, served>>

(* The effect: exactly this item enters or leaves the set. *)
Flip(c) ==
    /\ phase[c] = "aiming"
    /\ (item[c] \in members) # want[c]
    /\ members' = IF want[c] THEN members \cup {item[c]}
                             ELSE members \ {item[c]}
    /\ Rest(c, TRUE)

(* Somebody else already did it: no effect, and the answer is true. *)
Agree(c) ==
    /\ phase[c] = "aiming"
    /\ (item[c] \in members) = want[c]
    /\ phase' = [phase EXCEPT ![c] = "agreed"]
    /\ UNCHANGED <<members, item, want, served>>

Answer(c) ==
    /\ phase[c] = "agreed"
    /\ Rest(c, TRUE)
    /\ UNCHANGED members

(* A request that fails, after its look or before, leaves nothing behind. *)
Abort(c) ==
    /\ Rest(c, FALSE)
    /\ UNCHANGED members

AbsNext ==
    \E c \in Clients :
        \/ \E x \in Items : Look(c, x)
        \/ Flip(c)
        \/ Agree(c)
        \/ Answer(c)
        \/ Abort(c)

AbsSpec == AbsInit /\ [][AbsNext]_absVars
=============================================================================
