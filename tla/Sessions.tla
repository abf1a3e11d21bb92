------------------------------ MODULE Sessions ------------------------------
(***************************************************************************)
(* What login, refresh and logout promise of the sessions of a user,       *)
(* whatever the database does below them: a request looks once at the      *)
(* sessions it is to end - a login at the expired ones of its user, a      *)
(* refresh and a logout at all of them - and later, in one atomic step,    *)
(* ends exactly those that are still there, starts at most one, and is     *)
(* answered with the token of that one; or it fails without a trace.       *)
(* There are no locks and nobody waits.                                    *)
(*                                                                         *)
(* The look and the step are apart: a session that another request starts  *)
(* in between survives a refresh or a logout.  That much                   *)
(* delete_all_token_by_user admits, and nothing more.                      *)
(***************************************************************************)
EXTENDS Naturals

CONSTANTS
    Clients,    \* requests in flight
    Accounts,   \* users
    NoAccount

VARIABLES
    clock,
    store,      \* the sessions there are: records with id, token and expiresAt
    answered,   \* tokens that clients have been answered with
    act,        \* what a client is about to do, once it has looked
    owner,      \* whose sessions it has looked at
    seen        \* the sessions it ends

absVars == <<clock, store, answered, act, owner, seen>>

SessionsOf(u) == {x \in store : x.token.user = u}

AbsInit ==
    /\ clock = 0
    /\ store = {}
    /\ answered = {}
    /\ act = [c \in Clients |-> "none"]
    /\ owner = [c \in Clients |-> NoAccount]
    /\ seen = [c \in Clients |-> {}]

TimePasses ==
    /\ clock' = clock + 1
    /\ UNCHANGED <<store, answered, act, owner, seen>>

Look(c, u, a, S) ==
    /\ act[c] = "none"
    /\ act' = [act EXCEPT ![c] = a]
    /\ owner' = [owner EXCEPT ![c] = u]
    /\ seen' = [seen EXCEPT ![c] = S]
    /\ UNCHANGED <<clock, store, answered>>

LookToLogin(c, u) == Look(c, u, "login", {x \in SessionsOf(u) : x.expiresAt < clock})

(* Only with a token that somebody was answered with. *)
LookToEnd(c, u, a) ==
    /\ \E tok \in answered : tok.user = u
    /\ a \in {"refresh", "logout"}
    /\ Look(c, u, a, SessionsOf(u))

Rest(c) ==
    /\ act' = [act EXCEPT ![c] = "none"]
    /\ owner' = [owner EXCEPT ![c] = NoAccount]
    /\ seen' = [seen EXCEPT ![c] = {}]
    /\ UNCHANGED clock

Start(c) ==
    /\ act[c] \in {"login", "refresh"}
    /\ \E x \in store' :
          /\ x.token.user = owner[c]
          /\ \A y \in store : x.id # y.id
          /\ store' = (store \ seen[c]) \cup {x}
          /\ answered' = answered \cup {x.token}
    /\ Rest(c)

End(c) ==
    /\ act[c] = "logout"
    /\ store' = store \ seen[c]
    /\ UNCHANGED answered
    /\ Rest(c)

Abort(c) ==
    /\ Rest(c)
    /\ UNCHANGED <<store, answered>>

AbsNext ==
    \/ TimePasses
    \/ \E c \in Clients :
          \/ \E u \in Accounts :
                LookToLogin(c, u) \/ \E a \in {"refresh", "logout"} : LookToEnd(c, u, a)
          \/ Start(c)
          \/ End(c)
          \/ Abort(c)

AbsSpec == AbsInit /\ [][AbsNext]_absVars
=============================================================================
