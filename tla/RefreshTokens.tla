---------------------------- MODULE RefreshTokens ----------------------------
(***************************************************************************)
(* Refresh tokens under concurrent requests and a running clock:           *)
(*   AuthService.login, refresh, logout   (app/services/auth_service.py)   *)
(*   RefreshTokenRepository         (app/repositories/refresh_token.py)    *)
(*   create_refresh_token, decode_token         (app/core/security.py)     *)
(* A token is a JWT without an identifier of its own: two tokens of one    *)
(* user are the same string when their exp, in whole seconds, is the same. *)
(* A row of refresh_tokens holds the salted hash of one, and expires_at in *)
(* microseconds.  Time is counted in ticks, TicksPerSecond to the second;  *)
(* it may pass between any two steps.                                      *)
(*                                                                         *)
(* DELETE ... WHERE user_id sees the rows committed when it starts, and    *)
(* takes them one by one in the order of its plan: it keeps those it has   *)
(* deleted locked, waits at one that another open transaction has deleted, *)
(* and skips one that is gone.  A row that another request inserts in      *)
(* between stays.  Two DELETEs that meet the same rows in different orders *)
(* wait for each other, until PostgreSQL ends one with an error.           *)
(***************************************************************************)
EXTENDS Integers, FiniteSets

CONSTANTS
    Requests,        \* connections that serve auth requests, one by one
    Users,
    TicksPerSecond,
    LifeSeconds,     \* REFRESH_TOKEN_EXPIRE_DAYS, in seconds
    MaxTime,         \* bound: the last tick
    MaxRows          \* bound: rows inserted in a behaviour

ASSUME ClockAssumption == TicksPerSecond \in Nat \ {0} /\ LifeSeconds \in Nat
ASSUME BoundAssumption == MaxTime \in Nat /\ MaxRows \in Nat

VARIABLES
    now,        \* the clock, in ticks
    nextId,     \* the sequence behind refresh_tokens.id
    rows,       \* committed rows of refresh_tokens
    issued,     \* tokens answered to clients
    pc,
    kind,       \* "login", "refresh", "expired" (refresh of an expired row), "logout"
    user,       \* user_id
    token,      \* the token presented to refresh or logout
    minted,     \* the token login or refresh is about to store and answer
    stamp,      \* expires_at of the matched row, or of a login's new row
    targets,    \* rows the request's DELETE has selected
    reached,    \* the row it waits for, or {}
    removed,    \* rows it has deleted, uncommitted
    fresh,      \* rows it has inserted, uncommitted
    (* History: *)
    used,       \* tokens a refresh has succeeded with
    reissued,   \* tokens answered twice
    stale,      \* a commit for the user since the request read the rows
    overlapped  \* a commit for the user since its DELETE selected rows

locals == <<kind, user, token, minted, stamp, targets, reached, removed, fresh>>
history == <<used, reissued, stale, overlapped>>
vars == <<now, nextId, rows, issued, pc, locals, history>>

Lifetime == LifeSeconds * TicksPerSecond
SecondOf(t) == t \div TicksPerSecond

Tokens == [user : Users, exp : Nat]
Rows == [id : Nat, token : Tokens, expiresAt : Nat]
NoToken == [user |-> "none", exp |-> 0]
NoUser == "none"

RowsOf(u) == {x \in rows : x.token.user = u}

(* Plausible bug: exp is rounded up to the next second. *)
MintRoundsUp(u) == [user |-> u, exp |-> SecondOf(now + Lifetime) + 1]

(* create_refresh_token: the exp claim is cut to whole seconds. *)
Mint(u) == [user |-> u, exp |-> SecondOf(now + Lifetime)]

(* decode_token: jose accepts the whole second in which exp lies. *)
Decodes(tok) == SecondOf(now) <= tok.exp

Init ==
    /\ now = 0
    /\ nextId = 1
    /\ rows = {}
    /\ issued = {}
    /\ pc = [r \in Requests |-> "idle"]
    /\ kind = [r \in Requests |-> "none"]
    /\ user = [r \in Requests |-> NoUser]
    /\ token = [r \in Requests |-> NoToken]
    /\ minted = [r \in Requests |-> NoToken]
    /\ stamp = [r \in Requests |-> 0]
    /\ targets = [r \in Requests |-> {}]
    /\ reached = [r \in Requests |-> {}]
    /\ removed = [r \in Requests |-> {}]
    /\ fresh = [r \in Requests |-> {}]
    /\ used = {}
    /\ reissued = {}
    /\ stale = [r \in Requests |-> FALSE]
    /\ overlapped = [r \in Requests |-> FALSE]

Goto(r, l) == pc' = [pc EXCEPT ![r] = l]

(* A login or a refresh under way may still insert one row. *)
MayBegin ==
    nextId + Cardinality({r \in Requests : kind[r] \in {"login", "refresh"} /\ fresh[r] = {}})
       <= MaxRows

Tick ==
    /\ now < MaxTime
    /\ now' = now + 1
    /\ UNCHANGED <<nextId, rows, issued, pc, locals, history>>

Begin(r, k, u, tok, new, l) ==
    /\ pc[r] = "idle"
    /\ MayBegin
    /\ Goto(r, l)
    /\ kind' = [kind EXCEPT ![r] = k]
    /\ user' = [user EXCEPT ![r] = u]
    /\ token' = [token EXCEPT ![r] = tok]
    /\ minted' = [minted EXCEPT ![r] = new]
    /\ UNCHANGED <<now, nextId, rows, issued, stamp, targets, reached, removed, fresh, history>>

(* login: get_by_email and verify_password accept; the token is minted.    *)
(* Wrong credentials end the request without a change. *)
BeginLogin(r, u) == Begin(r, "login", u, NoToken, Mint(u), "expiry")

(* refresh and logout: decode_token, before the database is asked.  A      *)
(* token whose exp is past ends the request with InvalidTokenException. *)
BeginRefresh(r, tok) == Decodes(tok) /\ Begin(r, "refresh", tok.user, tok, NoToken, "read")

BeginLogout(r, tok) == Decodes(tok) /\ Begin(r, "logout", tok.user, tok, NoToken, "drop")

(* The request is over: committed, rolled back or failed. *)
Finish(r) ==
    /\ Goto(r, "idle")
    /\ kind' = [kind EXCEPT ![r] = "none"]
    /\ user' = [user EXCEPT ![r] = NoUser]
    /\ token' = [token EXCEPT ![r] = NoToken]
    /\ minted' = [minted EXCEPT ![r] = NoToken]
    /\ stamp' = [stamp EXCEPT ![r] = 0]
    /\ targets' = [targets EXCEPT ![r] = {}]
    /\ reached' = [reached EXCEPT ![r] = {}]
    /\ removed' = [removed EXCEPT ![r] = {}]
    /\ fresh' = [fresh EXCEPT ![r] = {}]

Forget(r) ==
    /\ stale' = [stale EXCEPT ![r] = FALSE]
    /\ overlapped' = [overlapped EXCEPT ![r] = FALSE]

(* Plausible bug: UnitOfWork.__aexit__ leaves the transaction open. *)
RollbackKeepsLocks(r) ==
    /\ Goto(r, "idle")
    /\ kind' = [kind EXCEPT ![r] = "none"]
    /\ reached' = [reached EXCEPT ![r] = {}]
    /\ Forget(r)
    /\ UNCHANGED <<now, nextId, rows, issued, user, token, minted, stamp, targets, removed,
                   fresh, used, reissued>>

Rollback(r) ==
    /\ Finish(r)
    /\ Forget(r)
    /\ UNCHANGED <<now, nextId, rows, issued, used, reissued>>

(* refresh: get_all_tokens_by_user, and verify_refresh_token on each row   *)
(* until one is the hash of the presented token.  Without one it raises. *)
ReadTokens(r) ==
    /\ pc[r] = "read"
    /\ \/ /\ \E x \in RowsOf(user[r]) :
                /\ x.token = token[r]
                /\ stamp' = [stamp EXCEPT ![r] = x.expiresAt]
          /\ Goto(r, "check")
          /\ UNCHANGED <<now, nextId, rows, issued, kind, user, token, minted, targets, reached,
                         removed, fresh, history>>
       \/ /\ \A x \in RowsOf(user[r]) : x.token # token[r]
          /\ Rollback(r)

(* refresh: the matched row is compared with the clock; on both branches   *)
(* all rows of the user are deleted next. *)
CheckExpiry(r) ==
    /\ pc[r] = "check"
    /\ kind' = [kind EXCEPT ![r] = IF stamp[r] < now THEN "expired" ELSE "refresh"]
    /\ Goto(r, "drop")
    /\ UNCHANGED <<now, nextId, rows, issued, user, token, minted, stamp, targets, reached, removed,
                   fresh, history>>

(* The rows a DELETE selects when it starts. *)
Select(r, S) ==
    /\ targets' = [targets EXCEPT ![r] = S]
    /\ Goto(r, "wait")
    /\ UNCHANGED <<now, nextId, rows, issued, kind, user, token, minted, reached, removed, fresh,
                   history>>

(* login: expires_at is computed, then delete_expired_tokens starts. *)
DeleteExpired(r) ==
    /\ pc[r] = "expiry"
    /\ stamp' = [stamp EXCEPT ![r] = now + Lifetime]
    /\ Select(r, {x \in RowsOf(user[r]) : x.expiresAt < now})

(* Plausible bugs: only the row of the presented token is deleted; all but *)
(* that row are. *)
DeletePresented(r) ==
    /\ pc[r] = "drop"
    /\ Select(r, {x \in RowsOf(user[r]) : x.token = token[r]})
    /\ UNCHANGED stamp
DeleteOthers(r) ==
    /\ pc[r] = "drop"
    /\ Select(r, {x \in RowsOf(user[r]) : x.token # token[r]})
    /\ UNCHANGED stamp

(* delete_all_token_by_user starts. *)
DeleteAll(r) ==
    /\ pc[r] = "drop"
    /\ Select(r, RowsOf(user[r]))
    /\ UNCHANGED stamp

(* Selected rows that are still there and that the DELETE has not deleted. *)
Remaining(r) == (targets[r] \cap rows) \ removed[r]

(* Another transaction has deleted the row. *)
RowLocked(r, x) == \E s \in Requests \ {r} : x \in removed[s]

(* The scan comes to another row, in an order of its own: it deletes the   *)
(* row, or has to wait for the transaction that has deleted it. *)
ReachRow(r) ==
    /\ pc[r] = "wait"
    /\ reached[r] = {}
    /\ \E x \in Remaining(r) :
          \/ /\ RowLocked(r, x)
             /\ reached' = [reached EXCEPT ![r] = {x}]
             /\ UNCHANGED removed
          \/ /\ ~RowLocked(r, x)
             /\ removed' = [removed EXCEPT ![r] = @ \cup {x}]
             /\ UNCHANGED reached
    /\ UNCHANGED <<now, nextId, rows, issued, pc, kind, user, token, minted, stamp, targets,
                   fresh, history>>

(* That transaction is over: the row is deleted if it is still there. *)
WaitEnds(r) ==
    /\ reached[r] # {}
    /\ \A x \in reached[r] : ~RowLocked(r, x)
    /\ removed' = [removed EXCEPT ![r] = @ \cup (reached[r] \cap rows)]
    /\ reached' = [reached EXCEPT ![r] = {}]
    /\ UNCHANGED <<now, nextId, rows, issued, pc, kind, user, token, minted, stamp, targets,
                   fresh, history>>

(* The DELETE ends after the last row.  The expired branch of refresh      *)
(* raises now, and UnitOfWork.__aexit__ rolls the DELETE back. *)
DeleteEnds(r) ==
    /\ pc[r] = "wait"
    /\ reached[r] = {} /\ Remaining(r) = {}
    /\ IF kind[r] = "expired"
       THEN Rollback(r)
       ELSE /\ Goto(r, CASE kind[r] = "login" -> "insert"
                         [] kind[r] = "refresh" -> "mint"
                         [] OTHER -> "commit")
            /\ UNCHANGED <<now, nextId, rows, issued, kind, user, token, minted, stamp, targets,
                           reached, removed, fresh, history>>

(* r waits for a row that s holds. *)
Waits(r, s) == r # s /\ pc[r] = "wait" /\ reached[r] \cap removed[s] # {}

(* r waits in a circle. *)
Deadlocked(r) ==
    \E C \in SUBSET Requests :
        /\ r \in C
        /\ \A a \in C : (\E b \in C : Waits(a, b)) /\ (\E b \in C : Waits(b, a))

(* PostgreSQL ends one of the transactions of a circle.  Nothing catches   *)
(* the error: the request is answered 500 UNKNOWN_ERROR. *)
DetectDeadlock(r) == Deadlocked(r) /\ Rollback(r)

(* refresh: create_refresh_token; hashing it takes a while. *)
NewToken(r) ==
    /\ pc[r] = "mint"
    /\ minted' = [minted EXCEPT ![r] = Mint(user[r])]
    /\ Goto(r, "insert")
    /\ UNCHANGED <<now, nextId, rows, issued, kind, user, token, stamp, targets, reached, removed,
                   fresh, history>>

(* create_token: INSERT.  A refresh computes expires_at only now. *)
NewRow(r) ==
    [id |-> nextId, token |-> minted[r],
     expiresAt |-> IF kind[r] = "login" THEN stamp[r] ELSE now + Lifetime]

CreateToken(r) ==
    /\ pc[r] = "insert"
    /\ fresh' = [fresh EXCEPT ![r] = {NewRow(r)}]
    /\ nextId' = nextId + 1
    /\ Goto(r, "commit")
    /\ UNCHANGED <<now, rows, issued, kind, user, token, minted, stamp, targets, reached, removed,
                   history>>

HasRead == {"check", "drop", "wait", "mint", "insert", "commit"}
HasSelected == {"wait", "mint", "insert", "commit"}

(* The transaction commits and the request is answered. *)
Commit(r) ==
    /\ pc[r] = "commit"
    /\ rows' = (rows \ removed[r]) \cup fresh[r]
    /\ issued' = issued \cup {x.token : x \in fresh[r]}
    /\ reissued' = reissued \cup ({x.token : x \in fresh[r]} \cap issued)
    /\ used' = IF kind[r] = "refresh" THEN used \cup {token[r]} ELSE used
    /\ LET After(s, steps) == s # r /\ user[s] = user[r] /\ pc[s] \in steps
       IN  /\ stale' = [s \in Requests |->
                          s # r /\ (stale[s] \/ (kind[s] = "refresh" /\ After(s, HasRead)))]
           /\ overlapped' = [s \in Requests |->
                                s # r /\ (overlapped[s] \/ After(s, HasSelected))]
    /\ Finish(r)
    /\ UNCHANGED <<now, nextId>>

(* Any step raises, get_by_id finds no user, or the process dies. *)
Fail(r) ==
    /\ pc[r] # "idle"
    /\ Rollback(r)

Step(r) ==
    \/ ReadTokens(r)
    \/ CheckExpiry(r)
    \/ DeleteExpired(r)
    \/ DeleteAll(r)
    \/ ReachRow(r)
    \/ WaitEnds(r)
    \/ DeleteEnds(r)
    \/ NewToken(r)
    \/ CreateToken(r)
    \/ Commit(r)

Next ==
    \/ Tick
    \/ \E r \in Requests :
          \/ \E u \in Users : BeginLogin(r, u)
          \/ \E tok \in issued : BeginRefresh(r, tok) \/ BeginLogout(r, tok)
          \/ Step(r)
          \/ DetectDeadlock(r)
          \/ Fail(r)

Spec == Init /\ [][Next]_vars

(* Requests keep running, PostgreSQL serves the waiters of a row and finds *)
(* a deadlock after deadlock_timeout; the clock need not advance, nobody   *)
(* need send a request. *)
FairSpec ==
    /\ Spec
    /\ \A r \in Requests : SF_vars(Step(r)) /\ WF_vars(DetectDeadlock(r))
-----------------------------------------------------------------------------
TypeOK ==
    /\ now \in Nat
    /\ nextId \in Nat
    /\ rows \subseteq Rows
    /\ issued \subseteq Tokens
    /\ pc \in [Requests -> {"idle", "expiry", "read", "check", "drop", "wait", "mint",
                            "insert", "commit"}]
    /\ kind \in [Requests -> {"none", "login", "refresh", "expired", "logout"}]
    /\ user \in [Requests -> Users \cup {NoUser}]
    /\ token \in [Requests -> Tokens \cup {NoToken}]
    /\ minted \in [Requests -> Tokens \cup {NoToken}]
    /\ stamp \in [Requests -> Nat]
    /\ targets \in [Requests -> SUBSET Rows]
    /\ reached \in [Requests -> SUBSET Rows]
    /\ removed \in [Requests -> SUBSET Rows]
    /\ fresh \in [Requests -> SUBSET Rows]
    /\ used \subseteq Tokens
    /\ reissued \subseteq Tokens
    /\ stale \in [Requests -> BOOLEAN]
    /\ overlapped \in [Requests -> BOOLEAN]

(* What a request has at each step. *)
PhaseOK ==
    \A r \in Requests :
        /\ kind[r] \in CASE pc[r] = "idle" -> {"none"}
                         [] pc[r] = "expiry" -> {"login"}
                         [] pc[r] \in {"read", "check", "mint"} -> {"refresh"}
                         [] pc[r] = "drop" -> {"refresh", "expired", "logout"}
                         [] pc[r] = "insert" -> {"login", "refresh"}
                         [] OTHER -> {"login", "refresh", "expired", "logout"}
        /\ kind[r] = "login" => user[r] \in Users
        /\ kind[r] \in {"refresh", "expired", "logout"} =>
              token[r] \in issued /\ token[r].user = user[r]
        /\ pc[r] \notin HasSelected => targets[r] = {}
        /\ pc[r] # "wait" => reached[r] = {}
        /\ pc[r] # "commit" => fresh[r] = {}
        /\ pc[r] = "commit" =>
              \/ kind[r] = "logout" /\ fresh[r] = {}
              \/ kind[r] \in {"login", "refresh"} /\ \E x \in fresh[r] : fresh[r] = {x}

(* The sequence numbers every row once, committed or not; no DELETE has    *)
(* selected a row that is not committed yet. *)
RowsNumbered ==
    LET All == rows \cup UNION {fresh[r] : r \in Requests}
    IN  /\ \A x \in All \cup UNION {targets[r] : r \in Requests} : x.id < nextId
        /\ \A x, y \in All : x.id = y.id => x = y
        /\ \A r \in Requests : fresh[r] \cap rows = {}
        /\ \A r, s \in Requests : r # s => fresh[r] \cap fresh[s] = {}
        /\ \A r, s \in Requests : fresh[r] \cap targets[s] = {}

(* A request deletes and inserts rows of its own user.  The rows an open   *)
(* transaction has deleted are still committed, and nobody else's; of      *)
(* those its DELETE selected none is left but them. *)
DeletedByOne ==
    /\ \A r \in Requests :
          /\ \A x \in targets[r] \cup fresh[r] : x.token.user = user[r]
          /\ reached[r] \subseteq targets[r]
          /\ removed[r] \subseteq targets[r] \cap rows
          /\ pc[r] \in {"mint", "insert", "commit"} => targets[r] \cap rows \subseteq removed[r]
    /\ \A r, s \in Requests : r # s => removed[r] \cap removed[s] = {}

(* A row's expires_at, in whole seconds, is not before the exp of its JWT. *)
RowsOutliveTokens ==
    /\ \A x \in rows \cup UNION {fresh[r] : r \in Requests} :
          x.token.exp <= SecondOf(x.expiresAt)
    /\ \A r \in Requests :
          /\ pc[r] \in {"expiry", "insert"} \/ (kind[r] = "login" /\ pc[r] = "wait") =>
                /\ minted[r] \in Tokens /\ minted[r].user = user[r]
                /\ minted[r].exp <= SecondOf(now + Lifetime)
          /\ kind[r] = "login" /\ pc[r] \in {"wait", "insert"} =>
                minted[r].exp <= SecondOf(stamp[r])
          /\ pc[r] = "check" => token[r].exp <= SecondOf(stamp[r])

(* Where the rows of a used token come from: a commit after the DELETE has *)
(* selected its rows, or the token was issued once more. *)
UsedTokensTraced ==
    /\ used \subseteq issued
    /\ \A x \in rows : x.token \in used => x.token \in reissued
    /\ \A r \in Requests :
          /\ kind[r] # "login" /\ pc[r] \in HasSelected =>
                /\ ~overlapped[r] => RowsOf(user[r]) \subseteq targets[r]
                /\ \A x \in rows : x.token = token[r] =>
                      x \in targets[r] \/ token[r] \in reissued
          /\ kind[r] = "refresh" /\ pc[r] \in HasRead /\ token[r] \in used =>
                stale[r] \/ token[r] \in reissued

(* expires_at and the exp of the JWT are taken from two readings of the    *)
(* clock and rounded differently, yet a token is never called expired      *)
(* before the second of its exp (login, refresh). *)
ExpiredOnlyAtEnd ==
    \A r \in Requests : kind[r] = "expired" => SecondOf(now) >= token[r].exp

(* Rows are inserted and deleted once, by one request at a time, and none  *)
(* is called expired too early (RefreshTokenRepository, refresh). *)
IInv ==
    /\ TypeOK /\ PhaseOK /\ RowsNumbered /\ DeletedByOne /\ RowsOutliveTokens
    /\ ExpiredOnlyAtEnd /\ UsedTokensTraced

(* login, refresh and logout implement Sessions: although a DELETE takes   *)
(* its rows one by one, waits for those that others hold and skips those   *)
(* that are gone, or dies in a deadlock, a commit                          *)
(* ends exactly the sessions its DELETE has selected and starts its own,   *)
(* as one atomic step would (delete_all_token_by_user,                     *)
(* delete_expired_tokens, create_token).  A request acts once it has       *)
(* selected; with an expired row it never does. *)
Acts(r) == pc[r] \in HasSelected /\ kind[r] # "expired"

Abstract == INSTANCE Sessions
    WITH Clients <- Requests, Accounts <- Users, NoAccount <- NoUser,
         clock <- now, store <- rows, answered <- issued,
         act <- [r \in Requests |-> IF Acts(r) THEN kind[r] ELSE "none"],
         owner <- [r \in Requests |-> IF Acts(r) THEN user[r] ELSE NoUser],
         seen <- [r \in Requests |-> IF Acts(r) THEN targets[r] ELSE {}]

ImplementsSessions == Abstract!AbsSpec

(* A refresh leaves its user exactly the new row, a logout none, unless    *)
(* another request of the user committed after the DELETE had selected its *)
(* rows (refresh, logout). *)
RotationExact ==
    [][\A r \in Requests :
         Commit(r) /\ kind[r] \in {"refresh", "logout"} /\ ~overlapped[r]
            => {x \in rows' : x.token.user = user[r]} = fresh[r]]_vars

(* A token that a refresh has used works again only for a refresh that had *)
(* read the rows before another commit of the user, or if the very same    *)
(* token was issued once more, within the same second (refresh). *)
ReuseNeedsRaceOrReissue ==
    [][\A r \in Requests :
         Commit(r) /\ kind[r] = "refresh" /\ token[r] \in used /\ ~stale[r]
            => token[r] \in reissued]_vars

(* Every login, refresh and logout that starts ends: requests deleting the *)
(* rows of one user may wait for each other in a circle, since each keeps  *)
(* the rows it has deleted while it waits for the next, but the rollback   *)
(* of one that PostgreSQL ends frees the others                            *)
(* (delete_all_token_by_user, delete_expired_tokens,                       *)
(* UnitOfWork.__aexit__). *)
EveryRequestEnds == \A r \in Requests : pc[r] # "idle" ~> pc[r] = "idle"
=============================================================================
