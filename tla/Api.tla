-------------------------------- MODULE Api ---------------------------------
(***************************************************************************)
(* The way of a request through the process:                               *)
(*   middlewares and their order   (app/main.py, app/middlewares)          *)
(*   who may call an endpoint      (app/api/dependency.py, app/api/v1)     *)
(*   its unit of work              (app/core/uow.py, app/db/session.py)    *)
(*   the answer to an exception    (app/exceptions)                        *)
(*   the log                       (app/core/logging.py)                   *)
(* Requests overlap at every await.  What a service does inside its unit   *)
(* of work is the subject of the other modules; here it writes or not,     *)
(* returns or raises.  Unit after unit takes a connection from one pool.   *)
(***************************************************************************)
EXTENDS Naturals, Functions

CONSTANTS
    Requests,   \* tasks of the server, each serving one request after another
    Endpoints,  \* the endpoints that are called
    HeaderIds,  \* acceptable values of X-Request-ID that clients send
    NoId,       \* no such header, or not acceptable; no trace id
    PoolSize    \* connections of the engine's pool

ASSUME PoolAssumption == PoolSize \in Nat \ {0}
ASSUME IdAssumption == NoId \notin HeaderIds \cup Requests

Open == {"read_posts_list", "read_comments", "login_json", "login_form",
         "refresh_token", "logout", "register"}
Protected == {"create_post", "delete_post", "toggle_like_post", "update_post",
              "toggle_bookmark_post", "read_my_bookmarks", "create_comment",
              "update_comment", "delete_comment"}

(* read_post_uncached is read_post where USE_VIEWS_COUNTER_CACHE is off:    *)
(* its unit of work increments posts.views, and no task follows. *)
OptionalUser == {"read_post", "read_post_uncached"}

ASSUME EndpointsAssumption == Endpoints \subseteq Open \cup OptionalUser \cup Protected

Readers == {"read_post", "read_posts_list", "read_comments", "read_my_bookmarks"}

(* The exceptions of the application, ... *)
PostErrors == {"PostNotFound"}
UserErrors == {"UserNotFound", "UserMismatch", "UserExistEmail", "UserExistNickname",
               "PasswordValidation"}
CommentErrors == {"CommentNotFound", "ReplyDepthLimitExceeded", "CommentPostMismatch"}
TokenErrors == {"InvalidToken", "TokenPayloadInvalid", "RefreshTokenExpired",
                "RefreshTokenNotFound", "InvalidCredentials"}
CommonErrors == {"InternalServer"}
(* ... those of FastAPI, ... *)
FrameworkErrors == {"NotAuthenticated", "RequestValidation"}

(* ... which all have a handler, and anything else. *)
Handled == PostErrors \cup UserErrors \cup CommentErrors \cup TokenErrors
               \cup CommonErrors \cup FrameworkErrors
Exceptions == Handled \cup {"Unexpected"}

StatusOf(x) ==
    CASE x \in {"PostNotFound", "UserNotFound", "CommentNotFound"} -> 404
      [] x \in {"UserExistEmail", "UserExistNickname"} -> 409
      [] x \in {"PasswordValidation", "ReplyDepthLimitExceeded", "CommentPostMismatch"} -> 400
      [] x \in TokenErrors \cup {"NotAuthenticated"} -> 401
      [] x = "UserMismatch" -> 403
      [] x = "RequestValidation" -> 422
      [] OTHER -> 500

(* What a service raises before it opens its unit of work, *)
RaisedBefore(e) ==
    IF e \in {"refresh_token", "logout"} THEN {"InvalidToken", "TokenPayloadInvalid"}
    ELSE {}

(* within it, *)
RaisedWithin(e) ==
    CASE e \in OptionalUser \cup {"read_comments", "toggle_like_post", "toggle_bookmark_post"}
            -> {"PostNotFound"}
      [] e \in {"login_json", "login_form"} -> {"InvalidCredentials"}
      [] e = "refresh_token" -> {"RefreshTokenNotFound", "InvalidToken",
                                 "RefreshTokenExpired", "UserNotFound"}
      [] e = "register" -> {"UserExistEmail", "UserExistNickname", "PasswordValidation"}
      [] e = "create_comment" -> CommentErrors
      [] OTHER -> {}

(* and once it has ended, for the status of a write that found no row. *)
RaisedAfter(e) ==
    CASE e = "delete_post" -> {"PostNotFound", "UserMismatch"}
      [] e = "update_post" -> {"PostNotFound", "UserMismatch", "InternalServer"}
      [] e \in {"update_comment", "delete_comment"} -> {"CommentNotFound", "UserMismatch"}
      [] OTHER -> {}

VARIABLES
    pc,        \* where the request is
    endpoint,
    user,      \* "known" once authenticate_user has returned
    trace,     \* scope["state"]["trace_id"]
    context,   \* current_trace_id in the request's context
    held,      \* connections its sessions have taken and not returned
    wrote,     \* its open transaction has changed something
    changed,   \* history: a change of the request has been committed
    raised,    \* the exception on its way out, or "nothing"
    answer,    \* what the client gets
    log        \* history: the lines logged for it

requestVars == <<endpoint, user, trace, context>>
unitVars == <<held, wrote, changed>>
outVars == <<raised, answer, log>>
vars == <<pc, requestVars, unitVars, outVars>>

NoAnswer == [status |-> 0, challenge |-> FALSE, header |-> NoId, body |-> NoId]

(* Where a request holds a connection. *)
Connected == {"authenticate", "unit", "task"}
(* What a request goes through. *)
Places == Connected \cup
    {"auth", "validate", "serve", "build", "raised", "access", "timing", "send", "background"}

Goto(r, place) == pc' = [pc EXCEPT ![r] = place]

Raise(r, x) ==
    /\ raised' = [raised EXCEPT ![r] = x]
    /\ Goto(r, "raised")
    /\ UNCHANGED <<answer, log>>

Succeed(r) ==
    /\ answer' = [answer EXCEPT ![r].status = 200]
    /\ Goto(r, "access")
    /\ UNCHANGED <<raised, log>>

Init ==
    /\ pc = [r \in Requests |-> "idle"]
    /\ endpoint = [r \in Requests |-> "none"]
    /\ user = [r \in Requests |-> "none"]
    /\ trace = [r \in Requests |-> NoId]
    /\ context = [r \in Requests |-> NoId]
    /\ held = [r \in Requests |-> 0]
    /\ wrote = [r \in Requests |-> FALSE]
    /\ changed = [r \in Requests |-> FALSE]
    /\ raised = [r \in Requests |-> "nothing"]
    /\ answer = [r \in Requests |-> NoAnswer]
    /\ log = [r \in Requests |-> {}]

(* Plausible bug: a module variable instead of a ContextVar. *)
SetForAll(r, id) == [s \in Requests |-> id]

SetContext(r, id) == [context EXCEPT ![r] = id]

(* Of a new request nothing is known. *)
Blank(r) ==
    /\ user' = [user EXCEPT ![r] = "none"]
    /\ wrote' = [wrote EXCEPT ![r] = FALSE]
    /\ changed' = [changed EXCEPT ![r] = FALSE]
    /\ raised' = [raised EXCEPT ![r] = "nothing"]
    /\ answer' = [answer EXCEPT ![r] = NoAnswer]
    /\ log' = [log EXCEPT ![r] = {}]

(* TraceIdASGIMiddleware: the client's id or a new one, here named r. *)
Receive(r, e, incoming) ==
    LET id == IF incoming = NoId THEN r ELSE incoming IN
    /\ pc[r] \in {"idle", "answered"}
    /\ trace' = [trace EXCEPT ![r] = id]
    /\ context' = SetContext(r, id)
    /\ endpoint' = [endpoint EXCEPT ![r] = e]
    /\ Blank(r)
    /\ Goto(r, IF e \in Open THEN "validate" ELSE "auth")
    /\ UNCHANGED held

(* oauth2_scheme, or a token that cannot be decoded; a caller with the     *)
(* choice goes on without a user. *)
RefuseToken(r) ==
    /\ pc[r] = "auth"
    /\ IF endpoint[r] \in OptionalUser
       THEN Goto(r, "validate") /\ UNCHANGED outVars
       ELSE \E x \in {"NotAuthenticated", "InvalidToken"} : Raise(r, x)
    /\ UNCHANGED <<requestVars, unitVars>>

InUse == FoldFunction(+, 0, held)

(* The first statement of a session takes a connection; the request waits  *)
(* while there is none. *)
Connect(r, place) ==
    /\ InUse < PoolSize
    /\ held' = [held EXCEPT ![r] = @ + 1]
    /\ Goto(r, place)

(* Plausible bugs: close() outside of finally; the unit of work of         *)
(* get_current_user stays open until the endpoint's ends. *)
ClosedUnlessFailed(r, failed) == IF failed THEN held ELSE [held EXCEPT ![r] = @ - 1]
ClosedLate(r, failed) ==
    IF pc[r] = "authenticate" THEN held ELSE [held EXCEPT ![r] = 0]

(* The end of __aexit__: the session closes, whether commit or rollback    *)
(* failed or not. *)
Closed(r, failed) == [held EXCEPT ![r] = @ - 1]

(* authenticate_user: SELECT the user of the token in a unit of work of    *)
(* its own, over before the endpoint's begins.                             *)
OpenAuthentication(r) ==
    /\ pc[r] = "auth"
    /\ Connect(r, "authenticate")
    /\ UNCHANGED <<requestVars, wrote, changed, outVars>>

FindUser(r) ==
    /\ pc[r] = "authenticate"
    /\ held' = Closed(r, FALSE)
    /\ user' = [user EXCEPT ![r] = "known"]
    /\ Goto(r, "validate")
    /\ UNCHANGED <<endpoint, trace, context, wrote, changed, outVars>>

(* No such user, or the statement failed. *)
FindNoUser(r) ==
    /\ pc[r] = "authenticate"
    /\ \E x \in {"UserNotFound", "Unexpected"} :
          held' = Closed(r, x = "Unexpected") /\ Raise(r, x)
    /\ UNCHANGED <<requestVars, wrote, changed>>

(* FastAPI validates parameters and body after the dependencies. *)
Validate(r) ==
    /\ pc[r] = "validate"
    /\ \/ Goto(r, "serve") /\ UNCHANGED outVars
       \/ Raise(r, "RequestValidation")
    /\ UNCHANGED <<requestVars, unitVars>>

RefuseBefore(r) ==
    /\ pc[r] = "serve"
    /\ \E x \in RaisedBefore(endpoint[r]) : Raise(r, x)
    /\ UNCHANGED <<requestVars, unitVars>>

OpenUnit(r) ==
    /\ pc[r] = "serve"
    /\ Connect(r, "unit")
    /\ UNCHANGED <<requestVars, wrote, changed, outVars>>

Write(r) ==
    /\ pc[r] = "unit"
    /\ endpoint[r] \notin Readers
    /\ wrote' = [wrote EXCEPT ![r] = TRUE]
    /\ UNCHANGED <<pc, requestVars, held, changed, outVars>>

(* __aexit__: commit without an exception, rollback with one. *)
Committed(r, failed) == [changed EXCEPT ![r] = wrote[r] /\ ~failed]

EndUnit(r, failed) ==
    /\ pc[r] = "unit"
    /\ changed' = Committed(r, failed)
    /\ held' = Closed(r, failed)
    /\ UNCHANGED <<requestVars, wrote>>

CommitUnit(r) ==
    /\ EndUnit(r, FALSE)
    /\ Goto(r, "build")
    /\ UNCHANGED outVars

(* The service raises, or a statement or the commit fails.  Only an        *)
(* expired refresh token is found to be one after a write.                 *)
RollbackUnit(r) ==
    /\ EndUnit(r, TRUE)
    /\ \E x \in RaisedWithin(endpoint[r]) \cup {"Unexpected"} :
          /\ x \in {"RefreshTokenExpired", "Unexpected"} \/ ~wrote[r]
          /\ x = "RefreshTokenExpired" => wrote[r]
          /\ Raise(r, x)

(* Plausible bug: expire_on_commit, so the attributes of a row cannot be   *)
(* read once its session is closed.                                        *)
ExpiredByCommit(r) ==
    endpoint[r] \in {"update_post", "update_comment", "register"} /\ wrote[r]

(* async_session_factory has expire_on_commit=False. *)
Unreadable(r) == FALSE

(* What follows the unit of work: the status of the repository is looked   *)
(* at and the answer built from the rows. *)
Build(r) ==
    /\ pc[r] = "build"
    /\ IF Unreadable(r) THEN Raise(r, "Unexpected")
       ELSE IF RaisedAfter(endpoint[r]) # {} /\ ~wrote[r]
       THEN \E x \in RaisedAfter(endpoint[r]) : Raise(r, x)
       ELSE Succeed(r)
    /\ UNCHANGED <<requestVars, unitVars>>

(* No connection came free in time (pool_timeout). *)
PoolTimeout(r) ==
    /\ pc[r] \in {"auth", "serve"}
    /\ InUse = PoolSize
    /\ Raise(r, "Unexpected")
    /\ UNCHANGED <<requestVars, unitVars>>

(* The exceptions with a WWW-Authenticate header. *)
Challenges == TokenErrors \cup {"NotAuthenticated"}

ErrorAnswer(r, status, challenge, header) ==
    [status |-> status, challenge |-> challenge, header |-> header, body |-> trace[r]]

(* ExceptionMiddleware: the handlers of BaseAppException, HTTPException    *)
(* and RequestValidationError answer, anything else passes.                *)
Handle(r) ==
    /\ pc[r] = "raised"
    /\ answer' = [answer EXCEPT ![r] =
                     IF raised[r] \notin Handled THEN NoAnswer
                     ELSE ErrorAnswer(r, StatusOf(raised[r]), raised[r] \in Challenges, NoId)]
    /\ Goto(r, "access")
    /\ UNCHANGED <<requestVars, unitVars, raised, log>>

(* TraceIdFilter: the id given with the record, or else the context's. *)
Line(logger, r, given) ==
    [logger |-> logger, id |-> IF given = NoId THEN context[r] ELSE given]

AccessLog(r) ==
    /\ pc[r] = "access"
    /\ log' = [log EXCEPT ![r] = @ \cup {Line("access", r, trace[r])}]
    /\ Goto(r, "timing")
    /\ UNCHANGED <<requestVars, unitVars, raised, answer>>

(* logger.exception gives no id, the line of the duration does. *)
TimingLog(r) ==
    /\ pc[r] = "timing"
    /\ log' = [log EXCEPT ![r] = @ \cup {Line("timing", r, trace[r])}
                  \cup IF answer[r] = NoAnswer THEN {Line("timing", r, NoId)} ELSE {}]
    /\ Goto(r, "send")
    /\ UNCHANGED <<requestVars, unitVars, raised, answer>>

Unhandled(r) == Line("handlers", r, NoId)

(* send_wrapper adds the id to the headers; what nobody answered is        *)
(* answered outside of it, by ServerErrorMiddleware with the handler of    *)
(* Exception.                                                              *)
Send(r) ==
    /\ pc[r] = "send"
    /\ IF answer[r] = NoAnswer
       THEN /\ log' = [log EXCEPT ![r] = @ \cup {Unhandled(r)}]
            /\ answer' = [answer EXCEPT ![r] = ErrorAnswer(r, 500, FALSE, NoId)]
            /\ Goto(r, "answered")
       ELSE /\ answer' = [answer EXCEPT ![r].header = trace[r]]
            /\ Goto(r, IF endpoint[r] = "read_post" /\ raised[r] = "nothing"
                       THEN "background" ELSE "answered")
            /\ UNCHANGED log
    /\ UNCHANGED <<requestVars, unitVars, raised>>

(* increment_views_background, which needs a unit of work now and then. *)
OpenTask(r) ==
    /\ pc[r] = "background"
    /\ Connect(r, "task")
    /\ UNCHANGED <<requestVars, wrote, changed, outVars>>

(* What it raises can no longer be answered, only logged. *)
EndTask(r) ==
    /\ pc[r] \in {"background", "task"}
    /\ \E failed \in BOOLEAN :
          /\ log' = IF failed THEN [log EXCEPT ![r] = @ \cup {Unhandled(r)}] ELSE log
          /\ held' = IF pc[r] = "task" THEN Closed(r, failed) ELSE held
    /\ Goto(r, "answered")
    /\ UNCHANGED <<requestVars, wrote, changed, raised, answer>>

(* The server shuts down and cancels the task of the request, or dies: what *)
(* the request has open is rolled back. *)
Abandon(r) ==
    /\ pc[r] \in Places
    /\ held' = IF pc[r] \in Connected THEN Closed(r, TRUE) ELSE held
    /\ trace' = [trace EXCEPT ![r] = NoId]
    /\ context' = [context EXCEPT ![r] = NoId]
    /\ endpoint' = [endpoint EXCEPT ![r] = "none"]
    /\ Blank(r)
    /\ Goto(r, "idle")

Step(r) ==
    \/ RefuseToken(r)
    \/ OpenAuthentication(r)
    \/ FindUser(r)
    \/ FindNoUser(r)
    \/ Validate(r)
    \/ RefuseBefore(r)
    \/ OpenUnit(r)
    \/ Write(r)
    \/ CommitUnit(r)
    \/ RollbackUnit(r)
    \/ Build(r)
    \/ Handle(r)
    \/ AccessLog(r)
    \/ TimingLog(r)
    \/ Send(r)
    \/ OpenTask(r)
    \/ EndTask(r)

Next ==
    \E r \in Requests :
        \/ \E e \in Endpoints, incoming \in HeaderIds \cup {NoId} : Receive(r, e, incoming)
        \/ Step(r)
        \/ PoolTimeout(r)
        \/ Abandon(r)

(* The event loop resumes every request; the pool serves those that wait   *)
(* in turn (SF), so that a connection that is free again and again is got. *)
(* Nobody needs the timeout.                                               *)
Spec == Init /\ [][Next]_vars /\ \A r \in Requests : SF_vars(Step(r))
-----------------------------------------------------------------------------
Ids == HeaderIds \cup Requests

TypeOK ==
    /\ pc \in [Requests -> Places \cup {"idle", "answered"}]
    /\ endpoint \in [Requests -> Endpoints \cup {"none"}]
    /\ user \in [Requests -> {"none", "known"}]
    /\ trace \in [Requests -> Ids \cup {NoId}]
    /\ context \in [Requests -> Ids \cup {NoId}]
    /\ held \in [Requests -> 0..PoolSize]
    /\ wrote \in [Requests -> BOOLEAN]
    /\ changed \in [Requests -> BOOLEAN]
    /\ raised \in [Requests -> Exceptions \cup {"nothing"}]
    /\ answer \in [Requests -> [status : Nat, challenge : BOOLEAN,
                               header : Ids \cup {NoId}, body : Ids \cup {NoId}]]
    /\ log \in [Requests -> SUBSET [logger : {"access", "timing", "handlers"}, id : Ids]]

(* Every line that is logged for a request, by whichever middleware or     *)
(* handler and whether it names the id itself or leaves it to the context, *)
(* carries that request's trace id, and so does every answer it gets, the  *)
(* header missing only where nobody answered (trace.py, logging.py).       *)
TracedThroughout ==
    \A r \in Requests :
        /\ \A l \in log[r] : l.id = trace[r]
        /\ pc[r] = "answered" =>
              /\ answer[r].header = IF raised[r] = "Unexpected" THEN NoId ELSE trace[r]
              /\ raised[r] # "nothing" => answer[r].body = trace[r]

(* A request that is answered with an error has changed nothing, wherever  *)
(* the exception came from, and one that is answered with success has      *)
(* committed what it wrote before the answer (uow.py and the services that *)
(* raise after their unit of work).                                        *)
AnswerTellsCommit ==
    \A r \in Requests :
        pc[r] \in {"access", "timing", "send", "background", "task", "answered"} =>
            changed[r] = (wrote[r] /\ raised[r] = "nothing")

(* Whatever a request to a protected endpoint has committed, it did as a   *)
(* user whom authenticate_user found (dependency.py).                      *)
OnlyUsersChange ==
    \A r \in Requests : changed[r] /\ endpoint[r] \in Protected => user[r] = "known"

(* Every 401 that leaves carries the challenge WWW-Authenticate, whether   *)
(* the application raised it or OAuth2PasswordBearer (types.py,            *)
(* handlers.py).                                                           *)
UnauthorizedChallenges ==
    \A r \in Requests :
        pc[r] = "answered" /\ answer[r].status = 401 => answer[r].challenge

(* A request holds a connection in its unit of work and in no other place, *)
(* whatever has failed, been refused or been abandoned before (uow.py).    *)
ConnectionsReturned ==
    \A r \in Requests : held[r] = IF pc[r] \in Connected THEN 1 ELSE 0

(* On its way to the unit of work. *)
Before == {"auth", "authenticate", "validate", "serve"}

(* The answer of an endpoint or a handler, ... *)
AnswerWith(r, header) ==
    IF raised[r] = "nothing"
    THEN [status |-> 200, challenge |-> FALSE, header |-> header, body |-> NoId]
    ELSE ErrorAnswer(r, StatusOf(raised[r]), raised[r] \in Challenges, header)

(* ... what of it the middlewares pass on, and what reaches the client. *)
Due(r) == IF raised[r] = "Unexpected" THEN NoAnswer ELSE AnswerWith(r, NoId)

Sent(r) == AnswerWith(r, IF raised[r] = "Unexpected" THEN NoId ELSE trace[r])

(* What is known of a request at each place of its way. *)
WayKnown ==
    \A r \in Requests :
        /\ pc[r] = "idle" => log[r] = {} /\ ~changed[r]
        /\ pc[r] # "idle" => trace[r] \in Ids /\ context[r] = trace[r]
        /\ pc[r] \in Before => ~wrote[r]
        /\ pc[r] \in Before \cup {"unit", "raised"} => ~changed[r]
        /\ pc[r] = "build" => changed[r] = wrote[r]
        /\ pc[r] \in {"validate", "serve", "unit", "build"} /\ endpoint[r] \in Protected
              => user[r] = "known"
        /\ pc[r] \in Before \cup {"unit", "build", "background", "task"}
              => raised[r] = "nothing"
        /\ pc[r] \in Before \cup {"unit", "build", "raised"} => answer[r] = NoAnswer
        /\ pc[r] = "raised" => raised[r] # "nothing"

AnswersDue ==
    \A r \in Requests :
        /\ pc[r] \in {"access", "timing", "send"} => answer[r] = Due(r)
        /\ pc[r] \in {"background", "task", "answered"} => answer[r] = Sent(r)

(* Connections, users, challenges, trace ids and answers are right         *)
(* wherever requests are (uow.py, dependency.py, handlers.py). *)
IInv ==
    /\ TypeOK
    /\ ConnectionsReturned
    /\ OnlyUsersChange
    /\ UnauthorizedChallenges
    /\ TracedThroughout
    /\ AnswerTellsCommit
    /\ WayKnown
    /\ AnswersDue

(* Every request is answered or abandoned, with fewer connections than     *)
(* requests and up to three units of work each: none waits for a           *)
(* connection while it holds another (dependency.py, post_service.py).     *)
EveryRequestAnswered ==
    \A r \in Requests : pc[r] \in Places ~> pc[r] \in {"idle", "answered"}
=============================================================================
