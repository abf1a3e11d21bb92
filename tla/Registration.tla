---------------------------- MODULE Registration ----------------------------
(***************************************************************************)
(* Concurrent registrations:                                               *)
(*   AuthService.register              (app/services/auth_service.py)      *)
(*   UserRepository                    (app/repositories/user.py)          *)
(* Email and nickname are looked up by two SELECTs without a lock; what    *)
(* unique indexes users has decides at the INSERT.  An INSERT enters them  *)
(* one after the other, and waits at a key that another open transaction   *)
(* has entered.  The schema of the migration has one on the email only,    *)
(* that of the models (Base.metadata.create_all) one on the nickname too.  *)
(***************************************************************************)
EXTENDS Naturals

CONSTANTS
    Requests,   \* connections that serve registrations
    Emails,
    Nicknames

None == "none"

Schemas == {{"email"}, {"email", "nickname"}}

VARIABLES
    unique,    \* columns of users with a unique index
    users,     \* committed rows of users
    pc,
    email,     \* data.email
    nickname,  \* data.nickname
    entered,   \* indexes the open INSERT has entered its key into
    outcome,   \* what the last registration on a connection was answered
    (* History: *)
    raced      \* which of its email and nickname others have got since it began

locals == <<pc, email, nickname, entered>>
vars == <<unique, users, locals, outcome, raced>>

Rows == [email : Emails, nickname : Nicknames]

(* The migration creates ix_users_email alone; the models declare          *)
(* ix_users_nickname as well. *)
Init ==
    /\ unique \in Schemas
    /\ users = {}
    /\ pc = [r \in Requests |-> "idle"]
    /\ email = [r \in Requests |-> None]
    /\ nickname = [r \in Requests |-> None]
    /\ entered = [r \in Requests |-> {}]
    /\ outcome = [r \in Requests |-> None]
    /\ raced = [r \in Requests |-> {}]

Goto(r, l) == pc' = [pc EXCEPT ![r] = l]

(* register is called. *)
Begin(r, e, n) ==
    /\ pc[r] = "idle"
    /\ email' = [email EXCEPT ![r] = e]
    /\ nickname' = [nickname EXCEPT ![r] = n]
    /\ outcome' = [outcome EXCEPT ![r] = None]
    /\ Goto(r, "email")
    /\ UNCHANGED <<unique, users, entered, raced>>

(* The request is over and answered with o. *)
Finish(r, o) ==
    /\ Goto(r, "idle")
    /\ email' = [email EXCEPT ![r] = None]
    /\ nickname' = [nickname EXCEPT ![r] = None]
    /\ entered' = [entered EXCEPT ![r] = {}]
    /\ outcome' = [outcome EXCEPT ![r] = o]

Forget(r) == raced' = [raced EXCEPT ![r] = {}]

EmailTaken(r) == \E x \in users : x.email = email[r]
NicknameTaken(r) == \E x \in users : x.nickname = nickname[r]

(* Plausible bug: is_available_email compares with the wrong column, and   *)
(* lets every email through. *)
CheckEmailSkips(r) ==
    /\ pc[r] = "email"
    /\ Goto(r, "nickname")
    /\ UNCHANGED <<unique, users, email, nickname, entered, outcome, raced>>

(* is_available_email *)
CheckEmail(r) ==
    /\ pc[r] = "email"
    /\ UNCHANGED <<unique, users>>
    /\ \/ EmailTaken(r) /\ Finish(r, "UserExistEmail") /\ Forget(r)
       \/ /\ ~EmailTaken(r)
          /\ Goto(r, "nickname")
          /\ UNCHANGED <<email, nickname, entered, outcome, raced>>

(* Plausible bug: register leaves the nickname to ix_users_nickname. *)
CheckNicknameSkips(r) ==
    /\ pc[r] = "nickname"
    /\ Goto(r, "insert")
    /\ UNCHANGED <<unique, users, email, nickname, entered, outcome, raced>>

(* is_available_nickname, then the password is validated and hashed; a     *)
(* weak one raises. *)
CheckNickname(r) ==
    /\ pc[r] = "nickname"
    /\ UNCHANGED <<unique, users>>
    /\ \/ NicknameTaken(r) /\ Finish(r, "UserExistNickname") /\ Forget(r)
       \/ ~NicknameTaken(r) /\ Finish(r, "PasswordValidation") /\ Forget(r)
       \/ /\ ~NicknameTaken(r)
          /\ Goto(r, "insert")
          /\ UNCHANGED <<email, nickname, entered, outcome, raced>>

(* Another open transaction has entered r's key into the index. *)
Entered(r, index) ==
    \E s \in Requests \ {r} :
        /\ index \in entered[s]
        /\ IF index = "email" THEN email[s] = email[r] ELSE nickname[s] = nickname[r]

Enter(r, index) == entered' = [entered EXCEPT ![r] = @ \cup {index}]

Duplicate(r, index) == IF index = "email" THEN EmailTaken(r) ELSE NicknameTaken(r)

(* register_user: INSERT at the flush, first ix_users_email, then          *)
(* ix_users_nickname where it exists.  A committed duplicate is an         *)
(* IntegrityError, which nothing catches: the answer is 500 UNKNOWN_ERROR. *)
EnterIndex(r, index) ==
    /\ pc[r] = "insert"
    /\ index \in unique \ entered[r]
    /\ index = "nickname" => "email" \in entered[r]
    /\ ~Entered(r, index)
    /\ UNCHANGED <<unique, users>>
    /\ \/ Duplicate(r, index) /\ Finish(r, "IntegrityError") /\ Forget(r)
       \/ /\ ~Duplicate(r, index)
          /\ Enter(r, index)
          /\ Goto(r, IF entered'[r] = unique THEN "commit" ELSE "insert")
          /\ UNCHANGED <<email, nickname, outcome, raced>>

(* Plausible bug: the arguments of User are swapped. *)
NewUserSwapped(r) == [email |-> nickname[r], nickname |-> email[r]]

NewUser(r) == [email |-> email[r], nickname |-> nickname[r]]

SharedKeys(r, s) ==
    {k \in {"email", "nickname"} :
        IF k = "email" THEN email[s] = email[r] ELSE nickname[s] = nickname[r]}

(* The transaction commits, then the answer is built. *)
Commit(r) ==
    /\ pc[r] = "commit"
    /\ users' = users \cup {NewUser(r)}
    /\ raced' = [s \in Requests |->
                    IF s = r THEN {} ELSE raced[s] \cup SharedKeys(r, s)]
    /\ Finish(r, "ok")
    /\ UNCHANGED unique

(* The process dies, or a statement raises otherwise: rollback. *)
Fail(r) ==
    /\ pc[r] # "idle"
    /\ Finish(r, None)
    /\ Forget(r)
    /\ UNCHANGED <<unique, users>>

Step(r) ==
    \/ CheckEmail(r)
    \/ CheckNickname(r)
    \/ \E index \in {"email", "nickname"} : EnterIndex(r, index)
    \/ Commit(r)

Next ==
    \E r \in Requests :
        \/ \E e \in Emails, n \in Nicknames : Begin(r, e, n)
        \/ Step(r)
        \/ Fail(r)

Spec == Init /\ [][Next]_vars
-----------------------------------------------------------------------------
TypeOK ==
    /\ unique \in Schemas
    /\ users \subseteq Rows
    /\ pc \in [Requests -> {"idle", "email", "nickname", "insert", "commit"}]
    /\ email \in [Requests -> Emails \cup {None}]
    /\ nickname \in [Requests -> Nicknames \cup {None}]
    /\ entered \in [Requests -> SUBSET {"email", "nickname"}]
    /\ outcome \in [Requests -> {None, "ok", "UserExistEmail", "UserExistNickname",
                                 "PasswordValidation", "IntegrityError"}]
    /\ raced \in [Requests -> SUBSET {"email", "nickname"}]

(* Whoever has entered a key is the only one, and no account has it. *)
KeysOwned ==
    /\ \A r \in Requests :
          /\ pc[r] # "idle" => email[r] \in Emails /\ nickname[r] \in Nicknames
          /\ pc[r] \notin {"insert", "commit"} => entered[r] = {}
          /\ pc[r] = "commit" => entered[r] = unique
          /\ entered[r] \subseteq unique
          /\ "email" \in entered[r] => ~EmailTaken(r)
          /\ "nickname" \in entered[r] => ~NicknameTaken(r)
    /\ \A r, s \in Requests :
          r # s => /\ "email" \in entered[r] \cap entered[s] => email[r] # email[s]
                   /\ "nickname" \in entered[r] \cap entered[s] => nickname[r] # nickname[s]

(* What a check has let through is taken only by an account since then. *)
TakenOnlyIfRaced ==
    \A r \in Requests :
        /\ pc[r] \in {"nickname", "insert", "commit"} /\ EmailTaken(r)
              => "email" \in raced[r]
        /\ pc[r] \in {"insert", "commit"} /\ NicknameTaken(r) => "nickname" \in raced[r]

(* No two accounts share an email. *)
EmailsDistinct == \A x, y \in users : x.email = y.email => x = y

(* What decides who gets an email or a nickname, under either schema: a    *)
(* key of a unique index belongs to one INSERT at a time, and what the     *)
(* checks have let through is taken only by a later commit (register). *)
IInv == TypeOK /\ KeysOwned /\ TakenOnlyIfRaced /\ EmailsDistinct

(* A new account never has the email of another; it has the nickname of    *)
(* another only if that one was committed while this registration ran,     *)
(* after its check, and the database lacks ix_users_nickname (register).   *)
AccountsShareOnlyIfRaced ==
    [][\A r \in Requests :
         Commit(r) =>
            /\ ~EmailTaken(r)
            /\ NicknameTaken(r) => "nickname" \in raced[r] \ unique]_vars

(* An email or nickname that is taken is answered by the checks of         *)
(* register, as its docstring says; the error of an index, which nothing   *)
(* catches, is left to registrations that another one has overtaken with a *)
(* key of theirs that is indexed (register). *)
IndexErrorOnlyIfRaced ==
    [][\A r \in Requests :
         outcome[r] # "IntegrityError" /\ outcome'[r] = "IntegrityError"
            => raced[r] \cap unique # {}]_vars

(* What the models declare, Index("ix_users_nickname", "nickname",         *)
(* unique=True): no two accounts share a nickname.  The migration does not *)
(* create that index, and two registrations whose checks overlap get the   *)
(* same nickname (register). *)
NicknamesDistinct == \A x, y \in users : x.nickname = y.nickname => x = y
=============================================================================
