------------------------- MODULE RegistrationProofs -------------------------
(***************************************************************************)
(* Proofs about Registration, for any requests, emails and nicknames, and  *)
(* for the schema of the migration as well as that of the models.          *)
(***************************************************************************)
EXTENDS Registration, TLAPS

LEMMA InitIInv == Init => IInv
  BY DEF Init, Schemas, IInv, TypeOK, KeysOwned, TakenOnlyIfRaced, EmailsDistinct, EmailTaken,
         NicknameTaken, Rows

(* A registration that begins has entered no key and passed no check. *)
LEMMA BeginStep ==
    ASSUME IInv, NEW r \in Requests, NEW e \in Emails, NEW n \in Nicknames, Begin(r, e, n)
    PROVE  IInv'
<1>. USE DEF IInv
<1>1. TypeOK'
  BY DEF Begin, Goto, TypeOK
<1>2. KeysOwned'
  BY DEF Begin, Goto, TypeOK, KeysOwned, EmailTaken, NicknameTaken
<1>3. TakenOnlyIfRaced'
  BY DEF Begin, Goto, TypeOK, TakenOnlyIfRaced, EmailTaken, NicknameTaken
<1>4. EmailsDistinct'
  BY DEF Begin, EmailsDistinct
<1>. QED
  BY <1>1, <1>2, <1>3, <1>4

(* A request that ends without a commit gives up its keys. *)
LEMMA FinishStep ==
    ASSUME IInv, NEW r \in Requests, UNCHANGED <<unique, users>>, Forget(r),
           NEW o \in {None, "UserExistEmail", "UserExistNickname", "PasswordValidation",
                      "IntegrityError"},
           Finish(r, o)
    PROVE  IInv'
<1>. USE DEF IInv
<1>1. TypeOK'
  BY DEF Finish, Forget, Goto, TypeOK
<1>2. KeysOwned'
  BY DEF Finish, Goto, TypeOK, KeysOwned, EmailTaken, NicknameTaken
<1>3. TakenOnlyIfRaced'
  BY DEF Finish, Forget, Goto, TypeOK, TakenOnlyIfRaced, EmailTaken, NicknameTaken
<1>4. EmailsDistinct'
  BY DEF EmailsDistinct
<1>. QED
  BY <1>1, <1>2, <1>3, <1>4

LEMMA CheckEmailStep ==
    ASSUME IInv, NEW r \in Requests, CheckEmail(r)
    PROVE  IInv'
<1>1. CASE EmailTaken(r) /\ Finish(r, "UserExistEmail") /\ Forget(r)
  BY <1>1, FinishStep DEF CheckEmail
<1>2. CASE /\ pc[r] = "email"
           /\ ~EmailTaken(r)
           /\ Goto(r, "nickname")
           /\ UNCHANGED <<unique, users, email, nickname, entered, outcome, raced>>
  <2>. USE DEF IInv
  <2>1. TypeOK'
    BY <1>2 DEF Goto, TypeOK
  <2>2. KeysOwned'
    BY <1>2 DEF Goto, TypeOK, KeysOwned, EmailTaken, NicknameTaken
  <2>3. TakenOnlyIfRaced'
    BY <1>2 DEF Goto, TypeOK, TakenOnlyIfRaced, EmailTaken, NicknameTaken
  <2>4. EmailsDistinct'
    BY <1>2 DEF EmailsDistinct
  <2>. QED
    BY <2>1, <2>2, <2>3, <2>4
<1>. QED
  BY <1>1, <1>2 DEF CheckEmail

LEMMA CheckNicknameStep ==
    ASSUME IInv, NEW r \in Requests, CheckNickname(r)
    PROVE  IInv'
<1>1. CASE \E o \in {"UserExistNickname", "PasswordValidation"} : Finish(r, o) /\ Forget(r)
  BY <1>1, FinishStep DEF CheckNickname
<1>2. CASE /\ pc[r] = "nickname"
           /\ ~NicknameTaken(r)
           /\ Goto(r, "insert")
           /\ UNCHANGED <<unique, users, email, nickname, entered, outcome, raced>>
  <2>. USE DEF IInv
  <2>1. TypeOK'
    BY <1>2 DEF Goto, TypeOK
  <2>2. KeysOwned'
    BY <1>2 DEF Goto, TypeOK, KeysOwned, EmailTaken, NicknameTaken
  <2>3. TakenOnlyIfRaced'
    BY <1>2 DEF Goto, TypeOK, TakenOnlyIfRaced, EmailTaken, NicknameTaken
  <2>4. EmailsDistinct'
    BY <1>2 DEF EmailsDistinct
  <2>. QED
    BY <2>1, <2>2, <2>3, <2>4
<1>. QED
  BY <1>1, <1>2 DEF CheckNickname

(* A key is entered when no account has it and nobody else has entered it; *)
(* after the last one the transaction may commit. *)
LEMMA EnterIndexStep ==
    ASSUME IInv, NEW r \in Requests, NEW index \in {"email", "nickname"}, EnterIndex(r, index)
    PROVE  IInv'
<1>1. CASE Finish(r, "IntegrityError") /\ Forget(r)
  BY <1>1, FinishStep DEF EnterIndex
<1>2. CASE /\ ~Duplicate(r, index)
           /\ Enter(r, index)
           /\ Goto(r, IF entered'[r] = unique THEN "commit" ELSE "insert")
           /\ UNCHANGED <<email, nickname, outcome, raced>>
  <2>. USE DEF IInv
  <2>0. /\ pc[r] = "insert"
        /\ index \in unique
        /\ UNCHANGED <<unique, users>>
        /\ entered' = [entered EXCEPT ![r] = @ \cup {index}]
    BY <1>2 DEF EnterIndex, Enter
  <2>1. TypeOK'
    BY <1>2, <2>0 DEF Goto, TypeOK
  <2>2. KeysOwned'
    <3>1. ASSUME NEW s \in Requests
          PROVE  /\ pc'[s] # "idle" => email'[s] \in Emails /\ nickname'[s] \in Nicknames
                 /\ pc'[s] \notin {"insert", "commit"} => entered'[s] = {}
                 /\ pc'[s] = "commit" => entered'[s] = unique'
                 /\ entered'[s] \subseteq unique'
      BY <1>2, <2>0 DEF Goto, TypeOK, KeysOwned
    <3>2. CASE index = "email"
      <4>1. /\ ~EmailTaken(r)
            /\ \A s \in Requests \ {r} : "email" \in entered[s] => email[s] # email[r]
        BY <1>2, <3>2 DEF EnterIndex, Entered, Duplicate
      <4>. QED
        BY <1>2, <2>0, <3>1, <3>2, <4>1 DEF TypeOK, KeysOwned, EmailTaken, NicknameTaken
    <3>3. CASE index = "nickname"
      <4>1. /\ ~NicknameTaken(r)
            /\ \A s \in Requests \ {r} : "nickname" \in entered[s] => nickname[s] # nickname[r]
        BY <1>2, <3>3 DEF EnterIndex, Entered, Duplicate
      <4>. QED
        BY <1>2, <2>0, <3>1, <3>3, <4>1 DEF TypeOK, KeysOwned, EmailTaken, NicknameTaken
    <3>. QED
      BY <3>2, <3>3
  <2>3. TakenOnlyIfRaced'
    BY <1>2, <2>0 DEF Goto, TypeOK, TakenOnlyIfRaced, EmailTaken, NicknameTaken
  <2>4. EmailsDistinct'
    BY <2>0 DEF EmailsDistinct
  <2>. QED
    BY <2>1, <2>2, <2>3, <2>4
<1>. QED
  BY <1>1, <1>2 DEF EnterIndex

(* A request about to commit has entered its email: no account has it. *)
LEMMA CommitKeys ==
    ASSUME IInv, NEW r \in Requests, Commit(r)
    PROVE  /\ entered[r] = unique /\ "email" \in unique /\ ~EmailTaken(r)
           /\ email[r] \in Emails /\ nickname[r] \in Nicknames
           /\ "nickname" \in unique => ~NicknameTaken(r)
           /\ users' = users \cup {[email |-> email[r], nickname |-> nickname[r]]}
  BY DEF IInv, Commit, NewUser, KeysOwned, TypeOK, Schemas

(* The new account has the keys that its request alone had entered, and    *)
(* those who share one with it have been overtaken. *)
LEMMA CommitStep ==
    ASSUME IInv, NEW r \in Requests, Commit(r)
    PROVE  IInv'
<1>. USE DEF IInv
<1>0. /\ entered[r] = unique /\ "email" \in unique /\ ~EmailTaken(r)
      /\ email[r] \in Emails /\ nickname[r] \in Nicknames
      /\ users' = users \cup {[email |-> email[r], nickname |-> nickname[r]]}
  BY CommitKeys
<1>1. TypeOK'
  <2>1. raced' \in [Requests -> SUBSET {"email", "nickname"}]
    BY DEF Commit, SharedKeys, TypeOK
  <2>. QED
    BY <1>0, <2>1 DEF Commit, Finish, Goto, TypeOK, Rows
<1>2. KeysOwned'
  <2>1. ASSUME NEW s \in Requests, "email" \in entered'[s]
        PROVE  ~EmailTaken(s)'
    <3>1. s # r /\ "email" \in entered[s] /\ email'[s] = email[s]
      BY <2>1, <1>0 DEF Commit, Finish, TypeOK
    <3>2. email[s] # email[r] /\ ~EmailTaken(s)
      BY <3>1, <1>0 DEF KeysOwned
    <3>. QED
      BY <1>0, <3>1, <3>2 DEF EmailTaken
  <2>2. ASSUME NEW s \in Requests, "nickname" \in entered'[s]
        PROVE  ~NicknameTaken(s)'
    <3>1. s # r /\ "nickname" \in entered[s] /\ nickname'[s] = nickname[s]
      BY <2>2, <1>0 DEF Commit, Finish, TypeOK
    <3>2. "nickname" \in entered[r]
      BY <3>1, <1>0 DEF KeysOwned
    <3>3. nickname[s] # nickname[r] /\ ~NicknameTaken(s)
      BY <3>1, <3>2 DEF KeysOwned
    <3>. QED
      BY <1>0, <3>1, <3>3 DEF NicknameTaken
  <2>. QED
    BY <2>1, <2>2 DEF Commit, Finish, Goto, TypeOK, KeysOwned
<1>3. TakenOnlyIfRaced'
  <2>1. ASSUME NEW s \in Requests, pc'[s] # "idle"
        PROVE  /\ s # r /\ pc'[s] = pc[s] /\ email'[s] = email[s] /\ nickname'[s] = nickname[s]
               /\ raced[s] \subseteq raced'[s]
               /\ email[s] = email[r] => "email" \in raced'[s]
               /\ nickname[s] = nickname[r] => "nickname" \in raced'[s]
    BY <2>1 DEF Commit, Finish, Goto, TypeOK, SharedKeys
  <2>2. ASSUME NEW s \in Requests, pc'[s] # "idle"
        PROVE  /\ EmailTaken(s)' => EmailTaken(s) \/ email[s] = email[r]
               /\ NicknameTaken(s)' => NicknameTaken(s) \/ nickname[s] = nickname[r]
    <3>1. email'[s] = email[s] /\ nickname'[s] = nickname[s]
      BY <2>1, <2>2
    <3>2. EmailTaken(s)' => EmailTaken(s) \/ email[s] = email[r]
      BY <1>0, <3>1 DEF EmailTaken
    <3>3. NicknameTaken(s)' => NicknameTaken(s) \/ nickname[s] = nickname[r]
      BY <1>0, <3>1 DEF NicknameTaken
    <3>. QED
      BY <3>2, <3>3
  <2>. QED
    BY <2>1, <2>2 DEF TakenOnlyIfRaced
<1>4. EmailsDistinct'
  BY <1>0 DEF EmailsDistinct, EmailTaken
<1>. QED
  BY <1>1, <1>2, <1>3, <1>4

LEMMA StutterStep == IInv /\ UNCHANGED vars => IInv'
  BY DEF IInv, vars, locals, TypeOK, KeysOwned, TakenOnlyIfRaced, EmailsDistinct, EmailTaken,
         NicknameTaken

LEMMA NextIInv == IInv /\ [Next]_vars => IInv'
<1>. SUFFICES ASSUME IInv, [Next]_vars
              PROVE  IInv'
  OBVIOUS
<1>1. CASE UNCHANGED vars
  BY <1>1, StutterStep
<1>2. CASE \E r \in Requests, e \in Emails, n \in Nicknames : Begin(r, e, n)
  BY <1>2, BeginStep
<1>3. CASE \E r \in Requests : CheckEmail(r)
  BY <1>3, CheckEmailStep
<1>4. CASE \E r \in Requests : CheckNickname(r)
  BY <1>4, CheckNicknameStep
<1>5. CASE \E r \in Requests, index \in {"email", "nickname"} : EnterIndex(r, index)
  BY <1>5, EnterIndexStep
<1>6. CASE \E r \in Requests : Commit(r)
  BY <1>6, CommitStep
<1>7. CASE \E r \in Requests : Fail(r)
  BY <1>7, FinishStep DEF Fail
<1>. QED
  BY <1>1, <1>2, <1>3, <1>4, <1>5, <1>6, <1>7 DEF Next, Step

-----------------------------------------------------------------------------
(* The inductive invariant of register, under either schema: types, the    *)
(* ownership of index keys, what a taken email or nickname says of the     *)
(* past, and that no two accounts share an email. *)
THEOREM Invariance == Spec => []IInv
  BY InitIInv, NextIInv, PTL DEF Spec

(* The step form of AccountsShareOnlyIfRaced. *)
ShareOnlyIfRaced ==
    \A r \in Requests :
        Commit(r) => /\ ~EmailTaken(r)
                     /\ NicknameTaken(r) => "nickname" \in raced[r] \ unique

LEMMA StepShareOnlyIfRaced == IInv => ShareOnlyIfRaced
<1>. SUFFICES ASSUME IInv, NEW r \in Requests, Commit(r)
              PROVE  /\ ~EmailTaken(r)
                     /\ NicknameTaken(r) => "nickname" \in raced[r] \ unique
  BY DEF ShareOnlyIfRaced
<1>1. ~EmailTaken(r) /\ ("nickname" \in unique => ~NicknameTaken(r))
  BY CommitKeys
<1>2. NicknameTaken(r) => "nickname" \in raced[r]
  BY DEF IInv, TakenOnlyIfRaced, Commit
<1>. QED
  BY <1>1, <1>2

(* An account never gets the email of another, and the nickname of another *)
(* only without ix_users_nickname and only if that account was committed   *)
(* while it registered (register). *)
THEOREM SharedOnlyRaced == Spec => AccountsShareOnlyIfRaced
<1>1. IInv /\ [Next]_vars => [ShareOnlyIfRaced]_vars
  BY StepShareOnlyIfRaced
<1>. QED
  BY <1>1, Invariance, PTL DEF Spec, AccountsShareOnlyIfRaced, ShareOnlyIfRaced

(* The step form of IndexErrorOnlyIfRaced. *)
ErrorOnlyIfRaced ==
    \A r \in Requests :
        outcome[r] # "IntegrityError" /\ outcome'[r] = "IntegrityError"
           => raced[r] \cap unique # {}

(* Only a duplicate key is answered so, and what the checks let through is *)
(* taken only after another commit. *)
LEMMA StepErrorOnlyIfRaced == IInv /\ [Next]_vars => [ErrorOnlyIfRaced]_vars
<1>. SUFFICES ASSUME IInv, Next, NEW r \in Requests,
                     outcome[r] # "IntegrityError", outcome'[r] = "IntegrityError"
              PROVE  raced[r] \cap unique # {}
  BY DEF ErrorOnlyIfRaced
<1>. USE DEF IInv
<1>1. ASSUME NEW s \in Requests, NEW index \in {"email", "nickname"}, EnterIndex(s, index)
      PROVE  raced[r] \cap unique # {}
  <2>1. s = r /\ pc[r] = "insert" /\ index \in unique /\ Duplicate(r, index)
    BY <1>1 DEF EnterIndex, Finish, TypeOK
  <2>2. index \in raced[r]
    BY <2>1 DEF Duplicate, TakenOnlyIfRaced
  <2>. QED
    BY <2>1, <2>2
<1>2. ASSUME NEW s \in Requests,
             \/ \E e \in Emails, n \in Nicknames : Begin(s, e, n)
             \/ CheckEmail(s) \/ CheckNickname(s) \/ Commit(s) \/ Fail(s)
      PROVE  FALSE
  BY <1>2 DEF Begin, CheckEmail, CheckNickname, Commit, Fail, Finish, TypeOK, None
<1>. QED
  BY <1>1, <1>2 DEF Next, Step

(* The error of an index is left to registrations that another one has     *)
(* overtaken with a key of theirs that is indexed (register). *)
THEOREM IndexErrorsOnlyRaced == Spec => IndexErrorOnlyIfRaced
  BY Invariance, StepErrorOnlyIfRaced, PTL DEF Spec, IndexErrorOnlyIfRaced, ErrorOnlyIfRaced
=============================================================================
