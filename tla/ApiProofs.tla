----------------------------- MODULE ApiProofs -----------------------------
(***************************************************************************)
(* What holds of the way of every request, for any number of overlapping   *)
(* requests, any endpoints and any pool: connections come back, users and  *)
(* challenges are right, trace ids do not mix, and an answer tells what    *)
(* was committed.                                                          *)
(***************************************************************************)
EXTENDS Api, TLAPS

(* The invariant without what follows from the rest of it. *)
LogsTraced == \A r \in Requests : \A l \in log[r] : l.id = trace[r]

Core ==
    /\ TypeOK
    /\ ConnectionsReturned
    /\ OnlyUsersChange
    /\ LogsTraced
    /\ AnswerTellsCommit
    /\ WayKnown
    /\ AnswersDue

(* What becomes of an exception. *)
LEMMA HandledOnes ==
    /\ "nothing" \notin Handled /\ "Unexpected" \notin Handled
    /\ "Unexpected" \notin Challenges
BY DEF Handled, PostErrors, UserErrors, CommentErrors, TokenErrors, CommonErrors,
       FrameworkErrors, Challenges

(* A 401 is the status of exceptions with a challenge only. *)
LEMMA Statuses ==
    /\ \A x : StatusOf(x) \in Nat /\ StatusOf(x) # 0
    /\ \A x : StatusOf(x) = 401 => x \in Challenges
    /\ StatusOf("Unexpected") = 500
BY DEF StatusOf, Challenges, TokenErrors

LEMMA Endpoint ==
    /\ Open \cap Protected = {}
    /\ OptionalUser \cap Protected = {}
BY DEF Open, Protected, OptionalUser

LEMMA AnswerFields ==
    ASSUME NEW r \in Requests, NEW header
    PROVE  /\ AnswerWith(r, header) # NoAnswer
           /\ AnswerWith(r, header).header = header
           /\ raised[r] # "nothing" => AnswerWith(r, header).body = trace[r]
           /\ AnswerWith(r, header).status = 401 => AnswerWith(r, header).challenge
           /\ [AnswerWith(r, NoId) EXCEPT !.header = header] = AnswerWith(r, header)
           /\ raised[r] = "nothing" => [NoAnswer EXCEPT !.status = 200] = AnswerWith(r, NoId)
           /\ raised[r] = "Unexpected" => ErrorAnswer(r, 500, FALSE, NoId) = AnswerWith(r, NoId)
<1>1. CASE raised[r] = "nothing"
  <2>. DEFINE no == FALSE
  <2>1. /\ AnswerWith(r, header) = [status |-> 200, challenge |-> no,
                                  header |-> header, body |-> NoId]
        /\ AnswerWith(r, NoId) = [status |-> 200, challenge |-> no,
                                  header |-> NoId, body |-> NoId]
    BY <1>1 DEF AnswerWith
  <2>5. NoAnswer = [status |-> 0, challenge |-> no, header |-> NoId, body |-> NoId]
    BY DEF NoAnswer
  <2>. HIDE DEF no
  <2>2. AnswerWith(r, header).status = 200 /\ AnswerWith(r, header).header = header
    BY <2>1
  <2>3. AnswerWith(r, header) # NoAnswer
    BY <2>2 DEF NoAnswer
  <2>4. [AnswerWith(r, NoId) EXCEPT !.header = header] = AnswerWith(r, header)
    BY <2>1
  <2>6. [NoAnswer EXCEPT !.status = 200] = AnswerWith(r, NoId)
    BY <2>1, <2>5
  <2>. QED
    BY <1>1, <2>2, <2>3, <2>4, <2>6
<1>2. CASE raised[r] # "nothing"
  <2>. DEFINE status == StatusOf(raised[r])
              challenge == raised[r] \in Challenges
  <2>1. /\ AnswerWith(r, header) = [status |-> status, challenge |-> challenge,
                                  header |-> header, body |-> trace[r]]
        /\ AnswerWith(r, NoId) = [status |-> status, challenge |-> challenge,
                                  header |-> NoId, body |-> trace[r]]
    BY <1>2 DEF AnswerWith, ErrorAnswer
  <2>2. status # 0 /\ (status = 401 => challenge)
    BY Statuses
  <2>. HIDE DEF status, challenge
  <2>3. AnswerWith(r, header).status = status /\ AnswerWith(r, header).challenge = challenge
    BY <2>1
  <2>4. AnswerWith(r, header) # NoAnswer
    BY <2>2, <2>3 DEF NoAnswer
  <2>5. [AnswerWith(r, NoId) EXCEPT !.header = header] = AnswerWith(r, header)
    BY <2>1
  <2>6. AnswerWith(r, header).header = header /\ AnswerWith(r, header).body = trace[r]
    BY <2>1
  <2>7. ASSUME raised[r] = "Unexpected"
        PROVE  ErrorAnswer(r, 500, FALSE, NoId) = AnswerWith(r, NoId)
    <3>1. status = 500 /\ challenge = FALSE
      BY <2>7, Statuses, HandledOnes DEF status, challenge
    <3>. QED
      BY <3>1, <2>1 DEF ErrorAnswer
  <2>. QED
    BY <1>2, <2>2, <2>3, <2>4, <2>5, <2>6, <2>7
<1>. QED
  BY <1>1, <1>2

LEMMA AnswerTyped ==
    ASSUME TypeOK, NEW r \in Requests, NEW header \in Ids \cup {NoId}
    PROVE  AnswerWith(r, header) \in [status : Nat, challenge : BOOLEAN,
                                     header : Ids \cup {NoId}, body : Ids \cup {NoId}]
BY Statuses DEF TypeOK, AnswerWith, ErrorAnswer

LEMMA CoreIsIInv == Core <=> IInv
<1>1. ASSUME AnswersDue, NEW r \in Requests, pc[r] = "answered"
      PROVE  /\ answer[r].status = 401 => answer[r].challenge
             /\ answer[r].header = IF raised[r] = "Unexpected" THEN NoId ELSE trace[r]
             /\ raised[r] # "nothing" => answer[r].body = trace[r]
  <2>1. answer[r] = Sent(r)
    BY <1>1 DEF AnswersDue
  <2>. DEFINE header == IF raised[r] = "Unexpected" THEN NoId ELSE trace[r]
  <2>2. answer[r] = AnswerWith(r, header)
    BY <2>1 DEF Sent
  <2>. HIDE DEF header
  <2>3. /\ AnswerWith(r, header).status = 401 => AnswerWith(r, header).challenge
        /\ AnswerWith(r, header).header = header
        /\ raised[r] # "nothing" => AnswerWith(r, header).body = trace[r]
    BY AnswerFields
  <2>. QED
    BY <2>2, <2>3 DEF header
<1>2. AnswersDue /\ LogsTraced => UnauthorizedChallenges /\ TracedThroughout
  BY <1>1 DEF UnauthorizedChallenges, TracedThroughout, LogsTraced
<1>3. TracedThroughout => LogsTraced
  BY DEF TracedThroughout, LogsTraced
<1>. QED
  BY <1>2, <1>3 DEF Core, IInv

LEMMA InitCore == Init => Core
BY IdAssumption, PoolAssumption
DEF Init, Core, TypeOK, ConnectionsReturned, OnlyUsersChange, LogsTraced,
    AnswerTellsCommit, WayKnown, AnswersDue, AnswerWith, NoAnswer, Places, Connected, Before

-----------------------------------------------------------------------------
(* Other requests keep their answers, and what is due to them. *)
Kept(r) ==
    \A s \in Requests \ {r} :
        /\ pc'[s] = pc[s]
        /\ raised'[s] = raised[s]
        /\ trace'[s] = trace[s]
        /\ answer'[s] = answer[s]

LEMMA AnswersKept ==
    ASSUME AnswersDue, NEW r \in Requests, Kept(r),
           pc'[r] \in {"access", "timing", "send"} => answer'[r] = Due(r)',
           pc'[r] \in {"background", "task", "answered"} => answer'[r] = Sent(r)'
    PROVE  AnswersDue'
<1>1. \A s \in Requests \ {r} : Due(s)' = Due(s) /\ Sent(s)' = Sent(s)
  BY DEF Kept, Due, Sent, AnswerWith, ErrorAnswer
<1>. QED
  BY <1>1 DEF Kept, AnswersDue

(* Step by step: the types, the connection and the user, the log and what  *)
(* is known of the request's place, and the answers. *)
LEMMA ReceiveCore ==
    ASSUME Core, NEW r \in Requests, NEW e \in Endpoints,
           NEW incoming \in HeaderIds \cup {NoId}, Receive(r, e, incoming)
    PROVE  Core'
<1>. USE DEF Core, Receive, Blank, SetContext, Goto
<1>1. TypeOK'
  BY PoolAssumption, IdAssumption, Endpoint DEF TypeOK, WayKnown, ConnectionsReturned,
      Places, Connected, Before, Ids, NoAnswer
<1>2. ConnectionsReturned' /\ OnlyUsersChange'
  BY DEF TypeOK, ConnectionsReturned, OnlyUsersChange, WayKnown, Connected, Before
<1>3. LogsTraced' /\ AnswerTellsCommit' /\ WayKnown'
  BY IdAssumption, Endpoint DEF TypeOK, LogsTraced, AnswerTellsCommit, WayKnown, Before,
      Ids
<1>4. Kept(r)
  BY DEF Kept, TypeOK
<1>5. pc'[r] \notin {"access", "timing", "send", "background", "task", "answered"}
  BY DEF TypeOK
<1>6. AnswersDue'
  BY <1>4, <1>5, AnswersKept
<1>. QED
  BY <1>1, <1>2, <1>3, <1>6

LEMMA AbandonCore ==
    ASSUME Core, NEW r \in Requests, Abandon(r)
    PROVE  Core'
<1>. USE DEF Core, Abandon, Closed, Blank, Goto
<1>1. TypeOK'
  BY PoolAssumption, IdAssumption DEF TypeOK, WayKnown, ConnectionsReturned, Places,
      Connected, Before, NoAnswer
<1>2. ConnectionsReturned' /\ OnlyUsersChange'
  BY DEF TypeOK, ConnectionsReturned, OnlyUsersChange, WayKnown, Connected, Before
<1>3. LogsTraced' /\ AnswerTellsCommit' /\ WayKnown'
  BY IdAssumption DEF TypeOK, LogsTraced, AnswerTellsCommit, WayKnown, Before
<1>4. Kept(r)
  BY DEF Kept, TypeOK
<1>5. pc'[r] \notin {"access", "timing", "send", "background", "task", "answered"}
  BY DEF TypeOK
<1>6. AnswersDue'
  BY <1>4, <1>5, AnswersKept
<1>. QED
  BY <1>1, <1>2, <1>3, <1>6

(* An exception leaves its place with the connection returned and nothing  *)
(* committed. *)
LEMMA RaiseCore ==
    ASSUME Core, NEW r \in Requests, NEW x \in Exceptions, Raise(r, x),
           pc[r] \in Before \cup {"unit", "build"}, x # "nothing",
           held' = IF pc[r] \in Connected THEN [held EXCEPT ![r] = @ - 1] ELSE held,
           changed' = [changed EXCEPT ![r] = FALSE],
           UNCHANGED <<requestVars, wrote>>
    PROVE  Core'
<1>. USE DEF Core, Raise, Goto, requestVars
<1>1. TypeOK'
  BY PoolAssumption DEF TypeOK, WayKnown, ConnectionsReturned, Places, Connected, Before
<1>2. ConnectionsReturned' /\ OnlyUsersChange'
  BY DEF TypeOK, ConnectionsReturned, OnlyUsersChange, WayKnown, Connected, Before
<1>3. LogsTraced' /\ AnswerTellsCommit' /\ WayKnown'
  BY DEF TypeOK, LogsTraced, AnswerTellsCommit, WayKnown, Before
<1>4. Kept(r)
  BY DEF Kept, TypeOK
<1>5. pc'[r] \notin {"access", "timing", "send", "background", "task", "answered"}
  BY DEF TypeOK
<1>6. AnswersDue'
  BY <1>4, <1>5, AnswersKept
<1>. QED
  BY <1>1, <1>2, <1>3, <1>6

(* A unit of work begins with one connection. *)
LEMMA ConnectCore ==
    ASSUME Core, NEW r \in Requests, NEW place \in Connected, Connect(r, place),
           \/ pc[r] = "auth" /\ place = "authenticate"
           \/ pc[r] = "serve" /\ place = "unit"
           \/ pc[r] = "background" /\ place = "task",
           UNCHANGED <<requestVars, wrote, changed, outVars>>
    PROVE  Core'
<1>. USE DEF Core, Connect, Goto, requestVars, outVars
<1>1. TypeOK'
  BY PoolAssumption DEF TypeOK, WayKnown, ConnectionsReturned, Places, Connected, Before
<1>2. ConnectionsReturned' /\ OnlyUsersChange'
  BY DEF TypeOK, ConnectionsReturned, OnlyUsersChange, WayKnown, Connected, Before
<1>3. LogsTraced' /\ AnswerTellsCommit' /\ WayKnown'
  BY DEF TypeOK, LogsTraced, AnswerTellsCommit, WayKnown, Before
<1>4. Kept(r)
  BY DEF Kept, TypeOK
<1>5. pc'[r] \in {"background", "task", "answered"} => answer'[r] = Sent(r)'
  BY DEF TypeOK, AnswersDue, Sent, Due, AnswerWith, ErrorAnswer
<1>6. pc'[r] \notin {"access", "timing", "send"}
  BY DEF TypeOK
<1>7. AnswersDue'
  BY <1>4, <1>5, <1>6, AnswersKept
<1>. QED
  BY <1>1, <1>2, <1>3, <1>7

(* A dependency is passed. *)
LEMMA AdvanceCore ==
    ASSUME Core, NEW r \in Requests,
           \/ pc[r] = "auth" /\ endpoint[r] \in OptionalUser /\ Goto(r, "validate")
           \/ pc[r] = "validate" /\ Goto(r, "serve"),
           UNCHANGED <<requestVars, unitVars, outVars>>
    PROVE  Core'
<1>. USE DEF Core, Goto, requestVars, unitVars, outVars
<1>1. TypeOK'
  BY PoolAssumption DEF TypeOK, WayKnown, ConnectionsReturned, Places, Connected, Before
<1>2. ConnectionsReturned' /\ OnlyUsersChange'
  BY DEF TypeOK, ConnectionsReturned, OnlyUsersChange, WayKnown, Connected, Before
<1>3. LogsTraced' /\ AnswerTellsCommit' /\ WayKnown'
  BY DEF TypeOK, LogsTraced, AnswerTellsCommit, WayKnown, Before, OptionalUser, Protected
<1>4. Kept(r)
  BY DEF Kept, TypeOK
<1>5. pc'[r] \notin {"access", "timing", "send", "background", "task", "answered"}
  BY DEF TypeOK
<1>6. AnswersDue'
  BY <1>4, <1>5, AnswersKept
<1>. QED
  BY <1>1, <1>2, <1>3, <1>6

LEMMA FindUserCore ==
    ASSUME Core, NEW r \in Requests, FindUser(r)
    PROVE  Core'
<1>. USE DEF Core, FindUser, Closed, Goto, outVars
<1>1. TypeOK'
  BY PoolAssumption DEF TypeOK, WayKnown, ConnectionsReturned, Places, Connected, Before
<1>2. ConnectionsReturned' /\ OnlyUsersChange'
  BY DEF TypeOK, ConnectionsReturned, OnlyUsersChange, WayKnown, Connected, Before
<1>3. LogsTraced' /\ AnswerTellsCommit' /\ WayKnown'
  BY DEF TypeOK, LogsTraced, AnswerTellsCommit, WayKnown, Before
<1>4. Kept(r)
  BY DEF Kept, TypeOK
<1>5. pc'[r] \notin {"access", "timing", "send", "background", "task", "answered"}
  BY DEF TypeOK
<1>6. AnswersDue'
  BY <1>4, <1>5, AnswersKept
<1>. QED
  BY <1>1, <1>2, <1>3, <1>6

LEMMA WriteCore ==
    ASSUME Core, NEW r \in Requests, Write(r)
    PROVE  Core'
<1>. USE DEF Core, Write, requestVars, outVars
<1>1. TypeOK'
  BY PoolAssumption DEF TypeOK, WayKnown, ConnectionsReturned, Places, Connected, Before
<1>2. ConnectionsReturned' /\ OnlyUsersChange'
  BY DEF TypeOK, ConnectionsReturned, OnlyUsersChange, WayKnown, Connected, Before
<1>3. LogsTraced' /\ AnswerTellsCommit' /\ WayKnown'
  BY DEF TypeOK, LogsTraced, AnswerTellsCommit, WayKnown, Before
<1>4. Kept(r)
  BY DEF Kept, TypeOK
<1>5. pc'[r] \notin {"access", "timing", "send", "background", "task", "answered"}
  BY DEF TypeOK
<1>6. AnswersDue'
  BY <1>4, <1>5, AnswersKept
<1>. QED
  BY <1>1, <1>2, <1>3, <1>6

LEMMA CommitUnitCore ==
    ASSUME Core, NEW r \in Requests, CommitUnit(r)
    PROVE  Core'
<1>. USE DEF Core, CommitUnit, EndUnit, Committed, Closed, Goto, requestVars, outVars
<1>1. TypeOK'
  BY PoolAssumption DEF TypeOK, WayKnown, ConnectionsReturned, Places, Connected, Before
<1>2. ConnectionsReturned' /\ OnlyUsersChange'
  BY DEF TypeOK, ConnectionsReturned, OnlyUsersChange, WayKnown, Connected, Before
<1>3. LogsTraced' /\ AnswerTellsCommit' /\ WayKnown'
  BY DEF TypeOK, LogsTraced, AnswerTellsCommit, WayKnown, Before
<1>4. Kept(r)
  BY DEF Kept, TypeOK
<1>5. pc'[r] \notin {"access", "timing", "send", "background", "task", "answered"}
  BY DEF TypeOK
<1>6. AnswersDue'
  BY <1>4, <1>5, AnswersKept
<1>. QED
  BY <1>1, <1>2, <1>3, <1>6

(* An endpoint returns. *)
LEMMA SucceedCore ==
    ASSUME Core, NEW r \in Requests, pc[r] = "build", Succeed(r),
           UNCHANGED <<requestVars, unitVars>>
    PROVE  Core'
<1>. USE DEF Core, Succeed, Goto, requestVars, unitVars
<1>1. TypeOK'
  BY PoolAssumption DEF TypeOK, WayKnown, ConnectionsReturned, Places, Connected, Before
<1>2. ConnectionsReturned' /\ OnlyUsersChange'
  BY DEF TypeOK, ConnectionsReturned, OnlyUsersChange, WayKnown, Connected, Before
<1>3. LogsTraced' /\ AnswerTellsCommit' /\ WayKnown'
  BY DEF TypeOK, LogsTraced, AnswerTellsCommit, WayKnown, Before
<1>4. Kept(r)
  BY DEF Kept, TypeOK
<1>5. pc'[r] \in {"access", "timing", "send"} => answer'[r] = Due(r)'
  <2>1. raised[r] = "nothing" /\ raised' = raised /\ answer'[r] = [NoAnswer EXCEPT !.status = 200]
    BY DEF TypeOK, WayKnown, Before
  <2>2. Due(r)' = Due(r)
    BY <2>1 DEF Due, AnswerWith, ErrorAnswer
  <2>. QED
    BY <2>1, <2>2, AnswerFields DEF Due
<1>6. pc'[r] \notin {"background", "task", "answered"}
  BY DEF TypeOK
<1>7. AnswersDue'
  BY <1>4, <1>5, <1>6, AnswersKept
<1>. QED
  BY <1>1, <1>2, <1>3, <1>7

LEMMA HandleCore ==
    ASSUME Core, NEW r \in Requests, Handle(r)
    PROVE  Core'
<1>. USE DEF Core, Handle, Goto, requestVars, unitVars
<1>0. raised[r] # "nothing" /\ raised[r] \in Handled \cup {"Unexpected"}
      /\ (raised[r] \in Handled <=> raised[r] # "Unexpected")
  BY DEF TypeOK, WayKnown, Exceptions, Handled, PostErrors, UserErrors, CommentErrors,
      TokenErrors,
      CommonErrors, FrameworkErrors
<1>1. TypeOK'
  BY PoolAssumption, <1>0, Statuses DEF TypeOK, WayKnown, ConnectionsReturned, Places,
      Connected, Before, ErrorAnswer, NoAnswer
<1>2. ConnectionsReturned' /\ OnlyUsersChange'
  BY DEF TypeOK, ConnectionsReturned, OnlyUsersChange, WayKnown, Connected, Before
<1>3. LogsTraced' /\ AnswerTellsCommit' /\ WayKnown'
  BY <1>0, Statuses DEF TypeOK, LogsTraced, AnswerTellsCommit, WayKnown, Before
<1>4. Kept(r)
  BY DEF Kept, TypeOK
<1>5. pc'[r] \in {"access", "timing", "send"} => answer'[r] = Due(r)'
  BY <1>0 DEF TypeOK, Due, AnswerWith, ErrorAnswer, NoAnswer
<1>6. pc'[r] \notin {"background", "task", "answered"}
  BY DEF TypeOK
<1>7. AnswersDue'
  BY <1>4, <1>5, <1>6, AnswersKept
<1>. QED
  BY <1>1, <1>2, <1>3, <1>7

LEMMA AccessLogCore ==
    ASSUME Core, NEW r \in Requests, AccessLog(r)
    PROVE  Core'
<1>. USE DEF Core, AccessLog, Line, Goto, requestVars, unitVars
<1>1. TypeOK'
  BY PoolAssumption DEF TypeOK, WayKnown, ConnectionsReturned, Places, Connected, Before
<1>2. ConnectionsReturned' /\ OnlyUsersChange'
  BY DEF TypeOK, ConnectionsReturned, OnlyUsersChange, WayKnown, Connected, Before
<1>3. LogsTraced' /\ AnswerTellsCommit' /\ WayKnown'
  BY DEF TypeOK, LogsTraced, AnswerTellsCommit, WayKnown, Before
<1>4. Kept(r)
  BY DEF Kept, TypeOK
<1>5. pc'[r] \in {"access", "timing", "send"} => answer'[r] = Due(r)'
  BY DEF TypeOK, AnswersDue, Due, AnswerWith, ErrorAnswer
<1>6. pc'[r] \notin {"background", "task", "answered"}
  BY DEF TypeOK
<1>7. AnswersDue'
  BY <1>4, <1>5, <1>6, AnswersKept
<1>. QED
  BY <1>1, <1>2, <1>3, <1>7

LEMMA TimingLogCore ==
    ASSUME Core, NEW r \in Requests, TimingLog(r)
    PROVE  Core'
<1>. USE DEF Core, TimingLog, Line, Goto, requestVars, unitVars
<1>1. TypeOK'
  BY PoolAssumption DEF TypeOK, WayKnown, ConnectionsReturned, Places, Connected, Before
<1>2. ConnectionsReturned' /\ OnlyUsersChange'
  BY DEF TypeOK, ConnectionsReturned, OnlyUsersChange, WayKnown, Connected, Before
<1>3. LogsTraced' /\ AnswerTellsCommit' /\ WayKnown'
  BY DEF TypeOK, LogsTraced, AnswerTellsCommit, WayKnown, Before
<1>4. Kept(r)
  BY DEF Kept, TypeOK
<1>5. pc'[r] \in {"access", "timing", "send"} => answer'[r] = Due(r)'
  BY DEF TypeOK, AnswersDue, Due, AnswerWith, ErrorAnswer
<1>6. pc'[r] \notin {"background", "task", "answered"}
  BY DEF TypeOK
<1>7. AnswersDue'
  BY <1>4, <1>5, <1>6, AnswersKept
<1>. QED
  BY <1>1, <1>2, <1>3, <1>7

(* What reaches the client is what is due, with the header. *)
LEMMA SendAnswer ==
    ASSUME Core, NEW r \in Requests, Send(r)
    PROVE  /\ answer' = [answer EXCEPT ![r] = Sent(r)]
           /\ Sent(r) \in [status : Nat, challenge : BOOLEAN,
                           header : Ids \cup {NoId}, body : Ids \cup {NoId}]
<1>1. answer[r] = Due(r)
  BY DEF Core, AnswersDue, Send
<1>2. Sent(r) \in [status : Nat, challenge : BOOLEAN,
                 header : Ids \cup {NoId}, body : Ids \cup {NoId}]
  BY AnswerTyped DEF Core, Sent, TypeOK
<1>3. CASE raised[r] = "Unexpected"
  <2>1. answer' = [answer EXCEPT ![r] = ErrorAnswer(r, 500, FALSE, NoId)]
    BY <1>1, <1>3 DEF Due, Send
  <2>2. Sent(r) = AnswerWith(r, NoId)
    BY <1>3 DEF Sent
  <2>3. ErrorAnswer(r, 500, FALSE, NoId) = AnswerWith(r, NoId)
    BY <1>3, AnswerFields
  <2>. QED
    BY <2>1, <2>2, <2>3, <1>2
<1>4. CASE raised[r] # "Unexpected"
  <2>1. answer[r] = AnswerWith(r, NoId)
    BY <1>1, <1>4 DEF Due
  <2>2. AnswerWith(r, NoId) # NoAnswer
    BY AnswerFields
  <2>3. answer' = [answer EXCEPT ![r] = [answer[r] EXCEPT !.header = trace[r]]]
    BY <2>1, <2>2 DEF Send
  <2>4. Sent(r) = AnswerWith(r, trace[r])
    BY <1>4 DEF Sent
  <2>5. [AnswerWith(r, NoId) EXCEPT !.header = trace[r]] = AnswerWith(r, trace[r])
    BY AnswerFields
  <2>. QED
    BY <2>1, <2>3, <2>4, <2>5, <1>2
<1>. QED
  BY <1>2, <1>3, <1>4

LEMMA SendCore ==
    ASSUME Core, NEW r \in Requests, Send(r)
    PROVE  Core'
<1>. USE DEF Core
<1>1. /\ answer' = [answer EXCEPT ![r] = Sent(r)]
      /\ Sent(r) \in [status : Nat, challenge : BOOLEAN,
                      header : Ids \cup {NoId}, body : Ids \cup {NoId}]
  BY SendAnswer
<1>2. /\ pc[r] = "send"
      /\ \E place \in {"background", "answered"} :
            /\ pc' = [pc EXCEPT ![r] = place]
            /\ place = "background" => raised[r] = "nothing"
      /\ log' = log \/ log' = [log EXCEPT ![r] = @ \cup {Unhandled(r)}]
      /\ UNCHANGED <<endpoint, user, trace, context, held, wrote, changed, raised>>
  BY DEF Send, Goto, requestVars, unitVars
<1>3. Unhandled(r) = [logger |-> "handlers", id |-> trace[r]] /\ trace[r] \in Ids
  BY <1>2 DEF Unhandled, Line, WayKnown
<1>4. TypeOK'
  BY <1>1, <1>2, <1>3 DEF TypeOK, Places
<1>5. ConnectionsReturned' /\ OnlyUsersChange'
  BY <1>2 DEF TypeOK, ConnectionsReturned, OnlyUsersChange, Connected
<1>6. LogsTraced' /\ AnswerTellsCommit' /\ WayKnown'
  BY <1>1, <1>2, <1>3 DEF TypeOK, LogsTraced, AnswerTellsCommit, WayKnown, Before
<1>7. Kept(r) /\ pc'[r] \in {"background", "answered"}
  BY <1>1, <1>2 DEF Kept, TypeOK
<1>8. answer'[r] = Sent(r) /\ Sent(r)' = Sent(r)
  BY <1>1, <1>2 DEF TypeOK, Sent, AnswerWith, ErrorAnswer
<1>9. AnswersDue'
  BY <1>7, <1>8, AnswersKept
<1>. QED
  BY <1>4, <1>5, <1>6, <1>9

LEMMA EndTaskCore ==
    ASSUME Core, NEW r \in Requests, EndTask(r)
    PROVE  Core'
<1>. USE DEF Core, EndTask, Unhandled, Line, Closed, Goto, requestVars
<1>1. TypeOK'
  BY PoolAssumption DEF TypeOK, WayKnown, ConnectionsReturned, Places, Connected, Before
<1>2. ConnectionsReturned' /\ OnlyUsersChange'
  BY DEF TypeOK, ConnectionsReturned, OnlyUsersChange, WayKnown, Connected, Before
<1>3. LogsTraced' /\ AnswerTellsCommit' /\ WayKnown'
  BY DEF TypeOK, LogsTraced, AnswerTellsCommit, WayKnown, Before
<1>4. Kept(r)
  BY DEF Kept, TypeOK
<1>5. pc'[r] \in {"background", "task", "answered"} => answer'[r] = Sent(r)'
  BY DEF TypeOK, AnswersDue, Sent, Due, AnswerWith, ErrorAnswer
<1>6. pc'[r] \notin {"access", "timing", "send"}
  BY DEF TypeOK
<1>7. AnswersDue'
  BY <1>4, <1>5, <1>6, AnswersKept
<1>. QED
  BY <1>1, <1>2, <1>3, <1>7

-----------------------------------------------------------------------------
(* All that is raised is an exception. *)
LEMMA AllRaised ==
    \A e : RaisedBefore(e) \cup RaisedWithin(e) \cup RaisedAfter(e) \subseteq Handled
BY DEF RaisedBefore, RaisedWithin, RaisedAfter, Handled, PostErrors, UserErrors,
       CommentErrors, TokenErrors, CommonErrors, FrameworkErrors

LEMMA Raisable ==
    /\ Handled \cup {"Unexpected"} \subseteq Exceptions
    /\ "nothing" \notin Exceptions
    /\ {"NotAuthenticated", "InvalidToken", "RequestValidation", "UserNotFound"} \subseteq Handled
BY DEF Exceptions, Handled, PostErrors, UserErrors, CommentErrors, TokenErrors,
       CommonErrors, FrameworkErrors

(* Who goes on from a dependency, or is refused there. *)
LEMMA DependencyCore ==
    ASSUME Core, NEW r \in Requests, RefuseToken(r) \/ Validate(r)
    PROVE  Core'
<1>1. changed' = [changed EXCEPT ![r] = FALSE] /\ pc[r] \in {"auth", "validate"}
      /\ UNCHANGED <<requestVars, unitVars>>
  BY DEF RefuseToken, Validate, unitVars, Core, TypeOK, WayKnown, Before
<1>2. \/ \E x \in {"NotAuthenticated", "InvalidToken", "RequestValidation"} : Raise(r, x)
      \/ /\ pc[r] = "auth" /\ endpoint[r] \in OptionalUser /\ Goto(r, "validate")
         /\ UNCHANGED outVars
      \/ pc[r] = "validate" /\ Goto(r, "serve") /\ UNCHANGED outVars
  BY DEF RefuseToken, Validate
<1>3. ASSUME NEW x \in {"NotAuthenticated", "InvalidToken", "RequestValidation"}, Raise(r, x)
      PROVE  Core'
  BY <1>1, <1>3, RaiseCore, Raisable DEF unitVars, Before, Connected
<1>. QED
  BY <1>1, <1>2, <1>3, AdvanceCore

LEMMA ConnectsCore ==
    ASSUME Core, NEW r \in Requests, OpenAuthentication(r) \/ OpenUnit(r) \/ OpenTask(r)
    PROVE  Core'
<1>1. \E place \in Connected :
          /\ Connect(r, place)
          /\ \/ pc[r] = "auth" /\ place = "authenticate"
             \/ pc[r] = "serve" /\ place = "unit"
             \/ pc[r] = "background" /\ place = "task"
  BY DEF OpenAuthentication, OpenUnit, OpenTask, Connected
<1>2. UNCHANGED <<requestVars, wrote, changed, outVars>>
  BY DEF OpenAuthentication, OpenUnit, OpenTask
<1>. QED
  BY <1>1, <1>2, ConnectCore

(* Everything else that raises: nothing has been committed. *)
LEMMA RaisesCore ==
    ASSUME Core, NEW r \in Requests,
           FindNoUser(r) \/ RefuseBefore(r) \/ RollbackUnit(r) \/ PoolTimeout(r)
    PROVE  Core'
<1>1. \E x \in Handled \cup {"Unexpected"} : Raise(r, x)
  BY AllRaised, Raisable DEF FindNoUser, RefuseBefore, RollbackUnit, PoolTimeout
<1>2. pc[r] \in {"auth", "authenticate", "serve", "unit"}
      /\ UNCHANGED <<requestVars, wrote>>
  BY DEF FindNoUser, RefuseBefore, RollbackUnit, PoolTimeout, EndUnit, unitVars
<1>3. held' = IF pc[r] \in Connected THEN [held EXCEPT ![r] = @ - 1] ELSE held
  BY DEF FindNoUser, RefuseBefore, RollbackUnit, PoolTimeout, EndUnit, unitVars, Closed,
         Connected
<1>4. changed' = [changed EXCEPT ![r] = FALSE]
  <2>1. ~changed[r] /\ changed \in [Requests -> BOOLEAN]
    BY <1>2 DEF Core, TypeOK, WayKnown, Before
  <2>2. changed' = changed \/ changed' = [changed EXCEPT ![r] = wrote[r] /\ ~TRUE]
    BY DEF FindNoUser, RefuseBefore, RollbackUnit, PoolTimeout, EndUnit, unitVars,
        Committed
  <2>. QED
    BY <2>1, <2>2
<1>. QED
  BY <1>1, <1>2, <1>3, <1>4, RaiseCore, Raisable DEF Before

(* What is raised after the unit of work is raised because nothing was     *)
(* written. *)
LEMMA BuildCore ==
    ASSUME Core, NEW r \in Requests, Build(r)
    PROVE  Core'
<1>1. pc[r] = "build" /\ UNCHANGED <<requestVars, unitVars>>
  BY DEF Build
<1>2. CASE RaisedAfter(endpoint[r]) # {} /\ ~wrote[r]
  <2>1. PICK x \in RaisedAfter(endpoint[r]) : Raise(r, x)
    BY <1>2 DEF Build, Unreadable
  <2>2. x \in Exceptions /\ x # "nothing"
    BY AllRaised, Raisable
  <2>3. changed' = [changed EXCEPT ![r] = FALSE]
    BY <1>1, <1>2 DEF unitVars, Core, TypeOK, WayKnown
  <2>. QED
    BY <1>1, <2>1, <2>2, <2>3, RaiseCore DEF unitVars, Connected
<1>3. CASE ~(RaisedAfter(endpoint[r]) # {} /\ ~wrote[r])
  BY <1>1, <1>3, SucceedCore DEF Build, Unreadable
<1>. QED
  BY <1>2, <1>3

LEMMA StepCore == Core /\ [Next]_vars => Core'
<1>. SUFFICES ASSUME Core, [Next]_vars PROVE Core'
  OBVIOUS
<1>1. ASSUME NEW r \in Requests, Step(r) PROVE Core'
  BY <1>1, DependencyCore, ConnectsCore, RaisesCore, BuildCore, FindUserCore, WriteCore,
     CommitUnitCore, HandleCore, AccessLogCore, TimingLogCore, SendCore, EndTaskCore DEF Step
<1>2. ASSUME NEW r \in Requests, NEW e \in Endpoints, NEW incoming \in HeaderIds \cup {NoId},
             Receive(r, e, incoming)
      PROVE  Core'
  BY <1>2, ReceiveCore
<1>3. CASE UNCHANGED vars
  BY <1>3 DEF vars, requestVars, unitVars, outVars, Core, TypeOK, ConnectionsReturned,
      OnlyUsersChange, LogsTraced, AnswerTellsCommit, WayKnown, AnswersDue, Due, Sent,
      AnswerWith, ErrorAnswer
<1>. QED
  BY <1>1, <1>2, <1>3, RaisesCore, AbandonCore DEF Next

(* The invariant of the way of a request, for every number of requests and *)
(* connections. *)
THEOREM Invariance == Spec => []IInv
<1>1. Spec => []Core
  BY InitCore, StepCore, PTL DEF Spec
<1>2. Core => IInv
  BY CoreIsIInv
<1>. QED
  BY <1>1, <1>2, PTL

(* trace.py, logging.py: lines and answers carry the trace id of their own *)
(* request, however requests overlap. *)
THEOREM TraceIdsDoNotMix == Spec => []TracedThroughout
<1>1. IInv => TracedThroughout
  BY DEF IInv
<1>. QED
  BY <1>1, Invariance, PTL

(* uow.py and the services: an error answers for nothing changed, success  *)
(* for all that was written. *)
THEOREM AnswersTellCommits == Spec => []AnswerTellsCommit
<1>1. IInv => AnswerTellsCommit
  BY DEF IInv
<1>. QED
  BY <1>1, Invariance, PTL

=============================================================================
