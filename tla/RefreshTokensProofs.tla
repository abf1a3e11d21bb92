------------------------ MODULE RefreshTokensProofs ------------------------
(***************************************************************************)
(* Proofs about RefreshTokens, for any requests, users, lifetime, unit of  *)
(* time and bounds.                                                        *)
(***************************************************************************)
EXTENDS RefreshTokens, TLAPS

(* Whole seconds follow the clock. *)
LEMMA SecondsGrow ==
    /\ Lifetime \in Nat
    /\ \A a \in Nat : SecondOf(a) \in Nat
    /\ \A a, b \in Nat : a <= b => SecondOf(a) <= SecondOf(b)
<1>1. Lifetime \in Nat
  BY ClockAssumption DEF Lifetime
<1>2. ASSUME NEW a \in Nat PROVE SecondOf(a) \in Nat
  BY ClockAssumption DEF SecondOf
<1>3. ASSUME NEW a \in Nat, NEW b \in Nat, a <= b PROVE SecondOf(a) <= SecondOf(b)
  BY <1>3, ClockAssumption DEF SecondOf
<1>. QED
  BY <1>1, <1>2, <1>3

LEMMA InitIInv == Init => IInv
<1>. SUFFICES ASSUME Init PROVE IInv
  OBVIOUS
<1>1. TypeOK
  BY DEF Init, TypeOK
<1>2. PhaseOK
  BY DEF Init, PhaseOK
<1>3. RowsNumbered /\ DeletedByOne
  BY DEF Init, RowsNumbered, DeletedByOne
<1>4. RowsOutliveTokens /\ ExpiredOnlyAtEnd
  BY DEF Init, RowsOutliveTokens, ExpiredOnlyAtEnd
<1>5. UsedTokensTraced
  BY DEF Init, UsedTokensTraced, HasRead, HasSelected
<1>. QED
  BY <1>1, <1>2, <1>3, <1>4, <1>5 DEF IInv

(* The clock ticks. *)
LEMMA TickIInv == IInv /\ Tick => IInv'
<1>. SUFFICES ASSUME IInv, Tick PROVE IInv'
  OBVIOUS
<1>. USE DEF IInv, Tick, locals, history
<1>1. /\ now' \in Nat /\ now \in Nat /\ SecondOf(now) <= SecondOf(now')
      /\ SecondOf(now + Lifetime) <= SecondOf(now' + Lifetime)
      /\ SecondOf(now) \in Nat /\ SecondOf(now') \in Nat
      /\ SecondOf(now + Lifetime) \in Nat /\ SecondOf(now' + Lifetime) \in Nat
  BY SecondsGrow DEF TypeOK
<1>2. TypeOK'
  BY <1>1 DEF TypeOK
<1>3. PhaseOK' /\ RowsNumbered' /\ DeletedByOne'
  BY DEF PhaseOK, RowsNumbered, DeletedByOne
<1>4. \A r \in Requests : SecondOf(stamp'[r]) = SecondOf(stamp[r])
  OBVIOUS
<1>5. RowsOutliveTokens'
  <2>1. \A r \in Requests : minted[r] \in Tokens => minted[r].exp \in Nat
    BY DEF Tokens
  <2>. QED
    BY <1>1, <2>1 DEF RowsOutliveTokens, SecondOf
<1>6. ExpiredOnlyAtEnd'
  <2>1. \A r \in Requests : kind[r] = "expired" => token[r].exp \in Nat
    BY DEF PhaseOK, TypeOK, Tokens
  <2>. QED
    BY <1>1, <2>1 DEF ExpiredOnlyAtEnd
<1>7. UsedTokensTraced'
  BY DEF UsedTokensTraced, RowsOf
<1>. QED
  BY <1>2, <1>3, <1>5, <1>6, <1>7

(* What create_refresh_token makes is a token of the user that is over     *)
(* with the lifetime counted from now. *)
LEMMA MintOK ==
    ASSUME TypeOK, NEW u \in Users
    PROVE  /\ Mint(u) \in Tokens /\ Mint(u).user = u
           /\ Mint(u).exp <= SecondOf(now + Lifetime)
<1>1. SecondOf(now + Lifetime) \in Nat
  BY SecondsGrow DEF TypeOK
<1>. QED
  BY <1>1 DEF Mint, Tokens

(* A login, or a refresh or logout with a token that was issued. *)
LEMMA BeginIInv ==
    ASSUME IInv, NEW r \in Requests, NEW k, NEW u \in Users, NEW tok, NEW new, NEW l,
           Begin(r, k, u, tok, new, l),
           \/ /\ k = "login" /\ tok = NoToken /\ l = "expiry"
              /\ new = Mint(u)
           \/ /\ (k = "refresh" /\ l = "read") \/ (k = "logout" /\ l = "drop")
              /\ tok \in issued /\ tok.user = u /\ new = NoToken
    PROVE  IInv'
<1>. USE DEF IInv, Begin, Goto, history
<1>1. /\ pc' = [pc EXCEPT ![r] = l] /\ kind' = [kind EXCEPT ![r] = k]
      /\ user' = [user EXCEPT ![r] = u] /\ token' = [token EXCEPT ![r] = tok]
      /\ minted' = [minted EXCEPT ![r] = new]
      /\ UNCHANGED <<now, nextId, rows, issued, stamp, targets, reached, removed, fresh>>
      /\ UNCHANGED history
  OBVIOUS
<1>2. /\ k \in {"login", "refresh", "logout"} /\ l \in {"expiry", "read", "drop"}
      /\ tok \in Tokens \cup {NoToken} /\ new \in Tokens \cup {NoToken}
  BY MintOK DEF TypeOK
<1>3. pc[r] = "idle" /\ targets[r] = {} /\ reached[r] = {} /\ removed[r] = {} /\ fresh[r] = {}
  <2>1. pc[r] = "idle" /\ targets[r] = {} /\ reached[r] = {} /\ fresh[r] = {}
    BY DEF PhaseOK, HasSelected
  <2>. QED
    BY <2>1 DEF DeletedByOne
<1>4. TypeOK'
  BY <1>1, <1>2 DEF TypeOK
<1>5. PhaseOK'
  BY <1>1, <1>2, <1>3 DEF PhaseOK, TypeOK, HasSelected
<1>6. RowsNumbered' /\ DeletedByOne'
  BY <1>1, <1>2, <1>3 DEF RowsNumbered, DeletedByOne, TypeOK
<1>7. RowsOutliveTokens'
  <2>1. l = "expiry" => /\ new \in Tokens /\ new.user = u
                        /\ new.exp <= SecondOf(now + Lifetime)
    BY MintOK
  <2>. QED
    BY <1>1, <1>2, <2>1 DEF RowsOutliveTokens, TypeOK, SecondOf
<1>8. ExpiredOnlyAtEnd'
  BY <1>1, <1>2 DEF ExpiredOnlyAtEnd, TypeOK, SecondOf
<1>9. UsedTokensTraced'
  BY <1>1, <1>2 DEF UsedTokensTraced, RowsOf, TypeOK, HasRead, HasSelected
<1>. QED
  BY <1>4, <1>5, <1>6, <1>7, <1>8, <1>9

(* A request ends without a commit. *)
LEMMA RollbackIInv ==
    ASSUME IInv, NEW r \in Requests, Rollback(r)
    PROVE  IInv'
<1>. USE DEF IInv, Rollback, Finish, Forget, Goto
<1>1. TypeOK'
  BY DEF TypeOK
<1>2. PhaseOK'
  BY DEF PhaseOK, TypeOK, HasSelected
<1>3. RowsNumbered' /\ DeletedByOne'
  <2>1. \A s \in Requests : /\ fresh'[s] \subseteq fresh[s] /\ targets'[s] \subseteq targets[s]
                            /\ removed'[s] \subseteq removed[s]
                            /\ s # r => /\ user'[s] = user[s] /\ removed'[s] = removed[s]
                                        /\ reached'[s] = reached[s]
                                        /\ targets'[s] = targets[s] /\ pc'[s] = pc[s]
    BY DEF TypeOK
  <2>2. fresh'[r] = {} /\ targets'[r] = {} /\ reached'[r] = {} /\ removed'[r] = {}
        /\ pc'[r] = "idle"
    BY DEF TypeOK
  <2>3. RowsNumbered'
    BY <2>1 DEF RowsNumbered
  <2>4. DeletedByOne'
    BY <2>1, <2>2 DEF DeletedByOne
  <2>. QED
    BY <2>3, <2>4
<1>4. RowsOutliveTokens' /\ ExpiredOnlyAtEnd'
  BY DEF RowsOutliveTokens, ExpiredOnlyAtEnd, TypeOK, SecondOf
<1>5. UsedTokensTraced'
  BY DEF UsedTokensTraced, RowsOf, TypeOK, HasRead, HasSelected
<1>. QED
  BY <1>1, <1>2, <1>3, <1>4, <1>5

(* The presented token is looked for among the user's rows. *)
LEMMA ReadTokensIInv ==
    ASSUME IInv, NEW r \in Requests, ReadTokens(r)
    PROVE  IInv'
<1>1. CASE Rollback(r)
  BY <1>1, RollbackIInv
<1>2. ASSUME NEW x \in RowsOf(user[r]), x.token = token[r],
             stamp' = [stamp EXCEPT ![r] = x.expiresAt], pc' = [pc EXCEPT ![r] = "check"],
             pc[r] = "read",
             UNCHANGED <<now, nextId, rows, issued, kind, user, token, minted, targets,
                         reached, removed, fresh, history>>
      PROVE  IInv'
  <2>. USE <1>2 DEF IInv, history
  <2>1. x \in rows /\ x.token \in Tokens /\ x.expiresAt \in Nat /\ kind[r] = "refresh"
    BY DEF RowsOf, TypeOK, Rows, PhaseOK
  <2>2. TypeOK'
    BY <2>1 DEF TypeOK
  <2>3. PhaseOK'
    BY <2>1 DEF PhaseOK, TypeOK, HasSelected
  <2>4. RowsNumbered' /\ DeletedByOne' /\ ExpiredOnlyAtEnd'
    BY DEF RowsNumbered, DeletedByOne, ExpiredOnlyAtEnd, SecondOf, TypeOK
  <2>5. RowsOutliveTokens'
    <3>1. token[r].exp <= SecondOf(x.expiresAt)
      BY <2>1 DEF RowsOutliveTokens
    <3>. QED
      BY <2>1, <3>1 DEF RowsOutliveTokens, TypeOK, SecondOf
  <2>6. UsedTokensTraced'
    BY <2>1 DEF UsedTokensTraced, RowsOf, TypeOK, HasRead, HasSelected
  <2>. QED
    BY <2>2, <2>3, <2>4, <2>5, <2>6
<1>. QED
  BY <1>1, <1>2 DEF ReadTokens, Goto

(* A row's expires_at has passed only when the second of the exp of its    *)
(* JWT has begun. *)
LEMMA CheckExpiryIInv ==
    ASSUME IInv, NEW r \in Requests, CheckExpiry(r)
    PROVE  IInv'
<1>. USE DEF IInv, CheckExpiry, Goto, history
<1>. DEFINE k == IF stamp[r] < now THEN "expired" ELSE "refresh"
<1>1. /\ kind' = [kind EXCEPT ![r] = k] /\ k \in {"refresh", "expired"}
      /\ kind[r] = "refresh" /\ token[r] \in Tokens
  BY DEF PhaseOK, TypeOK
<1>2. k = "expired" => token[r].exp <= SecondOf(now)
  <2>1. token[r].exp <= SecondOf(stamp[r])
    BY DEF RowsOutliveTokens
  <2>2. /\ token[r].exp \in Nat /\ stamp[r] \in Nat /\ now \in Nat
        /\ SecondOf(stamp[r]) \in Nat /\ SecondOf(now) \in Nat
    BY <1>1, SecondsGrow DEF Tokens, TypeOK
  <2>3. stamp[r] < now => SecondOf(stamp[r]) <= SecondOf(now)
    BY <2>2, SecondsGrow
  <2>. QED
    BY <2>1, <2>2, <2>3
<1>. HIDE DEF k
<1>3. TypeOK'
  BY <1>1 DEF TypeOK
<1>4. PhaseOK'
  BY <1>1 DEF PhaseOK, TypeOK, HasSelected
<1>5. RowsNumbered' /\ DeletedByOne'
  BY DEF RowsNumbered, DeletedByOne, TypeOK
<1>6. RowsOutliveTokens'
  BY <1>1 DEF RowsOutliveTokens, TypeOK, SecondOf
<1>7. ExpiredOnlyAtEnd'
  <2>1. \A s \in Requests \ {r} : kind'[s] = kind[s]
    BY <1>1 DEF TypeOK
  <2>2. kind'[r] = k
    BY <1>1 DEF TypeOK
  <2>3. SecondOf(now') = SecondOf(now) /\ token' = token
    OBVIOUS
  <2>. QED
    BY <2>1, <2>2, <2>3, <1>2 DEF ExpiredOnlyAtEnd
<1>8. UsedTokensTraced'
  BY <1>1 DEF UsedTokensTraced, RowsOf, TypeOK, HasRead, HasSelected
<1>. QED
  BY <1>3, <1>4, <1>5, <1>6, <1>7, <1>8

(* A DELETE selects committed rows of its user; that of a refresh or a     *)
(* logout all of them. *)
LEMMA SelectIInv ==
    ASSUME IInv, NEW r \in Requests, NEW S \in SUBSET RowsOf(user[r]), Select(r, S),
           NEW t \in Nat, stamp' = [stamp EXCEPT ![r] = t],
           \/ pc[r] = "expiry" /\ t = now + Lifetime
           \/ pc[r] = "drop" /\ S = RowsOf(user[r])
    PROVE  IInv'
<1>. USE DEF IInv, Select, Goto, history
<1>1. S \subseteq rows /\ S \subseteq Rows /\ \A x \in S : x.token.user = user[r]
  BY DEF RowsOf, TypeOK
<1>2. removed[r] = {} /\ reached[r] = {} /\ fresh[r] = {} /\ kind[r] # "none"
      /\ (kind[r] = "login" <=> pc[r] = "expiry")
  <2>1. targets[r] = {} /\ reached[r] = {} /\ fresh[r] = {} /\ kind[r] # "none"
        /\ (kind[r] = "login" <=> pc[r] = "expiry")
    BY DEF PhaseOK, HasSelected
  <2>. QED
    BY <2>1 DEF DeletedByOne
<1>3. TypeOK'
  BY <1>1 DEF TypeOK
<1>4. PhaseOK'
  BY <1>2 DEF PhaseOK, TypeOK, HasSelected
<1>5. RowsNumbered'
  <2>1. \A s \in Requests : targets'[s] \subseteq targets[s] \cup rows
    BY <1>1 DEF TypeOK
  <2>. QED
    BY <2>1 DEF RowsNumbered
<1>6. DeletedByOne'
  <2>1. \A s \in Requests \ {r} : targets'[s] = targets[s] /\ pc'[s] = pc[s]
    BY DEF TypeOK
  <2>2. targets'[r] = S /\ pc'[r] = "wait"
    BY DEF TypeOK
  <2>. QED
    BY <2>1, <2>2, <1>1, <1>2 DEF DeletedByOne
<1>7. RowsOutliveTokens'
  <2>1. \A s \in Requests \ {r} : pc'[s] = pc[s] /\ stamp'[s] = stamp[s]
    BY DEF TypeOK
  <2>2. pc'[r] = "wait" /\ stamp'[r] = t
    BY DEF TypeOK
  <2>3. kind[r] = "login" => /\ minted[r] \in Tokens /\ minted[r].user = user[r]
                             /\ minted[r].exp <= SecondOf(now + Lifetime)
                             /\ minted[r].exp <= SecondOf(t)
    BY <1>2 DEF RowsOutliveTokens
  <2>4. /\ \A s \in Requests \ {r} : SecondOf(stamp[s])' = SecondOf(stamp[s])
        /\ SecondOf(stamp[r])' = SecondOf(t)
        /\ SecondOf(now + Lifetime)' = SecondOf(now + Lifetime)
        /\ \A x \in rows \cup UNION {fresh[s] : s \in Requests} :
              x.token.exp <= SecondOf(x.expiresAt)
    BY <2>1, <2>2 DEF SecondOf, RowsOutliveTokens
  <2>5. /\ \A x \in rows' \cup UNION {fresh'[s] : s \in Requests} :
              x.token.exp <= SecondOf(x.expiresAt)
    BY <2>4
  <2>6. ASSUME NEW s \in Requests
        PROVE  /\ pc'[s] \in {"expiry", "insert"} \/ (kind'[s] = "login" /\ pc'[s] = "wait") =>
                     /\ minted'[s] \in Tokens /\ minted'[s].user = user'[s]
                     /\ minted'[s].exp <= SecondOf(now + Lifetime)'
               /\ kind'[s] = "login" /\ pc'[s] \in {"wait", "insert"} =>
                     minted'[s].exp <= SecondOf(stamp[s])'
               /\ pc'[s] = "check" => token'[s].exp <= SecondOf(stamp[s])'
    BY <2>1, <2>2, <2>3, <2>4 DEF RowsOutliveTokens
  <2>. QED
    BY <2>5, <2>6 DEF RowsOutliveTokens
<1>8. ExpiredOnlyAtEnd'
  BY DEF ExpiredOnlyAtEnd, SecondOf
<1>9. UsedTokensTraced'
  <2>1. \A s \in Requests \ {r} : pc'[s] = pc[s] /\ targets'[s] = targets[s]
    BY DEF TypeOK
  <2>2. pc'[r] = "wait" /\ targets'[r] = S
    BY DEF TypeOK
  <2>3. kind[r] # "login" => S = RowsOf(user[r]) /\ token[r].user = user[r]
    BY <1>2 DEF PhaseOK, TypeOK
  <2>4. kind[r] # "login" => \A x \in rows : x.token = token[r] => x \in S
    BY <2>3 DEF RowsOf
  <2>5. kind[r] = "refresh" /\ token[r] \in used => stale[r] \/ token[r] \in reissued
    BY <1>2 DEF UsedTokensTraced, HasRead
  <2>. QED
    BY <2>1, <2>2, <2>3, <2>4, <2>5 DEF UsedTokensTraced, RowsOf
<1>. QED
  BY <1>3, <1>4, <1>5, <1>6, <1>7, <1>8, <1>9

(* The DELETE takes rows it has selected, which nobody else has deleted,   *)
(* or begins or ends to wait for one. *)
LEMMA TakeRowsIInv ==
    ASSUME IInv, NEW r \in Requests, pc[r] = "wait",
           NEW W \in SUBSET targets[r], reached' = [reached EXCEPT ![r] = W],
           NEW D \in SUBSET (targets[r] \cap rows),
           \A x \in D : ~RowLocked(r, x),
           removed' = [removed EXCEPT ![r] = @ \cup D],
           UNCHANGED <<now, nextId, rows, issued, pc, kind, user, token, minted, stamp, targets,
                       fresh, history>>
    PROVE  IInv'
<1>. USE DEF IInv, history
<1>1. /\ \A s \in Requests \ {r} : removed'[s] = removed[s] /\ reached'[s] = reached[s]
      /\ removed'[r] = removed[r] \cup D /\ reached'[r] = W
  BY DEF TypeOK
<1>2. TypeOK'
  BY DEF TypeOK
<1>3. PhaseOK'
  BY <1>1 DEF PhaseOK, HasSelected
<1>4. RowsNumbered'
  BY DEF RowsNumbered
<1>5. DeletedByOne'
  <2>1. \A s \in Requests \ {r} : removed[s] \cap D = {}
    BY DEF RowLocked
  <2>. QED
    BY <1>1, <2>1 DEF DeletedByOne
<1>6. RowsOutliveTokens' /\ ExpiredOnlyAtEnd'
  BY DEF RowsOutliveTokens, ExpiredOnlyAtEnd, SecondOf
<1>7. UsedTokensTraced'
  BY DEF UsedTokensTraced, RowsOf
<1>. QED
  BY <1>2, <1>3, <1>4, <1>5, <1>6, <1>7

LEMMA ReachRowIInv ==
    ASSUME IInv, NEW r \in Requests, ReachRow(r)
    PROVE  IInv'
<1>1. PICK x \in Remaining(r) :
         \/ RowLocked(r, x) /\ reached' = [reached EXCEPT ![r] = {x}] /\ UNCHANGED removed
         \/ /\ ~RowLocked(r, x)
            /\ removed' = [removed EXCEPT ![r] = @ \cup {x}]
            /\ UNCHANGED reached
  BY DEF ReachRow
<1>2. /\ pc[r] = "wait" /\ reached[r] = {} /\ x \in targets[r] \cap rows
      /\ reached = [reached EXCEPT ![r] = {}]
      /\ removed = [removed EXCEPT ![r] = @ \cup {}]
      /\ UNCHANGED <<now, nextId, rows, issued, pc, kind, user, token, minted, stamp, targets,
                     fresh, history>>
  BY DEF ReachRow, Remaining, IInv, TypeOK
<1>3. PICK W, D : /\ W \in SUBSET targets[r] /\ reached' = [reached EXCEPT ![r] = W]
                  /\ D \in SUBSET (targets[r] \cap rows) /\ \A y \in D : ~RowLocked(r, y)
                  /\ removed' = [removed EXCEPT ![r] = @ \cup D]
  <2>1. CASE RowLocked(r, x) /\ reached' = [reached EXCEPT ![r] = {x}] /\ UNCHANGED removed
    <3>1. removed' = [removed EXCEPT ![r] = @ \cup {}]
      BY <1>2, <2>1
    <3>. QED
      BY <1>2, <2>1, <3>1
  <2>2. CASE /\ ~RowLocked(r, x)
             /\ removed' = [removed EXCEPT ![r] = @ \cup {x}]
             /\ UNCHANGED reached
    <3>1. reached' = [reached EXCEPT ![r] = {}]
      BY <1>2, <2>2
    <3>. QED
      BY <1>2, <2>2, <3>1
  <2>. QED
    BY <1>1, <2>1, <2>2
<1>. QED
  BY <1>2, <1>3, TakeRowsIInv

(* A row waited for that is still there is deleted. *)
LEMMA WaitEndsIInv ==
    ASSUME IInv, NEW r \in Requests, WaitEnds(r)
    PROVE  IInv'
<1>1. pc[r] = "wait" /\ reached[r] \subseteq targets[r]
  BY DEF WaitEnds, IInv, PhaseOK, DeletedByOne
<1>2. PICK W, D : W = {} /\ D = reached[r] \cap rows
  OBVIOUS
<1>3. /\ \A x \in D : ~RowLocked(r, x)
      /\ removed' = [removed EXCEPT ![r] = @ \cup D]
      /\ reached' = [reached EXCEPT ![r] = W]
      /\ UNCHANGED <<now, nextId, rows, issued, pc, kind, user, token, minted, stamp, targets,
                     fresh, history>>
  BY <1>2 DEF WaitEnds
<1>4. W \in SUBSET targets[r] /\ D \in SUBSET (targets[r] \cap rows)
  BY <1>1, <1>2
<1>. QED
  BY <1>1, <1>3, <1>4, TakeRowsIInv

(* The DELETE ends: of the rows it selected those that are left are its    *)
(* own. *)
LEMMA DeleteEndsIInv ==
    ASSUME IInv, NEW r \in Requests, DeleteEnds(r)
    PROVE  IInv'
<1>1. CASE kind[r] = "expired"
  BY <1>1, RollbackIInv DEF DeleteEnds
<1>2. CASE kind[r] # "expired"
  <2>. USE <1>2 DEF IInv, history
  <2>. DEFINE l == CASE kind[r] = "login" -> "insert"
                     [] kind[r] = "refresh" -> "mint"
                     [] OTHER -> "commit"
  <2>1. /\ pc[r] = "wait" /\ pc' = [pc EXCEPT ![r] = l]
        /\ reached[r] = {} /\ targets[r] \cap rows \subseteq removed[r]
        /\ UNCHANGED <<now, nextId, rows, issued, kind, user, token, minted, stamp,
                       targets, reached, removed, fresh, history>>
    BY DEF DeleteEnds, Remaining, Goto
  <2>2. kind[r] \in {"login", "refresh", "logout"}
    BY <2>1 DEF PhaseOK
  <2>3. /\ l \in {"insert", "mint", "commit"} /\ (l = "insert" <=> kind[r] = "login")
        /\ (l = "mint" <=> kind[r] = "refresh")
    BY <2>2
  <2>. HIDE DEF l
  <2>4. pc'[r] = l /\ \A s \in Requests \ {r} : pc'[s] = pc[s]
    BY <2>1 DEF TypeOK
  <2>5. TypeOK'
    BY <2>1, <2>3 DEF TypeOK
  <2>6. PhaseOK'
    BY <2>1, <2>2, <2>3, <2>4 DEF PhaseOK, HasSelected
  <2>7. RowsNumbered'
    BY <2>1 DEF RowsNumbered
  <2>8. DeletedByOne'
    BY <2>1, <2>4 DEF DeletedByOne
  <2>9. RowsOutliveTokens'
    BY <2>1, <2>3, <2>4 DEF RowsOutliveTokens, SecondOf
  <2>10. ExpiredOnlyAtEnd'
    BY <2>1 DEF ExpiredOnlyAtEnd, SecondOf
  <2>11. UsedTokensTraced'
    BY <2>1, <2>3, <2>4 DEF UsedTokensTraced, RowsOf, HasRead, HasSelected
  <2>. QED
    BY <2>5, <2>6, <2>7, <2>8, <2>9, <2>10, <2>11
<1>. QED
  BY <1>1, <1>2

LEMMA NewTokenIInv ==
    ASSUME IInv, NEW r \in Requests, NewToken(r)
    PROVE  IInv'
<1>. USE DEF IInv, NewToken, Goto, history
<1>. DEFINE new == Mint(user[r])
<1>1. kind[r] = "refresh" /\ token[r] \in Tokens /\ user[r] \in Users
  <2>1. kind[r] = "refresh" /\ token[r] \in Tokens /\ token[r].user = user[r]
    BY DEF PhaseOK, TypeOK
  <2>. QED
    BY <2>1 DEF Tokens
<1>2. new \in Tokens /\ new.user = user[r] /\ new.exp <= SecondOf(now + Lifetime)
  BY <1>1, MintOK
<1>. HIDE DEF new
<1>3. /\ pc[r] = "mint" /\ pc' = [pc EXCEPT ![r] = "insert"]
      /\ minted' = [minted EXCEPT ![r] = new]
      /\ UNCHANGED <<now, nextId, rows, issued, kind, user, token, stamp, targets,
                     reached, removed, fresh, history>>
  BY DEF new
<1>4. TypeOK'
  BY <1>2, <1>3 DEF TypeOK
<1>5. PhaseOK'
  BY <1>1, <1>3 DEF PhaseOK, HasSelected, TypeOK
<1>6. RowsNumbered' /\ DeletedByOne' /\ ExpiredOnlyAtEnd'
  BY <1>3 DEF RowsNumbered, DeletedByOne, ExpiredOnlyAtEnd, SecondOf, TypeOK
<1>7. RowsOutliveTokens'
  BY <1>1, <1>2, <1>3 DEF RowsOutliveTokens, SecondOf, TypeOK
<1>8. UsedTokensTraced'
  BY <1>3 DEF UsedTokensTraced, RowsOf, HasRead, HasSelected, TypeOK
<1>. QED
  BY <1>4, <1>5, <1>6, <1>7, <1>8

(* The new row is nobody else's, and lives at least as long as its token. *)
LEMMA CreateTokenIInv ==
    ASSUME IInv, NEW r \in Requests, CreateToken(r)
    PROVE  IInv'
<1>. USE DEF IInv, CreateToken, Goto, history
<1>. DEFINE new == NewRow(r)
<1>1. kind[r] \in {"login", "refresh"} /\ minted[r] \in Tokens /\ minted[r].user = user[r]
      /\ minted[r].exp <= SecondOf(now + Lifetime)
      /\ (kind[r] = "login" => minted[r].exp <= SecondOf(stamp[r]))
  BY DEF PhaseOK, RowsOutliveTokens
<1>2. /\ new \in Rows /\ new.id = nextId /\ new.token.user = user[r]
      /\ new.token.exp <= SecondOf(new.expiresAt)
  BY <1>1, SecondsGrow DEF NewRow, Rows, TypeOK
<1>. HIDE DEF new
<1>3. /\ pc[r] = "insert" /\ pc' = [pc EXCEPT ![r] = "commit"]
      /\ fresh' = [fresh EXCEPT ![r] = {new}] /\ nextId' = nextId + 1
      /\ UNCHANGED <<now, rows, issued, kind, user, token, minted, stamp, targets,
                     reached, removed, history>>
  BY DEF new
<1>4. /\ pc'[r] = "commit" /\ fresh'[r] = {new}
      /\ \A s \in Requests \ {r} : pc'[s] = pc[s] /\ fresh'[s] = fresh[s]
  BY <1>3 DEF TypeOK
<1>5. TypeOK'
  BY <1>2, <1>3 DEF TypeOK
<1>6. PhaseOK'
  BY <1>1, <1>3, <1>4 DEF PhaseOK, HasSelected
<1>7. RowsNumbered'
  <2>1. ASSUME NEW x \in (rows \cup UNION {fresh[s] : s \in Requests})
                           \cup UNION {targets[s] : s \in Requests}
        PROVE  x.id < nextId /\ x.id \in Nat /\ x.id # nextId
    <3>1. x.id < nextId
      BY DEF RowsNumbered
    <3>2. x \in Rows
      BY DEF TypeOK
    <3>. QED
      BY <3>1, <3>2 DEF Rows, TypeOK
  <2>2. \A x \in rows \cup UNION {fresh'[s] : s \in Requests} :
           x = new \/ x \in rows \cup UNION {fresh[s] : s \in Requests}
    BY <1>4
  <2>3. nextId \in Nat /\ nextId < nextId'
    BY <1>3 DEF TypeOK
  <2>4. \A x \in (rows' \cup UNION {fresh'[s] : s \in Requests})
                      \cup UNION {targets'[s] : s \in Requests} : x.id < nextId'
    BY <2>1, <2>2, <2>3, <1>2, <1>3
  <2>5. \A x, y \in rows' \cup UNION {fresh'[s] : s \in Requests} : x.id = y.id => x = y
    BY <2>1, <2>2, <1>2, <1>3 DEF RowsNumbered
  <2>6. \A s \in Requests : fresh'[s] \cap rows' = {}
    BY <2>1, <1>2, <1>3, <1>4 DEF RowsNumbered
  <2>7. ASSUME NEW s \in Requests, NEW t \in Requests
        PROVE  fresh'[s] \cap targets'[t] = {}
    <3>1. CASE s = r
      <4>1. new \notin targets[t]
        BY <2>1, <1>2
      <4>. QED
        BY <3>1, <4>1, <1>3, <1>4
    <3>2. CASE s # r
      BY <3>2, <1>3, <1>4 DEF RowsNumbered
    <3>. QED
      BY <3>1, <3>2
  <2>8. ASSUME NEW s \in Requests, NEW t \in Requests, s # t
        PROVE  fresh'[s] \cap fresh'[t] = {}
    <3>1. new \notin fresh[s] /\ new \notin fresh[t]
      BY <2>1, <1>2
    <3>. QED
      BY <2>8, <3>1, <1>4 DEF RowsNumbered
  <2>. QED
    BY <2>4, <2>5, <2>6, <2>7, <2>8 DEF RowsNumbered
<1>8. DeletedByOne'
  BY <1>2, <1>3, <1>4 DEF DeletedByOne
<1>9. RowsOutliveTokens'
  BY <1>2, <1>3, <1>4 DEF RowsOutliveTokens, SecondOf
<1>10. ExpiredOnlyAtEnd'
  BY <1>3 DEF ExpiredOnlyAtEnd, SecondOf
<1>11. UsedTokensTraced'
  BY <1>3, <1>4 DEF UsedTokensTraced, RowsOf, HasRead, HasSelected
<1>. QED
  BY <1>5, <1>6, <1>7, <1>8, <1>9, <1>10, <1>11

(* The commit: rows of the request's user leave and enter, and everybody   *)
(* of that user who has read or selected rows is overtaken. *)
LEMMA CommitIInv ==
    ASSUME IInv, NEW r \in Requests, Commit(r)
    PROVE  IInv'
<1>. USE DEF IInv
<1>1. /\ pc[r] = "commit"
      /\ rows' = (rows \ removed[r]) \cup fresh[r]
      /\ issued' = issued \cup {x.token : x \in fresh[r]}
      /\ reissued' = reissued \cup ({x.token : x \in fresh[r]} \cap issued)
      /\ used' = IF kind[r] = "refresh" THEN used \cup {token[r]} ELSE used
      /\ now' = now /\ nextId' = nextId
  BY DEF Commit
<1>2. /\ pc' = [pc EXCEPT ![r] = "idle"] /\ kind' = [kind EXCEPT ![r] = "none"]
      /\ user' = [user EXCEPT ![r] = NoUser] /\ token' = [token EXCEPT ![r] = NoToken]
      /\ minted' = [minted EXCEPT ![r] = NoToken] /\ stamp' = [stamp EXCEPT ![r] = 0]
      /\ targets' = [targets EXCEPT ![r] = {}] /\ removed' = [removed EXCEPT ![r] = {}]
      /\ reached' = [reached EXCEPT ![r] = {}]
      /\ fresh' = [fresh EXCEPT ![r] = {}]
  BY DEF Commit, Finish, Goto
<1>3. /\ stale' \in [Requests -> BOOLEAN] /\ overlapped' \in [Requests -> BOOLEAN]
      /\ \A s \in Requests \ {r} :
            /\ stale[s] => stale'[s]
            /\ kind[s] = "refresh" /\ user[s] = user[r] /\ pc[s] \in HasRead => stale'[s]
            /\ overlapped[s] => overlapped'[s]
            /\ user[s] = user[r] /\ pc[s] \in HasSelected => overlapped'[s]
  BY DEF Commit, TypeOK
<1>4. /\ pc'[r] = "idle" /\ kind'[r] = "none" /\ targets'[r] = {} /\ removed'[r] = {}
      /\ fresh'[r] = {} /\ reached'[r] = {}
      /\ \A s \in Requests \ {r} :
            /\ reached'[s] = reached[s] /\ pc'[s] = pc[s] /\ kind'[s] = kind[s] /\ user'[s] = user[s]
            /\ token'[s] = token[s] /\ minted'[s] = minted[s] /\ stamp'[s] = stamp[s]
            /\ targets'[s] = targets[s] /\ removed'[s] = removed[s] /\ fresh'[s] = fresh[s]
  BY <1>2 DEF TypeOK
<1>5. /\ \A x \in fresh[r] : x \in Rows /\ x.token \in Tokens /\ x.token.user = user[r]
      /\ kind[r] = "refresh" => token[r] \in issued /\ token[r].user = user[r]
  BY <1>1 DEF TypeOK, Rows, PhaseOK, DeletedByOne
<1>6. TypeOK'
  <2>1. rows' \subseteq Rows /\ issued' \subseteq Tokens /\ reissued' \subseteq Tokens
        /\ used' \subseteq Tokens
    BY <1>1, <1>5 DEF TypeOK
  <2>. QED
    BY <2>1, <1>1, <1>2, <1>3 DEF TypeOK
<1>7. PhaseOK'
  <2>1. issued \subseteq issued'
    BY <1>1
  <2>. QED
    BY <2>1, <1>4 DEF PhaseOK, HasSelected
<1>8. RowsNumbered'
  <2>1. UNION {fresh'[s] : s \in Requests} \subseteq UNION {fresh[s] : s \in Requests}
        /\ UNION {targets'[s] : s \in Requests} \subseteq UNION {targets[s] : s \in Requests}
        /\ rows' \subseteq rows \cup UNION {fresh[s] : s \in Requests}
    BY <1>1, <1>4
  <2>2. \A s \in Requests : fresh'[s] \cap rows' = {}
    BY <1>1, <1>4 DEF RowsNumbered
  <2>3. \A s, t \in Requests : /\ fresh'[s] \cap targets'[t] = {}
                               /\ s # t => fresh'[s] \cap fresh'[t] = {}
    BY <1>4 DEF RowsNumbered
  <2>. QED
    BY <2>1, <2>2, <2>3, <1>1 DEF RowsNumbered
<1>9. DeletedByOne'
  <2>1. \A s \in Requests : targets[s] \cap fresh[r] = {}
    BY DEF RowsNumbered
  <2>. QED
    BY <2>1, <1>1, <1>4 DEF DeletedByOne
<1>10. RowsOutliveTokens'
  <2>1. \A s \in Requests \ {r} : SecondOf(stamp[s])' = SecondOf(stamp[s])
    BY <1>4 DEF SecondOf
  <2>2. SecondOf(now + Lifetime)' = SecondOf(now + Lifetime)
    BY <1>1 DEF SecondOf
  <2>3. rows' \cup UNION {fresh'[s] : s \in Requests}
           \subseteq rows \cup UNION {fresh[s] : s \in Requests}
    BY <1>1, <1>4
  <2>. QED
    BY <2>1, <2>2, <2>3, <1>4 DEF RowsOutliveTokens
<1>11. ExpiredOnlyAtEnd'
  <2>1. SecondOf(now)' = SecondOf(now)
    BY <1>1 DEF SecondOf
  <2>. QED
    BY <2>1, <1>4 DEF ExpiredOnlyAtEnd
<1>12. UsedTokensTraced'
  <2>1. used' \subseteq issued /\ issued \subseteq issued' /\ reissued \subseteq reissued'
    BY <1>1, <1>5 DEF UsedTokensTraced
  <2>2. \A x \in fresh[r] : x.token \in issued => x.token \in reissued'
    BY <1>1
  <2>3. ASSUME NEW x \in rows', x.token \in used' PROVE x.token \in reissued'
    <3>1. CASE x \in fresh[r]
      BY <2>1, <2>2, <2>3, <3>1
    <3>2. CASE x \in rows \ removed[r]
      <4>1. CASE x.token \in used
        BY <3>2, <4>1, <2>1 DEF UsedTokensTraced
      <4>2. CASE kind[r] = "refresh" /\ x.token = token[r]
        <5>1. x \notin targets[r]
          BY <3>2, <1>1 DEF DeletedByOne
        <5>. QED
          BY <3>2, <4>2, <5>1, <1>1, <2>1 DEF UsedTokensTraced, HasSelected
      <4>. QED
        BY <2>3, <4>1, <4>2, <1>1
    <3>. QED
      BY <2>3, <3>1, <3>2, <1>1
  <2>4. ASSUME NEW s \in Requests, kind'[s] # "login", pc'[s] \in HasSelected
        PROVE  /\ ~overlapped'[s] => RowsOf(user[s])' \subseteq targets'[s]
               /\ \A x \in rows' : x.token = token'[s] =>
                     x \in targets'[s] \/ token'[s] \in reissued'
    <3>1. s # r /\ kind[s] # "login" /\ pc[s] \in HasSelected
      BY <2>4, <1>4 DEF HasSelected
    <3>2. token[s] \in issued
      BY <3>1 DEF PhaseOK, HasSelected
    <3>3. ASSUME ~overlapped'[s] PROVE RowsOf(user[s])' \subseteq targets'[s]
      <4>1. RowsOf(user[s]) \subseteq targets[s] /\ user[s] # user[r]
        BY <3>1, <3>3, <1>3 DEF UsedTokensTraced
      <4>. QED
        BY <4>1, <3>1, <1>1, <1>4, <1>5 DEF RowsOf
    <3>4. ASSUME NEW x \in rows', x.token = token[s]
          PROVE  x \in targets[s] \/ token[s] \in reissued'
      BY <3>1, <3>2, <3>4, <1>1, <2>1, <2>2 DEF UsedTokensTraced
    <3>. QED
      BY <3>1, <3>3, <3>4, <1>4
  <2>5. ASSUME NEW s \in Requests, kind'[s] = "refresh", pc'[s] \in HasRead,
               token'[s] \in used'
        PROVE  stale'[s] \/ token'[s] \in reissued'
    <3>1. s # r /\ kind[s] = "refresh" /\ pc[s] \in HasRead /\ token'[s] = token[s]
      BY <2>5, <1>4 DEF HasRead
    <3>2. CASE token[s] \in used
      BY <3>1, <3>2, <1>3, <2>1 DEF UsedTokensTraced
    <3>3. CASE kind[r] = "refresh" /\ token[s] = token[r]
      <4>1. user[s] = user[r]
        BY <3>1, <3>3, <1>5 DEF PhaseOK
      <4>. QED
        BY <3>1, <4>1, <1>3
    <3>. QED
      BY <2>5, <3>1, <3>2, <3>3, <1>1
  <2>. QED
    BY <2>1, <2>3, <2>4, <2>5 DEF UsedTokensTraced
<1>. QED
  BY <1>6, <1>7, <1>8, <1>9, <1>10, <1>11, <1>12

LEMMA StepIInv == IInv /\ [Next]_vars => IInv'
<1>. SUFFICES ASSUME IInv, [Next]_vars PROVE IInv'
  OBVIOUS
<1>1. CASE Tick
  BY <1>1, TickIInv
<1>2. ASSUME NEW r \in Requests, NEW u \in Users, BeginLogin(r, u) PROVE IInv'
  BY <1>2, BeginIInv DEF BeginLogin
<1>3. ASSUME NEW r \in Requests, NEW tok \in issued, BeginRefresh(r, tok) \/ BeginLogout(r, tok)
      PROVE  IInv'
  <2>1. tok.user \in Users
    BY DEF IInv, TypeOK, Tokens
  <2>2. CASE BeginRefresh(r, tok)
    <3>1. Begin(r, "refresh", tok.user, tok, NoToken, "read")
      BY <2>2 DEF BeginRefresh
    <3>. QED
      BY <2>1, <3>1, BeginIInv
  <2>3. CASE BeginLogout(r, tok)
    <3>1. Begin(r, "logout", tok.user, tok, NoToken, "drop")
      BY <2>3 DEF BeginLogout
    <3>. QED
      BY <2>1, <3>1, BeginIInv
  <2>. QED
    BY <1>3, <2>2, <2>3
<1>4. ASSUME NEW r \in Requests, ReadTokens(r) PROVE IInv'
  BY <1>4, ReadTokensIInv
<1>5. ASSUME NEW r \in Requests, CheckExpiry(r) PROVE IInv'
  BY <1>5, CheckExpiryIInv
<1>6. ASSUME NEW r \in Requests, DeleteExpired(r) PROVE IInv'
  <2>. DEFINE S == {x \in RowsOf(user[r]) : x.expiresAt < now}
  <2>1. S \in SUBSET RowsOf(user[r])
    OBVIOUS
  <2>2. now + Lifetime \in Nat
    BY SecondsGrow DEF IInv, TypeOK
  <2>3. /\ pc[r] = "expiry" /\ Select(r, S)
        /\ stamp' = [stamp EXCEPT ![r] = now + Lifetime]
    BY <1>6 DEF DeleteExpired
  <2>. HIDE DEF S
  <2>. QED
    BY <2>1, <2>2, <2>3, SelectIInv
<1>7. ASSUME NEW r \in Requests, DeleteAll(r) PROVE IInv'
  <2>1. /\ pc[r] = "drop" /\ Select(r, RowsOf(user[r]))
        /\ stamp[r] \in Nat /\ stamp' = [stamp EXCEPT ![r] = stamp[r]]
    BY <1>7 DEF DeleteAll, IInv, TypeOK
  <2>. QED
    BY <2>1, SelectIInv
<1>8. ASSUME NEW r \in Requests, DeleteEnds(r) PROVE IInv'
  BY <1>8, DeleteEndsIInv
<1>9. ASSUME NEW r \in Requests, ReachRow(r) PROVE IInv'
  BY <1>9, ReachRowIInv
<1>10. ASSUME NEW r \in Requests, WaitEnds(r) PROVE IInv'
  BY <1>10, WaitEndsIInv
<1>11. ASSUME NEW r \in Requests, NewToken(r) PROVE IInv'
  BY <1>11, NewTokenIInv
<1>12. ASSUME NEW r \in Requests, CreateToken(r) PROVE IInv'
  BY <1>12, CreateTokenIInv
<1>13. ASSUME NEW r \in Requests, Commit(r) PROVE IInv'
  BY <1>13, CommitIInv
<1>14. ASSUME NEW r \in Requests, Fail(r) PROVE IInv'
  BY <1>14, RollbackIInv DEF Fail
<1>15. ASSUME NEW r \in Requests, DetectDeadlock(r) PROVE IInv'
  BY <1>15, RollbackIInv DEF DetectDeadlock
<1>16. CASE UNCHANGED vars
  <2>. USE <1>16 DEF vars, locals, history, IInv
  <2>1. TypeOK' /\ PhaseOK'
    BY DEF TypeOK, PhaseOK
  <2>2. RowsNumbered' /\ DeletedByOne'
    BY DEF RowsNumbered, DeletedByOne
  <2>3. RowsOutliveTokens' /\ ExpiredOnlyAtEnd'
    BY DEF RowsOutliveTokens, ExpiredOnlyAtEnd, SecondOf
  <2>4. UsedTokensTraced'
    BY DEF UsedTokensTraced, RowsOf
  <2>. QED
    BY <2>1, <2>2, <2>3, <2>4
<1>. QED
  BY <1>1, <1>2, <1>3, <1>4, <1>5, <1>6, <1>7, <1>8, <1>9, <1>10, <1>11, <1>12, <1>13,
     <1>14, <1>15, <1>16
  DEF Next, Step

(* Rows of refresh_tokens are inserted and deleted once, by one request at *)
(* a time, and none is called expired before the second of the exp of its  *)
(* JWT. *)
THEOREM Invariance == Spec => []IInv
  BY InitIInv, StepIInv, PTL DEF Spec

(* Only a commit answers a request; what a property of commits needs is    *)
(* what IInv says before it. *)
LEMMA CommitDeletes ==
    ASSUME IInv, NEW r \in Requests, Commit(r)
    PROVE  /\ rows' = (rows \ removed[r]) \cup fresh[r]
           /\ removed[r] = targets[r] \cap rows
           /\ fresh[r] \cap targets[r] = {}
           /\ \A x \in fresh[r] : x.token.user = user[r]
  BY DEF Commit, IInv, DeletedByOne, RowsNumbered

(* A refresh leaves its user exactly the new row, a logout none, unless    *)
(* another request of the user committed after the DELETE had selected its *)
(* rows (refresh, logout). *)
THEOREM RotationsExact == Spec => RotationExact
<1>1. IInv /\ [Next]_vars
         => [\A r \in Requests :
               Commit(r) /\ kind[r] \in {"refresh", "logout"} /\ ~overlapped[r]
                  => {x \in rows' : x.token.user = user[r]} = fresh[r]]_vars
  <2>. SUFFICES ASSUME IInv, NEW r \in Requests, Commit(r),
                       kind[r] \in {"refresh", "logout"}, ~overlapped[r]
                PROVE  {x \in rows' : x.token.user = user[r]} = fresh[r]
    BY DEF vars
  <2>1. RowsOf(user[r]) \subseteq targets[r]
    BY DEF IInv, UsedTokensTraced, HasSelected, Commit
  <2>. QED
    BY <2>1, CommitDeletes DEF RowsOf
<1>. QED
  BY <1>1, Invariance, PTL DEF Spec, RotationExact

(* A used token works again only for a refresh that had read the rows      *)
(* before another commit of the user, or if it was issued once more        *)
(* (refresh). *)
THEOREM ReuseIsTraced == Spec => ReuseNeedsRaceOrReissue
<1>1. IInv /\ [Next]_vars
         => [\A r \in Requests :
               Commit(r) /\ kind[r] = "refresh" /\ token[r] \in used /\ ~stale[r]
                  => token[r] \in reissued]_vars
  <2>. SUFFICES ASSUME IInv, NEW r \in Requests, Commit(r), kind[r] = "refresh",
                       token[r] \in used, ~stale[r]
                PROVE  token[r] \in reissued
    BY DEF vars
  <2>. QED
    BY DEF IInv, UsedTokensTraced, HasRead, Commit
<1>. QED
  BY <1>1, Invariance, PTL DEF Spec, ReuseNeedsRaceOrReissue

-----------------------------------------------------------------------------
(* The abstract state of the requests. *)
AbsAct(r) == IF Acts(r) THEN kind[r] ELSE "none"
AbsOwner(r) == IF Acts(r) THEN user[r] ELSE NoUser
AbsSeen(r) == IF Acts(r) THEN targets[r] ELSE {}

(* The other requests keep it. *)
Others(r) ==
    \A s \in Requests \ {r} :
        pc'[s] = pc[s] /\ kind'[s] = kind[s] /\ user'[s] = user[s] /\ targets'[s] = targets[s]

LEMMA RefineOthers ==
    ASSUME NEW r \in Requests, Others(r)
    PROVE  /\ [s \in Requests |-> AbsAct(s)]'
                = [[s \in Requests |-> AbsAct(s)] EXCEPT ![r] = AbsAct(r)']
           /\ [s \in Requests |-> AbsOwner(s)]'
                = [[s \in Requests |-> AbsOwner(s)] EXCEPT ![r] = AbsOwner(r)']
           /\ [s \in Requests |-> AbsSeen(s)]'
                = [[s \in Requests |-> AbsSeen(s)] EXCEPT ![r] = AbsSeen(r)']
<1>1. \A s \in Requests \ {r} :
          AbsAct(s)' = AbsAct(s) /\ AbsOwner(s)' = AbsOwner(s) /\ AbsSeen(s)' = AbsSeen(s)
  BY DEF Others, AbsAct, AbsOwner, AbsSeen, Acts
<1>. QED
  BY <1>1

(* A step that only its request can see. *)
LEMMA RefineHidden ==
    ASSUME NEW r \in Requests, Others(r), UNCHANGED <<now, rows, issued>>,
           AbsAct(r)' = AbsAct(r), AbsOwner(r)' = AbsOwner(r), AbsSeen(r)' = AbsSeen(r)
    PROVE  UNCHANGED Abstract!absVars
<1>1. \A s \in Requests :
          AbsAct(s)' = AbsAct(s) /\ AbsOwner(s)' = AbsOwner(s) /\ AbsSeen(s)' = AbsSeen(s)
  BY DEF Others, AbsAct, AbsOwner, AbsSeen, Acts
<1>. QED
  BY <1>1 DEF Abstract!absVars, AbsAct, AbsOwner, AbsSeen

(* A request that ends is at rest again. *)
LEMMA RefineRest ==
    ASSUME IInv, NEW r \in Requests, Finish(r), now' = now
    PROVE  Abstract!Rest(r)
<1>1. Others(r) /\ pc'[r] = "idle"
  BY DEF Finish, Goto, Others, IInv, TypeOK
<1>2. AbsAct(r)' = "none" /\ AbsOwner(r)' = NoUser /\ AbsSeen(r)' = {}
  BY <1>1 DEF AbsAct, AbsOwner, AbsSeen, Acts, HasSelected
<1>. QED
  BY <1>1, <1>2, RefineOthers DEF Abstract!Rest, AbsAct, AbsOwner, AbsSeen

LEMMA RefineRollback ==
    ASSUME IInv, NEW r \in Requests, Rollback(r)
    PROVE  Abstract!Abort(r)
BY RefineRest DEF Rollback, Abstract!Abort

(* Steps before the DELETE, and those after it up to the commit. *)
LEMMA RefineInside ==
    ASSUME IInv, NEW r \in Requests, UNCHANGED <<now, rows, issued>>,
           Others(r),
           \/ ~Acts(r) /\ ~Acts(r)'
           \/ Acts(r) /\ Acts(r)' /\ UNCHANGED <<kind, user, targets>>
    PROVE  UNCHANGED Abstract!absVars
<1>1. AbsAct(r)' = AbsAct(r) /\ AbsOwner(r)' = AbsOwner(r) /\ AbsSeen(r)' = AbsSeen(r)
  BY DEF AbsAct, AbsOwner, AbsSeen
<1>. QED
  BY <1>1, RefineHidden

LEMMA RefineBegin ==
    ASSUME IInv, NEW r \in Requests, NEW k, NEW u, NEW tok, NEW new,
           NEW l \in {"expiry", "read", "drop"}, Begin(r, k, u, tok, new, l)
    PROVE  UNCHANGED Abstract!absVars
<1>1. Others(r) /\ ~Acts(r) /\ ~Acts(r)'
  BY DEF Begin, Goto, Others, Acts, HasSelected, IInv, TypeOK
<1>. QED
  BY <1>1, RefineInside DEF Begin

LEMMA RefineReadTokens ==
    ASSUME IInv, NEW r \in Requests, ReadTokens(r)
    PROVE  UNCHANGED Abstract!absVars \/ Abstract!Abort(r)
<1>1. CASE Rollback(r)
  BY <1>1, RefineRollback
<1>2. CASE ~Rollback(r)
  <2>1. Others(r) /\ ~Acts(r) /\ ~Acts(r)' /\ UNCHANGED <<now, rows, issued>>
    BY <1>2 DEF ReadTokens, Goto, Others, Acts, HasSelected, IInv, TypeOK
  <2>. QED
    BY <2>1, RefineInside
<1>. QED
  BY <1>1, <1>2

LEMMA RefineCheckExpiry ==
    ASSUME IInv, NEW r \in Requests, CheckExpiry(r)
    PROVE  UNCHANGED Abstract!absVars
<1>1. Others(r) /\ ~Acts(r) /\ ~Acts(r)'
  BY DEF CheckExpiry, Goto, Others, Acts, HasSelected, IInv, TypeOK
<1>. QED
  BY <1>1, RefineInside DEF CheckExpiry

(* The DELETE selects the rows that the request looks at. *)
LEMMA RefineSelect ==
    ASSUME IInv, NEW r \in Requests, NEW S, Select(r, S), pc[r] \in {"expiry", "drop"},
           kind[r] # "expired"
    PROVE  Abstract!Look(r, user[r], kind[r], S)
<1>1. Others(r) /\ ~Acts(r) /\ Acts(r)' /\ kind' = kind /\ user' = user
      /\ UNCHANGED <<now, rows, issued>>
  BY DEF Select, Goto, Others, Acts, HasSelected, IInv, TypeOK
<1>2. targets'[r] = S
  BY DEF Select, IInv, TypeOK
<1>3. AbsAct(r) = "none" /\ AbsAct(r)' = kind[r] /\ AbsOwner(r)' = user[r] /\ AbsSeen(r)' = S
  BY <1>1, <1>2 DEF AbsAct, AbsOwner, AbsSeen
<1>. QED
  BY <1>1, <1>3, RefineOthers DEF Abstract!Look, AbsAct, AbsOwner, AbsSeen

LEMMA RefineDeleteExpired ==
    ASSUME IInv, NEW r \in Requests, DeleteExpired(r)
    PROVE  user[r] \in Users /\ Abstract!LookToLogin(r, user[r])
<1>1. pc[r] = "expiry" /\ kind[r] = "login" /\ user[r] \in Users
  BY DEF DeleteExpired, IInv, PhaseOK
<1>2. PICK S : S = {x \in RowsOf(user[r]) : x.expiresAt < now}
  OBVIOUS
<1>3. Select(r, S)
  BY <1>2 DEF DeleteExpired, Select
<1>4. Abstract!Look(r, user[r], kind[r], S)
  BY <1>1, <1>3, RefineSelect
<1>5. S = {x \in Abstract!SessionsOf(user[r]) : x.expiresAt < now}
  BY <1>2 DEF Abstract!SessionsOf, RowsOf
<1>. QED
  BY <1>1, <1>4, <1>5 DEF Abstract!LookToLogin, Abstract!Look

LEMMA RefineDeleteAll ==
    ASSUME IInv, NEW r \in Requests, DeleteAll(r)
    PROVE  \/ UNCHANGED Abstract!absVars
           \/ /\ user[r] \in Users /\ kind[r] \in {"refresh", "logout"}
              /\ Abstract!LookToEnd(r, user[r], kind[r])
<1>1. PICK S : S = RowsOf(user[r])
  OBVIOUS
<1>2. pc[r] = "drop" /\ Select(r, S)
  BY <1>1 DEF DeleteAll, Select
<1>3. kind[r] \in {"refresh", "expired", "logout"} /\ token[r] \in issued
      /\ token[r].user = user[r]
  BY <1>2 DEF IInv, PhaseOK
<1>4. CASE kind[r] = "expired"
  <2>1. Others(r) /\ ~Acts(r) /\ ~Acts(r)'
    BY <1>2, <1>4 DEF Select, Goto, Others, Acts, IInv, TypeOK
  <2>2. UNCHANGED <<now, rows, issued>>
    BY <1>2 DEF Select
  <2>. QED
    BY <2>1, <2>2, RefineInside
<1>5. CASE kind[r] # "expired"
  <2>1. user[r] \in Users
    BY <1>3 DEF IInv, TypeOK, Tokens
  <2>2. Abstract!Look(r, user[r], kind[r], S)
    BY <1>2, <1>5, RefineSelect
  <2>3. S = Abstract!SessionsOf(user[r])
    BY <1>1 DEF Abstract!SessionsOf, RowsOf
  <2>4. Abstract!LookToEnd(r, user[r], kind[r])
    BY <1>3, <1>5, <2>2, <2>3 DEF Abstract!LookToEnd, Abstract!Look
  <2>. QED
    BY <1>3, <1>5, <2>1, <2>4
<1>. QED
  BY <1>4, <1>5

(* Locks, waiting and rows that are gone cannot be seen. *)
LEMMA RefineTakeRows ==
    ASSUME IInv, NEW r \in Requests, ReachRow(r) \/ WaitEnds(r)
    PROVE  UNCHANGED Abstract!absVars
<1>1. Others(r) /\ UNCHANGED <<now, rows, issued, pc, kind, user, targets>>
  BY DEF ReachRow, WaitEnds, Others
<1>2. Acts(r)' = Acts(r)
  BY <1>1 DEF Acts
<1>. QED
  BY <1>1, <1>2, RefineInside

LEMMA RefineDeleteEnds ==
    ASSUME IInv, NEW r \in Requests, DeleteEnds(r)
    PROVE  UNCHANGED Abstract!absVars \/ Abstract!Abort(r)
<1>1. CASE kind[r] = "expired"
  BY <1>1, RefineRollback DEF DeleteEnds
<1>2. CASE kind[r] # "expired"
  <2>1. pc[r] = "wait" /\ pc'[r] \in {"insert", "mint", "commit"}
    BY <1>2 DEF DeleteEnds, Goto, IInv, TypeOK
  <2>2. Others(r) /\ UNCHANGED <<now, rows, issued, kind, user, targets>>
    BY <1>2 DEF DeleteEnds, Goto, Others, IInv, TypeOK
  <2>. QED
    BY <1>2, <2>1, <2>2, RefineInside DEF Acts, HasSelected
<1>. QED
  BY <1>1, <1>2

LEMMA RefineNewToken ==
    ASSUME IInv, NEW r \in Requests, NewToken(r) \/ CreateToken(r)
    PROVE  UNCHANGED Abstract!absVars
<1>1. Others(r) /\ pc[r] \in HasSelected /\ pc'[r] \in HasSelected /\ kind[r] # "expired"
      /\ UNCHANGED <<now, rows, issued, kind, user, targets>>
  BY DEF NewToken, CreateToken, Goto, Others, HasSelected, IInv, TypeOK, PhaseOK
<1>. QED
  BY <1>1, RefineInside DEF Acts

(* The commit is the one step in which sessions end and start: what the    *)
(* DELETE selected and is still there is what the request has deleted. *)
LEMMA RefineCommit ==
    ASSUME IInv, NEW r \in Requests, Commit(r)
    PROVE  Abstract!Start(r) \/ Abstract!End(r)
<1>1. Abstract!Rest(r)
  BY RefineRest DEF Commit
<1>2. \/ kind[r] = "logout" /\ fresh[r] = {}
      \/ kind[r] \in {"login", "refresh"} /\ \E x \in fresh[r] : fresh[r] = {x}
  BY DEF Commit, IInv, PhaseOK
<1>3. AbsAct(r) = kind[r] /\ AbsOwner(r) = user[r] /\ AbsSeen(r) = targets[r]
  BY <1>2 DEF Commit, AbsAct, AbsOwner, AbsSeen, Acts, HasSelected
<1>4. rows' = (rows \ targets[r]) \cup fresh[r]
  BY CommitDeletes
<1>5. issued' = issued \cup {x.token : x \in fresh[r]}
  BY DEF Commit
<1>6. CASE kind[r] = "logout"
  <2>1. rows' = rows \ targets[r] /\ issued' = issued
    BY <1>2, <1>4, <1>5, <1>6
  <2>. QED
    BY <1>1, <1>3, <1>6, <2>1 DEF Abstract!End, AbsAct, AbsSeen
<1>7. CASE kind[r] \in {"login", "refresh"}
  <2>1. PICK x \in fresh[r] : fresh[r] = {x}
    BY <1>2, <1>7
  <2>2. x \in rows' /\ rows' = (rows \ targets[r]) \cup {x} /\ issued' = issued \cup {x.token}
    BY <2>1, <1>4, <1>5
  <2>3. x.token.user = user[r]
    BY CommitDeletes
  <2>4. \A y \in rows : x.id # y.id
    BY DEF IInv, RowsNumbered
  <2>. QED
    BY <1>1, <1>3, <1>7, <2>2, <2>3, <2>4 DEF Abstract!Start, AbsAct, AbsOwner, AbsSeen
<1>. QED
  BY <1>2, <1>6, <1>7

LEMMA RefineInit == Init => Abstract!AbsInit
<1>. SUFFICES ASSUME Init PROVE Abstract!AbsInit
  OBVIOUS
<1>1. \A r \in Requests : ~Acts(r)
  BY DEF Init, Acts, HasSelected
<1>. QED
  BY <1>1 DEF Init, Abstract!AbsInit

LEMMA RefineNext == IInv /\ [Next]_vars => [Abstract!AbsNext]_Abstract!absVars
<1>. SUFFICES ASSUME IInv, [Next]_vars
              PROVE  Abstract!AbsNext \/ UNCHANGED Abstract!absVars
  OBVIOUS
<1>1. CASE Tick
  BY <1>1 DEF Tick, locals, Abstract!AbsNext, Abstract!TimePasses, Acts
<1>2. ASSUME NEW r \in Requests, NEW u \in Users, BeginLogin(r, u)
      PROVE  UNCHANGED Abstract!absVars
  BY <1>2, RefineBegin DEF BeginLogin
<1>3. ASSUME NEW r \in Requests, NEW tok \in issued, BeginRefresh(r, tok) \/ BeginLogout(r, tok)
      PROVE  UNCHANGED Abstract!absVars
  BY <1>3, RefineBegin DEF BeginRefresh, BeginLogout
<1>4. ASSUME NEW r \in Requests, Step(r) \/ DetectDeadlock(r) \/ Fail(r)
      PROVE  Abstract!AbsNext \/ UNCHANGED Abstract!absVars
  <2>1. CASE ReadTokens(r) \/ CheckExpiry(r) \/ DeleteEnds(r) \/ NewToken(r) \/ CreateToken(r)
    BY <2>1, RefineReadTokens, RefineCheckExpiry, RefineDeleteEnds, RefineNewToken
    DEF Abstract!AbsNext
  <2>2. CASE ReachRow(r) \/ WaitEnds(r)
    BY <2>2, RefineTakeRows
  <2>3. CASE DeleteExpired(r)
    BY <2>3, RefineDeleteExpired DEF Abstract!AbsNext
  <2>4. CASE DeleteAll(r)
    BY <2>4, RefineDeleteAll DEF Abstract!AbsNext
  <2>5. CASE Commit(r)
    BY <2>5, RefineCommit DEF Abstract!AbsNext
  <2>6. CASE DetectDeadlock(r) \/ Fail(r)
    BY <2>6, RefineRollback DEF DetectDeadlock, Fail, Abstract!AbsNext
  <2>. QED
    BY <1>4, <2>1, <2>2, <2>3, <2>4, <2>5, <2>6 DEF Step
<1>5. CASE UNCHANGED vars
  BY <1>5 DEF vars, locals, Abstract!absVars, Acts
<1>. QED
  BY <1>1, <1>2, <1>3, <1>4, <1>5 DEF Next

(* login, refresh and logout implement the atomic sessions of Sessions,    *)
(* for any requests, users, lifetime and clock (delete_all_token_by_user,  *)
(* delete_expired_tokens, create_token). *)
THEOREM RefreshTokensImplementSessions == Spec => ImplementsSessions
  BY RefineInit, RefineNext, Invariance, PTL
  DEF Spec, ImplementsSessions, Abstract!AbsSpec
=============================================================================
