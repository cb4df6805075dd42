--------------------------- MODULE AccountsProofs ---------------------------
(***************************************************************************)
(* What Accounts guarantees for every number of overlapping requests, of   *)
(* sessions, of codes and of attempts, and for every workload.             *)
(***************************************************************************)
EXTENDS ResetPages, FiniteSetTheorems, TLAPS

\* A request that is to write a row it has read names a row that exists.
NamesRows(request) ==
  /\ request.pc \in {"rotate", "resolve", "logout"} =>
       request.session \in SessionIds
  /\ request.pc \in {"rotate", "resolve", "issue", "logout"} /\ request.session # 0 =>
       session[request.session].state # "none"
  /\ request.pc \in {"expire", "miss", "redeem"} =>
       request.code \in CodeIds /\ code[request.code].state # "none"
NamesARow == \A r \in Requests : NamesRows(req[r])

\* A code that is live, or does not exist, has set no password; a live one
\* has attempts left, and one that does not exist has had none.
CodeAccounts ==
  /\ \A c \in CodeIds :
       /\ code[c].state # "consumed" => code[c].redeemed = 0
       /\ code[c].state = "none" => code[c].attempts = 0
       /\ code[c].state = "live" => code[c].attempts < MaxAttempts
       /\ code[c].redeemed <= 1

TypeInv == TypeOK /\ NamesARow /\ CodeAccounts

\* The request that carries the chain of a login on: it has revoked the
\* chain's session and has not inserted the next.
Carries(r, login) ==
  /\ req[r].pc \in {"resolve", "issue"}
  /\ req[r].session # 0
  /\ session[req[r].session].login = login

\* A chain ends in one unrevoked session, or in one request that carries it
\* on, and never in both; it is named by a session that exists.
ChainInv ==
  /\ \A s \in SessionIds : session[s].state # "none" =>
       /\ session[s].login \in SessionIds
       /\ session[session[s].login].state # "none"
  /\ OneLiveSessionPerLogin
  /\ \A r \in Requests, s \in SessionIds :
       Unrevoked(s) => ~Carries(r, session[s].login)
  /\ \A r, q \in Requests, login \in SessionIds :
       Carries(r, login) /\ Carries(q, login) => r = q

-----------------------------------------------------------------------------
LEMMA TypeInit == Init => TypeInv
<1> SUFFICES ASSUME Init PROVE TypeInv
  OBVIOUS
<1>1. NoSession \in Sessions /\ NoCode \in Codes /\ Idle \in RequestStates
  BY ConstantsAssumption DEF NoSession, Sessions, NoCode, Codes, Idle, RequestStates, Phases
<1>2. TypeOK
  BY <1>1 DEF Init, TypeOK, Statuses
<1>3. NamesARow
  BY DEF Init, NamesARow, NamesRows, Idle
<1>4. CodeAccounts
  BY DEF Init, CodeAccounts, NoCode
<1>5. QED
  BY <1>2, <1>3, <1>4 DEF TypeInv

(* What almost every step does to the sessions: some of them end.            *)
SessionsOnlyEnd ==
  /\ session' \in [SessionIds -> Sessions]
  /\ \A s \in SessionIds :
       /\ session'[s].login = session[s].login
       /\ session'[s].state = "none" <=> session[s].state = "none"
       /\ session'[s].state \in {"live", "expired"} => Unrevoked(s)

\* A step of one request leaves the others where they are.
Moves(r, next) == req' = [req EXCEPT ![r] = next]

LEMMA RevokeAllButEnds ==
  ASSUME TypeOK, NEW spared, RevokeAllBut(spared)
  PROVE  SessionsOnlyEnd
BY DEF TypeOK, RevokeAllBut, SessionsOnlyEnd, Sessions, Unrevoked

LEMMA RevokeEnds ==
  ASSUME TypeOK, NEW s \in SessionIds, session[s].state # "none", Revoke(s)
  PROVE  SessionsOnlyEnd /\ session'[s].state = "revoked"
BY DEF TypeOK, Revoke, SessionsOnlyEnd, Sessions, Unrevoked

LEMMA UnchangedEnds ==
  ASSUME TypeOK, UNCHANGED session
  PROVE  SessionsOnlyEnd
BY DEF TypeOK, SessionsOnlyEnd, Unrevoked

LEMMA MoveType ==
  ASSUME TypeOK, NEW r \in Requests, NEW next \in RequestStates, Moves(r, next)
  PROVE  /\ req' \in [Requests -> RequestStates]
         /\ req'[r] = next
         /\ \A q \in Requests : q # r => req'[q] = req[q]
BY DEF TypeOK, Moves

LEMMA IdleType == Idle \in RequestStates /\ Idle.pc = "idle" /\ Idle.session = 0
BY ConstantsAssumption DEF Idle, RequestStates, Phases

LEMMA PhaseType ==
  ASSUME NEW phase \in Phases
  PROVE  At(phase) \in RequestStates /\ At(phase).pc = phase /\ At(phase).session = 0
<1>1. At(phase) = [pc |-> phase, session |-> 0, code |-> 0, attempts |-> 0]
  BY DEF At, Idle
<1>2. QED
  BY <1>1, ConstantsAssumption DEF RequestStates

LEMMA WithSession ==
  ASSUME NEW next \in RequestStates, NEW s \in SessionIds
  PROVE  LET new == [next EXCEPT !.session = s] IN
           new \in RequestStates /\ new.pc = next.pc /\ new.session = s
BY DEF RequestStates

(* A step of a request that loses no row keeps the invariant if what the     *)
(* request does next names its row and the codes' accounts balance.          *)
RowsStay ==
  /\ session' \in [SessionIds -> Sessions]
  /\ \A s \in SessionIds : session[s].state # "none" => session'[s].state # "none"
  /\ code' \in [CodeIds -> Codes]
  /\ \A c \in CodeIds : code[c].state # "none" => code'[c].state # "none"
OthersTyped ==
  /\ workload' = workload
  /\ status' \in Statuses /\ active' \in BOOLEAN /\ mustChange' \in BOOLEAN
  /\ late' \in Nat

LEMMA RequestStep ==
  ASSUME TypeInv, NEW r \in Requests, NEW next \in RequestStates, Moves(r, next),
         NamesRows(next), RowsStay, OthersTyped, CodeAccounts'
  PROVE  TypeInv'
<1>1. TypeOK
  BY DEF TypeInv
<1>2. /\ req' \in [Requests -> RequestStates]
      /\ req'[r] = next
      /\ \A q \in Requests : q # r => req'[q] = req[q]
  BY <1>1, MoveType
<1>3. TypeOK'
  BY <1>1, <1>2 DEF TypeOK, RowsStay, OthersTyped
<1>4. \A q \in Requests : NamesRows(req'[q])
  BY <1>2 DEF TypeInv, NamesARow
<1>5. ASSUME NEW q \in Requests PROVE NamesRows(req[q])'
  <2> DEFINE new == req'[q]
  <2>1. new \in RequestStates /\ NamesRows(new)
    BY <1>2, <1>4
  <2>2. new.session \in {0} \union SessionIds
    BY <2>1 DEF RequestStates
  <2>3. QED
    BY <2>1, <2>2 DEF NamesRows, RowsStay
<1>6. QED
  BY <1>3, <1>5 DEF TypeInv, NamesARow

\* The steps that change neither codes nor what the account says of itself.
LEMMA SessionRequestStep ==
  ASSUME TypeInv, NEW r \in Requests, NEW next \in RequestStates, Moves(r, next),
         NamesRows(next), SessionsOnlyEnd, mustChange' \in BOOLEAN,
         UNCHANGED <<workload, memberVars, code>>
  PROVE  TypeInv'
<1>1. RowsStay /\ OthersTyped
  BY DEF TypeInv, TypeOK, RowsStay, OthersTyped, SessionsOnlyEnd, memberVars
<1>2. CodeAccounts'
  BY DEF TypeInv, CodeAccounts
<1>3. QED
  BY <1>1, <1>2, RequestStep

LEMMA SessionStepType ==
  ASSUME TypeInv, NEW r \in Requests, SessionStep(r)
  PROVE  TypeInv'
<1> USE DEF Begin, Continue, Finish, Moves
<1>1. TypeOK /\ NamesRows(req[r]) /\ req[r] \in RequestStates
  BY DEF TypeInv, NamesARow, TypeOK
<1>2. NamesRows(Idle) /\ Idle \in RequestStates
  BY IdleType DEF NamesRows
<1>3. CASE Login(r)
  <2>1. At("issue") \in RequestStates /\ NamesRows(At("issue"))
    BY PhaseType DEF Phases, NamesRows
  <2>2. QED
    BY <1>1, <1>3, <2>1, UnchangedEnds, SessionRequestStep DEF Login, TypeOK
<1>4. CASE IssueTokens(r)
  <2>1. RowsStay
    BY <1>1, <1>4 DEF IssueTokens, RowsStay, TypeOK, RequestStates, Sessions
  <2>2. OthersTyped
    BY <1>1, <1>4 DEF IssueTokens, OthersTyped, TypeOK
  <2>3. CodeAccounts'
    BY <1>4 DEF IssueTokens, TypeInv, CodeAccounts
  <2>4. QED
    BY <1>2, <1>4, <2>1, <2>2, <2>3, RequestStep DEF IssueTokens
<1>5. CASE KillSessions(r)
  BY <1>1, <1>2, <1>5, RevokeAllButEnds, SessionRequestStep DEF KillSessions, TypeOK
<1>6. CASE RotateToken(r)
  <2> DEFINE next == [req[r] EXCEPT !.pc = "resolve"]
             s == req[r].session
  <2>1. s \in SessionIds /\ session[s].state # "none"
    BY <1>1, <1>6 DEF RotateToken, NamesRows, SessionIds
  <2>2. next \in RequestStates /\ NamesRows(next)
    BY <1>1, <2>1 DEF RequestStates, Phases, NamesRows
  <2>3. CASE Unrevoked(s)
    BY <1>1, <1>6, <2>1, <2>2, <2>3, RevokeEnds, SessionRequestStep
    DEF RotateToken, TypeOK
  <2>4. CASE ~Unrevoked(s)
    BY <1>1, <1>2, <1>6, <2>4, UnchangedEnds, SessionRequestStep
    DEF RotateToken, TypeOK
  <2>5. QED
    BY <2>3, <2>4
<1>7. CASE ResolveActor(r)
  <2> DEFINE next == [req[r] EXCEPT !.pc = "issue"]
  <2>1. CASE active
    <3>1. next \in RequestStates /\ NamesRows(next)
      BY <1>1, <1>7, <2>1 DEF ResolveActor, RequestStates, Phases, NamesRows
    <3>2. QED
      BY <1>1, <1>7, <2>1, <3>1, UnchangedEnds, SessionRequestStep
      DEF ResolveActor, TypeOK
  <2>2. CASE ~active
    BY <1>1, <1>2, <1>7, <2>2, UnchangedEnds, SessionRequestStep
    DEF ResolveActor, TypeOK
  <2>3. QED
    BY <2>1, <2>2
<1>8. CASE RevokeToken(r)
  <2>1. req[r].session \in SessionIds /\ session[req[r].session].state # "none"
    BY <1>1, <1>8 DEF RevokeToken, NamesRows, SessionIds
  <2>2. QED
    BY <1>1, <1>2, <1>8, <2>1, RevokeEnds, SessionRequestStep DEF RevokeToken, TypeOK
<1>9. CASE CommitChange(r)
  BY <1>1, <1>2, <1>9, RevokeAllButEnds, SessionRequestStep DEF CommitChange
<1>10. ASSUME NEW s \in SessionIds, session[s].state # "none", NEW phase \in Phases
       PROVE  [At(phase) EXCEPT !.session = s] \in RequestStates
              /\ (phase \notin {"expire", "miss", "redeem"} =>
                    NamesRows([At(phase) EXCEPT !.session = s]))
  <2> DEFINE next == [At(phase) EXCEPT !.session = s]
  <2>1. next \in RequestStates /\ next.pc = phase /\ next.session = s
    BY PhaseType, WithSession
  <2>2. QED
    BY <1>10, <2>1 DEF NamesRows
<1>11. ASSUME NEW s \in SessionIds, ReadRefreshToken(r, s) PROVE TypeInv'
  <2>1. At("kill") \in RequestStates /\ NamesRows(At("kill"))
    BY PhaseType DEF Phases, NamesRows
  <2>2. session[s].state \in {"revoked", "live"}
    BY <1>11 DEF ReadRefreshToken
  <2>3. PICK next \in RequestStates : Moves(r, next) /\ NamesRows(next)
    BY <1>10, <1>11, <2>1, <2>2 DEF ReadRefreshToken, Phases
  <2>4. QED
    BY <1>1, <1>11, <2>3, UnchangedEnds, SessionRequestStep
    DEF ReadRefreshToken, TypeOK
<1>12. ASSUME NEW s \in SessionIds, ReadLogoutToken(r, s) PROVE TypeInv'
  <2>1. PICK next \in RequestStates : Moves(r, next) /\ NamesRows(next)
    BY <1>10, <1>12 DEF ReadLogoutToken, Phases, Unrevoked
  <2>2. QED
    BY <1>1, <1>12, <2>1, UnchangedEnds, SessionRequestStep DEF ReadLogoutToken, TypeOK
<1>13. ASSUME NEW s \in SessionIds, ReadPasswordHash(r, s) PROVE TypeInv'
  <2>1. PICK next \in RequestStates : Moves(r, next) /\ NamesRows(next)
    BY <1>10, <1>13 DEF ReadPasswordHash, Phases
  <2>2. QED
    BY <1>1, <1>13, <2>1, UnchangedEnds, SessionRequestStep DEF ReadPasswordHash, TypeOK
<1>14. QED
  BY <1>3, <1>4, <1>5, <1>6, <1>7, <1>8, <1>9, <1>11, <1>12, <1>13 DEF SessionStep

LEMMA ConsumeLiveCodesType ==
  ASSUME TypeInv, ConsumeLiveCodes
  PROVE  /\ code' \in [CodeIds -> Codes] /\ CodeAccounts'
         /\ \A c \in CodeIds : code[c].state # "none" => code'[c].state # "none"
         /\ \A c \in CodeIds : code'[c].attempts = code[c].attempts
BY DEF TypeInv, TypeOK, ConsumeLiveCodes, LiveCodes, Codes, CodeAccounts

LEMMA MembershipStepType ==
  ASSUME TypeInv, NEW r \in Requests, MembershipStep(r)
  PROVE  TypeInv'
<1> USE DEF Begin, Continue, Finish, Moves
<1>1. TypeOK
  BY DEF TypeInv
<1>2. NamesRows(Idle) /\ Idle \in RequestStates
  BY IdleType DEF NamesRows
<1>3. ASSUME NEW op \in DOMAIN Target, ReadMembership(r, op) PROVE TypeInv'
  <2>1. At(op) \in RequestStates /\ NamesRows(At(op))
    BY PhaseType DEF Target, Phases, NamesRows
  <2>2. QED
    BY <1>1, <1>3, <2>1, UnchangedEnds, SessionRequestStep DEF ReadMembership, TypeOK
<1>4. ASSUME NEW op \in DOMAIN Target, WriteMembership(r, op) PROVE TypeInv'
  <2>1. SessionsOnlyEnd
    BY <1>1, <1>4, RevokeAllButEnds, UnchangedEnds DEF WriteMembership
  <2>2. Target[op] \in Statuses
    BY DEF Target, Statuses
  <2>3. RowsStay /\ OthersTyped
    BY <1>1, <1>4, <2>1, <2>2
    DEF WriteMembership, SetActive, RowsStay, OthersTyped, SessionsOnlyEnd, TypeOK
  <2>4. CodeAccounts'
    BY <1>4 DEF WriteMembership, TypeInv, CodeAccounts
  <2>5. QED
    BY <1>2, <1>4, <2>3, <2>4, RequestStep DEF WriteMembership
<1>5. CASE ForceResetPassword(r)
  <2>1. At("burn") \in RequestStates /\ NamesRows(At("burn"))
    BY PhaseType DEF Phases, NamesRows
  <2>2. QED
    BY <1>1, <1>5, <2>1, RevokeAllButEnds, SessionRequestStep DEF ForceResetPassword
<1>6. CASE BurnCodes(r)
  <2>1. RowsStay /\ OthersTyped /\ CodeAccounts'
    BY <1>1, <1>6, ConsumeLiveCodesType
    DEF BurnCodes, RowsStay, OthersTyped, TypeOK, memberVars
  <2>2. QED
    BY <1>2, <1>6, <2>1, RequestStep DEF BurnCodes
<1>7. QED
  BY <1>3, <1>4, <1>5, <1>6 DEF MembershipStep

(* A step of a password reset changes one code, or consumes the live ones.   *)
LEMMA ResetRequestStep ==
  ASSUME TypeInv, NEW r \in Requests, NEW next \in RequestStates, Moves(r, next),
         NamesRows(next), SessionsOnlyEnd, mustChange' \in BOOLEAN,
         UNCHANGED <<workload, memberVars>>,
         code' \in [CodeIds -> Codes], CodeAccounts',
         \A c \in CodeIds : code[c].state # "none" => code'[c].state # "none"
  PROVE  TypeInv'
<1>1. RowsStay /\ OthersTyped
  BY DEF TypeInv, TypeOK, RowsStay, OthersTyped, SessionsOnlyEnd, memberVars
<1>2. QED
  BY <1>1, RequestStep

LEMMA OneCodeChanges ==
  ASSUME TypeInv, NEW c \in CodeIds, code' = [code EXCEPT ![c] = code'[c]],
         code'[c] \in Codes, code'[c].state # "none",
         code'[c].state = "live" =>
           code'[c].attempts < MaxAttempts /\ code'[c].redeemed = 0,
         code'[c].redeemed <= 1
  PROVE  /\ code' \in [CodeIds -> Codes] /\ CodeAccounts'
         /\ \A d \in CodeIds : code[d].state # "none" => code'[d].state # "none"
BY DEF TypeInv, TypeOK, CodeAccounts, Codes

LEMMA RedeemedCode ==
  ASSUME NEW k \in Codes
  PROVE  [k EXCEPT !.state = "consumed", !.redeemed = 1] \in Codes
BY DEF Codes

LEMMA ResetStepType ==
  ASSUME TypeInv, NEW r \in Requests, ResetStep(r)
  PROVE  TypeInv'
<1> USE DEF Begin, Continue, Finish, Moves
<1> DEFINE c == req[r].code
<1>1. TypeOK /\ NamesRows(req[r]) /\ req[r] \in RequestStates /\ CodeAccounts
  BY DEF TypeInv, NamesARow, TypeOK
<1>2. NamesRows(Idle) /\ Idle \in RequestStates
  BY IdleType DEF NamesRows
<1>3. \A phase \in {"cooldown", "consume", "create", "find"} :
        At(phase) \in RequestStates /\ NamesRows(At(phase))
  BY PhaseType DEF Phases, NamesRows
<1>4. CASE RequestReset(r)
  BY <1>1, <1>3, <1>4, UnchangedEnds, SessionRequestStep DEF RequestReset, TypeOK
<1>5. CASE CheckCooldown(r)
  <2>1. PICK next \in RequestStates : Moves(r, next) /\ NamesRows(next)
    BY <1>2, <1>3, <1>5 DEF CheckCooldown
  <2>2. QED
    BY <1>1, <1>5, <2>1, UnchangedEnds, SessionRequestStep DEF CheckCooldown, TypeOK
<1>6. CASE ConsumeEarlierCodes(r)
  BY <1>1, <1>3, <1>6, UnchangedEnds, ConsumeLiveCodesType, ResetRequestStep
  DEF ConsumeEarlierCodes, TypeOK
<1>7. CASE CreateCode(r)
  <2> DEFINE new == [NoCode EXCEPT !.state = "live"]
  <2>1. PICK d \in CodeIds : d \notin Issued /\ code' = [code EXCEPT ![d] = new]
    BY <1>7 DEF CreateCode
  <2>2. /\ new \in Codes /\ new.state = "live"
        /\ new.attempts < MaxAttempts /\ new.redeemed = 0
    BY ConstantsAssumption DEF NoCode, Codes
  <2> HIDE DEF new
  <2>3. code'[d] = new
    BY <1>1, <2>1 DEF TypeOK
  <2>4. /\ code' \in [CodeIds -> Codes] /\ CodeAccounts'
        /\ \A e \in CodeIds : code[e].state # "none" => code'[e].state # "none"
    <3>1. code' = [code EXCEPT ![d] = code'[d]]
      BY <2>1, <2>3
    <3>2. code'[d] \in Codes /\ code'[d].state # "none" /\ code'[d].redeemed <= 1
      BY <2>2, <2>3
    <3>3. code'[d].state = "live" =>
            code'[d].attempts < MaxAttempts /\ code'[d].redeemed = 0
      BY <2>2, <2>3
    <3>4. QED
      BY <3>1, <3>2, <3>3, OneCodeChanges
  <2>5. QED
    BY <1>1, <1>2, <1>7, <2>4, UnchangedEnds, ResetRequestStep DEF CreateCode, TypeOK
<1>8. CASE ResetPassword(r)
  BY <1>1, <1>3, <1>8, UnchangedEnds, SessionRequestStep DEF ResetPassword, TypeOK
<1>9. CASE FindCode(r)
  <2>1. ASSUME NEW d \in LiveCodes, NEW phase \in {"expire", "miss", "redeem"}
        PROVE  LET next == [At(phase) EXCEPT !.code = d,
                                             !.attempts = code[d].attempts]
               IN  next \in RequestStates /\ NamesRows(next)
    <3> DEFINE next == [At(phase) EXCEPT !.code = d, !.attempts = code[d].attempts]
    <3>1. At(phase) \in RequestStates /\ At(phase).pc = phase
      BY PhaseType DEF Phases
    <3>2. d \in CodeIds /\ code[d].state = "live" /\ code[d].attempts \in 0 .. MaxAttempts
      BY <1>1 DEF TypeOK, LiveCodes, Codes
    <3>3. next \in RequestStates /\ next.pc = phase /\ next.code = d
      BY <3>1, <3>2 DEF RequestStates
    <3>4. QED
      BY <3>2, <3>3 DEF NamesRows
  <2>2. PICK next \in RequestStates : Moves(r, next) /\ NamesRows(next)
    BY <1>2, <1>9, <2>1 DEF FindCode
  <2>3. QED
    BY <1>1, <1>9, <2>2, UnchangedEnds, SessionRequestStep DEF FindCode, TypeOK
<1>10. CASE ExpireCode(r)
  <2> DEFINE new == [code[c] EXCEPT !.state = "consumed"]
  <2>1. CASE c \in LiveCodes
    <3>1. new \in Codes /\ new.state = "consumed" /\ new.redeemed <= 1 /\ c \in CodeIds
      BY <1>1, <2>1 DEF TypeOK, Codes, LiveCodes, CodeAccounts
    <3>2. code' = [code EXCEPT ![c] = new]
      BY <1>10, <2>1 DEF ExpireCode
    <3>3. QED
      BY <1>1, <1>2, <1>10, <3>1, <3>2, OneCodeChanges, UnchangedEnds, ResetRequestStep
      DEF ExpireCode, TypeOK
  <2>2. CASE c \notin LiveCodes
    BY <1>1, <1>2, <1>10, <2>2, UnchangedEnds, SessionRequestStep DEF ExpireCode, TypeOK
  <2>3. QED
    BY <2>1, <2>2
<1>11. CASE CountMiss(r)
  <2> DEFINE count == req[r].attempts + 1
             state == IF count >= MaxAttempts THEN "consumed" ELSE "live"
  <2>1. CASE c \in LiveCodes /\ code[c].attempts = req[r].attempts
    <3>1. /\ c \in CodeIds /\ code[c] \in Codes /\ code[c].redeemed = 0
          /\ code[c].attempts < MaxAttempts /\ code[c].attempts \in 0 .. MaxAttempts
          /\ code[c].state = "live"
      BY <1>1, <2>1 DEF TypeOK, LiveCodes, CodeAccounts, Codes
    <3>2. count \in 0 .. MaxAttempts /\ (state = "live" => count < MaxAttempts)
      BY <2>1, <3>1, ConstantsAssumption
    <3>3. code'[c] = [code[c] EXCEPT !.attempts = count, !.state = state]
      BY <1>1, <1>11, <2>1, <3>1 DEF CountMiss, AfterMiss, TypeOK
    <3>4. state \in {"live", "consumed"}
      OBVIOUS
    <3> HIDE DEF count, state
    <3>5. /\ code'[c] \in Codes /\ code'[c].state = state
          /\ code'[c].attempts = count /\ code'[c].redeemed = 0
      BY <3>1, <3>2, <3>3, <3>4 DEF Codes
    <3>6. code' = [code EXCEPT ![c] = code'[c]]
      BY <1>11, <2>1, <1>1, <3>1 DEF CountMiss, TypeOK
    <3>7. code'[c].state # "none" /\ code'[c].redeemed <= 1
      BY <3>4, <3>5
    <3>8. code'[c].state = "live" =>
            code'[c].attempts < MaxAttempts /\ code'[c].redeemed = 0
      BY <3>2, <3>5
    <3>9. /\ code' \in [CodeIds -> Codes] /\ CodeAccounts'
          /\ \A e \in CodeIds : code[e].state # "none" => code'[e].state # "none"
      BY <3>1, <3>5, <3>6, <3>7, <3>8, OneCodeChanges
    <3>10. QED
      BY <1>1, <1>2, <1>11, <3>9, UnchangedEnds, ResetRequestStep DEF CountMiss, TypeOK
  <2>2. CASE ~(c \in LiveCodes /\ code[c].attempts = req[r].attempts)
    BY <1>1, <1>2, <1>11, <2>2, UnchangedEnds, SessionRequestStep DEF CountMiss, TypeOK
  <2>3. QED
    BY <2>1, <2>2
<1>12. CASE RedeemCode(r)
  <2>1. CASE c \in LiveCodes
    <3>1. c \in CodeIds /\ code[c] \in Codes /\ code[c].redeemed = 0
      BY <1>1, <2>1 DEF TypeOK, LiveCodes, CodeAccounts
    <3>2. /\ code'[c].state = "consumed" /\ code'[c].redeemed = 1
          /\ code'[c] = [code[c] EXCEPT !.state = "consumed", !.redeemed = 1]
      BY <1>1, <1>12, <2>1, <3>1 DEF RedeemCode, TypeOK, Codes
    <3>3. code'[c] \in Codes
      BY <3>1, <3>2, RedeemedCode
    <3>4. code' = [code EXCEPT ![c] = code'[c]]
      BY <1>1, <1>12, <2>1, <3>1 DEF RedeemCode, TypeOK
    <3>5. /\ code' \in [CodeIds -> Codes] /\ CodeAccounts'
          /\ \A e \in CodeIds : code[e].state # "none" => code'[e].state # "none"
      <4>1. code'[c].state # "none" /\ code'[c].state # "live" /\ code'[c].redeemed <= 1
        BY <3>2
      <4>2. QED
        BY <3>1, <3>3, <3>4, <4>1, OneCodeChanges
    <3>6. QED
      BY <1>1, <1>2, <1>12, <2>1, <3>5, RevokeAllButEnds, ResetRequestStep
      DEF RedeemCode
  <2>2. CASE c \notin LiveCodes
    BY <1>1, <1>2, <1>12, <2>2, UnchangedEnds, SessionRequestStep DEF RedeemCode, TypeOK
  <2>3. QED
    BY <2>1, <2>2
<1>13. QED
  BY <1>4, <1>5, <1>6, <1>7, <1>8, <1>9, <1>10, <1>11, <1>12 DEF ResetStep

LEMMA TypeStep == TypeInv /\ [Next]_vars => TypeInv'
<1> SUFFICES ASSUME TypeInv, [Next]_vars PROVE TypeInv'
  OBVIOUS
<1>1. TypeOK
  BY DEF TypeInv
\* The steps that no request takes.
<1>2. ASSUME SessionsOnlyEnd, OthersTyped, UNCHANGED req,
             code' \in [CodeIds -> Codes], CodeAccounts',
             \A c \in CodeIds : code[c].state # "none" => code'[c].state # "none"
      PROVE  TypeInv'
  <2>1. TypeOK'
    BY <1>1, <1>2 DEF TypeOK, SessionsOnlyEnd, OthersTyped
  <2>2. ASSUME NEW r \in Requests PROVE NamesRows(req[r])'
    <3>1. NamesRows(req[r]) /\ req[r] \in RequestStates
      BY <1>1 DEF TypeInv, NamesARow, TypeOK
    <3>2. req[r].session \in {0} \union SessionIds
      BY <3>1 DEF RequestStates
    <3>3. QED
      BY <1>2, <3>1, <3>2 DEF NamesRows, SessionsOnlyEnd
  <2>3. QED
    BY <1>2, <2>1, <2>2 DEF TypeInv, NamesARow
<1>3. UNCHANGED code => code' \in [CodeIds -> Codes] /\ CodeAccounts'
  BY DEF TypeInv, TypeOK, CodeAccounts
<1>4. ASSUME NEW s \in SessionIds, RevokeSession(s) PROVE TypeInv'
  BY <1>1, <1>2, <1>3, <1>4, RevokeEnds
  DEF RevokeSession, Unrevoked, OthersTyped, TypeOK, memberVars
<1>5. ASSUME NEW s \in SessionIds, ExpireSession(s) PROVE TypeInv'
  <2>1. SessionsOnlyEnd
    BY <1>1, <1>5 DEF ExpireSession, TypeOK, SessionsOnlyEnd, Sessions, Unrevoked
  <2>2. QED
    BY <1>1, <1>2, <1>3, <1>5, <2>1 DEF ExpireSession, OthersTyped, TypeOK, memberVars
<1>6. ASSUME NEW spared, RevokeAllSessions(spared) PROVE TypeInv'
  BY <1>1, <1>2, <1>3, <1>6, RevokeAllButEnds
  DEF RevokeAllSessions, OthersTyped, TypeOK, memberVars
<1>7. CASE Deactivate
  BY <1>1, <1>2, <1>3, <1>7, RevokeAllButEnds
  DEF Deactivate, SetActive, OthersTyped, TypeOK
<1>8. CASE Activate
  BY <1>1, <1>2, <1>3, <1>8, UnchangedEnds DEF Activate, SetActive, OthersTyped, TypeOK
<1>9. ASSUME NEW c \in CodeIds, AgeCode(c) PROVE TypeInv'
  <2>1. code[c] \in Codes /\ code[c].age + 1 \in 0 .. 2
    BY <1>1, <1>9 DEF AgeCode, TypeOK, Codes
  <2>2. code' = [code EXCEPT ![c] = [code[c] EXCEPT !.age = code[c].age + 1]]
    BY <1>9 DEF AgeCode
  <2>3. code' \in [CodeIds -> Codes] /\ code'[c].state = code[c].state
        /\ code'[c].attempts = code[c].attempts /\ code'[c].redeemed = code[c].redeemed
        /\ \A d \in CodeIds : d # c => code'[d] = code[d]
    BY <1>1, <2>1, <2>2 DEF TypeOK, Codes
  <2>4. CodeAccounts'
    BY <2>3 DEF TypeInv, CodeAccounts
  <2>5. QED
    BY <1>1, <1>2, <1>9, <2>3, <2>4, UnchangedEnds
    DEF AgeCode, OthersTyped, TypeOK, memberVars
<1>10. CASE UNCHANGED vars
  BY <1>1, <1>2, <1>3, <1>10, UnchangedEnds DEF vars, memberVars, OthersTyped, TypeOK
<1>11. QED
  BY <1>4, <1>5, <1>6, <1>7, <1>8, <1>9, <1>10, SessionStepType, MembershipStepType,
     ResetStepType
  DEF Next

\* The variables of an account keep their types and no counter leaves its
\* range, whatever requests overlap.
THEOREM TypeCorrect == Spec => []TypeOK
<1>1. TypeInv => TypeOK
  BY DEF TypeInv
<1>2. QED
  BY <1>1, TypeInit, TypeStep, PTL DEF Spec

\* Of the requests that present one reset code, one sets a password: the
\* update that consumes the code is conditional (password-reset.service.ts).
THEOREM CodeIsRedeemedOnce == Spec => []CodeRedeemedOnce
<1>1. TypeInv => CodeRedeemedOnce
  BY DEF TypeInv, CodeAccounts, CodeRedeemedOnce
<1>2. QED
  BY <1>1, TypeInit, TypeStep, PTL DEF Spec

\* No request finds a code whose attempts are used up.
THEOREM SpentCodeIsGone == Spec => []SpentCodeIsConsumed
<1>1. TypeInv => SpentCodeIsConsumed
  BY DEF TypeInv, CodeAccounts, SpentCodeIsConsumed, LiveCodes
<1>2. QED
  BY <1>1, TypeInit, TypeStep, PTL DEF Spec

LEMMA AttemptsStep ==
  ASSUME TypeInv, Next, NEW c \in CodeIds
  PROVE  code'[c].attempts >= code[c].attempts
<1>1. TypeOK /\ CodeAccounts
  BY DEF TypeInv
<1>2. code \in [CodeIds -> Codes] /\ code[c].attempts \in 0 .. MaxAttempts
  BY <1>1 DEF TypeOK, Codes
<1>3. CASE UNCHANGED code
  BY <1>2, <1>3, ConstantsAssumption
<1>4. CASE ConsumeLiveCodes
  BY <1>2, <1>4, ConsumeLiveCodesType, ConstantsAssumption
<1>5. ASSUME NEW r \in Requests, CreateCode(r)
      PROVE  code'[c].attempts >= code[c].attempts
  <2>1. PICK d \in CodeIds :
          /\ d \notin Issued
          /\ code' = [code EXCEPT ![d] = [NoCode EXCEPT !.state = "live"]]
    BY <1>5 DEF CreateCode
  <2>2. code[d].attempts = 0
    BY <1>1, <2>1 DEF Issued, CodeAccounts
  <2>3. code'[d].attempts = 0
    BY <1>2, <2>1 DEF NoCode
  <2>4. QED
    BY <1>2, <2>1, <2>2, <2>3, ConstantsAssumption
<1>6. ASSUME NEW d \in CodeIds, AgeCode(d)
      PROVE  code'[c].attempts >= code[c].attempts
  <2>1. code'[c].attempts = code[c].attempts
    BY <1>2, <1>6 DEF AgeCode, Codes
  <2>2. QED
    BY <1>2, <2>1, ConstantsAssumption
<1>7. ASSUME NEW r \in Requests, ExpireCode(r)
      PROVE  code'[c].attempts >= code[c].attempts
  <2>1. code'[c].attempts = code[c].attempts
    BY <1>2, <1>7 DEF ExpireCode, Codes
  <2>2. QED
    BY <1>2, <2>1, ConstantsAssumption
\* The guard of the update compares the counter with the one it was read as.
<1>8. ASSUME NEW r \in Requests, CountMiss(r)
      PROVE  code'[c].attempts >= code[c].attempts
  <2>1. \/ code'[c].attempts = code[c].attempts
        \/ code'[c].attempts = code[c].attempts + 1
    BY <1>2, <1>8 DEF CountMiss, AfterMiss, Codes
  <2>2. QED
    BY <1>2, <2>1, ConstantsAssumption
<1>9. ASSUME NEW r \in Requests, RedeemCode(r)
      PROVE  code'[c].attempts >= code[c].attempts
  <2>1. code'[c].attempts = code[c].attempts
    BY <1>2, <1>9 DEF RedeemCode, Codes
  <2>2. QED
    BY <1>2, <2>1, ConstantsAssumption
<1>10. ASSUME NEW r \in Requests, SessionStep(r)
       PROVE  UNCHANGED code
  BY <1>10 DEF SessionStep, Login, IssueTokens, KillSessions, RotateToken,
     ResolveActor, RevokeToken, CommitChange, ReadRefreshToken,
     ReadLogoutToken, ReadPasswordHash
<1>11. ASSUME NEW r \in Requests, MembershipStep(r)
       PROVE  UNCHANGED code \/ ConsumeLiveCodes
  BY <1>11 DEF MembershipStep, ReadMembership, WriteMembership,
     ForceResetPassword, BurnCodes
<1>12. ASSUME NEW r \in Requests, ResetStep(r)
       PROVE  code'[c].attempts >= code[c].attempts
  <2>1. CASE RequestReset(r) \/ CheckCooldown(r) \/ ResetPassword(r) \/ FindCode(r)
    <3>1. UNCHANGED code
      BY <2>1 DEF RequestReset, CheckCooldown, ResetPassword, FindCode
    <3>2. QED
      BY <1>3, <3>1
  <2>2. CASE ConsumeEarlierCodes(r)
    BY <1>4, <2>2 DEF ConsumeEarlierCodes
  <2>3. QED
    BY <1>5, <1>7, <1>8, <1>9, <1>12, <2>1, <2>2 DEF ResetStep
<1>13. CASE \/ Deactivate \/ Activate \/ RevokeAllSessions({})
            \/ \E s \in SessionIds :
                 RevokeSession(s) \/ ExpireSession(s) \/ RevokeAllSessions({s})
  <2>1. UNCHANGED code
    BY <1>13 DEF Deactivate, Activate, RevokeAllSessions, RevokeSession, ExpireSession
  <2>2. QED
    BY <1>3, <2>1
<1>14. QED
  BY <1>3, <1>4, <1>6, <1>10, <1>11, <1>12, <1>13 DEF Next

\* Whatever counters overlapping requests have read, the attempts counted on a
\* code only grow (the optimistic guard of resetPassword()).
THEOREM AttemptsOnlyGrow == Spec => AttemptsNeverGoBack
<1>1. TypeInv /\ [Next]_vars =>
        [\A c \in CodeIds : code'[c].attempts >= code[c].attempts]_vars
  BY AttemptsStep
<1>2. QED
  BY <1>1, TypeInit, TypeStep, PTL DEF Spec, AttemptsNeverGoBack

-----------------------------------------------------------------------------
LEMMA ChainInit == Init => ChainInv
BY DEF Init, ChainInv, OneLiveSessionPerLogin, Unrevoked, Carries, NoSession, Idle

(* A step in which sessions only end and no request takes a chain over keeps *)
(* the chains as they are.                                                   *)
LEMMA ChainsOnlyEnd ==
  ASSUME ChainInv, SessionsOnlyEnd,
         \A r \in Requests, login \in SessionIds : Carries(r, login)' => Carries(r, login)
  PROVE  ChainInv'
<1>1. \A s \in SessionIds : Unrevoked(s)' => Unrevoked(s)
  BY DEF SessionsOnlyEnd, Unrevoked
<1>2. OneLiveSessionPerLogin'
  BY <1>1 DEF ChainInv, SessionsOnlyEnd, OneLiveSessionPerLogin
<1>3. \A s \in SessionIds : Unrevoked(s) => session[s].login \in SessionIds
  BY DEF ChainInv, Unrevoked
<1>4. ASSUME NEW r \in Requests, NEW s \in SessionIds, Unrevoked(s)'
      PROVE  ~Carries(r, session[s].login)'
  <2>1. session'[s].login = session[s].login /\ session[s].login \in SessionIds
    BY <1>1, <1>3, <1>4 DEF SessionsOnlyEnd
  <2>2. ~Carries(r, session[s].login)
    BY <1>1, <1>4 DEF ChainInv
  <2>3. QED
    BY <2>1, <2>2 DEF Carries
<1>5. \A s \in SessionIds : session'[s].state # "none" =>
        /\ session'[s].login \in SessionIds
        /\ session'[session'[s].login].state # "none"
  BY DEF ChainInv, SessionsOnlyEnd
<1>6. \A r, q \in Requests, login \in SessionIds :
        Carries(r, login)' /\ Carries(q, login)' => r = q
  BY DEF ChainInv
<1>7. QED
  BY <1>2, <1>4, <1>5, <1>6 DEF ChainInv

\* A request that goes on to this state takes no chain over.
TakesNone(next) == next.pc \notin {"resolve", "issue"} \/ next.session = 0

LEMMA CarriersStay ==
  ASSUME TypeInv, NEW r \in Requests, NEW next \in RequestStates, Moves(r, next),
         SessionsOnlyEnd
  PROVE  \A q \in Requests, login \in SessionIds :
           q # r /\ Carries(q, login)' => Carries(q, login)
<1>1. TypeOK
  BY DEF TypeInv
<1>2. \A q \in Requests : q # r => req'[q] = req[q]
  BY <1>1, MoveType
<1>3. \A q \in Requests : req[q].session \in {0} \union SessionIds
  BY <1>1 DEF TypeOK, RequestStates
<1>4. QED
  BY <1>2, <1>3 DEF Carries, SessionsOnlyEnd

LEMMA ChainRequestStep ==
  ASSUME TypeInv, ChainInv, NEW r \in Requests, NEW next \in RequestStates,
         Moves(r, next), SessionsOnlyEnd, TakesNone(next)
  PROVE  ChainInv'
<1>1. req'[r] = next
  BY MoveType DEF TypeInv
<1>2. \A login \in SessionIds : ~Carries(r, login)'
  BY <1>1 DEF Carries, TakesNone
<1>3. QED
  BY <1>2, CarriersStay, ChainsOnlyEnd

\* The request that flips the row takes its chain over.
LEMMA ChainRotate ==
  ASSUME TypeInv, ChainInv, NEW r \in Requests, RotateToken(r)
  PROVE  ChainInv'
<1> DEFINE s == req[r].session
           next == [req[r] EXCEPT !.pc = "resolve"]
<1>1. TypeOK /\ NamesRows(req[r]) /\ req[r] \in RequestStates
  BY DEF TypeInv, NamesARow, TypeOK
<1>2. s \in SessionIds /\ session[s].state # "none"
  BY <1>1 DEF RotateToken, NamesRows, SessionIds
<1>3. CASE ~Unrevoked(s)
  BY <1>1, <1>3, IdleType, UnchangedEnds, ChainRequestStep
  DEF RotateToken, Finish, Continue, Moves, TakesNone
<1>4. CASE Unrevoked(s)
  <2>1. next \in RequestStates /\ Moves(r, next)
    BY <1>1, <1>4 DEF RotateToken, Continue, Moves, RequestStates, Phases
  <2>2. SessionsOnlyEnd /\ session'[s].state = "revoked"
    BY <1>1, <1>2, <1>4, RevokeEnds DEF RotateToken
  <2>3. \A q \in Requests, login \in SessionIds :
          q # r /\ Carries(q, login)' => Carries(q, login)
    BY <2>1, <2>2, CarriersStay
  <2>4. \A login \in SessionIds : Carries(r, login)' => login = session[s].login
    <3>1. req'[r] = next /\ next.session = s
      BY <1>1, <2>1, MoveType DEF RequestStates
    <3>2. QED
      BY <1>2, <2>2, <3>1 DEF Carries, SessionsOnlyEnd
  <2>5. \A u \in SessionIds : Unrevoked(u)' => Unrevoked(u) /\ u # s
    BY <2>2 DEF SessionsOnlyEnd, Unrevoked
  <2>6. \A u \in SessionIds : session'[u].login = session[u].login
    BY <2>2 DEF SessionsOnlyEnd
  <2>7. \A u \in SessionIds : session'[u].state # "none" =>
          session'[u].login \in SessionIds /\ session'[session'[u].login].state # "none"
    BY <2>2 DEF ChainInv, SessionsOnlyEnd
  <2>8. OneLiveSessionPerLogin'
    BY <2>5, <2>6 DEF ChainInv, OneLiveSessionPerLogin
  <2>9. ASSUME NEW q \in Requests, NEW u \in SessionIds, Unrevoked(u)'
        PROVE  ~Carries(q, session[u].login)'
    <3>1. session[u].login \in SessionIds /\ session'[u].login = session[u].login
      BY <2>5, <2>6, <2>9 DEF ChainInv, Unrevoked
    <3>2. session[u].login # session[s].login
      BY <1>2, <1>4, <2>5, <2>9 DEF ChainInv, OneLiveSessionPerLogin
    <3>3. ~Carries(q, session[u].login)
      BY <2>5, <2>9 DEF ChainInv
    <3>4. \A login \in SessionIds :
            login = session[u].login => ~Carries(q, login)'
      BY <2>3, <2>4, <3>2, <3>3
    <3>5. QED
      BY <3>1, <3>4 DEF Carries
  <2>10. ASSUME NEW p \in Requests, NEW q \in Requests, NEW login \in SessionIds,
                Carries(p, login)', Carries(q, login)'
         PROVE  p = q
    <3>1. ~Carries(p, session[s].login) /\ ~Carries(q, session[s].login)
      BY <1>2, <1>4 DEF ChainInv
    <3>2. QED
      BY <2>3, <2>4, <2>10, <3>1 DEF ChainInv
  <2>11. QED
    BY <2>7, <2>8, <2>9, <2>10 DEF ChainInv
<1>5. QED
  BY <1>3, <1>4

\* The request that carries a chain on inserts the chain's next session; a
\* login inserts the first of a chain that nothing belongs to yet.
LEMMA ChainIssue ==
  ASSUME TypeInv, ChainInv, NEW r \in Requests, IssueTokens(r)
  PROVE  ChainInv'
<1> DEFINE p == req[r].session
<1>1. TypeOK /\ NamesRows(req[r]) /\ p \in {0} \union SessionIds /\ req[r].pc = "issue"
  BY DEF TypeInv, NamesARow, TypeOK, RequestStates, IssueTokens, Finish, Continue
<1>2. PICK s \in SessionIds :
        /\ session[s].state = "none"
        /\ session' = [session EXCEPT ![s] =
             [state |-> "live", login |-> IF p = 0 THEN s ELSE session[p].login]]
  BY DEF IssueTokens
<1> DEFINE new == IF p = 0 THEN s ELSE session[p].login
<1>3. /\ session'[s].state = "live" /\ session'[s].login = new
      /\ \A u \in SessionIds : u # s => session'[u] = session[u]
  BY <1>1, <1>2 DEF TypeOK
<1>4. p # 0 => /\ p \in SessionIds /\ session[p].state # "none"
               /\ session[p].login \in SessionIds
               /\ session[session[p].login].state # "none"
               /\ Carries(r, session[p].login)
  BY <1>1 DEF NamesRows, ChainInv, Carries
<1>5. \A u \in SessionIds : session[u].state # "none" =>
        /\ u # s /\ session[u].login \in SessionIds /\ session[u].login # s
        /\ session'[u] = session[u]
  BY <1>2, <1>3 DEF ChainInv
<1>6. new \in SessionIds
  BY <1>4
\* Nothing else is of the new session's chain.
<1>7. \A u \in SessionIds : Unrevoked(u) => session[u].login # new
  <2>1. CASE p = 0
    BY <1>5, <2>1 DEF Unrevoked
  <2>2. CASE p # 0
    BY <1>4, <2>2 DEF ChainInv
  <2>3. QED
    BY <2>1, <2>2
<1>8. \A u \in SessionIds : Unrevoked(u)' => u = s \/ Unrevoked(u)
  BY <1>3 DEF Unrevoked
<1>9. req'[r].pc = "idle" /\ \A q \in Requests : q # r => req'[q] = req[q]
  BY <1>1, IdleType, MoveType DEF IssueTokens, Finish, Continue, Moves
<1>10. \A q \in Requests, login \in SessionIds :
         Carries(q, login)' => q # r /\ Carries(q, login)
  <2> SUFFICES ASSUME NEW q \in Requests, NEW login \in SessionIds, Carries(q, login)'
               PROVE  q # r /\ Carries(q, login)
    OBVIOUS
  <2>1. q # r /\ req'[q] = req[q]
    BY <1>9 DEF Carries
  <2>2. /\ req[q].session \in SessionIds /\ session[req[q].session].state # "none"
        /\ req[q].pc \in {"resolve", "issue"}
    BY <1>1, <2>1 DEF Carries, TypeInv, NamesARow, NamesRows, TypeOK, RequestStates
  <2>3. QED
    BY <1>5, <2>1, <2>2 DEF Carries
<1>11. ASSUME NEW q \in Requests, NEW login \in SessionIds, login = new
       PROVE  ~Carries(q, login)'
  <2> SUFFICES ASSUME Carries(q, login), q # r PROVE FALSE
    BY <1>10
  <2>1. CASE p = 0
    <3>1. /\ req[q].session \in SessionIds /\ session[req[q].session].state # "none"
          /\ session[req[q].session].login = s
      BY <1>1, <1>11, <2>1
      DEF Carries, TypeInv, NamesARow, NamesRows, TypeOK, RequestStates
    <3>2. QED
      BY <1>5, <3>1
  <2>2. CASE p # 0
    BY <1>4, <1>11, <2>2 DEF ChainInv
  <2>3. QED
    BY <2>1, <2>2
<1>12. \A u \in SessionIds : session'[u].state # "none" =>
         session'[u].login \in SessionIds /\ session'[session'[u].login].state # "none"
  BY <1>3, <1>4, <1>5, <1>6 DEF ChainInv
<1>13. OneLiveSessionPerLogin'
  <2> SUFFICES ASSUME NEW u \in SessionIds, NEW v \in SessionIds, Unrevoked(u)',
                      Unrevoked(v)', session'[u].login = session'[v].login
               PROVE  u = v
    BY DEF OneLiveSessionPerLogin
  <2>1. CASE u = s \/ v = s
    BY <1>3, <1>7, <1>8, <2>1
  <2>2. CASE u # s /\ v # s
    BY <1>3, <1>8, <2>2 DEF ChainInv, OneLiveSessionPerLogin
  <2>3. QED
    BY <2>1, <2>2
<1>14. ASSUME NEW q \in Requests, NEW u \in SessionIds, Unrevoked(u)'
       PROVE  ~Carries(q, session[u].login)'
  <2>1. CASE u = s
    <3>1. \A login \in SessionIds : login = new => ~Carries(q, login)'
      BY <1>11
    <3>2. QED
      BY <1>3, <1>6, <2>1, <3>1 DEF Carries
  <2>2. CASE u # s
    <3>1. Unrevoked(u) /\ session'[u] = session[u] /\ session[u].login \in SessionIds
      BY <1>5, <1>8, <1>14, <2>2 DEF Unrevoked
    <3>2. \A login \in SessionIds : login = session[u].login => ~Carries(q, login)'
      BY <1>10, <3>1 DEF ChainInv
    <3>3. QED
      BY <3>1, <3>2 DEF Carries
  <2>3. QED
    BY <2>1, <2>2
<1>15. \A a, b \in Requests, login \in SessionIds :
         Carries(a, login)' /\ Carries(b, login)' => a = b
  BY <1>10 DEF ChainInv
<1>16. QED
  BY <1>12, <1>13, <1>14, <1>15 DEF ChainInv

LEMMA ChainResolve ==
  ASSUME TypeInv, ChainInv, NEW r \in Requests, ResolveActor(r)
  PROVE  ChainInv'
<1>1. TypeOK /\ req[r] \in RequestStates /\ SessionsOnlyEnd
  BY UnchangedEnds DEF TypeInv, TypeOK, ResolveActor
<1>2. PICK next \in RequestStates :
        /\ Moves(r, next)
        /\ next.pc = "idle" \/ (next.session = req[r].session /\ req[r].pc = "resolve")
  <2>1. CASE active
    BY <1>1, <2>1 DEF ResolveActor, Continue, Moves, RequestStates, Phases
  <2>2. CASE ~active
    BY <2>2, IdleType DEF ResolveActor, Finish, Continue, Moves
  <2>3. QED
    BY <2>1, <2>2
<1>3. req'[r] = next
  BY <1>1, <1>2, MoveType
<1>4. \A login \in SessionIds : Carries(r, login)' => Carries(r, login)
  BY <1>2, <1>3 DEF Carries, ResolveActor
<1>5. QED
  BY <1>1, <1>2, <1>4, CarriersStay, ChainsOnlyEnd

\* Every other step of a request ends sessions at most.
LEMMA ChainOtherRequest ==
  ASSUME TypeInv, ChainInv, NEW r \in Requests,
         SessionStep(r) \/ MembershipStep(r) \/ ResetStep(r),
         ~RotateToken(r), ~IssueTokens(r), ~ResolveActor(r)
  PROVE  ChainInv'
<1> USE DEF Begin, Continue, Finish, Moves
<1>1. TypeOK /\ NamesRows(req[r])
  BY DEF TypeInv, NamesARow
<1>2. TakesNone(Idle) /\ Idle \in RequestStates
  BY IdleType DEF TakesNone
<1>3. ASSUME NEW phase \in Phases
      PROVE  /\ At(phase) \in RequestStates /\ TakesNone(At(phase))
             /\ \A s \in SessionIds : [At(phase) EXCEPT !.session = s] \in RequestStates
             /\ phase \notin {"resolve", "issue"} =>
                  \A s \in SessionIds : TakesNone([At(phase) EXCEPT !.session = s])
  <2>1. At(phase) \in RequestStates /\ At(phase).pc = phase /\ At(phase).session = 0
    BY PhaseType
  <2>2. QED
    BY <2>1, WithSession DEF TakesNone
<1>4. CASE SessionStep(r)
  <2>1. CASE Login(r)
    BY <1>1, <1>3, <2>1, UnchangedEnds, ChainRequestStep DEF Login, Phases
  <2>2. CASE KillSessions(r)
    BY <1>1, <1>2, <2>2, RevokeAllButEnds, ChainRequestStep DEF KillSessions
  <2>3. CASE RevokeToken(r)
    <3>1. req[r].session \in SessionIds /\ session[req[r].session].state # "none"
      BY <1>1, <2>3 DEF RevokeToken, NamesRows, SessionIds
    <3>2. QED
      BY <1>1, <1>2, <2>3, <3>1, RevokeEnds, ChainRequestStep DEF RevokeToken
  <2>4. CASE CommitChange(r)
    BY <1>1, <1>2, <2>4, RevokeAllButEnds, ChainRequestStep DEF CommitChange
  <2>5. ASSUME NEW s \in SessionIds, ReadRefreshToken(r, s) PROVE ChainInv'
    <3>1. PICK next \in RequestStates : Moves(r, next) /\ TakesNone(next)
      BY <1>3, <2>5 DEF ReadRefreshToken, Phases
    <3>2. QED
      BY <1>1, <2>5, <3>1, UnchangedEnds, ChainRequestStep DEF ReadRefreshToken
  <2>6. ASSUME NEW s \in SessionIds, ReadLogoutToken(r, s) PROVE ChainInv'
    <3>1. PICK next \in RequestStates : Moves(r, next) /\ TakesNone(next)
      BY <1>3, <2>6 DEF ReadLogoutToken, Phases
    <3>2. QED
      BY <1>1, <2>6, <3>1, UnchangedEnds, ChainRequestStep DEF ReadLogoutToken
  <2>7. ASSUME NEW s \in SessionIds, ReadPasswordHash(r, s) PROVE ChainInv'
    <3>1. PICK next \in RequestStates : Moves(r, next) /\ TakesNone(next)
      BY <1>3, <2>7 DEF ReadPasswordHash, Phases
    <3>2. QED
      BY <1>1, <2>7, <3>1, UnchangedEnds, ChainRequestStep DEF ReadPasswordHash
  <2>8. QED
    BY <1>4, <2>1, <2>2, <2>3, <2>4, <2>5, <2>6, <2>7 DEF SessionStep
<1>5. CASE MembershipStep(r)
  <2>1. ASSUME NEW op \in DOMAIN Target, ReadMembership(r, op) PROVE ChainInv'
    <3>1. op \in Phases
      BY DEF Target, Phases
    <3>2. QED
      BY <1>1, <1>3, <2>1, <3>1, UnchangedEnds, ChainRequestStep DEF ReadMembership
  <2>2. ASSUME NEW op \in DOMAIN Target, WriteMembership(r, op) PROVE ChainInv'
    <3>1. SessionsOnlyEnd
      BY <1>1, <2>2, RevokeAllButEnds, UnchangedEnds DEF WriteMembership
    <3>2. QED
      BY <1>2, <2>2, <3>1, ChainRequestStep DEF WriteMembership
  <2>3. CASE ForceResetPassword(r)
    BY <1>1, <1>3, <2>3, RevokeAllButEnds, ChainRequestStep
    DEF ForceResetPassword, Phases
  <2>4. CASE BurnCodes(r)
    BY <1>1, <1>2, <2>4, UnchangedEnds, ChainRequestStep DEF BurnCodes
  <2>5. QED
    BY <1>5, <2>1, <2>2, <2>3, <2>4 DEF MembershipStep
<1>6. CASE ResetStep(r)
  <2>1. SessionsOnlyEnd
    BY <1>1, <1>6, RevokeAllButEnds, UnchangedEnds
    DEF ResetStep, RequestReset, CheckCooldown, ConsumeEarlierCodes, CreateCode,
        ResetPassword, FindCode, ExpireCode, CountMiss, RedeemCode
  <2>2. CASE FindCode(r)
    <3>1. ASSUME NEW c \in LiveCodes, NEW phase \in {"expire", "miss", "redeem"}
          PROVE  LET next == [At(phase) EXCEPT !.code = c, !.attempts = code[c].attempts]
                 IN  next \in RequestStates /\ TakesNone(next)
      <4>1. At(phase) \in RequestStates /\ At(phase).pc = phase
        BY PhaseType DEF Phases
      <4>2. c \in CodeIds /\ code[c].attempts \in 0 .. MaxAttempts
        BY <1>1 DEF TypeOK, LiveCodes, Codes
      <4>3. QED
        BY <4>1, <4>2 DEF RequestStates, TakesNone
    <3>2. PICK next \in RequestStates : Moves(r, next) /\ TakesNone(next)
      BY <1>2, <2>2, <3>1 DEF FindCode
    <3>3. QED
      BY <2>1, <3>2, ChainRequestStep
  <2>3. CASE ~FindCode(r)
    <3>1. PICK next \in RequestStates : Moves(r, next) /\ TakesNone(next)
      BY <1>2, <1>3, <1>6, <2>3
      DEF ResetStep, RequestReset, CheckCooldown, ConsumeEarlierCodes, CreateCode,
          ResetPassword, ExpireCode, CountMiss, RedeemCode, Phases
    <3>2. QED
      BY <2>1, <3>1, ChainRequestStep
  <2>4. QED
    BY <2>2, <2>3
<1>7. QED
  BY <1>4, <1>5, <1>6

LEMMA ChainStep == TypeInv /\ ChainInv /\ [Next]_vars => ChainInv'
<1> SUFFICES ASSUME TypeInv, ChainInv, [Next]_vars PROVE ChainInv'
  OBVIOUS
<1>1. TypeOK
  BY DEF TypeInv
<1>2. ASSUME SessionsOnlyEnd, UNCHANGED req PROVE ChainInv'
  <2>1. \A r \in Requests : req[r].session \in {0} \union SessionIds
    BY <1>1 DEF TypeOK, RequestStates
  <2>2. QED
    BY <1>2, <2>1, ChainsOnlyEnd DEF Carries, SessionsOnlyEnd
<1>3. ASSUME NEW r \in Requests, SessionStep(r) \/ MembershipStep(r) \/ ResetStep(r)
      PROVE  ChainInv'
  BY <1>3, ChainRotate, ChainIssue, ChainResolve, ChainOtherRequest
<1>4. ASSUME NEW s \in SessionIds, RevokeSession(s) \/ ExpireSession(s) PROVE ChainInv'
  <2>1. CASE RevokeSession(s)
    BY <1>1, <1>2, <2>1, RevokeEnds DEF RevokeSession, Unrevoked
  <2>2. CASE ExpireSession(s)
    <3>1. SessionsOnlyEnd
      BY <1>1, <2>2 DEF ExpireSession, TypeOK, SessionsOnlyEnd, Sessions, Unrevoked
    <3>2. QED
      BY <1>2, <2>2, <3>1 DEF ExpireSession
  <2>3. QED
    BY <1>4, <2>1, <2>2
<1>5. ASSUME NEW spared, RevokeAllSessions(spared) PROVE ChainInv'
  BY <1>1, <1>2, <1>5, RevokeAllButEnds DEF RevokeAllSessions
<1>6. CASE Deactivate \/ Activate
  BY <1>1, <1>2, <1>6, RevokeAllButEnds, UnchangedEnds DEF Deactivate, Activate
<1>7. ASSUME NEW c \in CodeIds, AgeCode(c) PROVE ChainInv'
  BY <1>1, <1>2, <1>7, UnchangedEnds DEF AgeCode
<1>8. CASE UNCHANGED vars
  BY <1>1, <1>2, <1>8, UnchangedEnds DEF vars
<1>9. QED
  BY <1>3, <1>4, <1>5, <1>6, <1>7, <1>8 DEF Next

\* Whatever refreshes, logouts and revocations overlap, a login has at most
\* one unrevoked session at its end (the conditional revoke of refresh()).
THEOREM OneSessionPerLogin == Spec => []OneLiveSessionPerLogin
<1>1. ChainInv => OneLiveSessionPerLogin
  BY DEF ChainInv
<1>2. QED
  BY <1>1, TypeInit, TypeStep, ChainInit, ChainStep, PTL DEF Spec

\* A reset code sets one password at most and is gone with its last attempt,
\* however many requests of resetPassword() have found it live.
THEOREM CodesOpenOnce == Spec => []CodesAreOneShot
<1>1. CodeRedeemedOnce /\ SpentCodeIsConsumed => CodesAreOneShot
  BY DEF CodesAreOneShot
<1>2. QED
  BY <1>1, CodeIsRedeemedOnce, SpentCodeIsGone, PTL

-----------------------------------------------------------------------------
(* What races leave behind                                                   *)

Issuing == {r \in Requests : req[r].pc = "issue" /\ ~active}
Creating == {r \in Requests : req[r].pc = "create"}

LEMMA RequestSets ==
  ASSUME NEW S \in SUBSET Requests
  PROVE  /\ IsFiniteSet(S) /\ Cardinality(S) \in Nat
         /\ Cardinality(Requests) \in Nat /\ Cardinality(S) <= Cardinality(Requests)
         /\ \A T \in SUBSET S : Cardinality(T) <= Cardinality(S)
         /\ \A r \in S : Cardinality(S \ {r}) = Cardinality(S) - 1
<1>1. /\ IsFiniteSet(S) /\ Cardinality(S) <= Cardinality(Requests)
      /\ Cardinality(S) \in Nat /\ Cardinality(Requests) \in Nat
  BY ConstantsAssumption, FS_Subset, FS_CardinalityType
<1>2. \A T \in SUBSET S : Cardinality(T) <= Cardinality(S)
  BY <1>1, FS_Subset
<1>3. \A r \in S : Cardinality(S \ {r}) = Cardinality(S) - 1
  BY <1>1, FS_RemoveElement
<1>4. QED
  BY <1>1, <1>2, <1>3

\* The phases a reset request goes through.
ResetPhases == {"idle", "cooldown", "consume", "create", "find", "expire", "miss", "redeem"}

LEMMA FindMoves ==
  ASSUME TypeOK, NEW r \in Requests, FindCode(r)
  PROVE  \E next \in RequestStates :
           Moves(r, next) /\ next.pc \in {"idle", "expire", "miss", "redeem"}
<1> USE DEF Continue, Finish, Moves
<1>1. ASSUME NEW c \in LiveCodes, NEW phase \in {"expire", "miss", "redeem"},
             Continue(r, "find", [At(phase) EXCEPT !.code = c, !.attempts = code[c].attempts])
      PROVE  \E next \in RequestStates :
               Moves(r, next) /\ next.pc \in {"expire", "miss", "redeem"}
  <2> DEFINE next == [At(phase) EXCEPT !.code = c, !.attempts = code[c].attempts]
  <2>1. c \in CodeIds /\ code[c].attempts \in 0 .. MaxAttempts
    BY DEF TypeOK, LiveCodes, Codes
  <2>2. At(phase) \in RequestStates /\ At(phase).pc = phase
    BY PhaseType DEF Phases
  <2>3. next \in RequestStates /\ next.pc = phase
    BY <2>1, <2>2 DEF RequestStates
  <2>4. QED
    BY <1>1, <2>3
<1>2. CASE LiveCodes = {} /\ Finish(r, "find")
  BY <1>2, IdleType
<1>3. CASE ~(LiveCodes = {} /\ Finish(r, "find"))
  <2>1. PICK next \in RequestStates :
               Moves(r, next) /\ next.pc \in {"expire", "miss", "redeem"}
    BY <1>1, <1>3 DEF FindCode
  <2>2. QED
    BY <2>1
<1>4. QED
  BY <1>2, <1>3

LEMMA ResetMoves ==
  ASSUME TypeOK, NEW r \in Requests, ResetStep(r)
  PROVE  \E next \in RequestStates :
           /\ Moves(r, next) /\ next.pc \in ResetPhases
           /\ next.pc = "create" => ConsumeEarlierCodes(r)
<1> USE DEF Begin, Continue, Finish, Moves
<1>1. Idle \in RequestStates /\ Idle.pc = "idle"
  BY IdleType
<1>2. \A phase \in Phases : At(phase) \in RequestStates /\ At(phase).pc = phase
  BY PhaseType
<1>3. CASE RequestReset(r) \/ ResetPassword(r)
  BY <1>2, <1>3 DEF RequestReset, ResetPassword, Phases, ResetPhases
<1>4. CASE CheckCooldown(r)
  BY <1>1, <1>2, <1>4 DEF CheckCooldown, Phases, ResetPhases
<1>5. CASE ConsumeEarlierCodes(r)
  BY <1>2, <1>5 DEF ConsumeEarlierCodes, Phases, ResetPhases
<1>6. CASE CreateCode(r) \/ ExpireCode(r) \/ CountMiss(r) \/ RedeemCode(r)
  <2>1. req' = [req EXCEPT ![r] = Idle]
    BY <1>6 DEF CreateCode, ExpireCode, CountMiss, RedeemCode
  <2>2. QED
    BY <1>1, <2>1 DEF ResetPhases
<1>7. CASE FindCode(r)
  BY <1>7, FindMoves DEF ResetPhases
<1>8. QED
  BY <1>3, <1>4, <1>5, <1>6, <1>7 DEF ResetStep

\* Only an account that was found active has a session inserted for it.
LEMMA IssuersCome ==
  ASSUME TypeOK, [Next]_vars, NEW q \in Requests, req'[q].pc = "issue", req[q].pc # "issue"
  PROVE  active /\ active'
<1> USE DEF Begin, Continue, Finish
<1>1. \A phase \in Phases : At(phase).pc = phase
  BY DEF At, Idle
<1>2. Idle.pc # "issue"
  BY DEF Idle
<1>3. ASSUME NEW r \in Requests, SessionStep(r) PROVE active /\ active'
  <2>1. CASE Login(r) \/ ResolveActor(r)
    BY <1>2, <2>1 DEF Login, ResolveActor, memberVars, TypeOK
  <2>2. CASE RotateToken(r)
    <3>1. [req[r] EXCEPT !.pc = "resolve"].pc # "issue"
      BY DEF TypeOK, RequestStates
    <3>2. QED
      BY <1>2, <2>2, <3>1 DEF RotateToken, TypeOK
  <2>3. CASE \E s \in SessionIds :
               ReadRefreshToken(r, s) \/ ReadLogoutToken(r, s) \/ ReadPasswordHash(r, s)
    <3>1. \A s \in SessionIds : \A phase \in {"rotate", "logout", "change"} :
            [At(phase) EXCEPT !.session = s].pc # "issue"
      BY DEF At, Idle
    <3>2. At("kill").pc # "issue"
      BY DEF At, Idle
    <3>3. QED
      BY <2>3, <3>1, <3>2 DEF ReadRefreshToken, ReadLogoutToken, ReadPasswordHash, TypeOK
  <2>4. CASE IssueTokens(r) \/ KillSessions(r) \/ RevokeToken(r) \/ CommitChange(r)
    BY <1>2, <2>4 DEF IssueTokens, KillSessions, RevokeToken, CommitChange, TypeOK
  <2>5. QED
    BY <1>3, <2>1, <2>2, <2>3, <2>4 DEF SessionStep
<1>4. ASSUME NEW r \in Requests, MembershipStep(r) PROVE FALSE
  <2>1. \A op \in DOMAIN Target : At(op).pc # "issue"
    BY DEF At, Idle, Target
  <2>2. At("burn").pc # "issue"
    BY DEF At, Idle
  <2>3. QED
    BY <1>2, <1>4, <2>1, <2>2
    DEF MembershipStep, ReadMembership, WriteMembership, ForceResetPassword, BurnCodes, TypeOK
<1>5. ASSUME NEW r \in Requests, ResetStep(r) PROVE FALSE
  <2>1. PICK next \in RequestStates : Moves(r, next) /\ next.pc \in ResetPhases
    BY <1>5, ResetMoves
  <2>2. next.pc # "issue"
    BY <2>1 DEF ResetPhases
  <2>3. QED
    BY <2>1, <2>2, MoveType
<1>6. QED
  BY <1>3, <1>4, <1>5
  DEF Next, RevokeSession, ExpireSession, RevokeAllSessions, Deactivate, Activate, AgeCode, vars

\* Of the sessions inserted late each was some request's that is now done.
LEMMA LateMoves ==
  ASSUME TypeOK, [Next]_vars
  PROVE  \/ late' = 0
         \/ late' = late /\ (active' <=> active)
         \/ /\ late' = late + 1 /\ ~active /\ ~active'
            /\ \E r \in Requests : req[r].pc = "issue" /\ req'[r].pc # "issue"
<1> USE DEF memberVars
<1>1. ASSUME NEW r \in Requests, IssueTokens(r)
      PROVE  \/ late' = late /\ active' = active
             \/ /\ late' = late + 1 /\ ~active /\ ~active'
                /\ req[r].pc = "issue" /\ req'[r].pc # "issue"
  BY <1>1 DEF IssueTokens, Finish, Continue, Idle, TypeOK
<1>2. ASSUME NEW r \in Requests, SessionStep(r), ~IssueTokens(r)
      PROVE  late' = late /\ active' = active
  BY <1>2 DEF SessionStep, Login, KillSessions, RotateToken, ResolveActor, RevokeToken,
     CommitChange, ReadRefreshToken, ReadLogoutToken, ReadPasswordHash
<1>3. ASSUME NEW b \in BOOLEAN, SetActive(b)
      PROVE  late' = 0 \/ (late' = late /\ ~active /\ ~active')
  BY <1>3 DEF SetActive
<1>4. ASSUME NEW r \in Requests, MembershipStep(r)
      PROVE  late' = 0 \/ (late' = late /\ (active' <=> active))
  <2>1. ASSUME NEW op \in DOMAIN Target, WriteMembership(r, op)
        PROVE  late' = 0 \/ (late' = late /\ (active' <=> active))
    <3>1. (op \in {"approve", "unlock"}) \in BOOLEAN
      OBVIOUS
    <3>2. SetActive(op \in {"approve", "unlock"})
      BY <2>1 DEF WriteMembership
    <3>3. QED
      BY <1>3, <3>1, <3>2
  <2>2. QED
    BY <1>4, <2>1 DEF MembershipStep, ReadMembership, ForceResetPassword, BurnCodes
<1>5. ASSUME NEW r \in Requests, ResetStep(r)
      PROVE  late' = late /\ active' = active
  BY <1>5 DEF ResetStep, RequestReset, CheckCooldown, ConsumeEarlierCodes, CreateCode,
     ResetPassword, FindCode, ExpireCode, CountMiss, RedeemCode
<1>6. CASE Deactivate \/ Activate
  BY <1>3, <1>6 DEF Deactivate, Activate
<1>7. CASE UNCHANGED <<late, active>>
  BY <1>7
<1>8. QED
  BY <1>1, <1>2, <1>4, <1>5, <1>6, <1>7
  DEF Next, RevokeSession, ExpireSession, RevokeAllSessions, AgeCode, vars

LEMMA LateStep ==
  ASSUME TypeOK, LateSessionsAreBounded, [Next]_vars
  PROVE  LateSessionsAreBounded'
<1>1. Issuing \in SUBSET Requests /\ Issuing' \in SUBSET Requests
  BY DEF Issuing
<1>2. late \in Nat /\ late + Cardinality(Issuing) <= Cardinality(Requests)
  BY DEF TypeOK, LateSessionsAreBounded, Issuing
<1>3. SUFFICES late' + Cardinality(Issuing') <= Cardinality(Requests)
  BY DEF LateSessionsAreBounded, Issuing
<1>4. CASE late' = 0
  BY <1>1, <1>4, RequestSets
<1>5. ~active => Issuing' \subseteq Issuing
  BY IssuersCome DEF Issuing
<1>6. active' => Issuing' = {}
  BY DEF Issuing
<1>7. CASE late' = late /\ (active' <=> active)
  <2>1. Issuing' \in SUBSET Issuing
    BY <1>5, <1>6, <1>7
  <2>2. Cardinality(Issuing') <= Cardinality(Issuing)
    BY <1>1, <2>1, RequestSets
  <2>3. QED
    BY <1>1, <1>2, <1>7, <2>2, RequestSets
<1>8. ASSUME late' = late + 1, ~active, NEW r \in Requests,
             req[r].pc = "issue", req'[r].pc # "issue"
      PROVE  late' + Cardinality(Issuing') <= Cardinality(Requests)
  <2>1. r \in Issuing /\ Issuing' \in SUBSET (Issuing \ {r})
    BY <1>5, <1>8 DEF Issuing
  <2>2. Issuing \ {r} \in SUBSET Requests
    BY <1>1
  <2>3. Cardinality(Issuing') <= Cardinality(Issuing \ {r})
    BY <2>1, <2>2, RequestSets
  <2>4. Cardinality(Issuing \ {r}) = Cardinality(Issuing) - 1
    BY <1>1, <2>1, RequestSets
  <2>5. Cardinality(Issuing) \in Nat /\ Cardinality(Issuing') \in Nat
        /\ Cardinality(Requests) \in Nat
    BY <1>1, RequestSets
  <2>6. QED
    BY <1>2, <1>8, <2>3, <2>4, <2>5
<1>9. QED
  BY <1>4, <1>7, <1>8, LateMoves

\* A request that is to create a code has just consumed the live ones: the
\* live codes and these requests together are no more than the requests.
LiveInv == Cardinality(LiveCodes) + Cardinality(Creating) <= Cardinality(Requests)

LEMMA CodeSets ==
  /\ IsFiniteSet(LiveCodes) /\ Cardinality(LiveCodes) \in Nat
  /\ \A T \in SUBSET LiveCodes : Cardinality(T) <= Cardinality(LiveCodes)
  /\ \A c \in CodeIds : Cardinality(LiveCodes \union {c}) <= Cardinality(LiveCodes) + 1
<1>1. IsFiniteSet(CodeIds)
  BY ConstantsAssumption, FS_Interval DEF CodeIds
<1>2. IsFiniteSet(LiveCodes) /\ Cardinality(LiveCodes) \in Nat
  BY <1>1, FS_Subset, FS_CardinalityType DEF LiveCodes
<1>3. \A T \in SUBSET LiveCodes : Cardinality(T) <= Cardinality(LiveCodes)
  BY <1>2, FS_Subset
<1>4. \A c \in CodeIds : Cardinality(LiveCodes \union {c}) <= Cardinality(LiveCodes) + 1
  <2> SUFFICES ASSUME NEW c \in CodeIds
               PROVE  Cardinality(LiveCodes \union {c}) <= Cardinality(LiveCodes) + 1
    OBVIOUS
  <2>1. CASE c \in LiveCodes
    <3>1. LiveCodes \union {c} = LiveCodes
      BY <2>1
    <3>2. Cardinality(LiveCodes \union {c}) = Cardinality(LiveCodes)
      BY <3>1, Zenon
    <3>3. QED
      BY <1>2, <3>2
  <2>2. CASE c \notin LiveCodes
    <3>1. Cardinality(LiveCodes \union {c}) = Cardinality(LiveCodes) + 1
      BY <1>2, <2>2, FS_AddElement
    <3>2. QED
      BY <1>2, <3>1
  <2>3. QED
    BY <2>1, <2>2
<1>5. QED
  BY <1>2, <1>3, <1>4

\* How codes and the requests that are to create one come and go.
LEMMA LiveMoves ==
  ASSUME TypeInv, [Next]_vars
  PROVE  \/ LiveCodes' = {}
         \/ LiveCodes' \subseteq LiveCodes /\ Creating' \subseteq Creating
         \/ \E r \in Creating, c \in CodeIds :
              LiveCodes' = LiveCodes \union {c} /\ Creating' = Creating \ {r}
<1> USE DEF Begin, Continue, Finish, LiveCodes, Creating
<1>0. TypeOK /\ code \in [CodeIds -> Codes] /\ req \in [Requests -> RequestStates]
  BY DEF TypeInv, TypeOK
<1> DEFINE Fewer == LiveCodes' \subseteq LiveCodes /\ Creating' \subseteq Creating
<1>1. Idle.pc # "create" /\ \A phase \in Phases : At(phase).pc = phase
  BY DEF At, Idle
<1>2. ASSUME NEW r \in Requests, SessionStep(r) PROVE Fewer
  <2>1. UNCHANGED code
    BY <1>2 DEF SessionStep, Login, IssueTokens, KillSessions, RotateToken, ResolveActor,
       RevokeToken, CommitChange, ReadRefreshToken, ReadLogoutToken, ReadPasswordHash
  <2>2. \A s \in SessionIds : \A phase \in {"rotate", "logout", "change"} :
          [At(phase) EXCEPT !.session = s].pc # "create"
    BY DEF At, Idle
  <2>3. At("kill").pc # "create" /\ At("issue").pc # "create"
    BY DEF At, Idle
  <2>4. [req[r] EXCEPT !.pc = "resolve"].pc # "create" /\ [req[r] EXCEPT !.pc = "issue"].pc # "create"
    BY <1>0 DEF RequestStates
  <2>5. \A q \in Requests : q # r => req'[q] = req[q]
    BY <1>0, <1>2 DEF SessionStep, Login, IssueTokens, KillSessions, RotateToken, ResolveActor,
       RevokeToken, CommitChange, ReadRefreshToken, ReadLogoutToken, ReadPasswordHash
  <2>6. req'[r].pc # "create"
    BY <1>0, <1>1, <1>2, <2>2, <2>3, <2>4
    DEF SessionStep, Login, IssueTokens, KillSessions, RotateToken, ResolveActor,
       RevokeToken, CommitChange, ReadRefreshToken, ReadLogoutToken, ReadPasswordHash
  <2>7. QED
    BY <2>1, <2>5, <2>6
<1>3. ASSUME NEW r \in Requests, MembershipStep(r) PROVE Fewer
  <2>1. \A op \in DOMAIN Target : At(op).pc # "create"
    BY DEF At, Idle, Target
  <2>2. At("burn").pc # "create"
    BY DEF At, Idle
  <2>3. Creating' \subseteq Creating
    BY <1>0, <1>1, <1>3, <2>1, <2>2
    DEF MembershipStep, ReadMembership, WriteMembership, ForceResetPassword, BurnCodes
  <2>4. UNCHANGED code \/ ConsumeLiveCodes
    BY <1>3 DEF MembershipStep, ReadMembership, WriteMembership, ForceResetPassword, BurnCodes
  <2>5. LiveCodes' \subseteq LiveCodes
    BY <1>0, <2>4 DEF ConsumeLiveCodes, Codes
  <2>6. QED
    BY <2>3, <2>5
<1>4. ASSUME NEW r \in Requests, ConsumeEarlierCodes(r) PROVE LiveCodes' = {}
  BY <1>0, <1>4 DEF ConsumeEarlierCodes, ConsumeLiveCodes, Codes
<1>5. ASSUME NEW r \in Requests, CreateCode(r)
      PROVE  \E c \in CodeIds :
               r \in Creating /\ LiveCodes' = LiveCodes \union {c} /\ Creating' = Creating \ {r}
  <2>1. PICK c \in CodeIds : code' = [code EXCEPT ![c] = [NoCode EXCEPT !.state = "live"]]
    BY <1>5 DEF CreateCode
  <2>2. [NoCode EXCEPT !.state = "live"].state = "live"
    BY DEF NoCode
  <2>3. LiveCodes' = LiveCodes \union {c}
    BY <1>0, <2>1, <2>2
  <2>4. QED
    BY <1>0, <1>1, <1>5, <2>3 DEF CreateCode
<1>6. ASSUME NEW r \in Requests, ResetStep(r), ~ConsumeEarlierCodes(r), ~CreateCode(r)
      PROVE  Fewer
  <2>1. PICK next \in RequestStates : Moves(r, next) /\ next.pc # "create"
    BY <1>0, <1>6, ResetMoves
  <2>2. Creating' \subseteq Creating
    BY <1>0, <2>1, MoveType
  <2>3. CASE ExpireCode(r) \/ CountMiss(r) \/ RedeemCode(r)
    BY <1>0, <2>2, <2>3 DEF ExpireCode, CountMiss, AfterMiss, RedeemCode, Codes
  <2>4. CASE RequestReset(r) \/ CheckCooldown(r) \/ ResetPassword(r) \/ FindCode(r)
    <3>1. UNCHANGED code
      BY <2>4 DEF RequestReset, CheckCooldown, ResetPassword, FindCode
    <3>2. QED
      BY <2>2, <3>1
  <2>5. QED
    BY <1>6, <2>3, <2>4 DEF ResetStep
<1>7. ASSUME NEW c \in CodeIds, AgeCode(c) PROVE Fewer
  BY <1>0, <1>7 DEF AgeCode, Codes
<1>8. CASE UNCHANGED <<code, req>>
  BY <1>8
<1>9. QED
  BY <1>2, <1>3, <1>4, <1>5, <1>6, <1>7, <1>8
  DEF Next, RevokeSession, ExpireSession, RevokeAllSessions, Deactivate, Activate, vars

LEMMA LiveStep == TypeInv /\ LiveInv /\ [Next]_vars => LiveInv'
<1> SUFFICES ASSUME TypeInv, LiveInv, [Next]_vars PROVE LiveInv'
  OBVIOUS
<1>1. Creating \in SUBSET Requests /\ Creating' \in SUBSET Requests
  BY DEF Creating
<1>2. /\ Cardinality(Creating) \in Nat /\ Cardinality(Creating') \in Nat
      /\ Cardinality(Requests) \in Nat /\ Cardinality(LiveCodes) \in Nat
      /\ Cardinality(Creating') <= Cardinality(Requests)
  BY <1>1, RequestSets, CodeSets
<1>3. CASE LiveCodes' = {}
  <2>1. Cardinality(LiveCodes') = 0
    BY <1>3, FS_EmptySet
  <2>2. QED
    BY <1>2, <2>1 DEF LiveInv
<1>4. CASE LiveCodes' \subseteq LiveCodes /\ Creating' \subseteq Creating
  <2>1. Cardinality(LiveCodes') <= Cardinality(LiveCodes) /\ Cardinality(LiveCodes') \in Nat
    BY <1>4, CodeSets, FS_Subset, FS_CardinalityType
  <2>2. Cardinality(Creating') <= Cardinality(Creating)
    BY <1>1, <1>4, RequestSets
  <2>3. QED
    BY <1>2, <2>1, <2>2 DEF LiveInv
<1>5. ASSUME NEW r \in Creating, NEW c \in CodeIds,
             LiveCodes' = LiveCodes \union {c}, Creating' = Creating \ {r}
      PROVE  LiveInv'
  <2>1. Cardinality(LiveCodes') <= Cardinality(LiveCodes) + 1 /\ Cardinality(LiveCodes') \in Nat
    BY <1>5, CodeSets, FS_AddElement, FS_CardinalityType
  <2>2. Cardinality(Creating') = Cardinality(Creating) - 1
    BY <1>1, <1>5, RequestSets
  <2>3. QED
    BY <1>2, <2>1, <2>2 DEF LiveInv
<1>6. QED
  BY <1>3, <1>4, <1>5, LiveMoves

\* However requests overlap, what they leave behind is bounded by their number:
\* sessions inserted after the account was made inactive (lockUser(),
\* deactivate()), and reset codes that are live at once (requestReset()).
THEOREM RacesStayBounded == Spec => []RacesAreBounded
<1>1. Init => LateSessionsAreBounded /\ LiveInv
  <2> SUFFICES ASSUME Init PROVE LateSessionsAreBounded /\ LiveInv
    OBVIOUS
  <2>1. Issuing = {} /\ Creating = {} /\ LiveCodes = {}
    BY DEF Init, Issuing, Creating, LiveCodes, Idle, NoCode
  <2>2. Cardinality({}) = 0 /\ Cardinality(Requests) \in Nat
    BY ConstantsAssumption, FS_EmptySet, FS_CardinalityType
  <2>3. late = 0
    BY DEF Init
  <2>4. late + Cardinality(Issuing) <= Cardinality(Requests)
    BY <2>1, <2>2, <2>3
  <2>5. Cardinality(LiveCodes) + Cardinality(Creating) <= Cardinality(Requests)
    BY <2>1, <2>2
  <2>6. QED
    BY <2>4, <2>5 DEF LateSessionsAreBounded, Issuing, LiveInv
<1>2. TypeInv /\ LateSessionsAreBounded /\ LiveInv /\ [Next]_vars
        => LateSessionsAreBounded' /\ LiveInv'
  BY LateStep, LiveStep DEF TypeInv
<1>3. LateSessionsAreBounded /\ LiveInv => RacesAreBounded
  <2> SUFFICES ASSUME LateSessionsAreBounded, LiveInv PROVE RacesAreBounded
    OBVIOUS
  <2>1. Creating \in SUBSET Requests
    BY DEF Creating
  <2>2. Cardinality(Creating) \in Nat /\ Cardinality(Requests) \in Nat
        /\ Cardinality(LiveCodes) \in Nat
    BY <2>1, RequestSets, CodeSets
  <2>3. QED
    BY <2>2 DEF LiveInv, RacesAreBounded, LiveCodesAreBounded
<1>4. QED
  BY <1>1, <1>2, <1>3, TypeInit, TypeStep, PTL DEF Spec

-----------------------------------------------------------------------------
(* The pages of ResetPages over the account                                  *)

Asking == {"cooldown", "consume", "create"}
Entering == {"find", "expire", "miss", "redeem"}

\* What a step that is neither a code's nor a page's does to the requests.
OthersMove(r) ==
  /\ \A q \in Requests : q # r => req'[q] = req[q]
  /\ req[r].pc \notin Asking \union Entering
  /\ req'[r].pc \notin {"consume", "create", "expire", "miss", "redeem"}
  /\ req'[r].pc \in {"cooldown", "find"} => req[r].pc = "idle"

LEMMA SessionMoves ==
  ASSUME TypeOK, NEW r \in Requests, SessionStep(r)
  PROVE  OthersMove(r) /\ UNCHANGED code
<1> USE DEF Begin, Continue, Finish
<1> DEFINE Apart == Asking \union Entering
<1>0. req \in [Requests -> RequestStates]
  BY DEF TypeOK
<1>1. Idle.pc \notin Apart
  BY DEF Idle, Asking, Entering
<1>2. \A s \in SessionIds : \A phase \in {"rotate", "logout", "change"} :
        [At(phase) EXCEPT !.session = s].pc \notin Apart
  BY DEF At, Idle, Asking, Entering
<1>3. At("kill").pc \notin Apart /\ At("issue").pc \notin Apart
  BY DEF At, Idle, Asking, Entering
<1>4. [req[r] EXCEPT !.pc = "resolve"].pc \notin Apart /\ [req[r] EXCEPT !.pc = "issue"].pc \notin Apart
  BY <1>0 DEF RequestStates, Asking, Entering
<1>5. UNCHANGED code /\ \A q \in Requests : q # r => req'[q] = req[q]
  BY <1>0 DEF SessionStep, Login, IssueTokens, KillSessions, RotateToken, ResolveActor,
     RevokeToken, CommitChange, ReadRefreshToken, ReadLogoutToken, ReadPasswordHash
<1>6. req'[r].pc \notin Apart
  BY <1>0, <1>1, <1>2, <1>3, <1>4
  DEF SessionStep, Login, IssueTokens, KillSessions, RotateToken, ResolveActor,
      RevokeToken, CommitChange, ReadRefreshToken, ReadLogoutToken, ReadPasswordHash
<1>7. req[r].pc \notin Apart
  BY DEF Asking, Entering, SessionStep, Login, IssueTokens, KillSessions, RotateToken, ResolveActor,
     RevokeToken, CommitChange, ReadRefreshToken, ReadLogoutToken, ReadPasswordHash
<1>8. QED
  BY <1>5, <1>6, <1>7 DEF OthersMove, Asking, Entering

LEMMA MembershipMoves ==
  ASSUME TypeOK, NEW r \in Requests, MembershipStep(r)
  PROVE  OthersMove(r) /\ (UNCHANGED code \/ ConsumeLiveCodes)
<1> USE DEF Begin, Continue, Finish
<1> DEFINE Apart == Asking \union Entering
<1>0. req \in [Requests -> RequestStates]
  BY DEF TypeOK
<1>1. Idle.pc \notin Apart /\ At("burn").pc \notin Apart
  BY DEF At, Idle, Asking, Entering
<1>2. \A op \in DOMAIN Target : op \notin Apart /\ At(op).pc \notin Apart
  BY DEF At, Idle, Target, Asking, Entering
<1>3. (UNCHANGED code \/ ConsumeLiveCodes) /\ \A q \in Requests : q # r => req'[q] = req[q]
  BY <1>0 DEF MembershipStep, ReadMembership, WriteMembership, ForceResetPassword, BurnCodes
<1>4. req'[r].pc \notin Apart
  BY <1>0, <1>1, <1>2
  DEF MembershipStep, ReadMembership, WriteMembership, ForceResetPassword, BurnCodes
<1>5. req[r].pc \notin Apart
  BY <1>2 DEF Asking, Entering, MembershipStep, ReadMembership, WriteMembership,
     ForceResetPassword, BurnCodes
<1>6. QED
  BY <1>3, <1>4, <1>5 DEF OthersMove, Asking, Entering

LEMMA BeginMoves ==
  ASSUME TypeOK, NEW r \in Requests, RequestReset(r) \/ ResetPassword(r)
  PROVE  OthersMove(r) /\ UNCHANGED code
<1>1. req \in [Requests -> RequestStates]
  BY DEF TypeOK
<1>2. At("cooldown").pc = "cooldown" /\ At("find").pc = "find"
  BY DEF At, Idle
<1>3. QED
  BY <1>1, <1>2 DEF RequestReset, ResetPassword, Begin, OthersMove, Asking, Entering

\* What a redemption does to the code it finds live.
LEMMA RedeemingLive ==
  ASSUME TypeInv, NEW r \in Requests, RedeemCode(r), NEW c, c = req[r].code, c \in LiveCodes
  PROVE  /\ code[c].redeemed = 0
         /\ code'[c].state = "consumed" /\ code'[c].redeemed = 1 /\ code'[c].age = code[c].age
         /\ \A d \in CodeIds : d # c => code'[d] = code[d]
BY DEF TypeInv, TypeOK, CodeAccounts, LiveCodes, RedeemCode, Codes

\* A code that is issued stays so, grows older and is never live again.
CodesGrow ==
  /\ \A c \in Issued :
       /\ c \in Issued'
       /\ c \notin LiveCodes => c \notin LiveCodes'
       /\ code'[c].age >= code[c].age
       /\ code'[c].redeemed >= code[c].redeemed
  /\ Issued' \subseteq Issued \/ \E r \in Requests : CreateCode(r)

LEMMA CodesOnlyGrow ==
  ASSUME TypeInv, [Next]_vars
  PROVE  CodesGrow
<1> USE DEF CodesGrow, Issued, LiveCodes
<1>0. code \in [CodeIds -> Codes] /\ TypeOK
  BY DEF TypeInv, TypeOK
<1>1. CASE UNCHANGED code
  BY <1>0, <1>1 DEF Codes
<1>2. CASE ConsumeLiveCodes
  BY <1>0, <1>2 DEF Codes, ConsumeLiveCodes
<1>3. ASSUME NEW r \in Requests, SessionStep(r) \/ MembershipStep(r) PROVE CodesGrow
  BY <1>0, <1>1, <1>2, <1>3, SessionMoves, MembershipMoves
<1>4. ASSUME NEW r \in Requests, ResetStep(r) PROVE CodesGrow
  <2>1. CASE RequestReset(r) \/ CheckCooldown(r) \/ ResetPassword(r) \/ FindCode(r)
    BY <1>1, <2>1 DEF RequestReset, CheckCooldown, ResetPassword, FindCode
  <2>2. CASE ConsumeEarlierCodes(r)
    BY <1>2, <2>2 DEF ConsumeEarlierCodes
  <2>3. CASE CreateCode(r)
    <3>1. PICK c \in CodeIds : c \notin Issued
                               /\ code' = [code EXCEPT ![c] = [NoCode EXCEPT !.state = "live"]]
      BY <2>3 DEF CreateCode
    <3>2. \A d \in Issued : code'[d] = code[d]
      BY <1>0, <3>1
    <3>3. QED
      BY <1>0, <2>3, <3>2 DEF Codes
  <2>4. CASE ExpireCode(r)
    BY <1>0, <2>4 DEF ExpireCode, Codes
  <2>7. CASE CountMiss(r)
    <3> DEFINE c == req[r].code
               new == AfterMiss(c, req[r].attempts)
    <3>1. CASE UNCHANGED code
      BY <1>1, <3>1
    <3>2. CASE c \in LiveCodes /\ code' = [code EXCEPT ![c] = new]
      <4>1. /\ code[c] \in Codes /\ new.state \in {"live", "consumed"}
            /\ new.age = code[c].age /\ new.redeemed = code[c].redeemed
        BY <1>0, <3>2 DEF AfterMiss, Codes
      <4> HIDE DEF new
      <4>2. QED
        BY <1>0, <3>2, <4>1 DEF Codes
    <3>3. QED
      BY <2>7, <3>1, <3>2 DEF CountMiss
  <2>5. CASE RedeemCode(r)
    <3>1. CASE req[r].code \notin LiveCodes
      BY <1>1, <2>5, <3>1 DEF RedeemCode
    <3>2. CASE req[r].code \in LiveCodes
      BY <1>0, <2>5, <3>2, RedeemingLive DEF Codes
    <3>3. QED
      BY <3>1, <3>2
  <2>6. QED
    BY <1>4, <2>1, <2>2, <2>3, <2>4, <2>5, <2>7 DEF ResetStep
<1>5. ASSUME NEW c \in CodeIds, AgeCode(c) PROVE CodesGrow
  BY <1>0, <1>5 DEF AgeCode, Codes
<1>6. QED
  BY <1>1, <1>3, <1>4, <1>5
  DEF Next, RevokeSession, ExpireSession, RevokeAllSessions, Deactivate, Activate, vars

LEMMA PagesAreClients == ResetNext \/ UNCHANGED resetVars => [Next]_vars
BY DEF ResetNext, Serve, Elsewhere, AskForCode, SubmitCode, AskInVain, ShowSent, ShowFailure,
   EndCountdown, SubmitInVain, ShowOutcome, LoseOutcome, Next, ResetStep, vars, resetVars

\* Whatever is done on the pages, the account goes through a behaviour of
\* its own specification.
THEOREM PagesImplementAccounts == ResetSpec => Spec
<1>1. ResetInit => Init
  BY DEF ResetInit
<1>2. [ResetNext]_resetVars => [Next]_vars
  BY PagesAreClients
<1>3. QED
  BY <1>1, <1>2, PTL DEF ResetSpec, Spec

-----------------------------------------------------------------------------
(* The countdown                                                             *)

ForgotStates ==
  [submitting : BOOLEAN, request : SUBSET Requests, sent : BOOLEAN,
   waits : SUBSET CodeIds, lost : BOOLEAN, throttled : BOOLEAN]

\* The page asks for one code at a time; without a lost answer it knows of
\* the request that does, and its countdown covers each code that is so young
\* that the cooldown would keep the next one back.
AskingIsSeen ==
  \A r \in Requests : req[r].pc \in Asking => forgot.request = {r}
YoungCodesAreAwaited ==
  /\ ~forgot.submitting =>
       \A c \in Issued : code[c].age = 0 => c \in forgot.waits
  /\ \A r \in Requests : forgot.request = {r} /\ req[r].pc = "cooldown" =>
       \A c \in Issued : code[c].age > 0
CountdownInv ==
  /\ forgot \in ForgotStates
  /\ workload \notin PageWork => forgot = NotAsked
  /\ forgot.request # {} =>
       /\ forgot.submitting
       /\ \E r \in Requests : forgot.request = {r} /\ req[r].pc \in Asking
  /\ workload \in PageWork /\ ~forgot.lost => AskingIsSeen /\ YoungCodesAreAwaited
  /\ ~forgot.throttled

LEMMA CountdownInit == ResetInit => CountdownInv
BY DEF ResetInit, Init, CountdownInv, AskingIsSeen, YoungCodesAreAwaited, ForgotStates, NotAsked,
   Asking, Idle, Issued, NoCode

LEMMA CountdownStays ==
  ASSUME TypeInv, TypeInv', CountdownInv, UNCHANGED <<workload, forgot>>,
         Issued' \subseteq Issued, CodesGrow,
         workload \in PageWork =>
           \A q \in Requests : req'[q].pc \in Asking => req[q].pc \in Asking,
         \A q \in Requests : forgot.request = {q} =>
           req'[q].pc \in Asking /\ (req'[q].pc = "cooldown" => req[q].pc = "cooldown")
  PROVE  CountdownInv'
<1>1. /\ forgot' \in ForgotStates
      /\ workload' \notin PageWork => forgot' = NotAsked
      /\ ~forgot'.throttled
      /\ forgot'.request # {} =>
           /\ forgot'.submitting
           /\ \E r \in Requests : forgot'.request = {r} /\ req'[r].pc \in Asking
  BY DEF CountdownInv
<1>2. \A c \in Issued' : c \in Issued /\ code'[c].age >= code[c].age
                         /\ code[c].age \in 0 .. 2 /\ code'[c].age \in 0 .. 2
  BY DEF CodesGrow, TypeInv, TypeOK, Codes, Issued
<1>3. ASSUME workload \in PageWork, ~forgot.lost
      PROVE  AskingIsSeen' /\ YoungCodesAreAwaited'
  <2>1. AskingIsSeen /\ YoungCodesAreAwaited
    BY <1>3 DEF CountdownInv
  <2>2. AskingIsSeen'
    BY <1>3, <2>1 DEF AskingIsSeen
  <2>3. ASSUME NEW c \in Issued', code'[c].age = 0
        PROVE  c \in Issued /\ code[c].age = 0
    BY <1>2, <2>3
  <2>4. YoungCodesAreAwaited'
    <3>1. ASSUME ~forgot.submitting, NEW c \in Issued', code'[c].age = 0 PROVE c \in forgot'.waits
      BY <2>1, <2>3, <3>1 DEF YoungCodesAreAwaited
    <3>2. ASSUME NEW r \in Requests, forgot.request = {r}, req'[r].pc = "cooldown", NEW c \in Issued'
          PROVE  code'[c].age > 0
      BY <1>2, <2>1, <3>2 DEF YoungCodesAreAwaited
    <3>3. QED
      BY <3>1, <3>2 DEF YoungCodesAreAwaited
  <2>5. QED
    BY <2>2, <2>4
<1>4. QED
  BY <1>1, <1>3 DEF CountdownInv

LEMMA CountdownServe ==
  ASSUME TypeInv, TypeInv', CodesGrow, CountdownInv, UNCHANGED workload, NEW r \in Requests,
         SessionStep(r) \/ MembershipStep(r) \/ ResetStep(r),
         req[r].pc = "idle" /\ workload \in PageWork => req'[r].pc \notin {"cooldown", "find"},
         forgot' = ForgotAfter(r)
  PROVE  CountdownInv'
<1> USE DEF Begin, Continue, Finish
<1>0. TypeOK /\ req \in [Requests -> RequestStates] /\ forgot \in ForgotStates
  BY DEF TypeInv, TypeOK, CountdownInv
<1>a. \A q \in Requests : forgot.request = {q} => req[q].pc \in Asking /\ workload \in PageWork
  BY DEF CountdownInv, NotAsked
<1>b. Idle.pc = "idle" /\ \A phase \in Asking : At(phase).pc = phase
  BY DEF At, Idle
<1>1. CASE OthersMove(r) /\ Issued' \subseteq Issued
  <2>1. forgot' = forgot
    BY <1>a, <1>1 DEF ForgotAfter, OthersMove
  <2>2. workload \in PageWork =>
          \A q \in Requests : req'[q].pc \in Asking => req[q].pc \in Asking
    BY <1>1 DEF OthersMove, Asking
  <2>3. \A q \in Requests : forgot.request = {q} => req'[q].pc \in Asking /\ req'[q] = req[q]
    BY <1>1, <1>a DEF OthersMove, Asking, Entering
  <2>4. QED
    BY <1>1, <2>1, <2>2, <2>3, CountdownStays
<1>2. CASE CheckCooldown(r)
  <2>1. PICK next \in {Idle, At("consume")} : req' = [req EXCEPT ![r] = next]
    BY <1>2 DEF CheckCooldown
  <2>2. /\ req'[r].pc \in {"idle", "consume"}
        /\ \A q \in Requests : q # r => req'[q] = req[q]
        /\ UNCHANGED code /\ req[r].pc = "cooldown"
    BY <1>0, <1>2, <1>b, <2>1 DEF Asking, CheckCooldown
  <2>3. CASE forgot.request = {r} /\ req'[r].pc = "idle"
    <3>1. forgot.lost
      <4> SUFFICES ASSUME ~forgot.lost PROVE FALSE
        OBVIOUS
      <4>1. \A c \in Issued : code[c].age > 0
        BY <1>a, <2>2, <2>3 DEF CountdownInv, YoungCodesAreAwaited
      <4>2. ~\E c \in Issued : code[c].age = 0 /\ \A d \in Issued : d <= c
        BY <4>1
      <4>3. req'[r] = At("consume")
        BY <1>0, <1>2, <4>2 DEF CheckCooldown
      <4>4. QED
        BY <1>b, <2>3, <4>3 DEF Asking
    <3>2. /\ forgot' = [forgot EXCEPT !.request = {}, !.throttled = forgot'.throttled]
          /\ forgot'.throttled = forgot.throttled
      BY <1>0, <2>3, <3>1 DEF ForgotAfter, ForgotStates
    <3>3. /\ forgot' \in ForgotStates /\ forgot'.request = {} /\ ~forgot'.throttled /\ forgot'.lost
      BY <1>0, <3>1, <3>2 DEF ForgotStates, CountdownInv
    <3>4. QED
      BY <1>a, <2>3, <3>3 DEF CountdownInv
  <2>4. CASE ~(forgot.request = {r} /\ req'[r].pc = "idle")
    <3>1. forgot' = forgot
      BY <2>4 DEF ForgotAfter
    <3>2. \A q \in Requests : forgot.request = {q} =>
            req'[q].pc \in Asking /\ (req'[q].pc = "cooldown" => req[q].pc = "cooldown")
      BY <1>a, <2>2, <2>4 DEF Asking
    <3>3. \A q \in Requests : req'[q].pc \in Asking => req[q].pc \in Asking
      BY <2>2 DEF Asking
    <3>4. Issued' \subseteq Issued
      BY <2>2 DEF Issued
    <3>5. QED
      BY <3>1, <3>2, <3>3, <3>4, CountdownStays
  <2>5. QED
    BY <2>3, <2>4
<1>3. CASE ConsumeEarlierCodes(r)
  <2>1. /\ req[r].pc = "consume" /\ req'[r].pc = "create"
        /\ \A q \in Requests : q # r => req'[q] = req[q]
    BY <1>0, <1>3, <1>b DEF ConsumeEarlierCodes, Asking
  <2>2. forgot' = forgot
    BY <2>1 DEF ForgotAfter
  <2>3. Issued' \subseteq Issued
    BY <1>0, <1>3 DEF ConsumeEarlierCodes, ConsumeLiveCodes, Issued, LiveCodes, TypeOK
  <2>4. \A q \in Requests : forgot.request = {q} =>
          req'[q].pc \in Asking /\ (req'[q].pc = "cooldown" => req[q].pc = "cooldown")
    BY <1>a, <2>1 DEF Asking
  <2>5. \A q \in Requests : req'[q].pc \in Asking => req[q].pc \in Asking
    BY <2>1 DEF Asking
  <2>6. QED
    BY <2>2, <2>3, <2>4, <2>5, CountdownStays
<1>4. CASE CreateCode(r)
  <2>1. /\ req[r].pc = "create" /\ req'[r].pc = "idle"
        /\ \A q \in Requests : q # r => req'[q] = req[q]
    BY <1>0, <1>4, <1>b DEF CreateCode
  <2>2. CASE forgot.request = {r}
    <3>1. /\ forgot' = [forgot EXCEPT !.request = {}, !.throttled = forgot'.throttled]
          /\ forgot'.throttled = forgot.throttled
      BY <1>0, <2>1, <2>2 DEF ForgotAfter, ForgotStates
    <3>2. /\ forgot' \in ForgotStates /\ forgot'.request = {} /\ ~forgot'.throttled
          /\ forgot'.submitting = forgot.submitting /\ forgot'.lost = forgot.lost
      BY <1>0, <3>1 DEF ForgotStates, CountdownInv
    <3>3. forgot.submitting /\ workload \in PageWork
      BY <1>a, <2>2 DEF CountdownInv
    <3>4. ~forgot.lost => \A q \in Requests : req'[q].pc \notin Asking
      <4>1. ~forgot.lost => \A q \in Requests : q # r => req[q].pc \notin Asking
        BY <2>2, <3>3 DEF CountdownInv, AskingIsSeen
      <4>2. QED
        BY <2>1, <4>1 DEF Asking
    <3>5. QED
      BY <3>2, <3>3, <3>4 DEF CountdownInv, AskingIsSeen, YoungCodesAreAwaited
  <2>3. CASE forgot.request # {r}
    <3>1. forgot' = forgot
      BY <2>3 DEF ForgotAfter
    <3>2. workload \notin PageWork \/ forgot.lost
      BY <2>1, <2>3 DEF CountdownInv, AskingIsSeen, Asking
    <3>3. QED
      BY <2>1, <2>3, <3>1, <3>2 DEF CountdownInv
  <2>4. QED
    BY <2>2, <2>3
<1>5. CASE FindCode(r) \/ ExpireCode(r) \/ CountMiss(r) \/ RedeemCode(r)
  <2>1. req[r].pc \in Entering
    BY <1>5 DEF FindCode, ExpireCode, CountMiss, RedeemCode, Entering
  <2>2. \A q \in Requests : q # r => req'[q] = req[q]
    BY <1>0, <1>5 DEF FindCode, ExpireCode, CountMiss, RedeemCode
  <2>3. req'[r].pc \notin Asking
    <3>1. CASE FindCode(r)
      <4>1. PICK next \in RequestStates :
               Moves(r, next) /\ next.pc \in {"idle", "expire", "miss", "redeem"}
        BY <1>0, <3>1, FindMoves
      <4>2. QED
        BY <1>0, <4>1, MoveType DEF Asking
    <3>2. CASE ExpireCode(r) \/ CountMiss(r) \/ RedeemCode(r)
      BY <1>0, <1>b, <3>2 DEF ExpireCode, CountMiss, RedeemCode, Asking
    <3>3. QED
      BY <1>5, <3>1, <3>2
  <2>4. forgot' = forgot
    BY <1>a, <2>1 DEF ForgotAfter, Asking, Entering
  <2>5. Issued' \subseteq Issued
    <3>1. \A q \in Requests : ~CreateCode(q)
      <4> SUFFICES ASSUME NEW q \in Requests, CreateCode(q) PROVE FALSE
        OBVIOUS
      <4>1. req[q].pc = "create" /\ req'[q].pc = "idle"
        BY <1>0, <1>b DEF CreateCode
      <4>2. QED
        BY <2>1, <2>2, <4>1 DEF Entering
    <3>2. QED
      BY <3>1 DEF CodesGrow
  <2>6. \A q \in Requests : forgot.request = {q} => q # r
    BY <1>a, <2>1 DEF Asking, Entering
  <2>7. QED
    BY <1>a, <2>2, <2>3, <2>4, <2>5, <2>6, CountdownStays
<1>6. ASSUME SessionStep(r) \/ MembershipStep(r) \/ RequestReset(r) \/ ResetPassword(r)
      PROVE  OthersMove(r) /\ Issued' \subseteq Issued
  <2>1. OthersMove(r) /\ (UNCHANGED code \/ ConsumeLiveCodes)
    BY <1>0, <1>6, SessionMoves, MembershipMoves, BeginMoves
  <2>2. QED
    BY <1>0, <2>1 DEF ConsumeLiveCodes, Issued, LiveCodes, TypeOK
<1>7. QED
  BY <1>1, <1>2, <1>3, <1>4, <1>5, <1>6 DEF ResetStep

LEMMA CountdownStep ==
  TypeInv /\ TypeInv' /\ CountdownInv /\ [ResetNext]_resetVars => CountdownInv'
<1> SUFFICES ASSUME TypeInv, TypeInv', CountdownInv, [ResetNext]_resetVars PROVE CountdownInv'
  OBVIOUS
<1> USE DEF Asking
<1>1. CodesGrow /\ forgot \in ForgotStates /\ TypeOK /\ req \in [Requests -> RequestStates]
  BY CodesOnlyGrow, PagesAreClients DEF CountdownInv, TypeInv, TypeOK
<1>a. \A q \in Requests : forgot.request = {q} => req[q].pc \in Asking /\ workload \in PageWork
  BY DEF CountdownInv, NotAsked
<1>b. At("cooldown").pc = "cooldown" /\ At("find").pc = "find"
  BY DEF At, Idle
<1>2. CASE Serve
  <2>1. UNCHANGED workload
    BY <1>2 DEF Serve, SessionStep, MembershipStep, ResetStep,
       Login, IssueTokens, KillSessions, RotateToken, ResolveActor,
       RevokeToken, CommitChange, ReadRefreshToken, ReadLogoutToken, ReadPasswordHash,
       ReadMembership, WriteMembership, ForceResetPassword, BurnCodes,
       RequestReset, CheckCooldown, ConsumeEarlierCodes, CreateCode,
       ResetPassword, FindCode, ExpireCode, CountMiss, RedeemCode
  <2>2. QED
    BY <1>1, <1>2, <2>1, CountdownServe DEF Serve
<1>3. ASSUME UNCHANGED <<workload, req, forgot>>, Issued' \subseteq Issued
      PROVE  CountdownInv'
  BY <1>1, <1>3, <1>a, CountdownStays
<1>4. CASE Elsewhere
  <2>1. UNCHANGED <<workload, req, forgot>>
    BY <1>4 DEF Elsewhere, RevokeSession, ExpireSession, RevokeAllSessions, Deactivate, Activate,
       AgeCode
  <2>2. \A r \in Requests : ~CreateCode(r)
    <3> SUFFICES ASSUME NEW r \in Requests, CreateCode(r) PROVE FALSE
      OBVIOUS
    <3>1. req[r].pc = "create" /\ req'[r].pc = "idle"
      BY <1>1 DEF CreateCode, Finish, Continue, Idle
    <3>2. QED
      BY <2>1, <3>1
  <2>3. QED
    BY <1>1, <1>3, <2>1, <2>2 DEF CodesGrow
<1>5. ASSUME NEW r \in Requests, AskForCode(r) PROVE CountdownInv'
  <2>1. /\ req' = [req EXCEPT ![r] = At("cooldown")] /\ UNCHANGED <<workload, code>>
        /\ workload \in PageWork /\ ~forgot.submitting /\ forgot.waits = {}
    BY <1>5 DEF AskForCode, CanAsk, RequestReset, Begin
  <2>2. /\ req'[r].pc = "cooldown"
        /\ \A q \in Requests : q # r => req'[q] = req[q]
    BY <1>1, <1>b, <2>1
  <2>3. /\ forgot' \in ForgotStates /\ forgot'.request = {r} /\ forgot'.submitting
        /\ forgot'.lost = forgot.lost /\ forgot'.throttled = forgot.throttled
    BY <1>1, <1>5 DEF AskForCode, ForgotStates
  <2>4. ASSUME ~forgot.lost
        PROVE  AskingIsSeen' /\ YoungCodesAreAwaited'
    <3>1. \A q \in Requests : req[q].pc \notin Asking
      BY <2>1, <2>4 DEF CountdownInv, AskingIsSeen
    <3>2. \A c \in Issued : code[c].age # 0 /\ code[c].age \in 0 .. 2
      BY <1>1, <2>1, <2>4 DEF CountdownInv, YoungCodesAreAwaited, TypeOK, Codes, Issued
    <3>3. \A c \in Issued' : code'[c].age > 0
      BY <2>1, <3>2 DEF Issued
    <3>4. QED
      BY <2>2, <2>3, <3>1, <3>3 DEF AskingIsSeen, YoungCodesAreAwaited
  <2>5. QED
    BY <2>1, <2>2, <2>3, <2>4 DEF CountdownInv
<1>6. ASSUME NEW r \in Requests, NEW g \in Pages, SubmitCode(g, r) PROVE CountdownInv'
  <2>1. /\ req' = [req EXCEPT ![r] = At("find")] /\ UNCHANGED <<workload, code, forgot>>
        /\ req[r].pc = "idle"
    BY <1>6 DEF SubmitCode, ResetPassword, Begin
  <2>2. /\ req'[r].pc = "find" /\ Issued' \subseteq Issued
        /\ \A q \in Requests : q # r => req'[q] = req[q]
    BY <1>1, <1>b, <2>1 DEF Issued
  <2>3. \A q \in Requests : forgot.request = {q} => q # r
    BY <1>a, <2>1
  <2>4. QED
    BY <1>1, <1>a, <2>1, <2>2, <2>3, CountdownStays
<1>7. CASE AskInVain \/ ShowFailure
  <2>1. /\ forgot' \in ForgotStates /\ forgot'.throttled = forgot.throttled
        /\ \/ /\ forgot'.submitting /\ forgot'.lost = forgot.lost
              /\ ~forgot.submitting /\ forgot'.request = forgot.request /\ workload \in PageWork
           \/ forgot'.lost /\ forgot'.request = {} /\ forgot.submitting
    BY <1>1, <1>7 DEF AskInVain, CanAsk, ShowFailure, ForgotStates
  <2>2. UNCHANGED vars
    BY <1>7 DEF AskInVain, ShowFailure
  <2>3. forgot'.request = {}
    BY <2>1 DEF CountdownInv
  <2>4. workload \in PageWork
    BY <2>1 DEF CountdownInv, NotAsked
  <2>5. ~forgot'.lost => AskingIsSeen' /\ YoungCodesAreAwaited'
    BY <2>1, <2>2, <2>3, <2>4 DEF CountdownInv, AskingIsSeen, YoungCodesAreAwaited, vars
  <2>6. QED
    BY <2>1, <2>2, <2>3, <2>4, <2>5 DEF CountdownInv, vars
<1>8. CASE ShowSent \/ EndCountdown
  <2>1. /\ forgot' \in ForgotStates /\ forgot'.throttled = forgot.throttled
        /\ forgot'.lost = forgot.lost /\ forgot'.request = forgot.request
        /\ \/ /\ forgot.submitting /\ ~forgot'.submitting /\ forgot'.waits = Issued
              /\ forgot.request = {}
           \/ /\ forgot'.submitting = forgot.submitting /\ forgot'.waits = {}
              /\ forgot.waits # {} /\ \A c \in forgot.waits : code[c].age > 0
    BY <1>1, <1>8 DEF ShowSent, EndCountdown, ForgotStates, Issued
  <2>2. UNCHANGED vars
    BY <1>8 DEF ShowSent, EndCountdown
  <2>3. workload \in PageWork
    BY <2>1 DEF CountdownInv, NotAsked
  <2>4. ~forgot.lost => AskingIsSeen'
    BY <2>1, <2>2, <2>3 DEF CountdownInv, AskingIsSeen, vars
  <2>5. ASSUME ~forgot.lost PROVE YoungCodesAreAwaited'
    <3>1. YoungCodesAreAwaited
      BY <2>3, <2>5 DEF CountdownInv
    <3>2. \A c \in Issued : code[c].age \in 0 .. 2
      BY <1>1 DEF TypeOK, Codes, Issued
    <3>3. Issued' = Issued
      BY <2>2 DEF Issued, vars
    <3>4. ~forgot'.submitting => \A c \in Issued : code[c].age = 0 => c \in forgot'.waits
      BY <2>1, <3>1, <3>2 DEF YoungCodesAreAwaited
    <3>5. QED
      BY <2>1, <2>2, <3>1, <3>3, <3>4 DEF YoungCodesAreAwaited, vars
  <2>6. QED
    BY <2>1, <2>2, <2>3, <2>4, <2>5 DEF CountdownInv, vars
<1>9. CASE \E g \in Pages : SubmitInVain(g) \/ ShowOutcome(g) \/ LoseOutcome(g)
  BY <1>3, <1>9 DEF SubmitInVain, ShowOutcome, LoseOutcome, vars, Issued
<1>10. CASE UNCHANGED resetVars
  BY <1>3, <1>10 DEF resetVars, vars, Issued
<1>11. QED
  BY <1>2, <1>4, <1>5, <1>6, <1>7, <1>8, <1>9, <1>10 DEF ResetNext

-----------------------------------------------------------------------------
(* What the pages say of codes                                               *)

ResetStates ==
  [view : {"form", "submitting", "completed", "invalid", "error"},
   code : {0} \union CodeIds, request : SUBSET Requests,
   answer : {"none", "ok", "INVALID_OTP"}]

\* The code opens nothing any more, and never will.
Dead(c) == c \notin LiveCodes \/ code[c].age = 2 \/ \E d \in Issued : d > c

\* A page with a request waits for its answer, and the request goes the way
\* of the page's code; a request that the server has turned away, and a page
\* that was told so, have a code that is dead.
PageWaits(g) ==
  /\ reset[g].request # {} =>
       /\ reset[g].view = "submitting" /\ reset[g].answer = "none"
       /\ \E r \in Requests : reset[g].request = {r} /\ req[r].pc \in Entering
  /\ reset[g].answer # "none" => reset[g].view = "submitting" /\ reset[g].request = {}
  /\ \A r \in Requests : reset[g].request = {r} =>
       /\ req[r].pc = "redeem" => req[r].code = reset[g].code
       /\ req[r].pc \in {"expire", "miss"} /\ reset[g].code # 0 => Dead(reset[g].code)
PageIsTold(g) ==
  reset[g].code # 0 =>
    /\ reset[g].code \in Issued
    /\ reset[g].view = "invalid" \/ reset[g].answer = "INVALID_OTP" => Dead(reset[g].code)

\* Pages that say, or are about to say, that the password is reset.
IsReset(g) == reset[g].view = "completed" \/ reset[g].answer = "ok"

PagesInv ==
  /\ reset \in [Pages -> ResetStates]
  /\ \A g \in Pages :
       /\ PageWaits(g)
       /\ PageIsTold(g)
       /\ IsReset(g) => reset[g].code \in CodeIds /\ code[reset[g].code].redeemed >= 1
  /\ \A g, h \in Pages :
       /\ reset[g].request # {} /\ reset[g].request = reset[h].request => g = h
       /\ IsReset(g) /\ IsReset(h) /\ reset[g].code = reset[h].code => g = h

LEMMA PagesInit == ResetInit => PagesInv
<1> SUFFICES ASSUME ResetInit PROVE PagesInv
  OBVIOUS
<1>1. reset = [g \in Pages |-> Blank] /\ Blank \in ResetStates
  BY DEF ResetInit, Blank, ResetStates
<1>2. \A g \in Pages : reset[g].view = "form" /\ reset[g].code = 0
                       /\ reset[g].request = {} /\ reset[g].answer = "none"
  BY <1>1 DEF Blank
<1>3. QED
  BY <1>1, <1>2 DEF PagesInv, PageWaits, PageIsTold, IsReset

\* A dead code stays dead.
LEMMA DeadStaysDead ==
  ASSUME TypeInv, TypeInv', CodesGrow, NEW c \in Issued, Dead(c)
  PROVE  Dead(c)'
<1>1. c \in Issued' /\ code[c].age \in 0 .. 2 /\ code'[c].age \in 0 .. 2
      /\ code'[c].age >= code[c].age /\ (c \notin LiveCodes => c \notin LiveCodes')
      /\ Issued \subseteq Issued'
  BY DEF CodesGrow, TypeInv, TypeOK, Codes, Issued
<1>2. QED
  BY <1>1 DEF Dead

\* What is true of a page stays so while it and its request stand.
LEMMA PageStays ==
  ASSUME TypeInv, TypeInv', CodesGrow, PagesInv, NEW g \in Pages, reset'[g] = reset[g],
         \A r \in Requests : reset[g].request = {r} => req'[r] = req[r]
  PROVE  /\ PageWaits(g)' /\ PageIsTold(g)' /\ (IsReset(g)' <=> IsReset(g))
         /\ IsReset(g)' => reset'[g].code \in CodeIds /\ code'[reset'[g].code].redeemed >= 1
<1>1. PageWaits(g) /\ PageIsTold(g) /\ reset[g].code \in {0} \union CodeIds
      /\ (IsReset(g) => reset[g].code \in CodeIds /\ code[reset[g].code].redeemed >= 1)
  BY DEF PagesInv, ResetStates
<1>2. reset[g].code # 0 /\ Dead(reset[g].code) => Dead(reset[g].code)'
  <2> SUFFICES ASSUME NEW c \in Issued, c = reset[g].code, c = reset'[g].code, Dead(c)
               PROVE  Dead(reset[g].code)'
    BY <1>1 DEF PageIsTold
  <2>1. Dead(c)'
    BY DeadStaysDead
  <2>2. QED
    BY <2>1 DEF Dead
<1>4. PageWaits(g)'
  BY <1>1, <1>2 DEF PageWaits
<1>5. PageIsTold(g)'
  BY <1>1, <1>2 DEF PageIsTold, CodesGrow
<1>6. IsReset(g)' <=> IsReset(g)
  BY DEF IsReset
<1>7. IsReset(g) => code'[reset[g].code].redeemed >= 1
  <2> SUFFICES ASSUME IsReset(g) PROVE code'[reset[g].code].redeemed >= 1
    OBVIOUS
  <2> DEFINE c == reset[g].code
  <2>1. c \in CodeIds /\ code[c] \in Codes /\ code'[c] \in Codes /\ code[c].redeemed >= 1
    BY <1>1 DEF TypeInv, TypeOK
  <2>2. c \in Issued
    BY <2>1 DEF TypeInv, CodeAccounts, Issued
  <2>3. code'[c].redeemed >= code[c].redeemed
    BY <2>2 DEF CodesGrow
  <2>4. QED
    BY <2>1, <2>3 DEF Codes
<1>8. QED
  BY <1>1, <1>4, <1>5, <1>6, <1>7

\* The page whose request is answered.
LEMMA PageIsAnswered ==
  ASSUME TypeInv', CodesGrow, PagesInv, NEW g \in Pages, NEW r \in Requests,
         reset[g].request = {r}, NEW verdict \in {"ok", "INVALID_OTP"},
         reset'[g] = [reset[g] EXCEPT !.request = {}, !.answer = verdict],
         NEW c, c = reset[g].code,
         verdict = "INVALID_OTP" /\ c # 0 => Dead(c)',
         verdict = "ok" => c \in CodeIds /\ code'[c].redeemed >= 1
  PROVE  /\ PageWaits(g)' /\ PageIsTold(g)'
         /\ IsReset(g)' => reset'[g].code \in CodeIds /\ code'[reset'[g].code].redeemed >= 1
<1>1. /\ reset[g] \in ResetStates /\ reset[g].view = "submitting" /\ PageIsTold(g)
  BY DEF PagesInv, PageWaits
<1>2. /\ reset'[g].view = "submitting" /\ reset'[g].answer = verdict
      /\ reset'[g].request = {} /\ reset'[g].code = c
  BY <1>1 DEF ResetStates
<1>3. PageWaits(g)'
  BY <1>2 DEF PageWaits
<1>4. PageIsTold(g)'
  <2>1. c # 0 => c \in Issued'
    BY <1>1 DEF PageIsTold, CodesGrow
  <2>2. verdict = "INVALID_OTP" /\ c # 0 => Dead(reset[g].code)'
    BY <1>2 DEF Dead
  <2>3. QED
    BY <1>2, <2>1, <2>2 DEF PageIsTold
<1>5. IsReset(g)' => c \in CodeIds /\ code'[c].redeemed >= 1
  BY <1>2 DEF IsReset
<1>6. QED
  BY <1>2, <1>3, <1>4, <1>5

\* The page of the request that goes on.
LEMMA OwnPageStep ==
  ASSUME TypeInv, TypeInv', CodesGrow, PagesInv, NEW g \in Pages, NEW r \in Requests,
         reset[g].request = {r}, SessionStep(r) \/ MembershipStep(r) \/ ResetStep(r),
         OtpMatches(r), reset' = ResetAfter(r)
  PROVE  /\ PageWaits(g)' /\ PageIsTold(g)'
         /\ IsReset(g)' => /\ reset'[g].code \in CodeIds /\ code'[reset'[g].code].redeemed >= 1
                           /\ \A h \in Pages : IsReset(h) => reset[h].code # reset'[g].code
<1> USE DEF Continue, Finish
<1> DEFINE x == reset[g].code
<1>0. /\ TypeOK /\ reset[g] \in ResetStates /\ PageWaits(g) /\ PageIsTold(g)
      /\ req \in [Requests -> RequestStates] /\ code \in [CodeIds -> Codes]
      /\ req[r].pc \in Entering /\ reset[g].view = "submitting" /\ reset[g].answer = "none"
  BY DEF PagesInv, TypeInv, TypeOK, PageWaits
<1>1. Idle.pc = "idle"
  BY DEF Idle
<1>2. /\ req'[r].pc = "idle" => reset'[g] = [reset[g] EXCEPT !.request = {}, !.answer = Verdict(r)]
      /\ req'[r].pc # "idle" => reset'[g] = reset[g]
  BY DEF ResetAfter
<1>3. Verdict(r) \in {"ok", "INVALID_OTP"} /\ (Verdict(r) = "ok" => req[r].pc = "redeem")
  BY DEF Verdict
<1>4. ASSUME req'[r].pc = "idle", req[r].pc # "redeem", NEW c, c = x, c # 0 => Dead(c)'
      PROVE  PageWaits(g)' /\ PageIsTold(g)' /\ ~IsReset(g)'
  <2>1. reset'[g] = [reset[g] EXCEPT !.request = {}, !.answer = "INVALID_OTP"]
    BY <1>2, <1>3, <1>4
  <2>2. PageWaits(g)' /\ PageIsTold(g)'
    BY <1>4, <2>1, PageIsAnswered
  <2>3. ~IsReset(g)'
    BY <1>0, <2>1 DEF IsReset, ResetStates
  <2>4. QED
    BY <2>2, <2>3
<1>5. CASE FindCode(r)
  <2>1. UNCHANGED code /\ req[r].pc = "find" /\ (\A d : Dead(d)' <=> Dead(d))
    BY <1>5 DEF FindCode, Dead, LiveCodes, Issued
  <2>2. CASE LiveCodes = {} /\ req' = [req EXCEPT ![r] = Idle]
    <3>1. req'[r].pc = "idle" /\ x \notin LiveCodes
      BY <1>0, <1>1, <2>2
    <3>2. PICK c : c = x
      OBVIOUS
    <3>3. Dead(c)'
      BY <2>1, <3>1, <3>2 DEF Dead
    <3>4. QED
      BY <1>4, <2>1, <3>1, <3>2, <3>3
  <2>3. ASSUME NEW c \in LiveCodes, \A d \in LiveCodes : d <= c,
               NEW phase \in IF code[c].age = 2 THEN {"expire"} ELSE {"miss", "redeem"},
               req' = [req EXCEPT ![r] = [At(phase) EXCEPT !.code = c,
                                            !.attempts = code[c].attempts]]
        PROVE  PageWaits(g)' /\ PageIsTold(g)' /\ ~IsReset(g)'
    <3> DEFINE next == [At(phase) EXCEPT !.code = c, !.attempts = code[c].attempts]
    <3>1. c \in CodeIds /\ code[c].attempts \in 0 .. MaxAttempts /\ c \in Issued
      BY <1>0 DEF LiveCodes, Codes, Issued
    <3>2. /\ phase \in {"expire", "miss", "redeem"} /\ (phase = "expire" => code[c].age = 2)
      BY <2>3
    <3>3. At(phase) \in RequestStates /\ At(phase).pc = phase
      BY <3>2, PhaseType DEF Phases
    <3>4. next.pc = phase /\ next.code = c
      BY <3>1, <3>3 DEF RequestStates
    <3>5. req'[r].pc = phase /\ req'[r].code = c
      BY <1>0, <2>3, <3>4
    <3>6. reset'[g] = reset[g]
      BY <1>2, <3>2, <3>5
    <3>7. /\ phase = "redeem" => c = x
          /\ phase = "miss" => c # x
      BY <3>5 DEF OtpMatches
    <3>8. ASSUME phase \in {"expire", "miss"}, x # 0 PROVE Dead(x)
      <4>1. x \in Issued /\ x \in CodeIds
        BY <1>0, <3>8 DEF PageIsTold, Issued
      <4>2. CASE x \in LiveCodes
        <5>1. x <= c /\ x \in Int /\ c \in Int
          BY <2>3, <3>1, <4>1, <4>2, ConstantsAssumption DEF CodeIds
        <5>2. x = c \/ c > x
          BY <5>1
        <5>3. x = c => code[x].age = 2
          BY <3>2, <3>7, <3>8
        <5>4. QED
          BY <3>1, <5>2, <5>3 DEF Dead
      <4>3. CASE x \notin LiveCodes
        BY <4>3 DEF Dead
      <4>4. QED
        BY <4>2, <4>3
    <3>9. phase \in {"expire", "miss"} /\ x # 0 => Dead(reset[g].code)'
      BY <2>1, <3>6, <3>8 DEF Dead, LiveCodes, Issued
    <3>10. PageWaits(g)'
      BY <1>0, <3>2, <3>5, <3>6, <3>7, <3>9 DEF PageWaits, Entering
    <3>11. PageIsTold(g)' /\ ~IsReset(g)'
      BY <1>0, <2>1, <3>6 DEF PageIsTold, IsReset, Issued
    <3>12. QED
      BY <3>10, <3>11
  <2>4. QED
    BY <1>5, <2>2, <2>3 DEF FindCode
<1>6. CASE ExpireCode(r) \/ CountMiss(r)
  <2>1. req[r].pc \in {"expire", "miss"} /\ req'[r].pc = "idle"
    BY <1>0, <1>1, <1>6 DEF ExpireCode, CountMiss
  <2>2. PICK c : c = x
    OBVIOUS
  <2>3. c # 0 => Dead(c)'
    <3>1. c # 0 => Dead(c) /\ c \in Issued
      BY <1>0, <2>1, <2>2 DEF PageWaits, PageIsTold
    <3>2. QED
      BY <3>1, DeadStaysDead
  <2>4. QED
    BY <1>4, <2>1, <2>2, <2>3
<1>7. CASE RedeemCode(r)
  <2>1. req[r].pc = "redeem" /\ req'[r].pc = "idle"
    BY <1>0, <1>1, <1>7 DEF RedeemCode
  <2>2. PICK c : c = x
    OBVIOUS
  <2>3. c = req[r].code /\ c \in CodeIds
    BY <1>0, <2>1, <2>2 DEF PageWaits, TypeInv, NamesARow, NamesRows
  <2>4. CASE c \in LiveCodes
    <3>1. /\ code[c].redeemed = 0 /\ code'[c].redeemed = 1 /\ code' # code
      BY <1>7, <2>3, <2>4, RedeemingLive DEF LiveCodes
    <3>2. reset'[g] = [reset[g] EXCEPT !.request = {}, !.answer = "ok"]
      BY <1>2, <2>1, <3>1 DEF Verdict
    <3>3. /\ PageWaits(g)' /\ PageIsTold(g)'
          /\ IsReset(g)' => reset'[g].code \in CodeIds /\ code'[reset'[g].code].redeemed >= 1
      <4>1. c \in CodeIds /\ code'[c].redeemed >= 1 /\ c = reset[g].code
        BY <2>2, <2>3, <3>1
      <4>2. \A v \in {"ok"} : v \in {"ok", "INVALID_OTP"} /\ ~(v = "INVALID_OTP" /\ c # 0)
        OBVIOUS
      <4>3. QED
        BY <3>2, <4>1, <4>2, PageIsAnswered
    <3>4. reset'[g].code = c
      BY <1>0, <2>2, <3>2 DEF ResetStates
    <3>5. \A h \in Pages : IsReset(h) => reset[h].code # c
      BY <3>1 DEF PagesInv
    <3>6. QED
      BY <3>3, <3>4, <3>5
  <2>5. CASE c \notin LiveCodes
    <3>1. code' = code
      BY <1>7, <2>3, <2>5 DEF RedeemCode
    <3>2. reset'[g] = [reset[g] EXCEPT !.request = {}, !.answer = "INVALID_OTP"]
      BY <1>2, <2>1, <3>1 DEF Verdict
    <3>3. Dead(c)'
      BY <2>5, <3>1 DEF Dead, LiveCodes
    <3>4. PageWaits(g)' /\ PageIsTold(g)'
      BY <2>2, <3>2, <3>3, PageIsAnswered
    <3>5. ~IsReset(g)'
      BY <1>0, <3>2 DEF IsReset, ResetStates
    <3>6. QED
      BY <3>4, <3>5
  <2>6. QED
    BY <2>4, <2>5
<1>8. FindCode(r) \/ ExpireCode(r) \/ CountMiss(r) \/ RedeemCode(r)
  <2>1. ~OthersMove(r)
    BY <1>0 DEF OthersMove, Entering
  <2>2. ~SessionStep(r) /\ ~MembershipStep(r) /\ ~RequestReset(r) /\ ~ResetPassword(r)
    BY <1>0, <2>1, SessionMoves, MembershipMoves, BeginMoves
  <2>3. ~CheckCooldown(r) /\ ~ConsumeEarlierCodes(r) /\ ~CreateCode(r)
    BY <1>0 DEF CheckCooldown, ConsumeEarlierCodes, CreateCode, Entering
  <2>4. QED
    BY <2>2, <2>3 DEF ResetStep
<1>9. QED
  BY <1>5, <1>6, <1>7, <1>8, <1>4

LEMMA OneMoves ==
  ASSUME TypeOK, NEW r \in Requests, SessionStep(r) \/ MembershipStep(r) \/ ResetStep(r)
  PROVE  \A q \in Requests : q # r => req'[q] = req[q]
BY SessionMoves, MembershipMoves, ResetMoves, MoveType DEF OthersMove

LEMMA PagesServe ==
  ASSUME TypeInv, TypeInv', CodesGrow, PagesInv, NEW r \in Requests,
         SessionStep(r) \/ MembershipStep(r) \/ ResetStep(r),
         OtpMatches(r), reset' = ResetAfter(r)
  PROVE  PagesInv'
<1> DEFINE Own(g) == reset[g].request = {r}
<1>0. \A q \in Requests : q # r => req'[q] = req[q]
  BY OneMoves DEF TypeInv
<1>1. reset' \in [Pages -> ResetStates]
        /\ \A g \in Pages : reset'[g].request # {} => reset'[g].request = reset[g].request
  <2> SUFFICES ASSUME NEW g \in Pages
               PROVE  /\ reset'[g] \in ResetStates
                      /\ reset'[g].request # {} => reset'[g].request = reset[g].request
    BY DEF ResetAfter
  <2>1. reset[g] \in ResetStates /\ Verdict(r) \in {"none", "ok", "INVALID_OTP"}
    BY DEF PagesInv, Verdict
  <2>2. reset'[g] \in {reset[g], [reset[g] EXCEPT !.request = {}, !.answer = Verdict(r)]}
    BY DEF ResetAfter
  <2> HIDE DEF Own
  <2>3. QED
    BY <2>1, <2>2 DEF ResetStates
<1>2. ASSUME NEW g \in Pages, ~Own(g)
      PROVE  /\ PageWaits(g)' /\ PageIsTold(g)' /\ (IsReset(g)' <=> IsReset(g))
             /\ reset'[g] = reset[g]
             /\ IsReset(g)' => reset'[g].code \in CodeIds /\ code'[reset'[g].code].redeemed >= 1
  <2>1. reset'[g] = reset[g]
    BY <1>2 DEF ResetAfter
  <2>2. \A q \in Requests : reset[g].request = {q} => req'[q] = req[q]
    BY <1>0, <1>2
  <2>3. QED
    BY <2>1, <2>2, PageStays
<1>3. ASSUME NEW g \in Pages, Own(g)
      PROVE  /\ PageWaits(g)' /\ PageIsTold(g)'
             /\ IsReset(g)' => /\ reset'[g].code \in CodeIds /\ code'[reset'[g].code].redeemed >= 1
                               /\ \A h \in Pages : IsReset(h) => reset[h].code # reset'[g].code
  BY <1>3, OwnPageStep
<1>4. \A g, h \in Pages : Own(g) /\ Own(h) => g = h
  BY DEF PagesInv
<1>5. ASSUME NEW g \in Pages, NEW h \in Pages,
             reset'[g].request # {}, reset'[g].request = reset'[h].request
      PROVE  g = h
  BY <1>1, <1>5 DEF PagesInv
<1>6. ASSUME NEW g \in Pages, NEW h \in Pages, IsReset(g)', IsReset(h)',
             reset'[g].code = reset'[h].code
      PROVE  g = h
  <2>1. CASE ~Own(g) /\ ~Own(h)
    BY <1>2, <1>6, <2>1 DEF PagesInv
  <2>2. CASE Own(g) /\ ~Own(h)
    BY <1>2, <1>3, <1>6, <2>2
  <2>3. CASE ~Own(g) /\ Own(h)
    BY <1>2, <1>3, <1>6, <2>3
  <2>4. CASE Own(g) /\ Own(h)
    BY <1>4, <2>4
  <2>5. QED
    BY <2>1, <2>2, <2>3, <2>4
<1> HIDE DEF Own
<1>7. \A g \in Pages : /\ PageWaits(g)' /\ PageIsTold(g)'
                       /\ IsReset(g)' => reset'[g].code \in CodeIds
                                         /\ code'[reset'[g].code].redeemed >= 1
  BY <1>2, <1>3
<1>8. QED
  BY <1>1, <1>5, <1>6, <1>7 DEF PagesInv

\* One page is changed by its user, or by an answer.
LEMMA OnePageChanges ==
  ASSUME TypeInv, TypeInv', CodesGrow, PagesInv, NEW g \in Pages, NEW new \in ResetStates,
         reset' = [reset EXCEPT ![g] = new], PageWaits(g)', PageIsTold(g)',
         \A q \in Requests : req[q].pc \in Entering => req'[q] = req[q],
         \A h \in Pages : new.request # {} /\ h # g => reset[h].request # new.request,
         IsReset(g)' => IsReset(g) /\ new.code = reset[g].code
  PROVE  PagesInv'
<1>0. reset'[g] = new /\ reset' \in [Pages -> ResetStates]
  BY DEF PagesInv
<1>1. ASSUME NEW h \in Pages, h # g
      PROVE  /\ PageWaits(h)' /\ PageIsTold(h)' /\ (IsReset(h)' <=> IsReset(h))
             /\ reset'[h] = reset[h]
             /\ IsReset(h)' => reset'[h].code \in CodeIds /\ code'[reset'[h].code].redeemed >= 1
  <2>1. reset'[h] = reset[h]
    BY <1>1 DEF PagesInv
  <2>2. \A q \in Requests : reset[h].request = {q} => req'[q] = req[q]
    BY DEF PagesInv, PageWaits
  <2>3. QED
    BY <2>1, <2>2, PageStays
<1>2. ASSUME IsReset(g)'
      PROVE  reset'[g].code \in CodeIds /\ code'[reset'[g].code].redeemed >= 1
  <2> DEFINE c == reset[g].code
  <2>1. c \in CodeIds /\ code[c].redeemed >= 1 /\ code[c] \in Codes /\ code'[c] \in Codes
    BY <1>2 DEF PagesInv, TypeInv, TypeOK
  <2>2. c \in Issued
    BY <2>1 DEF TypeInv, CodeAccounts, Issued
  <2>3. code'[c].redeemed >= code[c].redeemed
    BY <2>2 DEF CodesGrow
  <2>4. code'[c].redeemed >= 1
    BY <2>1, <2>3 DEF Codes
  <2>5. QED
    BY <1>0, <1>2, <2>1, <2>4
<1>3. ASSUME NEW h \in Pages, NEW k \in Pages,
             reset'[h].request # {}, reset'[h].request = reset'[k].request
      PROVE  h = k
  BY <1>0, <1>1, <1>3 DEF PagesInv
<1>4. ASSUME NEW h \in Pages, NEW k \in Pages, IsReset(h)', IsReset(k)',
             reset'[h].code = reset'[k].code
      PROVE  h = k
  <2>1. \A e \in Pages : IsReset(e)' => IsReset(e) /\ reset'[e].code = reset[e].code
    BY <1>0, <1>1
  <2>2. QED
    BY <1>4, <2>1 DEF PagesInv
<1>5. QED
  <2>1. \A h \in Pages : /\ PageWaits(h)' /\ PageIsTold(h)'
                         /\ IsReset(h)' => reset'[h].code \in CodeIds
                                           /\ code'[reset'[h].code].redeemed >= 1
    BY <1>1, <1>2
  <2>2. QED
    BY <1>0, <1>3, <1>4, <2>1 DEF PagesInv

LEMMA PagesStep == TypeInv /\ TypeInv' /\ PagesInv /\ [ResetNext]_resetVars => PagesInv'
<1> SUFFICES ASSUME TypeInv, TypeInv', PagesInv, [ResetNext]_resetVars PROVE PagesInv'
  OBVIOUS
<1>1. /\ CodesGrow /\ TypeOK /\ req \in [Requests -> RequestStates]
      /\ reset \in [Pages -> ResetStates] /\ \A g \in Pages : PageWaits(g) /\ PageIsTold(g)
  BY CodesOnlyGrow, PagesAreClients DEF PagesInv, TypeInv, TypeOK
<1>2. CASE Serve
  BY <1>1, <1>2, PagesServe DEF Serve
<1>3. ASSUME UNCHANGED <<req, reset>> PROVE PagesInv'
  <2>1. \A g \in Pages :
          /\ PageWaits(g)' /\ PageIsTold(g)' /\ (IsReset(g)' <=> IsReset(g))
          /\ IsReset(g)' => reset'[g].code \in CodeIds /\ code'[reset'[g].code].redeemed >= 1
    BY <1>1, <1>3, PageStays
  <2>2. QED
    BY <1>3, <2>1 DEF PagesInv
<1>4. CASE \/ Elsewhere \/ AskInVain \/ ShowSent \/ ShowFailure \/ EndCountdown
           \/ UNCHANGED resetVars
  BY <1>3, <1>4 DEF Elsewhere, RevokeSession, ExpireSession, RevokeAllSessions, Deactivate,
     Activate, AgeCode, AskInVain, ShowSent, ShowFailure, EndCountdown, resetVars, vars
<1>5. ASSUME NEW r \in Requests, AskForCode(r) PROVE PagesInv'
  <2>1. /\ reset' = reset /\ req[r].pc = "idle"
        /\ \A q \in Requests : q # r => req'[q] = req[q]
    BY <1>1, <1>5 DEF AskForCode, RequestReset, Begin
  <2>2. \A g \in Pages : \A q \in Requests : reset[g].request = {q} => req'[q] = req[q]
    BY <1>1, <2>1 DEF PageWaits, Entering
  <2>3. \A g \in Pages :
          /\ PageWaits(g)' /\ PageIsTold(g)' /\ (IsReset(g)' <=> IsReset(g))
          /\ IsReset(g)' => reset'[g].code \in CodeIds /\ code'[reset'[g].code].redeemed >= 1
    BY <1>1, <2>1, <2>2, PageStays
  <2>4. QED
    BY <2>1, <2>3 DEF PagesInv
<1>6. ASSUME NEW r \in Requests, NEW g \in Pages, SubmitCode(g, r) PROVE PagesInv'
  <2>1. /\ req' = [req EXCEPT ![r] = At("find")] /\ UNCHANGED code /\ req[r].pc = "idle"
    BY <1>6 DEF SubmitCode, ResetPassword, Begin
  <2>2. PICK c \in Issued \union {0} :
          reset' = [reset EXCEPT ![g] = [view |-> "submitting", code |-> c,
                                          request |-> {r}, answer |-> "none"]]
    BY <1>6 DEF SubmitCode, Submit, Set, Enterable
  <2> DEFINE new == [view |-> "submitting", code |-> c, request |-> {r}, answer |-> "none"]
  <2>3. At("find").pc = "find"
    BY DEF At, Idle
  <2>4. req'[r].pc = "find" /\ \A q \in Requests : q # r => req'[q] = req[q]
    BY <1>1, <2>1, <2>3
  <2>5. new \in ResetStates /\ reset'[g] = new
    BY <1>1, <2>2 DEF ResetStates, Issued
  <2>6. PageWaits(g)' /\ PageIsTold(g)' /\ ~IsReset(g)'
    BY <2>1, <2>4, <2>5 DEF PageWaits, PageIsTold, IsReset, Issued, Entering
  <2>7. \A q \in Requests : req[q].pc \in Entering => req'[q] = req[q]
    BY <2>1, <2>4 DEF Entering
  <2>8. \A h \in Pages : reset[h].request # {r}
    BY <1>1, <2>1 DEF PageWaits, Entering
  <2>9. QED
    BY <1>1, <2>2, <2>5, <2>6, <2>7, <2>8, OnePageChanges
<1>7. ASSUME NEW g \in Pages, SubmitInVain(g) \/ ShowOutcome(g) \/ LoseOutcome(g) PROVE PagesInv'
  <2>1. UNCHANGED vars /\ UNCHANGED <<code, req>>
    BY <1>7 DEF SubmitInVain, ShowOutcome, LoseOutcome, vars
  <2>2. PICK new \in ResetStates :
          /\ reset' = [reset EXCEPT ![g] = new] /\ new.request = {}
          /\ \/ new.view = "submitting" /\ new.answer = "INVALID_OTP" /\ new.code = 0
             \/ /\ reset[g].answer = "ok" /\ new.view = "completed" /\ new.answer = "none"
                /\ new.code = reset[g].code
             \/ /\ reset[g].answer = "INVALID_OTP" /\ new.view = "invalid" /\ new.answer = "none"
                /\ new.code = reset[g].code
             \/ new.view = "error" /\ new.answer = "none" /\ new.code = reset[g].code
    <3>1. CASE SubmitInVain(g)
      <4> DEFINE new == [view |-> "submitting", code |-> 0, request |-> {}, answer |-> "INVALID_OTP"]
      <4>1. new \in ResetStates /\ reset' = [reset EXCEPT ![g] = new]
        BY <3>1 DEF SubmitInVain, Submit, Set, ResetStates
      <4>2. QED
        BY <4>1
    <3>2. CASE ShowOutcome(g)
      <4> DEFINE view == IF reset[g].answer = "ok" THEN "completed" ELSE "invalid"
                 new == [reset[g] EXCEPT !.view = view, !.answer = "none"]
      <4>1. /\ reset' = [reset EXCEPT ![g] = new] /\ reset[g].answer \in {"ok", "INVALID_OTP"}
            /\ reset[g] \in ResetStates /\ reset[g].request = {} /\ view \in {"completed", "invalid"}
            /\ (view = "completed") <=> (reset[g].answer = "ok")
        BY <1>1, <3>2 DEF ShowOutcome, Set, ResetStates, PageWaits
      <4> HIDE DEF view
      <4>2. /\ new \in ResetStates /\ new.request = {} /\ new.answer = "none"
            /\ new.code = reset[g].code /\ new.view = view
        BY <4>1 DEF ResetStates
      <4> HIDE DEF new
      <4>3. QED
        BY <4>1, <4>2
    <3>3. CASE LoseOutcome(g)
      <4> DEFINE new == [reset[g] EXCEPT !.view = "error", !.request = {}, !.answer = "none"]
      <4>1. /\ reset' = [reset EXCEPT ![g] = new] /\ reset[g] \in ResetStates
        BY <1>1, <3>3 DEF LoseOutcome, Set
      <4>2. /\ new \in ResetStates /\ new.request = {} /\ new.answer = "none"
            /\ new.code = reset[g].code /\ new.view = "error"
        BY <4>1 DEF ResetStates
      <4> HIDE DEF new
      <4>3. QED
        BY <4>1, <4>2
    <3>4. QED
      BY <1>7, <3>1, <3>2, <3>3
  <2>3. reset'[g] = new
    BY <1>1, <2>2
  <2>4. PageWaits(g)'
    BY <2>2, <2>3 DEF PageWaits
  <2>5. PageIsTold(g)'
    BY <1>1, <2>1, <2>2, <2>3 DEF PageIsTold, Dead, Issued, LiveCodes
  <2>6. IsReset(g)' => IsReset(g) /\ new.code = reset[g].code
    BY <2>2, <2>3 DEF IsReset
  <2>7. QED
    BY <1>1, <2>1, <2>2, <2>4, <2>5, <2>6, OnePageChanges
<1>8. QED
  BY <1>2, <1>4, <1>5, <1>6, <1>7 DEF ResetNext

\* What the pages of a forgotten password tell their user is so, however
\* requests, mails and lost answers cross: a page says that the password is
\* reset only if its code reset it, calls a code invalid only if the code is
\* dead for good, and its countdown covers the cooldown of requestReset().
THEOREM PagesTellTheTruth == ResetSpec => []ResetPagesHold
<1> DEFINE RInv == TypeInv /\ CountdownInv /\ PagesInv
<1>1. ResetInit => RInv
  BY TypeInit, CountdownInit, PagesInit DEF ResetInit
<1>2. RInv /\ [ResetNext]_resetVars => RInv'
  BY TypeStep, PagesAreClients, CountdownStep, PagesStep
<1>3. RInv => ResetPagesHold
  <2> SUFFICES ASSUME TypeInv, CountdownInv, PagesInv PROVE ResetPagesHold
    OBVIOUS
  <2>1. ASSUME NEW c \in CodeIds
        PROVE  Cardinality({g \in Pages : reset[g].view = "completed" /\ reset[g].code = c})
                 <= code[c].redeemed
    <3> DEFINE Done == {g \in Pages : reset[g].view = "completed" /\ reset[g].code = c}
    <3>1. code[c].redeemed \in Nat
      BY DEF TypeInv, TypeOK, Codes
    <3>2. CASE Done = {}
      <4>1. Cardinality(Done) = 0
        BY <3>2, FS_EmptySet
      <4>2. QED
        BY <3>1, <4>1
    <3>3. CASE Done # {}
      <4>1. PICK g \in Pages : reset[g].view = "completed" /\ reset[g].code = c
        BY <3>3
      <4>2. Done = {g}
        BY <4>1 DEF PagesInv, IsReset
      <4>3. Cardinality(Done) = 1
        BY <4>2, FS_Singleton
      <4>4. code[c].redeemed >= 1
        BY <4>1 DEF PagesInv, IsReset
      <4>5. QED
        BY <3>1, <4>3, <4>4
    <3>4. QED
      BY <3>2, <3>3
  <2>2. RefusedCodeIsDead
    BY DEF PagesInv, PageIsTold, Dead, RefusedCodeIsDead
  <2>3. CountdownSuffices
    BY DEF CountdownInv, CountdownSuffices
  <2>4. QED
    BY <2>1, <2>2, <2>3 DEF CompletedMeansReset, ResetPagesHold
<1>4. QED
  BY <1>1, <1>2, <1>3, PTL DEF ResetSpec

=============================================================================
