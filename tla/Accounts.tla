------------------------------ MODULE Accounts ------------------------------
(***************************************************************************)
(* The account of one tenant user: its membership, its sessions and its    *)
(* password-reset codes, as AuthService, SessionsService and               *)
(* PasswordResetService (apps/backend/src/modules/auth) and                *)
(* AccountLifecycleService, UsersAdminService and UserDeletionService      *)
(* (apps/backend/src/modules/users) read and write them.                   *)
(*                                                                         *)
(* A request is a sequence of statements and transactions; between two of  *)
(* them it keeps what it has read, and other requests run.  A transaction  *)
(* is one action, except the one that issues a reset code: its two         *)
(* statements lock no row when no code is live, so two of them overlap.    *)
(* Requests that change nothing (a wrong password, an unknown token) are   *)
(* left out, and so are the tenant's own status, which login and refresh   *)
(* check as they check the account's, and the hashes: only whether the     *)
(* password is a temporary one is kept.                                    *)
(***************************************************************************)
EXTENDS Naturals, FiniteSets

CONSTANTS
  Requests,     \* the requests under way at the same time
  Workloads,    \* sets of operations that the clients of a behaviour call
  MaxSessions,  \* bound on the number of rows in refresh_tokens
  MaxCodes,     \* bound on the number of rows in password_reset_otps
  MaxAttempts   \* PASSWORD_RESET_OTP_MAX_ATTEMPTS

Operations ==
  {"login", "refresh", "logout", "revokeSession", "revokeAllSessions",
   "changePassword", "requestReset", "resetPassword",
   "approve", "lock", "unlock", "softDelete",
   "deactivate", "activate", "forceResetPassword"}

ASSUME ConstantsAssumption ==
  /\ IsFiniteSet(Requests)
  /\ Workloads \subseteq SUBSET Operations
  /\ MaxSessions \in Nat /\ MaxCodes \in Nat
  /\ MaxAttempts \in Nat \ {0}

SessionIds == 1 .. MaxSessions
CodeIds == 1 .. MaxCodes
Statuses == {"pending_approval", "active", "locked", "deleted"}

\* What a request does next.
Phases ==
  {"idle", "issue", "rotate", "resolve", "kill", "logout", "change",
   "approve", "lock", "unlock", "softDelete", "burn",
   "cooldown", "consume", "create", "find", "expire", "miss", "redeem"}

VARIABLES
  workload,    \* the operations clients call
  status,      \* tenant_users.status
  active,      \* tenant_users.isActive
  mustChange,  \* auth_accounts.mustChangePassword
  session,     \* the rows of refresh_tokens, in the order they were inserted
  code,        \* the rows of password_reset_otps, in that order
  req,         \* the requests under way, and what they have read
  late         \* sessions inserted since the account was made inactive

vars == <<workload, status, active, mustChange, session, code, req, late>>
memberVars == <<status, active, late>>

\* "login" is the first session of the chain of refreshes a session ends.
\* An expired token is one past its expiresAt whose revokedAt is null.
Sessions == [state : {"none", "live", "expired", "revoked"},
             login : {0} \union SessionIds]
NoSession == [state |-> "none", login |-> 0]

\* A code's age: younger than the cooldown, older, past its expiresAt.
\* "redeemed" counts the passwords it has set.
Codes == [state : {"none", "live", "consumed"}, age : 0 .. 2,
          attempts : 0 .. MaxAttempts, redeemed : Nat]
NoCode == [state |-> "none", age |-> 0, attempts |-> 0, redeemed |-> 0]

RequestStates == [pc : Phases, session : {0} \union SessionIds,
                  code : {0} \union CodeIds, attempts : 0 .. MaxAttempts]
Idle == [pc |-> "idle", session |-> 0, code |-> 0, attempts |-> 0]
At(phase) == [Idle EXCEPT !.pc = phase]

Init ==
  /\ workload \in Workloads
  /\ \/ status = "pending_approval" /\ active = FALSE
     \/ status = "active" /\ active = TRUE
  /\ mustChange \in BOOLEAN
  /\ session = [s \in SessionIds |-> NoSession]
  /\ code = [c \in CodeIds |-> NoCode]
  /\ req = [r \in Requests |-> Idle]
  /\ late = 0

-----------------------------------------------------------------------------
(* Rows and requests *)

Unrevoked(s) == session[s].state \in {"live", "expired"}
LiveCodes == {c \in CodeIds : code[c].state = "live"}
Issued == {c \in CodeIds : code[c].state # "none"}

\* refreshToken.updateMany: revoke the unrevoked rows but the spared ones.
RevokeAllBut(spared) ==
  session' = [s \in SessionIds |->
                IF Unrevoked(s) /\ s \notin spared
                  THEN [session[s] EXCEPT !.state = "revoked"] ELSE session[s]]

Revoke(s) == session' = [session EXCEPT ![s].state = "revoked"]

\* passwordResetOtp.updateMany: consume every live code.
ConsumeLiveCodes ==
  code' = [c \in CodeIds |->
             IF c \in LiveCodes THEN [code[c] EXCEPT !.state = "consumed"]
                                ELSE code[c]]

Begin(r, op, next) ==
  /\ op \in workload
  /\ req[r].pc = "idle"
  /\ req' = [req EXCEPT ![r] = next]

Continue(r, phase, next) ==
  /\ req[r].pc = phase
  /\ req' = [req EXCEPT ![r] = next]

Finish(r, phase) == Continue(r, phase, Idle)

\* The bounds MaxSessions and MaxCodes: a request that may insert a row
\* begins only while a row is left for it.
RoomForSession ==
  Cardinality({r \in Requests : req[r].pc \in {"rotate", "resolve", "issue"}})
    < Cardinality({s \in SessionIds : session[s].state = "none"})
RoomForCode ==
  Cardinality({r \in Requests : req[r].pc \in {"cooldown", "consume", "create"}})
    < Cardinality(CodeIds \ Issued)

-----------------------------------------------------------------------------
(* AuthService: login, refresh, logout, changePassword *)

\* login(): the account is active and the password that was read with it
\* matches.
Login(r) ==
  /\ Begin(r, "login", At("issue"))
  /\ active
  /\ RoomForSession
  /\ UNCHANGED <<workload, memberVars, mustChange, session, code>>

\* issueTokens(): the row of the new session.
IssueTokens(r) ==
  /\ Finish(r, "issue")
  /\ \E s \in SessionIds :
       /\ session[s].state = "none"
       /\ \A t \in SessionIds : t < s => session[t].state # "none"
       /\ session' = [session EXCEPT ![s] =
            [state |-> "live",
             login |-> IF req[r].session = 0 THEN s
                                             ELSE session[req[r].session].login]]
  /\ late' = IF active THEN late ELSE late + 1
  /\ UNCHANGED <<workload, status, active, mustChange, code>>

\* refresh(): a revoked token is a reused one, an expired one is refused.
ReadRefreshToken(r, s) ==
  /\ \/ /\ session[s].state = "revoked"
        /\ Begin(r, "refresh", At("kill"))
     \/ /\ session[s].state = "live"
        /\ RoomForSession
        /\ Begin(r, "refresh", [At("rotate") EXCEPT !.session = s])
  /\ UNCHANGED <<workload, memberVars, mustChange, session, code>>

KillSessions(r) ==
  /\ Finish(r, "kill")
  /\ RevokeAllBut({})
  /\ UNCHANGED <<workload, memberVars, mustChange, code>>

RotateTokenUnconditionally(r) ==
  /\ Continue(r, "rotate", [req[r] EXCEPT !.pc = "resolve"])
  /\ Revoke(req[r].session)
  /\ UNCHANGED <<workload, memberVars, mustChange, code>>

\* The conditional revoke: the request that flips the row goes on.
RotateToken(r) ==
  /\ req[r].pc = "rotate"
  /\ IF Unrevoked(req[r].session)
       THEN /\ Continue(r, "rotate", [req[r] EXCEPT !.pc = "resolve"])
            /\ Revoke(req[r].session)
       ELSE /\ Finish(r, "rotate")
            /\ UNCHANGED session
  /\ UNCHANGED <<workload, memberVars, mustChange, code>>

ResolveActorOfAnyone(r) ==
  /\ Continue(r, "resolve", [req[r] EXCEPT !.pc = "issue"])
  /\ UNCHANGED <<workload, memberVars, mustChange, session, code>>

ResolveActor(r) ==
  /\ IF active THEN Continue(r, "resolve", [req[r] EXCEPT !.pc = "issue"])
               ELSE Finish(r, "resolve")
  /\ UNCHANGED <<workload, memberVars, mustChange, session, code>>

\* logout() reads the token, and revokes it without a condition.
ReadLogoutToken(r, s) ==
  /\ Unrevoked(s)
  /\ Begin(r, "logout", [At("logout") EXCEPT !.session = s])
  /\ UNCHANGED <<workload, memberVars, mustChange, session, code>>

RevokeToken(r) ==
  /\ Finish(r, "logout")
  /\ Revoke(req[r].session)
  /\ UNCHANGED <<workload, memberVars, mustChange, code>>

\* changePassword(), called with an access token of session s: the current
\* password matches the hash that is read here.
ReadPasswordHash(r, s) ==
  /\ session[s].state # "none"
  /\ Begin(r, "changePassword", [At("change") EXCEPT !.session = s])
  /\ UNCHANGED <<workload, memberVars, mustChange, session, code>>

CommitChange(r) ==
  /\ Finish(r, "change")
  /\ mustChange' = FALSE
  /\ RevokeAllBut({req[r].session})
  /\ UNCHANGED <<workload, memberVars, code>>

-----------------------------------------------------------------------------
(* SessionsService; both are one statement that changes something *)

RevokeSession(s) ==
  /\ "revokeSession" \in workload
  /\ Unrevoked(s)
  /\ Revoke(s)
  /\ UNCHANGED <<workload, memberVars, mustChange, code, req>>

\* keepCurrent spares the session the access token names.
RevokeAllSessions(spared) ==
  /\ "revokeAllSessions" \in workload
  /\ RevokeAllBut(spared)
  /\ UNCHANGED <<workload, memberVars, mustChange, code, req>>

ExpireSession(s) ==
  /\ session[s].state = "live"
  /\ session' = [session EXCEPT ![s].state = "expired"]
  /\ UNCHANGED <<workload, memberVars, mustChange, code, req>>

-----------------------------------------------------------------------------
(* The membership: UsersAdminService, UserDeletionService and              *)
(* AccountLifecycleService *)

SetActive(b) ==
  /\ active' = b
  /\ late' = IF active \/ b THEN 0 ELSE late

\* The statuses an operation is legal in.
LegalIn == [approve |-> {"pending_approval"}, lock |-> {"active"},
            unlock |-> {"locked"}, softDelete |-> Statuses \ {"deleted"}]
Target == [approve |-> "active", lock |-> "locked", unlock |-> "active",
           softDelete |-> "deleted"]

\* resolveTenantTarget(), resolveSource(): the status is read and checked.
ReadMembership(r, op) ==
  /\ status \in LegalIn[op]
  /\ Begin(r, op, At(op))
  /\ UNCHANGED <<workload, memberVars, mustChange, session, code>>

\* approveUser() and unlockUser() write both columns whatever they are now;
\* lockUser() and softDelete() revoke every session in the same transaction.
WriteMembership(r, op) ==
  /\ Finish(r, op)
  /\ status' = Target[op]
  /\ SetActive(op \in {"approve", "unlock"})
  /\ IF op \in {"approve", "unlock"} THEN UNCHANGED session
                                     ELSE RevokeAllBut({})
  /\ UNCHANGED <<workload, mustChange, code>>

\* deactivate() and activate() look at no status.
Deactivate ==
  /\ "deactivate" \in workload
  /\ SetActive(FALSE)
  /\ RevokeAllBut({})
  /\ UNCHANGED <<workload, status, mustChange, code, req>>

Activate ==
  /\ "activate" \in workload
  /\ SetActive(TRUE)
  /\ UNCHANGED <<workload, status, mustChange, session, code, req>>

\* forceResetPassword(): the transaction, and the codes burnt after it.
ForceResetPassword(r) ==
  /\ Begin(r, "forceResetPassword", At("burn"))
  /\ mustChange' = TRUE
  /\ RevokeAllBut({})
  /\ UNCHANGED <<workload, memberVars, code>>

BurnCodes(r) ==
  /\ Finish(r, "burn")
  /\ ConsumeLiveCodes
  /\ UNCHANGED <<workload, memberVars, mustChange, session>>

-----------------------------------------------------------------------------
(* PasswordResetService.requestReset() *)

RequestReset(r) ==
  /\ Begin(r, "requestReset", At("cooldown"))
  /\ active
  /\ RoomForCode
  /\ UNCHANGED <<workload, memberVars, mustChange, session, code>>

\* isWithinCooldown() looks at the latest code, consumed or not.
CheckCooldown(r) ==
  /\ IF \E c \in Issued : code[c].age = 0 /\ \A d \in Issued : d <= c
       THEN Finish(r, "cooldown")
       ELSE Continue(r, "cooldown", At("consume"))
  /\ UNCHANGED <<workload, memberVars, mustChange, session, code>>

ConsumeEarlierCodes(r) ==
  /\ Continue(r, "consume", At("create"))
  /\ ConsumeLiveCodes
  /\ UNCHANGED <<workload, memberVars, mustChange, session>>

CreateCode(r) ==
  /\ Finish(r, "create")
  /\ \E c \in CodeIds :
       /\ c \notin Issued
       /\ \A d \in CodeIds : d < c => d \in Issued
       /\ code' = [code EXCEPT ![c] = [NoCode EXCEPT !.state = "live"]]
  /\ UNCHANGED <<workload, memberVars, mustChange, session>>

\* Time passes; a code is never older than the one before it.
AgeCode(c) ==
  /\ c \in Issued /\ code[c].age < 2
  /\ \A d \in Issued : d < c => code[c].age < code[d].age
  /\ code' = [code EXCEPT ![c].age = @ + 1]
  /\ UNCHANGED <<workload, memberVars, mustChange, session, req>>

-----------------------------------------------------------------------------
(* PasswordResetService.resetPassword() *)

\* resolveActor(): an inactive account is told that there is no code.
ResetPassword(r) ==
  /\ Begin(r, "resetPassword", At("find"))
  /\ active
  /\ UNCHANGED <<workload, memberVars, mustChange, session, code>>

\* The latest live code; the submitted one is it or is not.
FindCode(r) ==
  /\ \/ /\ LiveCodes = {}
        /\ Finish(r, "find")
     \/ \E c \in LiveCodes :
          /\ \A d \in LiveCodes : d <= c
          /\ \E phase \in IF code[c].age = 2 THEN {"expire"}
                                             ELSE {"miss", "redeem"} :
               Continue(r, "find", [At(phase) EXCEPT !.code = c,
                                      !.attempts = code[c].attempts])
  /\ UNCHANGED <<workload, memberVars, mustChange, session, code>>

ExpireCode(r) ==
  /\ Finish(r, "expire")
  /\ code' = IF req[r].code \in LiveCodes
               THEN [code EXCEPT ![req[r].code].state = "consumed"] ELSE code
  /\ UNCHANGED <<workload, memberVars, mustChange, session>>

\* The code after a failed attempt, of which "before" were counted.
AfterMiss(c, before) ==
  [code[c] EXCEPT !.attempts = before + 1,
                  !.state = IF before + 1 >= MaxAttempts THEN "consumed" ELSE @]

CountMissUnguarded(r) ==
  LET c == req[r].code IN
  /\ Finish(r, "miss")
  /\ code' = IF c \in LiveCodes
               THEN [code EXCEPT ![c] = AfterMiss(c, req[r].attempts)] ELSE code
  /\ UNCHANGED <<workload, memberVars, mustChange, session>>

CountMissOffByOne(r) ==
  LET c == req[r].code IN
  /\ Finish(r, "miss")
  /\ code' = IF c \in LiveCodes /\ code[c].attempts = req[r].attempts
               THEN [code EXCEPT ![c] = AfterMiss(c, req[r].attempts),
                                 ![c].state = IF req[r].attempts + 1 > MaxAttempts
                                                THEN "consumed" ELSE "live"]
               ELSE code
  /\ UNCHANGED <<workload, memberVars, mustChange, session>>

\* A failed attempt is counted unless another was counted since the read.
CountMiss(r) ==
  LET c == req[r].code IN
  /\ Finish(r, "miss")
  /\ code' = IF c \in LiveCodes /\ code[c].attempts = req[r].attempts
               THEN [code EXCEPT ![c] = AfterMiss(c, req[r].attempts)] ELSE code
  /\ UNCHANGED <<workload, memberVars, mustChange, session>>

RedeemCodeAgain(r) ==
  /\ Finish(r, "redeem")
  /\ code' = [code EXCEPT ![req[r].code].state = "consumed",
                          ![req[r].code].redeemed = @ + 1]
  /\ mustChange' = FALSE
  /\ RevokeAllBut({})
  /\ UNCHANGED <<workload, memberVars>>

\* The transaction of a reset: the request that consumes the code sets the
\* password and revokes every session.
RedeemCode(r) ==
  /\ Finish(r, "redeem")
  /\ IF req[r].code \in LiveCodes
       THEN /\ code' = [code EXCEPT ![req[r].code].state = "consumed",
                                    ![req[r].code].redeemed = @ + 1]
            /\ mustChange' = FALSE
            /\ RevokeAllBut({})
       ELSE UNCHANGED <<code, mustChange, session>>
  /\ UNCHANGED <<workload, memberVars>>

-----------------------------------------------------------------------------
SessionStep(r) ==
  \/ Login(r) \/ IssueTokens(r)
  \/ KillSessions(r) \/ RotateToken(r) \/ ResolveActor(r)
  \/ RevokeToken(r) \/ CommitChange(r)
  \/ \E s \in SessionIds :
       ReadRefreshToken(r, s) \/ ReadLogoutToken(r, s) \/ ReadPasswordHash(r, s)

MembershipStep(r) ==
  \/ \E op \in DOMAIN Target : ReadMembership(r, op) \/ WriteMembership(r, op)
  \/ ForceResetPassword(r) \/ BurnCodes(r)

ResetStep(r) ==
  \/ RequestReset(r) \/ CheckCooldown(r) \/ ConsumeEarlierCodes(r) \/ CreateCode(r)
  \/ ResetPassword(r) \/ FindCode(r) \/ ExpireCode(r) \/ CountMiss(r) \/ RedeemCode(r)

Next ==
  \/ \E r \in Requests : SessionStep(r) \/ MembershipStep(r) \/ ResetStep(r)
  \/ \E s \in SessionIds : RevokeSession(s) \/ ExpireSession(s)
  \/ RevokeAllSessions({})
  \/ \E s \in SessionIds : session[s].state # "none" /\ RevokeAllSessions({s})
  \/ Deactivate \/ Activate
  \/ \E c \in CodeIds : AgeCode(c)

Spec == Init /\ [][Next]_vars

-----------------------------------------------------------------------------
\* The variables have their types.  No counter of failed attempts leaves its
\* range, whatever requests read the same row (password-reset.service.ts).
TypeOK ==
  /\ workload \in Workloads
  /\ status \in Statuses /\ active \in BOOLEAN /\ mustChange \in BOOLEAN
  /\ session \in [SessionIds -> Sessions]
  /\ code \in [CodeIds -> Codes]
  /\ req \in [Requests -> RequestStates]
  /\ late \in Nat

\* However refreshes of one token, logouts and revocations interleave, the
\* chain of refreshes that began with a login ends in at most one unrevoked
\* session: the conditional update of refresh() lets one request go on.
OneLiveSessionPerLogin ==
  \A s, t \in SessionIds :
    Unrevoked(s) /\ Unrevoked(t) /\ session[s].login = session[t].login => s = t

\* lockUser(), deactivate() and softDelete() cannot end the sessions of
\* requests that have already found the account active: those insert theirs
\* afterwards.  There are never more of them than such requests, since a
\* session of an inactive account is not refreshed.
LateSessionsAreBounded ==
  late + Cardinality({r \in Requests : req[r].pc = "issue" /\ ~active})
    <= Cardinality(Requests)

\* A reset code sets at most one password, however many requests have found
\* it live and compared it (resetPassword()).
CodeRedeemedOnce == \A c \in CodeIds : code[c].redeemed <= 1

\* A code whose attempts are used up is consumed: no request finds it again.
SpentCodeIsConsumed == \A c \in LiveCodes : code[c].attempts < MaxAttempts

\* Requests that have read an old counter never set it back: the attempts of
\* a code only grow (the optimistic guard of resetPassword()).
AttemptsNeverGoBack ==
  [][\A c \in CodeIds : code'[c].attempts >= code[c].attempts]_vars

\* Overlapping requestReset() transactions do not see each other's codes, so
\* several may be live; but every request consumes the earlier ones before it
\* creates its own, so there is at most one for every overlapping request.
LiveCodesAreBounded == Cardinality(LiveCodes) <= Cardinality(Requests)

\* A reset code opens an account once, and not at all after its attempts.
CodesAreOneShot ==
  /\ CodeRedeemedOnce
  /\ SpentCodeIsConsumed

\* What overlapping requests can leave behind is bounded by their number.
RacesAreBounded ==
  /\ LateSessionsAreBounded
  /\ LiveCodesAreBounded

=============================================================================
