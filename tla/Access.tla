------------------------------- MODULE Access -------------------------------
(***************************************************************************)
(* Who may do what, for how long, in one tenant: access tokens and their   *)
(* snapshots (AuthService.issueTokens(), JwtAuthGuard, PermissionsGuard),  *)
(* support sessions (ImpersonationService), the tenant's settings with the *)
(* consent to support (TenantSettingsService, SelfRegistrationSettings-    *)
(* Page) and the roles of a user (UsersAdminService.updateUser()).         *)
(*                                                                         *)
(* An action is one statement, or one call the code awaits; what a request *)
(* has read is in req[r].  There is one user, whose tokens and whose       *)
(* support sessions are modelled; administrators, whose permission is      *)
(* checked in the same way, are not.  Time passes in ticks; no statement   *)
(* takes longer than MaxDelay, and the clocks of processes and database    *)
(* agree.                                                                  *)
(***************************************************************************)
EXTENDS Integers, FiniteSets

CONSTANTS
  Requests,     \* the requests under way at the same time
  Worlds,       \* the tenants, clients and administrators to consider
  Perms,        \* codes of permissions
  Roles,        \* roles of the tenant
  PermsOf,      \* the permissions of each role
  TTL,          \* JWT_ACCESS_EXPIRES_IN, IMPERSONATION_TTL_SECONDS: 15 minutes
  MaxDelay,     \* how long one statement takes at most
  MaxSessions   \* bound on impersonation sessions

Calls == {"login", "refresh", "start", "end", "use", "patch", "page", "updateUser"}
Outside == {"account", "tenant"}

Consent == "allowSystemImpersonation"
PageFields == {"allowSelfRegistration", "requireApproval"}
Fields == PageFields \union {Consent}
Settings == [Fields -> BOOLEAN]

\* What a tenant that has never been configured runs under.
DEFAULT_SETTINGS == [f \in Fields |-> f = "requireApproval"]

SessionIds == 1 .. MaxSessions
NoSession == 0

\* A world: the calls that are made and how many, what administrators change
\* from outside, the user's first roles and whether the user has signed in, the
\* consent, the fields that are named in bodies, and how long it lasts.
ASSUME ConstantsAssumption ==
  /\ PermsOf \in [Roles -> SUBSET Perms]
  /\ {"consent", "account"} \intersect Perms = {}
  /\ TTL \in Nat \ {0} /\ MaxDelay \in Nat \ {0} /\ MaxSessions \in Nat
  /\ \A w \in Worlds :
       /\ w = [field \in DOMAIN w |-> w[field]]
       /\ {"calls", "left", "outside", "roles", "named", "signedIn", "settings", "time"}
            \subseteq DOMAIN w
       /\ w.calls \subseteq Calls /\ w.left \in Nat
       /\ w.outside \subseteq Outside
       /\ w.roles \subseteq Roles
       /\ w.named \subseteq Fields /\ w.signedIn \in BOOLEAN
       /\ w.settings \subseteq {[f \in Fields |-> IF f = Consent THEN TRUE
                                                    ELSE DEFAULT_SETTINGS[f]]}
       /\ w.time \in Nat

VARIABLES
  world,     \* the world, with the calls that may still be made
  now,       \* the time
  tenant,    \* whether tenants.status is ACTIVE
  settings,  \* the row of tenant_settings, if there is one
  account,   \* isActive of the account and its membership, and its roles
  session,   \* impersonation_sessions
  tokens,    \* the access tokens that clients have
  req,       \* the requests under way
  page,      \* SelfRegistrationSettingsPage
  until,     \* for the properties: when what justifies an access last held
  last       \* for the properties: what each setting was last set to

vars == <<world, now, tenant, settings, account, session, tokens, req, page, until, last>>
rows == <<tenant, settings, account, session, tokens, until, last>>

\* The start of time leaves room for everything to have ended long ago.
Start == TTL + 3 * MaxDelay + 1

Grounds == {"consent", "account"} \union Perms
Held(roles) == UNION {PermsOf[x] : x \in roles}

NoRow == [f \in {} |-> FALSE]
Idle == [pc |-> "idle", call |-> "none", since |-> 0, todo |-> {}, perms |-> {},
         active |-> FALSE, session |-> NoSession, exp |-> 0, perm |-> "none",
         change |-> NoRow, before |-> DEFAULT_SETTINGS, found |-> FALSE,
         roles |-> {}, lag |-> 0]

Init ==
  /\ world \in Worlds
  /\ now = Start
  /\ tenant = TRUE
  /\ settings \in IF world.settings = {} THEN {NoRow} ELSE world.settings
  /\ account = [active |-> TRUE, roles |-> world.roles]
  /\ session = [s \in SessionIds |->
                  [made |-> FALSE, expiresAt |-> 0, endedAt |-> 0,
                   started |-> "no", served |-> FALSE, ends |-> 0]]
  /\ tokens = IF world.signedIn
                THEN {[session |-> NoSession, perms |-> Held(world.roles), exp |-> now + TTL]}
                ELSE {}
  /\ req = [r \in Requests |-> Idle]
  /\ page = [pc |-> "closed", draft |-> [f \in PageFields |-> FALSE]]
  /\ until = [g \in Grounds |-> 0]
  /\ last = [f \in Fields |-> IF settings = NoRow THEN DEFAULT_SETTINGS[f]
                                                   ELSE settings[f]]

-----------------------------------------------------------------------------
(* Requests *)

\* fromRow(): a tenant without a row has the default policy.
EffectiveSettings == IF settings = NoRow THEN DEFAULT_SETTINGS ELSE settings

Arrives(r, call) ==
  /\ call \in world.calls /\ world.left > 0
  /\ req[r].pc = "idle"
  /\ world' = [world EXCEPT !.left = @ - 1]

Begin(r, call, q) ==
  /\ Arrives(r, call)
  /\ req' = [req EXCEPT ![r] = [q EXCEPT !.call = call, !.since = now]]
  /\ UNCHANGED <<now, rows>>

\* The request sends its next statement.
Send(r, q) == req' = [req EXCEPT ![r] = [q EXCEPT !.since = now]]
Goto(r, pc) == Send(r, [req[r] EXCEPT !.pc = pc])
Answer(r) == req' = [req EXCEPT ![r] = Idle]

\* The request goes on if the condition holds, and is refused if not.
Require(r, condition, q) == IF condition THEN Send(r, q) ELSE Answer(r)

At(r, pc) == req[r].pc = pc /\ UNCHANGED <<world, now, page>>

-----------------------------------------------------------------------------
(* Sessions of the user: login(), refresh(), issueTokens() *)

Login(r) == Begin(r, "login", [Idle EXCEPT !.pc = "actor"]) /\ UNCHANGED page

\* Accounts has which refresh tokens are accepted: here, any.
Refresh(r) ==
  /\ \E t \in tokens : t.session = NoSession
  /\ Begin(r, "refresh", [Idle EXCEPT !.pc = "actor"])
  /\ UNCHANGED page

\* mapTenantUserToActor() and flattenPermissions(): what the actor is at
\* this moment.
Snapshot(q) ==
  [q EXCEPT !.pc = "tenant", !.active = account.active, !.perms = Held(account.roles)]

ResolveTenantActor(r) ==
  /\ At(r, "actor") /\ req[r].call = "login"
  /\ Send(r, Snapshot(req[r]))
  /\ UNCHANGED rows

\* A mutant: a refreshed token has the permissions of the old one.
KeepPermissions(r) ==
  /\ At(r, "actor") /\ req[r].call = "refresh"
  /\ \E t \in tokens :
       Send(r, [Snapshot(req[r]) EXCEPT !.perms = t.perms])
  /\ UNCHANGED rows

\* A refresh reads the actor's permissions again.
ResolveActorByAuthAccountId(r) ==
  /\ At(r, "actor") /\ req[r].call = "refresh"
  /\ Send(r, Snapshot(req[r]))
  /\ UNCHANGED rows

IsTenantActive(r) ==
  /\ At(r, "tenant")
  /\ Require(r, tenant /\ req[r].active, [req[r] EXCEPT !.pc = "issue"])
  /\ UNCHANGED rows

\* The refresh token is stored, and then the access token is signed.
IssueTokens(r) ==
  /\ At(r, "issue")
  /\ tokens' = tokens \union
       {[session |-> NoSession, perms |-> req[r].perms, exp |-> now + TTL]}
  /\ Answer(r)
  /\ UNCHANGED <<tenant, settings, account, session, until, last>>

-----------------------------------------------------------------------------
(* Support sessions: ImpersonationService *)

StartImpersonation(r) ==
  /\ \E s \in SessionIds : ~session[s].made
  /\ Begin(r, "start", [Idle EXCEPT !.pc = "reads",
                                    !.todo = {"target", "tenant", "settings"}])
  /\ UNCHANGED page

\* One of the three reads of a Promise.all is done; a request that will be
\* refused in the end is refused at once.
HasRead(r, what, condition, q) ==
  /\ At(r, "reads") /\ what \in req[r].todo
  /\ IF ~condition THEN Answer(r)
     ELSE IF req[r].todo = {what} THEN Send(r, [q EXCEPT !.todo = {}, !.pc = "create"])
     ELSE req' = [req EXCEPT ![r] = [q EXCEPT !.todo = @ \ {what}]]
  /\ UNCHANGED rows

FindTarget(r) ==
  HasRead(r, "target", account.active, [req[r] EXCEPT !.perms = Held(account.roles)])
FindActiveTenant(r) == HasRead(r, "tenant", tenant, req[r])

FindConsent(r) == HasRead(r, "settings", settings # NoRow /\ settings[Consent], req[r])

\* A mutant: the session lives on from the end of a token's life.
CreateLongSession(r) ==
  /\ At(r, "create")
  /\ \E s \in SessionIds :
       /\ ~session[s].made
       /\ session' = [session EXCEPT ![s].made = TRUE,
                                     ![s].expiresAt = now + TTL + TTL]
       /\ Send(r, [req[r] EXCEPT !.pc = "record", !.session = s, !.exp = now + TTL])
  /\ UNCHANGED <<tenant, settings, account, tokens, until, last>>

\* expiresAt counts from the moment the statement is sent.
CreateSession(r) ==
  /\ At(r, "create")
  /\ \E s \in SessionIds :
       /\ ~session[s].made
       /\ \A x \in SessionIds : x < s => session[x].made
       /\ session' = [session EXCEPT ![s].made = TRUE,
                                     ![s].expiresAt = req[r].since + TTL]
       /\ Send(r, [req[r] EXCEPT !.pc = "record", !.session = s, !.exp = now + TTL])
  /\ UNCHANGED <<tenant, settings, account, tokens, until, last>>

\* Best effort: AuthAuditService.record() logs and swallows an insert that
\* fails.
Recordings == {"recorded", "missed"}

\* The token was signed; it is returned when the insert of its start is done,
\* or has failed.
RecordStarted(r) ==
  /\ At(r, "record") /\ req[r].call = "start"
  /\ \E recording \in Recordings :
       session' = [session EXCEPT ![req[r].session].started = recording]
  /\ tokens' = tokens \union
       {[session |-> req[r].session, perms |-> req[r].perms, exp |-> req[r].exp]}
  /\ Answer(r)
  /\ UNCHANGED <<tenant, settings, account, until, last>>

\* updateMany({ ..., endedAt: null }): of several calls one ends the session.
EndImpersonation(r) ==
  LET s == req[r].session
  IN  /\ At(r, "end")
      /\ IF session[s].endedAt = 0
           THEN session' = [session EXCEPT ![s].endedAt = now] /\ Goto(r, "record")
           ELSE Answer(r) /\ UNCHANGED session
      /\ UNCHANGED <<tenant, settings, account, tokens, until, last>>

RecordEnded(r) ==
  /\ At(r, "record") /\ req[r].call = "end"
  /\ \E recording \in Recordings :
       session' = [session EXCEPT ![req[r].session].ends =
                     IF recording = "recorded" THEN @ + 1 ELSE @]
  /\ Answer(r)
  /\ UNCHANGED <<tenant, settings, account, tokens, until, last>>

-----------------------------------------------------------------------------
(* Requests with an access token: JwtAuthGuard and PermissionsGuard *)

\* verifyAsync(): the signature and exp.
Present(r, call, t, perm) ==
  /\ now < t.exp
  /\ Begin(r, call,
       [Idle EXCEPT !.pc = IF t.session = NoSession THEN "activeTenant" ELSE "liveSession",
                    !.session = t.session, !.perms = t.perms, !.perm = perm])
  /\ UNCHANGED page

UseToken(r) == \E t \in tokens, p \in Perms : Present(r, "use", t, p)
Exit(r) == \E t \in tokens : t.session # NoSession /\ Present(r, "end", t, "none")

AssertValidImpersonation(r) ==
  LET s == session[req[r].session]
  IN  /\ At(r, "liveSession")
      /\ Require(r, s.endedAt = 0 /\ s.expiresAt > now, [req[r] EXCEPT !.pc = "activeTenant"])
      /\ UNCHANGED rows

\* How long ago something that justifies the access was last so.
Holds(g) ==
  CASE g = "consent" -> EffectiveSettings[Consent]
    [] g = "account" -> account.active
    [] OTHER -> g \in Held(account.roles)
Lag(g) == IF Holds(g) THEN 0 ELSE now - until[g]

GroundsOf(q) ==
  {"account", q.perm} \union (IF q.session = NoSession THEN {} ELSE {"consent"})
WorstLag(q) ==
  CHOOSE n \in {Lag(g) : g \in GroundsOf(q)} : \A g \in GroundsOf(q) : Lag(g) <= n

\* The last check of the guard, and PermissionsGuard, which looks at the
\* token.
AssertActiveTenant(r) ==
  LET q == req[r]
  IN  /\ At(r, "activeTenant")
      /\ IF q.call = "end"
           THEN Require(r, tenant, [q EXCEPT !.pc = "end"])
           ELSE Require(r, tenant /\ q.perm \in q.perms,
                        [q EXCEPT !.pc = "handle", !.lag = WorstLag(q)])
      /\ UNCHANGED rows

Handle(r) ==
  LET s == req[r].session
  IN  /\ At(r, "handle")
      /\ session' = IF s = NoSession THEN session
                                     ELSE [session EXCEPT ![s].served = TRUE]
      /\ Answer(r)
      /\ UNCHANGED <<tenant, settings, account, tokens, until, last>>

-----------------------------------------------------------------------------
(* Settings: TenantSettingsService.updateSettings() and the page *)

Named(q) == DOMAIN q.change

\* The body names the fields it changes.
UpdateSettings(r) ==
  /\ \E S \in SUBSET world.named : \E change \in [S -> BOOLEAN] :
       Begin(r, "patch", [Idle EXCEPT !.pc = "before", !.change = change])
  /\ UNCHANGED page

\* resolveEffectiveSettings(); a body that names nothing is answered.
ReadSettings(r) ==
  /\ At(r, "before")
  /\ Require(r, Named(req[r]) # {},
             [req[r] EXCEPT !.pc = "find", !.before = EffectiveSettings])
  /\ UNCHANGED rows

\* upsert() with a nested select: Prisma looks for the row, and then inserts
\* or updates it.
FindSettingsRow(r) ==
  /\ At(r, "find")
  /\ Send(r, [req[r] EXCEPT !.pc = "write", !.found = settings # NoRow])
  /\ UNCHANGED rows

Overwritten(old, q) == [f \in Fields |-> IF f \in Named(q) THEN q.change[f] ELSE old[f]]

\* A page is waiting for this request.
ForPage(r) == req[r].call = "page"

\* The row is written from this state, and the request is answered.
Store(r, old) ==
  /\ settings' = Overwritten(old, req[r])
  /\ last' = Overwritten(last, req[r])
  /\ until' = IF EffectiveSettings[Consent] THEN [until EXCEPT !["consent"] = now] ELSE until
  /\ IF ForPage(r) THEN Goto(r, "saved") ELSE Answer(r)

RefuseWrite(r) ==
  /\ IF ForPage(r) THEN Goto(r, "failed") ELSE Answer(r)
  /\ UNCHANGED <<settings, until, last>>

\* Of two first writes the unique index rejects one.
WriteSettings(r) ==
  /\ At(r, "write")
  /\ IF req[r].found = (settings # NoRow)
       THEN Store(r, EffectiveSettings) ELSE RefuseWrite(r)
  /\ UNCHANGED <<tenant, account, session, tokens>>

\* The effect that loads the page, at first or to retry: the error stands
\* until the answer is there.
OpenPage(r) ==
  /\ page.pc \in {"closed", "error"}
  /\ ~\E other \in Requests : ForPage(other)
  /\ Begin(r, "page", [Idle EXCEPT !.pc = "load"])
  /\ page' = [page EXCEPT !.pc = IF page.pc = "closed" THEN "loading" ELSE "error"]

ResolveForPage(r) ==
  /\ At(r, "load")
  /\ \E pc \in {"loaded", "failed"} :
       Send(r, [req[r] EXCEPT !.pc = pc, !.before = EffectiveSettings])
  /\ UNCHANGED rows

ShowSettings(r) ==
  /\ req[r].pc = "loaded"
  /\ page' = [pc |-> "ready", draft |-> [f \in PageFields |-> req[r].before[f]]]
  /\ Answer(r)
  /\ UNCHANGED <<world, now, rows>>

EditDraft(f) ==
  /\ page.pc \in {"ready", "saved", "refused"}
  /\ world.left > 0
  /\ page' = [page EXCEPT !.draft[f] = ~@]
  /\ world' = [world EXCEPT !.left = @ - 1]
  /\ UNCHANGED <<now, rows, req>>

\* handleSubmit(): every field of the form is sent, and no other.
SubmitPage(r) ==
  /\ page.pc \in {"ready", "saved", "refused"}
  /\ Begin(r, "page", [Idle EXCEPT !.pc = "before", !.change = page.draft])
  /\ page' = [page EXCEPT !.pc = "saving"]

\* What the answer shows of the two switches is not taken up: they stand as
\* they were sent.
ShowSaved(r) ==
  /\ req[r].pc = "saved"
  /\ page' = [page EXCEPT !.pc = "saved"]
  /\ Answer(r)
  /\ UNCHANGED <<world, now, rows>>

\* A mutant: an answer with an error is not taken up.
ForgetFailure(r) ==
  /\ req[r].pc = "failed"
  /\ Answer(r)
  /\ UNCHANGED <<world, now, rows, page>>

ShowFailure(r) ==
  /\ req[r].pc = "failed"
  /\ page' = [page EXCEPT !.pc = IF page.pc = "saving" THEN "refused" ELSE "error"]
  /\ Answer(r)
  /\ UNCHANGED <<world, now, rows>>

-----------------------------------------------------------------------------
(* Roles: UsersAdminService.updateUser() *)

\* The next set of roles has one or none.
UpdateUser(r) ==
  /\ \E next \in {{}} \union {{x} : x \in Roles} :
       Begin(r, "updateUser", [Idle EXCEPT !.pc = "resolveRole", !.roles = next])
  /\ UNCHANGED page

\* resolveTarget() and resolveRoleId() find the user and the role.
ResolveRoleId(r) == At(r, "resolveRole") /\ Goto(r, "readRoles") /\ UNCHANGED rows

\* The nested "set": Prisma reads the roles there are,
ReadRoles(r) ==
  /\ At(r, "readRoles")
  /\ Send(r, [req[r] EXCEPT !.pc = "setRoles", !.todo = account.roles \ req[r].roles])
  /\ UNCHANGED rows

RolesBecome(roles) ==
  /\ account' = [account EXCEPT !.roles = roles]
  /\ until' = [g \in Grounds |-> IF g \in Held(account.roles) THEN now ELSE until[g]]

\* disconnects those that are not in the set, and connects the others.
SetRoles(r) ==
  /\ At(r, "setRoles")
  /\ RolesBecome((account.roles \ req[r].todo) \union req[r].roles)
  /\ Answer(r)
  /\ UNCHANGED <<tenant, settings, session, tokens, last>>

-----------------------------------------------------------------------------
(* What others do *)

\* AccountLifecycleService.activate() and deactivate(); see Accounts.
ToggleAccount ==
  /\ "account" \in world.outside /\ world.left > 0
  /\ world' = [world EXCEPT !.left = @ - 1]
  /\ account' = [account EXCEPT !.active = ~@]
  /\ until' = IF account.active THEN [until EXCEPT !["account"] = now] ELSE until
  /\ UNCHANGED <<now, tenant, settings, session, tokens, req, page, last>>

\* Provisioning marks an ACTIVE tenant FAILED; see TenantProvisioning.
FailTenant ==
  /\ "tenant" \in world.outside /\ tenant
  /\ tenant' = FALSE
  /\ UNCHANGED <<world, now, settings, account, session, tokens, req, page, until, last>>

\* Time passes, if no statement is overdue.
Tick ==
  /\ now < Start + world.time
  /\ \A r \in Requests : req[r].pc # "idle" => now < req[r].since + MaxDelay
  /\ now' = now + 1
  /\ UNCHANGED <<world, rows, req, page>>

-----------------------------------------------------------------------------
Call(r) ==
  \/ Login(r) \/ Refresh(r) \/ StartImpersonation(r) \/ UseToken(r) \/ Exit(r)
  \/ UpdateSettings(r) \/ OpenPage(r) \/ SubmitPage(r) \/ UpdateUser(r)

Proceed(r) ==
  \/ ResolveTenantActor(r) \/ ResolveActorByAuthAccountId(r) \/ IsTenantActive(r)
  \/ IssueTokens(r)
  \/ FindTarget(r) \/ FindActiveTenant(r) \/ FindConsent(r) \/ CreateSession(r)
  \/ RecordStarted(r) \/ EndImpersonation(r) \/ RecordEnded(r)
  \/ AssertValidImpersonation(r) \/ AssertActiveTenant(r) \/ Handle(r)
  \/ ReadSettings(r) \/ FindSettingsRow(r) \/ WriteSettings(r)
  \/ ResolveForPage(r) \/ ShowSettings(r) \/ ShowSaved(r) \/ ShowFailure(r)
  \/ ResolveRoleId(r) \/ ReadRoles(r) \/ SetRoles(r)

Next ==
  \/ \E r \in Requests : Call(r) \/ Proceed(r)
  \/ \E f \in PageFields : EditDraft(f)
  \/ ToggleAccount \/ FailTenant \/ Tick

\* Statements end, and the page takes up what arrives.
Spec == Init /\ [][Next]_vars /\ \A r \in Requests : WF_vars(Proceed(r))

-----------------------------------------------------------------------------
Tokens == [session : {NoSession} \union SessionIds, perms : SUBSET Perms, exp : Nat]

TypeOK ==
  /\ now \in Start .. Start + world.time
  /\ tenant \in BOOLEAN
  /\ settings \in Settings \union {NoRow}
  /\ account \in [active : BOOLEAN, roles : SUBSET Roles]
  /\ \A s \in SessionIds : session[s].ends \in Nat /\ session[s].expiresAt <= now + TTL
  /\ \A t \in tokens : t \in Tokens /\ t.exp <= now + TTL
  /\ \A r \in Requests : req[r].since <= now /\ req[r].lag \in Nat
  /\ page.draft \in [PageFields -> BOOLEAN]
  /\ until \in [Grounds -> 0 .. now]
  /\ last \in Settings

(* A token is a snapshot, and no request reads again whether its holder may  *)
(* still do what it does: JwtAuthGuard has "no DB round trip".  But no       *)
(* request is admitted long after what justified it has gone.  For the       *)
(* user's own: the account was active, and held the permission, within the   *)
(* life of a token and the three statements between the read and the use.    *)
(* For support: so were account and permission, and the tenant had agreed,   *)
(* within the life of a session and two statements; a consent that is        *)
(* withdrawn does not end the session.                                       *)
StaleAccessIsBounded ==
  \A r \in Requests :
    req[r].pc = "handle" =>
      req[r].lag < TTL + (IF req[r].session = NoSession THEN 3 ELSE 2) * MaxDelay

(* A session that was ended serves what had passed its check and nothing     *)
(* later; its end is on record once at most, however many calls end it, and  *)
(* only if it was ended.  One that has served anything has its row, with the *)
(* support user and the user, and is on record as started unless the insert  *)
(* of that record failed, which the service logs and goes on.                *)
SupportIsAccountable ==
  /\ \A s \in SessionIds :
       /\ session[s].ends <= 1 /\ (session[s].ends = 1 => session[s].endedAt # 0)
       /\ session[s].served => session[s].made /\ session[s].started # "no"
  /\ \A r \in Requests :
       LET s == req[r].session
       IN  req[r].pc = "handle" /\ s # NoSession /\ session[s].endedAt # 0
             => now - session[s].endedAt <= 2 * MaxDelay

(* Both: who is let in, and until when, stays within reach of the reasons    *)
(* that let them in, and a session of support leaves its row and, as far as  *)
(* the inserts of the audit log succeed, its records.                        *)
AccessIsJustified == StaleAccessIsBounded /\ SupportIsAccountable

(* Each setting is what the last accepted PATCH that named it made of it,    *)
(* however many PATCHes overlap, and also when two of them find no row.  In  *)
(* particular a withdrawn consent stays withdrawn when somebody saves the    *)
(* self-registration page.                                                   *)
NoSettingIsLost == EffectiveSettings = last

(* The page does not wait for ever, and a request does not either.           *)
PageSettles ==
  /\ page.pc = "loading" ~> page.pc # "loading"
  /\ page.pc = "saving" ~> page.pc # "saving"

(* The two together: what a page saves arrives, stays, and is answered.      *)
SettingsAreKept == []NoSettingIsLost /\ PageSettles

=============================================================================
