----------------------------- MODULE Membership -----------------------------
(***************************************************************************)
(* The members of one tenant: how people get in and out.                   *)
(* UserInviteService, UsersAdminService.directCreate(),                    *)
(* SelfRegistrationService, UserQuotaService, TenantUserDirectoryService   *)
(* and UserDeletionService of apps/backend/src/modules/users, and          *)
(* SetupLinkService of modules/tenants.                                    *)
(*                                                                         *)
(* A request reads outside its transaction, and its transaction is a       *)
(* sequence of statements under READ COMMITTED: reads see what has been    *)
(* committed, a write waits for the row lock of the transaction that wrote *)
(* the row before and then looks at the row again, and everything a        *)
(* transaction wrote appears when it commits.  Of requests that wait for   *)
(* each other Postgres aborts one.                                         *)
(*                                                                         *)
(* The administrator who calls is none of the members modelled.  isActive  *)
(* follows the status in every write made here (Accounts has the writes    *)
(* that move it alone); names, roles and mail are left out.                *)
(***************************************************************************)
EXTENDS Naturals, FiniteSets, Functions

CONSTANTS
  Requests,    \* the requests under way at the same time
  Worlds,      \* the tenants and clients to consider
  Emails,      \* the addresses people have
  MaxBatch,    \* bound on the addresses of one createInvites()
  MaxMembers,  \* bounds on the rows of tenant_users,
  MaxInvites,  \* user_invites,
  MaxTokens,   \* setup_tokens,
  MaxRows      \* and of the dynamic tables that have an owner

MemberIds == 1 .. MaxMembers
InviteIds == 1 .. MaxInvites
TokenIds == 1 .. MaxTokens
RowIds == 1 .. MaxRows

Nobody == 0
NoEmail == "no email"

SeatHolding == {"active", "pending_setup", "pending_approval"}
Statuses == SeatHolding \union {"none", "pending_invite", "deleted", "removed"}

Calls == {"createInvites", "directCreate", "selfRegister", "resendInvite",
          "revokeInvite", "redeemInvite", "softDelete", "hardDelete",
          "createRow", "generate", "redeemSetup"}

Members == [status : Statuses, email : Emails \union {NoEmail}]
NoMember == [status |-> "none", email |-> NoEmail]

\* A world: what clients call and how many calls they make, how many seats
\* the tenant has, its first members, and whether those own a row each.  A
\* tenant has one First Admin, and starts with a seat and an address of its
\* own for each member.
ASSUME ConstantsAssumption ==
  /\ IsFiniteSet(Requests) /\ Requests # {}
  /\ NoEmail \notin Emails
  /\ MaxBatch \in Nat \ {0} /\ MaxMembers \in Nat /\ MaxInvites \in Nat
  /\ MaxTokens \in Nat /\ MaxRows \in Nat
  /\ \A w \in Worlds :
       /\ w = [field \in DOMAIN w |-> w[field]]
       /\ {"calls", "maxUsers", "members", "owning", "left"} \subseteq DOMAIN w
       /\ w.calls \subseteq Calls
       /\ w.maxUsers \in Nat
       /\ w.members \in [MemberIds -> Members]
       /\ \A m, n \in MemberIds :
            w.members[m].status = "pending_setup" /\ w.members[n].status = "pending_setup"
              => m = n
       /\ Cardinality({m \in MemberIds :
             w.members[m].status \in SeatHolding \union {"pending_invite"}}) <= w.maxUsers
       /\ \A m, n \in {o \in MemberIds :
                       w.members[o].status \notin {"none", "deleted", "removed"}} :
            w.members[m].email = w.members[n].email /\ w.members[m].email # NoEmail => m = n
       /\ w.owning \in BOOLEAN
       /\ w.left \in Nat

VARIABLES
  world,     \* the tenant and the clients
  member,    \* tenant_users, with the auth_accounts row of each
  invite,    \* user_invites
  token,     \* setup_tokens
  owner,     \* owner_user_id of the rows of the dynamic tables
  req,       \* the requests under way, and what they have read
  held,      \* the row locks of their transactions
  history    \* who has an access token; and for the properties: the members
             \* whose invitation has been revoked, how often each has been
             \* claimed, whether two generate() have overlapped, and the
             \* rows inserted for members who were being removed or gone

vars == <<world, member, invite, token, owner, req, held, history>>
rows == <<member, invite, token, owner>>

Invites == [state : {"none", "pending", "used", "revoked"}, expired : BOOLEAN,
            member : {Nobody} \union MemberIds]
Tokens == [made : BOOLEAN, used : BOOLEAN, revoked : BOOLEAN]

NoInvite == [state |-> "none", expired |-> FALSE, member |-> Nobody]
NoToken == [made |-> FALSE, used |-> FALSE, revoked |-> FALSE]

\* What a request has at hand: the addresses of its batch, the rows it is
\* about, and the seats it has counted.
Idle == [pc |-> "idle", call |-> "none", batch |-> {}, status |-> "none",
         invite |-> 0, token |-> 0, member |-> Nobody, target |-> Nobody,
         others |-> {}, todo |-> {}, seats |-> 0]

\* A row lock: a member's row, the key of one, an invite or a token.  An
\* UPDATE locks the row, FOR UPDATE and DELETE the row and its key, and the
\* foreign key of an INSERT asks for the key.
Row(m) == <<"row", m>>
Key(m) == <<"key", m>>
InviteRow(i) == <<"invite", i>>
TokenRow(t) == <<"token", t>>

\* Those of the first members that have this status.
First(w, status) == {m \in MemberIds : w.members[m].status = status}

Init ==
  /\ world \in Worlds
  /\ member = world.members
  /\ invite = [i \in InviteIds |->
                 IF i \in First(world, "pending_invite")
                   THEN [NoInvite EXCEPT !.state = "pending", !.member = i]
                   ELSE NoInvite]
  /\ token = [t \in TokenIds |->
                [NoToken EXCEPT !.made = t \in First(world, "pending_setup")]]
  /\ owner = [x \in RowIds |->
                IF world.owning /\ x \in First(world, "active") THEN x ELSE Nobody]
  /\ req = [r \in Requests |-> Idle]
  /\ held = [r \in Requests |-> {}]
  /\ history = [withdrawn |-> {}, claims |-> [m \in MemberIds |-> 0],
                overlapped |-> FALSE, signedIn |-> First(world, "active"), late |-> {}]

-----------------------------------------------------------------------------
(* Rows, requests and locks *)

Exists(m) == member[m].status \notin {"none", "removed"}
Pending(i) == invite[i].state = "pending"
Redeemable(t) == token[t].made /\ ~token[t].used /\ ~token[t].revoked

\* The first n numbers of a table that no row has yet.
FirstOf(n, S) == {x \in S : Cardinality({y \in S : y < x}) < n}
FreshMembers(n) == FirstOf(n, {m \in MemberIds : member[m].status = "none"})
FreshInvites(n) == FirstOf(n, {i \in InviteIds : invite[i].state = "none"})

\* A client calls, and the bound on calls is not reached.
Arrives(r, call) ==
  /\ call \in world.calls /\ world.left > 0
  /\ req[r].pc = "idle"
  /\ world' = [world EXCEPT !.left = @ - 1]

Begin(r, call, next) ==
  /\ Arrives(r, call)
  /\ req' = [req EXCEPT ![r] = [next EXCEPT !.call = call]]
  /\ UNCHANGED <<rows, held, history>>

Goto(r, pc) == req' = [req EXCEPT ![r].pc = pc]

\* The transaction of r ends: it commits what it wrote, or rolls back.
End(r) ==
  /\ req' = [req EXCEPT ![r] = Idle]
  /\ held' = [held EXCEPT ![r] = {}]

Rollback(r) == End(r) /\ UNCHANGED <<world, rows, history>>

Free(r, locks) == \A s \in Requests \ {r} : held[s] \intersect locks = {}
Lock(r, locks) == held' = [held EXCEPT ![r] = @ \union locks]

OthersOf(r) ==
  IF req[r].call \in {"generate", "redeemSetup"}
    THEN {TokenRow(t) : t \in req[r].others}
    ELSE {InviteRow(i) : i \in req[r].others}

InvitesOf(m) == {i \in InviteIds : invite[i].member = m}

\* The locks the next statement of r needs.
Wants(r) ==
  CASE req[r].pc = "consume" ->
         IF req[r].call = "redeemSetup" THEN {TokenRow(req[r].token)}
                                        ELSE {InviteRow(req[r].invite)}
    [] req[r].pc = "touch" -> {Row(req[r].member)}
    [] req[r].pc = "insertInvite" -> {Key(req[r].member)}
    [] req[r].pc = "commit" -> OthersOf(r)
    [] req[r].pc = "lockSource" -> {Row(req[r].member), Key(req[r].member)}
    [] req[r].pc = "lockTarget" -> {Row(req[r].target), Key(req[r].target)}
    [] req[r].pc = "remove" -> {InviteRow(i) : i \in InvitesOf(req[r].member)}
    [] OTHER -> {}

-----------------------------------------------------------------------------
(* Seats: UserQuotaService *)

Occupied == Cardinality({m \in MemberIds : member[m].status \in SeatHolding})
Invited ==
  Cardinality({m \in MemberIds :
    /\ member[m].status = "pending_invite"
    /\ \E i \in InvitesOf(m) : Pending(i) /\ ~invite[i].expired})

Counting(q) == [q EXCEPT !.pc = "count", !.todo = {"occupied", "invited"}]
Seats(what) == IF what = "occupied" THEN Occupied ELSE Invited

\* The two counts of usedSeats(), in either order.
CountSeats(r, what) ==
  /\ req[r].pc = "count"
  /\ what \in req[r].todo
  /\ req' = [req EXCEPT ![r].todo = @ \ {what}, ![r].seats = @ + Seats(what)]
  /\ UNCHANGED <<world, rows, held, history>>

\* How many seats a request asks for.
Asked(q) == IF q.call = "resendInvite" THEN 1 ELSE Cardinality(q.batch)

\* A mutant: the seats of the batch are not added.
AssertSomeSeatAvailable(r) ==
  /\ req[r].pc = "count" /\ req[r].todo = {}
  /\ IF req[r].seats < world.maxUsers
       THEN Goto(r, IF req[r].call = "resendInvite" THEN "consume" ELSE "checkEmails")
            /\ UNCHANGED <<world, rows, held, history>>
       ELSE Rollback(r)

\* assertSeatsAvailable(): then the transaction begins.
AssertSeatsAvailable(r) ==
  /\ req[r].pc = "count" /\ req[r].todo = {}
  /\ IF req[r].seats + Asked(req[r]) <= world.maxUsers
       THEN Goto(r, IF req[r].call = "resendInvite" THEN "consume" ELSE "checkEmails")
            /\ UNCHANGED <<world, rows, held, history>>
       ELSE Rollback(r)

-----------------------------------------------------------------------------
(* The three ways in: createInvites(), directCreate(), register() *)

Admit(r, call, batch, status) ==
  Begin(r, call, Counting([Idle EXCEPT !.batch = batch, !.status = status]))

CreateInvites(r) ==
  \E batch \in SUBSET Emails :
    /\ Cardinality(batch) \in 1 .. MaxBatch
    /\ Admit(r, "createInvites", batch, "pending_invite")

DirectCreate(r) == \E e \in Emails : Admit(r, "directCreate", {e}, "active")

\* Whether the tenant asks for approval is read when the request arrives.
Register(r) ==
  \E e \in Emails, status \in {"active", "pending_approval"} :
    Admit(r, "selfRegister", {e}, status)

\* Deleted members do not hold their address.
Taken(email) ==
  \E m \in MemberIds :
    member[m].email = email /\ Exists(m) /\ member[m].status # "deleted"

\* assertEmailAvailable(), for every address of the batch.
AssertEmailAvailable(r) ==
  /\ req[r].pc = "checkEmails"
  /\ IF \E email \in req[r].batch : Taken(email)
       THEN Rollback(r)
       ELSE Goto(r, "insertMembers") /\ UNCHANGED <<world, rows, held, history>>

\* The bounds on rows leave room for the batch.
Room(q) ==
  LET n == Cardinality(q.batch)
  IN  /\ Cardinality(FreshMembers(n)) = n
      /\ q.status = "pending_invite" => Cardinality(FreshInvites(n)) = n

\* The rows of the batch, at the commit: a member for each address and, when
\* they are invited, an invitation for each member.
InsertMembers(r) ==
  LET q == req[r]
      n == Cardinality(q.batch)
      invited == CHOOSE f \in Bijection(FreshInvites(n), FreshMembers(n)) : TRUE
  IN  /\ q.pc = "insertMembers" /\ Room(q)
      /\ \E email \in Bijection(FreshMembers(n), q.batch) :
           member' = [m \in MemberIds |->
                        IF m \in FreshMembers(n)
                          THEN [status |-> q.status, email |-> email[m]]
                          ELSE member[m]]
      /\ invite' = [i \in InviteIds |->
                      IF q.status = "pending_invite" /\ i \in FreshInvites(n)
                        THEN [state |-> "pending", expired |-> FALSE, member |-> invited[i]]
                        ELSE invite[i]]
      /\ End(r)
      /\ UNCHANGED <<world, token, owner, history>>

\* The bounds on rows are reached: the request ends without a word.
RunOutOfRows(r) == req[r].pc = "insertMembers" /\ ~Room(req[r]) /\ Rollback(r)

-----------------------------------------------------------------------------
(* Invitations: resendInvite(), revokeInvite(), redeemInvite() *)

\* requireInvite() and the checks on the row it returns.  An expired
\* invitation has given its seat back: a resend asks for one again.
ResendInvite(r) ==
  \E i \in InviteIds :
    /\ Pending(i) /\ invite[i].member # Nobody
    /\ LET q == [Idle EXCEPT !.invite = i, !.member = invite[i].member]
       IN  Begin(r, "resendInvite",
                 IF invite[i].expired THEN Counting(q) ELSE [q EXCEPT !.pc = "consume"])

\* Revoking a revoked invitation changes nothing.
RevokeInvite(r) ==
  \E i \in InviteIds :
    /\ Pending(i)
    /\ Begin(r, "revokeInvite",
             [Idle EXCEPT !.pc = "consume", !.invite = i, !.member = invite[i].member])

\* A link is used.  expiresAt is compared with the time the transaction
\* began, now and when the row is written.
RedeemInvite(r) ==
  \E i \in InviteIds :
    /\ Pending(i) /\ ~invite[i].expired /\ invite[i].member # Nobody
    /\ Begin(r, "redeemInvite",
             [Idle EXCEPT !.pc = "findMember", !.invite = i, !.member = invite[i].member])

FindInvitedMember(r) ==
  /\ req[r].pc = "findMember"
  /\ IF member[req[r].member].status = "pending_invite"
       THEN Goto(r, "consume") /\ UNCHANGED <<world, rows, held, history>>
       ELSE Rollback(r)

\* Where the transaction goes when it has written the invitation.
AfterConsuming(q) ==
  IF q.call = "resendInvite" THEN "insertInvite"
  ELSE IF q.member = Nobody THEN "commit" ELSE "touch"

\* updateMany({ id, status: PENDING }): of several requests one matches.
ConsumeInvite(r) ==
  /\ req[r].pc = "consume" /\ req[r].invite # 0
  /\ Free(r, Wants(r))
  /\ IF Pending(req[r].invite)
       THEN /\ Lock(r, Wants(r))
            /\ Goto(r, AfterConsuming(req[r]))
            /\ UNCHANGED <<world, rows, history>>
       ELSE Rollback(r)

\* The replacement, and the commit of resendInvite().  The foreign key
\* rejects a member that was removed.
InsertReplacement(r) ==
  /\ req[r].pc = "insertInvite"
  /\ Free(r, Wants(r))
  /\ IF Exists(req[r].member) /\ FreshInvites(1) # {}
       THEN /\ invite' = [i \in InviteIds |->
                 IF i = req[r].invite THEN [invite[i] EXCEPT !.state = "revoked"]
                 ELSE IF i \in FreshInvites(1)
                   THEN [state |-> "pending", expired |-> FALSE, member |-> req[r].member]
                   ELSE invite[i]]
            /\ End(r)
            /\ UNCHANGED <<world, member, token, owner, history>>
       ELSE Rollback(r)

\* The UPDATE of the member's row, whatever its status is by now, and the
\* other rows the last updateMany() will write.
TouchMember(r) ==
  LET m == req[r].member
  IN  /\ req[r].pc = "touch"
      /\ Free(r, Wants(r))
      /\ IF Exists(m)
           THEN /\ Lock(r, Wants(r))
                /\ req' = [req EXCEPT
                     ![r].pc = "commit",
                     ![r].others =
                       IF req[r].call = "redeemSetup"
                         THEN {t \in TokenIds \ {req[r].token} : Redeemable(t)}
                       ELSE IF req[r].call = "softDelete" THEN {}
                       ELSE {i \in InvitesOf(m) \ {req[r].invite} : Pending(i)}]
                /\ UNCHANGED <<world, rows, history>>
           ELSE Rollback(r)

\* The invitations a commit has written: the one consumed becomes "state",
\* the others of the member that are still pending are revoked.
WriteInvites(r, state) ==
  invite' = [i \in InviteIds |->
               IF i = req[r].invite THEN [invite[i] EXCEPT !.state = state]
               ELSE IF i \in req[r].others /\ Pending(i)
                 THEN [invite[i] EXCEPT !.state = "revoked"]
                 ELSE invite[i]]

SetStatus(m, status) ==
  member' = IF m = Nobody THEN member ELSE [member EXCEPT ![m].status = status]

Claim(m) ==
  history' = IF m = Nobody \/ history.claims[m] = 2 THEN history
             ELSE [history EXCEPT !.claims[m] = @ + 1]

\* A mutant: the membership is left as it was.
CommitRevocationOfInviteOnly(r) ==
  /\ req[r].pc = "commit" /\ req[r].call = "revokeInvite"
  /\ Free(r, Wants(r))
  /\ WriteInvites(r, "revoked")
  /\ history' = [history EXCEPT !.withdrawn = @ \union ({req[r].member} \ {Nobody})]
  /\ End(r)
  /\ UNCHANGED <<world, member, token, owner>>

CommitRevocation(r) ==
  /\ req[r].pc = "commit" /\ req[r].call = "revokeInvite"
  /\ Free(r, Wants(r))
  /\ WriteInvites(r, "revoked")
  /\ SetStatus(req[r].member, "deleted")
  /\ history' = [history EXCEPT !.withdrawn = @ \union ({req[r].member} \ {Nobody})]
  /\ End(r)
  /\ UNCHANGED <<world, token, owner>>

CommitRedemption(r) ==
  /\ req[r].pc = "commit" /\ req[r].call = "redeemInvite"
  /\ Free(r, Wants(r))
  /\ WriteInvites(r, "used")
  /\ SetStatus(req[r].member, "active")
  /\ Claim(req[r].member)
  /\ End(r)
  /\ UNCHANGED <<world, token, owner>>

\* Time passes: a pending invitation is past its expiresAt.
ExpireInvite(i) ==
  /\ Pending(i) /\ ~invite[i].expired
  /\ invite' = [invite EXCEPT ![i].expired = TRUE]
  /\ UNCHANGED <<world, member, token, owner, req, held, history>>

-----------------------------------------------------------------------------
(* Deletion: softDelete() and hardDelete() *)

Present(m) == Exists(m) /\ member[m].status # "deleted"

SoftDelete(r) ==
  \E m \in MemberIds :
    /\ Present(m)
    /\ Begin(r, "softDelete", [Idle EXCEPT !.pc = "touch", !.member = m])

CommitSoftDelete(r) ==
  /\ req[r].pc = "commit" /\ req[r].call = "softDelete"
  /\ SetStatus(req[r].member, "deleted")
  /\ End(r)
  /\ UNCHANGED <<world, invite, token, owner, history>>

\* With somebody to take over the rows of the member, or without.
HardDelete(r) ==
  \E m \in MemberIds, n \in MemberIds \union {Nobody} :
    /\ Present(m)
    /\ n # m /\ (n # Nobody => member[n].status = "active")
    /\ Begin(r, "hardDelete",
             [Idle EXCEPT !.pc = "lockSource", !.member = m, !.target = n])

\* A mutant: the member is read without FOR UPDATE's wait.
LockSourceAtOnce(r) ==
  /\ req[r].pc = "lockSource"
  /\ IF Present(req[r].member)
       THEN /\ Lock(r, Wants(r))
            /\ Goto(r, IF req[r].target = Nobody THEN "transfer" ELSE "lockTarget")
            /\ UNCHANGED <<world, rows, history>>
       ELSE Rollback(r)

\* SELECT ... FOR UPDATE of the member to remove: it must not be deleted yet.
LockSource(r) ==
  /\ req[r].pc = "lockSource"
  /\ Free(r, Wants(r))
  /\ IF Present(req[r].member)
       THEN /\ Lock(r, Wants(r))
            /\ Goto(r, IF req[r].target = Nobody THEN "transfer" ELSE "lockTarget")
            /\ UNCHANGED <<world, rows, history>>
       ELSE Rollback(r)

\* A mutant: the member who takes over is checked, not locked.
LockNoTarget(r) ==
  /\ req[r].pc = "lockTarget"
  /\ IF member[req[r].target].status = "active"
       THEN Goto(r, "transfer") /\ UNCHANGED <<world, rows, held, history>>
       ELSE Rollback(r)

\* SELECT ... FOR UPDATE of who takes over: it must still be active.
LockTarget(r) ==
  /\ req[r].pc = "lockTarget"
  /\ Free(r, Wants(r))
  /\ IF member[req[r].target].status = "active"
       THEN /\ Lock(r, Wants(r))
            /\ Goto(r, "transfer")
            /\ UNCHANGED <<world, rows, history>>
       ELSE Rollback(r)

RowsOf(m) == {x \in RowIds : owner[x] = m}

\* The member's rows are counted, and moved, one table after the other.
\* Rows and nobody to take them over: nothing is deleted.
TransferRows(r) ==
  /\ req[r].pc = "transfer"
  /\ IF RowsOf(req[r].member) # {} /\ req[r].target = Nobody
       THEN Rollback(r)
       ELSE /\ req' = [req EXCEPT ![r].pc = "update", ![r].others = RowsOf(req[r].member)]
            /\ UNCHANGED <<world, rows, held, history>>

\* Rows inserted meanwhile are found in tables that are yet to be counted.
UpdateRows(r) ==
  /\ req[r].pc = "update"
  /\ \E found \in SUBSET RowsOf(req[r].member) :
       /\ req[r].others \subseteq found
       /\ IF found # {} /\ req[r].target = Nobody
            THEN Rollback(r)
            ELSE /\ req' = [req EXCEPT ![r].pc = "remove", ![r].others = found]
                 /\ UNCHANGED <<world, rows, held, history>>

\* The DELETE of the member, which takes it off its invitations (ON DELETE
\* SET NULL), and the commit.
RemoveMember(r) ==
  LET m == req[r].member
  IN  /\ req[r].pc = "remove"
      /\ Free(r, Wants(r))
      /\ member' = [member EXCEPT ![m].status = "removed"]
      /\ invite' = [i \in InviteIds |->
                     IF i \in InvitesOf(m) THEN [invite[i] EXCEPT !.member = Nobody]
                                           ELSE invite[i]]
      /\ owner' = [x \in RowIds |->
                    IF x \in req[r].others THEN req[r].target ELSE owner[x]]
      /\ End(r)
      /\ UNCHANGED <<world, token, history>>

\* An active member gets an access token.
SignIn(m) ==
  /\ "createRow" \in world.calls
  /\ member[m].status = "active" /\ m \notin history.signedIn
  /\ history' = [history EXCEPT !.signedIn = @ \union {m}]
  /\ UNCHANGED <<world, rows, req, held>>

\* The member is gone, or a hardDelete() has begun to look for its rows.
Leaving(m) ==
  \/ ~Exists(m)
  \/ \E r \in Requests : req[r].pc \in {"update", "remove"} /\ req[r].member = m

\* createRow() inserts a row in the name of its access token, which outlives
\* the membership by minutes: it neither looks for the member nor waits for a
\* deletion, and no foreign key does.
CreateRow(m) ==
  /\ "createRow" \in world.calls
  /\ m \in history.signedIn
  /\ \E x \in RowIds :
       /\ owner[x] = Nobody
       /\ \A y \in RowIds : y < x => owner[y] # Nobody
       /\ owner' = [owner EXCEPT ![x] = m]
       /\ history' = [history EXCEPT !.late = IF Leaving(m) THEN @ \union {x} ELSE @]
  /\ UNCHANGED <<world, member, invite, token, req, held>>

-----------------------------------------------------------------------------
(* The First Admin's setup link: SetupLinkService.generate() and redeem() *)

\* A token that expires cannot be redeemed any more, which is all that
\* expiry does here: it is left out.
\* The tokens the updateMany() of generate() finds: those not revoked, used
\* or not.  It waits for each and looks at it again.
GenerateSetupLink(r) ==
  LET others == {t \in TokenIds : token[t].made /\ ~token[t].revoked}
  IN  /\ \E m \in MemberIds : Exists(m)
      /\ \E t \in TokenIds : ~token[t].made
      /\ Arrives(r, "generate")
      /\ req' = [req EXCEPT ![r] =
                  [Idle EXCEPT !.pc = "commit", !.call = "generate", !.others = others]]
      /\ history' = [history EXCEPT !.overlapped =
                       @ \/ \E s \in Requests : req[s].call = "generate"]
      /\ UNCHANGED <<rows, held>>

CommitSetupLink(r) ==
  LET unmade == {t \in TokenIds : ~token[t].made}
  IN  /\ req[r].pc = "commit" /\ req[r].call = "generate"
      /\ Free(r, Wants(r))
      /\ token' = [t \in TokenIds |->
                    IF t \in req[r].others THEN [token[t] EXCEPT !.revoked = TRUE]
                    ELSE IF t \in FirstOf(1, unmade) THEN [NoToken EXCEPT !.made = TRUE]
                    ELSE token[t]]
      /\ End(r)
      /\ UNCHANGED <<world, member, invite, owner, history>>

RedeemSetupToken(r) ==
  \E t \in TokenIds, m \in MemberIds :
    /\ Redeemable(t)
    /\ member[m].status = "pending_setup"
    /\ Begin(r, "redeemSetup",
             [Idle EXCEPT !.pc = "consume", !.token = t, !.member = m])

ConsumeSetupToken(r) ==
  /\ req[r].pc = "consume" /\ req[r].token # 0
  /\ Free(r, Wants(r))
  /\ IF Redeemable(req[r].token)
       THEN /\ Lock(r, Wants(r))
            /\ Goto(r, "touch")
            /\ UNCHANGED <<world, rows, history>>
       ELSE Rollback(r)

\* The sibling tokens that are still redeemable are revoked.
CommitSetup(r) ==
  /\ req[r].pc = "commit" /\ req[r].call = "redeemSetup"
  /\ Free(r, Wants(r))
  /\ token' = [t \in TokenIds |->
                IF t = req[r].token THEN [token[t] EXCEPT !.used = TRUE]
                ELSE IF t \in req[r].others /\ Redeemable(t)
                  THEN [token[t] EXCEPT !.revoked = TRUE]
                ELSE token[t]]
  /\ SetStatus(req[r].member, "active")
  /\ Claim(req[r].member)
  /\ End(r)
  /\ UNCHANGED <<world, invite, owner>>

-----------------------------------------------------------------------------
(* The specification *)

\* Postgres aborts a transaction that waits in a circle.
Waits(r, s) == r # s /\ Wants(r) \intersect held[s] # {}
Deadlocked(r) ==
  \E S \in SUBSET Requests :
    r \in S /\ \A s \in S : \E u \in S : Waits(s, u)
AbortDeadlocked(r) == Deadlocked(r) /\ Rollback(r)

Call(r) ==
  \/ CreateInvites(r) \/ DirectCreate(r) \/ Register(r)
  \/ ResendInvite(r) \/ RevokeInvite(r) \/ RedeemInvite(r)
  \/ SoftDelete(r) \/ HardDelete(r) \/ GenerateSetupLink(r) \/ RedeemSetupToken(r)

Proceed(r) ==
  \/ \E what \in {"occupied", "invited"} : CountSeats(r, what)
  \/ AssertSeatsAvailable(r) \/ AssertEmailAvailable(r) \/ InsertMembers(r)
  \/ RunOutOfRows(r)
  \/ FindInvitedMember(r) \/ ConsumeInvite(r) \/ InsertReplacement(r)
  \/ TouchMember(r) \/ CommitRevocation(r) \/ CommitRedemption(r)
  \/ CommitSoftDelete(r)
  \/ LockSource(r) \/ LockTarget(r) \/ TransferRows(r) \/ UpdateRows(r) \/ RemoveMember(r)
  \/ CommitSetupLink(r) \/ ConsumeSetupToken(r) \/ CommitSetup(r)
  \/ AbortDeadlocked(r)

\* Nobody waits: a deadlock would be a circle that is not broken.
Rest == (\A r \in Requests : req[r].pc = "idle") /\ UNCHANGED vars

Next ==
  \/ \E r \in Requests : Call(r) \/ Proceed(r)
  \/ \E i \in InviteIds : ExpireInvite(i)
  \/ \E m \in MemberIds : SignIn(m) \/ CreateRow(m)
  \/ Rest

Spec == Init /\ [][Next]_vars

-----------------------------------------------------------------------------
Locks == {Row(m) : m \in MemberIds} \union {Key(m) : m \in MemberIds}
           \union {InviteRow(i) : i \in InviteIds}
           \union {TokenRow(t) : t \in TokenIds}

TypeOK ==
  /\ \E w \in Worlds : world = [w EXCEPT !.left = world.left] /\ world.left \in 0 .. w.left
  /\ member \in [MemberIds -> Members]
  /\ invite \in [InviteIds -> Invites]
  /\ token \in [TokenIds -> Tokens]
  /\ owner \in [RowIds -> {Nobody} \union MemberIds]
  /\ \A r \in Requests : held[r] \subseteq Locks /\ (req[r].pc = "idle" => held[r] = {})
  /\ \A r, s \in Requests : r # s => held[r] \intersect held[s] = {}
  /\ history.withdrawn \subseteq MemberIds
  /\ history.claims \in [MemberIds -> 0 .. 2]
  /\ history.overlapped \in BOOLEAN
  /\ history.signedIn \subseteq MemberIds /\ history.late \subseteq RowIds

-----------------------------------------------------------------------------
(* Who is in and who is not *)

(* However many requests send, resend, revoke and redeem the invitations of  *)
(* one person at the same time, at most one of them is pending: a person     *)
(* never has two links that work.                                            *)
OneLiveInvite ==
  \A m \in MemberIds : Cardinality({i \in InvitesOf(m) : Pending(i)}) <= 1

(* ...and a membership is claimed once, by one redemption of one invitation  *)
(* or setup token, whatever else is under way.  (Two regenerations of a      *)
(* setup link that overlap revoke the same tokens and leave two that work:   *)
(* then the First Admin can be claimed twice.)                               *)
ClaimedOnce ==
  \A m \in MemberIds : history.claims[m] <= 1 \/ history.overlapped

(* A revocation that has been answered is the end of it: no resend or        *)
(* redemption that was under way brings the person in.                       *)
WithdrawnStaysOut ==
  \A m \in history.withdrawn : member[m].status \in {"deleted", "removed"}

(* Counts taken outside the transactions let a tenant exceed its seats.  The *)
(* two counts of usedSeats() are read one after the other, and a member who  *)
(* joins in between is in neither: so each of the two kinds of seats is      *)
(* exceeded by no more than all requests but one can ask for, each of which  *)
(* fits into the tenant by itself.                                           *)
SeatOvershootIsBounded ==
  \A n \in {MaxBatch, world.maxUsers} :
    LET limit == world.maxUsers + (Cardinality(Requests) - 1) * n
    IN  Invited <= limit /\ Occupied + Invited <= 2 * limit

(* An address is never held by more members than there were requests racing  *)
(* to create it.                                                             *)
AddressHeldByRacersOnly ==
  \A email \in Emails :
    Cardinality({m \in MemberIds : Present(m) /\ member[m].email = email})
      <= Cardinality(Requests)

(* The three together: an invitation brings in one person, once, and only    *)
(* until it is withdrawn.                                                    *)
InvitationsHold ==
  /\ OneLiveInvite
  /\ ClaimedOnce
  /\ WithdrawnStaysOut

(* The two checks made outside of the transactions fail by no more than the  *)
(* number of requests that race.                                             *)
RacesAreBounded ==
  /\ SeatOvershootIsBounded
  /\ AddressHeldByRacersOnly

(* Rows are not lost to deletions: however deletions cross, each row has an  *)
(* owner whose membership is still there.  Only rows that were inserted with *)
(* the access token of a member whose rows hardDelete() had begun to look    *)
(* for, or had done away with, can be left without one.                      *)
OwnersExist ==
  \A x \in RowIds : owner[x] # Nobody => Exists(owner[x]) \/ x \in history.late

(* A row changes hands only in the step that removes its owner, from a       *)
(* member who was there to one who is active at that moment: hardDelete()    *)
(* hands over the rows it finds, or deletes nobody.                          *)
HandsOver(x) ==
  owner[x] # Nobody /\ owner'[x] # owner[x] =>
    /\ Exists(owner[x]) /\ member'[owner[x]].status = "removed"
    /\ owner'[x] # Nobody /\ member'[owner'[x]].status = "active"

RowsChangeHands == [][\A x \in RowIds : HandsOver(x)]_vars

(* The two together: deletions hand rows over, to members who are there.     *)
RowsKeepTheirOwners == []OwnersExist /\ RowsChangeHands

=============================================================================
