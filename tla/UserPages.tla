------------------------------ MODULE UserPages ------------------------------
(***************************************************************************)
(* The administrators' pages of a tenant's users: UsersPage with its       *)
(* dialogs to invite and to delete, UserInvitesPanel, and the routes of    *)
(* UsersAdminService, UserDeletionService and UserInviteService that they  *)
(* call.                                                                   *)
(*                                                                         *)
(* A page has one list request that counts, the last one it made, any      *)
(* number of actions under way and at most one dialog, which covers the    *)
(* rest.  The server looks a user or an invitation up and writes later;    *)
(* what the writes of other requests do to each other is in Accounts and   *)
(* Membership, what the pages make of the answers is here.                 *)
(*                                                                         *)
(* Left out: names, roles, the users pending_setup, who are offered what   *)
(* those pending_invite are, mail, permissions, and system users, who have *)
(* no such page.                                                           *)
(***************************************************************************)
EXTENDS Integers, Sequences, FiniteSets, SequencesExt

CONSTANTS
  Admins,     \* the administrators, each with a page; none of them is a member
  MaxSeats,   \* the seats of the tenant
  MaxMembers, \* bound on the rows of members
  MaxInvites, \* bound on the rows of invitations
  PageSize,   \* USER_LIST_DEFAULT_PAGE_SIZE
  Slots,      \* the requests other than lists a page may have under way
  Worlds      \* the rows at first, what may happen and how often

Kinds == {"act", "delete", "invite", "panel", "browse", "network", "others"}
Members == 1 .. MaxMembers
Invites == 1 .. MaxInvites
None == 0

\* The status of a member; "removed" is one deleted for good.
Statuses == {"active", "pending_approval", "pending_invite", "locked", "deleted"}
Gone == {"none", "removed"}
Live == {"pending", "expired"}

\* A keyword stands for the members it matches.
AnyStatus == "any"
AnyName == Members

ASSUME ConstantsAssumption ==
  /\ MaxSeats \in Nat /\ MaxMembers \in Nat /\ MaxInvites \in Nat /\ PageSize \in Nat \ {0}
  /\ \A w \in Worlds :
       /\ w.admins \subseteq Admins /\ w.kinds \subseteq Kinds /\ w.left \in Nat
       /\ w.members \in Seq(Statuses) /\ Len(w.members) <= MaxMembers
       /\ w.invites \in Seq(1 .. Len(w.members)) /\ Len(w.invites) + MaxMembers + w.left <= MaxInvites
       /\ w.owners \subseteq 1 .. Len(w.members)
       /\ w.keywords \subseteq SUBSET Members /\ w.batch \subseteq Members

VARIABLES
  user,    \* the members: status and number of writes
  owners,  \* the members who own rows of dynamic tables
  invite,  \* the invitations: status, member and number of writes
  page,    \* per administrator, the page
  call,    \* per administrator, the requests other than lists
  world    \* the world, with what may still happen

rowVars == <<user, owners, invite>>
vars == <<rowVars, page, call, world>>

Loading == [status |-> "loading", todo |-> {"rows", "count"}, items |-> <<>>, total |-> 0]
NoDialog == [of |-> None, mode |-> "soft", target |-> None, submit |-> "idle",
             candidates |-> {}, fetch |-> "loading", asked |-> FALSE]
NewPage ==
  [number |-> 1, filter |-> AnyStatus, draft |-> AnyName, keyword |-> AnyName,
   list |-> Loading, busy |-> None, error |-> FALSE,
   panel |-> [status |-> "loading", asked |-> "sent", items |-> <<>>, read |-> <<>>],
   busyInvite |-> None, panelError |-> FALSE,
   inviting |-> "closed", deleting |-> NoDialog,
   done |-> [m \in Members |-> 0], sent |-> [i \in Invites |-> 0]]

\* A request: what it does to whom, which dialog waits for it, what it wrote.
NoCall == [pc |-> "idle", op |-> "none", id |-> None, other |-> None, many |-> 0,
           dialog |-> FALSE, wrote |-> {}]

Init ==
  /\ world \in Worlds
  /\ user = [m \in Members |->
               IF m <= Len(world.members) THEN [status |-> world.members[m], rev |-> 1]
               ELSE [status |-> "none", rev |-> 0]]
  /\ owners = world.owners
  /\ invite = [i \in Invites |->
                 IF i <= Len(world.invites)
                   THEN [status |-> "pending", of |-> world.invites[i], rev |-> 1]
                   ELSE [status |-> "none", of |-> None, rev |-> 0]]
  /\ page = [a \in Admins |-> NewPage]
  /\ call = [a \in Admins |-> [s \in Slots |-> NoCall]]

\* Somebody does something of one kind, once more.
Spend(kind) ==
  /\ kind \in world.kinds
  /\ world.left > 0
  /\ world' = [world EXCEPT !.left = @ - 1]

-----------------------------------------------------------------------------
(* The lists *)

Present == {m \in Members : user[m].status \notin Gone}
Issued == {i \in Invites : invite[i].status # "none"}
Newest(ids) == SetToSortSeq(ids, >)

\* listUsers(): a deleted member is listed only where asked for by status.
Found(pg) ==
  {m \in Present \intersect pg.keyword :
     IF pg.filter = AnyStatus THEN user[m].status # "deleted" ELSE user[m].status = pg.filter}

PageOf(pg) ==
  LET found == Newest(Found(pg))
      skip == (pg.number - 1) * PageSize
  IN [n \in 1 .. Cardinality({k \in DOMAIN found : k > skip /\ k <= skip + PageSize}) |->
        [id |-> found[skip + n], status |-> user[found[skip + n]].status,
         rev |-> user[found[skip + n]].rev]]

\* The effect of UsersPage: the request before is aborted, and its answer
\* would not count any more.
Reload(pg) == [pg EXCEPT !.list = Loading]

\* The rows and their number are read apart; the second read brings the answer.
ReadList(a, query) ==
  LET list == page[a].list
      todo == list.todo \ {query} IN
  /\ list.status = "loading" /\ query \in list.todo
  /\ page' = [page EXCEPT ![a].list =
       [status |-> IF todo = {} THEN "ready" ELSE "loading", todo |-> todo,
        items |-> IF query = "rows" THEN PageOf(page[a]) ELSE list.items,
        total |-> IF query = "count" THEN Cardinality(Found(page[a])) ELSE list.total]]
  /\ UNCHANGED <<rowVars, call, world>>

LoseList(a) ==
  /\ page[a].list.status = "loading"
  /\ Spend("network")
  /\ page' = [page EXCEPT ![a].list = [Loading EXCEPT !.status = "error", !.todo = {}]]
  /\ UNCHANGED <<rowVars, call>>

\* The effect of UserInvitesPanel: the one before is aborted, and what it
\* showed stays until the new answer.
ReloadPanel(pg) == [pg EXCEPT !.panel.asked = "sent", !.panel.read = <<>>]

ReadInvites(a) ==
  /\ page[a].panel.asked = "sent"
  /\ page' = [page EXCEPT ![a].panel.asked = "read", ![a].panel.read =
       LET found == Newest(Issued) IN
       [n \in DOMAIN found |-> [id |-> found[n], status |-> invite[found[n]].status,
                                rev |-> invite[found[n]].rev]]]
  /\ UNCHANGED <<rowVars, call, world>>

ShowInvites(a) ==
  /\ page[a].panel.asked = "read"
  /\ page' = [page EXCEPT ![a].panel =
       [status |-> "ready", asked |-> "no", items |-> page[a].panel.read, read |-> <<>>]]
  /\ UNCHANGED <<rowVars, call, world>>

LoseInvites(a) ==
  /\ page[a].panel.asked # "no"
  /\ Spend("network")
  /\ page' = [page EXCEPT ![a].panel =
       [status |-> "error", asked |-> "no", items |-> <<>>, read |-> <<>>]]
  /\ UNCHANGED <<rowVars, call>>

ListStep(a) ==
  \/ \E query \in {"rows", "count"} : ReadList(a, query)
  \/ ReadInvites(a)
  \/ ShowInvites(a)

-----------------------------------------------------------------------------
(* The server: a request is checked against what is there, then written *)

Deletions == {"soft", "hard"}
Becomes == [approve |-> "active", lock |-> "locked", unlock |-> "active", soft |-> "deleted"]
LegalIn == [approve |-> {"pending_approval"}, lock |-> {"active"}, unlock |-> {"locked"},
            soft |-> Statuses \ {"deleted"}, hard |-> Statuses \ {"deleted"}]

MayReceive(c) ==
  c.other # None => c.other # c.id /\ user[c.other].status = "active"

Put(a, s, c) == call' = [call EXCEPT ![a][s] = c]
Fails(a, s) ==
  /\ Put(a, s, [call[a][s] EXCEPT !.pc = "error"])
  /\ UNCHANGED rowVars

\* assertSeatsAvailable(): a member takes a seat from when they are invited or
\* register; an invitation that has expired keeps none.
FreeSeats ==
  MaxSeats - Cardinality({m \in Members :
    \/ user[m].status \in {"active", "locked", "pending_approval"}
    \/ /\ user[m].status = "pending_invite"
       /\ \E i \in Invites : invite[i].of = m /\ invite[i].status = "pending"})

Lookup(a, s, ops) == call[a][s].pc = "check" /\ call[a][s].op \in ops
Admit(a, s, c, ok) ==
  /\ Put(a, s, [c EXCEPT !.pc = IF ok THEN "write" ELSE "error"])
  /\ UNCHANGED <<rowVars, page, world>>

\* resolveTenantTarget() and the status required.
CheckTarget(a, s) ==
  LET c == call[a][s] IN
  /\ Lookup(a, s, DOMAIN LegalIn \ Deletions)
  /\ Admit(a, s, c, user[c.id].status \in LegalIn[c.op])

\* deleteUser(): resolveSource(), assertCanDelete(), then the target's row.
CheckDeletion(a, s) ==
  LET c == call[a][s] IN
  /\ Lookup(a, s, Deletions)
  /\ Admit(a, s, c, user[c.id].status \in LegalIn[c.op] /\ MayReceive(c))

CheckSeats(a, s) ==
  /\ Lookup(a, s, {"invite"})
  /\ Admit(a, s, call[a][s], call[a][s].many <= FreeSeats)

\* requireInvite(); the member is read with the invitation, and only an
\* expired one has to find a seat again.
CheckInvite(a, s) ==
  LET c == call[a][s]
      status == invite[c.id].status
      member == IF user[invite[c.id].of].status = "removed" THEN None ELSE invite[c.id].of IN
  /\ Lookup(a, s, {"resend", "revoke"})
  /\ ~(c.op = "revoke" /\ status = "revoked")
  /\ Admit(a, s, [c EXCEPT !.other = member],
       /\ status \in Live
       /\ c.op = "resend" => member # None /\ (status = "expired" => FreeSeats > 0))

\* Revoking twice is no error.
RevokedAlready(a, s) ==
  /\ Lookup(a, s, {"revoke"})
  /\ invite[call[a][s].id].status = "revoked"
  /\ Put(a, s, [call[a][s] EXCEPT !.pc = "ok"])
  /\ UNCHANGED <<rowVars, page, world>>

Written(a, s, rows) == Put(a, s, [call[a][s] EXCEPT !.pc = "ok", !.wrote = rows])
Moved(m, status) == user' = [user EXCEPT ![m] = [status |-> status, rev |-> @.rev + 1]]

\* The status is written whatever it is by now, unless the row has gone.
WriteStatus(a, s, op) ==
  LET c == call[a][s] IN
  /\ c.pc = "write" /\ c.op = op
  /\ \/ /\ user[c.id].status \notin Gone
        /\ Moved(c.id, Becomes[op])
        /\ Written(a, s, {<<"user", c.id, user[c.id].rev + 1>>})
        /\ UNCHANGED <<owners, invite>>
     \/ user[c.id].status \in Gone /\ Fails(a, s)
  /\ UNCHANGED <<page, world>>

ApproveUser(a, s) == WriteStatus(a, s, "approve")
LockUser(a, s) == WriteStatus(a, s, "lock")
UnlockUser(a, s) == WriteStatus(a, s, "unlock")
SoftDelete(a, s) == WriteStatus(a, s, "soft")

\* hardDelete(): source and target are locked and looked at again; data needs
\* somebody to take it.
RemoveUser(a, s) ==
  LET c == call[a][s]
      may == user[c.id].status \in LegalIn["hard"] /\ MayReceive(c)
               /\ (c.id \in owners => c.other # None) IN
  /\ c.pc = "write" /\ c.op = "hard"
  /\ \/ /\ may
        /\ Moved(c.id, "removed")
        /\ owners' = IF c.id \in owners THEN (owners \ {c.id}) \union {c.other} ELSE owners
        /\ Written(a, s, {<<"user", c.id, user[c.id].rev + 1>>})
        /\ UNCHANGED invite
     \/ ~may /\ Fails(a, s)
  /\ UNCHANGED <<page, world>>

NextOf(rows) == CHOOSE k \in DOMAIN rows :
  rows[k].status = "none" /\ \A j \in DOMAIN rows : rows[j].status = "none" => k <= j

\* createInvites(): members and invitations of the whole batch, or none when
\* one of its addresses is taken.  The seats are not counted again.
InsertInvites(a, s) ==
  LET c == call[a][s]
      m == NextOf(user)
      i == NextOf(invite)
      new == 0 .. c.many - 1 IN
  /\ c.pc = "write" /\ c.op = "invite"
  /\ \/ /\ c.many <= Cardinality({k \in Members : user[k].status = "none"})
        /\ user' = [k \in Members |->
             IF k - m \in new THEN [status |-> "pending_invite", rev |-> 1] ELSE user[k]]
        /\ invite' = [k \in Invites |->
             IF k - i \in new THEN [status |-> "pending", of |-> m + (k - i), rev |-> 1] ELSE invite[k]]
        /\ Written(a, s, {<<"user", m + n, 1>> : n \in new} \union {<<"invite", i + n, 1>> : n \in new})
        /\ UNCHANGED owners
     \/ Fails(a, s)
  /\ UNCHANGED <<page, world>>

Revoked(i) == [invite[i] EXCEPT !.status = "revoked", !.rev = @ + 1]

\* resendInvite(): the invitation is retired and another one takes its place.
ReplaceInvite(a, s) ==
  LET c == call[a][s]
      may == invite[c.id].status \in Live /\ user[c.other].status # "removed"
      i == NextOf(invite) IN
  /\ c.pc = "write" /\ c.op = "resend"
  /\ \/ /\ may
        /\ invite' = [invite EXCEPT ![c.id] = Revoked(c.id),
                                    ![i] = [status |-> "pending", of |-> c.other, rev |-> 1]]
        /\ Written(a, s, {<<"invite", c.id, invite[c.id].rev + 1>>, <<"invite", i, 1>>})
        /\ UNCHANGED <<user, owners>>
     \/ ~may /\ Fails(a, s)
  /\ UNCHANGED <<page, world>>

\* revokeInvite(): the member goes with it, and their other invitations.
RevokeInvite(a, s) ==
  LET c == call[a][s]
      may == invite[c.id].status \in Live /\ (c.other # None => user[c.other].status # "removed")
      theirs == {i \in Invites : invite[i].of = c.other /\ invite[i].status \in Live}
      all == IF c.other = None THEN {c.id} ELSE {c.id} \union theirs IN
  /\ c.pc = "write" /\ c.op = "revoke"
  /\ \/ /\ may
        /\ invite' = [i \in Invites |-> IF i \in all THEN Revoked(i) ELSE invite[i]]
        /\ IF c.other = None THEN UNCHANGED user ELSE Moved(c.other, "deleted")
        /\ Written(a, s, {<<"invite", i, invite[i].rev + 1>> : i \in all})
        /\ UNCHANGED owners
     \/ ~may /\ Fails(a, s)
  /\ UNCHANGED <<page, world>>

ServerStep(a, s) ==
  \/ CheckTarget(a, s) \/ CheckDeletion(a, s) \/ CheckSeats(a, s)
  \/ CheckInvite(a, s) \/ RevokedAlready(a, s)
  \/ ApproveUser(a, s) \/ LockUser(a, s) \/ UnlockUser(a, s)
  \/ SoftDelete(a, s) \/ RemoveUser(a, s)
  \/ InsertInvites(a, s) \/ ReplaceInvite(a, s) \/ RevokeInvite(a, s)

\* What others do: register, redeem an invitation, let it expire.
Register ==
  /\ FreeSeats > 0 /\ \E m \in Members : user[m].status = "none"
  /\ Spend("others")
  /\ Moved(NextOf(user), "pending_approval")
  /\ UNCHANGED <<owners, invite, page, call>>

Redeem(i) ==
  /\ invite[i].status = "pending" /\ user[invite[i].of].status = "pending_invite"
  /\ Spend("others")
  /\ invite' = [j \in Invites |->
       IF j = i THEN [invite[j] EXCEPT !.status = "used", !.rev = @ + 1]
       ELSE IF invite[j].of = invite[i].of /\ invite[j].status \in Live THEN Revoked(j)
       ELSE invite[j]]
  /\ Moved(invite[i].of, "active")
  /\ UNCHANGED <<owners, page, call>>

Expire(i) ==
  /\ invite[i].status = "pending"
  /\ Spend("others")
  /\ invite' = [invite EXCEPT ![i].status = "expired", ![i].rev = @ + 1]
  /\ UNCHANGED <<user, owners, page, call>>

-----------------------------------------------------------------------------
(* The page: what its user may do *)

\* A dialog covers the rest of the page.
Covered(pg) == pg.inviting # "closed" \/ pg.deleting.of # None

Becoming(a, pg) == page' = [page EXCEPT ![a] = pg]

\* One more request; its slot is the first free one.
Send(a, c) ==
  LET free == {s \in Slots : call[a][s].pc = "idle"} IN
  /\ free # {}
  /\ Put(a, CHOOSE s \in free : TRUE, [c EXCEPT !.pc = "check"])

\* The buttons of a row, by the status shown.
Offered == [approve |-> {"pending_approval"}, lock |-> {"active"}, unlock |-> {"locked"},
            delete |-> Statuses \ {"deleted"}]
Rows(pg, op) ==
  IF Covered(pg) \/ pg.list.status # "ready" THEN {}
  ELSE {r \in ToSet(pg.list.items) : r.status \in Offered[op] /\ r.id # pg.busy}

\* runAction() of the page.
ClickAction(a, op) ==
  /\ op \in {"approve", "lock", "unlock"}
  /\ Spend("act")
  /\ \E r \in Rows(page[a], op) :
       /\ Send(a, [NoCall EXCEPT !.op = op, !.id = r.id])
       /\ Becoming(a, [page[a] EXCEPT !.busy = r.id, !.error = FALSE])
  /\ UNCHANGED rowVars

\* The filters and the keyword's box; a request follows where something changed.
Query(pg) == <<pg.number, pg.filter, pg.keyword>>
Requery(a, pg) == Becoming(a, IF Query(pg) = Query(page[a]) THEN pg ELSE Reload(pg))

Browse(a) ==
  LET pg == page[a] IN
  /\ ~Covered(pg)
  /\ Spend("browse")
  /\ \/ \E f \in Statuses \union {AnyStatus} :
          Requery(a, [pg EXCEPT !.number = 1, !.filter = f])
     \/ \E k \in world.keywords : Becoming(a, [pg EXCEPT !.draft = k])
     \/ Requery(a, [pg EXCEPT !.number = 1, !.keyword = pg.draft])
  /\ UNCHANGED <<rowVars, call>>

TotalPages(total) == IF total = 0 THEN 1 ELSE (total + PageSize - 1) \div PageSize

Turn(a) ==
  LET pg == page[a] IN
  /\ ~Covered(pg) /\ pg.list.status = "ready" /\ pg.list.total > 0
  /\ Spend("browse")
  /\ \/ pg.number > 1 /\ Requery(a, [pg EXCEPT !.number = @ - 1])
     \/ pg.number < TotalPages(pg.list.total) /\ Requery(a, [pg EXCEPT !.number = @ + 1])
  /\ UNCHANGED <<rowVars, call>>

\* The two retry buttons.
Retry(a) ==
  LET pg == page[a] IN
  /\ ~Covered(pg)
  /\ \/ pg.list.status = "error" /\ Becoming(a, Reload(pg))
     \/ pg.panel.status = "error" /\ pg.panel.asked = "no" /\ Becoming(a, ReloadPanel(pg))
  /\ UNCHANGED <<rowVars, call, world>>

\* runAction() of the panel; the buttons are those of a pending invitation.
ClickInvite(a, op) ==
  LET pg == page[a] IN
  /\ op \in {"resend", "revoke"}
  /\ ~Covered(pg) /\ pg.panel.status = "ready"
  /\ Spend("panel")
  /\ \E r \in ToSet(pg.panel.items) :
       /\ r.status = "pending" /\ r.id # pg.busyInvite
       /\ Send(a, [NoCall EXCEPT !.op = op, !.id = r.id])
       /\ Becoming(a, [pg EXCEPT !.busyInvite = r.id, !.panelError = FALSE])
  /\ UNCHANGED rowVars

-----------------------------------------------------------------------------
(* InviteUsersDialog *)

OpenInvite(a) ==
  /\ ~Covered(page[a])
  /\ Spend("invite")
  /\ Becoming(a, [page[a] EXCEPT !.inviting = "editing"])
  /\ UNCHANGED <<rowVars, call>>

SubmitInvites(a, n) ==
  /\ page[a].inviting \in {"editing", "error"}
  /\ Send(a, [NoCall EXCEPT !.op = "invite", !.many = n, !.dialog = TRUE])
  /\ Becoming(a, [page[a] EXCEPT !.inviting = "submitting"])
  /\ UNCHANGED <<rowVars, world>>

\* A dialog that is gone hears no answer of its requests.
Unmounted(a, ops) ==
  [call EXCEPT ![a] = [s \in Slots |->
     IF call[a][s].op \in ops THEN [call[a][s] EXCEPT !.dialog = FALSE] ELSE call[a][s]]]

CloseInvite(a) ==
  /\ page[a].inviting # "closed"
  /\ Becoming(a, [page[a] EXCEPT !.inviting = "closed"])
  /\ call' = Unmounted(a, {"invite"})
  /\ UNCHANGED <<rowVars, world>>

-----------------------------------------------------------------------------
(* DeleteUserDialog *)

OpenDelete(a) ==
  /\ Spend("delete")
  /\ \E r \in Rows(page[a], "delete") :
       Becoming(a, [page[a] EXCEPT !.deleting = [NoDialog EXCEPT !.of = r.id]])
  /\ UNCHANGED <<rowVars, call>>

Dialog(a) == page[a].deleting
Redraw(a, dialog) ==
  /\ Dialog(a).of # None
  /\ Becoming(a, [page[a] EXCEPT !.deleting = dialog])
  /\ UNCHANGED rowVars

\* The candidates are asked for each time the mode becomes hard, and what was
\* shown or chosen before stays.
SetMode(a, mode) ==
  /\ mode # Dialog(a).mode
  /\ Redraw(a, [Dialog(a) EXCEPT !.mode = mode, !.asked = mode = "hard"])
  /\ UNCHANGED <<call, world>>

ShowCandidates(a) ==
  /\ Dialog(a).asked
  /\ Redraw(a, [Dialog(a) EXCEPT !.asked = FALSE, !.fetch = "ready", !.candidates =
       {m \in Members \ {Dialog(a).of} : user[m].status = "active"}])
  /\ UNCHANGED <<call, world>>

LoseCandidates(a) ==
  /\ Dialog(a).asked
  /\ Spend("network")
  /\ Redraw(a, [Dialog(a) EXCEPT !.asked = FALSE, !.fetch = "error"])
  /\ UNCHANGED call

ChooseTarget(a) ==
  /\ Dialog(a).mode = "hard" /\ Dialog(a).fetch = "ready"
  /\ \E m \in Dialog(a).candidates : Redraw(a, [Dialog(a) EXCEPT !.target = m])
  /\ UNCHANGED <<call, world>>

SubmitDelete(a) ==
  LET d == Dialog(a) IN
  /\ d.submit # "submitting"
  /\ Redraw(a, [d EXCEPT !.submit = "submitting"])
  /\ Send(a, [NoCall EXCEPT !.op = d.mode, !.id = d.of, !.dialog = TRUE,
                            !.other = IF d.mode = "hard" THEN d.target ELSE None])
  /\ UNCHANGED world

\* A mutant: a dialog that is closed hears of its deletion.
CancelListening(a) == Redraw(a, NoDialog) /\ UNCHANGED <<call, world>>

CancelDelete(a) ==
  /\ Redraw(a, NoDialog)
  /\ call' = Unmounted(a, Deletions)
  /\ UNCHANGED world

UserStep(a) ==
  \/ \E op \in {"approve", "lock", "unlock"} : ClickAction(a, op)
  \/ Browse(a)
  \/ Turn(a)
  \/ Retry(a)
  \/ \E op \in {"resend", "revoke"} : ClickInvite(a, op)
  \/ OpenInvite(a)
  \/ \E n \in world.batch : SubmitInvites(a, n)
  \/ CloseInvite(a)
  \/ OpenDelete(a)
  \/ \E mode \in Deletions : SetMode(a, mode)
  \/ ChooseTarget(a)
  \/ SubmitDelete(a)
  \/ CancelDelete(a)

-----------------------------------------------------------------------------
(* The page: what it makes of an answer *)

\* History: what the page has been told it wrote.
RevOf(c, kind, id, old) ==
  LET known == {w \in c.wrote : w[1] = kind /\ w[2] = id} IN
  IF known = {} THEN old ELSE (CHOOSE w \in known : TRUE)[3]
Noted(pg, c) ==
  [pg EXCEPT !.done = [m \in Members |-> RevOf(c, "user", m, @[m])],
             !.sent = [i \in Invites |-> RevOf(c, "invite", i, @[i])]]

LoseAnswer(a, s) ==
  /\ call[a][s].pc \in {"check", "ok"}
  /\ Spend("network")
  /\ Put(a, s, [call[a][s] EXCEPT !.pc = "error", !.wrote = {}])
  /\ UNCHANGED <<rowVars, page>>

\* A mutant: the answer of an action does not reload the list.
EndActionQuietly(a, s) ==
  LET c == call[a][s]
      pg == [page[a] EXCEPT !.busy = None] IN
  /\ c.op \in {"approve", "lock", "unlock"}
  /\ Becoming(a, IF c.pc = "ok" THEN Noted(pg, c) ELSE [pg EXCEPT !.error = TRUE])
  /\ Put(a, s, NoCall)

\* A mutant: an action that fails leaves its row busy.
EndActionHolding(a, s) ==
  LET c == call[a][s]
      pg == [page[a] EXCEPT !.busy = None] IN
  /\ c.op \in {"approve", "lock", "unlock"}
  /\ Becoming(a, IF c.pc = "ok" THEN Reload(Noted(pg, c)) ELSE [page[a] EXCEPT !.error = TRUE])
  /\ Put(a, s, NoCall)

\* Whichever row is busy, none is after an action.
EndAction(a, s) ==
  LET c == call[a][s]
      pg == [page[a] EXCEPT !.busy = None] IN
  /\ c.op \in {"approve", "lock", "unlock"}
  /\ Becoming(a, IF c.pc = "ok" THEN Reload(Noted(pg, c)) ELSE [pg EXCEPT !.error = TRUE])
  /\ Put(a, s, NoCall)

EndInviteAction(a, s) ==
  LET c == call[a][s]
      pg == [page[a] EXCEPT !.busyInvite = None] IN
  /\ c.op \in {"resend", "revoke"}
  /\ Becoming(a, IF c.pc = "ok" THEN ReloadPanel(Noted(pg, c)) ELSE [pg EXCEPT !.panelError = TRUE])
  /\ Put(a, s, NoCall)

\* onInvited() and the state of the dialog, if it is still there.
EndInvite(a, s) ==
  LET c == call[a][s]
      pg == IF c.dialog
              THEN [page[a] EXCEPT !.inviting = IF c.pc = "ok" THEN "invited" ELSE "error"]
              ELSE page[a] IN
  /\ c.op = "invite"
  /\ Becoming(a, IF c.pc = "ok" THEN ReloadPanel(Reload(Noted(pg, c))) ELSE pg)
  /\ Put(a, s, NoCall)

\* onDeleted() closes the dialog that is open by now, whomever it is about.
EndDelete(a, s) ==
  LET c == call[a][s] IN
  /\ c.op \in Deletions
  /\ \/ /\ c.pc = "ok"
        /\ Becoming(a, Reload(Noted([page[a] EXCEPT !.deleting = NoDialog], c)))
        /\ call' = [Unmounted(a, Deletions) EXCEPT ![a][s] = NoCall]
     \/ /\ c.pc = "error"
        /\ Becoming(a, IF c.dialog THEN [page[a] EXCEPT !.deleting.submit = "error"] ELSE page[a])
        /\ Put(a, s, NoCall)

Answered(a, s) ==
  /\ call[a][s].pc \in {"ok", "error"}
  /\ \/ EndAction(a, s)
     \/ EndInviteAction(a, s)
     \/ EndInvite(a, s)
     \/ EndDelete(a, s)
  /\ UNCHANGED <<rowVars, world>>

-----------------------------------------------------------------------------

Others ==
  \/ Register
  \/ \E i \in Issued : Redeem(i) \/ Expire(i)

Lost(a) ==
  \/ LoseList(a)
  \/ LoseInvites(a)
  \/ LoseCandidates(a)
  \/ \E s \in Slots : LoseAnswer(a, s)

Next ==
  \/ \E a \in world.admins :
       \/ UserStep(a) \/ ListStep(a) \/ ShowCandidates(a) \/ Lost(a)
       \/ \E s \in Slots : ServerStep(a, s) \/ Answered(a, s)
  \/ Others

\* The server answers what it is sent and a page takes the answers up; people
\* need not do anything.
Fairness ==
  \A a \in Admins :
    /\ \A query \in {"rows", "count"} : WF_vars(a \in world.admins /\ ReadList(a, query))
    /\ WF_vars(a \in world.admins /\ ReadInvites(a)) /\ WF_vars(ShowInvites(a))
    /\ WF_vars(ShowCandidates(a))
    /\ \A s \in Slots : WF_vars(ServerStep(a, s)) /\ WF_vars(Answered(a, s))

Spec == Init /\ [][Next]_vars /\ Fairness

-----------------------------------------------------------------------------
(* Properties *)

Row(ids, statuses) == [id : ids, status : statuses, rev : Nat \ {0}]

\* Types: pages, dialogs and requests are what the code makes of them, no list
\* is longer than a page, a busy page waits for somebody, and the batches of
\* the dialogs fit the seats there are.
TypeOK ==
  /\ user \in [Members -> [status : Statuses \union Gone, rev : Nat]]
  /\ owners \subseteq Members
  /\ invite \in [Invites -> [status : Live \union {"none", "used", "revoked"},
                             of : Members \union {None}, rev : Nat]]
  /\ \A a \in Admins :
       LET pg == page[a] IN
       /\ pg.number \in Nat \ {0} /\ pg.filter \in Statuses \union {AnyStatus}
       /\ pg.draft \subseteq Members /\ pg.keyword \subseteq Members
       /\ pg.list.status \in {"loading", "ready", "error"}
       /\ pg.list.todo \subseteq {"rows", "count"} /\ pg.list.total \in 0 .. MaxMembers
       /\ pg.list.items \in Seq(Row(Members, Statuses)) /\ Len(pg.list.items) <= PageSize
       /\ pg.panel.status \in {"loading", "ready", "error"} /\ pg.panel.asked \in {"no", "sent", "read"}
       /\ pg.panel.items \in Seq(Row(Invites, Live \union {"used", "revoked"}))
       /\ pg.inviting \in {"closed", "editing", "submitting", "error", "invited"}
       /\ pg.deleting.mode \in Deletions /\ pg.deleting.submit \in {"idle", "submitting", "error"}
       /\ pg.deleting.candidates \subseteq Members \ {pg.deleting.of}
       /\ \A s \in Slots :
            LET c == call[a][s] IN
            /\ c.pc \in {"idle", "check", "write", "ok", "error"}
            /\ c.op \in DOMAIN LegalIn \union {"none", "invite", "resend", "revoke"}
            /\ c.dialog => IF c.op = "invite" THEN pg.inviting = "submitting"
                           ELSE pg.deleting.of = c.id /\ pg.deleting.submit = "submitting"

\* Whatever the order in which lists and answers come, with two actions at
\* once, dialogs closed over a request and others at work: a list that is
\* shown has every user as this page has left them or later, and none that it
\* removed; the panel, once its request is answered, has every invitation that
\* this page sent, replaced or withdrew as it left it or later (the reloads of
\* runAction(), onInvited() and onDeleted(), and the abort of the effects).
ListsShowOwnActions ==
  \A a \in Admins :
    LET pg == page[a] IN
    /\ pg.list.status = "ready" =>
         \A r \in ToSet(pg.list.items) : r.rev >= pg.done[r.id]
    /\ pg.panel.status = "ready" /\ pg.panel.asked = "no" =>
         \A i \in Invites : pg.sent[i] > 0 =>
           \E r \in ToSet(pg.panel.items) : r.id = i /\ r.rev >= pg.sent[i]

\* A page waits for nothing for ever: whatever fails and is lost, and whatever
\* its user goes on to do, its lists and candidates come or fail, a dialog
\* hears of its request or is closed, and every row can be acted on again.
WaitsFor(pg, what) ==
  \/ /\ what = "page"
     /\ \/ pg.list.status = "loading" \/ pg.panel.asked # "no"
        \/ pg.busy # None \/ pg.busyInvite # None
  \/ what = "dialog" /\ (pg.deleting.submit = "submitting" \/ pg.inviting = "submitting")
  \/ what = "candidates" /\ pg.deleting.asked
PagesSettle ==
  \A a \in Admins, what \in {"page", "dialog", "candidates"} :
    a \in world.admins /\ WaitsFor(page[a], what) ~> ~WaitsFor(page[a], what)
=============================================================================
