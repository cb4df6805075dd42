------------------------------ MODULE LinkPages ------------------------------
(***************************************************************************)
(* The pages behind the links people are sent: AcceptInvitePage and        *)
(* SetupAccountPage of apps/frontend, over the redemptions of Membership.  *)
(*                                                                         *)
(* A page sends the token of its link with what was typed and turns the    *)
(* answer into what it shows.  The answer may be lost after the redemption *)
(* was made, and the same link may be open on two pages.  The checks of    *)
(* what is typed, and the answer that the password is too weak, leave the  *)
(* form open and send nothing, or change nothing: they are left out.       *)
(***************************************************************************)
EXTENDS Membership

CONSTANT
  Pages  \* the pages that may be opened, each once

ASSUME PagesAssumption == \A w \in Worlds : w.pages \subseteq Pages

VARIABLE page

linkVars == <<vars, page>>

NoLink == [kind |-> "none", of |-> 0]
Blank == [view |-> "closed", link |-> NoLink, request |-> {}, answer |-> "none"]

LinkInit == Init /\ page = [g \in Pages |-> Blank]

-----------------------------------------------------------------------------
\* The links that have been handed out, by mail or by the administrator.
Delivered ==
  [kind : {"invite"}, of : {i \in InviteIds : invite[i].state # "none"}]
    \union [kind : {"setup"}, of : {t \in TokenIds : token[t].made}]

\* What a redemption checks first.
WorksNow(link) ==
  IF link.kind = "invite"
    THEN LET i == link.of
         IN  /\ Pending(i) /\ ~invite[i].expired /\ invite[i].member # Nobody
             /\ member[invite[i].member].status = "pending_invite"
    ELSE /\ Redeemable(link.of)
         /\ \E m \in MemberIds : member[m].status = "pending_setup"

Set(g, next) == page' = [page EXCEPT ![g] = next]

Open(g) ==
  \E link \in Delivered :
    /\ g \in world.pages /\ page[g].view = "closed"
    /\ Set(g, [Blank EXCEPT !.view = "idle", !.link = link])
    /\ UNCHANGED vars

\* The form is there, and its button.
CanSubmit(g) == page[g].view \in {"idle", "error"}

\* The call of the page: it is refused at once, or goes on as request r.
SubmitInVain(g) ==
  /\ CanSubmit(g) /\ ~WorksNow(page[g].link)
  /\ Set(g, [page[g] EXCEPT !.view = "submitting", !.answer = "refused"])
  /\ UNCHANGED vars

SubmitInvite(g, r) ==
  /\ CanSubmit(g) /\ page[g].link.kind = "invite"
  /\ RedeemInvite(r) /\ req'[r].invite = page[g].link.of
  /\ Set(g, [page[g] EXCEPT !.view = "submitting", !.request = {r}])

SubmitSetup(g, r) ==
  /\ CanSubmit(g) /\ page[g].link.kind = "setup"
  /\ RedeemSetupToken(r) /\ req'[r].token = page[g].link.of
  /\ Set(g, [page[g] EXCEPT !.view = "submitting", !.request = {r}])

\* How request r has ended: what it wrote is committed, it found that the link
\* is not live (INVITE_TOKEN_EXPIRED, INVALID_SETUP_TOKEN), or it failed: its
\* member is gone, or its transaction was aborted.
Verdict(r) ==
  IF rows' # rows THEN "done"
  ELSE IF req[r].pc \in {"findMember", "consume"} /\ ~Deadlocked(r) THEN "refused"
  ELSE "failed"

Answer(r) ==
  page' = [g \in Pages |->
            IF page[g].request = {r} /\ req'[r].pc = "idle"
              THEN [page[g] EXCEPT !.request = {}, !.answer = Verdict(r)]
              ELSE page[g]]

\* A mutant: whatever goes wrong, the link is said to be no good.
ShownAlike(answer) == IF answer = "done" THEN "completed" ELSE "expired"

\* handleFailure() tells one code from the others.
Shown(answer) ==
  CASE answer = "done" -> "completed"
    [] answer = "refused" -> "expired"
    [] answer \in {"failed", "lost"} -> "error"

Receive(g) ==
  /\ page[g].answer # "none"
  /\ Set(g, [page[g] EXCEPT !.view = Shown(page[g].answer), !.answer = "none"])
  /\ UNCHANGED vars

\* The connection fails, whatever becomes of the request.
LoseAnswer(g) ==
  /\ page[g].view = "submitting"
  /\ Set(g, [page[g] EXCEPT !.view = Shown("lost"), !.request = {}, !.answer = "none"])
  /\ UNCHANGED vars

-----------------------------------------------------------------------------
\* The other actions, made without a page.
Elsewhere ==
  /\ \/ \E r \in Requests : Call(r)
     \/ \E i \in InviteIds : ExpireInvite(i)
     \/ \E m \in MemberIds : SignIn(m) \/ CreateRow(m)
     \/ Rest
  /\ UNCHANGED page

LinkNext ==
  \/ Elsewhere
  \/ \E r \in Requests : Proceed(r) /\ Answer(r)
  \/ \E g \in Pages, r \in Requests : SubmitInvite(g, r) \/ SubmitSetup(g, r)
  \/ \E g \in Pages : Open(g) \/ SubmitInVain(g) \/ Receive(g) \/ LoseAnswer(g)

LinkSpec == LinkInit /\ [][LinkNext]_linkVars

-----------------------------------------------------------------------------
\* Types, those of Membership among them: a page that waits has a request
\* under way or an answer, and no two pages have the same request.
LinksTypeOK ==
  /\ TypeOK
  /\ \A g \in Pages :
       /\ page[g].view \in {"closed", "idle", "submitting", "completed", "expired", "error"}
       /\ (page[g].view = "submitting") <=> (page[g].request # {} \/ page[g].answer # "none")
       /\ \A r \in page[g].request : req[r].call \in {"redeemInvite", "redeemSetup"}
       /\ \A h \in Pages \ {g} : page[g].request \intersect page[h].request = {}

MemberOf(g) == invite[page[g].link.of].member

(* What a page says of its link stays true: a link called expired never      *)
(* works again, however redemptions, revocations, resends and deletions      *)
(* cross; an account called ready was made with that link; and of two pages  *)
(* with links of one person only one says so.  (Setup links that were made   *)
(* by generate() twice at the same time can both be used.)                   *)
LinkAnswersHold ==
  /\ \A g \in Pages :
       /\ page[g].view = "expired" => ~WorksNow(page[g].link)
       /\ page[g].view = "completed" =>
            IF page[g].link.kind = "invite" THEN invite[page[g].link.of].state = "used"
                                            ELSE token[page[g].link.of].used
  /\ \A g, h \in Pages :
       /\ g # h /\ page[g].view = "completed" /\ page[h].view = "completed"
       /\ page[g].link.kind = page[h].link.kind
       /\ page[g].link.kind = "invite" => MemberOf(g) = MemberOf(h) /\ MemberOf(g) # Nobody
       => history.overlapped

=============================================================================
