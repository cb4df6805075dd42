----------------------------- MODULE ResetPages -----------------------------
(***************************************************************************)
(* A forgotten password, as its owner sees it: ForgotPasswordPage and      *)
(* ResetPasswordPage of apps/frontend and the mail between them, over the  *)
(* account of Accounts.                                                    *)
(*                                                                         *)
(* requestReset() does not wait for the mail it sends: codes arrive in any *)
(* order, at any time, or not at all.  What is typed but for the code, the *)
(* checks of it and the address are left out.  A page's countdown is as    *)
(* long as the cooldown that Accounts counts as the first age of a code:   *)
(* it ends when every code issued before it began is older than that.      *)
(***************************************************************************)
EXTENDS Accounts

CONSTANTS
  Pages,    \* the pages codes are entered on
  PageWork, \* the workloads in which codes are asked for and entered on pages
  MaxTries  \* bound on the codes that are entered

ASSUME PagesAssumption == PageWork \subseteq Workloads /\ MaxTries \in Nat

VARIABLES
  forgot,  \* the page that asks for a code
  reset,   \* the pages a code is entered on
  tries    \* how many codes have been entered

resetVars == <<vars, forgot, reset, tries>>

NotAsked == [submitting |-> FALSE, request |-> {}, sent |-> FALSE, waits |-> {},
             lost |-> FALSE, throttled |-> FALSE]
Blank == [view |-> "form", code |-> 0, request |-> {}, answer |-> "none"]

\* Whether the password has to be changed makes no difference to the pages.
ResetInit ==
  /\ Init
  /\ workload \in PageWork => ~mustChange
  /\ forgot = NotAsked
  /\ reset = [g \in Pages |-> Blank]
  /\ tries = 0

-----------------------------------------------------------------------------
(* ForgotPasswordPage *)

\* The button is enabled: nothing is under way and the countdown is over.
CanAsk == workload \in PageWork /\ ~forgot.submitting /\ forgot.waits = {}

\* The page asks, and an account that is active has a request go on.
AskForCode(r) ==
  /\ CanAsk
  /\ RequestReset(r)
  /\ forgot' = [forgot EXCEPT !.submitting = TRUE, !.request = {r}]
  /\ UNCHANGED <<reset, tries>>

AskInVain ==
  /\ CanAsk /\ ~active
  /\ forgot' = [forgot EXCEPT !.submitting = TRUE]
  /\ UNCHANGED <<vars, reset, tries>>

\* The request ends.  For the properties: whether the cooldown ended it,
\* although the page has had all its answers.
ForgotAfter(r) ==
  IF forgot.request = {r} /\ req'[r].pc = "idle"
    THEN [forgot EXCEPT !.request = {},
                        !.throttled = @ \/ (req[r].pc = "cooldown" /\ ~forgot.lost)]
    ELSE forgot

\* The same answer whatever was done: the countdown begins.
ShowSent ==
  /\ forgot.submitting /\ forgot.request = {}
  /\ forgot' = [forgot EXCEPT !.submitting = FALSE, !.sent = TRUE, !.waits = Issued]
  /\ UNCHANGED <<vars, reset, tries>>

\* The answer is lost: an error, and no countdown.
ShowFailure ==
  /\ forgot.submitting
  /\ forgot' = [forgot EXCEPT !.submitting = FALSE, !.request = {}, !.lost = TRUE]
  /\ UNCHANGED <<vars, reset, tries>>

EndCountdown ==
  /\ forgot.waits # {} /\ \A c \in forgot.waits : code[c].age > 0
  /\ forgot' = [forgot EXCEPT !.waits = {}]
  /\ UNCHANGED <<vars, reset, tries>>

-----------------------------------------------------------------------------
(* ResetPasswordPage *)

Set(g, next) == reset' = [reset EXCEPT ![g] = next]

\* deliverOtp(): codes that were mailed and may have arrived, and one that
\* was not.
Enterable == Issued \union {0}
CanSubmit(g) ==
  /\ workload \in PageWork /\ tries < MaxTries
  /\ reset[g].view \in {"form", "invalid", "error"}

Submit(g, c, waiting, answer) ==
  /\ Set(g, [view |-> "submitting", code |-> c, request |-> waiting, answer |-> answer])
  /\ tries' = tries + 1

SubmitCode(g, r) ==
  /\ CanSubmit(g)
  /\ ResetPassword(r)
  /\ \E c \in Enterable : Submit(g, c, {r}, "none")
  /\ UNCHANGED forgot

\* No code is compared for an account that is not active.
SubmitInVain(g) ==
  /\ CanSubmit(g) /\ ~active
  /\ Submit(g, 0, {}, "INVALID_OTP")
  /\ UNCHANGED <<vars, forgot>>

\* otpMatches(): the request of a page goes the way of the code entered.
OtpMatches(r) ==
  \A g \in Pages :
    reset[g].request = {r} =>
      /\ req'[r].pc = "redeem" => req'[r].code = reset[g].code
      /\ req'[r].pc = "miss" => req'[r].code # reset[g].code

\* A mutant: that another request has consumed the code is not looked at.
VerdictOnMatch(r) == IF req[r].pc = "redeem" THEN "ok" ELSE "INVALID_OTP"

\* How the request ends: the password is set, or INVALID_OTP.
Verdict(r) == IF req[r].pc = "redeem" /\ code' # code THEN "ok" ELSE "INVALID_OTP"

ResetAfter(r) ==
  [g \in Pages |->
    IF reset[g].request = {r} /\ req'[r].pc = "idle"
      THEN [reset[g] EXCEPT !.request = {}, !.answer = Verdict(r)] ELSE reset[g]]

ShowOutcome(g) ==
  /\ reset[g].answer # "none"
  /\ Set(g, [reset[g] EXCEPT !.view = IF reset[g].answer = "ok" THEN "completed" ELSE "invalid",
                             !.answer = "none"])
  /\ UNCHANGED <<vars, forgot, tries>>

\* The answer is lost: auth.unknownError.
LoseOutcome(g) ==
  /\ reset[g].view = "submitting"
  /\ Set(g, [reset[g] EXCEPT !.view = "error", !.request = {}, !.answer = "none"])
  /\ UNCHANGED <<vars, forgot, tries>>

-----------------------------------------------------------------------------
\* A request goes on, or begins without a page.
Serve ==
  \E r \in Requests :
    /\ SessionStep(r) \/ MembershipStep(r) \/ ResetStep(r)
    /\ req[r].pc = "idle" /\ workload \in PageWork => req'[r].pc \notin {"cooldown", "find"}
    /\ OtpMatches(r)
    /\ forgot' = ForgotAfter(r)
    /\ reset' = ResetAfter(r)
    /\ UNCHANGED tries

\* Steps of one statement, and time.
Elsewhere ==
  /\ \/ \E s \in SessionIds : RevokeSession(s) \/ ExpireSession(s)
     \/ RevokeAllSessions({})
     \/ \E s \in SessionIds : session[s].state # "none" /\ RevokeAllSessions({s})
     \/ Deactivate \/ Activate
     \/ \E c \in CodeIds : AgeCode(c)
  /\ UNCHANGED <<forgot, reset, tries>>

ResetNext ==
  \/ Serve \/ Elsewhere
  \/ \E r \in Requests : AskForCode(r) \/ \E g \in Pages : SubmitCode(g, r)
  \/ AskInVain \/ ShowSent \/ ShowFailure \/ EndCountdown
  \/ \E g \in Pages : SubmitInVain(g) \/ ShowOutcome(g) \/ LoseOutcome(g)

ResetSpec == ResetInit /\ [][ResetNext]_resetVars

-----------------------------------------------------------------------------
(* Pages that say the password was reset are no more than the resets made    *)
(* with the code, however many submit it at the same time.                   *)
CompletedMeansReset ==
  \A c \in CodeIds :
    Cardinality({g \in Pages : reset[g].view = "completed" /\ reset[g].code = c})
      <= code[c].redeemed

(* A page that calls a code invalid is right for good: the newest code, live *)
(* and in time, is never refused, however attempts and requests cross.  (An  *)
(* older one may be and become the newest live one later, when overlapping   *)
(* requests have left two.)                                                  *)
RefusedCodeIsDead ==
  \A g \in Pages :
    reset[g].view = "invalid" /\ reset[g].code # 0 =>
      LET c == reset[g].code
      IN  c \notin LiveCodes \/ code[c].age = 2 \/ \E d \in Issued : d > c

(* The countdown of the page covers the cooldown of the server: a user who   *)
(* waits for the button is never told that a code was sent when the cooldown *)
(* kept it back (unless an earlier answer was lost).                         *)
CountdownSuffices == ~forgot.throttled

(* The three together: what the pages say of codes is so.                    *)
ResetPagesHold ==
  /\ CompletedMeansReset
  /\ RefusedCodeIsDead
  /\ CountdownSuffices

=============================================================================
