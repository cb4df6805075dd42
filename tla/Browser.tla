------------------------------ MODULE Browser ------------------------------
(***************************************************************************)
(* The tabs of one browser and the sessions they live on: api-client.ts    *)
(* (the access token in memory, the refresh token in localStorage, one     *)
(* retry after a refresh), AuthContext.tsx (what React shows) and the      *)
(* session endpoints of auth.service.ts.                                   *)
(*                                                                         *)
(* A member of Tokens is one issued pair: a refresh token and the access   *)
(* token that names its row as its session.  A token nothing refers to any *)
(* more is free to stand for the next pair; the bound Tokens is that no    *)
(* pair is issued while none is free.                                      *)
(***************************************************************************)
EXTENDS Naturals

CONSTANTS Accounts, Tokens, Tabs, Calls, None,
          Worlds   \* what may happen: the kinds of events, and how many

VARIABLES session,  \* the server's row of each pair
          store,    \* the refresh token in localStorage, shared by the tabs
          tab,      \* api-client's access token and the state of AuthProvider
          thread,   \* the async functions of each tab
          flight,   \* refreshInFlight of each tab
          past,     \* what has happened, for the properties
          world

vars == <<session, store, tab, thread, flight, past, world>>

Slots == {"boot", "login", "logout", "change"} \cup Calls
Kinds == {"call", "login", "logout", "change", "typo", "reload", "tab",
          "expire", "revoke", "lose"}
NoRefreshPaths == {"login", "logout"}
Guarded == {"page", "me", "logout", "change", "typo"}
Answers == {"ok", "denied", "lost"}

ASSUME ConstantsAssumption ==
  /\ Accounts # {} /\ Tokens # {} /\ Tabs # {}
  /\ None \notin Accounts /\ None \notin Tokens
  /\ None \notin NoRefreshPaths \cup Guarded \cup Answers
  /\ Calls \cap {"boot", "login", "logout", "change"} = {}

Idle == [pc |-> "idle", req |-> None, token |-> None, body |-> None,
         retried |-> FALSE, answer |-> None]
NoFlight == [pc |-> "none", presented |-> None, answer |-> None]
Blank == [open |-> FALSE, access |-> None, shown |-> None, user |-> None,
          loading |-> FALSE]

(***************************************************************************)
(* One tab signed in with the first pair, the others not opened yet.       *)
(***************************************************************************)
Someone == CHOOSE a \in Accounts : TRUE
First == CHOOSE t \in Tokens : TRUE
Opened == CHOOSE b \in Tabs : TRUE
Init ==
  /\ world \in Worlds
  /\ session = [t \in Tokens |-> [account |-> Someone, revoked |-> FALSE, expired |-> FALSE]]
  /\ store = First
  /\ tab = [b \in Tabs |-> IF b # Opened THEN Blank ELSE
              [Blank EXCEPT !.open = TRUE, !.access = First, !.shown = First,
                            !.user = Someone]]
  /\ thread = [o \in Tabs |-> [s \in Slots |-> Idle]]
  /\ flight = [o \in Tabs |-> NoFlight]
  /\ past = [killed |-> FALSE, ended |-> FALSE, out |-> FALSE, causes |-> {}]

(***************************************************************************)
(* Every event a user, the clock or the network chooses spends one unit.   *)
(***************************************************************************)
Spend(kind) ==
  /\ kind \in world.kinds /\ world.left > 0
  /\ world' = [world EXCEPT !.left = @ - 1]

Busy(b, s) == thread[b][s].pc # "idle"
Referenced ==
  {store} \cup UNION {{tab[b].access, tab[b].shown, flight[b].presented, flight[b].answer}
                      \cup UNION {{thread[b][s].token, thread[b][s].body} : s \in Slots}
                      : b \in Tabs}
Free == Tokens \ Referenced
NextPair == CHOOSE t \in Free : TRUE

-----------------------------------------------------------------------------
(* What one tab's code does between two awaits, as functions of its state. *)

Here(b) == [store |-> store, tab |-> tab[b], thread |-> thread[b],
            flight |-> flight[b], ended |-> past.ended, out |-> past.out]

(***************************************************************************)
(* A login, a logout or an answer of /auth/me still on its way while the   *)
(* tab refreshes, repeats a request or asks who it is: the answers can     *)
(* arrive in either order.                                                 *)
(***************************************************************************)
Crossed(c) == \E s \in Slots :
  /\ c.thread[s].pc # "idle"
  /\ s \in {"login", "logout"} \/ c.thread[s].req = "me"
  /\ \/ c.flight.pc # "none"
     \/ \E r \in Slots \ {s} : c.thread[r].req = "me" \/ c.thread[r].retried

Commit(b, c) ==
  /\ store' = c.store
  /\ tab' = [tab EXCEPT ![b] = c.tab]
  /\ thread' = [thread EXCEPT ![b] = c.thread]
  /\ flight' = [flight EXCEPT ![b] = c.flight]
  /\ past' = [past EXCEPT !.ended = c.ended, !.out = c.out,
                          !.causes = @ \cup IF Crossed(c) THEN {"crossed"} ELSE {}]
  /\ UNCHANGED session

Done(c, s) == [c EXCEPT !.thread[s] = Idle]

Cleared(c) == [c EXCEPT !.store = None, !.tab.access = None, !.tab.shown = None,
                        !.tab.user = None]

(* React shows nobody: what bootstrap() leaves when it gives up. *)
Forgotten(c) == [c EXCEPT !.tab.shown = None, !.tab.user = None]

Ended(c) == [Cleared(c) EXCEPT !.ended = c.ended \/ c.store # None]

AdoptedUnseen(c, t) == [c EXCEPT !.tab.access = t, !.store = t]
Adopted(c, t) == [c EXCEPT !.tab.access = t, !.tab.shown = t, !.store = t]

Fetch(c, s, req) ==
  [c EXCEPT !.thread[s] =
     [Idle EXCEPT !.pc = "sent", !.req = req,
                  !.token = IF req = "login" THEN None ELSE c.tab.access]]

RetryWithTheOldToken(c, s) ==
  [c EXCEPT !.thread[s].pc = "sent", !.thread[s].retried = TRUE]
Retry(c, s) == [Fetch(c, s, c.thread[s].req) EXCEPT !.thread[s].retried = TRUE]

(***************************************************************************)
(* request() has thrown: what the caller's catch and finally do.  A logout *)
(* is upheld unless a refresh or a login is still to answer.               *)
(***************************************************************************)
SignedOut(c, s) ==
  [Cleared(Done(c, s)) EXCEPT
     !.out = \A b \in Tabs : flight[b].pc = "none" /\ thread[b]["login"].req # "login"]

Failed(c, s) ==
  CASE s = "boot"   -> [Ended(Done(c, s)) EXCEPT !.tab.loading = FALSE]
    [] s = "logout" -> SignedOut(c, s)
    [] OTHER        -> Done(c, s)

SessionExpired(c, s) == Failed(Ended(c), s)

(***************************************************************************)
(* What a caller of refreshAccessToken() does with the token it yields:    *)
(* request() retries once or gives up, bootstrap() and reloadSession() go  *)
(* on to /auth/me or give up.                                              *)
(***************************************************************************)
Resumed(c, s, t) ==
  CASE c.thread[s].pc = "waits" /\ t # None -> Retry(c, s)
    [] c.thread[s].pc = "waits" /\ t = None -> SessionExpired(c, s)
    [] c.thread[s].pc = "renews" /\ t # None ->
         Fetch([c EXCEPT !.tab.access = t, !.tab.shown = t], s, "me")
    [] c.thread[s].pc = "renews" /\ t = None /\ s = "boot" ->
         [Forgotten(Done(c, s)) EXCEPT !.tab.loading = FALSE]
    [] OTHER -> Ended(Done(c, s))

Refresh(c, s, pc) ==
  LET asking == [c EXCEPT !.thread[s].pc = pc] IN
  CASE c.flight.pc # "none" -> asking
    [] c.flight.pc = "none" /\ c.store = None -> Resumed(asking, s, None)
    [] OTHER -> [asking EXCEPT !.flight = [pc |-> "sent", presented |-> c.store,
                                           answer |-> None]]

(***************************************************************************)
(* request() and its caller with the answer of thread s.                   *)
(***************************************************************************)
Succeeded(c, s) ==
  LET t == c.thread[s].token IN
  CASE c.thread[s].req = "page" -> Done(c, s)
    [] c.thread[s].req = "me" ->
         [Done(c, s) EXCEPT !.tab.user = session[t].account,
                            !.tab.loading = IF s = "boot" THEN FALSE ELSE @]
    [] c.thread[s].req = "login" -> Fetch(Adopted(c, t), s, "me")
    [] c.thread[s].req = "logout" -> SignedOut(c, s)
    [] c.thread[s].req = "change" -> Refresh(c, s, "renews")

Denied(c, s) ==
  CASE c.thread[s].req \in NoRefreshPaths -> Failed(c, s)
    [] c.thread[s].req \notin NoRefreshPaths /\ c.thread[s].retried -> SessionExpired(c, s)
    [] OTHER -> Refresh(c, s, "waits")

-----------------------------------------------------------------------------
(* The tab: its code and its user. *)

(* A page that needs a session fetches something. *)
StartCall(b, c) ==
  /\ tab[b].shown # None /\ ~tab[b].loading /\ ~Busy(b, c)
  /\ Spend("call")
  /\ Commit(b, Fetch(Here(b), c, "page"))

StartLogin(b) ==
  /\ tab[b].open /\ tab[b].shown = None /\ ~Busy(b, "login")
  /\ Spend("login")
  /\ Commit(b, [Fetch(Here(b), "login", "login") EXCEPT !.out = FALSE])

StartLogout(b) ==
  /\ tab[b].shown # None /\ ~tab[b].loading /\ ~Busy(b, "logout")
  /\ Spend("logout")
  /\ Commit(b, IF store = None THEN SignedOut(Here(b), "logout")
               ELSE [Fetch(Here(b), "logout", "logout")
                       EXCEPT !.thread["logout"].body = store])

(* The change-password page, with the right current password or a mistyped one. *)
StartChange(b, req) ==
  /\ tab[b].shown # None /\ ~tab[b].loading /\ ~Busy(b, "change")
  /\ Spend(req)
  /\ Commit(b, Fetch(Here(b), "change", req))

(***************************************************************************)
(* A tab is opened, or reloaded: its memory and its requests are gone, and *)
(* bootstrap() starts over from localStorage.                              *)
(***************************************************************************)
Boot(b) ==
  /\ IF tab[b].open THEN Spend("reload") ELSE Spend("tab")
  /\ flight[b].pc # "found"
  /\ LET fresh == [Here(b) EXCEPT !.tab = [Blank EXCEPT !.open = TRUE, !.loading = store # None],
                                  !.thread = [s \in Slots |-> Idle], !.flight = NoFlight]
         booted == IF store = None THEN fresh ELSE Refresh(fresh, "boot", "renews")
     IN /\ store' = booted.store
        /\ tab' = [tab EXCEPT ![b] = booted.tab]
        /\ thread' = [thread EXCEPT ![b] = booted.thread]
        /\ flight' = [flight EXCEPT ![b] = booted.flight]
        /\ past' = [past EXCEPT !.causes =
                      @ \cup (IF flight[b].pc # "none" \/ \E s \in Slots : Busy(b, s)
                              THEN {"lost"} ELSE {})
                        \cup (IF tab[b].open THEN {} ELSE {"tabs"})]
        /\ UNCHANGED session

Receive(b, s) ==
  /\ thread[b][s].pc = "answered"
  /\ Commit(b, CASE thread[b][s].answer = "ok" -> Succeeded(Here(b), s)
                 [] thread[b][s].answer = "denied" -> Denied(Here(b), s)
                 [] thread[b][s].answer = "lost" -> Failed(Here(b), s))
  /\ UNCHANGED world

(***************************************************************************)
(* The refresh settles: tokens are stored, refreshInFlight is reset, and   *)
(* all its callers resume before the tab does anything else.               *)
(***************************************************************************)
Waiting(c) == {s \in Slots : c.thread[s].pc \in {"waits", "renews"}}
ResumeOne(c, t) ==
  IF Waiting(c) = {} THEN c ELSE Resumed(c, CHOOSE s \in Waiting(c) : TRUE, t)
ResumeAll(c, t) ==
  LET callers == Waiting(c)
      after == [s \in Slots |-> IF s \in callers THEN Resumed(c, s, t).thread[s]
                                                  ELSE c.thread[s]]
      left == CASE t = None /\ (\E s \in callers : c.thread[s].pc = "waits" \/ s # "boot") -> Ended(c)
                [] t = None /\ callers = {"boot"} /\ c.thread["boot"].pc = "renews" -> Forgotten(c)
                [] OTHER -> c
  IN [left EXCEPT !.thread = after,
                  !.tab.loading = @ /\ ~(t = None /\ "boot" \in callers)]
Settle(b) ==
  LET t == flight[b].answer
      landed == [Here(b) EXCEPT !.flight = NoFlight]
  IN /\ flight[b].pc = "answered"
     /\ Commit(b, ResumeAll(IF t = None THEN landed ELSE Adopted(landed, t), t))
     /\ UNCHANGED world

-----------------------------------------------------------------------------
(* The server. *)

Answer(b, s, answer) ==
  thread' = [thread EXCEPT ![b][s].pc = "answered", ![b][s].answer = answer]

(* JwtAuthGuard: the access token's own expiry, never its session's row. *)
Admitted(t) == t # None /\ ~session[t].expired

Issue(t, a) == [session EXCEPT ![t] = [account |-> a, revoked |-> FALSE, expired |-> FALSE]]
Revoke(T) == [t \in Tokens |-> [session[t] EXCEPT !.revoked = @ \/ t \in T]]
SessionsOf(a) == {t \in Tokens : session[t].account = a}

Serve(b, s) ==
  /\ thread[b][s].pc = "sent" /\ thread[b][s].req \in Guarded
  /\ ~Admitted(thread[b][s].token) \/ thread[b][s].req \in {"page", "me", "typo"}
  /\ Answer(b, s, IF Admitted(thread[b][s].token) /\ thread[b][s].req # "typo"
                  THEN "ok" ELSE "denied")
  /\ past' = IF Admitted(thread[b][s].token) /\ thread[b][s].req = "typo"
             THEN [past EXCEPT !.causes = @ \cup {"typo"}] ELSE past
  /\ UNCHANGED <<session, store, tab, flight, world>>

ServeLogin(b) ==
  /\ thread[b]["login"].pc = "sent" /\ thread[b]["login"].req = "login"
  /\ \/ /\ Answer(b, "login", "denied")
        /\ UNCHANGED session
     \/ \E a \in Accounts :
          /\ Free # {}
          /\ session' = Issue(NextPair, a)
          /\ thread' = [thread EXCEPT ![b]["login"].pc = "answered",
                          ![b]["login"].answer = "ok", ![b]["login"].token = NextPair]
  /\ UNCHANGED <<store, tab, flight, past, world>>

(* The refresh token of the body must be live and the caller's own. *)
ServeLogout(b) ==
  LET t == thread[b]["logout"].token
      body == thread[b]["logout"].body
      own == ~session[body].revoked /\ session[body].account = session[t].account
  IN /\ thread[b]["logout"].pc = "sent" /\ Admitted(t)
     /\ session' = IF own THEN Revoke({body}) ELSE session
     /\ Answer(b, "logout", IF own THEN "ok" ELSE "denied")
     /\ UNCHANGED <<store, tab, flight, past, world>>

(* A session the browser still holds has been revoked under it. *)
Evicted(T) ==
  past' = [past EXCEPT !.causes = @ \cup
             IF \E t \in T \cap Referenced : ~session[t].revoked THEN {"revoked"} ELSE {}]

(* changePassword(): every session but the caller's own goes. *)
ServeChange(b) ==
  LET t == thread[b]["change"].token
      others == SessionsOf(session[t].account) \ {t}
  IN /\ thread[b]["change"].pc = "sent" /\ thread[b]["change"].req = "change"
     /\ Admitted(t)
     /\ session' = Revoke(others)
     /\ Evicted(others)
     /\ Answer(b, "change", "ok")
     /\ UNCHANGED <<store, tab, flight, world>>

(* refresh(): the lookup, with the kill switch for a token used before. *)
LookUp(b) ==
  LET t == flight[b].presented IN
  /\ flight[b].pc = "sent"
  /\ IF session[t].revoked
     THEN /\ session' = Revoke(SessionsOf(session[t].account))
          /\ flight' = [flight EXCEPT ![b].pc = "answered"]
          /\ past' = [past EXCEPT !.killed = TRUE]
     ELSE /\ flight' = [flight EXCEPT ![b].pc = "found"]
          /\ UNCHANGED <<session, past>>
  /\ UNCHANGED <<store, tab, thread, world>>

(* refresh(): the conditional revoke, and the new pair for its one winner. *)
Rotate(b) ==
  LET t == flight[b].presented IN
  /\ flight[b].pc = "found"
  /\ IF session[t].revoked
     THEN /\ flight' = [flight EXCEPT ![b].pc = "answered"]
          /\ UNCHANGED session
     ELSE /\ Free # {}
          /\ session' = [Issue(NextPair, session[t].account) EXCEPT ![t].revoked = TRUE]
          /\ flight' = [flight EXCEPT ![b].pc = "answered", ![b].answer = NextPair]
  /\ UNCHANGED <<store, tab, thread, past, world>>

-----------------------------------------------------------------------------
(* The clock, the network and other devices. *)

(* Access tokens outlive a request that carries them. *)
Expire(t) ==
  /\ Spend("expire")
  /\ ~session[t].expired /\ \E b \in Tabs : t = tab[b].access
  /\ \A b \in Tabs, s \in Slots : thread[b][s].pc = "sent" => thread[b][s].token # t
  /\ session' = [session EXCEPT ![t].expired = TRUE]
  /\ UNCHANGED <<store, tab, thread, flight, past>>

(* "Sign out everywhere" on another device, or a password reset. *)
RevokeAllSessions(a) ==
  /\ Spend("revoke")
  /\ session' = Revoke(SessionsOf(a))
  /\ Evicted(SessionsOf(a))
  /\ UNCHANGED <<store, tab, thread, flight>>

(* A request or its answer is lost; a throttled one is refused. *)
Lose(b, s) ==
  /\ thread[b][s].pc \in {"sent", "answered"}
  /\ Spend("lose")
  /\ Answer(b, s, "lost")
  /\ past' = [past EXCEPT !.causes = @ \cup {"lost"}]
  /\ UNCHANGED <<session, store, tab, flight>>

LoseRefresh(b) ==
  /\ flight[b].pc \in {"sent", "answered"}
  /\ Spend("lose")
  /\ flight' = [flight EXCEPT ![b].pc = "answered", ![b].answer = None]
  /\ past' = [past EXCEPT !.causes = @ \cup {"lost"}]
  /\ UNCHANGED <<session, store, tab, thread>>

-----------------------------------------------------------------------------
UserStep(b) ==
  \/ \E c \in Calls : StartCall(b, c)
  \/ StartLogin(b)
  \/ StartLogout(b)
  \/ \E req \in {"change", "typo"} : StartChange(b, req)
  \/ Boot(b)
Environment ==
  \/ \E t \in Tokens : Expire(t)
  \/ \E a \in Accounts : RevokeAllSessions(a)
  \/ \E b \in Tabs, s \in Slots : Lose(b, s)
  \/ \E b \in Tabs : LoseRefresh(b)
ServerStep(b) ==
  \/ \E s \in Slots : Serve(b, s)
  \/ ServeLogin(b) \/ ServeLogout(b) \/ ServeChange(b)
  \/ LookUp(b) \/ Rotate(b)
TabStep(b) == Settle(b) \/ \E s \in Slots : Receive(b, s)

Next == \/ \E b \in Tabs : UserStep(b) \/ ServerStep(b) \/ TabStep(b)
        \/ Environment

(* The server answers what reaches it and the event loop runs what is due. *)
Fairness == \A b \in Tabs : WF_vars(ServerStep(b)) /\ WF_vars(TabStep(b))
Spec == Init /\ [][Next]_vars /\ Fairness

-----------------------------------------------------------------------------
(***************************************************************************)
(* The shapes of the state: React shows no token but the one api-client    *)
(* sends, and a tab is loading exactly while bootstrap() runs.             *)
(***************************************************************************)
TypeOK ==
  LET Token == Tokens \cup {None} IN
  /\ session \in [Tokens -> [account : Accounts, revoked : BOOLEAN, expired : BOOLEAN]]
  /\ store \in Token
  /\ past \in [killed : BOOLEAN, ended : BOOLEAN, out : BOOLEAN,
               causes : SUBSET {"lost", "tabs", "crossed", "revoked", "typo"}]
  /\ \A b \in Tabs :
       /\ tab[b] \in [open : BOOLEAN, access : Token, shown : Token,
                      user : Accounts \cup {None}, loading : BOOLEAN]
       /\ tab[b].shown \in {None, tab[b].access}
       /\ tab[b].loading <=> Busy(b, "boot")
       /\ flight[b] \in [pc : {"none", "sent", "found", "answered"},
                         presented : Token, answer : Token]
       /\ flight[b].pc = "none" <=> flight[b] = NoFlight
       /\ \A s \in Slots :
            /\ thread[b][s] \in [pc : {"idle", "sent", "answered", "waits", "renews"},
                                 req : NoRefreshPaths \cup Guarded \cup {None},
                                 token : Token, body : Token, retried : BOOLEAN,
                                 answer : Answers \cup {None}]

(***************************************************************************)
(* A signed-in user is not sent back to the login page by the browser's    *)
(* own doing: only when a session it held was revoked, an answer was lost, *)
(* answers of a login or logout crossed those of a refresh, another tab    *)
(* was open, or the current password was mistyped.  Expired access tokens, *)
(* however many requests meet them at once, cost nobody the session        *)
(* (refreshAccessToken() is single-flight, request() retries once).  Nor   *)
(* is one browser mistaken for a thief: the kill switch of refresh() fires *)
(* only for such a cause, and never for a mistyped password.               *)
(***************************************************************************)
SessionEndsForACause ==
  /\ past.ended => past.causes # {}
  /\ past.killed => past.causes \ {"typo"} # {}

(***************************************************************************)
(* The same without the mistyped password: the change-password page        *)
(* reports a wrong current password against its field and nothing else.    *)
(***************************************************************************)
WrongPasswordKeepsSession == past.ended => past.causes \ {"typo"} # {}

(***************************************************************************)
(* After a logout no token is stored until somebody logs in, whatever the  *)
(* requests still under way in any tab come back with (the catch and the   *)
(* finally of AuthContext.logout()).                                       *)
(***************************************************************************)
LogoutHolds == past.out => store = None

(***************************************************************************)
(* Requests are made as the user the page shows: the account behind the    *)
(* access token is the one currentUser names, unless answers crossed or    *)
(* another tab replaced the stored token.                                  *)
(***************************************************************************)
UserActsAsShown == \A b \in Tabs :
  tab[b].user # None /\ tab[b].access # None
    => \/ session[tab[b].access].account = tab[b].user
       \/ past.causes \cap {"crossed", "tabs"} # {}

(***************************************************************************)
(* The three together: the session and its tokens are those of the user    *)
(* the page shows, and end when that user or a named cause ends them.      *)
(***************************************************************************)
SessionIsTheUsers ==
  /\ SessionEndsForACause
  /\ LogoutHolds
  /\ UserActsAsShown

(***************************************************************************)
(* No caller waits for ever on a refresh another caller started, and no    *)
(* refresh leads to another without end.                                   *)
(***************************************************************************)
EverythingSettles ==
  <>[](\A b \in Tabs : flight[b] = NoFlight /\ \A s \in Slots : ~Busy(b, s))
=============================================================================
