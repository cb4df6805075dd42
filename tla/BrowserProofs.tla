--------------------------- MODULE BrowserProofs ---------------------------
(***************************************************************************)
(* What Browser guarantees for every number of tabs, page requests,        *)
(* accounts and pairs, and in every world of events.                       *)
(*                                                                         *)
(* What a tab's code does between two awaits is a function of the tab's    *)
(* own state: the lemmas say what each function does to its fields, the    *)
(* invariants are predicates of one tab's state, and each kind of step is  *)
(* shown to keep them.                                                     *)
(***************************************************************************)
EXTENDS Browser, TLAPS

Token == Tokens \cup {None}
Threads == [pc : {"idle", "sent", "answered", "waits", "renews"},
            req : NoRefreshPaths \cup Guarded \cup {None},
            token : Token, body : Token, retried : BOOLEAN,
            answer : Answers \cup {None}]
TabStates == [open : BOOLEAN, access : Token, shown : Token,
              user : Accounts \cup {None}, loading : BOOLEAN]
Flights == [pc : {"none", "sent", "found", "answered"}, presented : Token, answer : Token]
Contexts == [store : Token, tab : TabStates, thread : [Slots -> Threads],
             flight : Flights, ended : BOOLEAN, out : BOOLEAN]

-----------------------------------------------------------------------------
(* What the functions of a tab do to its fields                              *)

\* Nothing but thread s and the fields of the tab itself are touched.
Touches(c, d, s, th) ==
  /\ d \in Contexts
  /\ d.thread = [c.thread EXCEPT ![s] = th]
  /\ d.flight = c.flight /\ d.out = c.out
  /\ d.tab.open = c.tab.open

LEMMA IdleType == Idle \in Threads /\ Idle.pc = "idle" /\ Idle.req = None
                  /\ Idle.retried = FALSE /\ Idle.answer = None /\ Idle.token = None
                  /\ None \notin {"page", "me", "login", "logout", "change", "typo", "ok", "denied", "lost"}
BY ConstantsAssumption DEF Idle, Threads, Token, NoRefreshPaths, Guarded, Answers

LEMMA DoneFields ==
  ASSUME NEW c \in Contexts, NEW s \in Slots
  PROVE  /\ Touches(c, Done(c, s), s, Idle)
         /\ Done(c, s).store = c.store /\ Done(c, s).tab = c.tab /\ Done(c, s).ended = c.ended
BY IdleType DEF Done, Contexts, Touches

LEMMA ClearedFields ==
  ASSUME NEW c \in Contexts
  PROVE  LET d == Cleared(c) IN
         /\ d \in Contexts /\ d.thread = c.thread /\ d.flight = c.flight
         /\ d.out = c.out /\ d.ended = c.ended /\ d.store = None
         /\ d.tab.access = None /\ d.tab.shown = None /\ d.tab.user = None
         /\ d.tab.open = c.tab.open /\ d.tab.loading = c.tab.loading
BY DEF Cleared, Contexts, TabStates, Token

LEMMA EndedFields ==
  ASSUME NEW c \in Contexts
  PROVE  LET d == Ended(c) IN
         /\ d \in Contexts /\ d.thread = c.thread /\ d.flight = c.flight
         /\ d.out = c.out /\ d.store = None
         /\ d.ended = (c.ended \/ c.store # None)
         /\ d.tab.access = None /\ d.tab.shown = None /\ d.tab.user = None
         /\ d.tab.open = c.tab.open /\ d.tab.loading = c.tab.loading
<1> DEFINE e == Cleared(c)
<1>1. /\ e \in Contexts /\ e.thread = c.thread /\ e.flight = c.flight
      /\ e.out = c.out /\ e.ended = c.ended /\ e.store = None
      /\ e.tab.access = None /\ e.tab.shown = None /\ e.tab.user = None
      /\ e.tab.open = c.tab.open /\ e.tab.loading = c.tab.loading
  BY ClearedFields
<1>2. Ended(c) = [e EXCEPT !.ended = c.ended \/ c.store # None]
  BY DEF Ended
<1>3. (c.ended \/ c.store # None) \in BOOLEAN
  OBVIOUS
<1> HIDE DEF e
<1>4. QED
  BY <1>1, <1>2, <1>3 DEF Contexts

LEMMA ForgottenFields ==
  ASSUME NEW c \in Contexts
  PROVE  LET d == Forgotten(c) IN
         /\ d \in Contexts /\ d.thread = c.thread /\ d.flight = c.flight
         /\ d.out = c.out /\ d.store = c.store /\ d.ended = c.ended
         /\ d.tab.access = c.tab.access /\ d.tab.shown = None /\ d.tab.user = None
         /\ d.tab.open = c.tab.open /\ d.tab.loading = c.tab.loading
BY DEF Forgotten, Contexts, TabStates, Token

LEMMA AdoptedFields ==
  ASSUME NEW c \in Contexts, NEW t \in Token
  PROVE  LET d == Adopted(c, t) IN
         /\ d \in Contexts /\ d.thread = c.thread /\ d.flight = c.flight
         /\ d.out = c.out /\ d.store = t /\ d.ended = c.ended
         /\ d.tab.access = t /\ d.tab.shown = t /\ d.tab.user = c.tab.user
         /\ d.tab.open = c.tab.open /\ d.tab.loading = c.tab.loading
BY DEF Adopted, Contexts, TabStates

\* What a thread sends.
Sent(req, token) == [Idle EXCEPT !.pc = "sent", !.req = req, !.token = token]
Carried(req, access) == IF req = "login" THEN None ELSE access

LEMMA SentType ==
  ASSUME NEW req \in NoRefreshPaths \cup Guarded, NEW token \in Token
  PROVE  LET th == Sent(req, token) IN
         /\ th \in Threads /\ th.pc = "sent" /\ th.req = req /\ th.token = token
         /\ th.retried = FALSE /\ th.answer = None
BY DEF Sent, Idle, Threads, Token

LEMMA FetchFields ==
  ASSUME NEW c \in Contexts, NEW s \in Slots, NEW req \in NoRefreshPaths \cup Guarded
  PROVE  LET d == Fetch(c, s, req) IN
         /\ Touches(c, d, s, Sent(req, Carried(req, c.tab.access)))
         /\ d.store = c.store /\ d.tab = c.tab /\ d.ended = c.ended
<1>1. Carried(req, c.tab.access) \in Token
  BY DEF Carried, Contexts, TabStates, Token
<1>2. Sent(req, Carried(req, c.tab.access)) \in Threads
  BY <1>1, SentType
<1>3. Fetch(c, s, req) = [c EXCEPT !.thread[s] = Sent(req, Carried(req, c.tab.access))]
  BY DEF Fetch, Sent, Carried
<1>4. QED
  BY <1>2, <1>3 DEF Contexts, Touches

LEMMA RetryFields ==
  ASSUME NEW c \in Contexts, NEW s \in Slots, c.thread[s].req \in NoRefreshPaths \cup Guarded
  PROVE  LET d == Retry(c, s)
             th == [Sent(c.thread[s].req, Carried(c.thread[s].req, c.tab.access))
                      EXCEPT !.retried = TRUE] IN
         /\ Touches(c, d, s, th)
         /\ d.store = c.store /\ d.tab = c.tab /\ d.ended = c.ended
<1> DEFINE th == Sent(c.thread[s].req, Carried(c.thread[s].req, c.tab.access))
           e == Fetch(c, s, c.thread[s].req)
<1>1. /\ Touches(c, e, s, th) /\ e.store = c.store /\ e.tab = c.tab /\ e.ended = c.ended
  BY FetchFields
<1>2. Retry(c, s) = [e EXCEPT !.thread[s].retried = TRUE]
  BY DEF Retry
<1>3. e \in Contexts /\ e.thread \in [Slots -> Threads] /\ e.thread[s] = th /\ th \in Threads
  BY <1>1 DEF Touches, Contexts
<1>4. [th EXCEPT !.retried = TRUE] \in Threads
  BY <1>3 DEF Threads
<1> HIDE DEF th, e
<1>5. Retry(c, s) = [e EXCEPT !.thread = [e.thread EXCEPT ![s] = [th EXCEPT !.retried = TRUE]]]
  BY <1>2, <1>3
<1>6. [e.thread EXCEPT ![s] = [th EXCEPT !.retried = TRUE]]
        = [c.thread EXCEPT ![s] = [th EXCEPT !.retried = TRUE]]
  BY <1>1, <1>3 DEF Touches, Contexts
<1>7. QED
  BY <1>1, <1>3, <1>4, <1>5, <1>6 DEF Touches, Contexts, th

\* A thread gives up: its tab is as it was, or signed out.
GivesUp(c, d, s, cleared) ==
  /\ Touches(c, d, s, Idle)
  /\ d.tab.loading = (c.tab.loading /\ s # "boot")
  /\ cleared =>
       /\ d.store = None /\ d.tab.access = None /\ d.tab.shown = None /\ d.tab.user = None
       /\ d.ended = (c.ended \/ c.store # None)
  /\ ~cleared =>
       /\ d.store = c.store /\ d.tab.access = c.tab.access
       /\ d.tab.shown = c.tab.shown /\ d.tab.user = c.tab.user
       /\ d.ended = c.ended

\* The same of a logout, whose end is not a session's but its user's.
SignsOut(c, d) ==
  /\ d \in Contexts
  /\ d.thread = [c.thread EXCEPT !["logout"] = Idle] /\ d.flight = c.flight
  /\ d.tab.open = c.tab.open /\ d.tab.loading = c.tab.loading
  /\ d.store = None /\ d.tab.access = None /\ d.tab.shown = None /\ d.tab.user = None
  /\ d.ended = c.ended
  /\ d.out = \A b \in Tabs : flight[b].pc = "none" /\ thread[b]["login"].req # "login"

LEMMA FailedGivesUp ==
  ASSUME NEW c \in Contexts, NEW s \in Slots, s # "logout",
         c.tab.loading => c.thread["boot"].pc # "idle"
  PROVE  GivesUp(c, Failed(c, s), s, s = "boot")
<1> DEFINE e == Done(c, s)
<1>1. /\ Touches(c, e, s, Idle) /\ e \in Contexts
      /\ e.store = c.store /\ e.tab = c.tab /\ e.ended = c.ended
  BY DoneFields DEF Touches
<1>2. CASE s = "boot"
  <2> DEFINE f == Ended(e)
  <2>1. /\ f \in Contexts /\ f.thread = e.thread /\ f.flight = e.flight
        /\ f.out = e.out /\ f.store = None /\ f.ended = (e.ended \/ e.store # None)
        /\ f.tab.access = None /\ f.tab.shown = None /\ f.tab.user = None
        /\ f.tab.open = e.tab.open
    BY <1>1, EndedFields
  <2>2. Failed(c, s) = [f EXCEPT !.tab.loading = FALSE]
    BY <1>2 DEF Failed
  <2> HIDE DEF e, f
  <2>3. LET d == Failed(c, s) IN
        /\ d \in Contexts /\ d.thread = f.thread /\ d.flight = f.flight
        /\ d.out = f.out /\ d.store = f.store /\ d.ended = f.ended
        /\ d.tab.access = f.tab.access /\ d.tab.shown = f.tab.shown /\ d.tab.user = f.tab.user
        /\ d.tab.open = f.tab.open /\ d.tab.loading = FALSE
    BY <2>1, <2>2 DEF Contexts, TabStates
  <2>4. QED
    BY <1>1, <1>2, <2>1, <2>3 DEF GivesUp, Touches
<1>3. CASE s # "boot"
  <2>1. Failed(c, s) = e
    BY <1>3 DEF Failed
  <2>2. c.tab.loading \in BOOLEAN
    BY DEF Contexts, TabStates
  <2> HIDE DEF e
  <2>3. QED
    BY <1>1, <1>3, <2>1, <2>2 DEF GivesUp
<1>4. QED
  BY <1>2, <1>3

-----------------------------------------------------------------------------
(* What holds of one tab, and what keeps it                                  *)

\* The requests that the function of each slot makes.
Requests(s) ==
  CASE s = "boot" -> {"me"}
    [] s = "login" -> {"login", "me"}
    [] s = "logout" -> {"logout"}
    [] s = "change" -> {"change", "typo", "me"}
    [] OTHER -> {"page"}

\* A thread is where its function has got to; it waits for a flight only.
ThreadStands(th, s, fl) ==
  /\ th.pc = "idle" => th = Idle
  /\ th.pc \in {"sent", "answered", "waits"} => th.req \in Requests(s)
  /\ th.pc = "renews" => (s = "boot" /\ th.req = None) \/ (s = "change" /\ th.req = "change")
  /\ th.pc \in {"waits", "renews"} => fl.pc # "none"
  /\ th.pc = "waits" \/ th.retried => th.req \notin NoRefreshPaths
  /\ th.pc = "answered" => th.answer # None
  /\ th.pc = "answered" /\ th.answer = "ok" =>
       th.req # "typo" /\ (th.req \in {"me", "login"} => th.token \in Tokens)
FlightStands(fl) ==
  /\ fl.pc = "none" <=> fl = NoFlight
  /\ fl.pc # "none" => fl.presented \in Tokens
  /\ fl.pc \in {"sent", "found"} => fl.answer = None

\* What holds of a tab's store, memory, threads and flight whatever happens.
TabStands(c) ==
  /\ c \in Contexts
  /\ c.tab.shown \in {None, c.tab.access}
  /\ c.tab.loading <=> c.thread["boot"].pc # "idle"
  /\ FlightStands(c.flight)
  /\ \A s \in Slots : ThreadStands(c.thread[s], s, c.flight)

\* Nobody can store a token after a logout that was upheld.
NobodyAnswers(c) == c.flight.pc = "none" /\ c.thread["login"].req # "login"

\* A tab whose answers came in the order of its requests.
InOrder(c, ses) ==
  /\ ~Crossed(c)
  /\ c.tab.access = c.tab.shown
  /\ c.tab.access # None => c.store = c.tab.access
  /\ c.tab.user # None => c.tab.access # None /\ ses[c.tab.access].account = c.tab.user
  /\ \A s \in Slots : c.thread[s].req = "me" =>
       c.tab.access # None /\ c.thread[s].token = c.tab.access
  /\ c.thread["login"].req = "login" => c.tab.access = None
  /\ c.thread["logout"].pc # "idle" => c.tab.access # None
  /\ c.thread["boot"].pc # "idle" => \A s \in Slots \ {"boot"} : c.thread[s].pc = "idle"
  /\ c.thread["boot"].pc = "renews" => c.tab.access = None
  /\ c.flight.pc # "none" =>
       /\ c.store \in {None, c.flight.presented}
       /\ c.flight.answer # None =>
            ses[c.flight.answer].account = ses[c.flight.presented].account

\* A session that nothing has ended.
ThreadUndisturbed(th, ses, causes) ==
  /\ th.answer # "lost"
  /\ th.retried /\ th.pc = "sent" => th.token # None /\ ~ses[th.token].expired
  /\ th.retried /\ th.pc = "answered" /\ th.answer = "denied" => "typo" \in causes
Undisturbed(c, ses, causes) ==
  /\ c.store # None /\ c.flight.pc = "none" /\ c.thread["logout"].pc = "idle" =>
       ~ses[c.store].revoked
  /\ c.flight.pc \in {"sent", "found"} => ~ses[c.flight.presented].revoked
  /\ c.flight.pc = "answered" =>
       /\ c.flight.answer # None /\ c.flight.answer # c.tab.access
       /\ ~ses[c.flight.answer].revoked /\ ~ses[c.flight.answer].expired
  /\ c.thread["login"].req = "login" /\ c.thread["login"].pc = "answered"
       /\ c.thread["login"].answer = "ok" => ~ses[c.thread["login"].token].revoked
  /\ \A s \in Slots : ThreadUndisturbed(c.thread[s], ses, causes)

\* A step from c to d within one tab.
KeepsOrder(c, d, ses) == InOrder(c, ses) /\ ~Crossed(d) => InOrder(d, ses)
KeepsCalm(c, d, ses, causes) ==
  InOrder(c, ses) /\ InOrder(d, ses) /\ Undisturbed(c, ses, causes) =>
    Undisturbed(d, ses, causes) /\ (d.ended => c.ended \/ "typo" \in causes)
KeepsLogout(c, d) ==
  (c.out => c.store = None /\ NobodyAnswers(c)) =>
    (d.out => c.out /\ d.store = None /\ NobodyAnswers(d))
Keeps(c, d, ses, causes) ==
  /\ TabStands(d)
  /\ KeepsOrder(c, d, ses) /\ KeepsCalm(c, d, ses, causes) /\ KeepsLogout(c, d)

LEMMA ThreadsOf ==
  ASSUME NEW c \in Contexts, NEW d, NEW s \in Slots, NEW th \in Threads, Touches(c, d, s, th)
  PROVE  /\ d.thread[s] = th
         /\ \A r \in Slots \ {s} : d.thread[r] = c.thread[r]
BY DEF Contexts, Touches

LEMMA NamedSlots == {"boot", "login", "logout", "change"} \subseteq Slots
BY DEF Slots

LEMMA IdleStands == \A s, fl : ThreadStands(Idle, s, fl)
BY DEF ThreadStands, Idle

\* Nobody else in the tab depends on the session that thread s gives up.
Alone(c, s) == \A r \in Slots \ {s} :
  c.thread[r].req # "me" /\ (r = "logout" => c.thread[r].pc = "idle")

\* A thread that gives up keeps a tab in order, and ends a session for a cause.
LEMMA GivingUpKeeps ==
  ASSUME NEW c, NEW d, NEW s \in Slots, NEW ses, NEW causes, NEW cleared \in BOOLEAN,
         TabStands(c), GivesUp(c, d, s, cleared), s # "logout",
         cleared /\ InOrder(c, ses) => Alone(c, s),
         cleared /\ InOrder(c, ses) /\ Undisturbed(c, ses, causes) /\ c.store # None => "typo" \in causes
  PROVE  Keeps(c, d, ses, causes)
<1>1. c \in Contexts /\ d \in Contexts
  BY DEF TabStands, GivesUp, Touches
<1>2. d.thread[s] = Idle /\ \A r \in Slots \ {s} : d.thread[r] = c.thread[r]
  BY <1>1, ThreadsOf, IdleType DEF GivesUp
<1>3. d.flight = c.flight /\ d.out = c.out /\ d.tab.open = c.tab.open
  BY DEF GivesUp, Touches
<1>4. TabStands(d)
  <2>1. \A r \in Slots : ThreadStands(d.thread[r], r, d.flight)
    BY <1>2, <1>3, IdleStands DEF TabStands
  <2>2. d.tab.loading <=> d.thread["boot"].pc # "idle"
    BY <1>2, IdleType, NamedSlots DEF TabStands, GivesUp
  <2>3. d.tab.shown \in {None, d.tab.access}
    BY DEF TabStands, GivesUp
  <2>4. QED
    BY <1>1, <1>3, <2>1, <2>2, <2>3 DEF TabStands
<1>5. KeepsOrder(c, d, ses)
  <2> SUFFICES ASSUME InOrder(c, ses), ~Crossed(d) PROVE InOrder(d, ses)
    BY DEF KeepsOrder
  <2>1. /\ d.tab.access = d.tab.shown
        /\ d.tab.access # None => d.store = d.tab.access
        /\ d.tab.user # None => d.tab.access # None /\ ses[d.tab.access].account = d.tab.user
    BY DEF InOrder, GivesUp
  <2>2. \A r \in Slots : d.thread[r].req = "me" =>
          d.tab.access # None /\ d.thread[r].token = d.tab.access
    <3>1. CASE cleared
      BY <1>2, <3>1, IdleType DEF Alone
    <3>2. CASE ~cleared
      BY <1>2, <3>2, IdleType DEF InOrder, GivesUp
    <3>3. QED
      BY <3>1, <3>2
  <2>3. /\ d.thread["login"].req = "login" => d.tab.access = None
        /\ d.thread["boot"].pc = "renews" => d.tab.access = None
    BY <1>2, IdleType, NamedSlots DEF InOrder, GivesUp
  <2>4. d.thread["logout"].pc # "idle" => d.tab.access # None
    BY <1>2, NamedSlots DEF InOrder, GivesUp, Alone
  <2>5. d.thread["boot"].pc # "idle" => \A r \in Slots \ {"boot"} : d.thread[r].pc = "idle"
    BY <1>2, IdleType, NamedSlots DEF InOrder
  <2>6. d.flight.pc # "none" =>
          /\ d.store \in {None, d.flight.presented}
          /\ d.flight.answer # None =>
               ses[d.flight.answer].account = ses[d.flight.presented].account
    BY <1>3 DEF InOrder, GivesUp
  <2>7. QED
    BY <2>1, <2>2, <2>3, <2>4, <2>5, <2>6 DEF InOrder
<1>6. KeepsCalm(c, d, ses, causes)
  <2> SUFFICES ASSUME InOrder(c, ses), Undisturbed(c, ses, causes)
               PROVE  Undisturbed(d, ses, causes) /\ (d.ended => c.ended \/ "typo" \in causes)
    BY DEF KeepsCalm
  <2>1. d.ended => c.ended \/ "typo" \in causes
    BY DEF GivesUp
  <2>2. \A r \in Slots : ThreadUndisturbed(d.thread[r], ses, causes)
    BY <1>2, IdleType DEF Undisturbed, ThreadUndisturbed
  <2>3. d.flight.pc = "answered" => d.flight.answer # d.tab.access
    BY <1>3 DEF Undisturbed, GivesUp
  <2>4. d.store # None => d.store = c.store
    BY DEF GivesUp
  <2>5. QED
    BY <1>2, <1>3, <2>1, <2>2, <2>3, <2>4, IdleType, NamedSlots DEF Undisturbed
<1>7. KeepsLogout(c, d)
  BY <1>2, <1>3, IdleType, NamedSlots DEF KeepsLogout, NobodyAnswers, GivesUp
<1>8. QED
  BY <1>4, <1>5, <1>6, <1>7 DEF Keeps

\* /auth/me has answered: the tab shows whose token it asked with.
Shows(c, d, s, account) ==
  /\ Touches(c, d, s, Idle)
  /\ d.tab.loading = (c.tab.loading /\ s # "boot")
  /\ d.store = c.store /\ d.tab.access = c.tab.access /\ d.tab.shown = c.tab.shown
  /\ d.tab.user = account /\ d.ended = c.ended

LEMMA ShowingKeeps ==
  ASSUME NEW c, NEW d, NEW s \in Slots, NEW ses, NEW causes, TabStands(c),
         c.thread[s].pc = "answered", c.thread[s].req = "me",
         Shows(c, d, s, ses[c.thread[s].token].account)
  PROVE  Keeps(c, d, ses, causes)
<1>1. c \in Contexts /\ d \in Contexts
  BY DEF TabStands, Shows, Touches
<1>2. d.thread[s] = Idle /\ \A r \in Slots \ {s} : d.thread[r] = c.thread[r]
  BY <1>1, ThreadsOf, IdleType DEF Shows
<1>3. d.flight = c.flight /\ d.out = c.out
  BY DEF Shows, Touches
<1>4. s # "logout"
  BY DEF TabStands, ThreadStands, Requests
<1>5. TabStands(d)
  <2>1. \A r \in Slots : ThreadStands(d.thread[r], r, d.flight)
    BY <1>2, <1>3, IdleStands DEF TabStands
  <2>2. d.tab.loading <=> d.thread["boot"].pc # "idle"
    BY <1>2, IdleType, NamedSlots DEF TabStands, Shows
  <2>3. QED
    BY <1>1, <1>3, <2>1, <2>2 DEF TabStands, Shows
<1>6. KeepsOrder(c, d, ses)
  <2> SUFFICES ASSUME InOrder(c, ses), ~Crossed(d) PROVE InOrder(d, ses)
    BY DEF KeepsOrder
  <2>1. c.tab.access # None /\ c.thread[s].token = c.tab.access
    BY DEF InOrder
  <2>2. \A r \in Slots : d.thread[r].req = "me" => d.thread[r].token = d.tab.access
    BY <1>2, IdleType DEF InOrder, Shows
  <2>3. /\ d.thread["login"].req = "login" => d.tab.access = None
        /\ d.thread["boot"].pc = "renews" => d.tab.access = None
    BY <1>2, IdleType, NamedSlots DEF InOrder, Shows
  <2>4. d.thread["boot"].pc # "idle" => \A r \in Slots \ {"boot"} : d.thread[r].pc = "idle"
    BY <1>2, IdleType, NamedSlots DEF InOrder
  <2>5. QED
    BY <1>3, <2>1, <2>2, <2>3, <2>4 DEF InOrder, Shows
<1>7. KeepsCalm(c, d, ses, causes)
  <2> SUFFICES ASSUME Undisturbed(c, ses, causes)
               PROVE  Undisturbed(d, ses, causes) /\ (d.ended => c.ended)
    BY DEF KeepsCalm
  <2>1. \A r \in Slots : ThreadUndisturbed(d.thread[r], ses, causes)
    BY <1>2, IdleType DEF Undisturbed, ThreadUndisturbed
  <2>2. QED
    BY <1>2, <1>3, <1>4, <2>1, IdleType, NamedSlots DEF Undisturbed, Shows
<1>8. KeepsLogout(c, d)
  BY <1>2, <1>3, IdleType, NamedSlots DEF KeepsLogout, NobodyAnswers, Shows
<1>9. QED
  BY <1>5, <1>6, <1>7, <1>8 DEF Keeps

\* A login has answered: its tokens are adopted, and /auth/me is asked.
LEMMA LoginKeeps ==
  ASSUME NEW c, NEW ses, NEW causes, TabStands(c),
         c.thread["login"].pc = "answered", c.thread["login"].answer = "ok",
         c.thread["login"].req = "login"
  PROVE  Keeps(c, Fetch(Adopted(c, c.thread["login"].token), "login", "me"), ses, causes)
<1> DEFINE t == c.thread["login"].token
           e == Adopted(c, t)
           d == Fetch(e, "login", "me")
           th == Sent("me", t)
<1> USE NamedSlots
<1>1. c \in Contexts /\ t \in Tokens /\ t # None
  BY ConstantsAssumption DEF TabStands, ThreadStands
<1>2. /\ e \in Contexts /\ e.thread = c.thread /\ e.flight = c.flight
      /\ e.out = c.out /\ e.store = t /\ e.ended = c.ended
      /\ e.tab.access = t /\ e.tab.shown = t /\ e.tab.user = c.tab.user
      /\ e.tab.open = c.tab.open /\ e.tab.loading = c.tab.loading
  BY <1>1, AdoptedFields DEF Token
<1> HIDE DEF e
<1>3. Carried("me", t) = t
  BY DEF Carried
<1>4. /\ Touches(e, d, "login", th) /\ d.store = t /\ d.ended = c.ended
      /\ d.tab.access = t /\ d.tab.shown = t /\ d.tab.user = c.tab.user
      /\ d.tab.loading = c.tab.loading
  BY <1>2, <1>3, FetchFields DEF Guarded
<1>5. /\ th \in Threads /\ th.pc = "sent" /\ th.req = "me" /\ th.token = t
      /\ th.retried = FALSE /\ th.answer = None
  <2>1. t \in Token /\ "me" \in NoRefreshPaths \cup Guarded
    BY <1>1 DEF Guarded, Token
  <2> HIDE DEF t
  <2>2. QED
    BY <2>1, SentType
<1> HIDE DEF d, th
<1>6. /\ d.thread["login"] = th /\ \A r \in Slots \ {"login"} : d.thread[r] = c.thread[r]
      /\ d.flight = c.flight /\ d.out = c.out /\ d \in Contexts
  <2>1. /\ d.thread["login"] = th /\ \A r \in Slots \ {"login"} : d.thread[r] = e.thread[r]
    BY <1>2, <1>4, <1>5, ThreadsOf
  <2>2. d.flight = e.flight /\ d.out = e.out /\ d \in Contexts
    BY <1>4 DEF Touches
  <2>3. QED
    BY <1>2, <2>1, <2>2
<1>7. TabStands(d)
  <2>1. ThreadStands(th, "login", d.flight)
    BY <1>5 DEF ThreadStands, Requests, NoRefreshPaths
  <2>2. \A r \in Slots : ThreadStands(d.thread[r], r, d.flight)
    BY <1>6, <2>1 DEF TabStands
  <2>3. QED
    BY <1>4, <1>6, <2>2 DEF TabStands
<1>8. KeepsOrder(c, d, ses)
  <2> SUFFICES ASSUME InOrder(c, ses), ~Crossed(d) PROVE InOrder(d, ses)
    BY DEF KeepsOrder
  <2>1. /\ c.flight.pc = "none" /\ c.tab.access = None /\ c.tab.user = None
        /\ c.thread["boot"].pc = "idle"
        /\ \A r \in Slots : c.thread[r].req # "me"
    <3>1. c.flight.pc = "none"
      BY DEF InOrder, Crossed
    <3>2. QED
      BY <3>1 DEF InOrder
  <2>2. \A r \in Slots : d.thread[r].req = "me" => d.thread[r].token = d.tab.access
    BY <1>4, <1>5, <1>6, <2>1
  <2>3. QED
    BY <1>1, <1>4, <1>5, <1>6, <2>1, <2>2 DEF InOrder
<1>9. KeepsCalm(c, d, ses, causes)
  <2> SUFFICES ASSUME InOrder(c, ses), Undisturbed(c, ses, causes)
               PROVE  Undisturbed(d, ses, causes) /\ (d.ended => c.ended)
    BY DEF KeepsCalm
  <2>1. c.flight.pc = "none"
    BY DEF InOrder, Crossed
  <2>2. ~ses[t].revoked
    BY DEF Undisturbed
  <2>3. \A r \in Slots : ThreadUndisturbed(d.thread[r], ses, causes)
    BY <1>5, <1>6, IdleType DEF Undisturbed, ThreadUndisturbed
  <2>4. QED
    BY <1>4, <1>5, <1>6, <2>1, <2>2, <2>3 DEF Undisturbed
<1>10. KeepsLogout(c, d)
  BY <1>4, <1>6 DEF KeepsLogout, NobodyAnswers
<1>11. QED
  BY <1>7, <1>8, <1>9, <1>10 DEF Keeps, d, e

\* A request is sent by a function that begins.
Asks(c, d, s, th) ==
  /\ Touches(c, d, s, th) /\ d.store = c.store /\ d.tab = c.tab /\ d.ended = c.ended

LEMMA AskingKeeps ==
  ASSUME NEW c, NEW d, NEW s \in Slots, NEW th \in Threads, NEW ses, NEW causes,
         TabStands(c), Asks(c, d, s, th),
         th.pc = "sent", th.retried = FALSE, th.answer = None, th.req # "me", s # "boot",
         th.req \in Requests(s),
         c.tab.shown # None => c.thread["boot"].pc = "idle" /\ s # "login",
         c.tab.shown = None => s = "login" /\ th.req = "login" /\ c.tab.open
  PROVE  /\ TabStands(d) /\ KeepsOrder(c, d, ses) /\ KeepsCalm(c, d, ses, causes)
         /\ s # "login" => KeepsLogout(c, d)
<1> USE NamedSlots
<1>1. c \in Contexts /\ d \in Contexts
  BY DEF TabStands, Asks, Touches
<1>2. d.thread[s] = th /\ \A r \in Slots \ {s} : d.thread[r] = c.thread[r]
  BY <1>1, ThreadsOf DEF Asks
<1>3. d.flight = c.flight /\ d.out = c.out
  BY DEF Asks, Touches
<1>4. TabStands(d)
  <2>1. ThreadStands(th, s, d.flight)
    BY DEF ThreadStands
  <2>2. \A r \in Slots : ThreadStands(d.thread[r], r, d.flight)
    BY <1>2, <1>3, <2>1 DEF TabStands
  <2>3. QED
    BY <1>1, <1>2, <1>3, <2>2 DEF TabStands, Asks
<1>5. KeepsOrder(c, d, ses)
  <2> SUFFICES ASSUME InOrder(c, ses), ~Crossed(d) PROVE InOrder(d, ses)
    BY DEF KeepsOrder
  <2>1. c.thread["boot"].pc = "idle"
    <3>1. CASE c.tab.shown # None
      BY <3>1
    <3>2. CASE c.tab.shown = None
      <4>1. c.tab.access = None /\ c.thread["boot"].req # "me"
        BY <3>2 DEF InOrder
      <4>2. d.flight.pc = "none"
        BY <1>2, <3>2 DEF Crossed
      <4>3. c.thread["boot"].pc \notin {"waits", "renews", "sent", "answered"}
        BY <1>3, <4>1, <4>2 DEF TabStands, ThreadStands, Requests
      <4>4. QED
        BY <1>1, <4>3 DEF Contexts, Threads
    <3>3. QED
      BY <3>1, <3>2
  <2>2. /\ d.thread["login"].req = "login" => d.tab.access = None
        /\ d.thread["logout"].pc # "idle" => d.tab.access # None
        /\ \A r \in Slots : d.thread[r].req = "me" =>
             d.tab.access # None /\ d.thread[r].token = d.tab.access
        /\ d.thread["boot"].pc = "idle"
    BY <1>2, <2>1 DEF InOrder, Asks
  <2>3. QED
    BY <1>2, <1>3, <2>2 DEF InOrder, Asks
<1>6. KeepsCalm(c, d, ses, causes)
  <2> SUFFICES ASSUME Undisturbed(c, ses, causes)
               PROVE  Undisturbed(d, ses, causes) /\ (d.ended => c.ended)
    BY DEF KeepsCalm
  <2>1. \A r \in Slots : ThreadUndisturbed(d.thread[r], ses, causes)
    BY <1>2, IdleType DEF Undisturbed, ThreadUndisturbed
  <2>2. c.store = d.store /\ c.tab = d.tab
    BY DEF Asks
  <2>3. c.thread["logout"].pc = "idle" \/ d.thread["logout"].pc # "idle"
    BY <1>2
  <2>4. QED
    BY <1>2, <1>3, <2>1, <2>2, <2>3 DEF Undisturbed, Asks
<1>7. ASSUME s # "login" PROVE KeepsLogout(c, d)
  BY <1>2, <1>3, <1>7 DEF KeepsLogout, NobodyAnswers, Asks
<1>8. QED
  BY <1>4, <1>5, <1>6, <1>7

\* A logout that is over keeps a tab in order.
LEMMA SigningOutKeeps ==
  ASSUME NEW c, NEW d, NEW ses, NEW causes, TabStands(c), SignsOut(c, d),
         c.store = None \/ c.thread["logout"].pc # "idle"
  PROVE  TabStands(d) /\ KeepsOrder(c, d, ses) /\ KeepsCalm(c, d, ses, causes)
<1> USE NamedSlots
<1>1. c \in Contexts /\ d \in Contexts
  BY DEF TabStands, SignsOut
<1>2. d.thread["logout"] = Idle /\ \A r \in Slots \ {"logout"} : d.thread[r] = c.thread[r]
  BY <1>1, IdleType DEF SignsOut, Contexts
<1>3. TabStands(d)
  <2>1. \A r \in Slots : ThreadStands(d.thread[r], r, d.flight)
    BY <1>2, IdleStands DEF TabStands, SignsOut
  <2>2. QED
    BY <1>1, <1>2, <2>1 DEF TabStands, SignsOut
<1>4. KeepsOrder(c, d, ses)
  <2> SUFFICES ASSUME InOrder(c, ses), ~Crossed(d) PROVE InOrder(d, ses)
    BY DEF KeepsOrder
  <2>1. \A r \in Slots : d.thread[r].req # "me"
    <3>1. CASE c.store = None
      <4>1. \A r \in Slots : c.thread[r].req # "me"
        BY <3>1 DEF InOrder
      <4>2. QED
        BY <1>2, <4>1, IdleType
    <3>2. CASE c.thread["logout"].pc # "idle"
      <4>1. \A r \in Slots \ {"logout"} : c.thread[r].req # "me"
        BY <3>2 DEF InOrder, Crossed
      <4>2. QED
        BY <1>2, <4>1, IdleType
    <3>3. QED
      BY <3>1, <3>2
  <2>2. d.thread["logout"].pc = "idle"
    BY <1>2, IdleType
  <2>3. d.thread["boot"].pc # "idle" => \A r \in Slots \ {"boot"} : d.thread[r].pc = "idle"
    BY <1>2, IdleType DEF InOrder
  <2>4. QED
    BY <1>2, <2>1, <2>2, <2>3 DEF InOrder, SignsOut
<1>5. KeepsCalm(c, d, ses, causes)
  <2> SUFFICES ASSUME Undisturbed(c, ses, causes)
               PROVE  Undisturbed(d, ses, causes) /\ (d.ended => c.ended)
    BY DEF KeepsCalm
  <2>1. \A r \in Slots : ThreadUndisturbed(d.thread[r], ses, causes)
    BY <1>2, IdleType DEF Undisturbed, ThreadUndisturbed
  <2>2. QED
    BY <1>2, <2>1 DEF Undisturbed, SignsOut
<1>6. QED
  BY <1>3, <1>4, <1>5

\* SignedOut() after a logout is the end of one.
LEMMA SignedOutSignsOut ==
  ASSUME NEW c \in Contexts
  PROVE  SignsOut(c, SignedOut(c, "logout"))
<1> DEFINE e == Done(c, "logout")
           f == Cleared(e)
           quiet == \A b \in Tabs : flight[b].pc = "none" /\ thread[b]["login"].req # "login"
<1>1. Touches(c, e, "logout", Idle) /\ e.store = c.store /\ e.tab = c.tab /\ e.ended = c.ended
  BY DoneFields, NamedSlots
<1>2. e \in Contexts /\ e.thread = [c.thread EXCEPT !["logout"] = Idle] /\ e.flight = c.flight
  BY <1>1 DEF Touches
<1> HIDE DEF e
<1>3. /\ f \in Contexts /\ f.thread = e.thread /\ f.flight = e.flight
      /\ f.out = e.out /\ f.ended = e.ended /\ f.store = None
      /\ f.tab.access = None /\ f.tab.shown = None /\ f.tab.user = None
      /\ f.tab.open = e.tab.open /\ f.tab.loading = e.tab.loading
  BY <1>2, ClearedFields
<1> HIDE DEF f
<1>4. SignedOut(c, "logout") = [f EXCEPT !.out = quiet]
  BY DEF SignedOut, f, e
<1>5. quiet \in BOOLEAN
  OBVIOUS
<1> HIDE DEF quiet
<1>6. LET d == [f EXCEPT !.out = quiet] IN
      /\ d \in Contexts /\ d.thread = f.thread /\ d.flight = f.flight /\ d.store = f.store
      /\ d.tab = f.tab /\ d.ended = f.ended /\ d.out = quiet
  BY <1>3, <1>5 DEF Contexts
<1>7. QED
  BY <1>1, <1>2, <1>3, <1>4, <1>6 DEF SignsOut, quiet

\* A session that expired for request() is given up by its caller.
LEMMA ExpiredGivesUp ==
  ASSUME NEW c \in Contexts, NEW s \in Slots, s # "logout",
         c.tab.loading => c.thread["boot"].pc # "idle"
  PROVE  GivesUp(c, SessionExpired(c, s), s, TRUE)
<1> DEFINE e == Ended(c)
           d == SessionExpired(c, s)
<1>1. /\ e \in Contexts /\ e.thread = c.thread /\ e.flight = c.flight
      /\ e.out = c.out /\ e.store = None /\ e.ended = (c.ended \/ c.store # None)
      /\ e.tab.access = None /\ e.tab.shown = None /\ e.tab.user = None
      /\ e.tab.open = c.tab.open /\ e.tab.loading = c.tab.loading
  BY EndedFields
<1>2. d = Failed(e, s)
  BY DEF SessionExpired
<1> HIDE DEF e, d
<1>3. GivesUp(e, d, s, s = "boot")
  BY <1>1, <1>2, FailedGivesUp
<1>4. d.ended = e.ended
  <2>1. e.ended \in BOOLEAN
    BY <1>1
  <2>2. QED
    BY <1>1, <1>3, <2>1 DEF GivesUp
<1>5. QED
  BY <1>1, <1>3, <1>4 DEF GivesUp, Touches, d

\* A caller of refreshAccessToken() waits for the one flight of the tab.
NextFlight(c) ==
  IF c.flight.pc # "none" THEN c.flight
  ELSE [pc |-> "sent", presented |-> c.store, answer |-> None]
Pauses == {"waits", "renews"}
Turned(th, pc) == [th EXCEPT !.pc = pc]
Awaits(c, d, s, pc) ==
  /\ d \in Contexts
  /\ c.flight.pc # "none" \/ c.store # None
  /\ d.thread = [c.thread EXCEPT ![s] = Turned(c.thread[s], pc)]
  /\ d.flight = NextFlight(c)
  /\ d.store = c.store /\ d.tab = c.tab /\ d.ended = c.ended /\ d.out = c.out

With(c, s, pc) == [c EXCEPT !.thread[s].pc = pc]

LEMMA AskingFields ==
  ASSUME NEW c \in Contexts, NEW s \in Slots, NEW pc \in Pauses
  PROVE  LET d == With(c, s, pc) IN
         /\ d \in Contexts
         /\ d.thread = [c.thread EXCEPT ![s] = Turned(c.thread[s], pc)]
         /\ d.thread[s] = Turned(c.thread[s], pc) /\ d.thread[s].pc = pc
         /\ d.flight = c.flight /\ d.store = c.store /\ d.tab = c.tab
         /\ d.ended = c.ended /\ d.out = c.out
<1>1. c.thread[s] \in Threads
  BY DEF Contexts
<1>2. Turned(c.thread[s], pc) \in Threads /\ Turned(c.thread[s], pc).pc = pc
  BY <1>1 DEF Threads, Turned, Pauses
<1>3. With(c, s, pc) = [c EXCEPT !.thread = [c.thread EXCEPT ![s] = Turned(c.thread[s], pc)]]
  BY DEF With, Turned
<1>4. QED
  BY <1>2, <1>3 DEF Contexts

LEMMA RefreshFields ==
  ASSUME NEW c, TabStands(c), NEW s \in Slots, s # "logout", NEW pc \in Pauses,
         pc = "renews" => s # "boot"
  PROVE  LET d == Refresh(c, s, pc) IN
         \/ Awaits(c, d, s, pc)
         \/ c.store = None /\ c.flight.pc = "none" /\ GivesUp(c, d, s, TRUE)
<1> DEFINE e == With(c, s, pc)
           d == Refresh(c, s, pc)
<1> HIDE DEF e, d
<1>1. c \in Contexts
  BY DEF TabStands
<1>2. /\ e \in Contexts
      /\ e.thread = [c.thread EXCEPT ![s] = Turned(c.thread[s], pc)]
      /\ e.thread[s].pc = pc
      /\ e.flight = c.flight /\ e.store = c.store /\ e.tab = c.tab
      /\ e.ended = c.ended /\ e.out = c.out
  BY <1>1, AskingFields DEF e
<1>3. CASE c.flight.pc # "none"
  <2>1. d = e
    BY <1>3 DEF Refresh, With, d, e
  <2> HIDE DEF d, e
  <2>2. QED
    BY <1>2, <1>3, <2>1 DEF Awaits, NextFlight, d
<1>4. CASE c.flight.pc = "none" /\ c.store # None
  <2>1. d = [e EXCEPT !.flight = NextFlight(c)]
    BY <1>4 DEF Refresh, NextFlight, With, d, e
  <2>2. NextFlight(c) \in Flights
    BY <1>1, <1>4 DEF NextFlight, Contexts, Flights, Token
  <2> HIDE DEF d, e
  <2>3. QED
    BY <1>2, <1>4, <2>1, <2>2 DEF Awaits, Contexts, d
<1>5. CASE c.flight.pc = "none" /\ c.store = None
  <2>1. d = Resumed(e, s, None)
    BY <1>5 DEF Refresh, With, d, e
  <2>2. GivesUp(e, d, s, TRUE)
    <3>1. CASE pc = "waits"
      <4>1. d = SessionExpired(e, s)
        BY <1>2, <2>1, <3>1 DEF Resumed
      <4>2. e.tab.loading => e.thread["boot"].pc # "idle"
        BY <1>2, <1>1, <3>1, NamedSlots DEF TabStands, Contexts
      <4> HIDE DEF d, e
      <4>3. QED
        BY <1>2, <4>1, <4>2, ExpiredGivesUp
    <3>2. CASE pc = "renews"
      <4> DEFINE f == Done(e, s)
      <4>1. d = Ended(f)
        BY <1>2, <2>1, <3>2 DEF Resumed
      <4> HIDE DEF d, e
      <4>2. /\ Touches(e, f, s, Idle)
            /\ f.store = e.store /\ f.tab = e.tab /\ f.ended = e.ended
        BY <1>2, DoneFields
      <4>3. f \in Contexts
        BY <4>2 DEF Touches
      <4> HIDE DEF f
      <4>4. /\ d \in Contexts /\ d.thread = f.thread /\ d.flight = f.flight
            /\ d.out = f.out /\ d.store = None /\ d.ended = (f.ended \/ f.store # None)
            /\ d.tab.access = None /\ d.tab.shown = None /\ d.tab.user = None
            /\ d.tab.open = f.tab.open /\ d.tab.loading = f.tab.loading
        BY <4>1, <4>3, EndedFields
      <4>5. e.tab.loading \in BOOLEAN
        BY <1>2 DEF Contexts, TabStates
      <4>6. QED
        BY <3>2, <4>2, <4>4, <4>5 DEF GivesUp, Touches
    <3>3. QED
      BY <3>1, <3>2 DEF Pauses
  <2> HIDE DEF d, e
  <2>3. [e.thread EXCEPT ![s] = Idle] = [c.thread EXCEPT ![s] = Idle]
    BY <1>2, <1>1 DEF Contexts
  <2>4. GivesUp(c, d, s, TRUE)
    BY <1>2, <2>2, <2>3 DEF GivesUp, Touches
  <2>5. QED
    BY <1>5, <2>4 DEF d
<1>6. QED
  BY <1>3, <1>4, <1>5

LEMMA AwaitingKeeps ==
  ASSUME NEW c, NEW d, NEW s \in Slots, NEW ses, NEW causes, NEW pc \in Pauses,
         TabStands(c), Awaits(c, d, s, pc), c.thread[s].pc = "answered",
         pc = "waits" => c.thread[s].req \notin NoRefreshPaths,
         pc = "renews" => s = "change" /\ c.thread[s].req = "change"
  PROVE  Keeps(c, d, ses, causes)
<1> DEFINE th == Turned(c.thread[s], pc)
<1> USE NamedSlots DEF Pauses
<1>1. c \in Contexts /\ d \in Contexts /\ c.thread[s] \in Threads /\ c.flight \in Flights
      /\ c.store \in Token
  BY DEF TabStands, Awaits, Contexts
<1>2. /\ th.pc = pc /\ th.req = c.thread[s].req /\ th.token = c.thread[s].token
      /\ th.answer = c.thread[s].answer /\ th.retried = c.thread[s].retried
  BY <1>1 DEF Threads, Turned, Pauses
<1>3. d.thread[s] = th /\ \A r \in Slots \ {s} : d.thread[r] = c.thread[r]
  BY <1>1 DEF Awaits, Contexts
<1> HIDE DEF th
<1>4. /\ d.flight.pc # "none"
      /\ c.flight.pc # "none" => d.flight = c.flight
      /\ c.flight.pc = "none" =>
           d.flight.pc = "sent" /\ d.flight.presented = c.store /\ d.flight.answer = None
           /\ c.store # None
  BY DEF Awaits, NextFlight
<1>5. TabStands(d)
  <2>1. ThreadStands(th, s, d.flight)
    BY <1>2, <1>4 DEF TabStands, ThreadStands
  <2>2. \A r \in Slots : ThreadStands(d.thread[r], r, d.flight)
    BY <1>3, <1>4, <2>1 DEF TabStands, ThreadStands
  <2>3. FlightStands(d.flight)
    BY <1>1, <1>4 DEF TabStands, FlightStands, NoFlight, Token
  <2>4. d.thread["boot"].pc # "idle" <=> c.thread["boot"].pc # "idle"
    BY <1>2, <1>3
  <2>5. QED
    BY <1>1, <2>2, <2>3, <2>4 DEF TabStands, Awaits
<1>6. KeepsOrder(c, d, ses)
  <2> SUFFICES ASSUME InOrder(c, ses), ~Crossed(d) PROVE InOrder(d, ses)
    BY DEF KeepsOrder
  <2>1. th.req # "me"
    BY <1>2, <1>3, <1>4 DEF Crossed
  <2>2. s # "boot" /\ c.thread["boot"].pc = "idle" /\ d.thread["boot"].pc = "idle"
    <3>1. s # "boot"
      BY <1>2, <2>1 DEF TabStands, ThreadStands, Requests
    <3>2. c.thread["boot"].pc = "idle"
      BY <3>1 DEF InOrder
    <3>3. QED
      BY <1>3, <3>1, <3>2
  <2>3. \A r \in Slots : d.thread[r].req = "me" =>
          d.tab.access # None /\ d.thread[r].token = d.tab.access
    BY <1>2, <1>3, <2>1 DEF InOrder, Awaits
  <2>4. /\ d.thread["login"].req = "login" => d.tab.access = None
        /\ d.thread["logout"].pc # "idle" => d.tab.access # None
    BY <1>2, <1>3 DEF InOrder, Awaits
  <2>5. /\ d.store \in {None, d.flight.presented}
        /\ d.flight.answer # None =>
             ses[d.flight.answer].account = ses[d.flight.presented].account
    BY <1>4 DEF InOrder, Awaits
  <2>6. QED
    BY <2>2, <2>3, <2>4, <2>5 DEF InOrder, Awaits
<1>7. KeepsCalm(c, d, ses, causes)
  <2> SUFFICES ASSUME InOrder(c, ses), InOrder(d, ses), Undisturbed(c, ses, causes)
               PROVE  Undisturbed(d, ses, causes) /\ (d.ended => c.ended)
    BY DEF KeepsCalm
  <2>1. ThreadUndisturbed(th, ses, causes)
    BY <1>2 DEF Undisturbed, ThreadUndisturbed
  <2>2. \A r \in Slots : ThreadUndisturbed(d.thread[r], ses, causes)
    BY <1>3, <2>1 DEF Undisturbed
  <2>3. d.thread["logout"].pc = "idle" /\ c.thread["logout"].pc = "idle"
    BY <1>2, <1>3, <1>4 DEF InOrder, Crossed
  <2>4. CASE c.flight.pc = "none"
    BY <1>2, <1>3, <1>4, <2>2, <2>3, <2>4 DEF Undisturbed, Awaits
  <2>5. CASE c.flight.pc # "none"
    BY <1>2, <1>3, <1>4, <2>2, <2>3, <2>5 DEF Undisturbed, Awaits
  <2>6. QED
    BY <2>4, <2>5
<1>8. KeepsLogout(c, d)
  BY DEF KeepsLogout, NobodyAnswers, Awaits
<1>9. QED
  BY <1>5, <1>6, <1>7, <1>8 DEF Keeps

\* A tab on which a refresh is asked for.
LEMMA RefreshKeeps ==
  ASSUME NEW c, NEW s \in Slots, NEW ses, NEW causes, NEW pc \in Pauses,
         TabStands(c), c.thread[s].pc = "answered",
         pc = "waits" => c.thread[s].req \notin NoRefreshPaths,
         pc = "renews" => s = "change" /\ c.thread[s].req = "change"
  PROVE  Keeps(c, Refresh(c, s, pc), ses, causes)
<1> DEFINE d == Refresh(c, s, pc)
<1>1. s # "logout" /\ (pc = "renews" => s # "boot")
  BY NamedSlots DEF TabStands, ThreadStands, Requests, NoRefreshPaths, Pauses
<1>2. \/ Awaits(c, d, s, pc)
      \/ c.store = None /\ c.flight.pc = "none" /\ GivesUp(c, d, s, TRUE)
  BY <1>1, RefreshFields
<1> HIDE DEF d
<1>3. CASE Awaits(c, d, s, pc)
  BY <1>3, AwaitingKeeps DEF d
<1>4. CASE c.store = None /\ c.flight.pc = "none" /\ GivesUp(c, d, s, TRUE)
  <2>1. InOrder(c, ses) => Alone(c, s)
    BY <1>4, NamedSlots DEF InOrder, Alone
  <2>2. QED
    BY <1>1, <1>4, <2>1, GivingUpKeeps DEF d
<1>5. QED
  BY <1>2, <1>3, <1>4

\* What every thread but a logout's does with its answer.
LEMMA DenialKeeps ==
  ASSUME NEW c, NEW s \in Slots, NEW ses, NEW causes,
         TabStands(c), c.thread[s].pc = "answered", c.thread[s].answer = "denied", s # "logout"
  PROVE  Keeps(c, Denied(c, s), ses, causes)
<1> USE NamedSlots
<1>1. c \in Contexts /\ (c.tab.loading => c.thread["boot"].pc # "idle")
  BY DEF TabStands
<1>2. CASE c.thread[s].req \in NoRefreshPaths
  <2>1. s # "boot"
    BY <1>2 DEF TabStands, ThreadStands, Requests, NoRefreshPaths
  <2>2. GivesUp(c, Failed(c, s), s, FALSE)
    BY <1>1, <2>1, FailedGivesUp
  <2>3. Denied(c, s) = Failed(c, s)
    BY <1>2 DEF Denied
  <2>4. QED
    BY <2>2, <2>3, GivingUpKeeps
<1>3. CASE c.thread[s].req \notin NoRefreshPaths /\ c.thread[s].retried
  <2>1. GivesUp(c, SessionExpired(c, s), s, TRUE)
    BY <1>1, ExpiredGivesUp
  <2>2. Denied(c, s) = SessionExpired(c, s)
    BY <1>3 DEF Denied
  <2>3. ASSUME InOrder(c, ses) PROVE Alone(c, s)
    <3>1. \A r \in Slots : c.thread[r].pc = "idle" => c.thread[r].req # "me"
      BY IdleType DEF TabStands, ThreadStands
    <3>2. \A r \in Slots \ {s} :
            c.thread[r].pc # "idle" => r \notin {"login", "logout"} /\ c.thread[r].req # "me"
      BY <1>3, <2>3 DEF InOrder, Crossed
    <3>3. QED
      BY <3>1, <3>2 DEF Alone
  <2>4. Undisturbed(c, ses, causes) => "typo" \in causes
    BY <1>3 DEF Undisturbed, ThreadUndisturbed
  <2>5. QED
    BY <2>1, <2>2, <2>3, <2>4, GivingUpKeeps
<1>4. CASE c.thread[s].req \notin NoRefreshPaths /\ ~c.thread[s].retried
  <2>1. Denied(c, s) = Refresh(c, s, "waits")
    BY <1>4 DEF Denied
  <2>2. QED
    BY <1>4, <2>1, RefreshKeeps DEF Pauses
<1>5. QED
  BY <1>2, <1>3, <1>4

LEMMA LossKeeps ==
  ASSUME NEW c, NEW s \in Slots, NEW ses, NEW causes,
         TabStands(c), c.thread[s].pc = "answered", c.thread[s].answer = "lost", s # "logout"
  PROVE  Keeps(c, Failed(c, s), ses, causes)
<1>1. c \in Contexts /\ (c.tab.loading => c.thread["boot"].pc # "idle")
  BY DEF TabStands
<1>2. GivesUp(c, Failed(c, s), s, s = "boot")
  BY <1>1, FailedGivesUp
<1>3. ASSUME InOrder(c, ses), s = "boot" PROVE Alone(c, s)
  <2>1. \A r \in Slots \ {s} : c.thread[r].pc = "idle" /\ c.thread[r] = Idle
    BY <1>3 DEF InOrder, TabStands, ThreadStands
  <2>2. QED
    BY <2>1, IdleType DEF Alone
<1>4. ~Undisturbed(c, ses, causes)
  BY DEF Undisturbed, ThreadUndisturbed
<1>5. (s = "boot") \in BOOLEAN
  OBVIOUS
<1>6. QED
  BY <1>2, <1>3, <1>4, <1>5, GivingUpKeeps

\* A page's request has answered.
LEMMA PageKeeps ==
  ASSUME NEW c, NEW s \in Slots, NEW ses, NEW causes, TabStands(c),
         c.thread[s].pc = "answered", c.thread[s].req = "page"
  PROVE  Keeps(c, Done(c, s), ses, causes)
<1>1. c \in Contexts /\ s \notin {"boot", "logout"}
  BY DEF TabStands, ThreadStands, Requests
<1>2. c.tab.loading \in BOOLEAN
  BY <1>1 DEF Contexts, TabStates
<1>3. GivesUp(c, Done(c, s), s, FALSE)
  BY <1>1, <1>2, DoneFields DEF GivesUp
<1>4. QED
  BY <1>1, <1>3, GivingUpKeeps

-----------------------------------------------------------------------------
(* The refresh settles                                                       *)

Landed(c) == [c EXCEPT !.flight = NoFlight]

LEMMA LandedFields ==
  ASSUME NEW c \in Contexts
  PROVE  LET d == Landed(c) IN
         /\ d \in Contexts /\ d.thread = c.thread /\ d.flight = NoFlight
         /\ d.out = c.out /\ d.store = c.store /\ d.ended = c.ended /\ d.tab = c.tab
BY DEF Landed, Contexts, Flights, NoFlight, Token

\* A caller goes on with the token it is handed.
Woken(th, t) ==
  IF th.pc = "waits" THEN [Sent(th.req, t) EXCEPT !.retried = TRUE]
  ELSE IF th.pc = "renews" THEN Sent("me", t) ELSE th

Wakes(th, w, t) ==
  /\ w \in Threads
  /\ th.pc \notin {"waits", "renews"} => w = th
  /\ th.pc \in {"waits", "renews"} => w.pc = "sent" /\ w.token = t /\ w.answer = None
  /\ th.pc = "waits" => w.req = th.req /\ w.retried = TRUE
  /\ th.pc = "renews" => w.req = "me" /\ w.retried = FALSE

LEMMA WokenFields ==
  ASSUME NEW th \in Threads, NEW t \in Tokens,
         th.pc = "waits" => th.req \in Guarded
  PROVE  Wakes(th, Woken(th, t), t)
<1>1. CASE th.pc = "waits"
  <2> DEFINE u == Sent(th.req, t)
  <2>1. /\ u \in Threads /\ u.pc = "sent" /\ u.req = th.req /\ u.token = t /\ u.answer = None
    <3>1. t \in Token /\ th.req \in NoRefreshPaths \cup Guarded
      BY <1>1 DEF Token
    <3>2. QED
      BY <3>1, SentType
  <2>2. Woken(th, t) = [u EXCEPT !.retried = TRUE]
    BY <1>1 DEF Woken
  <2> HIDE DEF u
  <2>3. LET w == [u EXCEPT !.retried = TRUE] IN
        /\ w \in Threads /\ w.pc = u.pc /\ w.token = u.token /\ w.answer = u.answer
        /\ w.req = u.req /\ w.retried = TRUE
    BY <2>1 DEF Threads
  <2>4. QED
    BY <1>1, <2>1, <2>2, <2>3 DEF Wakes
<1>2. CASE th.pc = "renews"
  <2>1. "me" \in NoRefreshPaths \cup Guarded /\ t \in Token
    BY DEF Guarded, Token
  <2>2. LET u == Sent("me", t) IN
        /\ u \in Threads /\ u.pc = "sent" /\ u.req = "me" /\ u.token = t /\ u.answer = None
        /\ u.retried = FALSE
    BY <2>1, SentType
  <2>3. QED
    BY <1>2, <2>2 DEF Woken, Wakes
<1>3. CASE th.pc \notin {"waits", "renews"}
  BY <1>3 DEF Woken, Wakes
<1>4. QED
  BY <1>1, <1>2, <1>3

LEMMA ResumedWakes ==
  ASSUME NEW c \in Contexts, NEW t \in Tokens, c.tab.access = t, NEW s \in Slots,
         c.thread[s].pc \in {"waits", "renews"},
         c.thread[s].pc = "waits" => c.thread[s].req \in Guarded \ NoRefreshPaths
  PROVE  Resumed(c, s, t).thread[s] = Woken(c.thread[s], t)
<1>1. t # None /\ t \in Token
  BY ConstantsAssumption DEF Token
<1>2. CASE c.thread[s].pc = "waits"
  <2>1. Resumed(c, s, t) = Retry(c, s)
    BY <1>1, <1>2 DEF Resumed
  <2>2. Carried(c.thread[s].req, c.tab.access) = t
    BY <1>2 DEF Carried, NoRefreshPaths
  <2> DEFINE d == Retry(c, s)
             th == [Sent(c.thread[s].req, Carried(c.thread[s].req, c.tab.access))
                      EXCEPT !.retried = TRUE]
  <2>3. Touches(c, d, s, th)
    BY <1>2, RetryFields
  <2> HIDE DEF d, th
  <2>4. d.thread[s] = th
    BY <2>3 DEF Touches, Contexts
  <2>5. th = Woken(c.thread[s], t)
    BY <1>2, <2>2 DEF th, Woken
  <2>6. QED
    BY <2>1, <2>4, <2>5 DEF d
<1>3. CASE c.thread[s].pc = "renews"
  <2> DEFINE e == [c EXCEPT !.tab.access = t, !.tab.shown = t]
             d == Fetch(e, s, "me")
             th == Sent("me", Carried("me", e.tab.access))
  <2>1. Resumed(c, s, t) = d
    BY <1>1, <1>3 DEF Resumed
  <2>2. e \in Contexts /\ e.tab.access = t
    BY <1>1 DEF Contexts, TabStates
  <2> HIDE DEF e
  <2>3. Touches(e, d, s, th)
    BY <2>2, FetchFields DEF Guarded
  <2>4. th = Sent("me", t)
    BY <2>2 DEF Carried
  <2> HIDE DEF d, th
  <2>5. d.thread[s] = th
    BY <2>2, <2>3 DEF Touches, Contexts
  <2>6. QED
    BY <1>3, <2>1, <2>4, <2>5 DEF Woken
<1>4. QED
  BY <1>2, <1>3

LEMMA ResumedStops ==
  ASSUME NEW c \in Contexts, NEW s \in Slots, s # "logout",
         c.thread[s].pc \in {"waits", "renews"},
         c.tab.loading => c.thread["boot"].pc # "idle"
  PROVE  Resumed(c, s, None).thread[s] = Idle
<1> DEFINE e == Done(c, s)
<1>1. Touches(c, e, s, Idle) /\ e \in Contexts
  BY DoneFields DEF Touches
<1>2. e.thread[s] = Idle
  BY <1>1 DEF Touches, Contexts
<1> HIDE DEF e
<1>3. CASE c.thread[s].pc = "waits"
  <2> DEFINE d == SessionExpired(c, s)
  <2>1. Resumed(c, s, None) = d
    BY <1>3 DEF Resumed
  <2>2. GivesUp(c, d, s, TRUE)
    BY ExpiredGivesUp
  <2> HIDE DEF d
  <2>3. d.thread[s] = Idle
    BY <2>2 DEF GivesUp, Touches, Contexts
  <2>4. QED
    BY <2>1, <2>3
<1>4. CASE c.thread[s].pc = "renews" /\ s = "boot"
  <2> DEFINE f == Forgotten(e)
  <2>1. Resumed(c, s, None) = [f EXCEPT !.tab.loading = FALSE]
    BY <1>4 DEF Resumed, e
  <2>2. f \in Contexts /\ f.thread = e.thread
    BY <1>1, ForgottenFields
  <2> HIDE DEF f
  <2>3. [f EXCEPT !.tab.loading = FALSE].thread = f.thread
    BY <2>2 DEF Contexts
  <2>4. QED
    BY <1>2, <2>1, <2>2, <2>3
<1>5. CASE c.thread[s].pc = "renews" /\ s # "boot"
  <2>1. Resumed(c, s, None) = Ended(e)
    BY <1>5 DEF Resumed, e
  <2>2. Ended(e).thread = e.thread
    BY <1>1, EndedFields
  <2>3. QED
    BY <1>2, <2>1, <2>2
<1>6. QED
  BY <1>3, <1>4, <1>5

\* Every caller has been handed the new token.
Told(c, d, t) ==
  /\ d \in Contexts
  /\ \A s \in Slots : d.thread[s] = Woken(c.thread[s], t)
  /\ d.flight = NoFlight /\ d.store = t /\ d.tab.access = t /\ d.tab.shown = t
  /\ d.tab.user = c.tab.user /\ d.tab.loading = c.tab.loading
  /\ d.ended = c.ended /\ d.out = c.out

LEMMA Waiters ==
  ASSUME NEW c, TabStands(c), NEW s \in Slots
  PROVE  /\ s \in Waiting(c) <=> c.thread[s].pc \in {"waits", "renews"}
         /\ c.thread[s].pc = "waits" => c.thread[s].req \in Guarded \ NoRefreshPaths
         /\ c.thread[s].pc \in {"waits", "renews"} => s # "logout" /\ c.flight.pc # "none"
BY DEF Waiting, TabStands, ThreadStands, Requests, Guarded, NoRefreshPaths

LEMMA AllAreTold ==
  ASSUME NEW c, TabStands(c), NEW t \in Tokens
  PROVE  Told(c, ResumeAll(Adopted(Landed(c), t), t), t)
<1> DEFINE e == Landed(c)
           f == Adopted(e, t)
           callers == Waiting(f)
           after == [s \in Slots |-> IF s \in callers THEN Resumed(f, s, t).thread[s]
                                                       ELSE f.thread[s]]
           d == [f EXCEPT !.thread = after,
                          !.tab.loading = @ /\ ~(t = None /\ "boot" \in callers)]
<1>1. t # None /\ t \in Token /\ c \in Contexts
  BY ConstantsAssumption DEF Token, TabStands
<1>2. ResumeAll(f, t) = d
  BY <1>1 DEF ResumeAll
<1>3. /\ e \in Contexts /\ e.thread = c.thread /\ e.flight = NoFlight
      /\ e.out = c.out /\ e.store = c.store /\ e.ended = c.ended /\ e.tab = c.tab
  BY <1>1, LandedFields
<1> HIDE DEF e
<1>4. /\ f \in Contexts /\ f.thread = e.thread /\ f.flight = e.flight
      /\ f.out = e.out /\ f.store = t /\ f.ended = e.ended
      /\ f.tab.access = t /\ f.tab.shown = t /\ f.tab.user = e.tab.user
      /\ f.tab.open = e.tab.open /\ f.tab.loading = e.tab.loading
  BY <1>1, <1>3, AdoptedFields
<1> HIDE DEF f
<1>5. ASSUME NEW s \in Slots
      PROVE  after[s] = Woken(c.thread[s], t) /\ after[s] \in Threads
  <2>1. /\ c.thread[s] \in Threads
        /\ c.thread[s].pc = "waits" => c.thread[s].req \in Guarded \ NoRefreshPaths
    BY <1>1, Waiters DEF Contexts
  <2>2. s \in callers <=> c.thread[s].pc \in {"waits", "renews"}
    BY <1>3, <1>4 DEF Waiting
  <2>3. CASE s \in callers
    <3>1. Resumed(f, s, t).thread[s] = Woken(c.thread[s], t)
      BY <1>3, <1>4, <2>1, <2>2, <2>3, ResumedWakes
    <3>2. Woken(c.thread[s], t) \in Threads
      BY <2>1, WokenFields DEF Wakes
    <3>3. QED
      BY <2>3, <3>1, <3>2
  <2>4. CASE s \notin callers
    BY <1>3, <1>4, <2>1, <2>2, <2>4 DEF Woken
  <2>5. QED
    BY <2>3, <2>4
<1>6. after \in [Slots -> Threads]
  BY <1>5
<1>7. f.tab.loading \in BOOLEAN /\ (f.tab.loading /\ ~(t = None /\ "boot" \in callers)) = f.tab.loading
  BY <1>1, <1>4 DEF Contexts, TabStates
<1> HIDE DEF after, callers
<1>8. /\ d \in Contexts /\ d.thread = after /\ d.flight = f.flight /\ d.store = f.store
      /\ d.tab.access = f.tab.access /\ d.tab.shown = f.tab.shown /\ d.tab.user = f.tab.user
      /\ d.tab.loading = f.tab.loading /\ d.ended = f.ended /\ d.out = f.out
  BY <1>4, <1>6, <1>7 DEF Contexts, TabStates
<1> HIDE DEF d
<1>9. Told(c, d, t)
  BY <1>3, <1>4, <1>5, <1>8 DEF Told
<1>10. QED
  BY <1>2, <1>9 DEF f, e

\* Every caller has been told that there is no new token.
Untold(c, d) ==
  /\ d \in Contexts
  /\ \A s \in Slots :
       d.thread[s] = IF c.thread[s].pc \in {"waits", "renews"} THEN Idle ELSE c.thread[s]
  /\ d.flight = NoFlight /\ d.out = c.out
  /\ d.tab.loading = (c.tab.loading /\ c.thread["boot"].pc \notin {"waits", "renews"})
  /\ \/ d.store = None /\ d.tab.access = None /\ d.tab.shown = None /\ d.tab.user = None
     \/ /\ d.store = c.store /\ d.tab.access = c.tab.access
        /\ d.tab.shown = None /\ d.tab.user = None /\ c.thread["boot"].pc = "renews"
     \/ /\ d.store = c.store /\ d.tab.access = c.tab.access
        /\ d.tab.shown = c.tab.shown /\ d.tab.user = c.tab.user

LEMMA AllAreUntold ==
  ASSUME NEW c, TabStands(c)
  PROVE  Untold(c, ResumeAll(Landed(c), None))
<1> USE NamedSlots
<1> DEFINE f == Landed(c)
           callers == Waiting(f)
           after == [s \in Slots |-> IF s \in callers THEN Resumed(f, s, None).thread[s]
                                                       ELSE f.thread[s]]
           left == CASE None = None /\ (\E s \in callers : f.thread[s].pc = "waits" \/ s # "boot") -> Ended(f)
                     [] None = None /\ callers = {"boot"} /\ f.thread["boot"].pc = "renews" -> Forgotten(f)
                     [] OTHER -> f
           d == [left EXCEPT !.thread = after,
                             !.tab.loading = @ /\ ~(None = None /\ "boot" \in callers)]
<1>1. c \in Contexts
  BY DEF TabStands
<1>2. ResumeAll(f, None) = d
  BY DEF ResumeAll
<1>3. /\ f \in Contexts /\ f.thread = c.thread /\ f.flight = NoFlight
      /\ f.out = c.out /\ f.store = c.store /\ f.ended = c.ended /\ f.tab = c.tab
  BY <1>1, LandedFields
<1> HIDE DEF f
<1>4. \A s \in Slots : s \in callers <=> c.thread[s].pc \in {"waits", "renews"}
  BY <1>3 DEF Waiting
<1>5. ASSUME NEW s \in Slots
      PROVE  /\ after[s] = IF c.thread[s].pc \in {"waits", "renews"} THEN Idle ELSE c.thread[s]
             /\ after[s] \in Threads
  <2>1. CASE s \in callers
    <3>1. s # "logout" /\ (f.tab.loading => f.thread["boot"].pc # "idle")
      BY <1>3, <1>4, <2>1, Waiters DEF TabStands
    <3>2. Resumed(f, s, None).thread[s] = Idle
      BY <1>3, <1>4, <2>1, <3>1, ResumedStops
    <3>3. QED
      BY <1>4, <2>1, <3>2, IdleType
  <2>2. CASE s \notin callers
    BY <1>1, <1>3, <1>4, <2>2 DEF Contexts
  <2>3. QED
    BY <2>1, <2>2
<1>6. /\ left \in Contexts /\ left.flight = NoFlight /\ left.out = c.out
      /\ left.tab.loading = c.tab.loading
      /\ \/ left.store = None /\ left.tab.access = None /\ left.tab.shown = None /\ left.tab.user = None
         \/ /\ left.store = c.store /\ left.tab.access = c.tab.access
            /\ left.tab.shown = None /\ left.tab.user = None /\ c.thread["boot"].pc = "renews"
         \/ /\ left.store = c.store /\ left.tab.access = c.tab.access
            /\ left.tab.shown = c.tab.shown /\ left.tab.user = c.tab.user
  <2>1. CASE \E s \in callers : f.thread[s].pc = "waits" \/ s # "boot"
    <3>1. left = Ended(f)
      BY <2>1
    <3> HIDE DEF left
    <3>2. QED
      BY <1>3, <3>1, EndedFields
  <2>2. CASE /\ ~\E s \in callers : f.thread[s].pc = "waits" \/ s # "boot"
             /\ callers = {"boot"} /\ f.thread["boot"].pc = "renews"
    <3>1. left = Forgotten(f)
      BY <2>2
    <3> HIDE DEF left
    <3>2. QED
      BY <1>3, <2>2, <3>1, ForgottenFields
  <2>3. CASE /\ ~\E s \in callers : f.thread[s].pc = "waits" \/ s # "boot"
             /\ ~(callers = {"boot"} /\ f.thread["boot"].pc = "renews")
    <3>1. left = f
      BY <2>3
    <3> HIDE DEF left
    <3>2. QED
      BY <1>3, <3>1
  <2>4. QED
    BY <2>1, <2>2, <2>3
<1>7. after \in [Slots -> Threads]
  BY <1>5
<1> DEFINE loading == left.tab.loading /\ ~(None = None /\ "boot" \in callers)
<1>8. loading \in BOOLEAN
  OBVIOUS
<1>9. d = [left EXCEPT !.thread = after, !.tab.loading = loading]
  OBVIOUS
<1>10. loading = (c.tab.loading /\ c.thread["boot"].pc \notin {"waits", "renews"})
  BY <1>4, <1>6
<1> HIDE DEF after, callers, left, loading, d
<1>11. /\ d \in Contexts /\ d.thread = after /\ d.flight = left.flight /\ d.store = left.store
       /\ d.tab.access = left.tab.access /\ d.tab.shown = left.tab.shown
       /\ d.tab.user = left.tab.user /\ d.tab.loading = loading /\ d.out = left.out
  BY <1>6, <1>7, <1>8, <1>9 DEF Contexts, TabStates
<1>12. Untold(c, d)
  BY <1>5, <1>6, <1>10, <1>11 DEF Untold
<1>13. QED
  BY <1>2, <1>12 DEF f

LEMMA TellingKeeps ==
  ASSUME NEW c, NEW d, NEW ses, NEW causes, TabStands(c),
         c.flight.pc = "answered", c.flight.answer \in Tokens, Told(c, d, c.flight.answer)
  PROVE  Keeps(c, d, ses, causes)
<1> DEFINE t == c.flight.answer
<1> USE NamedSlots
<1>1. c \in Contexts /\ d \in Contexts /\ t \in Tokens /\ t # None
  BY ConstantsAssumption DEF TabStands, Told
<1>2. /\ d.flight = NoFlight /\ d.store = t /\ d.tab.access = t /\ d.tab.shown = t
      /\ d.tab.user = c.tab.user /\ d.tab.loading = c.tab.loading
      /\ d.ended = c.ended /\ d.out = c.out
      /\ \A s \in Slots : d.thread[s] = Woken(c.thread[s], t)
  BY DEF Told
<1> HIDE DEF t
<1>3. ASSUME NEW s \in Slots
      PROVE  /\ c.thread[s] \in Threads /\ d.thread[s] \in Threads
             /\ c.thread[s].pc \notin {"waits", "renews"} => d.thread[s] = c.thread[s]
             /\ c.thread[s].pc \in {"waits", "renews"} =>
                  /\ d.thread[s].pc = "sent" /\ d.thread[s].token = t /\ d.thread[s].answer = None
                  /\ c.flight.pc # "none"
             /\ c.thread[s].pc = "waits" =>
                  d.thread[s].req = c.thread[s].req /\ d.thread[s].retried = TRUE
             /\ c.thread[s].pc = "renews" =>
                  d.thread[s].req = "me" /\ d.thread[s].retried = FALSE
  <2>1. c.thread[s] \in Threads /\ (c.thread[s].pc = "waits" => c.thread[s].req \in Guarded)
    BY <1>1, Waiters DEF Contexts
  <2>2. Wakes(c.thread[s], Woken(c.thread[s], t), t)
    BY <1>1, <2>1, WokenFields
  <2>3. d.thread[s] = Woken(c.thread[s], t)
    BY <1>2
  <2>4. c.flight.pc # "none"
    OBVIOUS
  <2>5. QED
    BY <2>1, <2>2, <2>3, <2>4 DEF Wakes
<1>4. TabStands(d)
  <2>1. ASSUME NEW s \in Slots PROVE ThreadStands(d.thread[s], s, d.flight)
    <3>1. ThreadStands(c.thread[s], s, c.flight)
      BY DEF TabStands
    <3>2. CASE c.thread[s].pc = "waits"
      BY <1>3, <3>1, <3>2 DEF ThreadStands
    <3>3. CASE c.thread[s].pc = "renews"
      <4>1. s \in {"boot", "change"}
        BY <3>1, <3>3 DEF ThreadStands
      <4>2. "me" \in Requests(s)
        BY <4>1 DEF Requests
      <4>3. QED
        BY <1>3, <3>3, <4>2 DEF ThreadStands, NoRefreshPaths
    <3>4. CASE c.thread[s].pc \notin {"waits", "renews"}
      BY <1>3, <3>1, <3>4 DEF ThreadStands
    <3>5. QED
      BY <3>2, <3>3, <3>4
  <2>2. FlightStands(d.flight)
    BY <1>2 DEF FlightStands, NoFlight
  <2>3. d.thread["boot"].pc # "idle" <=> c.thread["boot"].pc # "idle"
    BY <1>3
  <2>4. QED
    BY <1>1, <1>2, <2>1, <2>2, <2>3 DEF TabStands
<1>5. KeepsOrder(c, d, ses)
  <2> SUFFICES ASSUME InOrder(c, ses), ~Crossed(d) PROVE InOrder(d, ses)
    BY DEF KeepsOrder
  <2>1. c.thread["login"].pc = "idle" /\ c.thread["logout"].pc = "idle"
    BY DEF InOrder, Crossed
  <2>2. d.thread["login"].pc = "idle" /\ d.thread["logout"].pc = "idle"
        /\ d.thread["login"].req # "login"
    <3>1. d.thread["login"] = c.thread["login"] /\ d.thread["logout"] = c.thread["logout"]
      BY <1>3, <2>1
    <3>2. c.thread["login"] = Idle
      BY <2>1 DEF TabStands, ThreadStands
    <3>3. QED
      BY <2>1, <3>1, <3>2, IdleType
  <2>3. c.tab.user # None => ses[t].account = c.tab.user
    <3>1. ASSUME c.tab.user # None PROVE ses[t].account = c.tab.user
      <4>1. c.tab.access # None /\ ses[c.tab.access].account = c.tab.user /\ c.store = c.tab.access
        BY <3>1 DEF InOrder
      <4>2. c.store = c.flight.presented
        BY <4>1 DEF InOrder
      <4>3. ses[t].account = ses[c.flight.presented].account
        BY <1>1 DEF InOrder, t
      <4>4. QED
        BY <4>1, <4>2, <4>3
    <3>2. QED
      BY <3>1
  <2>4. ASSUME NEW s \in Slots, d.thread[s].req = "me" PROVE d.thread[s].token = t
    <3>1. CASE c.thread[s].pc \in {"waits", "renews"}
      BY <1>3, <3>1
    <3>2. CASE c.thread[s].pc \notin {"waits", "renews"}
      <4>1. c.thread[s].req = "me"
        BY <1>3, <2>4, <3>2
      <4>2. c.thread[s].pc = "idle"
        BY <4>1 DEF InOrder, Crossed
      <4>3. c.thread[s] = Idle
        BY <4>2 DEF TabStands, ThreadStands
      <4>4. QED
        BY <4>1, <4>3, IdleType
    <3>3. QED
      BY <3>1, <3>2
  <2>5. d.thread["boot"].pc # "idle" => \A s \in Slots \ {"boot"} : d.thread[s].pc = "idle"
    <3>1. ASSUME d.thread["boot"].pc # "idle", NEW s \in Slots \ {"boot"} PROVE d.thread[s].pc = "idle"
      <4>1. c.thread["boot"].pc # "idle"
        BY <1>3, <3>1
      <4>2. c.thread[s].pc = "idle"
        BY <4>1 DEF InOrder
      <4>3. QED
        BY <1>3, <4>2
    <3>2. QED
      BY <3>1
  <2>6. d.thread["boot"].pc # "renews"
    BY <1>3
  <2>7. QED
    BY <1>1, <1>2, <2>2, <2>3, <2>4, <2>5, <2>6 DEF InOrder, NoFlight
<1>6. KeepsCalm(c, d, ses, causes)
  <2> SUFFICES ASSUME InOrder(c, ses), Undisturbed(c, ses, causes)
               PROVE  Undisturbed(d, ses, causes) /\ (d.ended => c.ended)
    BY DEF KeepsCalm
  <2>1. ~ses[t].revoked /\ ~ses[t].expired
    BY DEF Undisturbed, t
  <2>2. ASSUME NEW s \in Slots PROVE ThreadUndisturbed(d.thread[s], ses, causes)
    <3>1. CASE c.thread[s].pc \in {"waits", "renews"}
      BY <1>1, <1>3, <2>1, <3>1, IdleType DEF ThreadUndisturbed
    <3>2. CASE c.thread[s].pc \notin {"waits", "renews"}
      BY <1>3, <3>2 DEF Undisturbed
    <3>3. QED
      BY <3>1, <3>2
  <2>3. d.thread["login"].pc # "answered"
    <3>1. c.thread["login"].pc = "idle"
      BY DEF InOrder, Crossed
    <3>2. QED
      BY <1>3, <3>1
  <2>4. QED
    BY <1>2, <2>1, <2>2, <2>3 DEF Undisturbed, NoFlight
<1>7. KeepsLogout(c, d)
  BY <1>2 DEF KeepsLogout, NobodyAnswers
<1>8. QED
  BY <1>4, <1>5, <1>6, <1>7 DEF Keeps

LEMMA NotTellingKeeps ==
  ASSUME NEW c, NEW d, NEW ses, NEW causes, TabStands(c),
         c.flight.pc = "answered", c.flight.answer = None, Untold(c, d)
  PROVE  Keeps(c, d, ses, causes)
<1> USE NamedSlots
<1>1. c \in Contexts /\ d \in Contexts
  BY DEF TabStands, Untold
<1>2. \A s \in Slots : d.thread[s] = Idle \/ (d.thread[s] = c.thread[s] /\ c.thread[s].pc \notin {"waits", "renews"})
  BY DEF Untold
<1>3. TabStands(d)
  <2>1. ASSUME NEW s \in Slots PROVE ThreadStands(d.thread[s], s, d.flight)
    <3>1. CASE d.thread[s] = Idle
      BY <3>1, IdleStands
    <3>2. CASE d.thread[s] = c.thread[s] /\ c.thread[s].pc \notin {"waits", "renews"}
      BY <3>2 DEF TabStands, ThreadStands
    <3>3. QED
      BY <1>2, <3>1, <3>2
  <2>2. FlightStands(d.flight)
    BY DEF FlightStands, NoFlight, Untold
  <2>3. d.tab.loading <=> d.thread["boot"].pc # "idle"
    BY IdleType DEF TabStands, Untold
  <2>4. d.tab.shown \in {None, d.tab.access}
    BY DEF TabStands, Untold
  <2>5. QED
    BY <1>1, <2>1, <2>2, <2>3, <2>4 DEF TabStands
<1>4. KeepsOrder(c, d, ses)
  <2> SUFFICES ASSUME InOrder(c, ses), ~Crossed(d) PROVE InOrder(d, ses)
    BY DEF KeepsOrder
  <2>1. \A s \in Slots : c.thread[s].req = "me" \/ s \in {"login", "logout"} => c.thread[s].pc = "idle"
    BY DEF InOrder, Crossed
  <2>2. \A s \in Slots : d.thread[s].req # "me" /\ (s \in {"login", "logout"} => d.thread[s] = Idle)
    <3>1. \A s \in Slots : c.thread[s].pc = "idle" => c.thread[s] = Idle
      BY DEF TabStands, ThreadStands
    <3>2. QED
      BY <1>2, <2>1, <3>1, IdleType
  <2>3. d.thread["boot"].pc # "idle" => \A s \in Slots \ {"boot"} : d.thread[s].pc = "idle"
    BY <1>2, IdleType DEF InOrder
  <2>4. d.thread["boot"].pc # "renews"
    BY <1>2, IdleType
  <2>5. /\ d.tab.access = d.tab.shown
        /\ d.tab.access # None => d.store = d.tab.access
        /\ d.tab.user # None => d.tab.access # None /\ ses[d.tab.access].account = d.tab.user
    BY DEF InOrder, Untold
  <2>6. d.flight.pc = "none"
    BY DEF Untold, NoFlight
  <2>7. QED
    BY <2>2, <2>3, <2>4, <2>5, <2>6, IdleType DEF InOrder
<1>5. KeepsCalm(c, d, ses, causes)
  BY DEF KeepsCalm, Undisturbed
<1>6. KeepsLogout(c, d)
  BY DEF KeepsLogout, NobodyAnswers, Untold
<1>7. QED
  BY <1>3, <1>4, <1>5, <1>6 DEF Keeps

-----------------------------------------------------------------------------
(* A tab starts over                                                         *)

Fresh(c) == [c EXCEPT !.tab = [Blank EXCEPT !.open = TRUE, !.loading = c.store # None],
                      !.thread = [s \in Slots |-> Idle], !.flight = NoFlight]
Booted(c) == IF c.store = None THEN Fresh(c) ELSE Refresh(Fresh(c), "boot", "renews")
Renewing == Turned(Idle, "renews")

LEMMA RenewingFields ==
  /\ Renewing \in Threads /\ Renewing.pc = "renews" /\ Renewing.req = None
  /\ Renewing.retried = FALSE /\ Renewing.answer = None
<1> DEFINE i == Idle
<1>1. i \in Threads /\ i.req = None /\ i.retried = FALSE /\ i.answer = None
  BY IdleType
<1> HIDE DEF i
<1>2. LET w == [i EXCEPT !.pc = "renews"] IN
      /\ w \in Threads /\ w.pc = "renews" /\ w.req = i.req
      /\ w.retried = i.retried /\ w.answer = i.answer
  BY <1>1 DEF Threads
<1>3. Renewing = [i EXCEPT !.pc = "renews"]
  BY DEF Renewing, Turned, i
<1>4. QED
  BY <1>1, <1>2, <1>3

LEMMA BootedFields ==
  ASSUME NEW c \in Contexts
  PROVE  LET d == Booted(c) IN
         /\ d \in Contexts /\ d.store = c.store /\ d.ended = c.ended /\ d.out = c.out
         /\ d.tab.access = None /\ d.tab.shown = None /\ d.tab.user = None
         /\ d.tab.loading = (c.store # None)
         /\ \A s \in Slots \ {"boot"} : d.thread[s] = Idle
         /\ d.thread["boot"] = IF c.store = None THEN Idle ELSE Renewing
         /\ c.store = None => d.flight = NoFlight
         /\ c.store # None =>
              d.flight.pc = "sent" /\ d.flight.presented = c.store /\ d.flight.answer = None
<1> USE NamedSlots
<1> DEFINE f == Fresh(c)
           threads == [s \in Slots |-> Idle]
           t == [Blank EXCEPT !.open = TRUE, !.loading = c.store # None]
<1>1. /\ t \in TabStates /\ t.access = None /\ t.shown = None /\ t.user = None
      /\ t.loading = (c.store # None)
  BY DEF Blank, TabStates, Token
<1>2. threads \in [Slots -> Threads] /\ \A s \in Slots : threads[s] = Idle
  BY IdleType
<1>3. NoFlight \in Flights /\ NoFlight.pc = "none"
  BY DEF NoFlight, Flights, Token
<1>4. f = [c EXCEPT !.tab = t, !.thread = threads, !.flight = NoFlight]
  BY DEF Fresh
<1> HIDE DEF t, threads, f
<1>5. /\ f \in Contexts /\ f.store = c.store /\ f.ended = c.ended /\ f.out = c.out
      /\ f.tab = t /\ f.thread = threads /\ f.flight = NoFlight
  BY <1>1, <1>2, <1>3, <1>4 DEF Contexts
<1>6. CASE c.store = None
  <2>1. Booted(c) = f
    BY <1>6 DEF Booted, f
  <2>2. QED
    BY <1>1, <1>2, <1>5, <1>6, <2>1
<1>7. CASE c.store # None
  <2> DEFINE fl == [pc |-> "sent", presented |-> c.store, answer |-> None]
             g == [f EXCEPT !.thread = [threads EXCEPT !["boot"] = Renewing]]
             d == [g EXCEPT !.flight = fl]
  <2>1. With(f, "boot", "renews") = g
    BY <1>2, <1>5 DEF With, Renewing, Turned
  <2>2. Booted(c) = [With(f, "boot", "renews") EXCEPT !.flight = fl]
    BY <1>3, <1>5, <1>7 DEF Booted, Refresh, With, f
  <2>3. [threads EXCEPT !["boot"] = Renewing] \in [Slots -> Threads]
    BY <1>2, RenewingFields
  <2>4. /\ g \in Contexts /\ g.thread = [threads EXCEPT !["boot"] = Renewing]
        /\ g.store = c.store /\ g.ended = c.ended /\ g.out = c.out /\ g.tab = t
    BY <1>5, <2>3 DEF Contexts
  <2>5. fl \in Flights /\ fl.pc = "sent" /\ fl.presented = c.store /\ fl.answer = None
    BY DEF Contexts, Flights, Token
  <2> HIDE DEF g, fl
  <2>6. /\ d \in Contexts /\ d.thread = g.thread /\ d.store = g.store /\ d.ended = g.ended
        /\ d.out = g.out /\ d.tab = g.tab /\ d.flight = fl
    BY <2>4, <2>5 DEF Contexts
  <2> HIDE DEF d
  <2>7. Booted(c) = d
    BY <2>1, <2>2 DEF d, fl
  <2>8. \A s \in Slots : d.thread[s] = IF s = "boot" THEN Renewing ELSE Idle
    BY <1>2, <2>4, <2>6
  <2>9. QED
    BY <1>1, <1>7, <2>4, <2>5, <2>6, <2>7, <2>8
<1>8. QED
  BY <1>6, <1>7

\* A tab that starts over is in order, and as calm as the one it was if nothing was lost.
LEMMA BootingKeeps ==
  ASSUME NEW c, NEW ses, NEW causes, TabStands(c)
  PROVE  LET d == Booted(c) IN
         /\ TabStands(d) /\ InOrder(d, ses) /\ KeepsLogout(c, d)
         /\ Undisturbed(c, ses, causes) /\ c.flight.pc = "none"
              /\ (\A s \in Slots : c.thread[s].pc = "idle")
            => Undisturbed(d, ses, causes) /\ d.ended = c.ended
<1> DEFINE d == Booted(c)
<1> USE NamedSlots
<1>1. c \in Contexts
  BY DEF TabStands
<1>2. /\ d \in Contexts /\ d.store = c.store /\ d.ended = c.ended /\ d.out = c.out
      /\ d.tab.access = None /\ d.tab.shown = None /\ d.tab.user = None
      /\ d.tab.loading = (c.store # None)
      /\ \A s \in Slots \ {"boot"} : d.thread[s] = Idle
      /\ d.thread["boot"] = IF c.store = None THEN Idle ELSE Renewing
      /\ c.store = None => d.flight = NoFlight
      /\ c.store # None =>
           d.flight.pc = "sent" /\ d.flight.presented = c.store /\ d.flight.answer = None
  BY <1>1, BootedFields
<1> HIDE DEF d
<1>3. TabStands(d)
  <2>1. c.store # None => ThreadStands(Renewing, "boot", d.flight)
    BY <1>2, RenewingFields DEF ThreadStands
  <2>2. \A s \in Slots : ThreadStands(d.thread[s], s, d.flight)
    BY <1>2, <2>1, IdleStands
  <2>3. FlightStands(d.flight)
    BY <1>1, <1>2 DEF FlightStands, NoFlight, Contexts, Token
  <2>4. d.tab.loading <=> d.thread["boot"].pc # "idle"
    BY <1>2, RenewingFields, IdleType
  <2>5. QED
    BY <1>2, <2>2, <2>3, <2>4 DEF TabStands
<1>4. \A s \in Slots : d.thread[s].req = None
  BY <1>2, RenewingFields, IdleType
<1>5. \A s \in Slots \ {"boot"} : d.thread[s].pc = "idle"
  BY <1>2, IdleType
<1>6. InOrder(d, ses)
  <2>1. ~Crossed(d)
    BY <1>4, <1>5, IdleType DEF Crossed
  <2>2. QED
    BY <1>2, <1>4, <1>5, <2>1, IdleType DEF InOrder, NoFlight
<1>7. KeepsLogout(c, d)
  BY <1>2, <1>4, IdleType DEF KeepsLogout, NobodyAnswers, NoFlight
<1>8. ASSUME Undisturbed(c, ses, causes), c.flight.pc = "none",
             \A s \in Slots : c.thread[s].pc = "idle"
      PROVE  Undisturbed(d, ses, causes)
  <2>1. \A s \in Slots : ThreadUndisturbed(d.thread[s], ses, causes)
    BY <1>2, RenewingFields, IdleType DEF ThreadUndisturbed
  <2>2. c.store # None => ~ses[c.store].revoked
    BY <1>8 DEF Undisturbed
  <2>3. QED
    BY <1>2, <1>4, <2>1, <2>2, IdleType DEF Undisturbed, NoFlight
<1>9. QED
  BY <1>2, <1>3, <1>6, <1>7, <1>8 DEF d

-----------------------------------------------------------------------------
(* The invariant of the browser                                              *)

Causes == {"lost", "tabs", "crossed", "revoked", "typo"}
Sessions == [Tokens -> [account : Accounts, revoked : BOOLEAN, expired : BOOLEAN]]
Shape ==
  /\ session \in Sessions
  /\ store \in Token
  /\ tab \in [Tabs -> TabStates]
  /\ thread \in [Tabs -> [Slots -> Threads]]
  /\ flight \in [Tabs -> Flights]
  /\ past \in [killed : BOOLEAN, ended : BOOLEAN, out : BOOLEAN, causes : SUBSET Causes]

Untouched(b) ==
  tab[b] = Blank /\ thread[b] = [s \in Slots |-> Idle] /\ flight[b] = NoFlight

TabsInv == \A b \in Tabs : TabStands(Here(b))
LogoutInv == past.out => store = None /\ \A b \in Tabs : NobodyAnswers(Here(b))

\* The one tab there is, as long as its answers came in order.
OneTabInv ==
  past.causes \cap {"crossed", "tabs"} = {} =>
    /\ \A b \in Tabs \ {Opened} : Untouched(b)
    /\ InOrder(Here(Opened), session)

\* The session, as long as nothing but a mistyped password happened to it.
CalmInv ==
  past.causes \subseteq {"typo"} =>
    /\ Undisturbed(Here(Opened), session, past.causes)
    /\ ~past.killed
    /\ past.ended => past.causes # {}

BrowserInv == Shape /\ TabsInv /\ LogoutInv /\ OneTabInv /\ CalmInv

LEMMA OpenedIsATab == Opened \in Tabs /\ Someone \in Accounts /\ First \in Tokens
BY ConstantsAssumption DEF Opened, Someone, First

LEMMA HereType ==
  ASSUME Shape, NEW b \in Tabs
  PROVE  /\ Here(b) \in Contexts
         /\ Here(b).store = store /\ Here(b).tab = tab[b] /\ Here(b).thread = thread[b]
         /\ Here(b).flight = flight[b] /\ Here(b).ended = past.ended /\ Here(b).out = past.out
BY DEF Here, Shape, Contexts

\* A step within one tab b, whatever the server's rows do meanwhile.
LEMMA StepWithin ==
  ASSUME BrowserInv, Shape', NEW b \in Tabs,
         \A a \in Tabs \ {b} : tab'[a] = tab[a] /\ thread'[a] = thread[a] /\ flight'[a] = flight[a],
         b = Opened \/ ~Untouched(b) \/ "tabs" \in past'.causes,
         past.causes \subseteq past'.causes,
         TabStands(Here(b)'),
         past'.causes \cap {"crossed", "tabs"} = {} /\ InOrder(Here(b), session)
           => InOrder(Here(b)', session'),
         past'.causes \subseteq {"typo"} /\ ~past.killed
           /\ InOrder(Here(b), session) /\ InOrder(Here(b)', session')
           /\ Undisturbed(Here(b), session, past.causes)
           => /\ Undisturbed(Here(b)', session', past'.causes)
              /\ ~past'.killed
              /\ past'.ended => past.ended \/ past'.causes # {},
         past'.out => /\ store' = None /\ NobodyAnswers(Here(b)')
                      /\ \A a \in Tabs \ {b} : NobodyAnswers(Here(a))
  PROVE  BrowserInv'
<1>1. Shape'
  OBVIOUS
<1>2. TabsInv'
  <2> SUFFICES ASSUME NEW a \in Tabs PROVE TabStands(Here(a)')
    BY DEF TabsInv
  <2>1. CASE a = b
    BY <2>1
  <2>2. CASE a # b
    <3>1. /\ Here(a)' \in Contexts
          /\ Here(a)'.tab = tab[a] /\ Here(a)'.thread = thread[a] /\ Here(a)'.flight = flight[a]
      BY <2>2 DEF Here, Shape, Contexts
    <3>2. Here(a).tab = tab[a] /\ Here(a).thread = thread[a] /\ Here(a).flight = flight[a]
      BY DEF Here
    <3>3. TabStands(Here(a))
      BY DEF BrowserInv, TabsInv
    <3>4. QED
      BY <3>1, <3>2, <3>3 DEF TabStands
  <2>3. QED
    BY <2>1, <2>2
<1>3. LogoutInv'
  <2> SUFFICES ASSUME past'.out, NEW a \in Tabs \ {b} PROVE NobodyAnswers(Here(a)')
    BY DEF LogoutInv
  <2>1. NobodyAnswers(Here(a))
    OBVIOUS
  <2>2. QED
    BY <2>1 DEF NobodyAnswers, Here
<1>4. ASSUME past'.causes \cap {"crossed", "tabs"} = {}
      PROVE  /\ b = Opened /\ InOrder(Here(b), session)
             /\ \A a \in Tabs \ {Opened} : Untouched(a)
  <2>1. past.causes \cap {"crossed", "tabs"} = {}
    BY <1>4
  <2>2. b = Opened
    BY <1>4, <2>1 DEF BrowserInv, OneTabInv
  <2>3. QED
    BY <2>1, <2>2 DEF BrowserInv, OneTabInv
<1>5. OneTabInv'
  <2> SUFFICES ASSUME past'.causes \cap {"crossed", "tabs"} = {}
               PROVE  /\ \A a \in Tabs \ {Opened} : Untouched(a)'
                      /\ InOrder(Here(Opened)', session')
    BY DEF OneTabInv
  <2>1. b = Opened
    BY <1>4
  <2>2. InOrder(Here(b)', session')
    BY <1>4
  <2>3. \A a \in Tabs \ {Opened} : Untouched(a)'
    BY <1>4, <2>1 DEF Untouched
  <2>4. QED
    BY <2>1, <2>2, <2>3
<1>6. CalmInv'
  <2> SUFFICES ASSUME past'.causes \subseteq {"typo"}
               PROVE  /\ Undisturbed(Here(Opened)', session', past'.causes)
                      /\ ~past'.killed
                      /\ past'.ended => past'.causes # {}
    BY DEF CalmInv
  <2>1. past'.causes \cap {"crossed", "tabs"} = {} /\ past.causes \subseteq {"typo"}
    OBVIOUS
  <2>2. b = Opened /\ InOrder(Here(b), session) /\ InOrder(Here(b)', session')
    BY <1>4, <2>1
  <2>3. /\ Undisturbed(Here(b), session, past.causes) /\ ~past.killed
        /\ past.ended => past.causes # {}
    BY <2>1, <2>2 DEF BrowserInv, CalmInv
  <2>4. QED
    BY <2>2, <2>3
<1>7. QED
  BY <1>1, <1>2, <1>3, <1>5, <1>6 DEF BrowserInv

-----------------------------------------------------------------------------
(* The steps of a tab                                                        *)

LEMMA CommitWithin ==
  ASSUME BrowserInv, NEW b \in Tabs, NEW d, Commit(b, d), ~Untouched(b), TabStands(d),
         KeepsOrder(Here(b), d, session), KeepsCalm(Here(b), d, session, past.causes),
         d.out => /\ d.store = None /\ NobodyAnswers(d)
                  /\ \A a \in Tabs \ {b} : NobodyAnswers(Here(a))
  PROVE  BrowserInv'
<1>1. Shape /\ d \in Contexts
  BY DEF BrowserInv, TabStands
<1>2. /\ store' = d.store /\ session' = session
      /\ tab' = [tab EXCEPT ![b] = d.tab] /\ thread' = [thread EXCEPT ![b] = d.thread]
      /\ flight' = [flight EXCEPT ![b] = d.flight]
  BY DEF Commit
<1>3. /\ past' \in [killed : BOOLEAN, ended : BOOLEAN, out : BOOLEAN, causes : SUBSET Causes]
      /\ past'.ended = d.ended /\ past'.out = d.out /\ past'.killed = past.killed
      /\ past.causes \subseteq past'.causes
      /\ Crossed(d) => "crossed" \in past'.causes
      /\ ~Crossed(d) => past'.causes = past.causes
  <2> DEFINE new == IF Crossed(d) THEN {"crossed"} ELSE {}
  <2>1. past' = [past EXCEPT !.ended = d.ended, !.out = d.out, !.causes = @ \cup new]
    BY DEF Commit
  <2>2. new \subseteq Causes /\ (Crossed(d) => "crossed" \in new) /\ (~Crossed(d) => new = {})
    BY DEF Causes
  <2> HIDE DEF new
  <2>3. d.ended \in BOOLEAN /\ d.out \in BOOLEAN
    BY <1>1 DEF Contexts
  <2>4. QED
    BY <1>1, <2>1, <2>2, <2>3 DEF Shape
<1>4. Shape'
  BY <1>1, <1>2, <1>3 DEF Shape, Contexts
<1>5. Here(b)' = d
  BY <1>1, <1>2, <1>3 DEF Here, Contexts, Shape
<1>6. Here(b).ended = past.ended
  BY DEF Here
<1>7. \A a \in Tabs \ {b} : tab'[a] = tab[a] /\ thread'[a] = thread[a] /\ flight'[a] = flight[a]
  BY <1>1, <1>2 DEF Shape
<1>8. past'.causes \cap {"crossed", "tabs"} = {} /\ InOrder(Here(b), session)
        => InOrder(Here(b)', session')
  BY <1>2, <1>3, <1>5 DEF KeepsOrder
<1>9. past'.causes \subseteq {"typo"} /\ ~past.killed
        /\ InOrder(Here(b), session) /\ InOrder(Here(b)', session')
        /\ Undisturbed(Here(b), session, past.causes)
        => /\ Undisturbed(Here(b)', session', past'.causes)
           /\ ~past'.killed
           /\ past'.ended => past.ended \/ past'.causes # {}
  <2> SUFFICES ASSUME past'.causes \subseteq {"typo"}, ~past.killed,
                      InOrder(Here(b), session), InOrder(Here(b)', session'),
                      Undisturbed(Here(b), session, past.causes)
               PROVE  /\ Undisturbed(Here(b)', session', past'.causes)
                      /\ ~past'.killed
                      /\ past'.ended => past.ended \/ past'.causes # {}
    OBVIOUS
  <2>1. past'.causes = past.causes
    BY <1>3
  <2>2. /\ Undisturbed(d, session, past.causes)
        /\ d.ended => past.ended \/ "typo" \in past.causes
    BY <1>2, <1>5, <1>6 DEF KeepsCalm
  <2>3. QED
    BY <1>2, <1>3, <1>5, <2>1, <2>2
<1>10. past'.out => /\ store' = None /\ NobodyAnswers(Here(b)')
                    /\ \A a \in Tabs \ {b} : NobodyAnswers(Here(a))
  BY <1>2, <1>3, <1>5
<1>11. TabStands(Here(b)')
  BY <1>5
<1>12. QED
  BY <1>3, <1>4, <1>7, <1>8, <1>9, <1>10, <1>11, StepWithin

LEMMA KeptCommit ==
  ASSUME BrowserInv, NEW b \in Tabs, NEW d, Commit(b, d), ~Untouched(b),
         Keeps(Here(b), d, session, past.causes)
  PROVE  BrowserInv'
<1>1. Here(b).out = past.out /\ Here(b).store = store
  BY DEF Here
<1>2. d.out => past.out /\ d.store = None /\ NobodyAnswers(d)
  BY <1>1 DEF Keeps, KeepsLogout, BrowserInv, LogoutInv
<1>3. d.out => \A a \in Tabs \ {b} : NobodyAnswers(Here(a))
  BY <1>2 DEF BrowserInv, LogoutInv
<1>4. QED
  BY <1>2, <1>3, CommitWithin DEF Keeps

LEMMA SignedOutCommit ==
  ASSUME BrowserInv, NEW b \in Tabs, Commit(b, SignedOut(Here(b), "logout")), ~Untouched(b),
         store = None \/ thread[b]["logout"].pc # "idle"
  PROVE  BrowserInv'
<1> DEFINE c == Here(b)
           d == SignedOut(c, "logout")
<1>1. c \in Contexts /\ TabStands(c)
  BY DEF BrowserInv, TabsInv, TabStands
<1>2. c.flight = flight[b] /\ c.thread = thread[b] /\ c.store = store
  BY DEF Here
<1> HIDE DEF c
<1>3. SignsOut(c, d)
  BY <1>1, SignedOutSignsOut
<1> HIDE DEF d
<1>4. TabStands(d) /\ KeepsOrder(c, d, session) /\ KeepsCalm(c, d, session, past.causes)
  BY <1>1, <1>2, <1>3, SigningOutKeeps
<1>5. ASSUME d.out
      PROVE  /\ d.store = None /\ NobodyAnswers(d)
             /\ \A a \in Tabs \ {b} : NobodyAnswers(Here(a))
  <2>1. \A a \in Tabs : flight[a].pc = "none" /\ thread[a]["login"].req # "login"
    BY <1>3, <1>5 DEF SignsOut
  <2>2. d.thread["login"] = c.thread["login"] /\ d.flight = c.flight /\ d.store = None
    BY <1>1, <1>3, NamedSlots DEF SignsOut, Contexts
  <2>3. QED
    BY <1>2, <2>1, <2>2 DEF NobodyAnswers, Here
<1>6. QED
  BY <1>4, <1>5, CommitWithin DEF c, d

\* A tab with something to show or under way is not one that was never opened.
LEMMA TouchedTabs ==
  ASSUME NEW b \in Tabs,
         \/ tab[b].open \/ tab[b].shown # None \/ flight[b].pc # "none"
         \/ \E s \in Slots : thread[b][s].pc # "idle"
  PROVE  ~Untouched(b)
BY DEF Untouched, Blank, NoFlight, Idle

LEMMA HereStands ==
  ASSUME BrowserInv, NEW b \in Tabs
  PROVE  /\ TabStands(Here(b)) /\ Here(b) \in Contexts
         /\ Here(b).store = store /\ Here(b).tab = tab[b] /\ Here(b).thread = thread[b]
         /\ Here(b).flight = flight[b] /\ Here(b).ended = past.ended /\ Here(b).out = past.out
BY DEF BrowserInv, TabsInv, TabStands, Here

\* A page that needs a session, or the change-password page, asks.
LEMMA AskCommit ==
  ASSUME BrowserInv, NEW b \in Tabs, NEW s \in Slots, NEW req \in Guarded,
         s \notin {"boot", "login", "logout"}, req \in Requests(s), req \notin {"me", "login"},
         tab[b].shown # None, ~tab[b].loading,
         Commit(b, Fetch(Here(b), s, req))
  PROVE  BrowserInv'
<1> DEFINE c == Here(b)
           d == Fetch(c, s, req)
           th == Sent(req, Carried(req, c.tab.access))
<1>1. TabStands(c) /\ c \in Contexts /\ c.tab = tab[b] /\ c.thread = thread[b]
  BY HereStands
<1> HIDE DEF c
<1>2. Asks(c, d, s, th)
  BY <1>1, FetchFields DEF Asks
<1>3. /\ th \in Threads /\ th.pc = "sent" /\ th.req = req /\ th.retried = FALSE /\ th.answer = None
  <2>1. Carried(req, c.tab.access) \in Token /\ req \in NoRefreshPaths \cup Guarded
    BY <1>1 DEF Carried, Contexts, TabStates, Token
  <2>2. QED
    BY <2>1, SentType
<1> HIDE DEF d, th
<1>4. c.thread["boot"].pc = "idle" /\ c.tab.shown # None
  BY <1>1 DEF TabStands
<1>5. Keeps(c, d, session, past.causes)
  BY <1>1, <1>2, <1>3, <1>4, AskingKeeps DEF Keeps
<1>6. ~Untouched(b)
  BY TouchedTabs
<1>7. QED
  BY <1>5, <1>6, KeptCommit DEF c, d

LEMMA StartCallKeeps ==
  ASSUME BrowserInv, NEW b \in Tabs, NEW s \in Calls, StartCall(b, s)
  PROVE  BrowserInv'
<1>1. s \in Slots /\ s \notin {"boot", "login", "logout", "change"}
  BY ConstantsAssumption DEF Slots
<1>2. "page" \in Requests(s) /\ "page" \in Guarded
  BY <1>1 DEF Requests, Guarded
<1>3. tab[b].shown # None /\ ~tab[b].loading /\ Commit(b, Fetch(Here(b), s, "page"))
  BY DEF StartCall
<1>4. QED
  BY <1>1, <1>2, <1>3, AskCommit

LEMMA StartChangeKeeps ==
  ASSUME BrowserInv, NEW b \in Tabs, NEW req \in {"change", "typo"}, StartChange(b, req)
  PROVE  BrowserInv'
<1>1. "change" \in Slots
  BY NamedSlots
<1>2. req \in Requests("change") /\ req \in Guarded /\ req \notin {"me", "login"}
  BY DEF Requests, Guarded
<1>3. tab[b].shown # None /\ ~tab[b].loading /\ Commit(b, Fetch(Here(b), "change", req))
  BY DEF StartChange
<1>4. QED
  BY <1>1, <1>2, <1>3, AskCommit

\* Where a context differs in the logout alone.
LEMMA OutAside ==
  ASSUME NEW c, NEW e, NEW ses, NEW causes, TabStands(e),
         KeepsOrder(c, e, ses), KeepsCalm(c, e, ses, causes)
  PROVE  LET d == [e EXCEPT !.out = FALSE] IN
         /\ TabStands(d) /\ KeepsOrder(c, d, ses) /\ KeepsCalm(c, d, ses, causes) /\ ~d.out
<1> DEFINE d == [e EXCEPT !.out = FALSE]
<1>1. e \in Contexts
  BY DEF TabStands
<1>2. /\ d \in Contexts /\ d.store = e.store /\ d.tab = e.tab /\ d.thread = e.thread
      /\ d.flight = e.flight /\ d.ended = e.ended /\ d.out = FALSE
  BY <1>1 DEF Contexts
<1> HIDE DEF d
<1>3. TabStands(d)
  BY <1>2 DEF TabStands
<1>4. Crossed(d) <=> Crossed(e)
  BY <1>2 DEF Crossed
<1>5. InOrder(d, ses) <=> InOrder(e, ses)
  BY <1>2, <1>4 DEF InOrder
<1>6. Undisturbed(d, ses, causes) <=> Undisturbed(e, ses, causes)
  BY <1>2 DEF Undisturbed
<1>7. KeepsOrder(c, d, ses) /\ KeepsCalm(c, d, ses, causes)
  BY <1>2, <1>4, <1>5, <1>6 DEF KeepsOrder, KeepsCalm
<1>8. QED
  BY <1>2, <1>3, <1>7 DEF d

LEMMA StartLoginKeeps ==
  ASSUME BrowserInv, NEW b \in Tabs, StartLogin(b)
  PROVE  BrowserInv'
<1> DEFINE c == Here(b)
           e == Fetch(c, "login", "login")
           d == [e EXCEPT !.out = FALSE]
           th == Sent("login", Carried("login", c.tab.access))
<1>1. tab[b].open /\ tab[b].shown = None /\ Commit(b, d)
  BY DEF StartLogin
<1>2. TabStands(c) /\ c \in Contexts /\ c.tab = tab[b] /\ c.thread = thread[b]
  BY HereStands
<1> HIDE DEF c
<1>3. Asks(c, e, "login", th)
  BY <1>2, FetchFields, NamedSlots DEF Asks, NoRefreshPaths
<1>4. /\ th \in Threads /\ th.pc = "sent" /\ th.req = "login" /\ th.retried = FALSE /\ th.answer = None
  <2>1. Carried("login", c.tab.access) \in Token /\ "login" \in NoRefreshPaths \cup Guarded
    BY <1>2 DEF Carried, Contexts, TabStates, Token, NoRefreshPaths
  <2>2. QED
    BY <2>1, SentType
<1> HIDE DEF e, th
<1>5. "login" \in Requests("login") /\ "login" \in Slots
  BY NamedSlots DEF Requests
<1>6. TabStands(e) /\ KeepsOrder(c, e, session) /\ KeepsCalm(c, e, session, past.causes)
  BY <1>1, <1>2, <1>3, <1>4, <1>5, AskingKeeps
<1>7. TabStands(d) /\ KeepsOrder(c, d, session) /\ KeepsCalm(c, d, session, past.causes) /\ ~d.out
  BY <1>6, OutAside
<1>8. ~Untouched(b)
  BY <1>1, TouchedTabs
<1>9. QED
  BY <1>1, <1>7, <1>8, CommitWithin DEF c

LEMMA StartLogoutKeeps ==
  ASSUME BrowserInv, NEW b \in Tabs, StartLogout(b)
  PROVE  BrowserInv'
<1> DEFINE c == Here(b)
<1>1. tab[b].shown # None /\ ~tab[b].loading
  BY DEF StartLogout
<1>2. ~Untouched(b)
  BY <1>1, TouchedTabs
<1>3. CASE store = None
  <2>1. Commit(b, SignedOut(c, "logout"))
    BY <1>3 DEF StartLogout
  <2>2. QED
    BY <1>2, <1>3, <2>1, SignedOutCommit
<1>4. CASE store # None
  <2> DEFINE e == Fetch(c, "logout", "logout")
             d == [e EXCEPT !.thread["logout"].body = store]
             th == Sent("logout", Carried("logout", c.tab.access))
             tt == [th EXCEPT !.body = store]
  <2>1. Commit(b, d)
    BY <1>4 DEF StartLogout
  <2>2. TabStands(c) /\ c \in Contexts /\ c.tab = tab[b] /\ c.thread = thread[b] /\ store \in Token
    BY HereStands DEF BrowserInv, Shape
  <2> HIDE DEF c
  <2>3. Asks(c, e, "logout", th)
    BY <2>2, FetchFields, NamedSlots DEF Asks, NoRefreshPaths
  <2>4. /\ th \in Threads /\ th.pc = "sent" /\ th.req = "logout" /\ th.retried = FALSE /\ th.answer = None
    <3>1. Carried("logout", c.tab.access) \in Token /\ "logout" \in NoRefreshPaths \cup Guarded
      BY <2>2 DEF Carried, Contexts, TabStates, Token, NoRefreshPaths
    <3>2. QED
      BY <3>1, SentType
  <2> HIDE DEF e, th
  <2>5. /\ tt \in Threads /\ tt.pc = "sent" /\ tt.req = "logout" /\ tt.retried = FALSE /\ tt.answer = None
    BY <2>2, <2>4 DEF Threads
  <2>6. e \in Contexts /\ e.thread["logout"] = th
    BY <2>2, <2>3, NamedSlots DEF Asks, Touches, Contexts
  <2>7. d = [e EXCEPT !.thread = [e.thread EXCEPT !["logout"] = tt]]
    BY <2>6
  <2> HIDE DEF tt
  <2>8. [e.thread EXCEPT !["logout"] = tt] = [c.thread EXCEPT !["logout"] = tt]
    BY <2>2, <2>3 DEF Asks, Touches, Contexts
  <2>9. [c.thread EXCEPT !["logout"] = tt] \in [Slots -> Threads]
    BY <2>2, <2>5 DEF Contexts
  <2> HIDE DEF d
  <2>10. /\ d \in Contexts /\ d.thread = [c.thread EXCEPT !["logout"] = tt]
         /\ d.flight = e.flight /\ d.out = e.out /\ d.store = e.store /\ d.tab = e.tab
         /\ d.ended = e.ended
    BY <2>6, <2>7, <2>8, <2>9 DEF Contexts
  <2>11. Asks(c, d, "logout", tt)
    BY <2>3, <2>10 DEF Asks, Touches
  <2>12. c.thread["boot"].pc = "idle" /\ c.tab.shown # None
    BY <1>1, <2>2 DEF TabStands
  <2>13. "logout" \in Requests("logout") /\ "logout" \in Slots
    BY NamedSlots DEF Requests
  <2>14. Keeps(c, d, session, past.causes)
    BY <2>2, <2>5, <2>11, <2>12, <2>13, AskingKeeps DEF Keeps
  <2>15. QED
    BY <1>2, <2>1, <2>14, KeptCommit DEF c
<1>5. QED
  BY <1>3, <1>4

\* The answer of /auth/me.
LEMMA MeShows ==
  ASSUME NEW c, TabStands(c), NEW s \in Slots, session \in Sessions,
         c.thread[s].pc = "answered", c.thread[s].answer = "ok", c.thread[s].req = "me"
  PROVE  Shows(c, Succeeded(c, s), s, session[c.thread[s].token].account)
<1> DEFINE e == Done(c, s)
           a == session[c.thread[s].token].account
           loading == IF s = "boot" THEN FALSE ELSE e.tab.loading
           d == [e EXCEPT !.tab.user = a, !.tab.loading = loading]
<1>1. c \in Contexts /\ a \in Accounts
  BY DEF TabStands, ThreadStands, Sessions
<1>2. /\ Touches(c, e, s, Idle) /\ e \in Contexts
      /\ e.store = c.store /\ e.tab = c.tab /\ e.ended = c.ended
  BY <1>1, DoneFields DEF Touches
<1>3. Succeeded(c, s) = d
  BY DEF Succeeded
<1> HIDE DEF a, e
<1>4. loading \in BOOLEAN /\ loading = (c.tab.loading /\ s # "boot")
  BY <1>1, <1>2 DEF Contexts, TabStates
<1> HIDE DEF loading
<1>5. /\ d \in Contexts /\ d.thread = e.thread /\ d.flight = e.flight /\ d.out = e.out
      /\ d.store = e.store /\ d.ended = e.ended /\ d.tab.open = e.tab.open
      /\ d.tab.access = e.tab.access /\ d.tab.shown = e.tab.shown
      /\ d.tab.user = a /\ d.tab.loading = loading
  BY <1>1, <1>2, <1>4 DEF Contexts, TabStates
<1> HIDE DEF d
<1>6. QED
  BY <1>2, <1>3, <1>4, <1>5 DEF Shows, Touches, a

LEMMA ReceiveKeeps ==
  ASSUME BrowserInv, NEW b \in Tabs, NEW s \in Slots, Receive(b, s)
  PROVE  BrowserInv'
<1> DEFINE c == Here(b)
           d == CASE thread[b][s].answer = "ok" -> Succeeded(c, s)
                  [] thread[b][s].answer = "denied" -> Denied(c, s)
                  [] thread[b][s].answer = "lost" -> Failed(c, s)
<1>1. thread[b][s].pc = "answered" /\ Commit(b, d)
  BY DEF Receive
<1>2. ~Untouched(b)
  BY <1>1, TouchedTabs
<1>3. TabStands(c) /\ c \in Contexts /\ c.thread = thread[b] /\ session \in Sessions
  BY HereStands DEF BrowserInv, Shape
<1> HIDE DEF c
<1>4. c.thread[s] \in Threads /\ ThreadStands(c.thread[s], s, c.flight)
  BY <1>3 DEF TabStands, Contexts
<1>5. CASE s = "logout"
  <2>1. c.thread[s].req = "logout"
    BY <1>1, <1>3, <1>4, <1>5 DEF ThreadStands, Requests
  <2>2. c.thread[s].answer \in {"ok", "denied", "lost"}
    BY <1>1, <1>3, <1>4 DEF ThreadStands, Threads, Answers
  <2>3. CASE c.thread[s].answer = "ok"
    <3>1. d = Succeeded(c, s) /\ Succeeded(c, s) = SignedOut(c, "logout")
      BY <1>3, <1>5, <2>1, <2>3 DEF Succeeded
    <3>2. QED
      BY <1>1, <1>2, <1>5, <3>1, SignedOutCommit DEF c
  <2>4. CASE c.thread[s].answer # "ok"
    <3>1. Failed(c, s) = SignedOut(c, "logout")
      BY <1>5 DEF Failed
    <3>2. Denied(c, s) = Failed(c, s)
      BY <2>1 DEF Denied, NoRefreshPaths
    <3>3. d = SignedOut(c, "logout")
      BY <1>3, <2>2, <2>4, <3>1, <3>2
    <3>4. QED
      BY <1>1, <1>2, <1>5, <3>3, SignedOutCommit DEF c
  <2>5. QED
    BY <2>3, <2>4
<1>6. CASE s # "logout"
  <2>1. c.thread[s].pc = "answered" /\ c.thread[s].answer = thread[b][s].answer
    BY <1>1, <1>3
  <2>2. c.thread[s].answer \in {"ok", "denied", "lost"}
    BY <1>4, <2>1 DEF ThreadStands, Threads, Answers
  <2>3. CASE c.thread[s].answer = "denied"
    <3>1. d = Denied(c, s)
      BY <2>1, <2>3
    <3>2. Keeps(c, d, session, past.causes)
      BY <1>3, <1>6, <2>1, <2>3, <3>1, DenialKeeps
    <3> HIDE DEF d
    <3>3. QED
      BY <1>1, <1>2, <3>2, KeptCommit DEF c
  <2>4. CASE c.thread[s].answer = "lost"
    <3>1. d = Failed(c, s)
      BY <2>1, <2>4
    <3>2. Keeps(c, d, session, past.causes)
      BY <1>3, <1>6, <2>1, <2>4, <3>1, LossKeeps
    <3> HIDE DEF d
    <3>3. QED
      BY <1>1, <1>2, <3>2, KeptCommit DEF c
  <2>5. CASE c.thread[s].answer = "ok"
    <3>1. d = Succeeded(c, s)
      BY <2>1, <2>5
    <3>2. Keeps(c, Succeeded(c, s), session, past.causes)
      <4>1. c.thread[s].req \in {"page", "me", "login", "change"}
        BY <1>4, <1>6, <2>1, <2>5 DEF ThreadStands, Requests
      <4>2. CASE c.thread[s].req = "page"
        <5>1. Succeeded(c, s) = Done(c, s)
          BY <4>2 DEF Succeeded
        <5>2. QED
          BY <1>3, <2>1, <4>2, <5>1, PageKeeps
      <4>3. CASE c.thread[s].req = "me"
        BY <1>3, <2>1, <2>5, <4>3, MeShows, ShowingKeeps
      <4>4. CASE c.thread[s].req = "login"
        <5>1. s = "login"
          BY <1>4, <1>6, <2>1, <4>4 DEF ThreadStands, Requests
        <5>2. Succeeded(c, s) = Fetch(Adopted(c, c.thread["login"].token), "login", "me")
          BY <4>4, <5>1 DEF Succeeded
        <5>3. QED
          BY <1>3, <2>1, <2>5, <4>4, <5>1, <5>2, LoginKeeps
      <4>5. CASE c.thread[s].req = "change"
        <5>1. s = "change"
          BY <1>4, <1>6, <2>1, <4>5 DEF ThreadStands, Requests
        <5>2. Succeeded(c, s) = Refresh(c, s, "renews")
          BY <4>5 DEF Succeeded
        <5>3. "renews" \in Pauses
          BY DEF Pauses
        <5>4. Keeps(c, Refresh(c, s, "renews"), session, past.causes)
          BY <1>3, <2>1, <4>5, <5>1, <5>3, RefreshKeeps
        <5>5. QED
          BY <5>2, <5>4
      <4>6. QED
        BY <4>1, <4>2, <4>3, <4>4, <4>5
    <3> HIDE DEF d
    <3>3. QED
      BY <1>1, <1>2, <3>1, <3>2, KeptCommit DEF c
  <2>6. QED
    BY <2>2, <2>3, <2>4, <2>5
<1>7. QED
  BY <1>5, <1>6

LEMMA SettleKeeps ==
  ASSUME BrowserInv, NEW b \in Tabs, Settle(b)
  PROVE  BrowserInv'
<1> DEFINE c == Here(b)
           t == flight[b].answer
           d == ResumeAll(IF t = None THEN Landed(c) ELSE Adopted(Landed(c), t), t)
<1>1. flight[b].pc = "answered" /\ Commit(b, d)
  BY DEF Settle, Landed
<1>2. ~Untouched(b)
  BY <1>1, TouchedTabs
<1>3. TabStands(c) /\ c \in Contexts /\ c.flight = flight[b]
  BY HereStands
<1>4. t \in Token
  BY DEF BrowserInv, Shape, Flights
<1> HIDE DEF c
<1>5. Keeps(c, d, session, past.causes)
  <2>1. CASE t = None
    <3>1. d = ResumeAll(Landed(c), None)
      BY <2>1
    <3>2. Untold(c, d)
      BY <1>3, <3>1, AllAreUntold
    <3> HIDE DEF d
    <3>3. QED
      BY <1>1, <1>3, <2>1, <3>2, NotTellingKeeps
  <2>2. CASE t # None
    <3>1. d = ResumeAll(Adopted(Landed(c), t), t) /\ t \in Tokens
      BY <1>4, <2>2 DEF Token
    <3>2. Told(c, d, t)
      BY <1>3, <3>1, AllAreTold
    <3> HIDE DEF d
    <3>3. QED
      BY <1>1, <1>3, <3>1, <3>2, TellingKeeps
  <2>3. QED
    BY <2>1, <2>2
<1> HIDE DEF d
<1>6. QED
  BY <1>1, <1>2, <1>5, KeptCommit DEF c

LEMMA BootKeeps ==
  ASSUME BrowserInv, NEW b \in Tabs, Boot(b)
  PROVE  BrowserInv'
<1> DEFINE c == Here(b)
           d == Booted(c)
           lost == flight[b].pc # "none" \/ \E s \in Slots : Busy(b, s)
           new == (IF lost THEN {"lost"} ELSE {}) \cup (IF tab[b].open THEN {} ELSE {"tabs"})
<1>1. /\ TabStands(c) /\ c \in Contexts /\ c.store = store /\ c.thread = thread[b]
      /\ c.flight = flight[b] /\ c.out = past.out /\ c.ended = past.ended
  BY HereStands
<1>2. /\ store' = d.store /\ tab' = [tab EXCEPT ![b] = d.tab]
      /\ thread' = [thread EXCEPT ![b] = d.thread] /\ flight' = [flight EXCEPT ![b] = d.flight]
      /\ session' = session
  BY DEF Boot, Booted, Fresh, Here
<1>3. past' = [past EXCEPT !.causes = @ \cup new]
  <2>1. past' = [past EXCEPT !.causes =
                   @ \cup (IF flight[b].pc # "none" \/ \E s \in Slots : Busy(b, s)
                           THEN {"lost"} ELSE {})
                     \cup (IF tab[b].open THEN {} ELSE {"tabs"})]
    BY DEF Boot
  <2>2. past.causes \cup (IF flight[b].pc # "none" \/ \E s \in Slots : Busy(b, s)
                           THEN {"lost"} ELSE {})
                     \cup (IF tab[b].open THEN {} ELSE {"tabs"}) = past.causes \cup new
    OBVIOUS
  <2>3. QED
    BY <2>1, <2>2
<1> HIDE DEF c
<1>4. /\ d \in Contexts /\ d.store = c.store /\ d.ended = c.ended /\ d.out = c.out
  BY <1>1, BootedFields
<1>5. /\ TabStands(d) /\ InOrder(d, session) /\ KeepsLogout(c, d)
      /\ Undisturbed(c, session, past.causes) /\ c.flight.pc = "none"
           /\ (\A s \in Slots : c.thread[s].pc = "idle")
         => Undisturbed(d, session, past.causes) /\ d.ended = c.ended
  BY <1>1, BootingKeeps
<1> HIDE DEF d
<1>6. new \subseteq Causes /\ (lost => "lost" \in new) /\ (~tab[b].open => "tabs" \in new)
      /\ (~lost /\ tab[b].open => new = {})
  BY DEF Causes
<1>7. ~lost => c.flight.pc = "none" /\ \A s \in Slots : c.thread[s].pc = "idle"
  BY <1>1 DEF Busy
<1> HIDE DEF new, lost
<1>8. Shape
  BY DEF BrowserInv
<1>9. /\ past' \in [killed : BOOLEAN, ended : BOOLEAN, out : BOOLEAN, causes : SUBSET Causes]
      /\ past'.causes = past.causes \cup new /\ past'.ended = past.ended
      /\ past'.killed = past.killed /\ past'.out = past.out
  BY <1>3, <1>6, <1>8 DEF Shape
<1>10. Shape'
  BY <1>2, <1>4, <1>8, <1>9 DEF Shape, Contexts
<1>11. Here(b)' = d
  BY <1>1, <1>2, <1>4, <1>8, <1>9 DEF Here, Contexts, Shape
<1>12. \A a \in Tabs \ {b} : tab'[a] = tab[a] /\ thread'[a] = thread[a] /\ flight'[a] = flight[a]
  BY <1>2, <1>8 DEF Shape
<1>13. b = Opened \/ ~Untouched(b) \/ "tabs" \in past'.causes
  BY <1>6, <1>9, TouchedTabs
<1>14. TabStands(Here(b)') /\ InOrder(Here(b)', session')
  BY <1>2, <1>5, <1>11
<1>15. past'.causes \subseteq {"typo"} /\ Undisturbed(c, session, past.causes)
         => Undisturbed(Here(b)', session', past'.causes)
  <2> SUFFICES ASSUME past'.causes \subseteq {"typo"}, Undisturbed(c, session, past.causes)
               PROVE  Undisturbed(Here(b)', session', past'.causes)
    OBVIOUS
  <2>1. ~lost /\ past'.causes = past.causes
    BY <1>6, <1>9
  <2>2. QED
    BY <1>2, <1>5, <1>7, <1>11, <2>1
<1>16. past'.out => /\ store' = None /\ NobodyAnswers(Here(b)')
                    /\ \A a \in Tabs \ {b} : NobodyAnswers(Here(a))
  <2>1. past.out => store = None /\ NobodyAnswers(c) /\ \A a \in Tabs : NobodyAnswers(Here(a))
    BY DEF BrowserInv, LogoutInv, c
  <2>2. QED
    BY <1>1, <1>2, <1>4, <1>5, <1>9, <1>11, <2>1 DEF KeepsLogout
<1>17. QED
  BY <1>9, <1>10, <1>12, <1>13, <1>14, <1>15, <1>16, StepWithin DEF c

-----------------------------------------------------------------------------
(* The steps of the server, the clock, the network and other devices         *)

LEMMA ReferencedTokens ==
  ASSUME NEW b \in Tabs
  PROVE  /\ {store, tab[b].access, flight[b].presented, flight[b].answer} \subseteq Referenced
         /\ \A s \in Slots : thread[b][s].token \in Referenced
<1>1. store \in Referenced
  BY DEF Referenced
<1> DEFINE own(a) == {tab[a].access, tab[a].shown, flight[a].presented, flight[a].answer}
                     \cup UNION {{thread[a][s].token, thread[a][s].body} : s \in Slots}
<1>2. own(b) \subseteq Referenced
  BY DEF Referenced
<1>3. {tab[b].access, flight[b].presented, flight[b].answer} \subseteq own(b)
  OBVIOUS
<1>4. ASSUME NEW s \in Slots PROVE thread[b][s].token \in own(b)
  OBVIOUS
<1> HIDE DEF own
<1>5. QED
  BY <1>1, <1>2, <1>3, <1>4

LEMMA NextPairIsFree ==
  ASSUME Free # {}
  PROVE  NextPair \in Tokens /\ NextPair \notin Referenced
BY DEF NextPair, Free

LEMMA IssueFields ==
  ASSUME session \in Sessions, NEW t \in Tokens, NEW a \in Accounts
  PROVE  /\ Issue(t, a) \in Sessions
         /\ Issue(t, a)[t] = [account |-> a, revoked |-> FALSE, expired |-> FALSE]
         /\ \A u \in Tokens \ {t} : Issue(t, a)[u] = session[u]
BY DEF Issue, Sessions

LEMMA RevokeFields ==
  ASSUME session \in Sessions, NEW T
  PROVE  /\ Revoke(T) \in Sessions
         /\ \A t \in Tokens :
              /\ Revoke(T)[t].account = session[t].account
              /\ Revoke(T)[t].expired = session[t].expired
              /\ Revoke(T)[t].revoked = (session[t].revoked \/ t \in T)
<1>1. ASSUME NEW t \in Tokens
      PROVE  LET r == [session[t] EXCEPT !.revoked = @ \/ t \in T] IN
             /\ r \in [account : Accounts, revoked : BOOLEAN, expired : BOOLEAN]
             /\ r.account = session[t].account /\ r.expired = session[t].expired
             /\ r.revoked = (session[t].revoked \/ t \in T)
  BY DEF Sessions
<1>2. QED
  BY <1>1 DEF Revoke, Sessions

\* Rows of pairs that the browser still holds keep their accounts.
AccountsKept == \A t \in Tokens \cap Referenced : session'[t].account = session[t].account
PastKept ==
  /\ past' \in [killed : BOOLEAN, ended : BOOLEAN, out : BOOLEAN, causes : SUBSET Causes]
  /\ past'.ended = past.ended /\ past'.out = past.out
  /\ past.causes \subseteq past'.causes

\* A request is answered, or its answer lost.
LEMMA AnswerWithin ==
  ASSUME BrowserInv, NEW b \in Tabs, NEW s \in Slots, NEW th \in Threads,
         thread' = [thread EXCEPT ![b][s] = th],
         tab' = tab, flight' = flight, store' = store, session' \in Sessions,
         PastKept, past'.killed = past.killed, AccountsKept,
         thread[b][s].pc # "idle", th.pc = "answered", th.req = thread[b][s].req,
         th.retried = thread[b][s].retried, th.token = thread[b][s].token \/ th.req = "login",
         ThreadStands(th, s, flight[b]),
         past'.causes \subseteq {"typo"} /\ InOrder(Here(b), session)
           /\ Undisturbed(Here(b), session, past.causes)
           => /\ ThreadUndisturbed(th, session', past'.causes)
              /\ s = "login" /\ th.req = "login" /\ th.answer = "ok" => ~session'[th.token].revoked
              /\ \A t \in Tokens \cap Referenced :
                   /\ session'[t].expired = session[t].expired
                   /\ s # "logout" /\ ~session[t].revoked => ~session'[t].revoked
  PROVE  BrowserInv'
<1> DEFINE c == Here(b)
           d == Here(b)'
<1> USE NamedSlots
<1>1. Shape /\ Shape'
  BY DEF BrowserInv, Shape, PastKept
<1>2. /\ TabStands(c) /\ c.store = store /\ c.tab = tab[b] /\ c.thread = thread[b]
      /\ c.flight = flight[b] /\ c.ended = past.ended /\ c.out = past.out
  BY HereStands
<1>3. /\ d \in Contexts /\ d.store = store /\ d.tab = tab[b] /\ d.flight = flight[b]
      /\ d.thread = thread'[b] /\ d.ended = past.ended /\ d.out = past.out
  BY <1>1 DEF Here, Shape, Contexts, PastKept
<1>4. d.thread[s] = th /\ \A r \in Slots \ {s} : d.thread[r] = c.thread[r]
  BY <1>1, <1>2, <1>3 DEF Shape
<1>5. /\ {store, tab[b].access, flight[b].presented, flight[b].answer} \subseteq Referenced
      /\ \A r \in Slots : thread[b][r].token \in Referenced
  BY ReferencedTokens
<1>6. \A a \in Tabs \ {b} : tab'[a] = tab[a] /\ thread'[a] = thread[a] /\ flight'[a] = flight[a]
  BY <1>1 DEF Shape
<1>7. ~Untouched(b)
  BY TouchedTabs
<1> HIDE DEF c, d
<1>8. TabStands(d)
  <2>1. \A r \in Slots : ThreadStands(d.thread[r], r, d.flight)
    BY <1>2, <1>3, <1>4 DEF TabStands
  <2>2. d.thread["boot"].pc # "idle" <=> c.thread["boot"].pc # "idle"
    BY <1>2, <1>4
  <2>3. QED
    BY <1>2, <1>3, <2>1, <2>2 DEF TabStands
<1>9. \A r \in Slots : /\ d.thread[r].pc = "idle" <=> c.thread[r].pc = "idle"
                       /\ d.thread[r].pc = "renews" => c.thread[r].pc = "renews"
                       /\ d.thread[r].req = c.thread[r].req
                       /\ d.thread[r].retried = c.thread[r].retried
                       /\ d.thread[r].req # "login" => d.thread[r].token = c.thread[r].token
  BY <1>2, <1>4
<1>10. ASSUME InOrder(c, session) PROVE InOrder(d, session')
  <2>1. ~Crossed(d)
    BY <1>2, <1>3, <1>9, <1>10 DEF InOrder, Crossed
  <2>2. c.tab \in TabStates /\ c.flight \in Flights
    BY <1>2 DEF TabStands, Contexts
  <2>3. c.tab.access # None => session'[c.tab.access].account = session[c.tab.access].account
    BY <1>2, <1>5, <2>2 DEF AccountsKept, TabStates, Token
  <2>4. c.flight.pc # "none" =>
          /\ session'[c.flight.presented].account = session[c.flight.presented].account
          /\ c.flight.answer # None =>
               session'[c.flight.answer].account = session[c.flight.answer].account
    BY <1>2, <1>5, <2>2 DEF AccountsKept, TabStands, FlightStands, Flights, Token
  <2>5. \A r \in Slots : d.thread[r].req = "me" =>
          d.tab.access # None /\ d.thread[r].token = d.tab.access
    BY <1>2, <1>3, <1>9, <1>10 DEF InOrder
  <2>6. /\ d.thread["login"].req = "login" => d.tab.access = None
        /\ d.thread["logout"].pc # "idle" => d.tab.access # None
        /\ d.thread["boot"].pc = "renews" => d.tab.access = None
        /\ d.thread["boot"].pc # "idle" => \A r \in Slots \ {"boot"} : d.thread[r].pc = "idle"
    BY <1>2, <1>3, <1>9, <1>10 DEF InOrder
  <2>7. QED
    BY <1>2, <1>3, <1>10, <2>1, <2>3, <2>4, <2>5, <2>6 DEF InOrder
<1>11. ASSUME past'.causes \subseteq {"typo"}, InOrder(c, session),
              Undisturbed(c, session, past.causes)
       PROVE  Undisturbed(d, session', past'.causes)
  <2>1. /\ ThreadUndisturbed(th, session', past'.causes)
        /\ s = "login" /\ th.req = "login" /\ th.answer = "ok" => ~session'[th.token].revoked
        /\ \A t \in Tokens \cap Referenced :
             /\ session'[t].expired = session[t].expired
             /\ s # "logout" /\ ~session[t].revoked => ~session'[t].revoked
    BY <1>11 DEF c
  <2>2. ASSUME NEW r \in Slots PROVE ThreadUndisturbed(d.thread[r], session', past'.causes)
    <3>1. CASE r = s
      BY <1>4, <2>1, <3>1
    <3>2. CASE r # s
      <4>1. d.thread[r] = thread[b][r] /\ ThreadUndisturbed(thread[b][r], session, past.causes)
        BY <1>2, <1>4, <1>11, <3>2 DEF Undisturbed
      <4>2. thread[b][r].token \in Token /\ thread[b][r].token \in Referenced
        BY <1>1, <1>5 DEF Shape, Threads
      <4>3. thread[b][r].token # None =>
              session'[thread[b][r].token].expired = session[thread[b][r].token].expired
        BY <2>1, <4>2 DEF Token
      <4>4. QED
        BY <4>1, <4>3 DEF ThreadUndisturbed, PastKept
    <3>3. QED
      BY <3>1, <3>2
  <2>3. CASE s = "logout"
    <3>1. c.flight.pc = "none"
      BY <1>2, <1>11, <2>3 DEF InOrder, Crossed
    <3>2. d.thread["login"].req # "login"
      BY <1>2, <1>9, <1>11, <2>3 DEF InOrder
    <3>3. QED
      BY <1>2, <1>3, <1>4, <2>2, <2>3, <3>1, <3>2 DEF Undisturbed
  <2>4. CASE s # "logout"
    <3>1. store # None => (~session[store].revoked => ~session'[store].revoked)
      BY <1>1, <1>5, <2>1, <2>4 DEF Shape, Token
    <3>2. flight[b].pc # "none" =>
            flight[b].presented \in Tokens \cap Referenced
      BY <1>2, <1>5 DEF TabStands, FlightStands
    <3>3. flight[b].answer # None => flight[b].answer \in Tokens \cap Referenced
      BY <1>1, <1>5 DEF Shape, Flights, Token
    <3>4. d.thread["logout"] = c.thread["logout"]
      BY <1>4, <2>4
    <3>5. d.thread["login"].req = "login" /\ d.thread["login"].pc = "answered"
            /\ d.thread["login"].answer = "ok" => ~session'[d.thread["login"].token].revoked
      <4>1. CASE s = "login"
        BY <1>4, <2>1, <4>1
      <4>2. CASE s # "login"
        <5>1. d.thread["login"] = thread[b]["login"] /\ c.thread["login"] = thread[b]["login"]
          BY <1>2, <1>4, <4>2
        <5>2. ThreadStands(thread[b]["login"], "login", flight[b])
          BY <1>2 DEF TabStands
        <5>3. thread[b]["login"].req = "login" /\ thread[b]["login"].pc = "answered"
                /\ thread[b]["login"].answer = "ok"
                => thread[b]["login"].token \in Tokens \cap Referenced
          BY <1>5, <5>2 DEF ThreadStands
        <5>4. QED
          BY <1>11, <2>1, <2>4, <5>1, <5>3 DEF Undisturbed
      <4>3. QED
        BY <4>1, <4>2
    <3>6. /\ d.store # None /\ d.flight.pc = "none" /\ d.thread["logout"].pc = "idle" =>
               ~session'[d.store].revoked
          /\ d.flight.pc \in {"sent", "found"} => ~session'[d.flight.presented].revoked
      BY <1>2, <1>3, <1>11, <2>1, <2>4, <3>1, <3>2, <3>4 DEF Undisturbed
    <3>7. d.flight.pc = "answered" =>
            /\ d.flight.answer # None /\ d.flight.answer # d.tab.access
            /\ ~session'[d.flight.answer].revoked /\ ~session'[d.flight.answer].expired
      BY <1>2, <1>3, <1>11, <2>1, <2>4, <3>3 DEF Undisturbed
    <3>8. QED
      BY <2>2, <3>5, <3>6, <3>7 DEF Undisturbed
  <2>5. QED
    BY <2>3, <2>4
<1>12. past'.out => /\ store' = None /\ NobodyAnswers(d)
                    /\ \A a \in Tabs \ {b} : NobodyAnswers(Here(a))
  <2>1. past.out => store = None /\ NobodyAnswers(c) /\ \A a \in Tabs : NobodyAnswers(Here(a))
    BY DEF BrowserInv, LogoutInv, c
  <2>2. NobodyAnswers(c) => NobodyAnswers(d)
    BY <1>2, <1>3, <1>9 DEF NobodyAnswers
  <2>3. QED
    BY <2>1, <2>2 DEF PastKept
<1>13. QED
  BY <1>1, <1>6, <1>7, <1>8, <1>10, <1>11, <1>12, StepWithin DEF PastKept, c, d

\* The refresh under way gets on, or is lost.
LEMMA FlightWithin ==
  ASSUME BrowserInv, NEW b \in Tabs, NEW fl \in Flights,
         flight' = [flight EXCEPT ![b] = fl],
         tab' = tab, thread' = thread, store' = store, session' \in Sessions,
         PastKept, AccountsKept,
         flight[b].pc # "none", fl.pc # "none", fl.presented = flight[b].presented, FlightStands(fl),
         fl.answer # None => session'[fl.answer].account = session'[fl.presented].account,
         past'.causes \subseteq {"typo"} /\ ~past.killed /\ InOrder(Here(b), session)
           /\ Undisturbed(Here(b), session, past.causes)
           => /\ ~past'.killed
              /\ fl.pc \in {"sent", "found"} => ~session'[fl.presented].revoked
              /\ fl.pc = "answered" =>
                   /\ fl.answer # None /\ fl.answer # tab[b].access
                   /\ ~session'[fl.answer].revoked /\ ~session'[fl.answer].expired
              /\ \A t \in Tokens \cap Referenced : session'[t].expired = session[t].expired
  PROVE  BrowserInv'
<1> DEFINE c == Here(b)
           d == Here(b)'
<1> USE NamedSlots
<1>1. Shape /\ Shape'
  BY DEF BrowserInv, Shape, PastKept
<1>2. /\ TabStands(c) /\ c.store = store /\ c.tab = tab[b] /\ c.thread = thread[b]
      /\ c.flight = flight[b] /\ c.ended = past.ended /\ c.out = past.out
  BY HereStands
<1>3. /\ d \in Contexts /\ d.store = store /\ d.tab = tab[b] /\ d.flight = fl
      /\ d.thread = thread[b] /\ d.ended = past.ended /\ d.out = past.out
  BY <1>1 DEF Here, Shape, Contexts, PastKept
<1>4. tab[b].access \in Referenced /\ \A s \in Slots : thread[b][s].token \in Referenced
  BY ReferencedTokens
<1>5. \A a \in Tabs \ {b} : tab'[a] = tab[a] /\ thread'[a] = thread[a] /\ flight'[a] = flight[a]
  BY <1>1 DEF Shape
<1>6. ~Untouched(b)
  BY TouchedTabs
<1> HIDE DEF c, d
<1>7. TabStands(d)
  <2>1. \A r \in Slots : ThreadStands(d.thread[r], r, d.flight)
    BY <1>2, <1>3 DEF TabStands, ThreadStands
  <2>2. QED
    BY <1>2, <1>3, <2>1 DEF TabStands
<1>8. ASSUME InOrder(c, session) PROVE InOrder(d, session')
  <2>1. ~Crossed(d)
    BY <1>2, <1>3, <1>8 DEF InOrder, Crossed
  <2>2. tab[b] \in TabStates
    BY <1>1 DEF Shape
  <2>3. tab[b].access # None => session'[tab[b].access].account = session[tab[b].access].account
    BY <1>4, <2>2 DEF AccountsKept, TabStates, Token
  <2>4. d.store \in {None, d.flight.presented}
    BY <1>2, <1>3, <1>8 DEF InOrder
  <2>5. d.flight.answer # None =>
          session'[d.flight.answer].account = session'[d.flight.presented].account
    BY <1>3
  <2>6. QED
    BY <1>2, <1>3, <1>8, <2>1, <2>3, <2>4, <2>5 DEF InOrder
<1>9. ASSUME past'.causes \subseteq {"typo"}, ~past.killed, InOrder(c, session),
             Undisturbed(c, session, past.causes)
      PROVE  Undisturbed(d, session', past'.causes) /\ ~past'.killed
  <2>1. /\ ~past'.killed
        /\ fl.pc \in {"sent", "found"} => ~session'[fl.presented].revoked
        /\ fl.pc = "answered" =>
             /\ fl.answer # None /\ fl.answer # tab[b].access
             /\ ~session'[fl.answer].revoked /\ ~session'[fl.answer].expired
        /\ \A t \in Tokens \cap Referenced : session'[t].expired = session[t].expired
    BY <1>9 DEF c
  <2>2. ASSUME NEW s \in Slots PROVE ThreadUndisturbed(d.thread[s], session', past'.causes)
    <3>1. d.thread[s] = thread[b][s] /\ ThreadUndisturbed(thread[b][s], session, past.causes)
      BY <1>2, <1>3, <1>9 DEF Undisturbed
    <3>2. thread[b][s].token \in Token /\ thread[b][s].token \in Referenced
      BY <1>1, <1>4 DEF Shape, Threads
    <3>3. thread[b][s].token # None =>
            session'[thread[b][s].token].expired = session[thread[b][s].token].expired
      BY <2>1, <3>2 DEF Token
    <3>4. QED
      BY <3>1, <3>3 DEF ThreadUndisturbed, PastKept
  <2>3. d.thread["login"].pc = "idle"
    BY <1>2, <1>3, <1>9 DEF InOrder, Crossed
  <2>4. QED
    BY <1>3, <2>1, <2>2, <2>3 DEF Undisturbed
<1>10. ~past'.out
  BY <1>2 DEF PastKept, BrowserInv, LogoutInv, NobodyAnswers, c
<1>11. QED
  BY <1>1, <1>5, <1>6, <1>7, <1>8, <1>9, <1>10, StepWithin DEF PastKept, c, d

\* Rows of the server change while no tab does.
LEMMA RowsWithin ==
  ASSUME BrowserInv, tab' = tab, thread' = thread, flight' = flight, store' = store,
         session' \in Sessions, PastKept, past'.killed = past.killed, AccountsKept,
         past'.causes \subseteq {"typo"} /\ InOrder(Here(Opened), session)
           /\ Undisturbed(Here(Opened), session, past.causes)
           => Undisturbed(Here(Opened), session', past'.causes)
  PROVE  BrowserInv'
<1> DEFINE b == Opened
           c == Here(b)
<1>1. Shape /\ Shape' /\ b \in Tabs
  BY OpenedIsATab DEF BrowserInv, Shape, PastKept
<1> HIDE DEF b
<1>2. /\ TabStands(c) /\ c.store = store /\ c.tab = tab[b] /\ c.thread = thread[b]
      /\ c.flight = flight[b] /\ c.ended = past.ended /\ c.out = past.out
  BY <1>1, HereStands
<1>3. c = Here(b)'
  BY DEF Here, PastKept
<1>4. {store, tab[b].access, flight[b].presented, flight[b].answer} \subseteq Referenced
  BY <1>1, ReferencedTokens
<1> HIDE DEF c
<1>5. ASSUME InOrder(c, session) PROVE InOrder(c, session')
  <2>1. c.tab \in TabStates /\ c.flight \in Flights
    BY <1>2 DEF TabStands, Contexts
  <2>2. c.tab.access # None => session'[c.tab.access].account = session[c.tab.access].account
    BY <1>2, <1>4, <2>1 DEF AccountsKept, TabStates, Token
  <2>3. c.flight.pc # "none" =>
          /\ session'[c.flight.presented].account = session[c.flight.presented].account
          /\ c.flight.answer # None =>
               session'[c.flight.answer].account = session[c.flight.answer].account
    BY <1>2, <1>4, <2>1 DEF AccountsKept, TabStands, FlightStands, Flights, Token
  <2>4. QED
    BY <1>5, <2>2, <2>3 DEF InOrder
<1>6. past'.out => /\ store' = None /\ NobodyAnswers(c)
                    /\ \A a \in Tabs \ {b} : NobodyAnswers(Here(a))
  BY <1>1 DEF PastKept, BrowserInv, LogoutInv, c
<1>7. TabStands(Here(b)')
  BY <1>2, <1>3
<1>8. past'.causes \cap {"crossed", "tabs"} = {} /\ InOrder(Here(b), session)
        => InOrder(Here(b)', session')
  BY <1>3, <1>5 DEF c
<1>9. past'.causes \subseteq {"typo"} /\ ~past.killed
        /\ InOrder(Here(b), session) /\ InOrder(Here(b)', session')
        /\ Undisturbed(Here(b), session, past.causes)
        => /\ Undisturbed(Here(b)', session', past'.causes)
           /\ ~past'.killed
           /\ past'.ended => past.ended \/ past'.causes # {}
  BY <1>3 DEF b, c, PastKept
<1>10. past'.out => /\ store' = None /\ NobodyAnswers(Here(b)')
                    /\ \A a \in Tabs \ {b} : NobodyAnswers(Here(a))
  BY <1>3, <1>6
<1>11. b = Opened /\ past.causes \subseteq past'.causes
  BY DEF b, PastKept
<1>12. QED
  BY <1>1, <1>7, <1>8, <1>9, <1>10, <1>11, StepWithin

Answered(th, answer) == [th EXCEPT !.pc = "answered", !.answer = answer]

LEMMA AnsweredFields ==
  ASSUME NEW th \in Threads, NEW answer \in Answers
  PROVE  LET w == Answered(th, answer) IN
         /\ w \in Threads /\ w.pc = "answered" /\ w.answer = answer /\ w.req = th.req
         /\ w.token = th.token /\ w.retried = th.retried
BY DEF Answered, Threads

LEMMA AnswerFields ==
  ASSUME Shape, NEW b \in Tabs, NEW s \in Slots, NEW answer, Answer(b, s, answer)
  PROVE  thread' = [thread EXCEPT ![b][s] = Answered(thread[b][s], answer)]
<1>1. thread \in [Tabs -> [Slots -> Threads]]
  BY DEF Shape
<1>2. thread' = [thread EXCEPT ![b][s].pc = "answered", ![b][s].answer = answer]
  BY DEF Answer
<1>3. QED
  BY <1>1, <1>2 DEF Answered

LEMMA CausesGrow ==
  ASSUME Shape, NEW new \in SUBSET Causes, past' = [past EXCEPT !.causes = @ \cup new]
  PROVE  PastKept /\ past'.killed = past.killed /\ past'.causes = past.causes \cup new
BY DEF Shape, PastKept

LEMMA PastSame ==
  ASSUME Shape, past' = past
  PROVE  PastKept /\ past'.killed = past.killed /\ past'.causes = past.causes
BY DEF Shape, PastKept

LEMMA ServeKeeps ==
  ASSUME BrowserInv, NEW b \in Tabs, NEW s \in Slots, Serve(b, s)
  PROVE  BrowserInv'
<1> DEFINE old == thread[b][s]
           admitted == Admitted(old.token)
           answer == IF admitted /\ old.req # "typo" THEN "ok" ELSE "denied"
           th == Answered(old, answer)
<1>1. Shape
  BY DEF BrowserInv
<1>2. /\ old.pc = "sent" /\ old.req \in Guarded /\ Answer(b, s, answer)
      /\ past' = IF admitted /\ old.req = "typo" THEN [past EXCEPT !.causes = @ \cup {"typo"}] ELSE past
      /\ session' = session /\ store' = store /\ tab' = tab /\ flight' = flight
      /\ ~admitted \/ old.req \in {"page", "me", "typo"}
  BY DEF Serve
<1>3. old \in Threads /\ ThreadStands(old, s, flight[b])
  BY <1>1, HereStands DEF Shape, TabStands
<1>4. answer \in Answers
  BY DEF Answers
<1>5. admitted => old.token # None /\ old.token \in Tokens /\ ~session[old.token].expired
  BY <1>3 DEF Admitted, Threads, Token
<1>6. thread' = [thread EXCEPT ![b][s] = th]
  BY <1>1, <1>2, AnswerFields
<1>7. PastKept /\ past'.killed = past.killed
      /\ (admitted /\ old.req = "typo" => "typo" \in past'.causes)
  <2>1. CASE admitted /\ old.req = "typo"
    BY <1>1, <1>2, <2>1, CausesGrow DEF Causes
  <2>2. CASE ~(admitted /\ old.req = "typo")
    BY <1>1, <1>2, <2>2, PastSame
  <2>3. QED
    BY <2>1, <2>2
<1> HIDE DEF admitted
<1>8. answer = "ok" => admitted /\ old.req # "typo"
  OBVIOUS
<1>9. answer \in {"ok", "denied"} /\ (answer = "denied" => ~admitted \/ old.req = "typo")
  OBVIOUS
<1> HIDE DEF answer, old
<1>10. /\ th \in Threads /\ th.pc = "answered" /\ th.answer = answer /\ th.req = old.req
       /\ th.token = old.token /\ th.retried = old.retried
  BY <1>3, <1>4, AnsweredFields
<1> HIDE DEF th
<1>11. ThreadStands(th, s, flight[b])
  BY <1>2, <1>3, <1>5, <1>8, <1>9, <1>10, IdleType DEF ThreadStands
<1>12. ASSUME InOrder(Here(b), session), Undisturbed(Here(b), session, past.causes)
       PROVE  ThreadUndisturbed(th, session', past'.causes)
  <2>1. ThreadUndisturbed(old, session, past.causes)
    BY <1>12, HereStands DEF Undisturbed, old
  <2>2. th.retried /\ th.answer = "denied" => "typo" \in past'.causes
    <3>1. ASSUME th.retried, th.answer = "denied" PROVE "typo" \in past'.causes
      <4>1. old.token # None /\ ~session[old.token].expired
        BY <1>2, <1>10, <2>1, <3>1 DEF ThreadUndisturbed
      <4>2. admitted
        BY <4>1 DEF admitted, old, Admitted
      <4>3. QED
        BY <1>7, <1>9, <1>10, <3>1, <4>2
    <3>2. QED
      BY <3>1
  <2>3. QED
    BY <1>9, <1>10, <2>2 DEF ThreadUndisturbed
<1>13. session' \in Sessions /\ AccountsKept
  BY <1>1, <1>2 DEF Shape, AccountsKept
<1>14. th.req # "login"
  BY <1>2, <1>10 DEF Guarded
<1>15. thread[b][s].pc # "idle" /\ th.req = thread[b][s].req /\ th.retried = thread[b][s].retried
       /\ th.token = thread[b][s].token
  BY <1>2, <1>10 DEF old
<1>16. QED
  BY <1>2, <1>6, <1>7, <1>10, <1>11, <1>12, <1>13, <1>14, <1>15, AnswerWithin

LEMMA LoseKeeps ==
  ASSUME BrowserInv, NEW b \in Tabs, NEW s \in Slots, Lose(b, s)
  PROVE  BrowserInv'
<1> DEFINE old == thread[b][s]
           th == Answered(old, "lost")
<1>1. Shape
  BY DEF BrowserInv
<1>2. /\ old.pc \in {"sent", "answered"} /\ Answer(b, s, "lost")
      /\ past' = [past EXCEPT !.causes = @ \cup {"lost"}]
      /\ session' = session /\ store' = store /\ tab' = tab /\ flight' = flight
  BY DEF Lose
<1>3. old \in Threads /\ ThreadStands(old, s, flight[b])
  BY <1>1, HereStands DEF Shape, TabStands
<1>4. thread' = [thread EXCEPT ![b][s] = th]
  BY <1>1, <1>2, AnswerFields
<1>5. PastKept /\ past'.killed = past.killed /\ "lost" \in past'.causes
  BY <1>1, <1>2, CausesGrow DEF Causes
<1> HIDE DEF old
<1>6. /\ th \in Threads /\ th.pc = "answered" /\ th.answer = "lost" /\ th.req = old.req
      /\ th.token = old.token /\ th.retried = old.retried
  BY <1>3, AnsweredFields DEF Answers
<1> HIDE DEF th
<1>7. ThreadStands(th, s, flight[b])
  BY <1>2, <1>3, <1>6, IdleType DEF ThreadStands
<1>8. session' \in Sessions /\ AccountsKept
  BY <1>1, <1>2 DEF Shape, AccountsKept
<1>9. ~(past'.causes \subseteq {"typo"})
  BY <1>5
<1>10. thread[b][s].pc # "idle" /\ th.req = thread[b][s].req /\ th.retried = thread[b][s].retried
       /\ th.token = thread[b][s].token
  BY <1>2, <1>6 DEF old
<1>11. QED
  BY <1>2, <1>4, <1>5, <1>6, <1>7, <1>8, <1>9, <1>10, AnswerWithin

LEMMA ServeLoginKeeps ==
  ASSUME BrowserInv, NEW b \in Tabs, ServeLogin(b)
  PROVE  BrowserInv'
<1> DEFINE s == "login"
           old == thread[b][s]
<1>1. Shape /\ s \in Slots
  BY NamedSlots DEF BrowserInv
<1>2. /\ old.pc = "sent" /\ old.req = "login"
      /\ store' = store /\ tab' = tab /\ flight' = flight /\ past' = past
  BY DEF ServeLogin
<1>3. old \in Threads /\ ThreadStands(old, s, flight[b])
  BY <1>1, HereStands DEF Shape, TabStands
<1>4. PastKept /\ past'.killed = past.killed /\ past'.causes = past.causes
  BY <1>1, <1>2, PastSame
<1>5. CASE Answer(b, s, "denied") /\ session' = session
  <2> DEFINE th == Answered(old, "denied")
  <2>1. thread' = [thread EXCEPT ![b][s] = th]
    BY <1>1, <1>5, AnswerFields
  <2> HIDE DEF old
  <2>2. /\ th \in Threads /\ th.pc = "answered" /\ th.answer = "denied" /\ th.req = old.req
        /\ th.token = old.token /\ th.retried = old.retried
    BY <1>3, AnsweredFields DEF Answers
  <2> HIDE DEF th
  <2>3. ThreadStands(th, s, flight[b]) /\ ~th.retried
    BY <1>2, <1>3, <2>2, IdleType DEF ThreadStands, Requests, NoRefreshPaths
  <2>4. ThreadUndisturbed(th, session', past'.causes)
    BY <2>2, <2>3 DEF ThreadUndisturbed
  <2>5. session' \in Sessions /\ AccountsKept
    BY <1>1, <1>5 DEF Shape, AccountsKept
  <2>6. thread[b][s].pc # "idle" /\ th.req = thread[b][s].req /\ th.retried = thread[b][s].retried
        /\ th.token = thread[b][s].token
    BY <1>2, <2>2 DEF old
  <2>7. th.answer # "ok"
    BY <2>2
  <2>8. QED
    BY <1>1, <1>2, <1>4, <1>5, <2>1, <2>2, <2>3, <2>4, <2>5, <2>6, <2>7, AnswerWithin
<1>6. ASSUME NEW a \in Accounts, Free # {}, session' = Issue(NextPair, a),
             thread' = [thread EXCEPT ![b][s].pc = "answered",
                          ![b][s].answer = "ok", ![b][s].token = NextPair]
      PROVE  BrowserInv'
  <2> DEFINE n == NextPair
             th == [old EXCEPT !.pc = "answered", !.answer = "ok", !.token = n]
  <2>1. n \in Tokens /\ n \notin Referenced
    BY <1>6, NextPairIsFree
  <2>2. thread' = [thread EXCEPT ![b][s] = th]
    BY <1>1, <1>6 DEF Shape
  <2>3. /\ session' \in Sessions
        /\ session'[n] = [account |-> a, revoked |-> FALSE, expired |-> FALSE]
        /\ \A u \in Tokens \ {n} : session'[u] = session[u]
    BY <1>1, <1>6, <2>1, IssueFields DEF Shape
  <2> HIDE DEF n, old
  <2>4. /\ th \in Threads /\ th.pc = "answered" /\ th.answer = "ok" /\ th.req = old.req
        /\ th.token = n /\ th.retried = old.retried
    BY <1>3, <2>1 DEF Threads, Token, Answers
  <2> HIDE DEF th
  <2>5. ThreadStands(th, s, flight[b]) /\ ~th.retried
    BY <1>2, <1>3, <2>1, <2>4, IdleType DEF ThreadStands, Requests, NoRefreshPaths
  <2>6. ThreadUndisturbed(th, session', past'.causes) /\ ~session'[th.token].revoked
    BY <2>3, <2>4, <2>5 DEF ThreadUndisturbed
  <2>7. \A t \in Tokens \cap Referenced : session'[t] = session[t]
    BY <2>1, <2>3
  <2>8. AccountsKept
    BY <2>7 DEF AccountsKept
  <2>9. thread[b][s].pc # "idle" /\ th.req = thread[b][s].req /\ th.retried = thread[b][s].retried
        /\ th.req = "login"
    BY <1>2, <2>4 DEF old
  <2>10. QED
    BY <1>1, <1>2, <1>4, <2>2, <2>3, <2>4, <2>5, <2>6, <2>7, <2>8, <2>9, AnswerWithin
<1>7. QED
  BY <1>5, <1>6 DEF ServeLogin

LEMMA ServeLogoutKeeps ==
  ASSUME BrowserInv, NEW b \in Tabs, ServeLogout(b)
  PROVE  BrowserInv'
<1> DEFINE s == "logout"
           old == thread[b][s]
           own == ~session[old.body].revoked /\ session[old.body].account = session[old.token].account
           answer == IF own THEN "ok" ELSE "denied"
           th == Answered(old, answer)
<1>1. Shape /\ s \in Slots
  BY NamedSlots DEF BrowserInv
<1>2. /\ old.pc = "sent" /\ Answer(b, s, answer)
      /\ session' = IF own THEN Revoke({old.body}) ELSE session
      /\ store' = store /\ tab' = tab /\ flight' = flight /\ past' = past
  BY DEF ServeLogout
<1>3. old \in Threads /\ ThreadStands(old, s, flight[b])
  BY <1>1, HereStands DEF Shape, TabStands
<1>4. answer \in Answers /\ answer \in {"ok", "denied"}
  BY DEF Answers
<1>5. thread' = [thread EXCEPT ![b][s] = th]
  BY <1>1, <1>2, AnswerFields
<1>6. PastKept /\ past'.killed = past.killed /\ past'.causes = past.causes
  BY <1>1, <1>2, PastSame
<1>7. /\ session' \in Sessions
      /\ \A t \in Tokens : session'[t].account = session[t].account
                           /\ session'[t].expired = session[t].expired
  <2>1. CASE own
    <3>1. session' = Revoke({old.body}) /\ session \in Sessions
      BY <1>1, <1>2, <2>1 DEF Shape
    <3> HIDE DEF old
    <3>2. QED
      BY <3>1, RevokeFields
  <2>2. CASE ~own
    BY <1>1, <1>2, <2>2 DEF Shape
  <2>3. QED
    BY <2>1, <2>2
<1> HIDE DEF answer, own, old
<1>8. /\ th \in Threads /\ th.pc = "answered" /\ th.answer = answer /\ th.req = old.req
      /\ th.token = old.token /\ th.retried = old.retried
  BY <1>3, <1>4, AnsweredFields
<1> HIDE DEF th
<1>9. old.req = "logout"
  BY <1>2, <1>3 DEF ThreadStands, Requests
<1>10. ThreadStands(th, s, flight[b]) /\ ~th.retried
  BY <1>2, <1>3, <1>4, <1>8, <1>9, IdleType DEF ThreadStands, NoRefreshPaths
<1>11. ThreadUndisturbed(th, session', past'.causes)
  BY <1>4, <1>8, <1>10 DEF ThreadUndisturbed
<1>12. AccountsKept
  BY <1>7 DEF AccountsKept
<1>13. thread[b][s].pc # "idle" /\ th.req = thread[b][s].req /\ th.retried = thread[b][s].retried
       /\ th.token = thread[b][s].token
  BY <1>2, <1>8 DEF old
<1>14. QED
  BY <1>1, <1>2, <1>5, <1>6, <1>7, <1>8, <1>10, <1>11, <1>12, <1>13, AnswerWithin

\* Whatever is revoked of what the browser holds is one of the causes.
LEMMA EvictedFields ==
  ASSUME Shape, NEW T, Evicted(T), session' = Revoke(T)
  PROVE  /\ PastKept /\ past'.killed = past.killed /\ session' \in Sessions /\ AccountsKept
         /\ \A t \in Tokens : session'[t].expired = session[t].expired
         /\ past'.causes \subseteq {"typo"} =>
              \A t \in Tokens \cap Referenced : ~session[t].revoked => ~session'[t].revoked
<1> DEFINE hit == \E t \in T \cap Referenced : ~session[t].revoked
           new == IF hit THEN {"revoked"} ELSE {}
<1>1. past' = [past EXCEPT !.causes = @ \cup new]
  BY DEF Evicted
<1>2. new \in SUBSET Causes /\ (hit => "revoked" \in new)
  BY DEF Causes
<1> HIDE DEF new
<1>3. PastKept /\ past'.killed = past.killed /\ past'.causes = past.causes \cup new
  BY <1>1, <1>2, CausesGrow
<1>4. /\ session' \in Sessions
      /\ \A t \in Tokens :
           /\ session'[t].account = session[t].account
           /\ session'[t].expired = session[t].expired
           /\ session'[t].revoked = (session[t].revoked \/ t \in T)
  BY RevokeFields DEF Shape
<1>5. ASSUME past'.causes \subseteq {"typo"}, NEW t \in Tokens \cap Referenced, ~session[t].revoked
      PROVE  ~session'[t].revoked
  <2>1. ~hit
    BY <1>2, <1>3, <1>5
  <2>2. t \notin T
    BY <1>5, <2>1
  <2>3. QED
    BY <1>4, <1>5, <2>2
<1>6. AccountsKept
  BY <1>4 DEF AccountsKept
<1>7. QED
  BY <1>3, <1>4, <1>5, <1>6

LEMMA ServeChangeKeeps ==
  ASSUME BrowserInv, NEW b \in Tabs, ServeChange(b)
  PROVE  BrowserInv'
<1> DEFINE s == "change"
           old == thread[b][s]
           others == SessionsOf(session[old.token].account) \ {old.token}
           th == Answered(old, "ok")
<1>1. Shape /\ s \in Slots
  BY NamedSlots DEF BrowserInv
<1>2. /\ old.pc = "sent" /\ old.req = "change" /\ Answer(b, s, "ok")
      /\ session' = Revoke(others) /\ Evicted(others)
      /\ store' = store /\ tab' = tab /\ flight' = flight
  BY DEF ServeChange
<1>3. old \in Threads /\ ThreadStands(old, s, flight[b])
  BY <1>1, HereStands DEF Shape, TabStands
<1>4. thread' = [thread EXCEPT ![b][s] = th]
  BY <1>1, <1>2, AnswerFields
<1> HIDE DEF others, old
<1>5. /\ PastKept /\ past'.killed = past.killed /\ session' \in Sessions /\ AccountsKept
      /\ \A t \in Tokens : session'[t].expired = session[t].expired
      /\ past'.causes \subseteq {"typo"} =>
           \A t \in Tokens \cap Referenced : ~session[t].revoked => ~session'[t].revoked
  BY <1>1, <1>2, EvictedFields
<1>6. /\ th \in Threads /\ th.pc = "answered" /\ th.answer = "ok" /\ th.req = old.req
      /\ th.token = old.token /\ th.retried = old.retried
  BY <1>3, AnsweredFields DEF Answers
<1> HIDE DEF th
<1>7. ThreadStands(th, s, flight[b])
  BY <1>2, <1>3, <1>6, IdleType DEF ThreadStands
<1>8. ThreadUndisturbed(th, session', past'.causes)
  BY <1>6 DEF ThreadUndisturbed
<1>9. thread[b][s].pc # "idle" /\ th.req = thread[b][s].req /\ th.retried = thread[b][s].retried
      /\ th.token = thread[b][s].token
  BY <1>2, <1>6 DEF old
<1>10. QED
  BY <1>1, <1>2, <1>4, <1>5, <1>6, <1>7, <1>8, <1>9, AnswerWithin

\* The tokens of a refresh under way are held by the browser.
LEMMA FlightTokens ==
  ASSUME BrowserInv, NEW b \in Tabs, flight[b].pc # "none"
  PROVE  /\ flight[b] \in Flights /\ FlightStands(flight[b])
         /\ flight[b].presented \in Tokens \cap Referenced
         /\ tab[b].access \in Referenced
BY HereStands, ReferencedTokens DEF BrowserInv, Shape, TabStands, FlightStands

Replies == {"found", "answered"}
Onward(fl, pc, answer) == [fl EXCEPT !.pc = pc, !.answer = answer]

LEMMA FlightAnswered ==
  ASSUME NEW fl \in Flights, fl.pc # "none", fl.presented \in Tokens, NEW pc \in Replies,
         NEW answer \in Token, pc = "found" => answer = None
  PROVE  LET w == Onward(fl, pc, answer) IN
         /\ w \in Flights /\ w.pc = pc /\ w.presented = fl.presented /\ w.answer = answer
         /\ FlightStands(w)
BY DEF Flights, FlightStands, NoFlight, Replies, Onward

LEMMA LookUpKeeps ==
  ASSUME BrowserInv, NEW b \in Tabs, LookUp(b)
  PROVE  BrowserInv'
<1> DEFINE old == flight[b]
           t == old.presented
<1>1. Shape
  BY DEF BrowserInv
<1>2. old.pc = "sent" /\ store' = store /\ tab' = tab /\ thread' = thread
  BY DEF LookUp
<1>3. /\ old \in Flights /\ old.presented \in Tokens \cap Referenced /\ old.answer = None
  BY <1>2, FlightTokens DEF FlightStands
<1>4. CASE session[t].revoked
  <2> DEFINE w == Onward(old, "answered", None)
  <2>1. /\ session' = Revoke(SessionsOf(session[t].account))
        /\ flight' = [flight EXCEPT ![b].pc = "answered"]
        /\ past' = [past EXCEPT !.killed = TRUE]
    BY <1>4 DEF LookUp
  <2>2. flight' = [flight EXCEPT ![b] = w]
    BY <1>1, <1>3, <2>1 DEF Shape, Flights, Onward
  <2>3. session' \in Sessions /\ AccountsKept
    BY <1>1, <2>1, RevokeFields DEF Shape, AccountsKept
  <2>4. PastKept
    BY <1>1, <2>1 DEF Shape, PastKept
  <2>5. ~Undisturbed(Here(b), session, past.causes)
    BY <1>2, <1>4, HereStands DEF Undisturbed
  <2>6. old.pc # "none"
    BY <1>2
  <2> HIDE DEF old
  <2>7. /\ w \in Flights /\ w.pc = "answered" /\ w.presented = old.presented /\ w.answer = None
        /\ FlightStands(w)
    <3>1. old.presented \in Tokens /\ None \in Token /\ "answered" \in Replies /\ "found" \in Replies
      BY <1>3 DEF Token, Replies
    <3>2. QED
      BY <1>3, <2>6, <3>1, FlightAnswered
  <2> HIDE DEF w
  <2>8. QED
    BY <1>2, <2>2, <2>3, <2>4, <2>5, <2>6, <2>7, FlightWithin DEF old
<1>5. CASE ~session[t].revoked
  <2> DEFINE w == Onward(old, "found", None)
  <2>1. session' = session /\ past' = past /\ flight' = [flight EXCEPT ![b].pc = "found"]
    BY <1>5 DEF LookUp
  <2>2. flight' = [flight EXCEPT ![b] = w]
    BY <1>1, <1>3, <2>1 DEF Shape, Flights, Onward
  <2>3. session' \in Sessions /\ AccountsKept
    BY <1>1, <2>1 DEF Shape, AccountsKept
  <2>4. PastKept /\ past'.killed = past.killed /\ past'.causes = past.causes
    BY <1>1, <2>1, PastSame
  <2>5. old.pc # "none" /\ ~session'[old.presented].revoked
    BY <1>2, <1>5, <2>1
  <2> HIDE DEF old
  <2>6. /\ w \in Flights /\ w.pc = "found" /\ w.presented = old.presented /\ w.answer = None
        /\ FlightStands(w)
    <3>1. old.presented \in Tokens /\ None \in Token /\ "answered" \in Replies /\ "found" \in Replies
      BY <1>3 DEF Token, Replies
    <3>2. QED
      BY <1>3, <2>5, <3>1, FlightAnswered
  <2> HIDE DEF w
  <2>7. \A u \in Tokens \cap Referenced : session'[u].expired = session[u].expired
    BY <2>1
  <2>8. QED
    BY <1>2, <2>2, <2>3, <2>4, <2>5, <2>6, <2>7, FlightWithin DEF old
<1>6. QED
  BY <1>4, <1>5

LEMMA RotateKeeps ==
  ASSUME BrowserInv, NEW b \in Tabs, Rotate(b)
  PROVE  BrowserInv'
<1> DEFINE old == flight[b]
           t == old.presented
<1>1. Shape
  BY DEF BrowserInv
<1>2. old.pc = "found" /\ store' = store /\ tab' = tab /\ thread' = thread /\ past' = past
  BY DEF Rotate
<1>3. /\ old \in Flights /\ old.presented \in Tokens \cap Referenced /\ old.answer = None
      /\ tab[b].access \in Referenced
  BY <1>2, FlightTokens DEF FlightStands
<1>4. PastKept /\ past'.killed = past.killed /\ past'.causes = past.causes
  BY <1>1, <1>2, PastSame
<1>5. CASE session[t].revoked
  <2> DEFINE w == Onward(old, "answered", None)
  <2>1. session' = session /\ flight' = [flight EXCEPT ![b].pc = "answered"]
    BY <1>5 DEF Rotate
  <2>2. flight' = [flight EXCEPT ![b] = w]
    BY <1>1, <1>3, <2>1 DEF Shape, Flights, Onward
  <2>3. session' \in Sessions /\ AccountsKept
    BY <1>1, <2>1 DEF Shape, AccountsKept
  <2>4. ~Undisturbed(Here(b), session, past.causes)
    BY <1>2, <1>5, HereStands DEF Undisturbed
  <2>5. old.pc # "none"
    BY <1>2
  <2> HIDE DEF old
  <2>6. /\ w \in Flights /\ w.pc = "answered" /\ w.presented = old.presented /\ w.answer = None
        /\ FlightStands(w)
    <3>1. old.presented \in Tokens /\ None \in Token /\ "answered" \in Replies /\ "found" \in Replies
      BY <1>3 DEF Token, Replies
    <3>2. QED
      BY <1>3, <2>5, <3>1, FlightAnswered
  <2> HIDE DEF w
  <2>7. QED
    BY <1>2, <1>4, <2>2, <2>3, <2>4, <2>5, <2>6, FlightWithin DEF old
<1>6. CASE ~session[t].revoked
  <2> DEFINE n == NextPair
             w == Onward(old, "answered", n)
             issued == Issue(n, session[t].account)
  <2>1. /\ Free # {} /\ session' = [issued EXCEPT ![t].revoked = TRUE]
        /\ flight' = [flight EXCEPT ![b].pc = "answered", ![b].answer = n]
    BY <1>6 DEF Rotate
  <2>2. flight' = [flight EXCEPT ![b] = w]
    BY <1>1, <1>3, <2>1 DEF Shape, Flights, Onward
  <2>3. n \in Tokens /\ n \notin Referenced /\ n # t /\ n # tab[b].access
    BY <1>3, <2>1, NextPairIsFree
  <2>4. session \in Sessions /\ session[t].account \in Accounts
    BY <1>1, <1>3 DEF Shape, Sessions
  <2>5. old.pc # "none" /\ t = old.presented
    BY <1>2
  <2> HIDE DEF n, old, t
  <2>6. /\ issued \in Sessions
        /\ issued[n] = [account |-> session[t].account, revoked |-> FALSE, expired |-> FALSE]
        /\ \A u \in Tokens \ {n} : issued[u] = session[u]
    BY <2>3, <2>4, IssueFields
  <2> HIDE DEF issued
  <2>7. /\ session' \in Sessions
        /\ session'[n] = issued[n]
        /\ \A u \in Tokens : session'[u].account = issued[u].account
                             /\ session'[u].expired = issued[u].expired
    BY <1>3, <2>1, <2>3, <2>5, <2>6 DEF Sessions
  <2>8. \A u \in Tokens \cap Referenced : session'[u].account = session[u].account
                                          /\ session'[u].expired = session[u].expired
    BY <2>3, <2>6, <2>7
  <2>9. /\ session'[n].account = session'[t].account
        /\ ~session'[n].revoked /\ ~session'[n].expired
    BY <1>3, <2>3, <2>5, <2>6, <2>7
  <2>10. /\ w \in Flights /\ w.pc = "answered" /\ w.presented = old.presented /\ w.answer = n
         /\ FlightStands(w)
    <3>1. old.presented \in Tokens /\ n \in Token /\ "answered" \in Replies
      BY <1>3, <2>3 DEF Token, Replies
    <3>2. QED
      BY <1>3, <2>5, <3>1, FlightAnswered
  <2> HIDE DEF w
  <2>11. AccountsKept /\ n # None
    BY <2>3, <2>8, ConstantsAssumption DEF AccountsKept
  <2>12. QED
    BY <1>2, <1>4, <2>2, <2>3, <2>5, <2>7, <2>8, <2>9, <2>10, <2>11, FlightWithin DEF old
<1>7. QED
  BY <1>5, <1>6

LEMMA LoseRefreshKeeps ==
  ASSUME BrowserInv, NEW b \in Tabs, LoseRefresh(b)
  PROVE  BrowserInv'
<1> DEFINE old == flight[b]
           w == Onward(old, "answered", None)
<1>1. Shape
  BY DEF BrowserInv
<1>2. /\ old.pc \in {"sent", "answered"} /\ old.pc # "none"
      /\ store' = store /\ tab' = tab /\ thread' = thread /\ session' = session
      /\ past' = [past EXCEPT !.causes = @ \cup {"lost"}]
      /\ flight' = [flight EXCEPT ![b].pc = "answered", ![b].answer = None]
  BY DEF LoseRefresh
<1>3. old \in Flights /\ old.presented \in Tokens
  BY <1>2, FlightTokens
<1>4. flight' = [flight EXCEPT ![b] = w]
  BY <1>1, <1>2 DEF Shape, Onward
<1>5. PastKept /\ "lost" \in past'.causes
  BY <1>1, <1>2, CausesGrow DEF Causes
<1>6. session' \in Sessions /\ AccountsKept
  BY <1>1, <1>2 DEF Shape, AccountsKept
<1> HIDE DEF old
<1>7. /\ w \in Flights /\ w.pc = "answered" /\ w.presented = old.presented /\ w.answer = None
      /\ FlightStands(w)
  <2>1. None \in Token /\ "answered" \in Replies
    BY DEF Token, Replies
  <2>2. QED
    BY <1>2, <1>3, <2>1, FlightAnswered
<1> HIDE DEF w
<1>8. ~(past'.causes \subseteq {"typo"})
  BY <1>5
<1>9. QED
  BY <1>2, <1>4, <1>5, <1>6, <1>7, <1>8, FlightWithin DEF old

\* The tab's tokens keep their rows, but perhaps for the expiry of its own access token.
LEMMA RowsKeepCalm ==
  ASSUME BrowserInv, PastKept, past'.causes \subseteq {"typo"},
         InOrder(Here(Opened), session), Undisturbed(Here(Opened), session, past.causes),
         \A t \in Tokens \cap Referenced : ~session[t].revoked => ~session'[t].revoked,
         \A t \in Tokens \cap Referenced :
           \/ session'[t].expired = session[t].expired
           \/ /\ t = tab[Opened].access
              /\ \A s \in Slots : thread[Opened][s].pc = "sent" => thread[Opened][s].token # t
  PROVE  Undisturbed(Here(Opened), session', past'.causes)
<1> DEFINE b == Opened
           c == Here(b)
<1> USE NamedSlots
<1>1. Shape /\ b \in Tabs
  BY OpenedIsATab DEF BrowserInv
<1> HIDE DEF b
<1>2. /\ TabStands(c) /\ c.store = store /\ c.tab = tab[b] /\ c.thread = thread[b]
      /\ c.flight = flight[b]
  BY <1>1, HereStands
<1>3. /\ {store, tab[b].access, flight[b].presented, flight[b].answer} \subseteq Referenced
      /\ \A r \in Slots : thread[b][r].token \in Referenced
  BY <1>1, ReferencedTokens
<1>4. InOrder(c, session) /\ Undisturbed(c, session, past.causes)
  BY DEF b
<1> HIDE DEF c
<1>5. store # None => (~session[store].revoked => ~session'[store].revoked)
  BY <1>1, <1>3 DEF Shape, Token
<1>6. flight[b].pc # "none" => flight[b].presented \in Tokens \cap Referenced
  BY <1>2, <1>3 DEF TabStands, FlightStands
<1>7. flight[b].answer # None => flight[b].answer \in Tokens \cap Referenced
  BY <1>1, <1>3 DEF Shape, Flights, Token
<1>8. flight[b].pc = "answered" =>
        /\ flight[b].answer # None /\ flight[b].answer # tab[b].access
        /\ ~session'[flight[b].answer].revoked /\ ~session'[flight[b].answer].expired
  <2> SUFFICES ASSUME flight[b].pc = "answered"
               PROVE  /\ flight[b].answer # None /\ flight[b].answer # tab[b].access
                      /\ ~session'[flight[b].answer].revoked /\ ~session'[flight[b].answer].expired
    OBVIOUS
  <2>1. /\ flight[b].answer # None /\ flight[b].answer # tab[b].access
        /\ ~session[flight[b].answer].revoked /\ ~session[flight[b].answer].expired
    BY <1>2, <1>4 DEF Undisturbed
  <2>2. session'[flight[b].answer].expired = session[flight[b].answer].expired
    BY <1>7, <2>1 DEF b
  <2>3. QED
    BY <1>7, <2>1, <2>2
<1>9. ASSUME NEW r \in Slots PROVE ThreadUndisturbed(c.thread[r], session', past'.causes)
  <2>1. c.thread[r] = thread[b][r] /\ ThreadUndisturbed(thread[b][r], session, past.causes)
    BY <1>2, <1>4 DEF Undisturbed
  <2>2. thread[b][r].token \in Token /\ thread[b][r].token \in Referenced
    BY <1>1, <1>3 DEF Shape, Threads
  <2>3. thread[b][r].token # None /\ thread[b][r].pc = "sent" =>
          session'[thread[b][r].token].expired = session[thread[b][r].token].expired
    BY <2>2 DEF Token, b
  <2>4. QED
    BY <2>1, <2>3 DEF ThreadUndisturbed, PastKept
<1>10. c.thread["login"].req = "login" /\ c.thread["login"].pc = "answered"
         /\ c.thread["login"].answer = "ok" => ~session'[c.thread["login"].token].revoked
  <2>1. ThreadStands(thread[b]["login"], "login", flight[b])
    BY <1>2 DEF TabStands
  <2>2. thread[b]["login"].req = "login" /\ thread[b]["login"].pc = "answered"
          /\ thread[b]["login"].answer = "ok" => thread[b]["login"].token \in Tokens \cap Referenced
    BY <1>3, <2>1 DEF ThreadStands
  <2>3. QED
    BY <1>2, <1>4, <2>2 DEF Undisturbed
<1>11. /\ c.store # None /\ c.flight.pc = "none" /\ c.thread["logout"].pc = "idle" =>
            ~session'[c.store].revoked
       /\ c.flight.pc \in {"sent", "found"} => ~session'[c.flight.presented].revoked
  BY <1>2, <1>4, <1>5, <1>6 DEF Undisturbed
<1>12. Undisturbed(c, session', past'.causes)
  BY <1>2, <1>8, <1>9, <1>10, <1>11 DEF Undisturbed
<1>13. QED
  BY <1>12 DEF b, c

LEMMA ExpireKeeps ==
  ASSUME BrowserInv, NEW t \in Tokens, Expire(t)
  PROVE  BrowserInv'
<1>1. Shape
  BY DEF BrowserInv
<1>2. /\ session' = [session EXCEPT ![t].expired = TRUE]
      /\ store' = store /\ tab' = tab /\ thread' = thread /\ flight' = flight /\ past' = past
  BY DEF Expire
<1>3. PICK a \in Tabs : t = tab[a].access
  BY DEF Expire
<1>4. \A b \in Tabs, s \in Slots : thread[b][s].pc = "sent" => thread[b][s].token # t
  BY DEF Expire
<1>5. /\ session' \in Sessions
      /\ \A u \in Tokens : session'[u].account = session[u].account
                           /\ session'[u].revoked = session[u].revoked
      /\ \A u \in Tokens \ {t} : session'[u] = session[u]
  BY <1>1, <1>2 DEF Shape, Sessions
<1>6. PastKept /\ past'.killed = past.killed /\ past'.causes = past.causes
  BY <1>1, <1>2, PastSame
<1>7. AccountsKept
  BY <1>5 DEF AccountsKept
<1>8. ASSUME past'.causes \subseteq {"typo"}, InOrder(Here(Opened), session),
             Undisturbed(Here(Opened), session, past.causes)
      PROVE  Undisturbed(Here(Opened), session', past'.causes)
  <2>1. \A b \in Tabs \ {Opened} : Untouched(b)
    BY <1>6, <1>8 DEF BrowserInv, OneTabInv
  <2>2. a = Opened
    BY <1>3, <2>1, ConstantsAssumption DEF Untouched, Blank
  <2>3. \A u \in Tokens \cap Referenced :
          \/ session'[u].expired = session[u].expired
          \/ /\ u = tab[Opened].access
             /\ \A s \in Slots : thread[Opened][s].pc = "sent" => thread[Opened][s].token # u
    BY <1>3, <1>4, <1>5, <2>2, OpenedIsATab
  <2>4. \A u \in Tokens \cap Referenced : ~session[u].revoked => ~session'[u].revoked
    BY <1>5
  <2>5. QED
    BY <1>6, <1>8, <2>3, <2>4, RowsKeepCalm
<1>9. QED
  BY <1>2, <1>5, <1>6, <1>7, <1>8, RowsWithin

LEMMA RevokeAllKeeps ==
  ASSUME BrowserInv, NEW a \in Accounts, RevokeAllSessions(a)
  PROVE  BrowserInv'
<1> DEFINE T == SessionsOf(a)
<1>1. /\ Shape /\ session' = Revoke(T) /\ Evicted(T)
      /\ store' = store /\ tab' = tab /\ thread' = thread /\ flight' = flight
  BY DEF RevokeAllSessions, BrowserInv
<1> HIDE DEF T
<1>2. /\ PastKept /\ past'.killed = past.killed /\ session' \in Sessions /\ AccountsKept
      /\ \A t \in Tokens : session'[t].expired = session[t].expired
      /\ past'.causes \subseteq {"typo"} =>
           \A t \in Tokens \cap Referenced : ~session[t].revoked => ~session'[t].revoked
  BY <1>1, EvictedFields
<1>3. ASSUME past'.causes \subseteq {"typo"}, InOrder(Here(Opened), session),
             Undisturbed(Here(Opened), session, past.causes)
      PROVE  Undisturbed(Here(Opened), session', past'.causes)
  BY <1>2, <1>3, RowsKeepCalm
<1>4. QED
  BY <1>1, <1>2, <1>3, RowsWithin

-----------------------------------------------------------------------------
(* The theorems                                                              *)

\* A tab at rest stands, and its session is the one it was given.
LEMMA RestStands ==
  ASSUME NEW c \in Contexts, \A s \in Slots : c.thread[s] = Idle, c.flight = NoFlight,
         c.tab.shown = c.tab.access, c.tab.loading = FALSE
  PROVE  TabStands(c)
<1>1. FlightStands(NoFlight)
  BY DEF FlightStands, NoFlight
<1>2. \A s \in Slots : ThreadStands(c.thread[s], s, c.flight)
  BY IdleStands
<1>3. c.tab.loading <=> c.thread["boot"].pc # "idle"
  BY NamedSlots, IdleType
<1>4. QED
  BY <1>1, <1>2, <1>3 DEF TabStands

LEMMA RestIsCalm ==
  ASSUME NEW c \in Contexts, NEW ses, NEW causes, NEW t \in Tokens,
         \A s \in Slots : c.thread[s] = Idle, c.flight = NoFlight,
         c.tab.access = t, c.tab.shown = t, c.store = t,
         c.tab.user = ses[t].account, ~ses[t].revoked
  PROVE  InOrder(c, ses) /\ Undisturbed(c, ses, causes)
<1>1. /\ \A s \in Slots : /\ c.thread[s].pc = "idle" /\ c.thread[s].req = None
                         /\ c.thread[s].answer = None /\ c.thread[s].retried = FALSE
      /\ c.flight.pc = "none"
  BY IdleType DEF NoFlight
<1>2. ~Crossed(c)
  BY <1>1 DEF Crossed
<1>3. InOrder(c, ses)
  <2>1. /\ c.tab.access # None /\ c.thread["login"].req # "login"
        /\ c.thread["logout"].pc = "idle" /\ c.thread["boot"].pc = "idle"
        /\ \A s \in Slots : c.thread[s].req # "me"
    BY <1>1, NamedSlots, IdleType, ConstantsAssumption
  <2>2. QED
    BY <1>1, <1>2, <2>1 DEF InOrder
<1>4. \A s \in Slots : ThreadUndisturbed(c.thread[s], ses, causes)
  BY <1>1, IdleType DEF ThreadUndisturbed
<1>5. Undisturbed(c, ses, causes)
  BY <1>1, <1>4, NamedSlots, IdleType DEF Undisturbed
<1>6. QED
  BY <1>3, <1>5

LEMMA InitHolds ==
  ASSUME Init
  PROVE  BrowserInv
<1> USE OpenedIsATab, NamedSlots
<1>1. Shape
  <2>1. session \in Sessions /\ store \in Token
    BY DEF Init, Sessions, Token
  <2>2. tab \in [Tabs -> TabStates]
    BY DEF Init, TabStates, Blank, Token
  <2>3. thread \in [Tabs -> [Slots -> Threads]]
    BY IdleType DEF Init
  <2>4. flight \in [Tabs -> Flights]
    BY DEF Init, Flights, NoFlight, Token
  <2>5. past \in [killed : BOOLEAN, ended : BOOLEAN, out : BOOLEAN, causes : SUBSET Causes]
    BY DEF Init, Causes
  <2>6. QED
    BY <2>1, <2>2, <2>3, <2>4, <2>5 DEF Shape
<1>2. ASSUME NEW a \in Tabs
      PROVE  /\ tab[a] = IF a = Opened
                         THEN [Blank EXCEPT !.open = TRUE, !.access = First, !.shown = First,
                                            !.user = Someone]
                         ELSE Blank
             /\ thread[a] = [s \in Slots |-> Idle] /\ flight[a] = NoFlight
             /\ \A s \in Slots : thread[a][s] = Idle
  BY DEF Init
<1>3. store = First /\ past.causes = {} /\ past.killed = FALSE /\ past.ended = FALSE /\ past.out = FALSE
  BY DEF Init
<1>4. ASSUME NEW a \in Tabs
      PROVE  tab[a].loading = FALSE /\ tab[a].shown = tab[a].access
  <2>1. CASE a = Opened
    BY <1>2, <2>1 DEF Blank
  <2>2. CASE a # Opened
    BY <1>2, <2>2 DEF Blank
  <2>3. QED
    BY <2>1, <2>2
<1>5. TabsInv
  <2> SUFFICES ASSUME NEW a \in Tabs PROVE TabStands(Here(a))
    BY DEF TabsInv
  <2>1. /\ Here(a) \in Contexts /\ Here(a).tab = tab[a]
        /\ Here(a).thread = thread[a] /\ Here(a).flight = flight[a]
    BY <1>1, HereType
  <2>2. flight[a] = NoFlight /\ \A s \in Slots : thread[a][s] = Idle
    BY <1>2
  <2>3. QED
    BY <1>4, <2>1, <2>2, RestStands
<1>6. LogoutInv
  BY <1>3 DEF LogoutInv
<1>7. tab[Opened].access = First /\ tab[Opened].shown = First /\ tab[Opened].user = Someone
  BY <1>2 DEF Blank
<1>8. session[First].account = Someone /\ ~session[First].revoked
  BY DEF Init
<1>9. InOrder(Here(Opened), session) /\ Undisturbed(Here(Opened), session, past.causes)
  <2>1. /\ Here(Opened) \in Contexts /\ Here(Opened).tab = tab[Opened]
        /\ Here(Opened).store = store
        /\ Here(Opened).thread = thread[Opened] /\ Here(Opened).flight = flight[Opened]
    BY <1>1, HereType
  <2>2. flight[Opened] = NoFlight /\ \A s \in Slots : thread[Opened][s] = Idle
    BY <1>2
  <2>3. QED
    BY <1>3, <1>7, <1>8, <2>1, <2>2, RestIsCalm
<1>10. OneTabInv
  <2>1. \A a \in Tabs \ {Opened} : Untouched(a)
    BY <1>2 DEF Untouched
  <2>2. QED
    BY <1>9, <2>1 DEF OneTabInv
<1>11. CalmInv
  BY <1>3, <1>9 DEF CalmInv
<1>12. QED
  BY <1>1, <1>5, <1>6, <1>10, <1>11 DEF BrowserInv

LEMMA NextKeeps ==
  ASSUME BrowserInv, [Next]_vars
  PROVE  BrowserInv'
<1>1. ASSUME NEW b \in Tabs, UserStep(b) PROVE BrowserInv'
  BY <1>1, StartCallKeeps, StartLoginKeeps, StartLogoutKeeps, StartChangeKeeps, BootKeeps DEF UserStep
<1>2. ASSUME NEW b \in Tabs, ServerStep(b) PROVE BrowserInv'
  BY <1>2, ServeKeeps, ServeLoginKeeps, ServeLogoutKeeps, ServeChangeKeeps, LookUpKeeps, RotateKeeps
     DEF ServerStep
<1>3. ASSUME NEW b \in Tabs, TabStep(b) PROVE BrowserInv'
  BY <1>3, SettleKeeps, ReceiveKeeps DEF TabStep
<1>4. ASSUME Environment PROVE BrowserInv'
  BY <1>4, ExpireKeeps, RevokeAllKeeps, LoseKeeps, LoseRefreshKeeps DEF Environment
<1>5. ASSUME UNCHANGED vars PROVE BrowserInv'
  BY <1>5 DEF vars, BrowserInv, Shape, TabsInv, LogoutInv, OneTabInv, CalmInv, Untouched, Here
<1>6. QED
  BY <1>1, <1>2, <1>3, <1>4, <1>5 DEF Next

LEMMA BrowserStands == Spec => []BrowserInv
<1>1. Init => BrowserInv
  BY InitHolds
<1>2. BrowserInv /\ [Next]_vars => BrowserInv'
  BY NextKeeps
<1>3. QED
  BY <1>1, <1>2, PTL DEF Spec

(***************************************************************************)
(* The state of the tabs keeps its shape: React never shows a token that   *)
(* api-client does not send, and a tab is loading exactly while            *)
(* bootstrap() runs.                                                       *)
(***************************************************************************)
THEOREM TabsKeepTheirShape == Spec => []TypeOK
<1>1. BrowserInv => TypeOK
  <2> SUFFICES ASSUME BrowserInv PROVE TypeOK
    OBVIOUS
  <2>1. Shape
    BY DEF BrowserInv
  <2>2. ASSUME NEW b \in Tabs
        PROVE  /\ tab[b].shown \in {None, tab[b].access}
               /\ tab[b].loading <=> Busy(b, "boot")
               /\ flight[b].pc = "none" <=> flight[b] = NoFlight
    BY HereStands DEF TabStands, FlightStands, Busy
  <2>3. QED
    BY <2>1, <2>2 DEF TypeOK, Shape, Sessions, Causes, Token, TabStates, Flights, Threads
<1>2. QED
  BY <1>1, BrowserStands, PTL

(***************************************************************************)
(* The session and its tokens are those of the user the page shows, and    *)
(* end when that user or a named cause ends them; a logout is upheld.      *)
(***************************************************************************)
THEOREM SessionsStayTheUsers == Spec => []SessionIsTheUsers
<1>1. BrowserInv => SessionIsTheUsers
  <2> SUFFICES ASSUME BrowserInv PROVE SessionIsTheUsers
    OBVIOUS
  <2>1. past.causes \subseteq {"typo"} => ~past.killed /\ (past.ended => past.causes # {})
    BY DEF BrowserInv, CalmInv
  <2>2. SessionEndsForACause
    BY <2>1 DEF SessionEndsForACause
  <2>3. LogoutHolds
    BY DEF BrowserInv, LogoutInv, LogoutHolds
  <2>4. ASSUME NEW b \in Tabs, tab[b].user # None, tab[b].access # None,
               past.causes \cap {"crossed", "tabs"} = {}
        PROVE  session[tab[b].access].account = tab[b].user
    <3>1. b = Opened /\ InOrder(Here(b), session)
      BY <2>4 DEF BrowserInv, OneTabInv, Untouched, Blank
    <3>2. QED
      BY <2>4, <3>1, HereStands DEF InOrder
  <2>5. UserActsAsShown
    BY <2>4 DEF UserActsAsShown
  <2>6. QED
    BY <2>2, <2>3, <2>5 DEF SessionIsTheUsers
<1>2. QED
  BY <1>1, BrowserStands, PTL

=============================================================================
