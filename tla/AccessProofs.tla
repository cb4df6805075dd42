---------------------------- MODULE AccessProofs ----------------------------
(***************************************************************************)
(* What Access guarantees for every lifetime of a token, every delay of a  *)
(* statement, and any number of requests, tokens and support sessions: who *)
(* is let in was entitled to it not longer ago than a token lives, a       *)
(* support session ends once and serves nothing later, and settings are    *)
(* kept.                                                                   *)
(***************************************************************************)
EXTENDS Access, TLAPS

-----------------------------------------------------------------------------
(* The inductive invariant *)

Phases == {"idle", "actor", "tenant", "issue", "reads", "create", "record",
           "end", "liveSession", "activeTenant", "handle", "before", "find",
           "write", "saved", "failed", "load", "loaded", "resolveRole",
           "readRoles", "setRoles"}

Reads == {"target", "tenant", "settings"}

\* What the body of a PATCH may say.
Changes == UNION {[S -> BOOLEAN] : S \in SUBSET Fields}

RequestTypes ==
  [pc : Phases, call : Calls \union {"none"}, since : Nat,
   todo : SUBSET (Reads \union Roles), perms : SUBSET Perms, active : BOOLEAN,
   session : {NoSession} \union SessionIds, exp : Nat, perm : Perms \union {"none"},
   change : Changes, before : Settings, found : BOOLEAN, roles : SUBSET Roles,
   lag : Nat]

SessionTypes ==
  [made : BOOLEAN, expiresAt : Nat, endedAt : Nat,
   started : {"no"} \union Recordings,
   served : BOOLEAN, ends : Nat]

PageTypes ==
  [pc : {"closed", "loading", "error", "ready", "saving", "saved", "refused"},
   draft : [PageFields -> BOOLEAN]]

OneOfWorlds ==
  \E w \in Worlds : world = [w EXCEPT !.left = world.left] /\ world.left \in Nat

Types ==
  /\ OneOfWorlds
  /\ now \in Nat /\ Start <= now /\ now <= Start + world.time
  /\ tenant \in BOOLEAN
  /\ settings \in Settings \union {NoRow}
  /\ account \in [active : BOOLEAN, roles : SUBSET Roles]
  /\ session \in [SessionIds -> SessionTypes]
  /\ tokens \subseteq Tokens
  /\ req \in [Requests -> RequestTypes]
  /\ page \in PageTypes
  /\ until \in [Grounds -> Nat]
  /\ \A g \in Grounds : until[g] <= now
  /\ last \in Settings

\* What justifies an access was so at this time or later.
HeldSince(g, time) == Holds(g) \/ until[g] >= time

AllHeldSince(grounds, time) == \A g \in grounds : HeldSince(g, time)

\* No statement is overdue.
Timely(q) == q.since <= now /\ (q.pc # "idle" => now <= q.since + MaxDelay)

Own(perms) == {"account"} \union perms
Support(perms) == {"account", "consent"} \union perms

\* A support session that has its row, and what justified it.
Stands(s, perms) ==
  /\ s # NoSession
  /\ session[s].made
  /\ AllHeldSince(Support(perms), session[s].expiresAt - TTL - MaxDelay)

\* How long ago what a request relies on was so, where the request stands.
Justified(q) ==
  /\ q.pc = "tenant" =>
       /\ AllHeldSince(q.perms, q.since)
       /\ q.active => HeldSince("account", q.since)
  /\ q.pc = "issue" => AllHeldSince(Own(q.perms), q.since - MaxDelay)
  /\ q.pc = "reads" =>
       /\ q.call = "start"
       /\ "target" \notin q.todo => AllHeldSince(Own(q.perms), q.since)
       /\ "settings" \notin q.todo => HeldSince("consent", q.since)
  /\ q.pc = "create" => q.call = "start" /\ AllHeldSince(Support(q.perms), q.since - MaxDelay)
  /\ q.pc = "record" =>
       /\ q.call \in {"start", "end"} /\ q.session # NoSession
       /\ q.call = "start" => Stands(q.session, q.perms) /\ q.exp <= now + TTL
  /\ q.pc = "liveSession" =>
       Stands(q.session, q.perms) /\ session[q.session].started # "no"
  /\ q.pc = "activeTenant" =>
       IF q.session = NoSession
         THEN q.call = "use" /\ AllHeldSince(Own(q.perms), q.since + 1 - TTL - 2 * MaxDelay)
         ELSE /\ session[q.session].started # "no"
              /\ AllHeldSince(Support(q.perms), q.since + 1 - TTL - MaxDelay)
              /\ session[q.session].endedAt # 0 => session[q.session].endedAt >= q.since
  /\ q.pc = "end" => q.call = "end" /\ q.session # NoSession
  /\ q.pc = "handle" =>
       /\ q.lag < TTL + (IF q.session = NoSession THEN 3 ELSE 2) * MaxDelay
       /\ q.session # NoSession =>
            /\ session[q.session].started # "no"
            /\ session[q.session].endedAt # 0 => session[q.session].endedAt >= q.since - MaxDelay

TokenStands(t) ==
  /\ t.exp <= now + TTL
  /\ IF t.session = NoSession
       THEN AllHeldSince(Own(t.perms), t.exp - TTL - 2 * MaxDelay)
       ELSE Stands(t.session, t.perms) /\ session[t.session].started # "no"

\* An end that is being recorded was made, once, and is not on record yet.
RecordsEnd(r) == req[r].pc = "record" /\ req[r].call = "end"

EndsAreRecorded ==
  /\ \A r \in Requests : RecordsEnd(r) =>
       session[req[r].session].endedAt # 0 /\ session[req[r].session].ends = 0
  /\ \A r, s \in Requests :
       RecordsEnd(r) /\ RecordsEnd(s) /\ req[r].session = req[s].session => r = s

SessionStands(s) ==
  /\ session[s].expiresAt <= now + TTL
  /\ session[s].endedAt <= now
  /\ session[s].ends <= 1
  /\ session[s].ends = 1 => session[s].endedAt # 0
  /\ session[s].started # "no" => session[s].made
  /\ session[s].served => session[s].started # "no"

AccessInv ==
  /\ Types
  /\ \A r \in Requests : Timely(req[r]) /\ Justified(req[r])
  /\ \A t \in tokens : TokenStands(t)
  /\ \A s \in SessionIds : SessionStands(s)
  /\ EndsAreRecorded

-----------------------------------------------------------------------------
(* Worlds and settings *)

LEMMA SettingsTypes ==
  /\ Consent \in Fields /\ PageFields \subseteq Fields
  /\ DEFAULT_SETTINGS \in Settings
  /\ NoRow \notin Settings
<1>1. \A f \in Fields : (f = "requireApproval") \in BOOLEAN
  OBVIOUS
<1>2. DEFAULT_SETTINGS \in Settings
  BY <1>1 DEF DEFAULT_SETTINGS, Settings
<1>3. Consent \in Fields
  BY DEF Fields, Consent
<1>4. DOMAIN NoRow = {}
  BY DEF NoRow
<1>5. NoRow \notin Settings
  BY <1>3, <1>4 DEF Settings
<1> QED
  BY <1>2, <1>3, <1>5 DEF Fields

LEMMA WorldTypes ==
  ASSUME NEW w \in Worlds
  PROVE  /\ w = [field \in DOMAIN w |-> w[field]]
         /\ {"calls", "left", "roles", "named", "signedIn", "time"} \subseteq DOMAIN w
         /\ w.calls \subseteq Calls /\ w.roles \subseteq Roles /\ w.named \subseteq Fields
         /\ w.signedIn \in BOOLEAN /\ w.time \in Nat
         /\ w.settings \subseteq Settings
<1>1. w = [field \in DOMAIN w |-> w[field]]
  BY ONLY ConstantsAssumption, Zenon
<1>2. {"calls", "left", "roles", "named", "signedIn", "time"} \subseteq DOMAIN w
  <2>1. {"calls", "left", "outside", "roles", "named", "signedIn", "settings", "time"}
          \subseteq DOMAIN w
    BY ONLY ConstantsAssumption, Zenon
  <2> QED
    BY ONLY <2>1
<1>3. w.calls \subseteq Calls /\ w.roles \subseteq Roles /\ w.named \subseteq Fields
  BY ConstantsAssumption
<1>4. w.signedIn \in BOOLEAN /\ w.time \in Nat
  BY ConstantsAssumption
<1>5. w.settings \subseteq Settings
  <2>1. w.settings \subseteq {[f \in Fields |-> IF f = Consent THEN TRUE ELSE DEFAULT_SETTINGS[f]]}
    BY ConstantsAssumption
  <2>2. DEFAULT_SETTINGS \in Settings
    BY SettingsTypes
  <2>3. [f \in Fields |-> IF f = Consent THEN TRUE ELSE DEFAULT_SETTINGS[f]] \in Settings
    <3>1. \A f \in Fields : (IF f = Consent THEN TRUE ELSE DEFAULT_SETTINGS[f]) \in BOOLEAN
      BY <2>2 DEF Settings
    <3> QED
      BY <3>1 DEF Settings
  <2> QED
    BY <2>1, <2>3
<1> QED
  BY <1>1, <1>2, <1>3, <1>4, <1>5

LEMMA WorldFacts ==
  ASSUME OneOfWorlds
  PROVE  /\ world.calls \subseteq Calls /\ world.left \in Nat /\ world.time \in Nat
         /\ world.roles \subseteq Roles /\ world.named \subseteq Fields
         /\ world.signedIn \in BOOLEAN
<1> PICK w \in Worlds : world = [w EXCEPT !.left = world.left] /\ world.left \in Nat
  BY DEF OneOfWorlds
<1>1. /\ w = [field \in DOMAIN w |-> w[field]]
      /\ {"calls", "left", "roles", "named", "signedIn", "time"} \subseteq DOMAIN w
      /\ w.calls \subseteq Calls /\ w.roles \subseteq Roles /\ w.named \subseteq Fields
      /\ w.signedIn \in BOOLEAN /\ w.time \in Nat
  BY WorldTypes
<1>2. /\ world.calls = w.calls /\ world.roles = w.roles /\ world.named = w.named
      /\ world.signedIn = w.signedIn /\ world.time = w.time
  BY <1>1
<1> QED
  BY <1>1, <1>2

LEMMA ArrivalsKeepTheWorld ==
  ASSUME OneOfWorlds, world.left > 0, world' = [world EXCEPT !.left = @ - 1]
  PROVE  OneOfWorlds' /\ world'.time = world.time
<1> PICK w \in Worlds : world = [w EXCEPT !.left = world.left] /\ world.left \in Nat
  BY DEF OneOfWorlds
<1>1. DOMAIN world = DOMAIN w /\ {"left", "time"} \subseteq DOMAIN w
  BY WorldTypes
<1>2. world'.left = world.left - 1 /\ world'.time = world.time
  BY <1>1
<1>3. world' = [w EXCEPT !.left = world'.left]
  BY <1>1, <1>2
<1> QED
  BY <1>2, <1>3 DEF OneOfWorlds

LEMMA WorldStays == ASSUME OneOfWorlds, world' = world PROVE OneOfWorlds' /\ world'.time = world.time
BY DEF OneOfWorlds

-----------------------------------------------------------------------------
(* Constants and types *)

LEMMA Times ==
  /\ TTL \in Nat /\ TTL > 0 /\ MaxDelay \in Nat /\ MaxDelay > 0
  /\ Start = TTL + 3 * MaxDelay + 1 /\ Start \in Nat
  /\ NoSession = 0 /\ NoSession \notin SessionIds
BY ConstantsAssumption DEF Start, NoSession, SessionIds

LEMMA ChangeTypes ==
  /\ NoRow \in Changes
  /\ \A S \in SUBSET Fields : [S -> BOOLEAN] \subseteq Changes
  /\ \A change \in Changes : DOMAIN change \subseteq Fields /\ \A f \in DOMAIN change : change[f] \in BOOLEAN
<1>1. NoRow \in [{} -> BOOLEAN]
  BY DEF NoRow
<1>2. \A S \in SUBSET Fields : [S -> BOOLEAN] \subseteq Changes
  BY DEF Changes
<1>3. NoRow \in Changes
  BY <1>1, <1>2
<1>4. ASSUME NEW change \in Changes
      PROVE  DOMAIN change \subseteq Fields /\ \A f \in DOMAIN change : change[f] \in BOOLEAN
  <2> PICK S \in SUBSET Fields : change \in [S -> BOOLEAN]
    BY DEF Changes
  <2> QED
    OBVIOUS
<1> QED
  BY <1>2, <1>3, <1>4

LEMMA IdleType ==
  /\ Idle \in RequestTypes
  /\ Idle.pc = "idle" /\ Idle.call = "none" /\ Idle.session = NoSession /\ Idle.since = 0
BY Times, SettingsTypes, ChangeTypes DEF Idle, RequestTypes, Phases, Calls, NoSession

LEMMA HeldPerms == ASSUME NEW roles \in SUBSET Roles PROVE Held(roles) \subseteq Perms
BY ConstantsAssumption DEF Held

LEMMA EffectiveType == ASSUME Types PROVE EffectiveSettings \in Settings
BY SettingsTypes DEF Types, EffectiveSettings

-----------------------------------------------------------------------------
(* What justifies an access *)

LEMMA Justifications ==
  /\ "account" \in Grounds /\ "consent" \in Grounds /\ Perms \subseteq Grounds
  /\ "account" \notin Perms /\ "consent" \notin Perms
  /\ \A perms \in SUBSET Perms : Own(perms) \subseteq Grounds /\ Support(perms) \subseteq Grounds
BY ConstantsAssumption DEF Grounds, Own, Support

LEMMA HoldsNow ==
  /\ Holds("consent") <=> EffectiveSettings[Consent]
  /\ Holds("account") <=> account.active
  /\ \A p \in Perms : Holds(p) <=> p \in Held(account.roles)
<1>1. Holds("consent") <=> EffectiveSettings[Consent]
  BY DEF Holds
<1>2. Holds("account") <=> account.active
  BY DEF Holds
<1>3. ASSUME NEW p \in Perms
      PROVE  Holds(p) <=> p \in Held(account.roles)
  <2>1. p # "consent" /\ p # "account"
    BY Justifications
  <2> QED
    BY <2>1 DEF Holds
<1> QED
  BY <1>1, <1>2, <1>3

\* How long ago: not longer than since a time at which all of it was so.
LEMMA LagIsBounded ==
  ASSUME Types, NEW g \in Grounds, NEW time \in Int, time <= now, HeldSince(g, time)
  PROVE  Lag(g) \in Nat /\ Lag(g) <= now - time
<1>1. until[g] \in Nat /\ until[g] <= now /\ now \in Nat
  BY DEF Types
<1> QED
  BY <1>1 DEF Lag, HeldSince

LEMMA WorstLagIsOne ==
  ASSUME NEW q, NEW bound \in Int,
         \A g \in GroundsOf(q) : Lag(g) \in Nat /\ Lag(g) <= bound
  PROVE  WorstLag(q) \in Nat /\ WorstLag(q) <= bound
<1> DEFINE Lags == {Lag(g) : g \in GroundsOf(q)}
<1>1. \E n \in Lags : \A g \in GroundsOf(q) : Lag(g) <= n
  <2>1. CASE q.session = NoSession
    <3>1. GroundsOf(q) = {"account", q.perm}
      BY <2>1 DEF GroundsOf
    <3>2. Lag("account") \in Nat /\ Lag(q.perm) \in Nat
      BY <3>1
    <3>3. CASE Lag("account") <= Lag(q.perm)
      BY <3>1, <3>2, <3>3
    <3>4. CASE Lag(q.perm) <= Lag("account")
      BY <3>1, <3>2, <3>4
    <3> QED
      BY <3>2, <3>3, <3>4
  <2>2. CASE q.session # NoSession
    <3>1. GroundsOf(q) = {"account", q.perm, "consent"}
      BY <2>2 DEF GroundsOf
    <3>2. Lag("account") \in Nat /\ Lag(q.perm) \in Nat /\ Lag("consent") \in Nat
      BY <3>1
    <3>3. \E h \in GroundsOf(q) : \A g \in GroundsOf(q) : Lag(g) <= Lag(h)
      BY <3>1, <3>2
    <3> QED
      BY <3>3
  <2> QED
    BY <2>1, <2>2
<1>2. WorstLag(q) \in Lags
  BY <1>1 DEF WorstLag
<1> QED
  BY <1>2

-----------------------------------------------------------------------------
(* What a step leaves as it was *)

\* What was so at some time is so as of that time, whatever happens after.
GroundsRemain ==
  \A g \in Grounds, time \in Int :
    time <= now /\ HeldSince(g, time) => HeldSince(g, time)'

\* A session that was made keeps its terms and its end, and what was tried to
\* record its start stays tried.
SessionsGoOn ==
  \A s \in SessionIds :
    /\ session[s].made => session'[s].made /\ session'[s].expiresAt = session[s].expiresAt
    /\ session[s].started # "no" => session'[s].started # "no"
    /\ session[s].endedAt # 0 => session'[s].endedAt = session[s].endedAt
    /\ session[s].endedAt = 0 =>
         session'[s].endedAt = 0 \/ (session'[s].endedAt \in Nat /\ session'[s].endedAt >= now)

LEMMA NothingChanges ==
  ASSUME UNCHANGED <<settings, account, until>>
  PROVE  GroundsRemain
BY DEF GroundsRemain, HeldSince, Holds, EffectiveSettings

LEMMA SessionsStay == ASSUME UNCHANGED session PROVE SessionsGoOn
BY DEF SessionsGoOn

LEMMA AllRemain ==
  ASSUME GroundsRemain, NEW grounds \in SUBSET Grounds, NEW time \in Int, time <= now,
         AllHeldSince(grounds, time)
  PROVE  AllHeldSince(grounds, time)'
BY DEF GroundsRemain, AllHeldSince

LEMMA StandsStill ==
  ASSUME Types, GroundsRemain, SessionsGoOn, NEW perms \in SUBSET Perms,
         NEW s \in {NoSession} \union SessionIds, Stands(s, perms), SessionStands(s)
  PROVE  Stands(s, perms)'
<1>1. s \in SessionIds /\ session[s] \in SessionTypes
  BY DEF Stands, Types
<1> PICK time \in Int : time = session[s].expiresAt - TTL - MaxDelay
  BY <1>1, Times DEF SessionTypes
<1>2. now \in Nat /\ session[s].expiresAt \in Nat /\ session[s].expiresAt <= now + TTL
  BY <1>1 DEF Types, SessionTypes, SessionStands
<1>3. time <= now
  BY <1>2, Times
<1>4. AllHeldSince(Support(perms), time)
  BY DEF Stands
<1>5. AllHeldSince(Support(perms), time)'
  BY <1>3, <1>4, AllRemain, Justifications
<1>6. session'[s].made /\ session'[s].expiresAt = session[s].expiresAt
  BY <1>1 DEF SessionsGoOn, Stands
<1>7. time = session'[s].expiresAt - TTL - MaxDelay
  BY <1>6
<1> QED
  BY <1>5, <1>6, <1>7 DEF Stands, Support

\* A session that has not ended before some time does not end before it later.
LEMMA EndStays ==
  ASSUME Types, SessionsGoOn, NEW s \in SessionIds, NEW time \in Int, time <= now,
         session[s].started # "no", session[s].endedAt # 0 => session[s].endedAt >= time
  PROVE  /\ session'[s].started # "no"
         /\ session'[s].endedAt # 0 => session'[s].endedAt >= time
<1>1. now \in Nat
  BY DEF Types
<1>2. session'[s].started # "no"
  BY DEF SessionsGoOn
<1>3. session[s].endedAt # 0 => session'[s].endedAt = session[s].endedAt
  BY DEF SessionsGoOn
<1>4. session[s].endedAt = 0 =>
        session'[s].endedAt = 0 \/ (session'[s].endedAt \in Nat /\ session'[s].endedAt >= now)
  BY DEF SessionsGoOn
<1> QED
  BY <1>1, <1>2, <1>3, <1>4

\* A request that is as it was relies on what it relied on.
LEMMA StillJustified ==
  ASSUME Types, GroundsRemain, SessionsGoOn, \A s \in SessionIds : SessionStands(s),
         now' \in Nat, now <= now', NEW q \in RequestTypes, Timely(q), Justified(q)
  PROVE  Justified(q)'
<1>1. q.pc \in Phases /\ q.perms \in SUBSET Perms /\ q.since \in Nat /\ now \in Nat
      /\ q.session \in {NoSession} \union SessionIds /\ q.lag \in Nat /\ q.exp \in Nat
  BY DEF RequestTypes, Types
<1> PICK since \in Nat : since = q.since
  BY <1>1
<1>2. q.pc # "idle" => since <= now
  BY DEF Timely
<1> PICK perms \in SUBSET Perms : perms = q.perms
  BY <1>1
<1>3. Own(perms) \subseteq Grounds /\ Support(perms) \subseteq Grounds /\ perms \subseteq Grounds
      /\ "account" \in Grounds /\ "consent" \in Grounds
  BY Justifications
<1>4. ASSUME q.pc = "tenant"
      PROVE  AllHeldSince(q.perms, q.since)' /\ (q.active => HeldSince("account", q.since)')
  <2>1. AllHeldSince(perms, since) /\ (q.active => HeldSince("account", since))
    BY <1>4 DEF Justified
  <2>2. AllHeldSince(perms, since)'
    BY <2>1, <1>2, <1>3, <1>4, AllRemain
  <2>3. q.active => HeldSince("account", since)'
    BY <2>1, <1>2, <1>3, <1>4 DEF GroundsRemain
  <2> QED
    BY <2>2, <2>3
<1>5. ASSUME q.pc = "issue"
      PROVE  AllHeldSince(Own(q.perms), q.since - MaxDelay)'
  <2> PICK time \in Int : time = since - MaxDelay
    BY Times
  <2>1. time <= now
    BY <1>1, <1>2, <1>5, Times
  <2>2. AllHeldSince(Own(perms), time)
    BY <1>5 DEF Justified
  <2> QED
    BY <2>1, <2>2, <1>3, AllRemain
<1>6. ASSUME q.pc = "reads"
      PROVE  /\ q.call = "start"
             /\ "target" \notin q.todo => AllHeldSince(Own(q.perms), q.since)'
             /\ "settings" \notin q.todo => HeldSince("consent", q.since)'
  <2>1. /\ q.call = "start"
        /\ "target" \notin q.todo => AllHeldSince(Own(perms), since)
        /\ "settings" \notin q.todo => HeldSince("consent", since)
    BY <1>6 DEF Justified
  <2>2. "target" \notin q.todo => AllHeldSince(Own(perms), since)'
    BY <2>1, <1>2, <1>3, <1>6, AllRemain
  <2>3. "settings" \notin q.todo => HeldSince("consent", since)'
    BY <2>1, <1>2, <1>3, <1>6 DEF GroundsRemain
  <2> QED
    BY <2>1, <2>2, <2>3
<1>7. ASSUME q.pc = "create"
      PROVE  q.call = "start" /\ AllHeldSince(Support(q.perms), q.since - MaxDelay)'
  <2> PICK time \in Int : time = since - MaxDelay
    BY Times
  <2>1. time <= now
    BY <1>1, <1>2, <1>7, Times
  <2>2. q.call = "start" /\ AllHeldSince(Support(perms), time)
    BY <1>7 DEF Justified
  <2> QED
    BY <2>1, <2>2, <1>3, AllRemain
<1>8. ASSUME q.pc = "record"
      PROVE  /\ q.call \in {"start", "end"} /\ q.session # NoSession
             /\ q.call = "start" => Stands(q.session, q.perms)' /\ q.exp <= now' + TTL
  <2>1. /\ q.call \in {"start", "end"} /\ q.session # NoSession
        /\ q.call = "start" => Stands(q.session, q.perms) /\ q.exp <= now + TTL
    BY <1>8 DEF Justified
  <2>2. q.exp <= now + TTL => q.exp <= now' + TTL
    BY <1>1, Times
  <2> QED
    BY <2>1, <2>2, <1>1, StandsStill
<1>9. ASSUME q.pc = "liveSession"
      PROVE  Stands(q.session, q.perms)' /\ session'[q.session].started # "no"
  <2>1. Stands(q.session, q.perms) /\ session[q.session].started # "no" /\ q.session \in SessionIds
    BY <1>1, <1>9 DEF Justified, Stands
  <2> QED
    BY <2>1, <1>1, StandsStill DEF SessionsGoOn
<1>10. ASSUME q.pc = "activeTenant", q.session = NoSession
       PROVE  q.call = "use" /\ AllHeldSince(Own(q.perms), q.since + 1 - TTL - 2 * MaxDelay)'
  <2> PICK time \in Int : time = since + 1 - TTL - 2 * MaxDelay
    BY Times
  <2>1. time <= now
    BY <1>1, <1>2, <1>10, Times
  <2>2. q.call = "use" /\ AllHeldSince(Own(perms), time)
    BY <1>10 DEF Justified
  <2> QED
    BY <2>1, <2>2, <1>3, AllRemain
<1>11. ASSUME q.pc = "activeTenant", q.session # NoSession
       PROVE  /\ session'[q.session].started # "no"
              /\ AllHeldSince(Support(q.perms), q.since + 1 - TTL - MaxDelay)'
              /\ session'[q.session].endedAt # 0 => session'[q.session].endedAt >= q.since
  <2> PICK time \in Int : time = since + 1 - TTL - MaxDelay
    BY Times
  <2>1. time <= now
    BY <1>1, <1>2, <1>11, Times
  <2>2. /\ session[q.session].started # "no" /\ AllHeldSince(Support(perms), time)
        /\ session[q.session].endedAt # 0 => session[q.session].endedAt >= since
    BY <1>11 DEF Justified
  <2>3. AllHeldSince(Support(perms), time)'
    BY <2>1, <2>2, <1>3, AllRemain
  <2>4. /\ session'[q.session].started # "no"
        /\ session'[q.session].endedAt # 0 => session'[q.session].endedAt >= since
    BY <2>2, <1>1, <1>2, <1>11, EndStays
  <2> QED
    BY <2>3, <2>4
<1>12. ASSUME q.pc = "handle"
       PROVE  /\ q.lag < TTL + (IF q.session = NoSession THEN 3 ELSE 2) * MaxDelay
              /\ q.session # NoSession =>
                   /\ session'[q.session].started # "no"
                   /\ session'[q.session].endedAt # 0 =>
                        session'[q.session].endedAt >= q.since - MaxDelay
  <2> PICK time \in Int : time = since - MaxDelay
    BY Times
  <2>1. time <= now
    BY <1>1, <1>2, <1>12, Times
  <2>2. q.session # NoSession =>
          session[q.session].started # "no"
          /\ (session[q.session].endedAt # 0 => session[q.session].endedAt >= time)
    BY <1>12 DEF Justified
  <2>3. q.session # NoSession =>
          session'[q.session].started # "no"
          /\ (session'[q.session].endedAt # 0 => session'[q.session].endedAt >= time)
    BY <2>1, <2>2, <1>1, EndStays
  <2> QED
    BY <2>3, <1>12 DEF Justified
<1>13. q.pc = "activeTenant" =>
         IF q.session = NoSession
           THEN q.call = "use" /\ AllHeldSince(Own(q.perms), q.since + 1 - TTL - 2 * MaxDelay)'
           ELSE /\ session'[q.session].started # "no"
                /\ AllHeldSince(Support(q.perms), q.since + 1 - TTL - MaxDelay)'
                /\ session'[q.session].endedAt # 0 => session'[q.session].endedAt >= q.since
  BY <1>10, <1>11
<1>14. q.pc = "end" => q.call = "end" /\ q.session # NoSession
  BY DEF Justified
<1> QED
  BY <1>4, <1>5, <1>6, <1>7, <1>8, <1>9, <1>12, <1>13, <1>14 DEF Justified

LEMMA TokenStillStands ==
  ASSUME Types, GroundsRemain, SessionsGoOn, \A s \in SessionIds : SessionStands(s),
         now' \in Nat, now <= now', NEW t \in Tokens, TokenStands(t)
  PROVE  TokenStands(t)'
<1>1. t.session \in {NoSession} \union SessionIds /\ t.perms \in SUBSET Perms /\ t.exp \in Nat
      /\ now \in Nat
  BY DEF Tokens, Types
<1>2. t.exp <= now' + TTL
  BY <1>1, Times DEF TokenStands
<1>3. CASE t.session = NoSession
  <2> PICK time \in Int : time = t.exp - TTL - 2 * MaxDelay
    BY <1>1, Times
  <2> PICK perms \in SUBSET Perms : perms = t.perms
    BY <1>1
  <2>1. time <= now
    BY <1>1, Times DEF TokenStands
  <2>2. AllHeldSince(Own(perms), time)
    BY <1>3 DEF TokenStands
  <2>3. AllHeldSince(Own(perms), time)'
    BY <2>1, <2>2, Justifications, AllRemain
  <2> QED
    BY <2>3, <1>2, <1>3 DEF TokenStands
<1>4. CASE t.session # NoSession
  <2>1. Stands(t.session, t.perms) /\ session[t.session].started # "no"
    BY <1>4 DEF TokenStands
  <2>2. Stands(t.session, t.perms)' /\ session'[t.session].started # "no"
    BY <2>1, <1>1, <1>4, StandsStill DEF SessionsGoOn
  <2> QED
    BY <2>2, <1>2, <1>4 DEF TokenStands
<1> QED
  BY <1>3, <1>4

\* A request takes a step: the others are as they were, and so are the tokens.
LEMMA StepKeeps ==
  ASSUME AccessInv, NEW r \in Requests, NEW q \in RequestTypes,
         req' = [req EXCEPT ![r] = q], Types', now' = now, GroundsRemain, SessionsGoOn,
         Timely(q), Justified(q)', \A t \in tokens' : t \in tokens \/ TokenStands(t)',
         \A s \in SessionIds : SessionStands(s)', EndsAreRecorded'
  PROVE  AccessInv'
<1>1. Types /\ now \in Nat /\ req \in [Requests -> RequestTypes] /\ tokens \subseteq Tokens
      /\ \A s \in SessionIds : SessionStands(s)
  BY DEF AccessInv, Types
<1>2. ASSUME NEW s \in Requests
      PROVE  Timely(req[s])' /\ Justified(req[s])'
  <2>1. CASE s = r
    <3>1. req'[s] = q
      BY <2>1, <1>1
    <3> QED
      BY <3>1 DEF Timely, Justified
  <2>2. CASE s # r
    <3> PICK p \in RequestTypes : p = req[s]
      BY <1>1
    <3>1. req'[s] = p /\ Timely(p) /\ Justified(p)
      BY <2>2, <1>1 DEF AccessInv
    <3>2. Justified(p)'
      BY <3>1, <1>1, StillJustified
    <3> QED
      BY <3>1, <3>2 DEF Timely, Justified
  <2> QED
    BY <2>1, <2>2
<1>3. \A t \in tokens' : TokenStands(t)'
  BY <1>1, TokenStillStands DEF AccessInv
<1> QED
  BY <1>2, <1>3 DEF AccessInv

\* A request that does not record an end takes a step.
LEMMA NoEndKeeps ==
  ASSUME AccessInv, NEW r \in Requests, NEW q \in RequestTypes,
         req' = [req EXCEPT ![r] = q], q.pc = "record" => q.call # "end", SessionsGoOn,
         \A s \in SessionIds : session'[s].ends = session[s].ends
  PROVE  EndsAreRecorded'
<1>1. req \in [Requests -> RequestTypes]
  BY DEF AccessInv, Types
<1>2. ASSUME NEW s \in Requests, RecordsEnd(s)'
      PROVE  RecordsEnd(s) /\ req'[s].session = req[s].session
             /\ session'[req'[s].session].endedAt # 0 /\ session'[req'[s].session].ends = 0
  <2>1. s # r /\ req'[s] = req[s]
    BY <1>1, <1>2 DEF RecordsEnd
  <2>2. RecordsEnd(s)
    BY <2>1, <1>2 DEF RecordsEnd
  <2>3. session[req[s].session].endedAt # 0 /\ session[req[s].session].ends = 0
        /\ req[s].session # NoSession
    BY <2>2 DEF AccessInv, EndsAreRecorded, Justified, RecordsEnd
  <2>4. req[s].session \in SessionIds
    BY <2>3, <1>1 DEF RequestTypes
  <2> QED
    BY <2>1, <2>2, <2>3, <2>4 DEF SessionsGoOn
<1> QED
  BY <1>2 DEF EndsAreRecorded, AccessInv

LEMMA SessionStandsStill ==
  ASSUME UNCHANGED <<now, session>>, NEW s, SessionStands(s)
  PROVE  SessionStands(s)'
BY DEF SessionStands

Unmoved == UNCHANGED <<now, rows>>

\* A request takes a step that changes no row.
LEMMA QuietKeeps ==
  ASSUME AccessInv, NEW r \in Requests, NEW q \in RequestTypes,
         req' = [req EXCEPT ![r] = q], Unmoved, OneOfWorlds', world'.time = world.time,
         page' \in PageTypes, Timely(q), Justified(q), q.pc = "record" => q.call # "end"
  PROVE  AccessInv'
<1>1. UNCHANGED <<now, tenant, settings, account, session, tokens, until, last>>
  BY DEF Unmoved, rows
<1>2. Types
  BY DEF AccessInv
<1>3. GroundsRemain /\ SessionsGoOn
  BY <1>1, NothingChanges, SessionsStay
<1>4. Types'
  <2>1. req' \in [Requests -> RequestTypes]
    BY <1>2 DEF Types
  <2> QED
    BY <2>1, <1>1, <1>2 DEF Types
<1>5. Justified(q)'
  <2>1. now' \in Nat /\ now <= now'
    BY <1>1, <1>2 DEF Types
  <2> QED
    BY <2>1, <1>2, <1>3, StillJustified DEF AccessInv
<1>6. \A s \in SessionIds : SessionStands(s)'
  BY <1>1, SessionStandsStill DEF AccessInv
<1>7. EndsAreRecorded'
  BY <1>1, <1>3, NoEndKeeps
<1> QED
  BY <1>1, <1>3, <1>4, <1>5, <1>6, <1>7, StepKeeps

LEMMA IdleIsJustified == ASSUME Types PROVE Timely(Idle) /\ Justified(Idle)
BY IdleType DEF Timely, Justified, Types

LEMMA AnswerKeeps ==
  ASSUME AccessInv, NEW r \in Requests, Answer(r), Unmoved, UNCHANGED world, page' \in PageTypes
  PROVE  AccessInv'
<1>1. OneOfWorlds' /\ world'.time = world.time
  BY WorldStays DEF AccessInv, Types
<1>2. req' = [req EXCEPT ![r] = Idle]
  BY DEF Answer
<1>3. Timely(Idle) /\ Justified(Idle)
  BY IdleIsJustified DEF AccessInv
<1> QED
  BY <1>1, <1>2, <1>3, IdleType, QuietKeeps

\* A request sends a statement that reads, or is answered.
LEMMA SendKeeps ==
  ASSUME AccessInv, NEW r \in Requests, NEW q \in RequestTypes, Send(r, q), Unmoved,
         UNCHANGED world, page' \in PageTypes, q.pc # "record",
         Justified([q EXCEPT !.since = now])
  PROVE  AccessInv'
<1>1. OneOfWorlds' /\ world'.time = world.time
  BY WorldStays DEF AccessInv, Types
<1>2. now \in Nat
  BY DEF AccessInv, Types
<1> PICK p \in RequestTypes : p = [q EXCEPT !.since = now]
  BY <1>2 DEF RequestTypes
<1>3. p.since = now /\ p.pc = q.pc
  BY DEF RequestTypes
<1>4. Timely(p)
  BY <1>2, <1>3, Times DEF Timely
<1>5. req' = [req EXCEPT ![r] = p] /\ Justified(p)
  BY DEF Send
<1> QED
  BY <1>1, <1>3, <1>4, <1>5, QuietKeeps

\* A call arrives.
LEMMA BeginKeeps ==
  ASSUME AccessInv, NEW r \in Requests, NEW call \in Calls, NEW q \in RequestTypes,
         Begin(r, call, q), page' \in PageTypes, q.pc # "record",
         Justified([q EXCEPT !.call = call, !.since = now])
  PROVE  AccessInv'
<1>1. OneOfWorlds' /\ world'.time = world.time
  BY ArrivalsKeepTheWorld DEF AccessInv, Types, Begin, Arrives
<1>2. now \in Nat
  BY DEF AccessInv, Types
<1> PICK p \in RequestTypes : p = [q EXCEPT !.call = call, !.since = now]
  BY <1>2 DEF RequestTypes
<1>3. p.since = now /\ p.pc = q.pc
  BY DEF RequestTypes
<1>4. Timely(p)
  BY <1>2, <1>3, Times DEF Timely
<1>5. req' = [req EXCEPT ![r] = p] /\ Justified(p) /\ Unmoved
  BY DEF Begin, Unmoved
<1> QED
  BY <1>1, <1>3, <1>4, <1>5, QuietKeeps

-----------------------------------------------------------------------------
(* Calls *)

\* What was so at some time was so at an earlier one, or later.
LEMMA Earlier ==
  ASSUME Types, NEW grounds \in SUBSET Grounds, NEW time \in Int, NEW before \in Int,
         before <= time, AllHeldSince(grounds, time)
  PROVE  AllHeldSince(grounds, before)
<1>1. \A g \in Grounds : until[g] \in Nat
  BY DEF Types
<1> QED
  BY <1>1 DEF AllHeldSince, HeldSince

LEMMA CallIs ==
  {"login", "refresh", "start", "end", "use", "patch", "page", "updateUser"} \subseteq Calls
BY DEF Calls

LEMMA PageStays == ASSUME AccessInv, UNCHANGED page PROVE page' \in PageTypes
BY DEF AccessInv, Types

LEMMA SignInKeeps ==
  ASSUME AccessInv, NEW r \in Requests, Login(r) \/ Refresh(r)
  PROVE  AccessInv'
<1> PICK call \in Calls : Begin(r, call, [Idle EXCEPT !.pc = "actor"]) /\ UNCHANGED page
  BY CallIs DEF Login, Refresh
<1> PICK q \in RequestTypes : q = [Idle EXCEPT !.pc = "actor"]
  BY IdleType DEF RequestTypes, Phases
<1>1. q.pc = "actor"
  BY IdleType DEF RequestTypes
<1>2. [q EXCEPT !.call = call, !.since = now].pc = "actor"
  BY <1>1 DEF RequestTypes
<1>3. Justified([q EXCEPT !.call = call, !.since = now])
  BY <1>2 DEF Justified
<1> QED
  BY <1>1, <1>3, PageStays, BeginKeeps

LEMMA StartImpersonationKeeps ==
  ASSUME AccessInv, NEW r \in Requests, StartImpersonation(r)
  PROVE  AccessInv'
<1> PICK q \in RequestTypes :
      q = [Idle EXCEPT !.pc = "reads", !.todo = {"target", "tenant", "settings"}]
  BY IdleType DEF RequestTypes, Phases, Reads
<1>1. q.pc = "reads" /\ q.todo = {"target", "tenant", "settings"}
  BY IdleType DEF RequestTypes
<1> PICK p : p = [q EXCEPT !.call = "start", !.since = now]
  OBVIOUS
<1>2. p.pc = "reads" /\ p.todo = {"target", "tenant", "settings"} /\ p.call = "start"
  BY <1>1 DEF RequestTypes
<1>3. Justified(p)
  BY <1>2 DEF Justified
<1>4. Begin(r, "start", q) /\ UNCHANGED page
  BY DEF StartImpersonation
<1> QED
  BY <1>1, <1>3, <1>4, CallIs, PageStays, BeginKeeps

\* A token that is presented in time shows what was so within its life.
LEMMA TokenIsFresh ==
  ASSUME AccessInv, NEW t \in tokens, now < t.exp
  PROVE  /\ t \in Tokens
         /\ t.session = NoSession =>
              AllHeldSince(Own(t.perms), now + 1 - TTL - 2 * MaxDelay)
         /\ t.session # NoSession => Stands(t.session, t.perms) /\ session[t.session].started # "no"
<1>1. t \in Tokens /\ TokenStands(t) /\ Types
  BY DEF AccessInv, Types
<1>2. t.exp \in Nat /\ now \in Nat /\ t.perms \in SUBSET Perms
  BY <1>1 DEF Tokens, Types
<1>3. ASSUME t.session = NoSession
      PROVE  AllHeldSince(Own(t.perms), now + 1 - TTL - 2 * MaxDelay)
  <2> PICK time \in Int, before \in Int :
        time = t.exp - TTL - 2 * MaxDelay /\ before = now + 1 - TTL - 2 * MaxDelay
    BY <1>2, Times
  <2> PICK perms \in SUBSET Perms : perms = t.perms
    BY <1>2
  <2>1. before <= time
    BY <1>2, Times
  <2>2. AllHeldSince(Own(perms), time)
    BY <1>1, <1>3 DEF TokenStands
  <2> QED
    BY <1>1, <2>1, <2>2, Earlier, Justifications
<1> QED
  BY <1>1, <1>3 DEF TokenStands

LEMMA PresentKeeps ==
  ASSUME AccessInv, NEW r \in Requests, NEW call \in {"use", "end"}, NEW t \in tokens,
         NEW perm \in Perms \union {"none"}, call = "end" => t.session # NoSession,
         Present(r, call, t, perm)
  PROVE  AccessInv'
<1>1. /\ t \in Tokens
      /\ t.session = NoSession => AllHeldSince(Own(t.perms), now + 1 - TTL - 2 * MaxDelay)
      /\ t.session # NoSession => Stands(t.session, t.perms) /\ session[t.session].started # "no"
  BY TokenIsFresh DEF Present
<1> PICK pc \in {"activeTenant", "liveSession"} :
      pc = IF t.session = NoSession THEN "activeTenant" ELSE "liveSession"
  OBVIOUS
<1> PICK q \in RequestTypes :
      q = [Idle EXCEPT !.pc = pc, !.session = t.session, !.perms = t.perms, !.perm = perm]
  BY <1>1, IdleType DEF RequestTypes, Phases, Tokens
<1>2. q.pc = pc /\ q.session = t.session /\ q.perms = t.perms
  BY IdleType DEF RequestTypes
<1> PICK p : p = [q EXCEPT !.call = call, !.since = now]
  OBVIOUS
<1>3. p.pc = pc /\ p.session = t.session /\ p.perms = t.perms /\ p.call = call /\ p.since = now
  BY <1>2 DEF RequestTypes
<1>4. Justified(p)
  <2>1. CASE t.session = NoSession
    BY <2>1, <1>1, <1>3 DEF Justified
  <2>2. CASE t.session # NoSession
    BY <2>2, <1>1, <1>3 DEF Justified
  <2> QED
    BY <2>1, <2>2
<1>5. Begin(r, call, q) /\ UNCHANGED page
  BY DEF Present
<1> QED
  BY <1>2, <1>4, <1>5, CallIs, PageStays, BeginKeeps

LEMMA TokenCallKeeps ==
  ASSUME AccessInv, NEW r \in Requests, UseToken(r) \/ Exit(r)
  PROVE  AccessInv'
<1>1. CASE UseToken(r)
  BY <1>1, PresentKeeps DEF UseToken
<1>2. CASE Exit(r)
  BY <1>2, PresentKeeps DEF Exit
<1> QED
  BY <1>1, <1>2

\* A call that is about settings or roles relies on nothing.
OfSettings == {"before", "find", "write", "saved", "failed", "load", "loaded",
               "resolveRole", "readRoles", "setRoles"}

LEMMA SettingsCallKeeps ==
  ASSUME AccessInv, NEW r \in Requests, NEW call \in Calls, NEW q \in RequestTypes,
         q.pc \in OfSettings, page' \in PageTypes, Begin(r, call, q)
  PROVE  AccessInv'
<1> PICK p : p = [q EXCEPT !.call = call, !.since = now]
  OBVIOUS
<1>1. p.pc = q.pc
  BY DEF RequestTypes
<1>2. Justified(p)
  BY <1>1 DEF Justified, OfSettings
<1> QED
  BY <1>2, BeginKeeps DEF OfSettings

LEMMA UpdateCallKeeps ==
  ASSUME AccessInv, NEW r \in Requests,
         UpdateSettings(r) \/ OpenPage(r) \/ SubmitPage(r) \/ UpdateUser(r)
  PROVE  AccessInv'
<1>1. page \in PageTypes /\ world.named \subseteq Fields
  BY WorldFacts DEF AccessInv, Types
<1>2. CASE UpdateSettings(r)
  <2> PICK S \in SUBSET world.named : \E change \in [S -> BOOLEAN] :
        Begin(r, "patch", [Idle EXCEPT !.pc = "before", !.change = change])
    BY <1>2 DEF UpdateSettings
  <2> PICK change \in [S -> BOOLEAN] :
        Begin(r, "patch", [Idle EXCEPT !.pc = "before", !.change = change])
    OBVIOUS
  <2>1. change \in Changes
    BY <1>1, ChangeTypes
  <2> PICK q \in RequestTypes : q = [Idle EXCEPT !.pc = "before", !.change = change]
    BY <2>1, IdleType DEF RequestTypes, Phases
  <2>2. q.pc = "before"
    BY IdleType DEF RequestTypes
  <2>3. page' \in PageTypes
    BY <1>1, <1>2 DEF UpdateSettings
  <2> QED
    BY <2>2, <2>3, CallIs, SettingsCallKeeps DEF OfSettings
<1>3. CASE OpenPage(r)
  <2>1. page' \in PageTypes
    BY <1>1, <1>3 DEF OpenPage, PageTypes
  <2> PICK q \in RequestTypes : q = [Idle EXCEPT !.pc = "load"]
    BY IdleType DEF RequestTypes, Phases
  <2>2. q.pc = "load"
    BY IdleType DEF RequestTypes
  <2>3. Begin(r, "page", q)
    BY <1>3 DEF OpenPage
  <2> QED
    BY <2>1, <2>2, <2>3, CallIs, SettingsCallKeeps DEF OfSettings
<1>4. CASE SubmitPage(r)
  <2>1. page' \in PageTypes
    BY <1>1, <1>4 DEF SubmitPage, PageTypes
  <2>2. page.draft \in Changes
    BY <1>1, ChangeTypes, SettingsTypes DEF PageTypes
  <2> PICK q \in RequestTypes : q = [Idle EXCEPT !.pc = "before", !.change = page.draft]
    BY <2>2, IdleType DEF RequestTypes, Phases
  <2>3. q.pc = "before"
    BY IdleType DEF RequestTypes
  <2>4. Begin(r, "page", q)
    BY <1>4 DEF SubmitPage
  <2> QED
    BY <2>1, <2>3, <2>4, CallIs, SettingsCallKeeps DEF OfSettings
<1>5. CASE UpdateUser(r)
  <2> PICK next \in {{}} \union {{x} : x \in Roles} :
        Begin(r, "updateUser", [Idle EXCEPT !.pc = "resolveRole", !.roles = next])
    BY <1>5 DEF UpdateUser
  <2>1. next \in SUBSET Roles /\ page' \in PageTypes
    BY <1>1, <1>5 DEF UpdateUser
  <2> PICK q \in RequestTypes : q = [Idle EXCEPT !.pc = "resolveRole", !.roles = next]
    BY <2>1, IdleType DEF RequestTypes, Phases
  <2>2. q.pc = "resolveRole"
    BY IdleType DEF RequestTypes
  <2> QED
    BY <2>1, <2>2, CallIs, SettingsCallKeeps DEF OfSettings
<1> QED
  BY <1>2, <1>3, <1>4, <1>5

-----------------------------------------------------------------------------
(* Statements that read *)

LEMMA Underway ==
  ASSUME AccessInv, NEW r \in Requests, req[r].pc # "idle"
  PROVE  /\ req[r] \in RequestTypes /\ Types
         /\ req[r].since \in Nat /\ now \in Nat
         /\ req[r].since <= now /\ now <= req[r].since + MaxDelay
         /\ Justified(req[r])
BY DEF AccessInv, Types, Timely, RequestTypes

LEMMA AtUnmoved ==
  ASSUME NEW r, NEW pc, At(r, pc), UNCHANGED rows, AccessInv
  PROVE  Unmoved /\ UNCHANGED world /\ page' \in PageTypes /\ req[r].pc = pc
BY PageStays DEF At, Unmoved

LEMMA SettingsStepKeeps ==
  ASSUME AccessInv, NEW r \in Requests, NEW q \in RequestTypes, q.pc \in OfSettings,
         Send(r, q), Unmoved, UNCHANGED world, page' \in PageTypes
  PROVE  AccessInv'
<1> PICK p : p = [q EXCEPT !.since = now]
  OBVIOUS
<1>1. p.pc = q.pc
  BY DEF RequestTypes
<1>2. Justified(p)
  BY <1>1 DEF Justified, OfSettings
<1> QED
  BY <1>2, SendKeeps DEF OfSettings

LEMMA SnapshotKeeps ==
  ASSUME AccessInv, NEW r \in Requests,
         ResolveTenantActor(r) \/ ResolveActorByAuthAccountId(r)
  PROVE  AccessInv'
<1>1. At(r, "actor") /\ Send(r, Snapshot(req[r])) /\ UNCHANGED rows
  BY DEF ResolveTenantActor, ResolveActorByAuthAccountId
<1>2. Unmoved /\ UNCHANGED world /\ page' \in PageTypes /\ req[r].pc = "actor"
  BY <1>1, AtUnmoved
<1>3. req[r] \in RequestTypes /\ Types /\ account.active \in BOOLEAN
      /\ Held(account.roles) \subseteq Perms
  BY <1>2, Underway, HeldPerms DEF Types
<1> PICK q \in RequestTypes : q = Snapshot(req[r])
  BY <1>3 DEF RequestTypes, Phases, Snapshot
<1>4. q.pc = "tenant" /\ q.perms = Held(account.roles) /\ q.active = account.active
  BY <1>3 DEF RequestTypes, Snapshot
<1> PICK p : p = [q EXCEPT !.since = now]
  OBVIOUS
<1>5. /\ p.pc = "tenant" /\ p.perms = Held(account.roles) /\ p.active = account.active
      /\ p.since = now
  BY <1>4 DEF RequestTypes
<1>6. AllHeldSince(p.perms, now) /\ (p.active => HeldSince("account", now))
  BY <1>3, <1>5, HoldsNow DEF AllHeldSince, HeldSince
<1>7. Justified(p)
  BY <1>5, <1>6 DEF Justified
<1> QED
  BY <1>1, <1>2, <1>4, <1>7, SendKeeps

LEMMA IsTenantActiveKeeps ==
  ASSUME AccessInv, NEW r \in Requests, IsTenantActive(r)
  PROVE  AccessInv'
<1>1. Unmoved /\ UNCHANGED world /\ page' \in PageTypes /\ req[r].pc = "tenant"
  BY AtUnmoved DEF IsTenantActive
<1>2. CASE ~(tenant /\ req[r].active)
  <2>1. Answer(r)
    BY <1>2 DEF IsTenantActive, Require
  <2> QED
    BY <2>1, <1>1, AnswerKeeps
<1>3. CASE tenant /\ req[r].active
  <2>1. /\ req[r] \in RequestTypes /\ Types /\ req[r].since \in Nat /\ now \in Nat
        /\ now <= req[r].since + MaxDelay /\ Justified(req[r])
    BY <1>1, Underway
  <2> PICK q \in RequestTypes : q = [req[r] EXCEPT !.pc = "issue"]
    BY <2>1 DEF RequestTypes, Phases
  <2>2. q.pc = "issue" /\ q.perms = req[r].perms /\ req[r].perms \in SUBSET Perms
    BY <2>1 DEF RequestTypes
  <2> PICK p : p = [q EXCEPT !.since = now]
    OBVIOUS
  <2>3. p.pc = "issue" /\ p.perms = req[r].perms /\ p.since = now
    BY <2>2 DEF RequestTypes
  <2> PICK before \in Int : before = now - MaxDelay
    BY <2>1, Times
  <2> PICK grounds \in SUBSET Grounds : grounds = Own(req[r].perms)
    BY <2>2, Justifications
  <2>4. AllHeldSince(grounds, req[r].since)
    BY <1>1, <1>3, <2>1 DEF Justified, AllHeldSince, Own
  <2>5. before <= req[r].since
    BY <2>1, Times
  <2>6. AllHeldSince(Own(p.perms), p.since - MaxDelay)
    BY <2>1, <2>3, <2>4, <2>5, Earlier
  <2>7. Justified(p)
    BY <2>3, <2>6 DEF Justified
  <2>8. Send(r, q)
    BY <1>3 DEF IsTenantActive, Require
  <2> QED
    BY <1>1, <2>2, <2>7, <2>8, SendKeeps
<1> QED
  BY <1>2, <1>3

\* One of the three reads of a start: what it has read was so while it waited.
LEMMA HasReadKeeps ==
  ASSUME AccessInv, NEW r \in Requests, NEW what \in Reads, NEW condition,
         NEW perms \in SUBSET Perms,
         HasRead(r, what, condition, [req[r] EXCEPT !.perms = perms]),
         what # "target" => perms = req[r].perms,
         condition /\ what = "target" => \A g \in Own(perms) : Holds(g),
         condition /\ what = "settings" => Holds("consent")
  PROVE  AccessInv'
<1>1. Unmoved /\ UNCHANGED world /\ page' \in PageTypes /\ req[r].pc = "reads"
      /\ what \in req[r].todo
  BY AtUnmoved DEF HasRead
<1>2. /\ req[r] \in RequestTypes /\ Types /\ req[r].since \in Nat /\ now \in Nat
      /\ req[r].since <= now /\ now <= req[r].since + MaxDelay /\ Justified(req[r])
  BY <1>1, Underway
<1>3. req[r].call = "start" /\ req[r].perms \in SUBSET Perms
  BY <1>1, <1>2 DEF Justified, RequestTypes
<1>4. CASE ~condition
  <2>1. Answer(r)
    BY <1>4 DEF HasRead
  <2> QED
    BY <2>1, <1>1, AnswerKeeps
<1> PICK since \in Nat : since = req[r].since
  BY <1>2
\* What has been read, this time included, has been so since it waits.
<1>5. ASSUME condition
      PROVE  /\ "target" \notin req[r].todo \ {what} => AllHeldSince(Own(perms), since)
             /\ "settings" \notin req[r].todo \ {what} => HeldSince("consent", since)
  <2>1. /\ "target" \notin req[r].todo => AllHeldSince(Own(req[r].perms), since)
        /\ "settings" \notin req[r].todo => HeldSince("consent", since)
    BY <1>1, <1>2 DEF Justified
  <2>2. "target" \notin req[r].todo \ {what} => AllHeldSince(Own(perms), since)
    BY <2>1, <1>1, <1>5 DEF AllHeldSince, HeldSince
  <2>3. "settings" \notin req[r].todo \ {what} => HeldSince("consent", since)
    BY <2>1, <1>5 DEF HeldSince
  <2> QED
    BY <2>2, <2>3
<1>6. CASE condition /\ req[r].todo = {what}
  <2> PICK q \in RequestTypes : q = [req[r] EXCEPT !.perms = perms, !.todo = {}, !.pc = "create"]
    BY <1>2 DEF RequestTypes, Phases
  <2>1. q.pc = "create" /\ q.perms = perms /\ q.call = "start"
    BY <1>2, <1>3 DEF RequestTypes
  <2> PICK p : p = [q EXCEPT !.since = now]
    OBVIOUS
  <2>2. p.pc = "create" /\ p.perms = perms /\ p.call = "start" /\ p.since = now
    BY <2>1 DEF RequestTypes
  <2>3. AllHeldSince(Support(perms), since)
    BY <1>5, <1>6 DEF AllHeldSince, Own, Support
  <2> PICK before \in Int : before = now - MaxDelay
    BY <1>2, Times
  <2>4. before <= since
    BY <1>2, Times
  <2>5. AllHeldSince(Support(p.perms), p.since - MaxDelay)
    BY <1>2, <2>2, <2>3, <2>4, Justifications, Earlier
  <2>6. Justified(p)
    BY <2>2, <2>5 DEF Justified
  <2>7. Send(r, q)
    BY <1>6 DEF HasRead
  <2> QED
    BY <1>1, <2>1, <2>6, <2>7, SendKeeps
<1>7. CASE condition /\ req[r].todo # {what}
  <2> PICK q \in RequestTypes : q = [req[r] EXCEPT !.perms = perms, !.todo = @ \ {what}]
    BY <1>2 DEF RequestTypes
  <2>1. /\ q.pc = "reads" /\ q.perms = perms /\ q.call = "start" /\ q.since = since
        /\ q.todo = req[r].todo \ {what}
    BY <1>1, <1>2, <1>3 DEF RequestTypes
  <2>2. Justified(q)
    BY <2>1, <1>5, <1>7 DEF Justified
  <2>3. Timely(q)
    BY <2>1, <1>2 DEF Timely
  <2>4. req' = [req EXCEPT ![r] = q]
    BY <1>7 DEF HasRead
  <2>5. OneOfWorlds' /\ world'.time = world.time
    BY <1>1, <1>2, WorldStays DEF Types
  <2> QED
    BY <1>1, <2>1, <2>2, <2>3, <2>4, <2>5, QuietKeeps
<1> QED
  BY <1>4, <1>6, <1>7

LEMMA SamePerms ==
  ASSUME NEW q \in RequestTypes PROVE q = [q EXCEPT !.perms = q.perms] /\ q.perms \in SUBSET Perms
BY DEF RequestTypes

LEMMA StartReadKeeps ==
  ASSUME AccessInv, NEW r \in Requests, FindTarget(r) \/ FindActiveTenant(r) \/ FindConsent(r)
  PROVE  AccessInv'
<1>1. req[r] \in RequestTypes /\ Types
  BY DEF AccessInv, Types
<1>2. CASE FindTarget(r)
  <2> PICK perms \in SUBSET Perms : perms = Held(account.roles)
    BY <1>1, HeldPerms DEF Types
  <2>1. HasRead(r, "target", account.active, [req[r] EXCEPT !.perms = perms])
    BY <1>2 DEF FindTarget
  <2>2. account.active => \A g \in Own(perms) : Holds(g)
    BY HoldsNow DEF Own
  <2> QED
    BY <2>1, <2>2, HasReadKeeps DEF Reads
<1>3. CASE FindActiveTenant(r)
  <2>1. HasRead(r, "tenant", tenant, [req[r] EXCEPT !.perms = req[r].perms])
    BY <1>1, <1>3, SamePerms DEF FindActiveTenant
  <2> QED
    BY <2>1, <1>1, SamePerms, HasReadKeeps DEF Reads
<1>4. CASE FindConsent(r)
  <2> PICK agreed : agreed = (settings # NoRow /\ settings[Consent])
    OBVIOUS
  <2>1. HasRead(r, "settings", agreed, [req[r] EXCEPT !.perms = req[r].perms])
    BY <1>1, <1>4, SamePerms DEF FindConsent
  <2>2. agreed => Holds("consent")
    BY HoldsNow DEF EffectiveSettings
  <2> QED
    BY <2>1, <2>2, <1>1, SamePerms, HasReadKeeps DEF Reads
<1> QED
  BY <1>2, <1>3, <1>4

-----------------------------------------------------------------------------
(* The guards *)

LEMMA AssertValidImpersonationKeeps ==
  ASSUME AccessInv, NEW r \in Requests, AssertValidImpersonation(r)
  PROVE  AccessInv'
<1>1. Unmoved /\ UNCHANGED world /\ page' \in PageTypes /\ req[r].pc = "liveSession"
  BY AtUnmoved DEF AssertValidImpersonation
<1>2. /\ req[r] \in RequestTypes /\ Types /\ req[r].since \in Nat /\ now \in Nat
      /\ now <= req[r].since + MaxDelay /\ Justified(req[r])
  BY <1>1, Underway
<1> PICK s : s = req[r].session
  OBVIOUS
<1> PICK perms \in SUBSET Perms : perms = req[r].perms
  BY <1>2 DEF RequestTypes
<1>3. /\ s \in SessionIds /\ s # NoSession /\ session[s].started # "no"
      /\ AllHeldSince(Support(perms), session[s].expiresAt - TTL - MaxDelay)
      /\ session[s].expiresAt \in Nat
  BY <1>1, <1>2 DEF Justified, Stands, RequestTypes, Types, SessionTypes
<1>4. CASE ~(session[s].endedAt = 0 /\ session[s].expiresAt > now)
  <2>1. Answer(r)
    BY <1>4 DEF AssertValidImpersonation, Require
  <2> QED
    BY <2>1, <1>1, AnswerKeeps
<1>5. CASE session[s].endedAt = 0 /\ session[s].expiresAt > now
  <2> PICK q \in RequestTypes : q = [req[r] EXCEPT !.pc = "activeTenant"]
    BY <1>2 DEF RequestTypes, Phases
  <2>1. q.pc = "activeTenant" /\ q.session = s /\ q.perms = perms
    BY <1>2 DEF RequestTypes
  <2> PICK p : p = [q EXCEPT !.since = now]
    OBVIOUS
  <2>2. p.pc = "activeTenant" /\ p.session = s /\ p.perms = perms /\ p.since = now
    BY <2>1 DEF RequestTypes
  <2> PICK time \in Int, before \in Int :
        time = session[s].expiresAt - TTL - MaxDelay /\ before = now + 1 - TTL - MaxDelay
    BY <1>2, <1>3, Times
  <2>3. before <= time
    BY <1>2, <1>3, <1>5, Times
  <2>4. AllHeldSince(Support(perms), before)
    BY <1>2, <1>3, <2>3, Justifications, Earlier
  <2>5. Justified(p)
    BY <1>3, <1>5, <2>2, <2>4 DEF Justified
  <2>6. Send(r, q)
    BY <1>5 DEF AssertValidImpersonation, Require
  <2> QED
    BY <1>1, <2>1, <2>5, <2>6, SendKeeps
<1> QED
  BY <1>4, <1>5

\* The lag of a request that is let in.
LEMMA LagOfToken ==
  ASSUME AccessInv, NEW r \in Requests, req[r].pc = "activeTenant", req[r].perm \in req[r].perms
  PROVE  /\ WorstLag(req[r]) \in Nat
         /\ WorstLag(req[r]) < TTL + (IF req[r].session = NoSession THEN 3 ELSE 2) * MaxDelay
<1>1. /\ req[r] \in RequestTypes /\ Types /\ req[r].since \in Nat /\ now \in Nat
      /\ req[r].since <= now /\ now <= req[r].since + MaxDelay /\ Justified(req[r])
  BY Underway
<1> PICK perms \in SUBSET Perms : perms = req[r].perms
  BY <1>1 DEF RequestTypes
<1>2. CASE req[r].session = NoSession
  <2> PICK time \in Int : time = req[r].since + 1 - TTL - 2 * MaxDelay
    BY <1>1, Times
  <2>1. AllHeldSince(Own(perms), time) /\ time <= now
    BY <1>1, <1>2, Times DEF Justified
  <2>2. GroundsOf(req[r]) \subseteq Own(perms)
    BY <1>2 DEF GroundsOf, Own
  <2>3. \A g \in GroundsOf(req[r]) : Lag(g) \in Nat /\ Lag(g) <= now - time
    BY <1>1, <2>1, <2>2, Justifications, LagIsBounded DEF AllHeldSince
  <2> PICK bound \in Int : bound = now - time
    BY <1>1
  <2>4. WorstLag(req[r]) \in Nat /\ WorstLag(req[r]) <= bound
    BY <2>3, WorstLagIsOne
  <2>5. bound < TTL + 3 * MaxDelay
    BY <1>1, Times
  <2> QED
    BY <1>2, <2>4, <2>5, Times
<1>3. CASE req[r].session # NoSession
  <2> PICK time \in Int : time = req[r].since + 1 - TTL - MaxDelay
    BY <1>1, Times
  <2>1. AllHeldSince(Support(perms), time) /\ time <= now
    BY <1>1, <1>3, Times DEF Justified
  <2>2. GroundsOf(req[r]) \subseteq Support(perms)
    BY <1>3 DEF GroundsOf, Support
  <2>3. \A g \in GroundsOf(req[r]) : Lag(g) \in Nat /\ Lag(g) <= now - time
    BY <1>1, <2>1, <2>2, Justifications, LagIsBounded DEF AllHeldSince
  <2> PICK bound \in Int : bound = now - time
    BY <1>1
  <2>4. WorstLag(req[r]) \in Nat /\ WorstLag(req[r]) <= bound
    BY <2>3, WorstLagIsOne
  <2>5. bound < TTL + 2 * MaxDelay
    BY <1>1, Times
  <2> QED
    BY <1>3, <2>4, <2>5, Times
<1> QED
  BY <1>2, <1>3

LEMMA AssertActiveTenantKeeps ==
  ASSUME AccessInv, NEW r \in Requests, AssertActiveTenant(r)
  PROVE  AccessInv'
<1>1. Unmoved /\ UNCHANGED world /\ page' \in PageTypes /\ req[r].pc = "activeTenant"
  BY AtUnmoved DEF AssertActiveTenant
<1>2. /\ req[r] \in RequestTypes /\ Types /\ req[r].since \in Nat /\ now \in Nat
      /\ req[r].since <= now /\ now <= req[r].since + MaxDelay /\ Justified(req[r])
  BY <1>1, Underway
<1>3. CASE Answer(r)
  BY <1>1, <1>3, AnswerKeeps
<1>4. CASE req[r].call = "end" /\ ~Answer(r)
  <2> PICK q \in RequestTypes : q = [req[r] EXCEPT !.pc = "end"]
    BY <1>2 DEF RequestTypes, Phases
  <2>1. q.pc = "end" /\ q.call = "end" /\ q.session = req[r].session
    BY <1>2, <1>4 DEF RequestTypes
  <2> PICK p : p = [q EXCEPT !.since = now]
    OBVIOUS
  <2>2. p.pc = "end" /\ p.call = "end" /\ p.session = req[r].session
    BY <2>1 DEF RequestTypes
  <2>3. req[r].session # NoSession
    BY <1>1, <1>2, <1>4 DEF Justified
  <2>4. Justified(p)
    BY <2>2, <2>3 DEF Justified
  <2>5. Send(r, q)
    BY <1>4 DEF AssertActiveTenant, Require
  <2> QED
    BY <1>1, <2>1, <2>4, <2>5, SendKeeps
<1>5. CASE req[r].call # "end" /\ ~Answer(r)
  <2>1. /\ Send(r, [req[r] EXCEPT !.pc = "handle", !.lag = WorstLag(req[r])])
        /\ req[r].perm \in req[r].perms
    BY <1>5 DEF AssertActiveTenant, Require
  <2> PICK lag \in Nat :
        lag = WorstLag(req[r])
        /\ lag < TTL + (IF req[r].session = NoSession THEN 3 ELSE 2) * MaxDelay
    BY <1>1, <2>1, LagOfToken
  <2> PICK q \in RequestTypes : q = [req[r] EXCEPT !.pc = "handle", !.lag = lag]
    BY <1>2 DEF RequestTypes, Phases
  <2>2. q.pc = "handle" /\ q.lag = lag /\ q.session = req[r].session
    BY <1>2 DEF RequestTypes
  <2> PICK p : p = [q EXCEPT !.since = now]
    OBVIOUS
  <2>3. p.pc = "handle" /\ p.lag = lag /\ p.session = req[r].session /\ p.since = now
    BY <2>2 DEF RequestTypes
  <2>4. ASSUME req[r].session # NoSession
        PROVE  /\ session[req[r].session].started # "no"
               /\ session[req[r].session].endedAt # 0 =>
                    session[req[r].session].endedAt >= now - MaxDelay
    <3>1. /\ session[req[r].session].started # "no"
          /\ session[req[r].session].endedAt # 0 =>
               session[req[r].session].endedAt >= req[r].since
      BY <1>1, <1>2, <2>4 DEF Justified
    <3>2. session[req[r].session].endedAt \in Nat
      BY <1>2, <2>4 DEF Types, RequestTypes, SessionTypes
    <3> QED
      BY <1>2, <3>1, <3>2, Times
  <2>5. Justified(p)
    BY <2>3, <2>4 DEF Justified
  <2> QED
    BY <1>1, <2>1, <2>2, <2>5, SendKeeps
<1> QED
  BY <1>3, <1>4, <1>5

LEMMA SettingsReadKeeps ==
  ASSUME AccessInv, NEW r \in Requests,
         \/ ReadSettings(r) \/ FindSettingsRow(r) \/ ResolveForPage(r)
         \/ ResolveRoleId(r) \/ ReadRoles(r)
  PROVE  AccessInv'
<1>1. Unmoved /\ UNCHANGED world /\ page' \in PageTypes
  BY AtUnmoved DEF ReadSettings, FindSettingsRow, ResolveForPage, ResolveRoleId, ReadRoles
<1>2. req[r] \in RequestTypes /\ Types /\ EffectiveSettings \in Settings
      /\ account.roles \in SUBSET Roles
  BY EffectiveType DEF AccessInv, Types
<1> PICK effective \in Settings : effective = EffectiveSettings
  BY <1>2
<1>3. CASE Answer(r)
  BY <1>1, <1>3, AnswerKeeps
<1>4. CASE ReadSettings(r) /\ ~Answer(r)
  <2> PICK q \in RequestTypes : q = [req[r] EXCEPT !.pc = "find", !.before = effective]
    BY <1>2 DEF RequestTypes, Phases
  <2>1. q.pc = "find" /\ Send(r, q)
    BY <1>2, <1>4 DEF ReadSettings, Require, RequestTypes
  <2> QED
    BY <1>1, <2>1, SettingsStepKeeps DEF OfSettings
<1>5. CASE FindSettingsRow(r)
  <2> PICK found \in BOOLEAN : found = (settings # NoRow)
    OBVIOUS
  <2> PICK q \in RequestTypes : q = [req[r] EXCEPT !.pc = "write", !.found = found]
    BY <1>2 DEF RequestTypes, Phases
  <2>1. q.pc = "write" /\ Send(r, q)
    BY <1>2, <1>5 DEF FindSettingsRow, RequestTypes
  <2> QED
    BY <1>1, <2>1, SettingsStepKeeps DEF OfSettings
<1>6. CASE ResolveForPage(r)
  <2> PICK pc \in {"loaded", "failed"} :
        Send(r, [req[r] EXCEPT !.pc = pc, !.before = effective])
    BY <1>6 DEF ResolveForPage
  <2> PICK q \in RequestTypes : q = [req[r] EXCEPT !.pc = pc, !.before = effective]
    BY <1>2 DEF RequestTypes, Phases
  <2>1. q.pc = pc /\ Send(r, q)
    BY <1>2 DEF RequestTypes
  <2> QED
    BY <1>1, <2>1, SettingsStepKeeps DEF OfSettings
<1>7. CASE ResolveRoleId(r)
  <2> PICK q \in RequestTypes : q = [req[r] EXCEPT !.pc = "readRoles"]
    BY <1>2 DEF RequestTypes, Phases
  <2>1. q.pc = "readRoles" /\ Send(r, q)
    BY <1>2, <1>7 DEF ResolveRoleId, Goto, RequestTypes
  <2> QED
    BY <1>1, <2>1, SettingsStepKeeps DEF OfSettings
<1>8. CASE ReadRoles(r)
  <2> PICK gone \in SUBSET Roles : gone = account.roles \ req[r].roles
    BY <1>2
  <2> PICK q \in RequestTypes : q = [req[r] EXCEPT !.pc = "setRoles", !.todo = gone]
    BY <1>2 DEF RequestTypes, Phases
  <2>1. q.pc = "setRoles" /\ Send(r, q)
    BY <1>2, <1>8 DEF ReadRoles, RequestTypes
  <2> QED
    BY <1>1, <2>1, SettingsStepKeeps DEF OfSettings
<1> QED
  BY <1>3, <1>4, <1>5, <1>6, <1>7, <1>8

\* The page takes up an answer.
LEMMA ShowKeeps ==
  ASSUME AccessInv, NEW r \in Requests, ShowSettings(r) \/ ShowSaved(r) \/ ShowFailure(r)
  PROVE  AccessInv'
<1>1. req[r].before \in Settings /\ page \in PageTypes
  BY DEF AccessInv, Types, RequestTypes
<1>2. CASE ShowSettings(r)
  <2>1. [f \in PageFields |-> req[r].before[f]] \in [PageFields -> BOOLEAN]
    BY <1>1, SettingsTypes DEF Settings
  <2>2. page' \in PageTypes
    BY <2>1, <1>2 DEF ShowSettings, PageTypes
  <2> QED
    BY <2>2, <1>2, AnswerKeeps DEF ShowSettings, Unmoved
<1>3. CASE ShowSaved(r) \/ ShowFailure(r)
  <2>1. page' \in PageTypes
    BY <1>1, <1>3 DEF ShowSaved, ShowFailure, PageTypes
  <2> QED
    BY <2>1, <1>3, AnswerKeeps DEF ShowSaved, ShowFailure, Unmoved
<1> QED
  BY <1>2, <1>3

-----------------------------------------------------------------------------
(* Statements that write *)

LEMMA AnswerType ==
  ASSUME Types, NEW r \in Requests, Answer(r)
  PROVE  req' = [req EXCEPT ![r] = Idle] /\ req' \in [Requests -> RequestTypes]
BY IdleType DEF Types, Answer

LEMMA IdleJustifiedAfter == Justified(Idle)'
BY IdleType DEF Justified

LEMMA IssueTokensKeeps ==
  ASSUME AccessInv, NEW r \in Requests, IssueTokens(r)
  PROVE  AccessInv'
<1>1. /\ At(r, "issue") /\ Answer(r) /\ req[r].pc = "issue"
      /\ UNCHANGED <<world, now, page, tenant, settings, account, session, until, last>>
      /\ tokens' = tokens \union
           {[session |-> NoSession, perms |-> req[r].perms, exp |-> now + TTL]}
  BY DEF IssueTokens, At
<1>2. /\ req[r] \in RequestTypes /\ Types /\ req[r].since \in Nat /\ now \in Nat
      /\ now <= req[r].since + MaxDelay /\ Justified(req[r])
  BY <1>1, Underway
<1> PICK perms \in SUBSET Perms : perms = req[r].perms
  BY <1>2 DEF RequestTypes
<1> PICK exp \in Nat : exp = now + TTL
  BY <1>2, Times
<1> PICK t \in Tokens : t = [session |-> NoSession, perms |-> perms, exp |-> exp]
  BY DEF Tokens
<1>3. TokenStands(t)'
  <2> PICK time \in Int, before \in Int :
        time = req[r].since - MaxDelay /\ before = exp - TTL - 2 * MaxDelay
    BY <1>2, Times
  <2>1. AllHeldSince(Own(perms), time)
    BY <1>1, <1>2 DEF Justified
  <2>2. before <= time
    BY <1>2, Times
  <2>3. AllHeldSince(Own(perms), before)
    BY <1>2, <2>1, <2>2, Justifications, Earlier
  <2>4. TokenStands(t)
    BY <2>3, <1>2, Times DEF TokenStands
  <2> QED
    BY <2>4, <1>1, <1>2, NothingChanges, SessionsStay, TokenStillStands DEF AccessInv
<1>4. req' = [req EXCEPT ![r] = Idle] /\ req' \in [Requests -> RequestTypes]
  BY <1>1, <1>2, AnswerType
<1>5. Types'
  BY <1>1, <1>2, <1>4 DEF Types, OneOfWorlds
<1>6. GroundsRemain /\ SessionsGoOn
  BY <1>1, NothingChanges, SessionsStay
<1>7. \A s \in SessionIds : SessionStands(s)'
  BY <1>1, SessionStandsStill DEF AccessInv
<1>8. EndsAreRecorded'
  BY <1>1, <1>4, <1>6, IdleType, NoEndKeeps
<1> QED
  BY <1>1, <1>2, <1>3, <1>4, <1>5, <1>6, <1>7, <1>8, IdleType, IdleIsJustified, IdleJustifiedAfter,
     StepKeeps

\* One session changes, and what else there is stays.
Rewrites(s, row) ==
  /\ session' = [session EXCEPT ![s] = row]
  /\ UNCHANGED <<world, now, page, tenant, settings, account, until, last>>

LEMMA RewriteFacts ==
  ASSUME AccessInv, NEW s \in SessionIds, NEW row \in SessionTypes, Rewrites(s, row)
  PROVE  /\ session' \in [SessionIds -> SessionTypes] /\ session'[s] = row
         /\ \A x \in SessionIds : x # s => session'[x] = session[x] /\ SessionStands(x)'
         /\ GroundsRemain
         /\ Types /\ now' = now /\ now \in Nat
         /\ OneOfWorlds' /\ world'.time = world.time
<1>1. Types
  BY DEF AccessInv
<1>2. session' \in [SessionIds -> SessionTypes] /\ session'[s] = row
      /\ \A x \in SessionIds : x # s => session'[x] = session[x]
  BY <1>1 DEF Types, Rewrites
<1>3. \A x \in SessionIds : x # s => SessionStands(x)'
  BY <1>2 DEF AccessInv, SessionStands, Rewrites
<1>4. GroundsRemain
  BY NothingChanges DEF Rewrites
<1>5. now' = now /\ now \in Nat
  BY <1>1 DEF Types, Rewrites
<1>6. OneOfWorlds' /\ world'.time = world.time
  BY <1>1, WorldStays DEF Types, Rewrites
<1> QED
  BY <1>1, <1>2, <1>3, <1>4, <1>5, <1>6

LEMMA RewriteTypes ==
  ASSUME AccessInv, NEW s \in SessionIds, NEW row \in SessionTypes, Rewrites(s, row),
         req' \in [Requests -> RequestTypes], tokens' \subseteq Tokens
  PROVE  Types'
BY RewriteFacts DEF Types, Rewrites

LEMMA RewriteGoesOn ==
  ASSUME AccessInv, NEW s \in SessionIds, NEW row \in SessionTypes, Rewrites(s, row),
         session[s].made => row.made /\ row.expiresAt = session[s].expiresAt,
         session[s].started # "no" => row.started # "no",
         row.endedAt = session[s].endedAt \/ (session[s].endedAt = 0 /\ row.endedAt = now)
  PROVE  SessionsGoOn
<1>1. /\ session'[s] = row /\ now \in Nat
      /\ \A x \in SessionIds : x # s => session'[x] = session[x]
  BY RewriteFacts
<1> QED
  BY <1>1 DEF SessionsGoOn

LEMMA CreateSessionKeeps ==
  ASSUME AccessInv, NEW r \in Requests, CreateSession(r)
  PROVE  AccessInv'
<1>1. /\ At(r, "create") /\ req[r].pc = "create"
      /\ UNCHANGED <<world, now, page, tenant, settings, account, tokens, until, last>>
  BY DEF CreateSession, At
<1>2. /\ req[r] \in RequestTypes /\ Types /\ req[r].since \in Nat /\ now \in Nat
      /\ req[r].since <= now /\ Justified(req[r]) /\ session \in [SessionIds -> SessionTypes]
  BY <1>1, Underway DEF Types
<1> PICK s \in SessionIds :
      /\ ~session[s].made
      /\ session' = [session EXCEPT ![s].made = TRUE, ![s].expiresAt = req[r].since + TTL]
      /\ Send(r, [req[r] EXCEPT !.pc = "record", !.session = s, !.exp = now + TTL])
  BY DEF CreateSession
<1> PICK since \in Nat, until1 \in Nat, exp \in Nat :
      since = req[r].since /\ until1 = since + TTL /\ exp = now + TTL
  BY <1>2, Times
<1> PICK row \in SessionTypes : row = [session[s] EXCEPT !.made = TRUE, !.expiresAt = until1]
  BY <1>2 DEF SessionTypes
<1>3. /\ row.made /\ row.expiresAt = until1 /\ row.started = session[s].started
      /\ row.served = session[s].served /\ row.endedAt = session[s].endedAt
      /\ row.ends = session[s].ends
  BY <1>2 DEF SessionTypes
<1>4. session' = [session EXCEPT ![s] = row]
  BY <1>2
<1>5. Rewrites(s, row)
  BY <1>1, <1>4 DEF Rewrites
<1> PICK perms \in SUBSET Perms : perms = req[r].perms
  BY <1>2 DEF RequestTypes
<1> PICK q \in RequestTypes :
      q = [req[r] EXCEPT !.pc = "record", !.session = s, !.exp = exp, !.since = now]
  BY <1>2 DEF RequestTypes, Phases
<1>6. /\ q.pc = "record" /\ q.session = s /\ q.exp = exp /\ q.since = now /\ q.perms = perms
      /\ q.call = "start"
  BY <1>1, <1>2 DEF RequestTypes, Justified
<1>7. req' = [req EXCEPT ![r] = q]
  BY DEF Send
<1>8. req' \in [Requests -> RequestTypes] /\ tokens' \subseteq Tokens
  BY <1>1, <1>2, <1>7 DEF Types
<1>9. Types' /\ GroundsRemain /\ session'[s] = row /\ now' = now
      /\ \A x \in SessionIds : x # s => session'[x] = session[x] /\ SessionStands(x)'
  BY <1>5, <1>8, RewriteTypes, RewriteFacts
<1>10. SessionsGoOn
  BY <1>3, <1>5, RewriteGoesOn
<1>11. SessionStands(s)'
  <2>1. SessionStands(s)
    BY DEF AccessInv
  <2>2. until1 <= now + TTL
    BY <1>2, Times
  <2>3. /\ row.expiresAt <= now + TTL /\ row.endedAt <= now /\ row.ends <= 1
        /\ row.ends = 1 => row.endedAt # 0
    BY <2>1, <2>2, <1>3 DEF SessionStands
  <2>4. (row.started # "no" => row.made) /\ (row.served => row.started # "no")
    BY <2>1, <1>3 DEF SessionStands
  <2> QED
    BY <2>3, <2>4, <1>9 DEF SessionStands
<1>12. Justified(q)'
  <2> PICK time \in Int : time = since - MaxDelay
    BY Times
  <2>1. AllHeldSince(Support(perms), time) /\ time <= now
    BY <1>1, <1>2, Times DEF Justified
  <2>2. AllHeldSince(Support(perms), time)'
    BY <2>1, <1>9, AllRemain, Justifications
  <2>3. time = session'[s].expiresAt - TTL - MaxDelay
    <3>1. time = until1 - TTL - MaxDelay
      BY Times
    <3>2. session'[s].expiresAt = until1
      BY <1>3, <1>9
    <3> QED
      BY <3>1, <3>2
  <2>4. Stands(s, perms)'
    BY <2>2, <2>3, <1>3, <1>9, Times DEF Stands, Support
  <2>5. exp <= now' + TTL
    BY <1>9
  <2> QED
    BY <1>6, <2>4, <2>5, Times DEF Justified
<1>13. \A x \in SessionIds : session'[x].ends = session[x].ends
  BY <1>3, <1>9
<1>14. EndsAreRecorded'
  BY <1>6, <1>7, <1>10, <1>13, NoEndKeeps
<1>15. Timely(q)
  BY <1>2, <1>6, Times DEF Timely
<1>16. \A x \in SessionIds : SessionStands(x)'
  BY <1>9, <1>11
<1> QED
  BY <1>1, <1>7, <1>9, <1>10, <1>12, <1>14, <1>15, <1>16, StepKeeps

LEMMA RowStands ==
  ASSUME AccessInv, NEW s \in SessionIds, NEW row \in SessionTypes, Rewrites(s, row),
         row.expiresAt <= now + TTL, row.endedAt <= now, row.ends <= 1,
         row.ends = 1 => row.endedAt # 0, row.started # "no" => row.made, row.served => row.started # "no"
  PROVE  \A x \in SessionIds : SessionStands(x)'
<1>1. session'[s] = row /\ now' = now /\ \A x \in SessionIds : x # s => SessionStands(x)'
  BY RewriteFacts
<1>2. SessionStands(s)'
  BY <1>1 DEF SessionStands
<1> QED
  BY <1>1, <1>2

LEMMA RecordStartedKeeps ==
  ASSUME AccessInv, NEW r \in Requests, RecordStarted(r)
  PROVE  AccessInv'
<1> PICK recording \in Recordings :
      session' = [session EXCEPT ![req[r].session].started = recording]
  BY DEF RecordStarted
<1>1. /\ req[r].pc = "record" /\ req[r].call = "start" /\ Answer(r)
      /\ UNCHANGED <<world, now, page, tenant, settings, account, until, last>>
      /\ session' = [session EXCEPT ![req[r].session].started = recording]
      /\ tokens' = tokens \union
           {[session |-> req[r].session, perms |-> req[r].perms, exp |-> req[r].exp]}
  BY DEF RecordStarted, At
<1>2. /\ req[r] \in RequestTypes /\ Types /\ now \in Nat /\ Justified(req[r])
      /\ session \in [SessionIds -> SessionTypes]
  BY <1>1, Underway DEF Types
<1>3. /\ req[r].session \in SessionIds /\ Stands(req[r].session, req[r].perms)
      /\ req[r].exp <= now + TTL
  BY <1>1, <1>2 DEF Justified, RequestTypes
<1> PICK s \in SessionIds, perms \in SUBSET Perms, exp \in Nat :
      s = req[r].session /\ perms = req[r].perms /\ exp = req[r].exp
  BY <1>2, <1>3 DEF RequestTypes
<1> PICK row \in SessionTypes : row = [session[s] EXCEPT !.started = recording]
  BY <1>2 DEF SessionTypes
<1>4. /\ row.made = session[s].made /\ row.expiresAt = session[s].expiresAt /\ row.started # "no"
      /\ row.served = session[s].served /\ row.endedAt = session[s].endedAt
      /\ row.ends = session[s].ends
  BY <1>2 DEF SessionTypes, Recordings
<1>5. Rewrites(s, row)
  BY <1>1, <1>2 DEF Rewrites
<1>6. SessionsGoOn
  BY <1>4, <1>5, RewriteGoesOn
<1>7. session'[s] = row /\ GroundsRemain /\ now' = now
      /\ \A x \in SessionIds : x # s => session'[x] = session[x]
  BY <1>5, RewriteFacts
<1>8. \A x \in SessionIds : SessionStands(x)'
  <2>1. SessionStands(s) /\ session[s].made
    BY <1>3 DEF AccessInv, Stands
  <2>2. /\ row.expiresAt <= now + TTL /\ row.endedAt <= now /\ row.ends <= 1
        /\ row.ends = 1 => row.endedAt # 0
    BY <2>1, <1>4 DEF SessionStands
  <2>3. (row.started # "no" => row.made) /\ (row.served => row.started # "no")
    BY <2>1, <1>4 DEF SessionStands
  <2> QED
    BY <2>2, <2>3, <1>5, RowStands
<1> PICK t \in Tokens : t = [session |-> s, perms |-> perms, exp |-> exp]
  BY DEF Tokens
<1>9. TokenStands(t)'
  <2>1. Stands(s, perms)'
    BY <1>2, <1>3, <1>6, <1>7, StandsStill DEF AccessInv
  <2>2. session'[s].started # "no" /\ t.session = s /\ t.perms = perms /\ t.exp = exp
    BY <1>4, <1>7
  <2> QED
    BY <2>1, <2>2, <1>3, <1>7, Times DEF TokenStands
<1>10. req' = [req EXCEPT ![r] = Idle] /\ req' \in [Requests -> RequestTypes]
  BY <1>1, <1>2, AnswerType
<1>11. Types'
  BY <1>1, <1>2, <1>5, <1>10, RewriteTypes DEF Types
<1>12. \A x \in SessionIds : session'[x].ends = session[x].ends
  BY <1>4, <1>7
<1>13. EndsAreRecorded'
  BY <1>6, <1>10, <1>12, IdleType, NoEndKeeps
<1> QED
  BY <1>1, <1>2, <1>6, <1>7, <1>8, <1>9, <1>10, <1>11, <1>13, IdleType, IdleIsJustified,
     IdleJustifiedAfter, StepKeeps

\* What a session serves came with a token that its start had returned.
LEMMA HandleKeeps ==
  ASSUME AccessInv, NEW r \in Requests, Handle(r)
  PROVE  AccessInv'
<1>1. /\ req[r].pc = "handle" /\ Answer(r)
      /\ UNCHANGED <<world, now, page, tenant, settings, account, tokens, until, last>>
      /\ session' = IF req[r].session = NoSession THEN session
                      ELSE [session EXCEPT ![req[r].session].served = TRUE]
  BY DEF Handle, At
<1>2. /\ req[r] \in RequestTypes /\ Types /\ now \in Nat /\ Justified(req[r])
      /\ session \in [SessionIds -> SessionTypes]
  BY <1>1, Underway DEF Types
<1>3. CASE req[r].session = NoSession
  <2>1. Unmoved
    BY <1>1, <1>3 DEF Unmoved, rows
  <2> QED
    BY <2>1, <1>1, PageStays, AnswerKeeps
<1>4. CASE req[r].session # NoSession
  <2> PICK s \in SessionIds : s = req[r].session
    BY <1>2, <1>4 DEF RequestTypes
  <2>1. session[s].started # "no"
    BY <1>1, <1>2, <1>4 DEF Justified
  <2> PICK row \in SessionTypes : row = [session[s] EXCEPT !.served = TRUE]
    BY <1>2 DEF SessionTypes
  <2>2. /\ row.made = session[s].made /\ row.expiresAt = session[s].expiresAt
        /\ row.started = session[s].started /\ row.endedAt = session[s].endedAt
        /\ row.ends = session[s].ends
    BY <1>2 DEF SessionTypes
  <2>3. Rewrites(s, row)
    BY <1>1, <1>4 DEF Rewrites
  <2>4. SessionsGoOn
    BY <2>2, <2>3, RewriteGoesOn
  <2>5. session'[s] = row /\ GroundsRemain /\ now' = now
        /\ \A x \in SessionIds : x # s => session'[x] = session[x]
    BY <2>3, RewriteFacts
  <2>6. \A x \in SessionIds : SessionStands(x)'
    <3>1. SessionStands(s)
      BY DEF AccessInv
    <3>2. /\ row.expiresAt <= now + TTL /\ row.endedAt <= now /\ row.ends <= 1
          /\ row.ends = 1 => row.endedAt # 0
      BY <3>1, <2>2 DEF SessionStands
    <3>3. row.made /\ row.started # "no"
      BY <3>1, <2>1, <2>2 DEF SessionStands
    <3> QED
      BY <3>2, <3>3, <2>3, RowStands
  <2>7. req' = [req EXCEPT ![r] = Idle] /\ req' \in [Requests -> RequestTypes]
    BY <1>1, <1>2, AnswerType
  <2>8. Types'
    BY <1>1, <1>2, <2>3, <2>7, RewriteTypes DEF Types
  <2>9. \A x \in SessionIds : session'[x].ends = session[x].ends
    BY <2>2, <2>5
  <2>10. EndsAreRecorded'
    BY <2>4, <2>7, <2>9, IdleType, NoEndKeeps
  <2> QED
    BY <1>1, <1>2, <2>4, <2>5, <2>6, <2>7, <2>8, <2>10, IdleType, IdleIsJustified,
       IdleJustifiedAfter, StepKeeps
<1> QED
  BY <1>3, <1>4

\* Of several calls that end a session one finds it open, and records its end.
LEMMA EndImpersonationKeeps ==
  ASSUME AccessInv, NEW r \in Requests, EndImpersonation(r)
  PROVE  AccessInv'
<1>1. /\ req[r].pc = "end"
      /\ UNCHANGED <<world, now, page, tenant, settings, account, tokens, until, last>>
  BY DEF EndImpersonation, At
<1>2. /\ req[r] \in RequestTypes /\ Types /\ now \in Nat /\ Justified(req[r]) /\ now > 0
      /\ session \in [SessionIds -> SessionTypes] /\ req \in [Requests -> RequestTypes]
  BY <1>1, Underway, Times DEF Types
<1> PICK s \in SessionIds : s = req[r].session
  BY <1>1, <1>2 DEF Justified, RequestTypes
<1>3. CASE session[s].endedAt # 0
  <2>1. Answer(r) /\ UNCHANGED session
    BY <1>3 DEF EndImpersonation
  <2>2. Unmoved
    BY <2>1, <1>1 DEF Unmoved, rows
  <2> QED
    BY <2>1, <2>2, <1>1, PageStays, AnswerKeeps
<1>4. CASE session[s].endedAt = 0
  <2>1. session' = [session EXCEPT ![s].endedAt = now] /\ Goto(r, "record")
    BY <1>4 DEF EndImpersonation
  <2> PICK row \in SessionTypes : row = [session[s] EXCEPT !.endedAt = now]
    BY <1>2 DEF SessionTypes
  <2>2. /\ row.made = session[s].made /\ row.expiresAt = session[s].expiresAt
        /\ row.started = session[s].started /\ row.served = session[s].served
        /\ row.endedAt = now /\ row.ends = session[s].ends
    BY <1>2 DEF SessionTypes
  <2>3. Rewrites(s, row)
    BY <1>1, <2>1 DEF Rewrites
  <2>4. SessionsGoOn
    BY <1>4, <2>2, <2>3, RewriteGoesOn
  <2>5. session'[s] = row /\ GroundsRemain /\ now' = now
        /\ \A x \in SessionIds : x # s => session'[x] = session[x]
    BY <2>3, RewriteFacts
  <2>6. session[s].ends = 0
    <3>1. SessionStands(s)
      BY DEF AccessInv
    <3>2. session[s].ends \in Nat
      BY <1>2 DEF SessionTypes
    <3>3. session[s].ends <= 1 /\ session[s].ends # 1
      BY <3>1, <1>4 DEF SessionStands
    <3> QED
      BY <3>2, <3>3
  <2>7. \A x \in SessionIds : SessionStands(x)'
    <3>1. SessionStands(s)
      BY DEF AccessInv
    <3>2. row.expiresAt <= now + TTL /\ row.endedAt <= now /\ row.ends <= 1 /\ row.endedAt # 0
      BY <3>1, <2>2, <2>6, <1>2 DEF SessionStands
    <3>3. (row.started # "no" => row.made) /\ (row.served => row.started # "no")
      BY <3>1, <2>2 DEF SessionStands
    <3> QED
      BY <3>2, <3>3, <2>3, RowStands
  <2> PICK q \in RequestTypes : q = [req[r] EXCEPT !.pc = "record", !.since = now]
    BY <1>2 DEF RequestTypes, Phases
  <2>8. q.pc = "record" /\ q.session = s /\ q.since = now /\ q.call = "end"
    BY <1>1, <1>2 DEF RequestTypes, Justified
  <2>9. req' = [req EXCEPT ![r] = q]
    BY <2>1 DEF Goto, Send
  <2>10. Types'
    BY <1>1, <1>2, <2>3, <2>9, RewriteTypes DEF Types
  <2>11. Justified(q)' /\ Timely(q)
    BY <1>2, <2>8, Times DEF Justified, Timely
  <2>12. EndsAreRecorded'
    <3>1. req'[r] = q /\ \A x \in Requests : x # r => req'[x] = req[x]
      BY <1>2, <2>9
    <3>2. ASSUME NEW x \in Requests, x # r, RecordsEnd(x)'
          PROVE  /\ RecordsEnd(x) /\ req'[x].session = req[x].session /\ req[x].session # s
                 /\ req[x].session \in SessionIds
                 /\ session[req[x].session].endedAt # 0 /\ session[req[x].session].ends = 0
      <4>1. RecordsEnd(x) /\ req'[x].session = req[x].session
        BY <3>1, <3>2 DEF RecordsEnd
      <4>2. session[req[x].session].endedAt # 0 /\ session[req[x].session].ends = 0
        BY <4>1 DEF AccessInv, EndsAreRecorded
      <4>3. req[x].session # NoSession
        BY <4>1 DEF AccessInv, Justified, RecordsEnd
      <4>4. req[x].session \in SessionIds
        BY <4>3, <1>2 DEF RequestTypes
      <4> QED
        BY <4>1, <4>2, <4>4, <1>4
    <3>3. ASSUME NEW x \in Requests, RecordsEnd(x)'
          PROVE  session'[req'[x].session].endedAt # 0 /\ session'[req'[x].session].ends = 0
      <4>1. CASE x = r
        <5>1. session'[req'[x].session] = row
          BY <4>1, <3>1, <2>5, <2>8
        <5>2. row.endedAt # 0 /\ row.ends = 0
          BY <2>2, <2>6, <1>2
        <5> QED
          BY <5>1, <5>2
      <4>2. CASE x # r
        BY <4>2, <3>2, <3>3, <2>5
      <4> QED
        BY <4>1, <4>2
    <3>4. ASSUME NEW x \in Requests, NEW y \in Requests, RecordsEnd(x)', RecordsEnd(y)',
                 req'[x].session = req'[y].session
          PROVE  x = y
      <4>1. CASE x # r /\ y # r
        BY <4>1, <3>2, <3>4 DEF AccessInv, EndsAreRecorded
      <4>2. CASE x = r /\ y # r
        BY <4>2, <3>1, <3>2, <3>4, <2>8
      <4>3. CASE x # r /\ y = r
        BY <4>3, <3>1, <3>2, <3>4, <2>8
      <4> QED
        BY <4>1, <4>2, <4>3
    <3> QED
      BY <3>3, <3>4 DEF EndsAreRecorded
  <2> QED
    BY <1>1, <2>4, <2>5, <2>7, <2>9, <2>10, <2>11, <2>12, StepKeeps
<1> QED
  BY <1>3, <1>4

LEMMA RecordEndedKeeps ==
  ASSUME AccessInv, NEW r \in Requests, RecordEnded(r)
  PROVE  AccessInv'
<1>1. /\ req[r].pc = "record" /\ req[r].call = "end" /\ Answer(r)
      /\ UNCHANGED <<world, now, page, tenant, settings, account, tokens, until, last>>
  BY DEF RecordEnded, At
<1>2. /\ req[r] \in RequestTypes /\ Types /\ now \in Nat /\ Justified(req[r])
      /\ session \in [SessionIds -> SessionTypes] /\ req \in [Requests -> RequestTypes]
  BY <1>1, Underway DEF Types
<1> PICK s \in SessionIds : s = req[r].session
  BY <1>1, <1>2 DEF Justified, RequestTypes
<1>3. session[s].endedAt # 0 /\ session[s].ends = 0
  BY <1>1 DEF AccessInv, EndsAreRecorded, RecordsEnd
<1> PICK ends \in {0, 1} : session' = [session EXCEPT ![s].ends = ends]
  <2> PICK recording \in Recordings :
        session' = [session EXCEPT ![s].ends = IF recording = "recorded" THEN @ + 1 ELSE @]
    BY DEF RecordEnded
  <2>1. CASE recording = "recorded"
    BY <2>1, <1>2, <1>3
  <2>2. CASE recording # "recorded"
    BY <2>2, <1>2, <1>3
  <2> QED
    BY <2>1, <2>2
<1> PICK row \in SessionTypes : row = [session[s] EXCEPT !.ends = ends]
  BY <1>2 DEF SessionTypes
<1>4. /\ row.made = session[s].made /\ row.expiresAt = session[s].expiresAt
      /\ row.started = session[s].started /\ row.served = session[s].served
      /\ row.endedAt = session[s].endedAt /\ row.ends = ends
  BY <1>2 DEF SessionTypes
<1>5. Rewrites(s, row)
  BY <1>1, <1>2, <1>3 DEF Rewrites
<1>6. SessionsGoOn
  BY <1>4, <1>5, RewriteGoesOn
<1>7. session'[s] = row /\ GroundsRemain /\ now' = now
      /\ \A x \in SessionIds : x # s => session'[x] = session[x]
  BY <1>5, RewriteFacts
<1>8. \A x \in SessionIds : SessionStands(x)'
  <2>1. SessionStands(s)
    BY DEF AccessInv
  <2>2. row.expiresAt <= now + TTL /\ row.endedAt <= now /\ row.ends <= 1 /\ row.endedAt # 0
    BY <2>1, <1>3, <1>4 DEF SessionStands
  <2>3. (row.started # "no" => row.made) /\ (row.served => row.started # "no")
    BY <2>1, <1>4 DEF SessionStands
  <2> QED
    BY <2>2, <2>3, <1>5, RowStands
<1>9. req' = [req EXCEPT ![r] = Idle] /\ req' \in [Requests -> RequestTypes]
  BY <1>1, <1>2, AnswerType
<1>10. Types'
  BY <1>1, <1>2, <1>5, <1>9, RewriteTypes DEF Types
<1>11. EndsAreRecorded'
  <2>1. ASSUME NEW x \in Requests, RecordsEnd(x)'
        PROVE  /\ RecordsEnd(x) /\ req'[x].session = req[x].session /\ req[x].session # s
               /\ req[x].session \in SessionIds
               /\ session[req[x].session].endedAt # 0 /\ session[req[x].session].ends = 0
    <3>1. x # r /\ req'[x] = req[x]
      BY <1>2, <1>9, <2>1, IdleType DEF RecordsEnd
    <3>2. RecordsEnd(x)
      BY <3>1, <2>1 DEF RecordsEnd
    <3>3. req[x].session # s
      BY <3>1, <3>2, <1>1 DEF AccessInv, EndsAreRecorded, RecordsEnd
    <3>4. session[req[x].session].endedAt # 0 /\ session[req[x].session].ends = 0
      BY <3>2 DEF AccessInv, EndsAreRecorded
    <3>5. req[x].session # NoSession
      BY <3>2 DEF AccessInv, Justified, RecordsEnd
    <3>6. req[x].session \in SessionIds
      BY <3>5, <1>2 DEF RequestTypes
    <3> QED
      BY <3>1, <3>2, <3>3, <3>4, <3>6
  <2> QED
    BY <2>1, <1>7 DEF EndsAreRecorded, AccessInv
<1> QED
  BY <1>1, <1>2, <1>6, <1>7, <1>8, <1>9, <1>10, <1>11, IdleType, IdleIsJustified,
     IdleJustifiedAfter, StepKeeps

-----------------------------------------------------------------------------
(* Settings, roles and the account *)

\* What ends is noted, with the time at which it was so for the last time.
LEMMA NotedRemains ==
  ASSUME Types, \A g \in Grounds : Holds(g) => Holds(g)' \/ until'[g] = now,
         \A g \in Grounds : until'[g] = until[g] \/ until'[g] = now
  PROVE  GroundsRemain
<1>1. now \in Nat /\ \A g \in Grounds : until[g] \in Nat
  BY DEF Types
<1>2. ASSUME NEW g \in Grounds, NEW time \in Int, time <= now, HeldSince(g, time)
      PROVE  HeldSince(g, time)'
  <2>1. CASE Holds(g)
    <3>1. Holds(g)' \/ until'[g] = now
      BY <2>1
    <3> QED
      BY <3>1, <1>1, <1>2 DEF HeldSince
  <2>2. CASE ~Holds(g)
    <3>1. until[g] >= time
      BY <2>2, <1>2 DEF HeldSince
    <3>2. until'[g] >= time
      BY <3>1, <1>1, <1>2
    <3> QED
      BY <3>2 DEF HeldSince
  <2> QED
    BY <2>1, <2>2
<1> QED
  BY <1>2 DEF GroundsRemain

\* A request writes what accesses rest on, and is answered to the page or done.
LEMMA GroundsWriteKeeps ==
  ASSUME AccessInv, NEW r \in Requests, NEW q \in RequestTypes, req' = [req EXCEPT ![r] = q],
         q = Idle \/ (q.pc \in {"saved", "failed"} /\ q.since = now),
         UNCHANGED <<world, now, page, tenant, session, tokens>>,
         settings' \in Settings \union {NoRow},
         account' \in [active : BOOLEAN, roles : SUBSET Roles],
         until' \in [Grounds -> Nat], \A g \in Grounds : until'[g] <= now,
         last' \in Settings, GroundsRemain
  PROVE  AccessInv'
<1>1. Types /\ now \in Nat
  BY DEF AccessInv, Types
<1>2. req' \in [Requests -> RequestTypes]
  BY <1>1 DEF Types
<1>3. OneOfWorlds' /\ world'.time = world.time
  BY <1>1, WorldStays DEF Types
<1>4. Types'
  BY <1>1, <1>2, <1>3 DEF Types
<1>5. SessionsGoOn /\ \A x \in SessionIds : session'[x].ends = session[x].ends
  BY SessionsStay
<1>6. Timely(q) /\ Justified(q)'
  <2>1. CASE q = Idle
    BY <2>1, <1>1, IdleIsJustified, IdleJustifiedAfter
  <2>2. CASE q.pc \in {"saved", "failed"} /\ q.since = now
    BY <2>2, <1>1, Times DEF Timely, Justified
  <2> QED
    BY <2>1, <2>2
<1>7. \A x \in SessionIds : SessionStands(x)'
  BY SessionStandsStill DEF AccessInv
<1>8. EndsAreRecorded'
  BY <1>5, IdleType, NoEndKeeps
<1> QED
  BY <1>4, <1>5, <1>6, <1>7, <1>8, StepKeeps

LEMMA OverwrittenType ==
  ASSUME NEW old \in Settings, NEW q \in RequestTypes
  PROVE  Overwritten(old, q) \in Settings
<1>1. q.change \in Changes
  BY DEF RequestTypes
<1>2. \A f \in Named(q) : q.change[f] \in BOOLEAN
  BY <1>1, ChangeTypes DEF Named
<1>3. \A f \in Fields : (IF f \in Named(q) THEN q.change[f] ELSE old[f]) \in BOOLEAN
  BY <1>2 DEF Settings
<1> QED
  BY <1>3 DEF Overwritten, Settings

LEMMA StoreRemains ==
  ASSUME AccessInv, NEW r \in Requests, Store(r, EffectiveSettings), UNCHANGED account
  PROVE  /\ GroundsRemain
         /\ until' \in [Grounds -> Nat] /\ \A g \in Grounds : until'[g] <= now
<1>1. Types /\ until \in [Grounds -> Nat] /\ now \in Nat /\ \A g \in Grounds : until[g] <= now
  BY DEF AccessInv, Types
<1>2. until' = IF EffectiveSettings[Consent] THEN [until EXCEPT !["consent"] = now] ELSE until
  BY DEF Store
<1>3. /\ until' \in [Grounds -> Nat]
      /\ \A g \in Grounds : until'[g] = until[g] \/ until'[g] = now
  BY <1>1, <1>2
<1>4. ASSUME NEW g \in Grounds, Holds(g)
      PROVE  Holds(g)' \/ until'[g] = now
  <2>1. CASE g = "consent"
    BY <2>1, <1>1, <1>2, <1>4, HoldsNow, Justifications
  <2>2. CASE g # "consent"
    BY <2>2, <1>4 DEF Holds
  <2> QED
    BY <2>1, <2>2
<1>5. GroundsRemain
  BY <1>1, <1>3, <1>4, NotedRemains
<1>6. \A g \in Grounds : until'[g] <= now
  BY <1>1, <1>3
<1> QED
  BY <1>3, <1>5, <1>6

\* The request that writes is answered, or tells the page.
LEMMA AnswerToPage ==
  ASSUME AccessInv, NEW r \in Requests, NEW pc \in {"saved", "failed"},
         IF ForPage(r) THEN Goto(r, pc) ELSE Answer(r)
  PROVE  \E q \in RequestTypes :
           /\ req' = [req EXCEPT ![r] = q]
           /\ q = Idle \/ (q.pc \in {"saved", "failed"} /\ q.since = now)
<1>1. req[r] \in RequestTypes /\ now \in Nat
  BY DEF AccessInv, Types
<1>2. CASE ForPage(r)
  <2> PICK q \in RequestTypes : q = [req[r] EXCEPT !.pc = pc, !.since = now]
    BY <1>1 DEF RequestTypes, Phases
  <2>1. q.pc = pc /\ q.since = now
    BY <1>1 DEF RequestTypes
  <2>2. req' = [req EXCEPT ![r] = q]
    BY <1>2 DEF Goto, Send
  <2> QED
    BY <2>1, <2>2
<1>3. CASE ~ForPage(r)
  BY <1>3, IdleType DEF Answer
<1> QED
  BY <1>2, <1>3

LEMMA WriteSettingsKeeps ==
  ASSUME AccessInv, NEW r \in Requests, WriteSettings(r)
  PROVE  AccessInv'
<1>1. UNCHANGED <<world, now, page, tenant, account, session, tokens>>
  BY DEF WriteSettings, At
<1>2. /\ Types /\ req[r] \in RequestTypes /\ account \in [active : BOOLEAN, roles : SUBSET Roles]
      /\ last \in Settings /\ EffectiveSettings \in Settings
  BY EffectiveType DEF AccessInv, Types
<1>3. CASE Store(r, EffectiveSettings)
  <2> PICK q \in RequestTypes :
        /\ req' = [req EXCEPT ![r] = q]
        /\ q = Idle \/ (q.pc \in {"saved", "failed"} /\ q.since = now)
    BY <1>3, AnswerToPage DEF Store
  <2>1. GroundsRemain /\ until' \in [Grounds -> Nat] /\ \A g \in Grounds : until'[g] <= now
    BY <1>1, <1>3, StoreRemains
  <2>2. settings' \in Settings /\ last' \in Settings
    BY <1>2, <1>3, OverwrittenType DEF Store
  <2>3. account' \in [active : BOOLEAN, roles : SUBSET Roles]
    BY <1>1, <1>2
  <2> QED
    BY <2>1, <2>2, <2>3, <1>1, GroundsWriteKeeps
<1>4. CASE RefuseWrite(r)
  <2> PICK q \in RequestTypes :
        /\ req' = [req EXCEPT ![r] = q]
        /\ q = Idle \/ (q.pc \in {"saved", "failed"} /\ q.since = now)
    BY <1>4, AnswerToPage DEF RefuseWrite
  <2>1. UNCHANGED <<settings, until, last>>
    BY <1>4 DEF RefuseWrite
  <2>2. GroundsRemain
    BY <1>1, <2>1, NothingChanges
  <2>3. /\ settings' \in Settings \union {NoRow} /\ last' \in Settings
        /\ account' \in [active : BOOLEAN, roles : SUBSET Roles]
        /\ until' \in [Grounds -> Nat] /\ \A g \in Grounds : until'[g] <= now
    BY <1>1, <1>2, <2>1 DEF Types
  <2> QED
    BY <2>2, <2>3, <1>1, GroundsWriteKeeps
<1> QED
  BY <1>3, <1>4 DEF WriteSettings

LEMMA SetRolesKeeps ==
  ASSUME AccessInv, NEW r \in Requests, SetRoles(r)
  PROVE  AccessInv'
<1>1. /\ UNCHANGED <<world, now, page, tenant, settings, session, tokens, last>>
      /\ RolesBecome((account.roles \ req[r].todo) \union req[r].roles)
      /\ req' = [req EXCEPT ![r] = Idle]
  BY DEF SetRoles, At, Answer
<1>2. /\ Types /\ now \in Nat /\ account \in [active : BOOLEAN, roles : SUBSET Roles]
      /\ until \in [Grounds -> Nat] /\ \A g \in Grounds : until[g] <= now
      /\ req[r].roles \in SUBSET Roles
  BY DEF AccessInv, Types, RequestTypes
<1> PICK roles \in SUBSET Roles : roles = (account.roles \ req[r].todo) \union req[r].roles
  BY <1>2
<1>3. /\ account' = [account EXCEPT !.roles = roles]
      /\ until' = [g \in Grounds |-> IF g \in Held(account.roles) THEN now ELSE until[g]]
  BY <1>1 DEF RolesBecome
<1>4. account' \in [active : BOOLEAN, roles : SUBSET Roles] /\ account'.active = account.active
  BY <1>2, <1>3
<1>5. /\ until' \in [Grounds -> Nat]
      /\ \A g \in Grounds : until'[g] = until[g] \/ until'[g] = now
  BY <1>2, <1>3
<1>6. ASSUME NEW g \in Grounds, Holds(g)
      PROVE  Holds(g)' \/ until'[g] = now
  <2>1. CASE g = "consent"
    BY <2>1, <1>1, <1>6 DEF Holds, EffectiveSettings
  <2>2. CASE g = "account"
    BY <2>2, <1>4, <1>6 DEF Holds
  <2>3. CASE g # "consent" /\ g # "account"
    BY <2>3, <1>3, <1>6 DEF Holds
  <2> QED
    BY <2>1, <2>2, <2>3
<1>7. GroundsRemain
  BY <1>2, <1>5, <1>6, NotedRemains
<1>8. settings' \in Settings \union {NoRow} /\ last' \in Settings
  BY <1>1, <1>2 DEF Types
<1>9. \A g \in Grounds : until'[g] <= now
  BY <1>2, <1>5
<1> QED
  BY <1>1, <1>4, <1>5, <1>7, <1>8, <1>9, IdleType, GroundsWriteKeeps

-----------------------------------------------------------------------------
(* What others do *)

\* No request and no session changes; time may pass.
LEMMA OutsideKeeps ==
  ASSUME AccessInv, UNCHANGED <<req, session, tokens>>, Types', GroundsRemain, now <= now',
         \A r \in Requests : Timely(req[r])'
  PROVE  AccessInv'
<1>1. /\ Types /\ now \in Nat /\ now' \in Nat /\ req \in [Requests -> RequestTypes]
      /\ tokens \subseteq Tokens /\ \A s \in SessionIds : SessionStands(s)
  BY DEF AccessInv, Types
<1>2. SessionsGoOn
  BY SessionsStay
<1>3. ASSUME NEW r \in Requests
      PROVE  Justified(req[r])'
  <2> PICK q \in RequestTypes : q = req[r]
    BY <1>1
  <2>1. Timely(q) /\ Justified(q)
    BY DEF AccessInv
  <2>2. Justified(q)' /\ req'[r] = q
    BY <2>1, <1>1, <1>2, StillJustified
  <2> QED
    BY <2>2 DEF Justified
<1>4. \A t \in tokens' : TokenStands(t)'
  BY <1>1, <1>2, TokenStillStands DEF AccessInv
<1>5. ASSUME NEW s \in SessionIds
      PROVE  SessionStands(s)'
  <2>1. SessionStands(s) /\ session[s] \in SessionTypes /\ session'[s] = session[s]
    BY <1>1 DEF Types
  <2>2. session[s].expiresAt <= now' + TTL /\ session[s].endedAt <= now'
    BY <2>1, <1>1, Times DEF SessionStands, SessionTypes
  <2> QED
    BY <2>1, <2>2 DEF SessionStands
<1>6. EndsAreRecorded'
  BY DEF AccessInv, EndsAreRecorded, RecordsEnd
<1> QED
  BY <1>3, <1>4, <1>5, <1>6 DEF AccessInv

LEMMA TimelyStays ==
  ASSUME AccessInv, UNCHANGED <<now, req>>
  PROVE  \A r \in Requests : Timely(req[r])'
BY DEF AccessInv, Timely

LEMMA EditDraftKeeps ==
  ASSUME AccessInv, NEW f \in PageFields, EditDraft(f)
  PROVE  AccessInv'
<1>1. /\ UNCHANGED <<now, req, tenant, settings, account, session, tokens, until, last>>
      /\ page' = [page EXCEPT !.draft[f] = ~@]
  BY DEF EditDraft, rows
<1>2. Types /\ page \in PageTypes /\ now \in Nat
  BY DEF AccessInv, Types
<1>3. page' \in PageTypes
  BY <1>1, <1>2 DEF PageTypes
<1>4. OneOfWorlds' /\ world'.time = world.time
  BY <1>2, ArrivalsKeepTheWorld DEF Types, EditDraft
<1>5. Types'
  BY <1>1, <1>2, <1>3, <1>4 DEF Types
<1> QED
  BY <1>1, <1>2, <1>5, NothingChanges, TimelyStays, OutsideKeeps

LEMMA ToggleAccountKeeps ==
  ASSUME AccessInv, ToggleAccount
  PROVE  AccessInv'
<1>1. /\ UNCHANGED <<now, tenant, settings, session, tokens, req, page, last>>
      /\ account' = [account EXCEPT !.active = ~@]
      /\ until' = IF account.active THEN [until EXCEPT !["account"] = now] ELSE until
  BY DEF ToggleAccount
<1>2. /\ Types /\ now \in Nat /\ account \in [active : BOOLEAN, roles : SUBSET Roles]
      /\ until \in [Grounds -> Nat] /\ \A g \in Grounds : until[g] <= now
  BY DEF AccessInv, Types
<1>3. account' \in [active : BOOLEAN, roles : SUBSET Roles] /\ account'.roles = account.roles
  BY <1>1, <1>2
<1>4. /\ until' \in [Grounds -> Nat]
      /\ \A g \in Grounds : until'[g] = until[g] \/ until'[g] = now
  BY <1>1, <1>2
<1>5. ASSUME NEW g \in Grounds, Holds(g)
      PROVE  Holds(g)' \/ until'[g] = now
  <2>1. CASE g = "consent"
    BY <2>1, <1>1, <1>5 DEF Holds, EffectiveSettings
  <2>2. CASE g = "account"
    BY <2>2, <1>1, <1>2, <1>5, HoldsNow, Justifications
  <2>3. CASE g # "consent" /\ g # "account"
    BY <2>3, <1>3, <1>5 DEF Holds
  <2> QED
    BY <2>1, <2>2, <2>3
<1>6. GroundsRemain
  BY <1>2, <1>4, <1>5, NotedRemains
<1>7. OneOfWorlds' /\ world'.time = world.time
  BY <1>2, ArrivalsKeepTheWorld DEF Types, ToggleAccount
<1>8. \A g \in Grounds : until'[g] <= now
  BY <1>2, <1>4
<1>9. Types'
  BY <1>1, <1>2, <1>3, <1>4, <1>7, <1>8 DEF Types
<1> QED
  BY <1>1, <1>2, <1>6, <1>9, TimelyStays, OutsideKeeps

LEMMA FailTenantKeeps ==
  ASSUME AccessInv, FailTenant
  PROVE  AccessInv'
<1>1. /\ UNCHANGED <<world, now, settings, account, session, tokens, req, page, until, last>>
      /\ tenant' = FALSE
  BY DEF FailTenant
<1>2. Types /\ now \in Nat
  BY DEF AccessInv, Types
<1>3. OneOfWorlds' /\ world'.time = world.time
  BY <1>1, <1>2, WorldStays DEF Types
<1>4. Types'
  BY <1>1, <1>2, <1>3 DEF Types
<1> QED
  BY <1>1, <1>2, <1>4, NothingChanges, TimelyStays, OutsideKeeps

\* Time does not pass by a statement that is due.
LEMMA TickKeeps ==
  ASSUME AccessInv, Tick
  PROVE  AccessInv'
<1>1. /\ now < Start + world.time /\ now' = now + 1
      /\ \A r \in Requests : req[r].pc # "idle" => now < req[r].since + MaxDelay
      /\ UNCHANGED <<world, req, page, tenant, settings, account, session, tokens, until, last>>
  BY DEF Tick, rows
<1>2. Types /\ now \in Nat /\ req \in [Requests -> RequestTypes] /\ world.time \in Nat
  BY WorldFacts DEF AccessInv, Types
<1>3. OneOfWorlds' /\ world'.time = world.time
  BY <1>1, <1>2, WorldStays DEF Types
<1>4. now' \in Nat /\ Start <= now' /\ now' <= Start + world.time /\ now <= now'
  BY <1>1, <1>2, Times DEF Types
<1>5. until' \in [Grounds -> Nat] /\ \A g \in Grounds : until'[g] <= now'
  BY <1>1, <1>2, <1>4 DEF Types
<1>6. Types'
  BY <1>1, <1>2, <1>3, <1>4, <1>5 DEF Types
<1>7. GroundsRemain
  BY <1>1, NothingChanges
<1>8. ASSUME NEW r \in Requests
      PROVE  Timely(req[r])'
  <2>1. req[r] \in RequestTypes /\ Timely(req[r])
    BY <1>2 DEF AccessInv
  <2>2. /\ req[r].since <= now + 1
        /\ req[r].pc # "idle" => now + 1 <= req[r].since + MaxDelay
    BY <2>1, <1>1, <1>2, Times DEF Timely, RequestTypes
  <2> QED
    BY <2>2, <1>1 DEF Timely
<1> QED
  BY <1>1, <1>4, <1>6, <1>7, <1>8, OutsideKeeps

-----------------------------------------------------------------------------
(* The invariant *)

LEMMA InitTypes ==
  ASSUME Init
  PROVE  Types
<1>1. /\ world \in Worlds /\ now = Start /\ tenant = TRUE /\ req = [r \in Requests |-> Idle]
      /\ account = [active |-> TRUE, roles |-> world.roles]
      /\ page = [pc |-> "closed", draft |-> [f \in PageFields |-> FALSE]]
      /\ until = [g \in Grounds |-> 0]
  BY DEF Init
<1>2. /\ world = [field \in DOMAIN world |-> world[field]]
      /\ {"left", "signedIn"} \subseteq DOMAIN world
      /\ world.roles \subseteq Roles /\ world.time \in Nat /\ world.settings \subseteq Settings
  BY <1>1, WorldTypes
<1>3. world.left \in Nat
  BY <1>1, ConstantsAssumption
<1>4. OneOfWorlds
  <2>1. world = [world EXCEPT !.left = world.left]
    BY <1>2
  <2> QED
    BY <2>1, <1>1, <1>3 DEF OneOfWorlds
<1>5. now \in Nat /\ Start <= now /\ now <= Start + world.time
  BY <1>1, <1>2, Times
<1>6. settings \in Settings \union {NoRow}
  BY <1>2 DEF Init
<1>7. account \in [active : BOOLEAN, roles : SUBSET Roles]
  BY <1>1, <1>2
<1>8. session \in [SessionIds -> SessionTypes]
  BY DEF Init, SessionTypes
<1>9. tokens \subseteq Tokens
  <2>1. now + TTL \in Nat /\ Held(world.roles) \subseteq Perms
    BY <1>2, <1>5, Times, HeldPerms
  <2> QED
    BY <2>1 DEF Init, Tokens
<1>10. req \in [Requests -> RequestTypes]
  BY <1>1, IdleType
<1>11. page \in PageTypes
  BY <1>1 DEF PageTypes
<1>12. until \in [Grounds -> Nat] /\ \A g \in Grounds : until[g] <= now
  BY <1>1, <1>5
<1>13. last \in Settings
  <2>1. last = [f \in Fields |-> IF settings = NoRow THEN DEFAULT_SETTINGS[f] ELSE settings[f]]
    BY DEF Init
  <2>2. \A f \in Fields : (IF settings = NoRow THEN DEFAULT_SETTINGS[f] ELSE settings[f]) \in BOOLEAN
    BY <1>6, SettingsTypes DEF Settings
  <2> QED
    BY <2>1, <2>2 DEF Settings
<1> QED
  BY <1>1, <1>4, <1>5, <1>6, <1>7, <1>8, <1>9, <1>10, <1>11, <1>12, <1>13 DEF Types

LEMMA InitKeeps ==
  ASSUME Init
  PROVE  AccessInv
<1>1. Types /\ now \in Nat
  BY InitTypes DEF Types
<1>2. \A r \in Requests : req[r] = Idle
  BY DEF Init
<1>3. \A r \in Requests : Timely(req[r]) /\ Justified(req[r])
  BY <1>1, <1>2, IdleIsJustified
<1>4. ASSUME NEW t \in tokens
      PROVE  TokenStands(t)
  <2>1. t = [session |-> NoSession, perms |-> Held(world.roles), exp |-> now + TTL]
    BY DEF Init
  <2> PICK perms : perms = Held(world.roles)
    OBVIOUS
  <2>2. t.session = NoSession /\ t.perms = perms /\ t.exp = now + TTL
    BY <2>1
  <2>3. account.active /\ Held(account.roles) = perms
    BY DEF Init
  <2>4. perms \subseteq Perms
    <3>1. world.roles \subseteq Roles
      BY <1>1, WorldFacts DEF Types
    <3> QED
      BY <3>1, HeldPerms
  <2>5. \A g \in Own(perms) : Holds(g)
    BY <2>3, <2>4, HoldsNow DEF Own
  <2>6. t.exp <= now + TTL
    BY <2>2, <1>1, Times
  <2> QED
    BY <2>2, <2>5, <2>6 DEF TokenStands, AllHeldSince, HeldSince
<1>5. ASSUME NEW s \in SessionIds
      PROVE  SessionStands(s)
  <2>1. session[s] = [made |-> FALSE, expiresAt |-> 0, endedAt |-> 0,
                      started |-> "no", served |-> FALSE, ends |-> 0]
    BY DEF Init
  <2>2. 0 <= now + TTL /\ 0 <= now
    BY <1>1, Times
  <2> QED
    BY <2>1, <2>2 DEF SessionStands
<1>6. EndsAreRecorded
  BY <1>2, IdleType DEF EndsAreRecorded, RecordsEnd
<1> QED
  BY <1>1, <1>3, <1>4, <1>5, <1>6 DEF AccessInv

LEMMA VarsUnchanged ==
  ASSUME AccessInv, UNCHANGED vars
  PROVE  AccessInv'
<1>1. UNCHANGED <<world, now, tenant, settings, account, session, tokens, req, page, until, last>>
  BY DEF vars
<1>2. Types /\ now \in Nat
  BY DEF AccessInv, Types
<1>3. OneOfWorlds' /\ world'.time = world.time
  BY <1>1, <1>2, WorldStays DEF Types
<1>4. Types'
  BY <1>1, <1>2, <1>3 DEF Types
<1> QED
  BY <1>1, <1>2, <1>4, NothingChanges, TimelyStays, OutsideKeeps

LEMMA NextKeeps ==
  ASSUME AccessInv, [Next]_vars
  PROVE  AccessInv'
<1>1. ASSUME NEW r \in Requests, Call(r)
      PROVE  AccessInv'
  BY <1>1, SignInKeeps, StartImpersonationKeeps, TokenCallKeeps, UpdateCallKeeps DEF Call
<1>2. ASSUME NEW r \in Requests, Proceed(r)
      PROVE  AccessInv'
  <2>1. CASE \/ ResolveTenantActor(r) \/ ResolveActorByAuthAccountId(r) \/ IsTenantActive(r)
             \/ FindTarget(r) \/ FindActiveTenant(r) \/ FindConsent(r)
             \/ AssertValidImpersonation(r) \/ AssertActiveTenant(r)
    BY <2>1, SnapshotKeeps, IsTenantActiveKeeps, StartReadKeeps, AssertValidImpersonationKeeps,
       AssertActiveTenantKeeps
  <2>2. CASE \/ ReadSettings(r) \/ FindSettingsRow(r) \/ ResolveForPage(r)
             \/ ResolveRoleId(r) \/ ReadRoles(r)
    BY <2>2, SettingsReadKeeps
  <2>3. CASE ShowSettings(r) \/ ShowSaved(r) \/ ShowFailure(r)
    BY <2>3, ShowKeeps
  <2>4. CASE \/ IssueTokens(r) \/ CreateSession(r) \/ RecordStarted(r)
             \/ EndImpersonation(r) \/ RecordEnded(r) \/ Handle(r)
    BY <2>4, IssueTokensKeeps, CreateSessionKeeps, RecordStartedKeeps, EndImpersonationKeeps,
       RecordEndedKeeps, HandleKeeps
  <2>5. CASE WriteSettings(r) \/ SetRoles(r)
    BY <2>5, WriteSettingsKeeps, SetRolesKeeps
  <2> QED
    BY <1>2, <2>1, <2>2, <2>3, <2>4, <2>5 DEF Proceed
<1>3. ASSUME NEW f \in PageFields, EditDraft(f)
      PROVE  AccessInv'
  BY <1>3, EditDraftKeeps
<1>4. CASE ToggleAccount \/ FailTenant \/ Tick
  BY <1>4, ToggleAccountKeeps, FailTenantKeeps, TickKeeps
<1>5. CASE UNCHANGED vars
  BY <1>5, VarsUnchanged
<1> QED
  BY <1>1, <1>2, <1>3, <1>4, <1>5 DEF Next

\* What each request relies on was so since a time that its deadlines give, in
\* every state; so was what tokens and support sessions are good for.
THEOREM AccessInvariant == Spec => []AccessInv
<1>1. Init => AccessInv
  BY InitKeeps
<1>2. AccessInv /\ [Next]_vars => AccessInv'
  BY NextKeeps
<1> QED
  BY <1>1, <1>2, PTL DEF Spec

-----------------------------------------------------------------------------
(* What follows *)

LEMMA InvariantTypes == AccessInv => TypeOK
<1> SUFFICES ASSUME AccessInv PROVE TypeOK
  OBVIOUS
<1>1. Types
  BY DEF AccessInv
<1>2. now \in Start .. Start + world.time
  <2>1. now \in Int /\ Start \in Int /\ world.time \in Nat
    BY <1>1, Times, WorldFacts DEF Types
  <2> QED
    BY <2>1, <1>1 DEF Types
<1>3. \A s \in SessionIds : session[s].ends \in Nat /\ session[s].expiresAt <= now + TTL
  BY <1>1 DEF AccessInv, SessionStands, Types, SessionTypes
<1>4. \A t \in tokens : t \in Tokens /\ t.exp <= now + TTL
  BY <1>1 DEF AccessInv, TokenStands, Types
<1>5. ASSUME NEW r \in Requests
      PROVE  req[r].since <= now /\ req[r].lag \in Nat
  <2>1. req[r] \in RequestTypes
    BY <1>1 DEF Types
  <2>2. req[r].since <= now
    BY DEF AccessInv, Timely
  <2> QED
    BY <2>1, <2>2 DEF RequestTypes
<1>6. page.draft \in [PageFields -> BOOLEAN]
  BY <1>1 DEF Types, PageTypes
<1>7. until \in [Grounds -> 0 .. now]
  BY <1>1 DEF Types
<1> QED
  BY <1>1, <1>2, <1>3, <1>4, <1>5, <1>6, <1>7 DEF Types, TypeOK

\* The types of every row, token and request are what the services assume, and
\* no token or support session outlives the 15 minutes it is given.
THEOREM AccessTypeCorrect == Spec => []TypeOK
BY AccessInvariant, InvariantTypes, PTL

LEMMA InvariantJustifies == AccessInv => AccessIsJustified
<1> SUFFICES ASSUME AccessInv PROVE AccessIsJustified
  OBVIOUS
<1>1. StaleAccessIsBounded
  BY DEF AccessInv, Justified, StaleAccessIsBounded
<1>2. ASSUME NEW s \in SessionIds
      PROVE  /\ session[s].ends <= 1 /\ (session[s].ends = 1 => session[s].endedAt # 0)
             /\ session[s].served => session[s].made /\ session[s].started # "no"
  BY DEF AccessInv, SessionStands
<1>3. ASSUME NEW r \in Requests, req[r].pc = "handle", req[r].session # NoSession,
             session[req[r].session].endedAt # 0
      PROVE  now - session[req[r].session].endedAt <= 2 * MaxDelay
  <2>1. /\ req[r].since \in Nat /\ now \in Nat /\ now <= req[r].since + MaxDelay
        /\ Types /\ req[r] \in RequestTypes /\ Justified(req[r])
    BY <1>3, Underway
  <2>2. session[req[r].session].endedAt >= req[r].since - MaxDelay
    BY <2>1, <1>3 DEF Justified
  <2>3. session[req[r].session].endedAt \in Nat
    BY <2>1, <1>3 DEF Types, RequestTypes, SessionTypes
  <2> QED
    BY <2>1, <2>2, <2>3, Times
<1>4. SupportIsAccountable
  BY <1>2, <1>3 DEF SupportIsAccountable
<1> QED
  BY <1>1, <1>4 DEF AccessIsJustified

\* JwtAuthGuard and PermissionsGuard trust the snapshot in a token; even so
\* nobody is let in who was not entitled to it within the life of a token and
\* three statements, or the life of a support session and two; and what an
\* ended session still serves had passed its check before, its end is recorded
\* at most once, and it serves nothing before its row is there and the insert
\* of its start has been made or has failed.
THEOREM AccessIsEarned == Spec => []AccessIsJustified
BY AccessInvariant, InvariantJustifies, PTL

LEMMA StoreOverwrites ==
  ASSUME AccessInv, NoSettingIsLost, NEW r \in Requests, Store(r, EffectiveSettings)
  PROVE  NoSettingIsLost'
<1>1. req[r] \in RequestTypes /\ EffectiveSettings \in Settings
  BY EffectiveType DEF AccessInv, Types
<1>2. settings' = Overwritten(last, req[r]) /\ last' = settings' /\ settings' \in Settings
  BY <1>1, OverwrittenType DEF Store, NoSettingIsLost
<1>3. settings' # NoRow
  BY <1>2, SettingsTypes
<1> QED
  BY <1>2, <1>3 DEF NoSettingIsLost, EffectiveSettings

LEMMA NextKeepsSettings ==
  ASSUME AccessInv, NoSettingIsLost, [Next]_vars
  PROVE  NoSettingIsLost'
<1>1. UNCHANGED <<settings, last>> => NoSettingIsLost'
  BY DEF NoSettingIsLost, EffectiveSettings
<1>2. ASSUME NEW r \in Requests, Call(r)
      PROVE  UNCHANGED <<settings, last>>
  BY <1>2 DEF Call, Login, Refresh, StartImpersonation, UseToken, Exit, Present, UpdateSettings,
     OpenPage, SubmitPage, UpdateUser, Begin, rows
<1>3. ASSUME NEW r \in Requests, WriteSettings(r)
      PROVE  NoSettingIsLost'
  BY <1>1, <1>3, StoreOverwrites DEF WriteSettings, RefuseWrite
<1>4. ASSUME NEW r \in Requests, Proceed(r), ~WriteSettings(r)
      PROVE  UNCHANGED <<settings, last>>
  <2>1. CASE \/ ResolveTenantActor(r) \/ ResolveActorByAuthAccountId(r) \/ IsTenantActive(r)
             \/ FindTarget(r) \/ FindActiveTenant(r) \/ FindConsent(r)
             \/ AssertValidImpersonation(r) \/ AssertActiveTenant(r)
             \/ ReadSettings(r) \/ FindSettingsRow(r) \/ ResolveForPage(r)
             \/ ResolveRoleId(r) \/ ReadRoles(r)
             \/ ShowSettings(r) \/ ShowSaved(r) \/ ShowFailure(r)
    BY <2>1 DEF ResolveTenantActor, ResolveActorByAuthAccountId, IsTenantActive, FindTarget,
       FindActiveTenant, FindConsent, HasRead, AssertValidImpersonation, AssertActiveTenant,
       ReadSettings, FindSettingsRow, ResolveForPage, ResolveRoleId, ReadRoles, ShowSettings,
       ShowSaved, ShowFailure, rows
  <2>2. CASE \/ IssueTokens(r) \/ CreateSession(r) \/ RecordStarted(r)
             \/ EndImpersonation(r) \/ RecordEnded(r) \/ Handle(r) \/ SetRoles(r)
    BY <2>2 DEF IssueTokens, CreateSession, RecordStarted, EndImpersonation, RecordEnded, Handle,
       SetRoles
  <2> QED
    BY <1>4, <2>1, <2>2 DEF Proceed
<1>5. ASSUME NEW f \in PageFields, EditDraft(f)
      PROVE  UNCHANGED <<settings, last>>
  BY <1>5 DEF EditDraft, rows
<1>6. ASSUME ToggleAccount \/ FailTenant \/ Tick \/ UNCHANGED vars
      PROVE  UNCHANGED <<settings, last>>
  BY <1>6 DEF ToggleAccount, FailTenant, Tick, rows, vars
<1> QED
  BY <1>1, <1>2, <1>3, <1>4, <1>5, <1>6 DEF Next

\* Every setting is what the last accepted PATCH that named it made of it: a
\* body names some fields, the statement overwrites these, and the first writes
\* of two callers cannot both insert the row.
THEOREM NoSettingIsEverLost == Spec => []NoSettingIsLost
<1>1. Init => NoSettingIsLost
  <2> SUFFICES ASSUME Init PROVE NoSettingIsLost
    OBVIOUS
  <2>1. settings \in Settings \union {NoRow}
    BY InitTypes DEF Types
  <2>2. last = [f \in Fields |-> IF settings = NoRow THEN DEFAULT_SETTINGS[f] ELSE settings[f]]
    BY DEF Init
  <2>3. CASE settings = NoRow
    BY <2>2, <2>3 DEF NoSettingIsLost, EffectiveSettings, DEFAULT_SETTINGS
  <2>4. CASE settings # NoRow
    BY <2>1, <2>2, <2>4 DEF NoSettingIsLost, EffectiveSettings, Settings
  <2> QED
    BY <2>3, <2>4
<1>2. AccessInv /\ NoSettingIsLost /\ [Next]_vars => NoSettingIsLost'
  BY NextKeepsSettings
<1> QED
  BY <1>1, <1>2, AccessInvariant, PTL DEF Spec

LEMMA NextLetsSessionsGoOn ==
  ASSUME AccessInv, [Next]_vars
  PROVE  SessionsGoOn
<1> USE SessionsStay
<1>1. ASSUME NEW r \in Requests, Call(r)
      PROVE  SessionsGoOn
  BY <1>1 DEF Call, Login, Refresh, StartImpersonation, UseToken, Exit, Present, UpdateSettings,
     OpenPage, SubmitPage, UpdateUser, Begin, rows
<1>2. ASSUME NEW r \in Requests, Proceed(r)
      PROVE  SessionsGoOn
  <2>1. now \in Nat /\ session \in [SessionIds -> SessionTypes]
    BY DEF AccessInv, Types
  <2>2. \A s \in SessionIds : ~session[s].made => session[s].started = "no"
    BY DEF AccessInv, SessionStands
  <2>3. CASE \/ ResolveTenantActor(r) \/ ResolveActorByAuthAccountId(r) \/ IsTenantActive(r)
             \/ FindTarget(r) \/ FindActiveTenant(r) \/ FindConsent(r)
             \/ AssertValidImpersonation(r) \/ AssertActiveTenant(r)
             \/ ReadSettings(r) \/ FindSettingsRow(r) \/ ResolveForPage(r)
             \/ ResolveRoleId(r) \/ ReadRoles(r)
             \/ ShowSettings(r) \/ ShowSaved(r) \/ ShowFailure(r)
             \/ IssueTokens(r) \/ WriteSettings(r) \/ SetRoles(r)
    BY <2>3 DEF ResolveTenantActor, ResolveActorByAuthAccountId, IsTenantActive, FindTarget,
       FindActiveTenant, FindConsent, HasRead, AssertValidImpersonation, AssertActiveTenant,
       ReadSettings, FindSettingsRow, ResolveForPage, ResolveRoleId, ReadRoles, ShowSettings,
       ShowSaved, ShowFailure, IssueTokens, WriteSettings, SetRoles, rows
  <2>4. CASE CreateSession(r)
    BY <2>1, <2>2, <2>4 DEF CreateSession, SessionsGoOn, SessionTypes
  <2>5. CASE RecordStarted(r)
    <3> PICK recording \in Recordings :
          session' = [session EXCEPT ![req[r].session].started = recording]
      BY <2>5 DEF RecordStarted
    <3>1. recording # "no"
      BY DEF Recordings
    <3> QED
      BY <2>1, <3>1 DEF SessionsGoOn, SessionTypes
  <2>8. CASE RecordEnded(r)
    <3> PICK recording \in Recordings :
          session' = [session EXCEPT ![req[r].session].ends =
                        IF recording = "recorded" THEN @ + 1 ELSE @]
      BY <2>8 DEF RecordEnded
    <3> QED
      BY <2>1 DEF SessionsGoOn, SessionTypes
  <2>6. CASE Handle(r)
    BY <2>1, <2>6 DEF Handle, SessionsGoOn, SessionTypes
  <2>7. CASE EndImpersonation(r)
    BY <2>1, <2>7 DEF EndImpersonation, SessionsGoOn, SessionTypes
  <2> QED
    BY <1>2, <2>3, <2>4, <2>5, <2>6, <2>7, <2>8 DEF Proceed
<1>3. ASSUME NEW f \in PageFields, EditDraft(f)
      PROVE  SessionsGoOn
  BY <1>3 DEF EditDraft, rows
<1>4. ASSUME ToggleAccount \/ FailTenant \/ Tick \/ UNCHANGED vars
      PROVE  SessionsGoOn
  BY <1>4 DEF ToggleAccount, FailTenant, Tick, rows, vars
<1> QED
  BY <1>1, <1>2, <1>3, <1>4 DEF Next

\* No step prolongs or reopens a support session: what start() wrote stands,
\* and updateMany({ ..., endedAt: null }) leaves the first end as it is.
THEOREM SessionsAreFinal == Spec => [][SessionsGoOn]_vars
<1>1. AccessInv /\ [Next]_vars => [SessionsGoOn]_vars
  BY NextLetsSessionsGoOn
<1> QED
  BY <1>1, AccessInvariant, PTL DEF Spec

=============================================================================
