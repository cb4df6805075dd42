-------------------------- MODULE OnboardingProofs --------------------------
(***************************************************************************)
(* createOnboardingAttempt(), its queue and its worker keep the promise of *)
(* Onboarding for every number of keys, payloads, requests, pages and runs *)
(* of a job, and whatever fails, stalls or overruns its time; and the list *)
(* of tenants is of its filters.                                           *)
(***************************************************************************)
EXTENDS TenantDirectory, FiniteSetTheorems, TLAPS

\* The rows, with their types.
CallTypes ==
  [pc : {"idle", "find", "slug", "insert", "findWinner", "enqueue", "map", "answered"},
   key : Keys \union {Nothing}, payload : Payloads \union {Nothing},
   replayed : BOOLEAN, looks : Nat, answer : Contract!Answers \union {Nothing}]
AttemptTypes == [status : Statuses, payload : Payloads] \union {Absent}
TenantStatuses == {"none", "PROVISIONING", "ACTIVE", "FAILED"}
TenantTypes == [of : Keys \union {Nothing}, status : TenantStatuses]
States == {"none", "waiting", "done", "failed"} \union Running
LateRuns == (0 .. MaxRuns) \X (Abortable \union Compensating)
JobTypes ==
  [state : States, runs : 0 .. MaxRuns, stalls : 0 .. MaxStalls, timer : BOOLEAN,
   late : SUBSET LateRuns]
RowsOK ==
  /\ attempt \in [Keys -> AttemptTypes]
  /\ tenant \in [Slugs -> TenantTypes]
  /\ job \in [Keys -> JobTypes]
  /\ trouble \in [Keys -> SUBSET Contract!Troubles]
  /\ req \in [Requests -> CallTypes]

\* What a call may take for granted where it stands: it goes on to the queue
\* only with an attempt that has its payload, and answers only after it.
Knows(call) ==
  /\ call.pc # "idle" => call.key \in Keys /\ call.payload \in Payloads
  /\ call.pc = "findWinner" => attempt[call.key] # Absent /\ call.looks > 0
  /\ call.pc \in {"enqueue", "map"} =>
       attempt[call.key] # Absent /\ attempt[call.key].payload = call.payload
  /\ call.pc = "map" => job[call.key].state # "none"
  /\ call.pc = "answered" => call.answer \in Contract!Answers
  /\ call.pc = "answered" /\ call.answer \in Contract!Acceptances \union {"conflict"} =>
       attempt[call.key] # Absent
  /\ call.pc = "answered" /\ call.answer = "conflict" =>
       attempt[call.key].payload # call.payload

\* An attempt that has been claimed; where the runs of its job stand; and the
\* tenant that is its own.
Claimed(k) == attempt[k].status \notin {"none", "accepted"}
RunsAt(k) == {job[k].state} \union {run[2] : run \in job[k].late}
TenantHas(k, S) == Owns(k) /\ tenant[SlugOf(k)].status \in S

\* A job is there before its attempt is claimed, one that may still run has a
\* run left, and no run goes on that has not overrun.
JobIs(k) ==
  /\ job[k].state = "none" => ~Claimed(k) /\ trouble[k] = {}
  /\ job[k].state # "none" => attempt[k] # Absent
  /\ job[k].state \notin {"done", "failed"} => job[k].runs > 0
  /\ job[k].late # {} => Overran(k)

\* What a run may take for granted where it stands, whatever the others do.
WithTenant == {"reset", "created", "provision", "finish", "compensate", "cleanup"}
RunsAgree(k) ==
  /\ RunsAt(k) \intersect WithTenant # {} => Owns(k)
  /\ RunsAt(k) \intersect {"create", "fail"} # {} => Claimed(k)
  /\ "fail" \in RunsAt(k) /\ Owns(k) => TenantHas(k, {"FAILED"}) \/ trouble[k] # {}

\* A success is of a tenant that has been activated, and for as long as no run
\* overruns its time each has the attempt as it left it.
Succeeding(k) == attempt[k].status = "succeeded" \/ job[k].state = "finish"
Working == {"create", "created", "provision", "finish"} \union Compensating
InTime(k) ==
  /\ job[k].state # "timedOut"
  /\ job[k].state \in Working => attempt[k].status = "provisioning"
  /\ job[k].state = "reset" => attempt[k].status = "failed"
  /\ job[k].state = "create" => ~Owns(k)
  /\ Succeeding(k) => TenantHas(k, {"ACTIVE"})

KeyInv(k) ==
  /\ JobIs(k)
  /\ RunsAgree(k)
  /\ Succeeding(k) => TenantHas(k, {"ACTIVE", "FAILED"})
  /\ ~Overran(k) => InTime(k)

\* A tenant belongs to an attempt that has been claimed.
TenantOwned(s) ==
  IF tenant[s].of = Nothing THEN tenant[s].status = "none"
  ELSE tenant[s].status # "none" /\ Claimed(tenant[s].of)

KeptInv ==
  /\ RowsOK
  /\ \A r \in Requests : Knows(req[r])
  /\ \A k \in Keys : KeyInv(k)
  /\ \A s \in Slugs : TenantOwned(s)

-----------------------------------------------------------------------------
(* Types *)

LEMMA RowTypes ==
  /\ Absent \in AttemptTypes /\ NoTenant \in TenantTypes /\ NoJob \in JobTypes
  /\ NoCall \in CallTypes
  /\ Nothing \notin Keys \union Payloads /\ "unreserved" \notin Payloads
<1>1. Absent \in AttemptTypes /\ NoTenant \in TenantTypes
  BY DEF AttemptTypes, NoTenant, TenantTypes, TenantStatuses
<1>2. NoJob \in JobTypes
  BY ConstantsAssumption DEF NoJob, JobTypes, States
<1>3. NoCall \in CallTypes
  BY DEF NoCall, CallTypes
<1>4. Nothing \notin Keys \union Payloads /\ "unreserved" \notin Payloads
  BY ConstantsAssumption DEF Nothing
<1>5. QED
  BY <1>1, <1>2, <1>3, <1>4

LEMMA SlugType == ASSUME NEW p \in Payloads PROVE Slug(p) \in Slugs
BY DEF Slugs

\* An attempt is none, or has one of the five statuses and a payload.
LEMMA AttemptIs ==
  ASSUME NEW a \in AttemptTypes
  PROVE  /\ a.status = "none" => a = Absent
         /\ a # Absent => a.status \in Statuses /\ a.payload \in Payloads
         /\ Absent.status = "none" /\ Absent.payload = Nothing
         /\ "none" \notin Statuses
BY DEF AttemptTypes, Absent, Statuses, Terminal

LEMMA KeptInit == Init => KeptInv
<1> SUFFICES ASSUME Init PROVE KeptInv
  OBVIOUS
<1>1. RowsOK
  BY RowTypes DEF Init, RowsOK, Contract!Troubles
<1>2. \A r \in Requests : Knows(req[r])
  BY DEF Init, Knows, NoCall
<1>3. ASSUME NEW k \in Keys PROVE KeyInv(k)
  <2>1. attempt[k] = Absent /\ job[k] = NoJob /\ trouble[k] = {}
    BY DEF Init
  <2>2. RunsAt(k) = {"none"} /\ job[k].state = "none" /\ job[k].runs = MaxRuns /\ job[k].late = {}
    BY <2>1 DEF RunsAt, NoJob
  <2>3. attempt[k].status = "none"
    BY <2>1 DEF Absent
  <2>4. JobIs(k)
    BY <2>1, <2>2, <2>3, ConstantsAssumption DEF JobIs, Claimed
  <2>5. RunsAgree(k) /\ ~Succeeding(k) /\ InTime(k)
    BY <2>1, <2>2, <2>3 DEF RunsAgree, WithTenant, Succeeding, InTime, Working, Compensating
  <2>6. QED
    BY <2>4, <2>5 DEF KeyInv
<1>4. \A s \in Slugs : TenantOwned(s)
  BY DEF Init, TenantOwned, NoTenant
<1>5. QED
  BY <1>1, <1>2, <1>3, <1>4 DEF KeptInv

-----------------------------------------------------------------------------
(* The calls *)

\* What is known of the attempts and the tenants stays while their rows do.
LEMMA KeysSame ==
  ASSUME NEW k, UNCHANGED <<tenant, trouble>>, attempt'[k] = attempt[k], job'[k] = job[k]
  PROVE  KeyInv(k)' <=> KeyInv(k)
BY DEF KeyInv, JobIs, RunsAgree, Succeeding, InTime, RunsAt, TenantHas, Claimed, Owns, SlugOf,
       Overran

LEMMA TenantsSame ==
  ASSUME NEW s, UNCHANGED <<attempt, tenant>>
  PROVE  TenantOwned(s)' <=> TenantOwned(s)
BY DEF TenantOwned, Claimed

\* One call moves and no row changes.
LEMMA CallMoves ==
  ASSUME KeptInv, NEW r \in Requests, NEW call \in CallTypes, Knows(call),
         req' = [req EXCEPT ![r] = call], UNCHANGED dataVars
  PROVE  KeptInv'
<1>1. RowsOK' /\ \A q \in Requests : req'[q] = IF q = r THEN call ELSE req[q]
  BY DEF KeptInv, RowsOK, dataVars
<1>2. \A q \in Requests : Knows(req[q])'
  BY <1>1 DEF KeptInv, Knows, dataVars
<1>3. QED
  BY <1>1, <1>2, KeysSame, TenantsSame DEF KeptInv, dataVars

\* A step of a call leaves its key and its payload.
Becomes(call, new, pc) ==
  new \in CallTypes /\ new.pc = pc /\ new.key = call.key /\ new.payload = call.payload

LEMMA CallTypesKept ==
  ASSUME NEW call \in CallTypes
  PROVE  /\ \A pc \in {"slug", "insert", "findWinner", "enqueue", "map"} :
              Becomes(call, [call EXCEPT !.pc = pc], pc)
         /\ \A answer \in Contract!Answers :
              LET new == [call EXCEPT !.pc = "answered", !.answer = answer] IN
              Becomes(call, new, "answered") /\ new.answer = answer
         /\ Becomes(call, [call EXCEPT !.pc = "enqueue", !.replayed = TRUE], "enqueue")
         /\ LET new == [call EXCEPT !.pc = "findWinner", !.looks = Visible] IN
            Becomes(call, new, "findWinner") /\ new.looks > 0
         /\ call.looks > 1 =>
              LET new == [call EXCEPT !.looks = @ - 1] IN
              Becomes(call, new, call.pc) /\ new.looks > 0
<1> USE DEF Becomes
<1>1. \A pc \in {"slug", "insert", "findWinner", "enqueue", "map"} :
        Becomes(call, [call EXCEPT !.pc = pc], pc)
  BY DEF CallTypes
<1>2. \A answer \in Contract!Answers :
        LET new == [call EXCEPT !.pc = "answered", !.answer = answer] IN
        Becomes(call, new, "answered") /\ new.answer = answer
  BY DEF CallTypes
<1>3. Becomes(call, [call EXCEPT !.pc = "enqueue", !.replayed = TRUE], "enqueue")
  BY DEF CallTypes
<1>4. LET new == [call EXCEPT !.pc = "findWinner", !.looks = Visible] IN
      Becomes(call, new, "findWinner") /\ new.looks > 0
  <2>1. Visible \in Nat /\ Visible > 0
    BY DEF Visible
  <2>2. QED
    BY <2>1 DEF CallTypes
<1>5. call.looks > 1 =>
        LET new == [call EXCEPT !.looks = @ - 1] IN
        Becomes(call, new, call.pc) /\ new.looks > 0
  BY DEF CallTypes
<1>6. QED
  BY <1>1, <1>2, <1>3, <1>4, <1>5

-----------------------------------------------------------------------------
(* Answers *)

\* What the contract asks of an answer to this call.
MayTell(call, answer) ==
  /\ answer \in Contract!Answers
  /\ answer \in Contract!Acceptances =>
       /\ attempt[call.key] # Absent /\ attempt[call.key].payload = call.payload
       /\ job[call.key].state # "none"
  /\ answer = "conflict" =>
       attempt[call.key] # Absent /\ attempt[call.key].payload # call.payload

Promise == [Contract!ContractNext]_(Contract!contractVars)

\* A call that goes on, or is answered as the contract allows.
CallStep(r, call) ==
  /\ req[r].pc \notin {"idle", "answered"}
  /\ req' = [req EXCEPT ![r] = call]
  /\ UNCHANGED dataVars
  /\ call.pc = "answered" => MayTell(req[r], call.answer)

LEMMA CallPromise ==
  ASSUME KeptInv, NEW r \in Requests, NEW call \in CallTypes, CallStep(r, call)
  PROVE  Promise
<1>1. /\ attempt' = attempt /\ job' = job /\ tenant' = tenant /\ trouble' = trouble
      /\ req' \in [Requests -> CallTypes] /\ req'[r] = call
      /\ \A q \in Requests : q # r => req'[q] = req[q]
  BY DEF CallStep, dataVars, KeptInv, RowsOK
<1>2. UNCHANGED <<[k \in Keys |-> IF attempt[k] = Absent THEN "unreserved" ELSE attempt[k].payload],
                  {k \in Keys : job[k].state # "none"},
                  [k \in Keys |-> OutcomeOf(k)]>>
  BY <1>1 DEF OutcomeOf
<1> DEFINE told == [q \in Requests |-> IF req[q].pc = "answered" THEN req[q].answer ELSE "silence"]
           k == req[r].key
           p == req[r].payload
<1>3. k \in Keys /\ p \in Payloads /\ attempt[k] \in AttemptTypes
  BY DEF CallStep, KeptInv, Knows, RowsOK
<1>4. told[r] = "silence"
  BY DEF CallStep
<1>5. CASE call.pc = "answered"
  <2>1. told' = [told EXCEPT ![r] = call.answer]
    BY <1>1, <1>5
  <2>2. Contract!Tell(r, k, p, call.answer)
    BY <1>1, <1>2, <1>3, <1>4, <1>5, <2>1, AttemptIs, RowTypes
    DEF CallStep, MayTell, Contract!Tell, Contract!Silence, Contract!Unreserved
  <2>3. QED
    BY <1>3, <1>5, <2>2 DEF CallStep, MayTell, Promise, Contract!ContractNext
<1>6. CASE call.pc # "answered"
  <2>1. told' = told
    BY <1>1, <1>4, <1>6
  <2>2. QED
    BY <1>1, <1>2, <2>1 DEF Promise, Contract!contractVars
<1>7. QED
  BY <1>5, <1>6

\* A call goes on, or is answered as the contract allows.
Continues(r) ==
  \E call \in CallTypes :
    /\ Knows(call) /\ req' = [req EXCEPT ![r] = call]
    /\ call.pc = "answered" => MayTell(req[r], call.answer)

LEMMA AnswerContinues ==
  ASSUME KeptInv, NEW r \in Requests, req[r].pc # "idle",
         NEW answer, Answer(r, answer), MayTell(req[r], answer)
  PROVE  Continues(r)
<1> DEFINE call == [req[r] EXCEPT !.pc = "answered", !.answer = answer]
<1>1. /\ req[r] \in CallTypes /\ answer \in Contract!Answers
      /\ req[r].key \in Keys /\ req[r].payload \in Payloads
  BY DEF KeptInv, RowsOK, Knows, MayTell
<1>2. Becomes(req[r], call, "answered") /\ call.answer = answer
  BY <1>1, CallTypesKept
<1>3. Knows(call)
  BY <1>1, <1>2 DEF Knows, Becomes, MayTell
<1>4. req' = [req EXCEPT ![r] = call]
  BY DEF Answer
<1>5. QED
  BY <1>2, <1>3, <1>4 DEF Continues, Becomes

\* resolveExistingAttempt(), on the row as it is.
LEMMA ResolveContinues ==
  ASSUME KeptInv, NEW r \in Requests, req[r].pc \in {"find", "findWinner"},
         attempt[req[r].key] # Absent, ResolveExisting(r, attempt[req[r].key])
  PROVE  Continues(r)
<1> DEFINE k == req[r].key
<1>1. /\ k \in Keys /\ req[r].payload \in Payloads /\ req[r] \in CallTypes
      /\ attempt[k] \in AttemptTypes /\ JobIs(k)
  BY DEF KeptInv, Knows, RowsOK, KeyInv
<1>2. attempt[k].status # "none" /\ attempt[k].status \in Statuses
  BY <1>1, AttemptIs
<1>3. CASE ~SafePayloadsMatch(attempt[k], req[r].payload)
  <2>1. Answer(r, "conflict") /\ MayTell(req[r], "conflict")
    BY <1>3 DEF ResolveExisting, SafePayloadsMatch, MayTell, Contract!Answers, Contract!Acceptances
  <2>2. QED
    BY <2>1, AnswerContinues
<1>4. CASE SafePayloadsMatch(attempt[k], req[r].payload) /\ attempt[k].status = "accepted"
  <2> DEFINE call == [req[r] EXCEPT !.pc = "enqueue", !.replayed = TRUE]
  <2>1. Becomes(req[r], call, "enqueue") /\ req' = [req EXCEPT ![r] = call]
    BY <1>1, <1>4, CallTypesKept DEF ResolveExisting
  <2>2. Knows(call)
    BY <1>1, <1>4, <2>1 DEF Knows, SafePayloadsMatch, Becomes
  <2>3. QED
    BY <2>1, <2>2 DEF Continues, Becomes
<1>5. CASE SafePayloadsMatch(attempt[k], req[r].payload) /\ attempt[k].status # "accepted"
  <2>1. Answer(r, "replayed") /\ MayTell(req[r], "replayed")
    BY <1>1, <1>2, <1>5
    DEF ResolveExisting, SafePayloadsMatch, JobIs, Claimed, MayTell, Contract!Answers, Contract!Acceptances
  <2>2. QED
    BY <2>1, AnswerContinues
<1>6. QED
  BY <1>3, <1>4, <1>5

LEMMA CallActions ==
  ASSUME KeptInv, NEW r \in Requests,
         FindAttempt(r) \/ FindTenant(r) \/ FindWinner(r) \/ MissWinner(r)
           \/ AcceptRequest(r) \/ FailEnqueue(r)
  PROVE  KeptInv' /\ Promise
<1>1. /\ req[r] \in CallTypes /\ req[r].pc \notin {"idle", "answered"}
      /\ req[r].key \in Keys /\ req[r].payload \in Payloads /\ Knows(req[r])
  BY DEF KeptInv, RowsOK, Knows, FindAttempt, FindTenant, FindWinner, MissWinner, AcceptRequest,
         FailEnqueue, At
<1>2. UNCHANGED dataVars
  BY DEF FindAttempt, FindTenant, FindWinner, MissWinner, AcceptRequest, FailEnqueue
<1>3. MayTell(req[r], "refused") /\ MayTell(req[r], "error")
  BY DEF MayTell, Contract!Answers, Contract!Acceptances
<1>4. ASSUME NEW pc \in {"slug", "insert"}, Goto(r, pc) PROVE Continues(r)
  <2> DEFINE call == [req[r] EXCEPT !.pc = pc]
  <2>1. Becomes(req[r], call, pc) /\ req' = [req EXCEPT ![r] = call]
    BY <1>1, <1>4, CallTypesKept DEF Goto
  <2>2. Knows(call)
    BY <1>1, <2>1 DEF Knows, Becomes
  <2>3. QED
    BY <2>1, <2>2 DEF Continues, Becomes
<1>5. Continues(r)
  <2>1. CASE FindAttempt(r)
    BY <1>4, <2>1, ResolveContinues DEF FindAttempt, At
  <2>2. CASE FindTenant(r)
    BY <1>1, <1>3, <1>4, <2>2, AnswerContinues DEF FindTenant
  <2>3. CASE FindWinner(r)
    BY <1>1, <2>3, ResolveContinues DEF FindWinner, At, Knows
  <2>4. CASE MissWinner(r)
    <3>1. CASE req[r].looks = 1
      BY <1>1, <1>3, <2>4, <3>1, AnswerContinues DEF MissWinner
    <3>2. CASE req[r].looks # 1
      <4> DEFINE call == [req[r] EXCEPT !.looks = @ - 1]
      <4>1. req[r].pc = "findWinner" /\ req[r].looks > 1
        BY <1>1, <2>4, <3>2 DEF MissWinner, At, Knows, CallTypes
      <4>2. Becomes(req[r], call, "findWinner") /\ call.looks > 0
        BY <1>1, <4>1, CallTypesKept
      <4>3. req' = [req EXCEPT ![r] = call]
        BY <2>4, <3>2 DEF MissWinner
      <4>4. Knows(call)
        BY <1>1, <4>1, <4>2 DEF Knows, Becomes
      <4>5. QED
        BY <4>2, <4>3, <4>4 DEF Continues, Becomes
    <3>3. QED
      BY <3>1, <3>2
  <2>5. CASE AcceptRequest(r)
    <3>1. \A answer \in {"created", "replayed"} : MayTell(req[r], answer)
      BY <1>1, <2>5 DEF AcceptRequest, At, Knows, MayTell, Contract!Answers, Contract!Acceptances
    <3>2. QED
      BY <1>1, <2>5, <3>1, AnswerContinues DEF AcceptRequest
  <2>6. CASE FailEnqueue(r)
    BY <1>1, <1>3, <2>6, AnswerContinues DEF FailEnqueue
  <2>7. QED
    BY <2>1, <2>2, <2>3, <2>4, <2>5, <2>6
<1>6. QED
  BY <1>1, <1>2, <1>5, CallMoves, CallPromise DEF CallStep, Continues

-----------------------------------------------------------------------------
(* Steps of a call that write a row                                          *)

\* The contract's variables, by the rows they are read from.
LEMMA ReservePromise ==
  ASSUME NEW k \in Keys, NEW p \in Payloads, NEW row \in AttemptTypes,
         attempt \in [Keys -> AttemptTypes], attempt[k] = Absent,
         row # Absent, row.payload = p,
         attempt' = [attempt EXCEPT ![k] = row],
         UNCHANGED <<tenant, job, trouble>>,
         \A x \in Keys : OutcomeOf(x)' = OutcomeOf(x),
         \A q \in Requests : (IF req'[q].pc = "answered" THEN req'[q].answer ELSE "silence")
                               = IF req[q].pc = "answered" THEN req[q].answer ELSE "silence"
  PROVE  Promise
<1> DEFINE reserved == [x \in Keys |-> IF attempt[x] = Absent THEN "unreserved" ELSE attempt[x].payload]
<1>1. reserved' = [reserved EXCEPT ![k] = p]
  <2>1. \A x \in Keys : reserved'[x] = IF x = k THEN p ELSE reserved[x]
    OBVIOUS
  <2>2. reserved' = [x \in Keys |-> IF x = k THEN p ELSE reserved[x]]
    BY <2>1
  <2>3. QED
    BY <2>2
<1>2. reserved[k] = "unreserved"
  OBVIOUS
<1>3. Contract!Reserve(k, p)
  BY <1>1, <1>2 DEF Contract!Reserve, Contract!Unreserved
<1>4. Contract!ContractNext
  BY <1>3 DEF Contract!ContractNext
<1>5. QED
  BY <1>4 DEF Promise

LEMMA InsertKept ==
  ASSUME KeptInv, NEW r \in Requests, InsertAttempt(r),
         NEW k \in Keys, k = req[r].key, NEW p \in Payloads, p = req[r].payload
  PROVE  KeptInv' /\ Promise
<1> DEFINE row == [status |-> "accepted", payload |-> p]
<1>1. /\ req[r] \in CallTypes /\ req[r].pc = "insert"
      /\ Knows(req[r]) /\ UNCHANGED <<tenant, job, trouble>>
      /\ attempt \in [Keys -> AttemptTypes] /\ req \in [Requests -> CallTypes]
  BY DEF KeptInv, RowsOK, InsertAttempt, At
<1>2. CASE attempt[k] # Absent
  <2> DEFINE call == [req[r] EXCEPT !.pc = "findWinner", !.looks = Visible]
  <2>1. Becomes(req[r], call, "findWinner") /\ call.looks > 0
    BY <1>1, CallTypesKept
  <2>2. Knows(call) /\ req' = [req EXCEPT ![r] = call] /\ UNCHANGED dataVars
    BY <1>1, <1>2, <2>1 DEF Knows, Becomes, InsertAttempt, dataVars
  <2>3. QED
    BY <1>1, <2>1, <2>2, CallMoves, CallPromise DEF CallStep, Becomes
<1>3. CASE attempt[k] = Absent
  <2> DEFINE call == [req[r] EXCEPT !.pc = "enqueue"]
  <2>1. Becomes(req[r], call, "enqueue")
    BY <1>1, CallTypesKept
  <2>2. req' = [req EXCEPT ![r] = call] /\ attempt' = [attempt EXCEPT ![k] = row]
    BY <1>1, <1>3 DEF InsertAttempt, Goto
  <2>3. row \in AttemptTypes /\ row # Absent /\ row.status = "accepted" /\ row.payload = p
    BY DEF AttemptTypes, Statuses, Absent
  <2> HIDE DEF call, row
  <2>4. /\ attempt'[k] = row /\ \A x \in Keys : x # k => attempt'[x] = attempt[x]
        /\ req'[r] = call /\ \A q \in Requests : q # r => req'[q] = req[q]
    BY <1>1, <2>2
  <2>5. \A x \in Keys : attempt[x] # Absent => attempt'[x] = attempt[x]
    BY <1>3, <2>4
  <2>6. RowsOK'
    BY <1>1, <2>1, <2>2, <2>3 DEF KeptInv, RowsOK, Becomes
  <2>7. ASSUME NEW q \in Requests PROVE Knows(req[q])'
    <3>1. CASE q = r
      <4>1. /\ req'[q].pc = "enqueue" /\ req'[q].key = k /\ req'[q].payload = p
            /\ attempt'[k] # Absent /\ attempt'[k].payload = p
        BY <2>1, <2>3, <2>4, <3>1 DEF Becomes
      <4>2. QED
        BY <4>1 DEF Knows
    <3>2. CASE q # r
      <4>1. Knows(req[q]) /\ req'[q] = req[q]
        BY <2>4, <3>2 DEF KeptInv
      <4>2. QED
        BY <1>1, <2>5, <4>1 DEF Knows
    <3>3. QED
      BY <3>1, <3>2
  <2>8. ASSUME NEW x \in Keys PROVE KeyInv(x)'
    <3>1. CASE x = k
      <4>1. job'[k].state = "none" /\ KeyInv(k) /\ job'[k] = job[k] /\ trouble'[k] = trouble[k]
        BY <1>1, <1>3 DEF KeptInv, KeyInv, JobIs
      <4>2. ~Claimed(k)' /\ attempt'[k].status = "accepted"
        BY <2>3, <2>4 DEF Claimed
      <4>3. job'[k].late = {} /\ RunsAt(k)' = {"none"}
        BY <4>1 DEF KeyInv, JobIs, Overran, RunsAt
      <4>4. JobIs(k)'
        BY <4>1, <4>2, <4>3 DEF KeyInv, JobIs
      <4>5. RunsAgree(k)' /\ ~Succeeding(k)' /\ InTime(k)'
        BY <4>1, <4>2, <4>3 DEF RunsAgree, WithTenant, Succeeding, InTime, Working, Compensating
      <4>6. QED
        BY <3>1, <4>4, <4>5 DEF KeyInv
    <3>2. CASE x # k
      BY <1>1, <2>4, <3>2, KeysSame DEF KeptInv
    <3>3. QED
      BY <3>1, <3>2
  <2>9. \A s \in Slugs : TenantOwned(s)'
    <3>1. ASSUME NEW s \in Slugs, tenant[s].of # Nothing
          PROVE  tenant[s].of \in Keys /\ attempt'[tenant[s].of] = attempt[tenant[s].of]
                 /\ Claimed(tenant[s].of)
      BY <1>3, <2>4, <3>1 DEF KeptInv, RowsOK, TenantTypes, TenantOwned, Absent, Claimed
    <3>2. QED
      BY <1>1, <3>1 DEF KeptInv, TenantOwned, Claimed
  <2>10. ASSUME NEW x \in Keys PROVE OutcomeOf(x)' = OutcomeOf(x)
    BY <1>3, <2>3, <2>4 DEF OutcomeOf, Terminal, Absent
  <2>11. \A q \in Requests : (IF req'[q].pc = "answered" THEN req'[q].answer ELSE "silence")
                               = IF req[q].pc = "answered" THEN req[q].answer ELSE "silence"
    BY <1>1, <2>1, <2>4 DEF Becomes
  <2>12. Promise
    BY <1>1, <1>3, <2>2, <2>3, <2>10, <2>11, ReservePromise
  <2>13. QED
    BY <2>6, <2>7, <2>8, <2>9, <2>12 DEF KeptInv
<1>4. QED
  BY <1>2, <1>3

LEMMA SchedulePromise ==
  ASSUME NEW k \in Keys, attempt[k] # Absent, attempt[k] \in AttemptTypes,
         UNCHANGED <<attempt, tenant, trouble>>,
         job'[k].state # "none", \A x \in Keys : x # k => job'[x] = job[x],
         \A q \in Requests : (IF req'[q].pc = "answered" THEN req'[q].answer ELSE "silence")
                               = IF req[q].pc = "answered" THEN req[q].answer ELSE "silence"
  PROVE  Promise
<1>1. {x \in Keys : job[x].state # "none"}' = {x \in Keys : job[x].state # "none"} \union {k}
  OBVIOUS
<1>2. [x \in Keys |-> IF attempt[x] = Absent THEN "unreserved" ELSE attempt[x].payload][k]
        # "unreserved"
  BY AttemptIs, RowTypes
<1>3. Contract!Schedule(k)
  BY <1>1, <1>2 DEF Contract!Schedule, Contract!Unreserved, OutcomeOf
<1>4. Contract!ContractNext
  BY <1>3 DEF Contract!ContractNext
<1>5. QED
  BY <1>4 DEF Promise

LEMMA EnqueueKept ==
  ASSUME KeptInv, NEW r \in Requests, EnqueueAcceptedAttempt(r),
         NEW k \in Keys, k = req[r].key
  PROVE  KeptInv' /\ Promise
<1> DEFINE call == [req[r] EXCEPT !.pc = "map"]
           queued == [job[k] EXCEPT !.state = IF @ = "none" THEN "waiting" ELSE @]
<1>1. /\ req[r] \in CallTypes /\ req[r].pc = "enqueue"
      /\ req[r].payload \in Payloads /\ Knows(req[r]) /\ UNCHANGED <<attempt, tenant, trouble>>
      /\ job \in [Keys -> JobTypes] /\ req \in [Requests -> CallTypes] /\ KeyInv(k)
  BY DEF KeptInv, RowsOK, Knows, EnqueueAcceptedAttempt, At
<1>2. Becomes(req[r], call, "map")
  BY <1>1, CallTypesKept
<1>3. req' = [req EXCEPT ![r] = call] /\ job' = [job EXCEPT ![k] = queued]
  <2>1. req' = [req EXCEPT ![r].pc = "map"]
    BY DEF EnqueueAcceptedAttempt, Goto
  <2>2. job' = [job EXCEPT ![k].state = IF @ = "none" THEN "waiting" ELSE @]
    BY DEF EnqueueAcceptedAttempt
  <2>3. req' = [req EXCEPT ![r] = call]
    BY <2>1
  <2>4. job' = [job EXCEPT ![k] = queued]
    BY <1>1, <2>2
  <2>5. QED
    BY <2>3, <2>4
<1>4. /\ queued \in JobTypes /\ queued.state # "none" /\ queued.runs = job[k].runs
      /\ queued.late = job[k].late
      /\ job[k].state = "none" => queued.state = "waiting"
      /\ job[k].state # "none" => queued = job[k]
  BY <1>1 DEF JobTypes, States
<1> HIDE DEF call, queued
<1>5. /\ job'[k] = queued /\ \A x \in Keys : x # k => job'[x] = job[x]
      /\ req'[r] = call /\ \A q \in Requests : q # r => req'[q] = req[q]
  BY <1>1, <1>3
<1>6. RowsOK'
  BY <1>1, <1>2, <1>3, <1>4 DEF Becomes, KeptInv, RowsOK
<1>7. \A x \in Keys : job[x].state # "none" => job'[x].state # "none"
  BY <1>4, <1>5
<1>8. ASSUME NEW q \in Requests PROVE Knows(req[q])'
  <2>1. CASE q = r
    <3>1. /\ req'[q].pc = "map" /\ req'[q].key = k /\ req'[q].payload = req[r].payload
          /\ job'[k].state # "none"
          /\ attempt'[k] # Absent /\ attempt'[k].payload = req[r].payload
      BY <1>1, <1>2, <1>4, <1>5, <2>1 DEF Knows, Becomes
    <3>2. QED
      BY <1>1, <3>1 DEF Knows
  <2>2. CASE q # r
    <3>1. Knows(req[q]) /\ req'[q] = req[q]
      BY <1>5, <2>2 DEF KeptInv
    <3>2. QED
      BY <1>1, <1>7, <3>1 DEF Knows
  <2>3. QED
    BY <2>1, <2>2
<1>9. ASSUME NEW x \in Keys PROVE KeyInv(x)'
  <2>1. CASE x = k /\ job[k].state = "none"
    <3>1. /\ job'[k].state = "waiting" /\ job'[k].runs > 0 /\ job'[k].late = {}
          /\ ~Claimed(k) /\ trouble[k] = {}
      BY <1>1, <1>4, <1>5, <2>1 DEF KeyInv, JobIs, Overran
    <3>2. RunsAt(k)' = {"waiting"}
      BY <3>1 DEF RunsAt
    <3>3. attempt'[k] # Absent /\ attempt'[k].status \notin Terminal
      BY <1>1, <3>1 DEF Knows, Claimed, Terminal
    <3>4. JobIs(k)'
      BY <1>1, <3>1, <3>3 DEF JobIs, Claimed
    <3>5. RunsAgree(k)' /\ ~Succeeding(k)' /\ InTime(k)'
      BY <3>1, <3>2, <3>3 DEF RunsAgree, WithTenant, Succeeding, InTime, Working, Compensating, Terminal
    <3>6. QED
      BY <2>1, <3>4, <3>5 DEF KeyInv
  <2>2. CASE ~(x = k /\ job[k].state = "none")
    <3>1. job'[x] = job[x]
      BY <1>4, <1>5, <2>2
    <3>2. QED
      BY <1>1, <3>1, KeysSame DEF KeptInv
  <2>3. QED
    BY <2>1, <2>2
<1>10. \A s \in Slugs : TenantOwned(s)'
  BY <1>1, TenantsSame DEF KeptInv
<1>11. \A q \in Requests : (IF req'[q].pc = "answered" THEN req'[q].answer ELSE "silence")
                             = IF req[q].pc = "answered" THEN req[q].answer ELSE "silence"
  BY <1>1, <1>2, <1>5 DEF Becomes
<1>12. attempt[k] # Absent /\ attempt[k] \in AttemptTypes
  BY <1>1 DEF Knows, KeptInv, RowsOK
<1>13. Promise
  BY <1>1, <1>4, <1>5, <1>11, <1>12, SchedulePromise
<1>14. QED
  BY <1>6, <1>8, <1>9, <1>10, <1>13 DEF KeptInv

-----------------------------------------------------------------------------
(* Answers that arrive or are lost, and new calls                            *)

LEMMA HearPromise ==
  ASSUME NEW S \in SUBSET Requests, UNCHANGED <<attempt, tenant, trouble>>,
         \A k \in Keys : job'[k].state = "none" <=> job[k].state = "none",
         \A q \in Requests :
           (IF req'[q].pc = "answered" THEN req'[q].answer ELSE "silence")
             = IF q \in S \/ req[q].pc # "answered" THEN "silence" ELSE req[q].answer
  PROVE  Promise
<1>1. {x \in Keys : job[x].state # "none"}' = {x \in Keys : job[x].state # "none"}
  OBVIOUS
<1>2. Contract!Hear(S)
  BY <1>1 DEF Contract!Hear, Contract!Silence, OutcomeOf
<1>3. Contract!ContractNext
  BY <1>2 DEF Contract!ContractNext
<1>4. QED
  BY <1>3 DEF Promise

LEMMA DeliverKept ==
  ASSUME KeptInv, NEW r \in Requests, Deliver(r)
  PROVE  KeptInv' /\ Promise
<1>1. req' = [req EXCEPT ![r] = NoCall] /\ UNCHANGED dataVars /\ NoCall \in CallTypes
  BY RowTypes DEF Deliver
<1>2. Knows(NoCall) /\ NoCall.pc # "answered"
  BY DEF Knows, NoCall
<1>3. \A q \in Requests : req'[q] = IF q = r THEN NoCall ELSE req[q]
  BY <1>1 DEF KeptInv, RowsOK
<1>4. Promise
  <2>1. \A q \in Requests :
          (IF req'[q].pc = "answered" THEN req'[q].answer ELSE "silence")
            = IF q \in {r} \/ req[q].pc # "answered" THEN "silence" ELSE req[q].answer
    BY <1>1, <1>2, <1>3
  <2>2. {r} \in SUBSET Requests
    OBVIOUS
  <2>3. QED
    BY <1>1, <2>1, <2>2, HearPromise DEF dataVars
<1>5. QED
  BY <1>1, <1>2, <1>4, CallMoves

\* A job whose process has died is run again, or has failed.
LEMMA StalledKept ==
  ASSUME KeptInv, NEW k \in Keys, UNCHANGED <<attempt, tenant, trouble>>,
         job'[k] = Stalled(job[k])
  PROVE  /\ KeyInv(k)' /\ job'[k] \in JobTypes
         /\ job'[k].state = "none" <=> job[k].state = "none"
<1> DEFINE j == job[k]
           n == Stalled(j)
<1>1. j \in JobTypes /\ KeyInv(k) /\ attempt[k] \in AttemptTypes
  BY DEF KeptInv, RowsOK
<1>2. CASE j.state \notin Running
  <2>1. /\ n \in JobTypes /\ n.state = j.state /\ n.late = {} /\ n.runs = j.runs
    BY <1>1, <1>2 DEF Stalled, JobTypes
  <2>2. RunsAt(k)' \subseteq RunsAt(k) /\ job'[k].state = job[k].state
    BY <2>1 DEF RunsAt
  <2> HIDE DEF n
  <2>3. JobIs(k)'
    BY <1>1, <2>1 DEF KeyInv, JobIs, Claimed, n
  <2>4. RunsAgree(k)'
    BY <1>1, <2>2 DEF KeyInv, RunsAgree, Claimed, Owns, SlugOf, TenantHas
  <2>5. (Succeeding(k)' <=> Succeeding(k)) /\ (InTime(k) => InTime(k)')
    BY <2>2 DEF Succeeding, InTime, Owns, SlugOf, TenantHas
  <2>6. QED
    BY <1>1, <2>1, <2>2, <2>3, <2>4, <2>5 DEF KeyInv, TenantHas, Owns, SlugOf, Overran, n
<1>3. CASE j.state \in Running
  <2>1. /\ n \in JobTypes /\ n.state \in {"waiting", "failed"} /\ n.late = {} /\ n.runs = j.runs
    <3>1. CASE j.stalls < MaxStalls
      <4>1. n = [j EXCEPT !.late = {}, !.timer = TRUE, !.state = "waiting", !.stalls = @ + 1]
        BY <1>3, <3>1 DEF Stalled
      <4>2. j.stalls + 1 \in 0 .. MaxStalls
        BY <1>1, <3>1, ConstantsAssumption DEF JobTypes
      <4>3. QED
        BY <1>1, <4>1, <4>2 DEF JobTypes, States
    <3>2. CASE ~(j.stalls < MaxStalls)
      <4>1. n = [j EXCEPT !.late = {}, !.timer = TRUE, !.state = "failed", !.stalls = @]
        BY <1>3, <3>2 DEF Stalled
      <4>2. QED
        BY <1>1, <4>1 DEF JobTypes, States
    <3>3. QED
      BY <3>1, <3>2
  <2>2. RunsAt(k)' = {n.state}
    BY <2>1 DEF RunsAt
  <2>3. j.state \notin {"none", "done", "failed"}
    BY <1>3 DEF Running, Abortable, Compensating
  <2> HIDE DEF n
  <2>4. JobIs(k)'
    BY <1>1, <2>1, <2>3 DEF KeyInv, JobIs, Claimed, n
  <2>5. RunsAgree(k)' /\ InTime(k) => InTime(k)'
    BY <2>1, <2>2 DEF RunsAgree, WithTenant, InTime, Working, Compensating, Succeeding, Owns,
                      SlugOf, TenantHas, n
  <2>6. RunsAgree(k)' /\ (Succeeding(k)' => Succeeding(k))
    BY <2>1, <2>2 DEF RunsAgree, WithTenant, Succeeding, n
  <2>7. QED
    BY <1>1, <2>1, <2>3, <2>4, <2>5, <2>6 DEF KeyInv, TenantHas, Owns, SlugOf, Overran, n
<1>4. QED
  BY <1>2, <1>3

LEMMA RestartKept == ASSUME KeptInv, Restart PROVE KeptInv' /\ Promise
<1>1. /\ req' = [q \in Requests |-> NoCall] /\ UNCHANGED <<attempt, tenant, trouble>>
      /\ job' = [k \in Keys |-> Stalled(job[k])] /\ NoCall \in CallTypes
  BY RowTypes DEF Restart
<1>2. Knows(NoCall)' /\ NoCall.pc # "answered"
  BY DEF Knows, NoCall
<1>3. ASSUME NEW k \in Keys
      PROVE  /\ KeyInv(k)' /\ job'[k] \in JobTypes
             /\ job'[k].state = "none" <=> job[k].state = "none"
  BY <1>1, StalledKept
<1>4. RowsOK' /\ \A q \in Requests : Knows(req[q])'
  <2>1. \A q \in Requests : req'[q] = NoCall
    BY <1>1
  <2>2. job' \in [Keys -> JobTypes]
    BY <1>1, <1>3
  <2>3. QED
    BY <1>1, <1>2, <2>1, <2>2 DEF KeptInv, RowsOK, Knows, NoCall
<1>5. Promise
  <2>1. \A q \in Requests :
          (IF req'[q].pc = "answered" THEN req'[q].answer ELSE "silence")
            = IF q \in Requests \/ req[q].pc # "answered" THEN "silence" ELSE req[q].answer
    BY <1>1, <1>2
  <2>2. QED
    BY <1>1, <1>3, <2>1, HearPromise
<1>6. QED
  BY <1>1, <1>3, <1>4, <1>5, TenantsSame DEF KeptInv

LEMMA OneOf == ASSUME NEW S PROVE One(S) \subseteq S
BY DEF One

\* A call begins where there was none.
LEMMA CallBegins ==
  ASSUME KeptInv, NEW r \in FreeRequest, NEW k \in Keys, NEW p \in Payloads, UNCHANGED dataVars,
         req' = [req EXCEPT ![r] = [NoCall EXCEPT !.pc = "find", !.key = k, !.payload = p]]
  PROVE  KeptInv' /\ Promise
<1> DEFINE call == [NoCall EXCEPT !.pc = "find", !.key = k, !.payload = p]
<1>1. r \in Requests /\ req[r].pc = "idle"
  BY OneOf DEF FreeRequest
<1>2. call \in CallTypes /\ call.pc = "find" /\ call.key = k /\ call.payload = p
  BY DEF NoCall, CallTypes
<1> HIDE DEF call
<1>3. \A q \in Requests : req'[q] = IF q = r THEN call ELSE req[q]
  BY <1>1 DEF KeptInv, RowsOK, call
<1>4. Knows(call)
  BY <1>2 DEF Knows
<1>5. Promise
  <2>1. \A q \in Requests :
          (IF req'[q].pc = "answered" THEN req'[q].answer ELSE "silence")
            = IF q \in {} \/ req[q].pc # "answered" THEN "silence" ELSE req[q].answer
    BY <1>1, <1>2, <1>3
  <2>2. {} \in SUBSET Requests
    OBVIOUS
  <2>3. QED
    BY <1>1, <2>1, <2>2, HearPromise DEF dataVars
<1>6. req' = [req EXCEPT ![r] = call]
  BY DEF call
<1>7. QED
  BY <1>1, <1>2, <1>4, <1>5, <1>6, CallMoves

\* Steps that touch neither row nor call.
LEMMA NothingMoves ==
  ASSUME KeptInv, UNCHANGED <<dataVars, req>>
  PROVE  KeptInv' /\ Promise
<1>1. KeptInv'
  BY KeysSame, TenantsSame DEF KeptInv, RowsOK, Knows, dataVars
<1>2. QED
  BY <1>1 DEF Promise, Contract!contractVars, dataVars, OutcomeOf

-----------------------------------------------------------------------------
(* The worker                                                                *)

\* What a run of job k may do to the rows: it writes the row of its attempt
\* and those of its tenant and its job, and takes no tenant of another.
JobMoves(k) ==
  /\ job' \in [Keys -> JobTypes] /\ \A x \in Keys \ {k} : job'[x] = job[x]
  /\ job[k].state # "none" /\ job'[k].state # "none"
  /\ job'[k].state \notin {"done", "failed"} => job'[k].runs > 0
  /\ job'[k].late # {} => Overran(k)'
RunMoves(k) ==
  LET s == SlugOf(k) IN
  /\ req' = req
  /\ attempt' \in [Keys -> AttemptTypes] /\ \A x \in Keys \ {k} : attempt'[x] = attempt[x]
  /\ attempt[k] # Absent /\ attempt'[k] # Absent /\ attempt'[k].payload = attempt[k].payload
  /\ JobMoves(k)
  /\ tenant' \in [Slugs -> TenantTypes] /\ \A t \in Slugs \ {s} : tenant'[t] = tenant[t]
  /\ \/ tenant'[s] = tenant[s]
     \/ /\ tenant[s].of \in {Nothing, k} /\ Claimed(k)'
        /\ tenant'[s].of = k /\ tenant'[s].status # "none"
  /\ Claimed(k) => Claimed(k)'
  /\ trouble' \in [Keys -> SUBSET Contract!Troubles]
  /\ \A x \in Keys \ {k} : trouble'[x] = trouble[x]
  /\ trouble[k] \subseteq trouble'[k]

\* What a run knows of the rows.
LEMMA RunKnows ==
  ASSUME KeptInv, NEW k \in Keys, job[k].state # "none"
  PROVE  /\ attempt \in [Keys -> AttemptTypes] /\ tenant \in [Slugs -> TenantTypes]
         /\ job \in [Keys -> JobTypes] /\ trouble \in [Keys -> SUBSET Contract!Troubles]
         /\ attempt[k] # Absent /\ attempt[k].status \in Statuses /\ attempt[k].payload \in Payloads
         /\ SlugOf(k) \in Slugs /\ tenant[SlugOf(k)] \in TenantTypes
         /\ TenantOwned(SlugOf(k)) /\ KeyInv(k) /\ k # Nothing
         /\ Owns(k) => Claimed(k)
<1>1. RowsOK /\ KeyInv(k)
  BY DEF KeptInv
<1>2. attempt[k] # Absent /\ attempt[k] \in AttemptTypes
  BY <1>1 DEF KeyInv, JobIs, RowsOK
<1>3. attempt[k].status \in Statuses /\ attempt[k].payload \in Payloads /\ k # Nothing
  BY <1>2, AttemptIs, RowTypes
<1>4. SlugOf(k) \in Slugs
  BY <1>3, SlugType DEF SlugOf
<1>5. TenantOwned(SlugOf(k))
  BY <1>4 DEF KeptInv
<1>6. QED
  BY <1>1, <1>2, <1>3, <1>4, <1>5 DEF RowsOK, TenantOwned, Owns

\* The attempts of others keep their tenants.
LEMMA OthersKept ==
  ASSUME KeptInv, NEW k \in Keys, RunMoves(k), NEW x \in Keys, x # k
  PROVE  /\ KeyInv(x)'
         /\ attempt[x] # Absent => Owns(x)' = Owns(x) /\ (Owns(x) => tenant'[SlugOf(x)] = tenant[SlugOf(x)])
<1>1. /\ attempt'[x] = attempt[x] /\ job'[x] = job[x] /\ trouble'[x] = trouble[x]
      /\ SlugOf(x)' = SlugOf(x) /\ KeyInv(x) /\ attempt[x] \in AttemptTypes
  BY DEF KeptInv, RowsOK, RunMoves, JobMoves, SlugOf
<1>2. ASSUME attempt[x] # Absent
      PROVE  Owns(x)' = Owns(x) /\ (Owns(x) => tenant'[SlugOf(x)] = tenant[SlugOf(x)])
  <2>1. SlugOf(x) \in Slugs /\ x # Nothing
    BY <1>1, <1>2, AttemptIs, RowTypes, SlugType DEF SlugOf
  <2>2. CASE SlugOf(x) = SlugOf(k)
    <3>1. CASE tenant'[SlugOf(k)] = tenant[SlugOf(k)]
      BY <1>1, <2>2, <3>1 DEF Owns
    <3>2. CASE tenant[SlugOf(k)].of \in {Nothing, k} /\ tenant'[SlugOf(k)].of = k
      BY <1>1, <2>1, <2>2, <3>2 DEF Owns
    <3>3. QED
      BY <3>1, <3>2 DEF RunMoves
  <2>3. CASE SlugOf(x) # SlugOf(k)
    BY <1>1, <2>1, <2>3 DEF RunMoves, Owns
  <2>4. QED
    BY <2>2, <2>3
<1>3. KeyInv(x)'
  <2>1. CASE attempt[x] = Absent
    <3>1. job[x].state = "none" /\ ~Claimed(x) /\ trouble[x] = {} /\ job[x].late = {}
      BY <1>1, <2>1 DEF KeyInv, JobIs, Overran
    <3>2. RunsAt(x)' = {"none"}
      BY <1>1, <3>1 DEF RunsAt
    <3>3. JobIs(x)'
      BY <1>1, <2>1, <3>1 DEF KeyInv, JobIs, Claimed, Overran
    <3>4. RunsAgree(x)' /\ ~Succeeding(x)' /\ InTime(x)'
      BY <1>1, <3>1, <3>2 DEF RunsAgree, WithTenant, Succeeding, InTime, Working, Compensating, Claimed
    <3>5. QED
      BY <3>3, <3>4 DEF KeyInv
  <2>2. CASE attempt[x] # Absent
    <3>1. \A S : TenantHas(x, S)' <=> TenantHas(x, S)
      BY <1>1, <1>2, <2>2 DEF TenantHas
    <3>2. /\ Claimed(x)' = Claimed(x) /\ RunsAt(x)' = RunsAt(x) /\ Overran(x)' = Overran(x)
          /\ Succeeding(x)' = Succeeding(x)
      BY <1>1 DEF Claimed, RunsAt, Overran, Succeeding
    <3>3. JobIs(x)'
      BY <1>1, <3>2 DEF KeyInv, JobIs
    <3>4. RunsAgree(x)'
      BY <1>1, <1>2, <2>2, <3>1, <3>2 DEF KeyInv, RunsAgree
    <3>5. InTime(x) => InTime(x)'
      BY <1>1, <1>2, <2>2, <3>1, <3>2 DEF InTime
    <3>6. QED
      BY <1>1, <3>1, <3>2, <3>3, <3>4, <3>5 DEF KeyInv
  <2>3. QED
    BY <2>1, <2>2
<1>4. QED
  BY <1>2, <1>3

LEMMA RunKept ==
  ASSUME KeptInv, NEW k \in Keys, RunMoves(k), KeyInv(k)'
  PROVE  KeptInv'
<1>1. RowsOK'
  BY DEF RunMoves, JobMoves, KeptInv, RowsOK
<1>2. ASSUME NEW q \in Requests PROVE Knows(req[q])'
  <2>1. Knows(req[q]) /\ req'[q] = req[q]
    BY DEF KeptInv, RunMoves
  <2>2. /\ \A x \in Keys : attempt[x] # Absent =>
              attempt'[x] # Absent /\ attempt'[x].payload = attempt[x].payload
        /\ \A x \in Keys : job[x].state # "none" => job'[x].state # "none"
    BY DEF RunMoves, JobMoves
  <2>3. QED
    BY <2>1, <2>2 DEF Knows
<1>3. \A x \in Keys : KeyInv(x)'
  BY OthersKept
<1>4. ASSUME NEW s \in Slugs PROVE TenantOwned(s)'
  <2>1. TenantOwned(s) /\ tenant[s] \in TenantTypes /\ k # Nothing
    BY RowTypes DEF KeptInv, RowsOK
  <2>2. CASE tenant'[s] = tenant[s] /\ tenant[s].of # k
    BY <2>1, <2>2 DEF TenantOwned, RunMoves, TenantTypes, Claimed
  <2>3. CASE tenant'[s] = tenant[s] /\ tenant[s].of = k
    BY <2>1, <2>3 DEF TenantOwned, RunMoves
  <2>4. CASE Claimed(k)' /\ tenant'[s].of = k /\ tenant'[s].status # "none"
    BY <2>1, <2>4 DEF RunMoves, TenantOwned
  <2>5. QED
    BY <2>2, <2>3, <2>4 DEF RunMoves
<1>5. QED
  BY <1>1, <1>2, <1>3, <1>4 DEF KeptInv

\* What the contract lets a run do to its key and its tenant.
MayChange(k) == OutcomeOf(k) = "none" \/ Overran(k)
SameTrouble(k) == trouble'[k] = trouble[k]
SameOutcome(k) == OutcomeOf(k)' = OutcomeOf(k)
Allowed(k) ==
  LET was == tenant[SlugOf(k)]
      is == tenant'[SlugOf(k)]
      result == OutcomeOf(k)'
  IN
  \/ is = was /\ SameOutcome(k) /\ SameTrouble(k)
  \/ /\ is.of = k /\ SameOutcome(k) /\ SameTrouble(k)
     /\ \/ was = NoTenant /\ is.status = "PROVISIONING" /\ MayChange(k)
        \/ was.of = k /\ was.status # "FAILED" /\ is.status = "ACTIVE" /\ OutcomeOf(k) = "none"
        \/ was.of = k /\ is.status = "FAILED" /\ MayChange(k)
  \/ /\ is = was /\ MayChange(k) /\ result \in Terminal
     /\ trouble'[k] \in {trouble[k], trouble[k] \union {"unmarked"}}
     /\ result = "succeeded" =>
          was.of = k /\ was.status \in {"ACTIVE"} \union (IF Overran(k) THEN {"FAILED"} ELSE {})
     /\ result = "failed" /\ was.of = k => was.status = "FAILED" \/ trouble'[k] # {}
  \/ /\ is = was /\ was.of = k /\ SameTrouble(k)
     /\ OutcomeOf(k) = "failed" /\ result = "none"
  \/ /\ is = was /\ SameOutcome(k)
     /\ \E t \in Contract!Troubles : trouble'[k] = trouble[k] \union {t}

LEMMA RunPromise ==
  ASSUME KeptInv, NEW k \in Keys, RunMoves(k), Allowed(k)
  PROVE  Promise
<1> DEFINE s == SlugOf(k)
           reserved == [x \in Keys |-> IF attempt[x] = Absent THEN "unreserved" ELSE attempt[x].payload]
           scheduled == {x \in Keys : job[x].state # "none"}
           outcome == [x \in Keys |-> OutcomeOf(x)]
           told == [q \in Requests |-> IF req[q].pc = "answered" THEN req[q].answer ELSE "silence"]
<1>1. /\ k \in scheduled /\ s \in Slugs
      /\ attempt \in [Keys -> AttemptTypes] /\ tenant \in [Slugs -> TenantTypes]
      /\ trouble \in [Keys -> SUBSET Contract!Troubles] /\ attempt[k] # Absent
  BY RunKnows DEF RunMoves, JobMoves
<1>2. reserved' = reserved /\ scheduled' = scheduled /\ told' = told
  BY DEF RunMoves, JobMoves
<1>3. reserved[k] = attempt[k].payload /\ Slug(reserved[k]) = s
  BY <1>1 DEF SlugOf
<1>4. tenant' = [tenant EXCEPT ![s] = tenant'[s]]
  BY <1>1 DEF RunMoves
<1>5. trouble' = [trouble EXCEPT ![k] = trouble'[k]]
  BY <1>1 DEF RunMoves
<1>6. outcome' = [outcome EXCEPT ![k] = OutcomeOf(k)']
  <2>1. \A x \in Keys : x # k => OutcomeOf(x)' = OutcomeOf(x)
    BY DEF RunMoves, OutcomeOf
  <2>2. outcome' = [x \in Keys |-> IF x = k THEN OutcomeOf(k)' ELSE outcome[x]]
    BY <2>1
  <2>3. QED
    BY <2>2
<1>7. outcome[k] = OutcomeOf(k)
  OBVIOUS
<1>8. tenant'[s] = tenant[s] => tenant' = tenant
  BY <1>1, <1>4
<1>9. trouble'[k] = trouble[k] => trouble' = trouble
  BY <1>1, <1>5
<1>10. OutcomeOf(k)' = OutcomeOf(k) => outcome' = outcome
  BY <1>6, <1>7
<1> HIDE DEF reserved, scheduled, outcome, told, s
<1>11. CASE tenant'[s] = tenant[s] /\ SameOutcome(k) /\ SameTrouble(k)
  BY <1>2, <1>8, <1>9, <1>10, <1>11
  DEF Promise, Contract!contractVars, SameOutcome, SameTrouble, reserved, scheduled, outcome, told
<1>12. CASE /\ tenant'[s].of = k /\ SameOutcome(k) /\ SameTrouble(k)
            /\ \/ tenant[s] = NoTenant /\ tenant'[s].status = "PROVISIONING" /\ MayChange(k)
               \/ /\ tenant[s].of = k /\ tenant[s].status # "FAILED"
                  /\ tenant'[s].status = "ACTIVE" /\ OutcomeOf(k) = "none"
               \/ tenant[s].of = k /\ tenant'[s].status = "FAILED" /\ MayChange(k)
  <2>1. tenant'[s] = [of |-> k, status |-> tenant'[s].status]
    <3>1. tenant'[s] \in TenantTypes
      BY <1>1 DEF RunMoves
    <3>2. QED
      BY <1>12, <3>1 DEF TenantTypes
  <2>2. UNCHANGED <<reserved, scheduled, outcome, trouble, told>>
    BY <1>2, <1>9, <1>10, <1>12 DEF SameOutcome, SameTrouble
  <2>3. Contract!Becomes(k, tenant'[s].status)
    BY <1>1, <1>3, <1>4, <2>1, <2>2
    DEF Contract!Becomes, Contract!clientVars, reserved, scheduled, outcome, told
  <2>4. Contract!Give(k) \/ Contract!Activate(k) \/ Contract!Withdraw(k)
    BY <1>3, <1>7, <1>12, <2>3
    DEF Contract!Give, Contract!Activate, Contract!Withdraw, Contract!TenantOf, Contract!MayChange,
        Contract!Pending, Contract!Overran, Contract!NotGiven, NoTenant, Nothing, MayChange, Overran,
        reserved, outcome
  <2>5. QED
    BY <2>4 DEF Promise, Contract!ContractNext
<1>13. CASE /\ tenant'[s] = tenant[s] /\ MayChange(k) /\ OutcomeOf(k)' \in Terminal
            /\ trouble'[k] \in {trouble[k], trouble[k] \union {"unmarked"}}
            /\ OutcomeOf(k)' = "succeeded" =>
                 /\ tenant[s].of = k
                 /\ tenant[s].status \in {"ACTIVE"} \union (IF Overran(k) THEN {"FAILED"} ELSE {})
            /\ OutcomeOf(k)' = "failed" /\ tenant[s].of = k =>
                 tenant[s].status = "FAILED" \/ trouble'[k] # {}
  <2> DEFINE result == OutcomeOf(k)'
  <2>1. UNCHANGED <<reserved, scheduled, told, tenant>>
    BY <1>2, <1>8, <1>13
  <2>2. Contract!Settle(k, result)
    BY <1>1, <1>3, <1>5, <1>6, <1>7, <1>13, <2>1
    DEF Contract!Settle, Contract!clientVars, Contract!TenantOf, Contract!MayChange,
        Contract!Pending, Contract!Overran, MayChange, Overran, reserved, scheduled, outcome, told
  <2>3. result \in Contract!Outcomes
    BY <1>13 DEF Terminal, Contract!Outcomes
  <2>4. QED
    BY <2>2, <2>3 DEF Promise, Contract!ContractNext
<1>14. CASE /\ tenant'[s] = tenant[s] /\ tenant[s].of = k /\ SameTrouble(k)
            /\ OutcomeOf(k) = "failed" /\ OutcomeOf(k)' = "none"
  <2>1. UNCHANGED <<reserved, scheduled, told, tenant, trouble>>
    BY <1>2, <1>8, <1>9, <1>14 DEF SameTrouble
  <2>2. Contract!Retry(k)
    BY <1>3, <1>6, <1>7, <1>14, <2>1
    DEF Contract!Retry, Contract!clientVars, Contract!TenantOf, reserved, scheduled, outcome, told
  <2>3. QED
    BY <2>2 DEF Promise, Contract!ContractNext
<1>15. CASE /\ tenant'[s] = tenant[s] /\ SameOutcome(k)
            /\ \E t \in Contract!Troubles : trouble'[k] = trouble[k] \union {t}
  <2>1. UNCHANGED <<reserved, scheduled, told, tenant, outcome>>
    BY <1>2, <1>8, <1>10, <1>15 DEF SameOutcome
  <2>2. PICK t \in Contract!Troubles : trouble'[k] = trouble[k] \union {t}
    BY <1>15
  <2>3. Contract!Suffer(k, t)
    BY <1>1, <1>5, <2>1, <2>2
    DEF Contract!Suffer, Contract!clientVars, reserved, scheduled, outcome, told
  <2>4. QED
    BY <2>3 DEF Promise, Contract!ContractNext
<1>16. QED
  BY <1>11, <1>12, <1>13, <1>14, <1>15 DEF Allowed, s

\* A run gets from one stage to another, whether in time or late.
JobGoes(k, from, to) ==
  /\ JobMoves(k) /\ from \in RunsAt(k) /\ RunsAt(k)' \subseteq RunsAt(k) \union {to}
  /\ \/ job[k].state = from /\ job'[k].state = to
     \/ Overran(k) /\ job'[k].state = job[k].state

LEMMA RunGoes ==
  ASSUME KeptInv, NEW k \in Keys, UNCHANGED req, trouble[k] \subseteq trouble'[k],
         NEW to \in States \ {"none"}, Goes(k, to),
         job[k].state \notin {"none", "done", "failed"}
  PROVE  JobGoes(k, job[k].state, to)
<1> DEFINE j == [job[k] EXCEPT !.state = to]
<1>1. job' = [job EXCEPT ![k] = j] /\ job \in [Keys -> JobTypes] /\ JobIs(k)
  BY DEF Goes, KeptInv, RowsOK, KeyInv
<1>2. j \in JobTypes /\ j.state = to /\ j.runs = job[k].runs /\ j.late = job[k].late
  BY <1>1 DEF JobTypes
<1> HIDE DEF j
<1>3. job'[k] = j /\ \A x \in Keys \ {k} : job'[x] = job[x]
  BY <1>1
<1>4. JobMoves(k)
  BY <1>1, <1>2, <1>3 DEF JobMoves, JobIs, Overran
<1>5. RunsAt(k)' \subseteq RunsAt(k) \union {to}
  BY <1>2, <1>3 DEF RunsAt
<1>6. QED
  BY <1>2, <1>3, <1>4, <1>5 DEF JobGoes, RunsAt

LEMMA RunTurns ==
  ASSUME KeptInv, NEW k \in Keys, UNCHANGED req, trouble[k] \subseteq trouble'[k],
         NEW from \in Running, NEW to \in Running, Turns(k, from, to)
  PROVE  JobGoes(k, from, to)
<1>1. CASE job[k].state = from /\ Goes(k, to)
  <2>1. to \in States \ {"none"} /\ from \notin {"none", "done", "failed"}
    BY DEF States, Running, Abortable, Compensating
  <2>2. QED
    BY <1>1, <2>1, RunGoes
<1>2. ASSUME NEW run \in 0 .. MaxRuns, <<run, from>> \in job[k].late,
             job' = [job EXCEPT ![k].late =
               (@ \ {<<run, from>>}) \union ({run} \X ({to} \intersect Compensating))]
      PROVE  JobGoes(k, from, to)
  <2> DEFINE left == (job[k].late \ {<<run, from>>}) \union ({run} \X ({to} \intersect Compensating))
             j == [job[k] EXCEPT !.late = left]
  <2>1. job \in [Keys -> JobTypes] /\ JobIs(k) /\ job' = [job EXCEPT ![k] = j]
    BY <1>2 DEF KeptInv, RowsOK, KeyInv
  <2>2. left \in SUBSET LateRuns
    BY <1>2, <2>1 DEF JobTypes, LateRuns
  <2>3. j \in JobTypes /\ j.late = left /\ j.state = job[k].state /\ j.runs = job[k].runs
    BY <2>1, <2>2 DEF JobTypes
  <2> HIDE DEF j
  <2>4. job'[k] = j /\ \A x \in Keys \ {k} : job'[x] = job[x]
    BY <2>1
  <2>5. Overran(k) /\ Overran(k)' /\ trouble[k] # {}
    BY <1>2, <2>1 DEF JobIs, Overran
  <2>6. JobMoves(k)
    BY <2>1, <2>3, <2>4, <2>5 DEF JobMoves, JobIs
  <2>7. from \in RunsAt(k)
    <3>1. <<run, from>>[2] = from
      OBVIOUS
    <3>2. QED
      BY <1>2, <3>1 DEF RunsAt
  <2>8. RunsAt(k)' \subseteq RunsAt(k) \union {to}
    <3>1. \A x \in left : x \in job[k].late \/ x[2] = to
      OBVIOUS
    <3>2. RunsAt(k)' = {j.state} \union {x[2] : x \in left}
      BY <2>3, <2>4 DEF RunsAt
    <3>3. QED
      BY <2>3, <3>1, <3>2 DEF RunsAt
  <2>9. QED
    BY <2>3, <2>4, <2>5, <2>6, <2>7, <2>8 DEF JobGoes
<1>3. QED
  BY <1>1, <1>2 DEF Turns

\* A run that writes no tenant and at most its attempt; and one that writes its
\* tenant and no more.
LEMMA AttemptMoves ==
  ASSUME KeptInv, NEW k \in Keys, UNCHANGED req, JobMoves(k), UNCHANGED tenant,
         UNCHANGED trouble \/ \E t \in Contract!Troubles : Suffer(k, t),
         UNCHANGED attempt
           \/ \E status \in Statuses \ {"accepted"} : Mark(k, status)
  PROVE  /\ RunMoves(k) /\ SlugOf(k)' = SlugOf(k)
         /\ (Owns(k)' <=> Owns(k)) /\ \A S : TenantHas(k, S)' <=> TenantHas(k, S)
<1>1. /\ attempt \in [Keys -> AttemptTypes] /\ tenant \in [Slugs -> TenantTypes]
      /\ trouble \in [Keys -> SUBSET Contract!Troubles] /\ attempt[k] # Absent
      /\ attempt[k].status \in Statuses /\ attempt[k].payload \in Payloads
  BY RunKnows DEF JobMoves
<1>2. /\ trouble' \in [Keys -> SUBSET Contract!Troubles]
      /\ \A x \in Keys \ {k} : trouble'[x] = trouble[x]
      /\ trouble[k] \subseteq trouble'[k]
  BY <1>1 DEF Suffer
<1>3. /\ attempt' \in [Keys -> AttemptTypes] /\ \A x \in Keys \ {k} : attempt'[x] = attempt[x]
      /\ attempt'[k] # Absent /\ attempt'[k].payload = attempt[k].payload
      /\ Claimed(k) => Claimed(k)'
  <2>1. CASE UNCHANGED attempt
    BY <1>1, <2>1 DEF Claimed
  <2>2. ASSUME NEW status \in Statuses \ {"accepted"}, Mark(k, status)
        PROVE  /\ attempt' \in [Keys -> AttemptTypes] /\ \A x \in Keys \ {k} : attempt'[x] = attempt[x]
               /\ attempt'[k] # Absent /\ attempt'[k].payload = attempt[k].payload
               /\ Claimed(k) => Claimed(k)'
    <3> DEFINE row == [attempt[k] EXCEPT !.status = status]
    <3>1. row \in AttemptTypes /\ row.status = status /\ row.payload = attempt[k].payload
          /\ row # Absent
      <4>1. attempt[k] \in [status : Statuses, payload : Payloads]
        BY <1>1 DEF AttemptTypes
      <4>2. row.status = status /\ row.payload = attempt[k].payload
        BY <4>1
      <4>3. row \in [status : Statuses, payload : Payloads]
        BY <4>1
      <4>4. QED
        BY <4>2, <4>3, AttemptIs DEF AttemptTypes
    <3>2. attempt' = [attempt EXCEPT ![k] = row]
      BY <2>2 DEF Mark
    <3> HIDE DEF row
    <3>3. attempt'[k] = row /\ \A x \in Keys \ {k} : attempt'[x] = attempt[x]
      BY <1>1, <3>2
    <3>4. QED
      BY <1>1, <3>1, <3>2, <3>3, AttemptIs DEF Claimed
  <2>3. QED
    BY <2>1, <2>2
<1>4. SlugOf(k)' = SlugOf(k)
  BY <1>3 DEF SlugOf
<1>5. RunMoves(k)
  BY <1>1, <1>2, <1>3 DEF RunMoves
<1>6. (Owns(k)' <=> Owns(k)) /\ \A S : TenantHas(k, S)' <=> TenantHas(k, S)
  BY <1>4 DEF Owns, TenantHas
<1>7. QED
  BY <1>4, <1>5, <1>6

LEMMA TenantMoves ==
  ASSUME KeptInv, NEW k \in Keys, UNCHANGED <<req, attempt, trouble>>, JobMoves(k), Claimed(k),
         NEW status \in TenantStatuses \ {"none"}, MarkTenant(k, status),
         tenant[SlugOf(k)].of \in {Nothing, k}
  PROVE  /\ RunMoves(k) /\ SlugOf(k)' = SlugOf(k) /\ Owns(k)'
         /\ tenant'[SlugOf(k)] = [of |-> k, status |-> status]
         /\ \A S : TenantHas(k, S)' <=> status \in S
<1>1. /\ attempt \in [Keys -> AttemptTypes] /\ tenant \in [Slugs -> TenantTypes]
      /\ trouble \in [Keys -> SUBSET Contract!Troubles] /\ attempt[k] # Absent
      /\ SlugOf(k) \in Slugs
  BY RunKnows DEF JobMoves
<1> DEFINE t == [of |-> k, status |-> status]
<1>2. t \in TenantTypes /\ t.of = k /\ t.status = status
  BY DEF TenantTypes
<1>3. tenant' = [tenant EXCEPT ![SlugOf(k)] = t]
  BY DEF MarkTenant
<1> HIDE DEF t
<1>4. tenant'[SlugOf(k)] = t /\ \A x \in Slugs \ {SlugOf(k)} : tenant'[x] = tenant[x]
  BY <1>1, <1>3
<1>5. SlugOf(k)' = SlugOf(k) /\ Claimed(k)'
  BY DEF SlugOf, Claimed
<1>6. RunMoves(k)
  BY <1>1, <1>2, <1>3, <1>4, <1>5 DEF RunMoves
<1>7. Owns(k)' /\ \A S : TenantHas(k, S)' <=> status \in S
  BY <1>2, <1>4, <1>5 DEF Owns, TenantHas
<1>8. QED
  BY <1>2, <1>4, <1>5, <1>6, <1>7 DEF t

\* A run that leaves what the others rely on, and its own place as it should
\* be, keeps all that is known of its key.
LEMMA KeyKept ==
  ASSUME KeptInv, NEW k \in Keys, RunMoves(k), NEW from, NEW to, JobGoes(k, from, to),
         Owns(k) => Owns(k)',
         Owns(k)' => Owns(k) \/ (from = "create" /\ to = "created"),
         TenantHas(k, {"FAILED"}) => TenantHas(k, {"FAILED"})',
         to \in WithTenant => Owns(k)',
         to \in {"create", "fail"} => Claimed(k)',
         to = "fail" /\ Owns(k)' => TenantHas(k, {"FAILED"})' \/ trouble'[k] # {},
         Succeeding(k)' => TenantHas(k, {"ACTIVE", "FAILED"})',
         ~Overran(k)' => InTime(k)'
  PROVE  KeptInv'
<1>1. KeyInv(k) /\ trouble[k] \subseteq trouble'[k] /\ (Claimed(k) => Claimed(k)')
  BY DEF KeptInv, RunMoves
<1>2. JobIs(k)'
  BY <1>1 DEF RunMoves, JobMoves, JobIs
<1>3. ~Overran(k) => RunsAt(k) = {job[k].state}
  BY <1>1 DEF KeyInv, JobIs, RunsAt
<1>4. Overran(k) => trouble'[k] # {}
  BY <1>1 DEF Overran
<1>5. "fail" \in RunsAt(k)' /\ Owns(k)' => TenantHas(k, {"FAILED"})' \/ trouble'[k] # {}
  <2>1. CASE to = "fail"
    BY <2>1
  <2>2. CASE to # "fail" /\ Owns(k)
    BY <1>1, <2>2 DEF JobGoes, KeyInv, RunsAgree
  <2>3. CASE to # "fail" /\ ~Owns(k)
    BY <1>3, <1>4, <2>3 DEF JobGoes
  <2>4. QED
    BY <2>1, <2>2, <2>3
<1>6. RunsAgree(k)'
  <2>1. RunsAt(k)' \intersect WithTenant # {} => Owns(k)'
    BY <1>1 DEF JobGoes, KeyInv, RunsAgree, WithTenant
  <2>2. RunsAt(k)' \intersect {"create", "fail"} # {} => Claimed(k)'
    BY <1>1 DEF JobGoes, KeyInv, RunsAgree
  <2>3. QED
    BY <1>5, <2>1, <2>2 DEF RunsAgree, WithTenant
<1>7. KeyInv(k)'
  BY <1>2, <1>6 DEF KeyInv
<1>8. QED
  BY <1>7, RunKept

\* Where a run in time stands, and what it knows there.
LEMMA RunInTime ==
  ASSUME KeptInv, NEW k \in Keys, NEW from, NEW to, JobGoes(k, from, to)
  PROVE  /\ job[k].state # "none" /\ KeyInv(k) /\ RunsAgree(k) /\ from \in RunsAt(k)
         /\ ~Overran(k) => InTime(k) /\ job[k].state = from /\ job'[k].state = to
         /\ Overran(k) => trouble[k] # {}
         /\ job'[k].state = "finish" => job[k].state = "finish" \/ to = "finish"
BY DEF KeptInv, JobGoes, JobMoves, KeyInv, Overran

\* Such a step of a run that writes no tenant, and no success.
LEMMA QuietKept ==
  ASSUME KeptInv, NEW k \in Keys, NEW from, NEW to, JobGoes(k, from, to), UNCHANGED <<req, tenant>>,
         UNCHANGED trouble \/ \E t \in Contract!Troubles : Suffer(k, t),
         UNCHANGED attempt
           \/ \E status \in Statuses \ {"accepted", "succeeded"} : Mark(k, status),
         to # "finish",
         to \in WithTenant => Owns(k),
         to \in {"create", "fail"} => Claimed(k)',
         to = "fail" /\ Owns(k) => TenantHas(k, {"FAILED"}) \/ trouble'[k] # {},
         ~Overran(k)' =>
           /\ to # "timedOut"
           /\ to \in Working => attempt'[k].status = "provisioning"
           /\ to = "reset" => attempt'[k].status = "failed"
           /\ to = "create" => ~Owns(k)
  PROVE  KeptInv' /\ RunMoves(k)
<1>1. /\ RunMoves(k) /\ SlugOf(k)' = SlugOf(k)
      /\ (Owns(k)' <=> Owns(k)) /\ \A S : TenantHas(k, S)' <=> TenantHas(k, S)
  BY AttemptMoves DEF JobGoes
<1>2. Overran(k) => Overran(k)'
  BY <1>1 DEF RunMoves, Overran
<1>3. attempt'[k].status = "succeeded" => attempt[k].status = "succeeded"
  <2>1. attempt \in [Keys -> AttemptTypes]
    BY DEF KeptInv, RowsOK
  <2>2. ASSUME NEW status \in Statuses \ {"accepted", "succeeded"}, Mark(k, status)
        PROVE  attempt'[k].status = status
    <3>1. attempt[k] \in [status : Statuses, payload : Payloads]
      BY <2>1, RunKnows DEF JobGoes, JobMoves, AttemptTypes
    <3>2. QED
      BY <2>1, <2>2, <3>1 DEF Mark
  <2>3. QED
    BY <2>2
<1>4. Succeeding(k)' => Succeeding(k)
  BY <1>3, RunInTime DEF Succeeding
<1>5. KeyInv(k) /\ (~Overran(k) => InTime(k))
  BY RunInTime DEF KeyInv
<1>6. ~Overran(k)' => InTime(k)'
  BY <1>1, <1>2, <1>4, <1>5, RunInTime DEF InTime
<1>7. Succeeding(k)' => TenantHas(k, {"ACTIVE", "FAILED"})'
  BY <1>1, <1>4, <1>5 DEF KeyInv
<1>8. TenantHas(k, {"FAILED"})' <=> TenantHas(k, {"FAILED"})
  BY <1>1
<1>9. KeptInv'
  BY <1>1, <1>6, <1>7, <1>8, KeyKept
<1>10. QED
  BY <1>1, <1>9

LEMMA RunStates ==
  /\ Running \subseteq States \ {"none", "done", "failed", "waiting"}
  /\ {"waiting", "done", "failed"} \subseteq States
  /\ \A x \in {"reset", "create", "created", "provision", "compensate", "fail", "cleanup",
               "finish", "resolved", "rejected", "timedOut"} : x \in Running
BY DEF States, Running, Abortable, Compensating

\* A step that writes none of the rows the contract speaks of.
LEMMA QuietAllowed ==
  ASSUME NEW k \in Keys, UNCHANGED <<tenant, trouble>>, OutcomeOf(k)' = OutcomeOf(k)
  PROVE  Allowed(k)
BY DEF Allowed, SameOutcome, SameTrouble

LEMMA ClaimKept ==
  ASSUME KeptInv, NEW k \in Keys, ClaimAttempt(k)
  PROVE  KeptInv' /\ Promise /\ RunMoves(k)
<1>1. job[k].state = "waiting" /\ ~Owns(k) /\ UNCHANGED <<tenant, trouble, req>>
  BY DEF ClaimAttempt, Worker
<1>2. CASE attempt[k].status = "accepted" /\ Mark(k, "provisioning") /\ Goes(k, "create")
  <2>1. JobGoes(k, "waiting", "create")
    BY <1>1, <1>2, RunGoes, RunStates
  <2>2. attempt'[k].status = "provisioning" /\ "provisioning" \in Statuses
    BY <1>1, <1>2, RunKnows DEF Mark, Statuses, Terminal
  <2>3. KeptInv' /\ RunMoves(k)
    BY <1>1, <1>2, <2>1, <2>2, QuietKept DEF WithTenant, Claimed
  <2>4. Allowed(k)
    BY <1>1, <1>2, <2>2, QuietAllowed DEF OutcomeOf, Terminal
  <2>5. QED
    BY <2>3, <2>4, RunPromise
<1>3. CASE UNCHANGED attempt /\ Goes(k, "resolved")
  <2>1. JobGoes(k, "waiting", "resolved")
    BY <1>1, <1>3, RunGoes, RunStates
  <2>2. KeptInv' /\ RunMoves(k)
    BY <1>1, <1>3, <2>1, QuietKept DEF WithTenant, Working, Compensating
  <2>3. Allowed(k)
    BY <1>1, <1>3, QuietAllowed DEF OutcomeOf
  <2>4. QED
    BY <2>2, <2>3, RunPromise
<1>4. QED
  BY <1>2, <1>3 DEF ClaimAttempt

LEMMA ResumeKept ==
  ASSUME KeptInv, NEW k \in Keys, ResumeTenant(k)
  PROVE  KeptInv' /\ Promise /\ RunMoves(k)
<1>1. job[k].state = "waiting" /\ Owns(k) /\ UNCHANGED <<attempt, tenant, trouble, req>>
  BY DEF ResumeTenant, Worker
<1>2. attempt[k].status \in Statuses \ {"accepted"}
  BY <1>1, RunKnows DEF Claimed
<1>3. Allowed(k)
  BY <1>1, QuietAllowed DEF OutcomeOf
<1>4. ASSUME NEW to \in {"resolved", "rejected", "reset", "provision"}, Goes(k, to),
             to = "reset" => attempt[k].status = "failed",
             to = "provision" => attempt[k].status = "provisioning"
      PROVE  KeptInv' /\ RunMoves(k)
  <2>1. JobGoes(k, "waiting", to)
    BY <1>1, <1>4, RunGoes, RunStates
  <2>2. QED
    BY <1>1, <1>4, <2>1, QuietKept DEF WithTenant, Working, Compensating
<1>5. KeptInv' /\ RunMoves(k)
  BY <1>2, <1>4 DEF ResumeTenant, Statuses, Terminal
<1>6. QED
  BY <1>3, <1>5, RunPromise

LEMMA ResetKept ==
  ASSUME KeptInv, NEW k \in Keys, ResetAttemptStatus(k)
  PROVE  KeptInv' /\ Promise /\ RunMoves(k)
<1> DEFINE status == IF attempt[k].status = "failed" THEN "provisioning" ELSE attempt[k].status
<1>1. Mark(k, status) /\ UNCHANGED <<tenant, trouble, req>>
  BY DEF ResetAttemptStatus, Worker
<1>2. ASSUME NEW to \in {"provision", "rejected"}, Turns(k, "reset", to)
      PROVE  KeptInv' /\ Promise /\ RunMoves(k)
  <2>1. JobGoes(k, "reset", to)
    BY <1>1, <1>2, RunTurns, RunStates
  <2>2. Owns(k) /\ attempt[k].status \in Statuses \ {"accepted"}
    BY <2>1, RunInTime, RunKnows DEF RunsAgree, WithTenant, Claimed
  <2>3. status \in Statuses \ {"accepted"} /\ attempt'[k].status = status
    <3>1. attempt'[k].status = status
      BY <1>1, <2>1, RunInTime, RunKnows DEF Mark
    <3>2. QED
      BY <2>2, <3>1 DEF Statuses
  <2>4. ~Overran(k) => attempt[k].status = "failed"
    BY <2>1, RunInTime DEF InTime
  <2>5. KeptInv' /\ RunMoves(k)
    <3>1. UNCHANGED attempt \/ \E now \in Statuses \ {"accepted", "succeeded"} : Mark(k, now)
      <4>1. CASE attempt[k].status = "failed"
        BY <1>1, <2>3, <4>1
      <4>2. CASE attempt[k].status # "failed"
        BY <1>1, <4>2, <2>1, RunInTime, RunKnows DEF Mark, AttemptTypes, Absent
      <4>3. QED
        BY <4>1, <4>2
    <3>2. to = "provision" /\ ~Overran(k)' => attempt'[k].status = "provisioning"
      BY <1>1, <2>3, <2>4 DEF Overran
    <3>3. QED
      BY <1>1, <1>2, <2>1, <2>2, <3>1, <3>2, QuietKept DEF WithTenant, Working, Compensating
  <2>6. Allowed(k)
    <3>1. CASE attempt[k].status = "failed"
      <4>1. OutcomeOf(k) = "failed" /\ OutcomeOf(k)' = "none"
        BY <2>3, <3>1 DEF OutcomeOf, Terminal
      <4>2. QED
        BY <1>1, <2>2, <4>1 DEF Allowed, SameTrouble, Owns
    <3>2. CASE attempt[k].status # "failed"
      BY <1>1, <2>3, <3>2, QuietAllowed DEF OutcomeOf
    <3>3. QED
      BY <3>1, <3>2
  <2>7. QED
    BY <2>5, <2>6, RunPromise
<1>3. QED
  BY <1>2 DEF ResetAttemptStatus

\* What a mark leaves.
LEMMA Marked ==
  ASSUME KeptInv, NEW k \in Keys, job[k].state # "none", NEW status \in Statuses, Mark(k, status)
  PROVE  /\ attempt'[k].status = status
         /\ OutcomeOf(k)' = IF status \in Terminal THEN status ELSE "none"
<1>1. attempt \in [Keys -> AttemptTypes] /\ attempt[k] \in [status : Statuses, payload : Payloads]
  BY RunKnows DEF AttemptTypes
<1>2. attempt'[k].status = status
  BY <1>1 DEF Mark
<1>3. QED
  BY <1>2 DEF OutcomeOf

\* An outcome is written while it may change.
LEMMA StillMayChange ==
  ASSUME KeptInv, NEW k \in Keys, NEW from, NEW to, JobGoes(k, from, to), from \in Working
  PROVE  /\ MayChange(k)
         /\ ~Overran(k) => attempt[k].status = "provisioning" /\ OutcomeOf(k) = "none"
<1>1. ~Overran(k) => attempt[k].status = "provisioning"
  BY RunInTime DEF InTime
<1>2. QED
  BY <1>1 DEF MayChange, OutcomeOf, Terminal

LEMMA SettleAllowed ==
  ASSUME KeptInv, NEW k \in Keys, MayChange(k), job[k].state # "none", UNCHANGED tenant,
         NEW result \in Terminal, Mark(k, result),
         trouble'[k] \in {trouble[k], trouble[k] \union {"unmarked"}},
         result = "succeeded" =>
           TenantHas(k, {"ACTIVE"}) \/ (Overran(k) /\ TenantHas(k, {"ACTIVE", "FAILED"})),
         result = "failed" /\ Owns(k) => TenantHas(k, {"FAILED"}) \/ trouble'[k] # {}
  PROVE  Allowed(k)
<1>1. OutcomeOf(k)' = result
  BY Marked DEF Statuses
<1>2. result = "succeeded" =>
        /\ tenant[SlugOf(k)].of = k
        /\ tenant[SlugOf(k)].status \in {"ACTIVE"} \union (IF Overran(k) THEN {"FAILED"} ELSE {})
  BY DEF TenantHas, Owns
<1>3. result = "failed" /\ tenant[SlugOf(k)].of = k =>
        tenant[SlugOf(k)].status = "FAILED" \/ trouble'[k] # {}
  BY DEF TenantHas, Owns
<1>4. tenant'[SlugOf(k)] = tenant[SlugOf(k)]
  OBVIOUS
<1>5. QED
  BY <1>1, <1>2, <1>3, <1>4 DEF Allowed

\* The tenant is created, or the slug is taken.
LEMMA CreateKept ==
  ASSUME KeptInv, NEW k \in Keys, CreateTenant(k)
  PROVE  KeptInv' /\ Promise /\ RunMoves(k)
<1>1. UNCHANGED <<trouble, req>>
  BY DEF CreateTenant, Worker
<1>2. CASE /\ tenant[SlugOf(k)] = NoTenant
           /\ Turns(k, "create", "created") /\ MarkTenant(k, "PROVISIONING") /\ UNCHANGED attempt
  <2>1. JobGoes(k, "create", "created")
    BY <1>1, <1>2, RunTurns, RunStates
  <2>2. Claimed(k) /\ MayChange(k) /\ "PROVISIONING" \in TenantStatuses \ {"none"}
    BY <2>1, RunInTime, StillMayChange DEF RunsAgree, Working, TenantStatuses
  <2>3. tenant[SlugOf(k)].of = Nothing /\ ~Owns(k) /\ k # Nothing
    BY <1>2, <2>1, RunInTime, RunKnows DEF NoTenant, Owns
  <2>4. /\ RunMoves(k) /\ Owns(k)' /\ tenant'[SlugOf(k)] = [of |-> k, status |-> "PROVISIONING"]
        /\ \A S : TenantHas(k, S)' <=> "PROVISIONING" \in S
    BY <1>1, <1>2, <2>1, <2>2, <2>3, TenantMoves DEF JobGoes
  <2>5. ~TenantHas(k, {"FAILED"}) /\ ~Succeeding(k)
    BY <2>1, <2>3, RunInTime DEF TenantHas, KeyInv
  <2>6. ~Succeeding(k)'
    BY <1>2, <2>1, <2>5, RunInTime DEF Succeeding
  <2>7. Overran(k)' <=> Overran(k)
    BY <1>1 DEF Overran
  <2>8. ~Overran(k)' => InTime(k)'
    BY <1>2, <2>1, <2>6, <2>7, RunInTime DEF InTime, Working, Compensating
  <2>9. KeptInv'
    BY <1>1, <2>1, <2>2, <2>3, <2>4, <2>5, <2>6, <2>8, KeyKept
  <2>10. Allowed(k)
    BY <1>1, <1>2, <2>2, <2>4 DEF Allowed, SameOutcome, SameTrouble, OutcomeOf
  <2>11. QED
    BY <2>4, <2>9, <2>10, RunPromise
<1>3. CASE Turns(k, "create", "resolved") /\ Mark(k, "failed") /\ UNCHANGED tenant
  <2>1. JobGoes(k, "create", "resolved")
    BY <1>1, <1>3, RunTurns, RunStates
  <2>2. MayChange(k) /\ job[k].state # "none"
    BY <2>1, RunInTime, StillMayChange DEF Working
  <2>3. "failed" \in Terminal /\ "failed" \in Statuses \ {"accepted", "succeeded"}
    BY DEF Terminal, Statuses
  <2>4. Owns(k) => trouble[k] # {}
    BY <2>1, RunInTime DEF InTime
  <2>5. Allowed(k)
    BY <1>1, <1>3, <2>2, <2>3, <2>4, SettleAllowed
  <2>6. KeptInv' /\ RunMoves(k)
    BY <1>1, <1>3, <2>1, <2>3, QuietKept DEF WithTenant, Working, Compensating
  <2>7. QED
    BY <2>5, <2>6, RunPromise
<1>4. QED
  BY <1>2, <1>3 DEF CreateTenant

LEMMA RecordKept ==
  ASSUME KeptInv, NEW k \in Keys, RecordCreation(k)
  PROVE  KeptInv' /\ Promise /\ RunMoves(k)
<1>1. /\ job[k].state = "created" /\ Goes(k, "provision")
      /\ UNCHANGED <<attempt, tenant, trouble, req>>
  BY DEF RecordCreation, Worker
<1>2. JobGoes(k, "created", "provision")
  BY <1>1, RunGoes, RunStates
<1>3. Owns(k) /\ (~Overran(k)' => attempt'[k].status = "provisioning")
  BY <1>1, <1>2, RunInTime DEF RunsAgree, WithTenant, InTime, Working, Overran
<1>4. KeptInv' /\ RunMoves(k)
  BY <1>1, <1>2, <1>3, QuietKept
<1>5. QED
  BY <1>1, <1>4, QuietAllowed, RunPromise DEF OutcomeOf

\* The insert fails, or the record of it.
LEMMA FailCreationKept ==
  ASSUME KeptInv, NEW k \in Keys, FailCreation(k)
  PROVE  KeptInv' /\ Promise /\ RunMoves(k)
<1>1. UNCHANGED <<tenant, req>>
  BY DEF FailCreation, Worker
<1>2. "failed" \in Terminal /\ "failed" \in Statuses \ {"accepted", "succeeded"}
  BY DEF Terminal, Statuses
<1>3. ASSUME NEW from \in {"create", "created"}, NEW to \in {"resolved", "rejected"},
             Turns(k, from, to), UNCHANGED attempt \/ Mark(k, "failed"),
             UNCHANGED trouble \/ Suffer(k, "unmarked")
      PROVE  KeptInv' /\ RunMoves(k) /\ JobGoes(k, from, to)
  <2>1. trouble[k] \subseteq trouble'[k]
    BY <1>3 DEF Suffer, KeptInv, RowsOK
  <2>2. JobGoes(k, from, to)
    BY <1>1, <1>3, <2>1, RunTurns, RunStates
  <2>3. UNCHANGED trouble \/ \E t \in Contract!Troubles : Suffer(k, t)
    BY <1>3 DEF Contract!Troubles
  <2>4. KeptInv' /\ RunMoves(k)
    BY <1>1, <1>2, <1>3, <2>2, <2>3, QuietKept DEF WithTenant, Working, Compensating
  <2>5. QED
    BY <2>2, <2>4
<1>4. CASE Turns(k, "create", "resolved") /\ Mark(k, "failed") /\ UNCHANGED trouble
  <2>1. KeptInv' /\ RunMoves(k) /\ JobGoes(k, "create", "resolved")
    BY <1>3, <1>4
  <2>2. MayChange(k) /\ job[k].state # "none" /\ (Owns(k) => trouble[k] # {})
    BY <2>1, RunInTime, StillMayChange DEF Working, InTime
  <2>3. Allowed(k)
    BY <1>1, <1>2, <1>4, <2>2, SettleAllowed
  <2>4. QED
    BY <2>1, <2>3, RunPromise
<1>5. CASE Turns(k, "create", "rejected") /\ UNCHANGED <<attempt, trouble>>
  <2>1. KeptInv' /\ RunMoves(k)
    BY <1>3, <1>5
  <2>2. QED
    BY <1>1, <1>5, <2>1, QuietAllowed, RunPromise DEF OutcomeOf
<1>6. CASE Suffer(k, "unmarked") /\ Turns(k, "created", "resolved") /\ Mark(k, "failed")
  <2>1. KeptInv' /\ RunMoves(k) /\ JobGoes(k, "created", "resolved")
    BY <1>3, <1>6
  <2>2. MayChange(k) /\ job[k].state # "none"
    BY <2>1, RunInTime, StillMayChange DEF Working
  <2>3. trouble'[k] = trouble[k] \union {"unmarked"}
    BY <1>6 DEF Suffer, KeptInv, RowsOK
  <2>4. Allowed(k)
    BY <1>1, <1>2, <1>6, <2>2, <2>3, SettleAllowed
  <2>5. QED
    BY <2>1, <2>4, RunPromise
<1>7. CASE Suffer(k, "unmarked") /\ Turns(k, "created", "rejected") /\ UNCHANGED attempt
  <2>1. KeptInv' /\ RunMoves(k)
    BY <1>3, <1>7
  <2>2. trouble'[k] = trouble[k] \union {"unmarked"} /\ "unmarked" \in Contract!Troubles
    BY <1>7 DEF Suffer, KeptInv, RowsOK, Contract!Troubles
  <2>3. Allowed(k)
    BY <1>1, <1>7, <2>2 DEF Allowed, SameOutcome, OutcomeOf
  <2>4. QED
    BY <2>1, <2>3, RunPromise
<1>8. QED
  BY <1>4, <1>5, <1>6, <1>7 DEF FailCreation

LEMMA ActivateKept ==
  ASSUME KeptInv, NEW k \in Keys, ActivateTenant(k)
  PROVE  KeptInv' /\ Promise /\ RunMoves(k)
<1>1. /\ tenant[SlugOf(k)].status # "FAILED" /\ attempt[k].status = "provisioning"
      /\ Turns(k, "provision", "finish") /\ MarkTenant(k, "ACTIVE")
      /\ UNCHANGED <<attempt, trouble, req>>
  BY DEF ActivateTenant, ActivationAllowed, Worker
<1>2. JobGoes(k, "provision", "finish")
  BY <1>1, RunTurns, RunStates
<1>3. Owns(k) /\ Claimed(k) /\ "ACTIVE" \in TenantStatuses \ {"none"} /\ OutcomeOf(k) = "none"
  BY <1>1, <1>2, RunInTime DEF RunsAgree, WithTenant, Claimed, TenantStatuses, OutcomeOf, Terminal
<1>4. /\ RunMoves(k) /\ Owns(k)' /\ tenant'[SlugOf(k)] = [of |-> k, status |-> "ACTIVE"]
      /\ \A S : TenantHas(k, S)' <=> "ACTIVE" \in S
  BY <1>1, <1>2, <1>3, TenantMoves DEF JobGoes, Owns
<1>5. ~TenantHas(k, {"FAILED"})
  BY <1>1 DEF TenantHas
<1>6. ~Overran(k)' => InTime(k)'
  BY <1>1, <1>2, <1>4, RunInTime DEF InTime, Overran
<1>7. KeptInv'
  BY <1>2, <1>3, <1>4, <1>5, <1>6, KeyKept
<1>8. Allowed(k)
  BY <1>1, <1>3, <1>4 DEF Allowed, SameOutcome, SameTrouble, OutcomeOf, Owns
<1>9. QED
  BY <1>4, <1>7, <1>8, RunPromise

\* The success is written, or that fails silently.
LEMMA FinishKept ==
  ASSUME KeptInv, NEW k \in Keys, FinishRun(k)
  PROVE  KeptInv' /\ Promise /\ RunMoves(k)
<1>1. job[k].state = "finish" /\ Goes(k, "resolved") /\ UNCHANGED <<tenant, trouble, req>>
  BY DEF FinishRun, Worker
<1>2. JobGoes(k, "finish", "resolved")
  BY <1>1, RunGoes, RunStates
<1>3. CASE UNCHANGED attempt
  <2>1. KeptInv' /\ RunMoves(k)
    BY <1>1, <1>2, <1>3, QuietKept DEF WithTenant, Working, Compensating
  <2>2. QED
    BY <1>1, <1>3, <2>1, QuietAllowed, RunPromise DEF OutcomeOf
<1>4. CASE Mark(k, "succeeded")
  <2>1. "succeeded" \in Terminal /\ "succeeded" \in Statuses \ {"accepted"}
    BY DEF Terminal, Statuses
  <2>2. MayChange(k) /\ Succeeding(k)
    BY <1>1, <1>2, StillMayChange DEF Working, Succeeding
  <2>3. /\ TenantHas(k, {"ACTIVE", "FAILED"}) /\ (~Overran(k) => TenantHas(k, {"ACTIVE"}))
    BY <1>2, <2>2, RunInTime DEF KeyInv, InTime
  <2>4. /\ RunMoves(k) /\ SlugOf(k)' = SlugOf(k)
        /\ (Owns(k)' <=> Owns(k)) /\ \A S : TenantHas(k, S)' <=> TenantHas(k, S)
    BY <1>1, <1>2, <1>4, <2>1, AttemptMoves DEF JobGoes
  <2>5. ~Overran(k)' => InTime(k)'
    BY <1>1, <1>2, <2>3, <2>4, RunInTime DEF InTime, Overran, Working, Compensating
  <2>6. KeptInv'
    BY <1>2, <2>3, <2>4, <2>5, KeyKept DEF WithTenant
  <2>7. Allowed(k)
    BY <1>1, <1>4, <2>1, <2>2, <2>3, SettleAllowed
  <2>8. QED
    BY <2>4, <2>6, <2>7, RunPromise
<1>5. QED
  BY <1>3, <1>4 DEF FinishRun

LEMMA FailStepKept ==
  ASSUME KeptInv, NEW k \in Keys, FailStep(k)
  PROVE  KeptInv' /\ Promise /\ RunMoves(k)
<1>1. /\ job[k].state \in {"provision", "finish"} /\ Goes(k, "compensate")
      /\ UNCHANGED <<attempt, tenant, trouble, req>>
  BY DEF FailStep, Worker
<1>2. JobGoes(k, job[k].state, "compensate")
  BY <1>1, RunGoes, RunStates
<1>3. Owns(k) /\ (~Overran(k)' => attempt'[k].status = "provisioning")
  BY <1>1, <1>2, RunInTime DEF RunsAgree, WithTenant, InTime, Working, Overran
<1>4. KeptInv' /\ RunMoves(k)
  BY <1>1, <1>2, <1>3, QuietKept
<1>5. QED
  BY <1>1, <1>4, QuietAllowed, RunPromise DEF OutcomeOf

\* The compensation: the tenant is marked, or that fails one way or another.
LEMMA CompensateKept ==
  ASSUME KeptInv, NEW k \in Keys, CompensateTenant(k)
  PROVE  KeptInv' /\ Promise /\ RunMoves(k)
<1>1. UNCHANGED <<attempt, req>>
  BY DEF CompensateTenant, Worker
<1>2. ASSUME NEW to \in {"fail", "cleanup", "rejected"}, Turns(k, "compensate", to),
             trouble[k] \subseteq trouble'[k]
      PROVE  /\ JobGoes(k, "compensate", to) /\ Owns(k) /\ Claimed(k) /\ MayChange(k)
             /\ ~Overran(k) => attempt[k].status = "provisioning" /\ job[k].state = "compensate"
             /\ job[k].state # "none" /\ KeyInv(k) /\ (~Overran(k) => InTime(k))
  <2>1. JobGoes(k, "compensate", to)
    BY <1>1, <1>2, RunTurns, RunStates
  <2>2. Owns(k) /\ job[k].state # "none" /\ KeyInv(k) /\ (~Overran(k) => InTime(k))
    BY <2>1, RunInTime DEF RunsAgree, WithTenant
  <2>3. Claimed(k)
    BY <2>2, RunKnows
  <2>4. MayChange(k) /\ (~Overran(k) => attempt[k].status = "provisioning")
    BY <2>1, StillMayChange DEF Working, Compensating
  <2>5. QED
    BY <2>1, <2>2, <2>3, <2>4, RunInTime
<1>3. CASE Turns(k, "compensate", "fail") /\ MarkTenant(k, "FAILED") /\ UNCHANGED trouble
  <2>1. /\ JobGoes(k, "compensate", "fail") /\ Owns(k) /\ Claimed(k) /\ MayChange(k)
        /\ ~Overran(k) => attempt[k].status = "provisioning" /\ job[k].state = "compensate"
        /\ KeyInv(k) /\ (~Overran(k) => InTime(k))
    BY <1>2, <1>3
  <2>2. "FAILED" \in TenantStatuses \ {"none"}
    BY DEF TenantStatuses
  <2>3. /\ RunMoves(k) /\ Owns(k)' /\ tenant'[SlugOf(k)] = [of |-> k, status |-> "FAILED"]
        /\ \A S : TenantHas(k, S)' <=> "FAILED" \in S
    BY <1>1, <1>3, <2>1, <2>2, TenantMoves DEF JobGoes, Owns
  <2>4. Overran(k)' <=> Overran(k)
    BY <1>3 DEF Overran
  <2>5. ~Overran(k) => ~Succeeding(k)'
    BY <1>1, <2>1 DEF Succeeding, JobGoes
  <2>6. ~Overran(k)' => InTime(k)'
    BY <1>1, <2>1, <2>4, <2>5, RunInTime DEF InTime
  <2>7. Claimed(k)'
    BY <1>1, <2>1 DEF Claimed
  <2>8. KeptInv'
    BY <2>1, <2>3, <2>6, <2>7, KeyKept
  <2>9. Allowed(k)
    BY <1>1, <1>3, <2>1, <2>3 DEF Allowed, SameOutcome, SameTrouble, OutcomeOf, Owns
  <2>10. QED
    BY <2>3, <2>8, <2>9, RunPromise
<1>4. CASE Turns(k, "compensate", "fail") /\ Suffer(k, "unmarked") /\ UNCHANGED tenant
  <2>1. trouble'[k] = trouble[k] \union {"unmarked"} /\ "unmarked" \in Contract!Troubles
    BY <1>4 DEF Suffer, KeptInv, RowsOK, Contract!Troubles
  <2>2. /\ JobGoes(k, "compensate", "fail") /\ Claimed(k)
        /\ ~Overran(k) => attempt[k].status = "provisioning"
    BY <1>2, <1>4, <2>1
  <2>3. Claimed(k)' /\ (~Overran(k)' => attempt'[k].status = "provisioning")
    BY <1>1, <2>1, <2>2 DEF Claimed, Overran
  <2>4. KeptInv' /\ RunMoves(k)
    BY <1>1, <1>4, <2>1, <2>2, <2>3, QuietKept DEF WithTenant
  <2>5. Allowed(k)
    BY <1>1, <1>4, <2>1 DEF Allowed, SameOutcome, OutcomeOf
  <2>6. QED
    BY <2>4, <2>5, RunPromise
<1>5. ASSUME NEW to \in {"cleanup", "rejected"}, Turns(k, "compensate", to),
             UNCHANGED <<tenant, trouble>>
      PROVE  KeptInv' /\ Promise /\ RunMoves(k)
  <2>1. /\ JobGoes(k, "compensate", to) /\ Owns(k)
        /\ ~Overran(k) => attempt[k].status = "provisioning"
    BY <1>2, <1>5
  <2>2. ~Overran(k)' => attempt'[k].status = "provisioning"
    BY <1>1, <1>5, <2>1 DEF Overran
  <2>3. KeptInv' /\ RunMoves(k)
    BY <1>1, <1>5, <2>1, <2>2, QuietKept
  <2>4. QED
    BY <1>1, <1>5, <2>3, QuietAllowed, RunPromise DEF OutcomeOf
<1>6. QED
  BY <1>3, <1>4, <1>5 DEF CompensateTenant

\* The failure is written, or that fails silently.
LEMMA SettleKept ==
  ASSUME KeptInv, NEW k \in Keys, SettleFailure(k)
  PROVE  KeptInv' /\ Promise /\ RunMoves(k)
<1>1. UNCHANGED <<tenant, trouble, req>>
  BY DEF SettleFailure, Worker
<1>2. ASSUME NEW from \in {"fail", "cleanup"}, Turns(k, from, "rejected"),
             NEW status \in {"failed", "failed-needs-manual-cleanup"},
             status = "failed" => from = "fail", UNCHANGED attempt \/ Mark(k, status)
      PROVE  KeptInv' /\ Promise /\ RunMoves(k)
  <2>1. JobGoes(k, from, "rejected")
    BY <1>1, <1>2, RunTurns, RunStates
  <2>2. status \in Terminal /\ status \in Statuses \ {"accepted", "succeeded"}
    BY DEF Terminal, Statuses
  <2>3. KeptInv' /\ RunMoves(k)
    BY <1>1, <1>2, <2>1, <2>2, QuietKept DEF WithTenant, Working, Compensating
  <2>4. CASE UNCHANGED attempt
    BY <1>1, <2>3, <2>4, QuietAllowed, RunPromise DEF OutcomeOf
  <2>5. CASE Mark(k, status)
    <3>1. MayChange(k) /\ job[k].state # "none"
      BY <2>1, RunInTime, StillMayChange DEF Working, Compensating
    <3>2. status = "failed" /\ Owns(k) => TenantHas(k, {"FAILED"}) \/ trouble'[k] # {}
      BY <1>1, <1>2, <2>1, RunInTime DEF RunsAgree
    <3>3. status # "succeeded"
      OBVIOUS
    <3>4. Allowed(k)
      BY <1>1, <2>2, <2>5, <3>1, <3>2, <3>3, SettleAllowed
    <3>5. QED
      BY <2>3, <3>4, RunPromise
  <2>6. QED
    BY <1>2, <2>4, <2>5
<1>3. QED
  BY <1>2 DEF SettleFailure

\* The queue: what it writes is the row of the job.
LEMMA CompleteKept ==
  ASSUME KeptInv, NEW k \in Keys, CompleteJob(k) \/ FailRun(k)
  PROVE  KeptInv' /\ Promise /\ RunMoves(k)
<1>1. UNCHANGED <<attempt, tenant, trouble, req>>
  BY DEF CompleteJob, FailRun, Worker
<1>2. ASSUME NEW to \in {"done", "rejected"}, Goes(k, to), job[k].state \in {"resolved", "waiting"}
      PROVE  KeptInv' /\ RunMoves(k)
  <2>1. JobGoes(k, job[k].state, to)
    BY <1>1, <1>2, RunGoes, RunStates
  <2>2. QED
    BY <1>1, <1>2, <2>1, QuietKept DEF WithTenant, Working, Compensating
<1>3. KeptInv' /\ RunMoves(k)
  BY <1>2 DEF CompleteJob, FailRun
<1>4. QED
  BY <1>1, <1>3, QuietAllowed, RunPromise DEF OutcomeOf

LEMMA RejectKept ==
  ASSUME KeptInv, NEW k \in Keys, RejectJob(k)
  PROVE  KeptInv' /\ Promise /\ RunMoves(k)
<1> DEFINE to == IF job[k].runs > 1 THEN "waiting" ELSE "failed"
           j == [job[k] EXCEPT !.state = to, !.runs = @ - 1, !.timer = TRUE]
<1>1. job[k].state = "rejected" /\ UNCHANGED <<attempt, tenant, trouble, req>>
  BY DEF RejectJob, Worker
<1>2. job \in [Keys -> JobTypes] /\ KeyInv(k) /\ job[k].runs > 0
  BY <1>1 DEF KeptInv, RowsOK, KeyInv, JobIs
<1>3. job' = [job EXCEPT ![k] = j]
  BY <1>2 DEF RejectJob
<1>4. j \in JobTypes /\ j.state = to /\ j.late = job[k].late /\ (j.state = "waiting" => j.runs > 0)
  <2>1. job[k].runs - 1 \in 0 .. MaxRuns /\ to \in States /\ TRUE \in BOOLEAN
    BY <1>2, RunStates, ConstantsAssumption DEF JobTypes
  <2>2. job[k] \in JobTypes
    BY <1>2
  <2>3. ASSUME NEW n \in 0 .. MaxRuns, NEW now \in States
        PROVE  LET i == [job[k] EXCEPT !.state = now, !.runs = n, !.timer = TRUE] IN
               i \in JobTypes /\ i.state = now /\ i.runs = n /\ i.late = job[k].late
    BY <2>2 DEF JobTypes
  <2>4. j = [job[k] EXCEPT !.state = to, !.runs = job[k].runs - 1, !.timer = TRUE]
    OBVIOUS
  <2>5. to = "waiting" => job[k].runs - 1 > 0
    BY <2>2 DEF JobTypes
  <2> HIDE DEF j, to
  <2>6. QED
    BY <2>1, <2>3, <2>4, <2>5
<1> HIDE DEF j
<1>5. job'[k] = j /\ \A x \in Keys \ {k} : job'[x] = job[x]
  BY <1>2, <1>3
<1>6. JobMoves(k)
  BY <1>1, <1>2, <1>3, <1>4, <1>5 DEF JobMoves, KeyInv, JobIs, Overran
<1>7. JobGoes(k, "rejected", to)
  BY <1>1, <1>4, <1>5, <1>6 DEF JobGoes, RunsAt
<1>8. KeptInv' /\ RunMoves(k)
  BY <1>1, <1>7, QuietKept DEF WithTenant, Working, Compensating
<1>9. QED
  BY <1>1, <1>8, QuietAllowed, RunPromise DEF OutcomeOf

\* The timer wins the race.
LEMMA OverrunKept ==
  ASSUME KeptInv, NEW k \in Keys, OverrunJob(k)
  PROVE  KeptInv' /\ Promise /\ RunMoves(k)
<1> DEFINE more == {job[k].runs} \X ({job[k].state} \intersect (Abortable \union Compensating))
           j == [job[k] EXCEPT !.state = "timedOut", !.timer = FALSE, !.late = @ \union more]
<1>1. /\ job[k].state \in {"waiting"} \union Running /\ Suffer(k, "overran")
      /\ UNCHANGED <<attempt, tenant, req>>
  BY DEF OverrunJob, Worker
<1>2. /\ job \in [Keys -> JobTypes] /\ trouble \in [Keys -> SUBSET Contract!Troubles]
      /\ KeyInv(k) /\ job[k].state \notin {"none", "done", "failed"} /\ job[k].runs > 0
  BY <1>1, RunStates DEF KeptInv, RowsOK, KeyInv, JobIs
<1>3. job' = [job EXCEPT ![k] = j]
  BY <1>2 DEF OverrunJob
<1>4. /\ j \in JobTypes /\ j.state = "timedOut" /\ j.late = job[k].late \union more
      /\ j.runs = job[k].runs
  <2>1. job[k] \in JobTypes /\ more \in SUBSET LateRuns
    BY <1>2 DEF JobTypes, LateRuns
  <2>2. "timedOut" \in States
    BY RunStates
  <2>3. QED
    BY <2>1, <2>2 DEF JobTypes
<1>5. job'[k] = j /\ \A x \in Keys \ {k} : job'[x] = job[x]
  BY <1>2, <1>3
<1>6. trouble'[k] = trouble[k] \union {"overran"} /\ "overran" \in Contract!Troubles /\ Overran(k)'
  BY <1>1, <1>2 DEF Suffer, Contract!Troubles, Overran
<1>7. RunsAt(k)' \subseteq RunsAt(k) \union {"timedOut"}
  <2>1. \A x \in more : x[2] = job[k].state
    OBVIOUS
  <2>2. QED
    BY <1>4, <1>5, <2>1 DEF RunsAt
<1> HIDE DEF j
<1>8. JobGoes(k, job[k].state, "timedOut")
  <2>1. JobMoves(k)
    BY <1>2, <1>3, <1>4, <1>5, <1>6 DEF JobMoves
  <2>2. QED
    BY <1>4, <1>5, <1>7, <2>1 DEF JobGoes, RunsAt
<1>9. KeptInv' /\ RunMoves(k)
  BY <1>1, <1>6, <1>8, QuietKept DEF WithTenant
<1>10. Allowed(k)
  BY <1>1, <1>6 DEF Allowed, SameOutcome, OutcomeOf
<1>11. QED
  BY <1>9, <1>10, RunPromise

LEMMA NoticeKept ==
  ASSUME KeptInv, NEW k \in Keys, NoticeSignal(k)
  PROVE  KeptInv' /\ Promise /\ RunMoves(k)
<1>1. UNCHANGED <<attempt, tenant, trouble, req>>
  BY DEF NoticeSignal, Worker
<1>2. PICK run \in job[k].late : job' = [job EXCEPT ![k].late = @ \ {run}]
  BY DEF NoticeSignal
<1> DEFINE j == [job[k] EXCEPT !.late = @ \ {run}]
<1>3. /\ job \in [Keys -> JobTypes] /\ KeyInv(k) /\ Overran(k) /\ job[k].state # "none"
  BY <1>2 DEF KeptInv, RowsOK, KeyInv, JobIs, Overran
<1>4. job' = [job EXCEPT ![k] = j]
  BY <1>2
<1>5. /\ j \in JobTypes /\ j.state = job[k].state /\ j.late \subseteq job[k].late
      /\ j.runs = job[k].runs
  BY <1>3 DEF JobTypes
<1> HIDE DEF j
<1>6. job'[k] = j /\ \A x \in Keys \ {k} : job'[x] = job[x]
  BY <1>3, <1>4
<1>7. Overran(k)'
  BY <1>1, <1>3 DEF Overran
<1>8. JobMoves(k) /\ RunsAt(k)' \subseteq RunsAt(k)
  BY <1>3, <1>4, <1>5, <1>6, <1>7 DEF JobMoves, KeyInv, JobIs, RunsAt
<1>9. JobGoes(k, job[k].state, "rejected")
  BY <1>3, <1>5, <1>6, <1>8 DEF JobGoes, RunsAt
<1>10. KeptInv' /\ RunMoves(k)
  BY <1>1, <1>9, QuietKept DEF WithTenant, Working, Compensating
<1>11. QED
  BY <1>1, <1>10, QuietAllowed, RunPromise DEF OutcomeOf

\* The attempt of a run that overran is 'failed', whatever it was.
LEMMA TimeoutKept ==
  ASSUME KeptInv, NEW k \in Keys, RecordTimeout(k)
  PROVE  KeptInv' /\ Promise /\ RunMoves(k)
<1>1. job[k].state = "timedOut" /\ UNCHANGED <<tenant, trouble, req>>
  BY DEF RecordTimeout, Worker
<1>2. Overran(k) /\ Overran(k)' /\ trouble[k] # {} /\ MayChange(k)
  BY <1>1 DEF KeptInv, KeyInv, InTime, Overran, MayChange
<1>3. "failed" \in Terminal /\ "failed" \in Statuses \ {"accepted", "succeeded"}
  BY DEF Terminal, Statuses
<1>4. CASE UNCHANGED attempt /\ Goes(k, "rejected")
  <2>1. JobGoes(k, "timedOut", "rejected")
    BY <1>1, <1>4, RunGoes, RunStates
  <2>2. KeptInv' /\ RunMoves(k)
    BY <1>1, <1>4, <2>1, QuietKept DEF WithTenant, Working, Compensating
  <2>3. QED
    BY <1>1, <1>4, <2>2, QuietAllowed, RunPromise DEF OutcomeOf
<1>5. CASE Mark(k, "failed") /\ Goes(k, IF Owns(k) THEN "compensate" ELSE "fail")
  <2> DEFINE to == IF Owns(k) THEN "compensate" ELSE "fail"
  <2>1. to \in {"compensate", "fail"} /\ (to = "compensate" => Owns(k))
    OBVIOUS
  <2>2. JobGoes(k, "timedOut", to)
    BY <1>1, <1>5, <2>1, RunGoes, RunStates
  <2>3. Claimed(k)'
    BY <1>1, <1>3, <1>5, Marked DEF Claimed
  <2>4. KeptInv' /\ RunMoves(k)
    BY <1>1, <1>2, <1>3, <1>5, <2>1, <2>2, <2>3, QuietKept DEF WithTenant
  <2>5. Allowed(k)
    BY <1>1, <1>2, <1>3, <1>5, SettleAllowed
  <2>6. QED
    BY <2>4, <2>5, RunPromise
<1>6. QED
  BY <1>4, <1>5 DEF RecordTimeout

LEMMA ProvisionKept ==
  ASSUME KeptInv, NEW k \in Keys, Provision(k) \/ FailRun(k) \/ FailCreation(k) \/ OverrunJob(k)
  PROVE  KeptInv' /\ Promise /\ RunMoves(k)
BY ClaimKept, ResumeKept, ResetKept, CreateKept, RecordKept, ActivateKept, FinishKept, FailStepKept,
   CompensateKept, SettleKept, TimeoutKept, CompleteKept, RejectKept, NoticeKept, FailCreationKept,
   OverrunKept
DEF Provision

-----------------------------------------------------------------------------
(* What a page shows, by the contract alone                                  *)

\* A failure is of a tenant that has FAILED; and what has been shown of an
\* attempt stays what it says.
FailureKept(k) ==
  trouble[k] = {} /\ attempt[k].status = "failed" /\ Owns(k) => TenantHas(k, {"FAILED"})
Stays(k, shown) ==
  /\ shown = "succeeded" =>
       /\ TenantHas(k, {"ACTIVE", "FAILED"})
       /\ ~Overran(k) => attempt[k].status = "succeeded" /\ TenantHas(k, {"ACTIVE"})
  /\ shown = "failed-needs-manual-cleanup" /\ ~Overran(k) =>
       attempt[k].status = "failed-needs-manual-cleanup"
  /\ shown = "failed" /\ trouble[k] = {} =>
       IF Owns(k) THEN TenantHas(k, {"FAILED"}) ELSE attempt[k].status = "failed"

\* What the contract allows to happen to the tenant and the outcome of an
\* attempt, whichever attempt a step is of.
TenantKept(k) ==
  (Owns(k)' <=> Owns(k)) /\ \A S : TenantHas(k, S)' <=> TenantHas(k, S)
RowStep(k) ==
  /\ trouble[k] \subseteq trouble'[k]
  /\ \/ TenantKept(k)
     \/ ~Owns(k) /\ MayChange(k) /\ SameOutcome(k)
     \/ /\ Owns(k) /\ Owns(k)' /\ SameOutcome(k) /\ OutcomeOf(k) = "none"
        /\ TenantHas(k, {"ACTIVE"})' /\ ~TenantHas(k, {"FAILED"})
     \/ Owns(k) /\ MayChange(k) /\ SameOutcome(k) /\ TenantHas(k, {"FAILED"})'
  /\ \/ SameOutcome(k)
     \/ OutcomeOf(k) = "failed" /\ OutcomeOf(k)' = "none" /\ Owns(k)
     \/ /\ MayChange(k)
        /\ OutcomeOf(k)' = "failed" /\ Owns(k)' => TenantHas(k, {"FAILED"})' \/ trouble'[k] # {}

\* An attempt keeps its values.
RowsStay == \A k \in Keys : attempt[k] # Absent =>
              attempt'[k] # Absent /\ attempt'[k].payload = attempt[k].payload

LEMMA RowSteps ==
  ASSUME KeptInv, Promise, RowsStay, NEW k \in Keys, attempt[k] # Absent
  PROVE  RowStep(k)
<1> DEFINE s == SlugOf(k)
           reserved == [x \in Keys |-> IF attempt[x] = Absent THEN "unreserved" ELSE attempt[x].payload]
           outcome == [x \in Keys |-> OutcomeOf(x)]
<1>1. /\ attempt[k] \in AttemptTypes /\ tenant \in [Slugs -> TenantTypes]
      /\ trouble \in [Keys -> SUBSET Contract!Troubles]
  BY DEF KeptInv, RowsOK
<1>2. SlugOf(k)' = s /\ s \in Slugs /\ k # Nothing
  BY <1>1, AttemptIs, RowTypes, SlugType DEF RowsStay, SlugOf
<1>3. Slug(reserved[k]) = s /\ outcome[k] = OutcomeOf(k)
  BY DEF SlugOf
<1>4. tenant' = tenant => TenantKept(k)
  BY <1>2 DEF TenantKept, Owns, TenantHas
<1>5. outcome' = outcome => SameOutcome(k)
  <2>1. outcome[k] = OutcomeOf(k) /\ outcome'[k] = OutcomeOf(k)'
    OBVIOUS
  <2>2. QED
    BY <2>1 DEF SameOutcome
<1> HIDE DEF s, reserved, outcome
<1>6. CASE UNCHANGED <<tenant, outcome, trouble>>
  BY <1>4, <1>5, <1>6 DEF RowStep
<1>7. ASSUME NEW x \in Keys, NEW status, Contract!Becomes(x, status),
             tenant[Slug(reserved[x])] = NoTenant \/ tenant[Slug(reserved[x])].of = x,
             Slug(reserved[x]) # s \/ x # k
      PROVE  RowStep(k)
  <2> DEFINE t == Slug(reserved[x])
  <2>1. UNCHANGED <<outcome, trouble>>
    BY <1>7 DEF Contract!Becomes, outcome
  <2>2. tenant' = [tenant EXCEPT ![t] = [of |-> x, status |-> status]]
    BY <1>7 DEF Contract!Becomes, reserved
  <2>3. CASE t # s
    <3>1. tenant'[s] = tenant[s]
      BY <1>1, <1>2, <2>2, <2>3
    <3>2. TenantKept(k)
      BY <1>2, <3>1 DEF TenantKept, Owns, TenantHas, s
    <3>3. QED
      BY <1>5, <2>1, <3>2 DEF RowStep
  <2>4. CASE t = s
    <3>1. x # k /\ tenant'[s].of = x
      BY <1>1, <1>2, <1>7, <2>2, <2>4
    <3>2. tenant[s].of \in {x, Nothing}
      BY <1>7, <2>4 DEF NoTenant
    <3>3. TenantKept(k)
      BY <1>2, <3>1, <3>2 DEF TenantKept, Owns, TenantHas, s
    <3>4. QED
      BY <1>5, <2>1, <3>3 DEF RowStep
  <2>5. QED
    BY <2>3, <2>4
<1>8. ASSUME NEW status, Contract!Becomes(k, status)
      PROVE  /\ tenant'[s] = [of |-> k, status |-> status]
             /\ SameOutcome(k) /\ UNCHANGED trouble
             /\ Owns(k)' /\ \A S : TenantHas(k, S)' <=> status \in S
  <2>1. UNCHANGED <<outcome, trouble>> /\ tenant' = [tenant EXCEPT ![s] = [of |-> k, status |-> status]]
    BY <1>3, <1>8 DEF Contract!Becomes, outcome, reserved
  <2>2. tenant'[s] = [of |-> k, status |-> status]
    BY <1>1, <1>2, <2>1
  <2>3. Owns(k)' /\ \A S : TenantHas(k, S)' <=> status \in S
    BY <1>2, <2>2 DEF Owns, TenantHas
  <2>4. QED
    BY <1>5, <2>1, <2>2, <2>3
<1>9. ASSUME NEW x \in Keys, Contract!Give(x) \/ Contract!Activate(x) \/ Contract!Withdraw(x)
      PROVE  RowStep(k)
  <2>1. tenant[Slug(reserved[x])] = NoTenant \/ tenant[Slug(reserved[x])].of = x
    BY <1>9
    DEF Contract!Give, Contract!Activate, Contract!Withdraw, Contract!TenantOf, Contract!NotGiven,
        NoTenant, Nothing, reserved
  <2>2. PICK status : Contract!Becomes(x, status)
    BY <1>9 DEF Contract!Give, Contract!Activate, Contract!Withdraw
  <2>3. CASE x # k
    BY <1>7, <2>1, <2>2, <2>3
  <2>4. CASE x = k
    <3>1. /\ Contract!TenantOf(k) = tenant[s] /\ (Contract!Pending(k) <=> OutcomeOf(k) = "none")
          /\ Contract!MayChange(k) <=> MayChange(k)
      BY <1>3
      DEF Contract!TenantOf, Contract!Pending, Contract!MayChange, Contract!Overran, MayChange,
          Overran, reserved, outcome
    <3>2. CASE Contract!Give(k)
      <4>1. ~Owns(k) /\ MayChange(k)
        BY <1>2, <3>1, <3>2 DEF Contract!Give, Contract!NotGiven, Owns, s, Nothing
      <4>2. SameOutcome(k) /\ UNCHANGED trouble
        BY <1>8, <3>2 DEF Contract!Give
      <4>3. QED
        BY <4>1, <4>2 DEF RowStep
    <3>3. CASE Contract!Activate(k)
      <4>1. Owns(k) /\ ~TenantHas(k, {"FAILED"}) /\ OutcomeOf(k) = "none"
        BY <3>1, <3>3 DEF Contract!Activate, Owns, TenantHas, s
      <4>2. SameOutcome(k) /\ UNCHANGED trouble /\ Owns(k)' /\ TenantHas(k, {"ACTIVE"})'
        BY <1>8, <3>3 DEF Contract!Activate
      <4>3. QED
        BY <4>1, <4>2 DEF RowStep
    <3>4. CASE Contract!Withdraw(k)
      <4>1. Owns(k) /\ MayChange(k)
        BY <3>1, <3>4 DEF Contract!Withdraw, Owns, s
      <4>2. SameOutcome(k) /\ UNCHANGED trouble /\ TenantHas(k, {"FAILED"})'
        BY <1>8, <3>4 DEF Contract!Withdraw
      <4>3. QED
        BY <4>1, <4>2 DEF RowStep
    <3>5. QED
      BY <1>9, <2>4, <3>2, <3>3, <3>4
  <2>5. QED
    BY <2>3, <2>4
<1>10. ASSUME NEW x \in Keys, NEW result, Contract!Settle(x, result) PROVE RowStep(k)
  <2>1. /\ tenant' = tenant /\ outcome' = [outcome EXCEPT ![x] = result]
        /\ \E t \in {trouble[x], trouble[x] \union {"unmarked"}} : trouble' = [trouble EXCEPT ![x] = t]
    BY <1>10 DEF Contract!Settle, outcome
  <2>2. trouble[k] \subseteq trouble'[k]
    BY <1>1, <2>1
  <2>3. OutcomeOf(k)' = IF x = k THEN result ELSE OutcomeOf(k)
    BY <2>1 DEF outcome
  <2>4. CASE x # k
    BY <1>4, <2>1, <2>2, <2>3, <2>4 DEF RowStep, SameOutcome
  <2>5. CASE x = k
    <3>1. MayChange(k)
      BY <1>3, <1>10, <2>5
      DEF Contract!Settle, Contract!Pending, Contract!MayChange, Contract!Overran, MayChange,
          Overran, outcome
    <3>2. result = "failed" /\ Owns(k) => TenantHas(k, {"FAILED"}) \/ trouble'[k] # {}
      BY <1>3, <1>10, <2>5 DEF Contract!Settle, Contract!TenantOf, Owns, TenantHas, s, reserved
    <3>3. TenantKept(k)
      BY <1>4, <2>1
    <3>4. OutcomeOf(k)' = "failed" /\ Owns(k)' => TenantHas(k, {"FAILED"})' \/ trouble'[k] # {}
      BY <2>3, <2>5, <3>2, <3>3 DEF TenantKept
    <3>5. QED
      BY <2>2, <3>1, <3>3, <3>4 DEF RowStep
  <2>6. QED
    BY <2>4, <2>5
<1>11. ASSUME NEW x \in Keys, Contract!Retry(x) PROVE RowStep(k)
  <2>1. UNCHANGED <<tenant, trouble>> /\ outcome' = [outcome EXCEPT ![x] = "none"] /\ outcome[x] = "failed"
    BY <1>11 DEF Contract!Retry, outcome
  <2>2. OutcomeOf(k)' = IF x = k THEN "none" ELSE OutcomeOf(k)
    BY <2>1 DEF outcome
  <2>3. x = k => Owns(k) /\ OutcomeOf(k) = "failed"
    BY <1>3, <1>11, <2>1 DEF Contract!Retry, Contract!TenantOf, Owns, s, reserved
  <2>4. QED
    BY <1>4, <2>1, <2>2, <2>3 DEF RowStep, SameOutcome
<1>12. ASSUME NEW x \in Keys, NEW t \in Contract!Troubles, Contract!Suffer(x, t) PROVE RowStep(k)
  <2>1. /\ UNCHANGED <<tenant, outcome>> /\ trouble' = [trouble EXCEPT ![x] = @ \union {t}]
    BY <1>12 DEF Contract!Suffer, outcome
  <2>2. trouble[k] \subseteq trouble'[k]
    BY <1>1, <2>1
  <2>3. QED
    BY <1>4, <1>5, <2>1, <2>2 DEF RowStep
<1>13. CASE Contract!ContractNext
  BY <1>6, <1>9, <1>10, <1>11, <1>12, <1>13
  DEF Contract!ContractNext, Contract!Reserve, Contract!Schedule, Contract!Tell, Contract!Hear,
      outcome
<1>14. CASE UNCHANGED Contract!contractVars
  BY <1>6, <1>14 DEF Contract!contractVars, outcome
<1>15. QED
  BY <1>13, <1>14 DEF Promise

LEMMA StatusIs ==
  ASSUME NEW k
  PROVE  /\ \A o \in Terminal : OutcomeOf(k) = o <=> attempt[k].status = o
         /\ OutcomeOf(k) = "none" => attempt[k].status \notin Terminal
BY DEF OutcomeOf, Terminal

LEMMA StaysKept ==
  ASSUME KeptInv, Promise, RowsStay, NEW k \in Keys, attempt[k] # Absent,
         NEW shown, Stays(k, shown)
  PROVE  Stays(k, shown)'
<1>1. RowStep(k) /\ (Overran(k) => Overran(k)') /\ (trouble'[k] = {} => trouble[k] = {})
  BY RowSteps DEF RowStep, Overran
<1>2. /\ \A o \in Terminal : OutcomeOf(k) = o <=> attempt[k].status = o
      /\ \A o \in Terminal : OutcomeOf(k)' = o <=> attempt'[k].status = o
  BY DEF OutcomeOf, Terminal
<1>3. {"succeeded", "failed", "failed-needs-manual-cleanup"} = Terminal /\ "none" \notin Terminal
  BY DEF Terminal
<1>4. ASSUME shown = "succeeded"
      PROVE  /\ TenantHas(k, {"ACTIVE", "FAILED"})'
             /\ ~Overran(k)' => attempt'[k].status = "succeeded" /\ TenantHas(k, {"ACTIVE"})'
  <2>1. TenantHas(k, {"ACTIVE", "FAILED"})
    BY <1>4 DEF Stays
  <2>2. Owns(k)
    BY <2>1 DEF TenantHas
  <2>3. TenantHas(k, {"ACTIVE", "FAILED"})'
    BY <1>1, <2>1, <2>2 DEF RowStep, TenantKept, TenantHas
  <2>4. ASSUME ~Overran(k)' PROVE attempt'[k].status = "succeeded" /\ TenantHas(k, {"ACTIVE"})'
    <3>1. OutcomeOf(k) = "succeeded" /\ TenantHas(k, {"ACTIVE"}) /\ ~MayChange(k)
      BY <1>1, <1>2, <1>3, <1>4, <2>4 DEF Stays, MayChange
    <3>2. QED
      BY <1>1, <1>2, <1>3, <2>2, <3>1 DEF RowStep, TenantKept, SameOutcome
  <2>5. QED
    BY <2>3, <2>4
<1>5. ASSUME shown = "failed-needs-manual-cleanup", ~Overran(k)'
      PROVE  attempt'[k].status = "failed-needs-manual-cleanup"
  <2>1. OutcomeOf(k) = "failed-needs-manual-cleanup" /\ ~MayChange(k)
    BY <1>1, <1>2, <1>3, <1>5 DEF Stays, MayChange
  <2>2. QED
    BY <1>1, <1>2, <1>3, <2>1 DEF RowStep, SameOutcome
<1>6. ASSUME shown = "failed", trouble'[k] = {}
      PROVE  IF Owns(k)' THEN TenantHas(k, {"FAILED"})' ELSE attempt'[k].status = "failed"
  <2>1. ~Overran(k)
    BY <1>1, <1>6 DEF Overran
  <2>2. CASE Owns(k)
    <3>1. TenantHas(k, {"FAILED"})
      BY <1>1, <1>6, <2>2 DEF Stays
    <3>2. QED
      BY <1>1, <2>2, <3>1 DEF RowStep, TenantKept, TenantHas
  <2>3. CASE ~Owns(k)
    <3>1. OutcomeOf(k) = "failed" /\ ~MayChange(k)
      BY <1>1, <1>2, <1>3, <1>6, <2>1, <2>3 DEF Stays, MayChange
    <3>2. QED
      BY <1>1, <1>2, <1>3, <2>3, <3>1 DEF RowStep, TenantKept, SameOutcome
  <2>4. QED
    BY <2>2, <2>3
<1>7. QED
  BY <1>4, <1>5, <1>6 DEF Stays

LEMMA FailuresKept ==
  ASSUME KeptInv, KeptInv', Promise, RowsStay, NEW k \in Keys, FailureKept(k)
  PROVE  FailureKept(k)'
<1>1. CASE attempt[k] = Absent
  <2> DEFINE outcome == [x \in Keys |-> OutcomeOf(x)]
  <2>1. k \notin {x \in Keys : job[x].state # "none"} /\ OutcomeOf(k) = "none"
    BY <1>1 DEF KeptInv, KeyInv, JobIs, OutcomeOf, Absent, Terminal
  <2>2. outcome[k] = OutcomeOf(k) /\ outcome'[k] = OutcomeOf(k)'
    OBVIOUS
  <2>3. CASE UNCHANGED outcome
    BY <2>1, <2>2, <2>3 DEF FailureKept, OutcomeOf, Terminal
  <2>4. ASSUME NEW x \in Keys, NEW result, Contract!Settle(x, result) PROVE OutcomeOf(k)' = "none"
    <3>1. x # k /\ outcome' = [outcome EXCEPT ![x] = result]
      BY <2>1, <2>4 DEF Contract!Settle
    <3>2. QED
      BY <2>1, <2>2, <3>1
  <2>5. ASSUME NEW x \in Keys, Contract!Retry(x) PROVE OutcomeOf(k)' = "none"
    <3>1. outcome' = [outcome EXCEPT ![x] = "none"]
      BY <2>5 DEF Contract!Retry
    <3>2. QED
      BY <2>1, <2>2, <3>1
  <2>6. OutcomeOf(k)' = "none"
    BY <2>1, <2>2, <2>4, <2>5
    DEF Promise, Contract!ContractNext, Contract!contractVars, Contract!Reserve, Contract!Schedule,
        Contract!Give, Contract!Activate, Contract!Withdraw, Contract!Becomes, Contract!Suffer,
        Contract!Tell, Contract!Hear
  <2>7. QED
    BY <2>6 DEF FailureKept, OutcomeOf, Terminal
<1>2. CASE attempt[k] # Absent
  <2>1. RowStep(k) /\ (trouble'[k] = {} => trouble[k] = {} /\ ~Overran(k))
    BY <1>2, RowSteps DEF RowStep, Overran
  <2>2. /\ OutcomeOf(k) = "failed" <=> attempt[k].status = "failed"
        /\ OutcomeOf(k)' = "failed" <=> attempt'[k].status = "failed"
    BY DEF OutcomeOf, Terminal
  <2>3. SUFFICES ASSUME trouble'[k] = {}, OutcomeOf(k)' = "failed", Owns(k)'
                 PROVE  TenantHas(k, {"FAILED"})'
    BY <2>2 DEF FailureKept
  <2>4. CASE SameOutcome(k)
    <3>1. OutcomeOf(k) = "failed" /\ ~MayChange(k)
      BY <2>1, <2>3, <2>4 DEF SameOutcome, MayChange
    <3>2. QED
      BY <2>1, <2>2, <2>3, <3>1 DEF RowStep, TenantKept, FailureKept
  <2>5. CASE ~SameOutcome(k)
    BY <2>1, <2>3, <2>5 DEF RowStep
  <2>6. QED
    BY <2>4, <2>5
<1>3. QED
  BY <1>1, <1>2

-----------------------------------------------------------------------------
(* The pages *)

CheckStages == {"none", "timer", "sent", "available", "unavailable"}
CheckTypes == [slug : Slugs \union {Nothing}, stage : CheckStages]
AvailableTypes ==
  [slug : Slugs \union {Nothing}, status : {"idle", "checking", "error"} \union CheckStages]
KeyRefTypes == [payload : Payloads \union {Nothing}, key : Keys \union {Nothing}]
PageTypes ==
  [view : {"form", "progress", "left"}, payload : Payloads, values : Nat,
   available : AvailableTypes, check : CheckTypes, keyRef : KeyRefTypes,
   submit : {"idle", "creating"} \union Contract!Answers, request : Requests \union {Nothing},
   viewed : Keys \union {Nothing}, shown : Statuses \union {Nothing},
   poll : {"none", "load", "timer", "stopped", "error"}]

\* Key k stands for the values p: an attempt, a call or a page has it so.
Stands(k, p) ==
  \/ attempt[k] # Absent /\ attempt[k].payload = p
  \/ \E r \in Requests : req[r].pc # "idle" /\ req[r].key = k /\ req[r].payload = p
  \/ \E g \in Pages : page[g].keyRef.key = k /\ page[g].keyRef.payload = p

\* A key that no client chose has been drawn, and stands for one payload.
KeysStand ==
  \A k \in Keys \ RawKeys, p \in Payloads :
    Stands(k, p) =>
      /\ \E d \in drawn : d.key = k
      /\ \A q \in Payloads : Stands(k, q) => p = q

\* The page's own key is one it has drawn, and a call that is under way for it
\* has that key and its values.
PageKeyed(g) ==
  LET p == page[g] IN
  /\ p.keyRef.payload # Nothing => p.keyRef.key \in Keys \ RawKeys
  /\ Creating(g) <=> p.request # Nothing
  /\ p.request # Nothing =>
       /\ OnForm(g) /\ req[p.request].pc # "idle"
       /\ req[p.request].payload = p.payload
       /\ p.keyRef = [payload |-> p.payload, key |-> req[p.request].key]

\* A page shows nothing before it looks at an attempt, and an outcome that it
\* shows stays.
PageShows(g) ==
  LET p == page[g] IN
  /\ p.poll # "none" \/ p.shown # Nothing => p.viewed \in Keys /\ attempt[p.viewed] # Absent
  /\ OnForm(g) => p.poll = "none" /\ p.shown = Nothing
  /\ p.shown \in Terminal => Stays(p.viewed, p.shown)

\* Of the values a page has it has drawn at most one key, and that is its key.
DrawnOnce ==
  /\ \A d \in drawn :
       /\ d.page \in Pages /\ d.key \in Keys \ RawKeys
       /\ d.values \in Nat /\ d.values <= page[d.page].values
       /\ d.values = page[d.page].values =>
            page[d.page].keyRef = [payload |-> page[d.page].payload, key |-> d.key]
  /\ \A c, d \in drawn : c.page = d.page /\ c.values = d.values => c.key = d.key

PagesInv ==
  /\ page \in [Pages -> PageTypes]
  /\ KeysStand
  /\ \A g \in Pages : PageKeyed(g) /\ PageShows(g)
  /\ DrawnOnce
  /\ PageNeverConflicts
  /\ \A k \in Keys : FailureKept(k)

LEMMA PagesInit == Init => PagesInv
<1> SUFFICES ASSUME Init PROVE PagesInv
  OBVIOUS
<1>1. /\ NoCheck \in CheckTypes
      /\ \A t \in Slugs : [slug |-> t, stage |-> "timer"] \in CheckTypes
      /\ [slug |-> Nothing, status |-> "idle"] \in AvailableTypes
      /\ [payload |-> Nothing, key |-> Nothing] \in KeyRefTypes
  BY DEF NoCheck, CheckTypes, CheckStages, AvailableTypes, KeyRefTypes
<1> DEFINE Opened(p) ==
             /\ p \in PageTypes
             /\ p.submit = "idle" /\ p.request = Nothing
             /\ p.keyRef = [payload |-> Nothing, key |-> Nothing]
             /\ p.poll = "none" /\ p.shown = Nothing
<1>2. ASSUME NEW p \in Payloads
      PROVE  Opened(Fresh(p)) /\ Opened([Fresh(p) EXCEPT !.view = "left", !.check = NoCheck])
  <2>1. Opened(Fresh(p))
    BY <1>1, SlugType DEF Fresh, PageTypes
  <2>2. Opened([Fresh(p) EXCEPT !.view = "left", !.check = NoCheck])
    BY <1>1, <2>1 DEF PageTypes
  <2>3. QED
    BY <2>1, <2>2
<1>3. Opened(NotOpen)
  <2>1. PICK p \in Payloads : p = CHOOSE x \in Payloads : TRUE
    BY ConstantsAssumption
  <2>2. NotOpen = [Fresh(p) EXCEPT !.view = "left", !.check = NoCheck]
    BY <2>1 DEF NotOpen
  <2>3. QED
    BY <1>2, <2>2
<1>4. ASSUME NEW g \in Pages PROVE Opened(page[g])
  <2>1. page[g] \in IF world.forms = {} THEN {NotOpen} ELSE {Fresh(p) : p \in world.forms}
    BY DEF Init
  <2>2. world.forms \subseteq Payloads
    BY ConstantsAssumption DEF Init
  <2>3. page[g] = NotOpen \/ \E p \in Payloads : page[g] = Fresh(p)
    BY <2>1, <2>2
  <2>4. QED
    BY <1>2, <1>3, <2>3
<1>5. page \in [Pages -> PageTypes]
  <2>1. page = [g \in Pages |-> page[g]]
    BY DEF Init
  <2>2. QED
    BY <1>4, <2>1
<1>6. KeysStand
  BY <1>4, RowTypes DEF Init, KeysStand, Stands, NoCall
<1>7. ASSUME NEW g \in Pages PROVE PageKeyed(g) /\ PageShows(g)
  BY <1>4, RowTypes DEF PageKeyed, PageShows, Creating, Nothing, Terminal
<1>8. DrawnOnce
  BY DEF Init, DrawnOnce
<1>9. \A k \in Keys : FailureKept(k)
  BY DEF Init, FailureKept, Absent
<1>10. QED
  BY <1>4, <1>5, <1>6, <1>7, <1>8, <1>9 DEF PagesInv, PageNeverConflicts

LEMMA ShowsKept ==
  ASSUME KeptInv, Promise, RowsStay, NEW g \in Pages, PageShows(g), page'[g] = page[g]
  PROVE  PageShows(g)'
<1>1. page[g].poll # "none" \/ page[g].shown # Nothing =>
        page[g].viewed \in Keys /\ attempt'[page[g].viewed] # Absent
  BY DEF PageShows, RowsStay
<1>2. ASSUME page[g].shown \in Terminal
      PROVE  Stays(page[g].viewed, page[g].shown)'
  <2>1. PICK k \in Keys : k = page[g].viewed /\ attempt[k] # Absent
    BY <1>2 DEF PageShows, Terminal, Nothing
  <2>2. PICK shown : shown = page[g].shown
    OBVIOUS
  <2>3. Stays(k, shown)'
    BY <1>2, <2>1, <2>2, StaysKept DEF PageShows
  <2>4. page'[g].viewed = k /\ page'[g].shown = shown
    BY <2>1, <2>2
  <2>5. QED
    BY <2>3, <2>4 DEF Stays, TenantHas, Owns, SlugOf, Overran
<1>3. QED
  BY <1>1, <1>2 DEF PageShows, OnForm

\* The same where neither the attempts nor the tenants change.
LEMMA ShowsSame ==
  ASSUME NEW g, PageShows(g), UNCHANGED <<attempt, tenant, trouble>>,
         page'[g].viewed = page[g].viewed, page'[g].shown = page[g].shown,
         page'[g].poll \in {page[g].poll, "none"}, page'[g].view \in {page[g].view, "left"}
  PROVE  PageShows(g)'
<1>1. Stays(page[g].viewed, page[g].shown) => Stays(page[g].viewed, page[g].shown)'
  BY DEF Stays, TenantHas, Owns, SlugOf, Overran
<1>2. QED
  BY <1>1 DEF PageShows, OnForm

LEMMA FailuresSame ==
  ASSUME NEW k, UNCHANGED <<attempt, tenant, trouble>>
  PROVE  FailureKept(k)' <=> FailureKept(k)
BY DEF FailureKept, TenantHas, Owns, SlugOf

\* Steps that leave the pages alone: no key gets other values, and a call a
\* page waits for goes on.
LEMMA CallPages ==
  ASSUME KeptInv, KeptInv', PagesInv, Promise, RowsStay, UNCHANGED <<page, drawn>>,
         \A k \in Keys \ RawKeys, p \in Payloads : Stands(k, p)' => Stands(k, p),
         \A r \in Requests : req[r].pc # "idle" =>
           req'[r].pc # "idle" /\ req'[r].key = req[r].key /\ req'[r].payload = req[r].payload
  PROVE  PagesInv'
<1>1. KeysStand'
  BY DEF PagesInv, KeysStand
<1>2. ASSUME NEW g \in Pages PROVE PageKeyed(g)'
  <2>1. PageKeyed(g) /\ page'[g] = page[g] /\ page[g].request \in Requests \union {Nothing}
    BY DEF PagesInv, PageTypes
  <2>2. QED
    BY <2>1 DEF PageKeyed, Creating, OnForm
<1>3. ASSUME NEW g \in Pages PROVE PageShows(g)'
  BY ShowsKept DEF PagesInv
<1>4. DrawnOnce' /\ PageNeverConflicts'
  BY DEF PagesInv, DrawnOnce, PageNeverConflicts
<1>5. \A k \in Keys : FailureKept(k)'
  BY FailuresKept DEF PagesInv
<1>6. QED
  BY <1>1, <1>2, <1>3, <1>4, <1>5 DEF PagesInv

\* A page goes on with its key; it waits for the call it waited for or for
\* none, and its number of edits goes up with its values.
PageGoes(g) ==
  LET p == page[g]
      n == page'[g]
  IN  /\ n.keyRef = p.keyRef
      /\ n.values > p.values \/ (n.values = p.values /\ n.payload = p.payload)
      /\ n.submit = "creating" <=> n.request # Nothing
      /\ n.submit # "conflict"
      /\ n.request # Nothing =>
           /\ n.request = p.request /\ n.payload = p.payload /\ n.view = "form"
           /\ req'[n.request] = req[n.request]
      /\ PageShows(g)'

LEMMA TurnPages ==
  ASSUME KeptInv, PagesInv, UNCHANGED <<attempt, tenant, trouble, drawn>>, page' \in [Pages -> PageTypes],
         \A r \in Requests : req'[r] = req[r] \/ req'[r].pc = "idle",
         \A g \in Pages : PageGoes(g)
  PROVE  PagesInv'
<1>1. KeysStand'
  <2>1. ASSUME NEW k \in Keys, NEW p \in Payloads, Stands(k, p)' PROVE Stands(k, p)
    BY <2>1 DEF Stands, PageGoes
  <2>2. QED
    BY <2>1 DEF PagesInv, KeysStand
<1>2. ASSUME NEW g \in Pages PROVE PageKeyed(g)'
  <2>1. PageKeyed(g) /\ PageGoes(g) /\ page[g].request \in Requests \union {Nothing}
    BY DEF PagesInv, PageTypes
  <2>2. QED
    BY <2>1 DEF PageKeyed, PageGoes, Creating, OnForm
<1>3. ASSUME NEW g \in Pages PROVE PageShows(g)' /\ page'[g].submit # "conflict"
  BY DEF PageGoes
<1>4. DrawnOnce'
  <2>1. ASSUME NEW d \in drawn
        PROVE  /\ d.page \in Pages /\ d.key \in Keys \ RawKeys
               /\ d.values \in Nat /\ d.values <= page'[d.page].values
               /\ d.values = page'[d.page].values =>
                    page'[d.page].keyRef = [payload |-> page'[d.page].payload, key |-> d.key]
    <3>1. /\ d.page \in Pages /\ d.key \in Keys \ RawKeys
          /\ d.values \in Nat /\ d.values <= page[d.page].values
          /\ d.values = page[d.page].values =>
               page[d.page].keyRef = [payload |-> page[d.page].payload, key |-> d.key]
      BY DEF PagesInv, DrawnOnce
    <3>2. page[d.page].values \in Nat /\ page'[d.page].values \in Nat
      BY <3>1 DEF PagesInv, PageTypes
    <3>3. QED
      BY <3>1, <3>2 DEF PageGoes
  <2>2. QED
    BY <2>1 DEF PagesInv, DrawnOnce
<1>5. \A k \in Keys : FailureKept(k)'
  BY FailuresSame DEF PagesInv
<1>6. QED
  BY <1>1, <1>2, <1>3, <1>4, <1>5 DEF PagesInv, PageNeverConflicts

\* One page goes on, and no call.
LEMMA TurnPage1 ==
  ASSUME KeptInv, PagesInv, NEW g \in Pages, NEW next \in PageTypes, Turn(g, next),
         UNCHANGED <<dataVars, req, drawn>>, PageGoes(g)
  PROVE  PagesInv'
<1>1. /\ page \in [Pages -> PageTypes] /\ page' = [page EXCEPT ![g] = next]
  BY DEF PagesInv, Turn
<1>2. page' \in [Pages -> PageTypes]
  BY <1>1
<1>3. ASSUME NEW h \in Pages PROVE PageGoes(h)
  <2>1. CASE h = g
    BY <2>1
  <2>2. CASE h # g
    <3>1. page'[h] = page[h]
      BY <1>1, <2>2
    <3>2. PageKeyed(h) /\ PageShows(h) /\ page[h].submit # "conflict"
      BY DEF PagesInv, PageNeverConflicts
    <3>3. PageShows(h)'
      BY <3>1, <3>2, ShowsSame DEF dataVars
    <3>4. QED
      BY <3>1, <3>2, <3>3 DEF PageGoes, PageKeyed, Creating, OnForm
  <2>3. QED
    BY <2>1, <2>2
<1>4. QED
  BY <1>2, <1>3, TurnPages DEF dataVars

\* What a page waits for and shows stays, but for what is said.
SameRequest(p, n) ==
  n.request = p.request /\ n.submit = p.submit /\ n.view = p.view /\ n.payload = p.payload
    /\ n.values = p.values /\ n.keyRef = p.keyRef
SameShown(p, n) == n.viewed = p.viewed /\ n.shown = p.shown /\ n.poll = p.poll

LEMMA CheckActions ==
  ASSUME KeptInv, PagesInv, NEW g \in Pages,
         SendCheck(g) \/ CheckSlugAvailability(g) \/ ShowCheck(g) \/ FailCheck(g)
  PROVE  PagesInv'
<1> DEFINE p == page[g]
           c == p.check
<1>1. /\ p \in PageTypes /\ c \in CheckTypes /\ NoCheck \in CheckTypes
      /\ PageKeyed(g) /\ PageShows(g) /\ p.submit # "conflict"
  BY DEF PagesInv, PageNeverConflicts, PageTypes, CheckTypes, NoCheck, CheckStages
<1>2. UNCHANGED <<dataVars, req, drawn>>
  BY DEF SendCheck, CheckSlugAvailability, ShowCheck, FailCheck, Local, Turn
<1>3. ASSUME NEW stage \in CheckStages
      PROVE  /\ [c EXCEPT !.stage = stage] \in CheckTypes
             /\ [slug |-> c.slug, status |-> stage] \in AvailableTypes
  BY <1>1 DEF CheckTypes, AvailableTypes
<1>4. ASSUME NEW status \in {"checking", "error"}
      PROVE  [slug |-> c.slug, status |-> status] \in AvailableTypes
  BY <1>1 DEF CheckTypes, AvailableTypes
<1>5. \E next \in PageTypes : Turn(g, next) /\ SameRequest(p, next) /\ SameShown(p, next)
  <2>1. CASE SendCheck(g)
    <3> DEFINE a == [slug |-> c.slug, status |-> "checking"]
               d == [c EXCEPT !.stage = "sent"]
    <3>1. a \in AvailableTypes /\ d \in CheckTypes
      BY <1>3, <1>4 DEF CheckStages
    <3> DEFINE next == [p EXCEPT !.check = d, !.available = a]
    <3>2. Turn(g, next)
      BY <2>1 DEF SendCheck, Local
    <3> HIDE DEF a, d
    <3>3. next \in PageTypes
      BY <1>1, <3>1 DEF PageTypes
    <3>4. SameRequest(p, next) /\ SameShown(p, next)
      BY <1>1 DEF PageTypes, SameRequest, SameShown
    <3>5. QED
      BY <3>2, <3>3, <3>4
  <2>2. CASE CheckSlugAvailability(g)
    <3> DEFINE d == [c EXCEPT !.stage = IF tenant[c.slug] = NoTenant THEN "available" ELSE "unavailable"]
    <3>1. d \in CheckTypes
      BY <1>3 DEF CheckStages
    <3>2. Turn(g, [p EXCEPT !.check = d])
      BY <2>2 DEF CheckSlugAvailability, Local
    <3> HIDE DEF d
    <3>3. QED
      BY <1>1, <3>1, <3>2 DEF PageTypes, SameRequest, SameShown
  <2>3. CASE ShowCheck(g) \/ FailCheck(g)
    <3>1. PICK a \in AvailableTypes : Turn(g, [p EXCEPT !.check = NoCheck, !.available = a])
      <4>1. CASE ShowCheck(g)
        BY <1>3, <4>1 DEF ShowCheck, Local, CheckStages
      <4>2. CASE FailCheck(g)
        BY <1>4, <4>2 DEF FailCheck
      <4>3. QED
        BY <2>3, <4>1, <4>2
    <3> DEFINE next == [p EXCEPT !.check = NoCheck, !.available = a]
    <3>2. next \in PageTypes
      BY <1>1, <3>1 DEF PageTypes
    <3>3. SameRequest(p, next) /\ SameShown(p, next)
      BY <1>1 DEF PageTypes, SameRequest, SameShown
    <3>4. QED
      BY <3>1, <3>2, <3>3
  <2>4. QED
    BY <2>1, <2>2, <2>3
<1>6. PICK next \in PageTypes : Turn(g, next) /\ SameRequest(p, next) /\ SameShown(p, next)
  BY <1>5
<1>7. page'[g] = next
  BY <1>6 DEF Turn, PagesInv
<1>8. PageGoes(g)
  <2>1. PageShows(g)'
    BY <1>1, <1>2, <1>6, <1>7, ShowsSame DEF dataVars, SameRequest, SameShown
  <2>2. QED
    BY <1>1, <1>2, <1>6, <1>7, <2>1 DEF PageGoes, PageKeyed, Creating, OnForm, SameRequest
<1>9. QED
  BY <1>2, <1>6, <1>8, TurnPage1

LEMMA EditKept ==
  ASSUME KeptInv, PagesInv, NEW g \in Pages, Edit(g)
  PROVE  PagesInv'
<1> DEFINE p == page[g]
<1>1. /\ p \in PageTypes /\ PageKeyed(g) /\ PageShows(g) /\ p.submit # "creating" /\ OnForm(g)
      /\ UNCHANGED <<dataVars, req, drawn>>
  BY DEF PagesInv, Edit, Local, Turn, Creating
<1>2. PICK q \in Payloads : Turn(g, Edited(g, q))
  BY DEF Edit, Local
<1>3. PICK c \in CheckTypes : c = IF Slug(q) = Slug(p.payload) THEN p.check
                                  ELSE [slug |-> Slug(q), stage |-> "timer"]
  BY <1>1, SlugType DEF PageTypes, CheckTypes, CheckStages
<1> DEFINE next == [p EXCEPT !.payload = q, !.values = @ + 1, !.submit = "idle", !.check = c]
<1>4. Turn(g, next)
  BY <1>2, <1>3 DEF Edited
<1>5. /\ next \in PageTypes /\ next.keyRef = p.keyRef /\ next.values > p.values
      /\ next.submit = "idle" /\ next.request = p.request /\ next.view = p.view
      /\ SameShown(p, next)
  <2>1. p.values \in Nat /\ p.values + 1 \in Nat /\ p.values + 1 > p.values
    BY <1>1 DEF PageTypes
  <2>2. next \in PageTypes
    BY <1>1, <2>1 DEF PageTypes
  <2>3. next.values = p.values + 1
    BY <1>1 DEF PageTypes
  <2>4. /\ next.keyRef = p.keyRef /\ next.submit = "idle" /\ next.request = p.request
        /\ next.view = p.view /\ SameShown(p, next)
    BY <1>1 DEF PageTypes, SameShown
  <2>5. QED
    BY <2>1, <2>2, <2>3, <2>4
<1> HIDE DEF next
<1>6. page'[g] = next
  BY <1>4 DEF Turn, PagesInv
<1>7. PageGoes(g)
  <2>1. PageShows(g)'
    BY <1>1, <1>5, <1>6, ShowsSame DEF dataVars, SameShown
  <2>2. QED
    BY <1>1, <1>5, <1>6, <2>1 DEF PageGoes, PageKeyed, Creating, OnForm
<1>8. QED
  BY <1>1, <1>4, <1>5, <1>7, TurnPage1

\* A page that gives up its request.
LEMMA AbandonKept ==
  ASSUME KeptInv, PagesInv, NEW g \in Pages, Disconnect(g) \/ Leave(g)
  PROVE  PagesInv'
<1> DEFINE p == page[g]
<1>1. /\ p \in PageTypes /\ PageShows(g) /\ NoCheck \in CheckTypes
      /\ UNCHANGED <<dataVars, req, drawn>>
  BY DEF PagesInv, Disconnect, Leave, Local, Turn, CheckTypes, CheckStages, NoCheck
<1> DEFINE GivesUp(next) ==
             /\ next.keyRef = p.keyRef /\ next.values = p.values /\ next.payload = p.payload
             /\ next.request = Nothing /\ next.submit \in {"idle", "error"}
             /\ next.viewed = p.viewed /\ next.shown = p.shown /\ next.poll \in {p.poll, "none"}
             /\ next.view \in {p.view, "left"}
<1>2. PICK next \in PageTypes : Turn(g, next) /\ GivesUp(next)
  <2>1. CASE Disconnect(g)
    <3> DEFINE next == [p EXCEPT !.request = Nothing, !.submit = "error"]
    <3>1. Turn(g, next)
      BY <2>1 DEF Disconnect
    <3>2. next \in PageTypes
      BY <1>1 DEF PageTypes, Contract!Answers
    <3>3. GivesUp(next)
      BY <1>1 DEF PageTypes
    <3>4. QED
      BY <3>1, <3>2, <3>3
  <2>2. CASE Leave(g)
    <3> DEFINE next == [p EXCEPT !.view = "left", !.request = Nothing, !.submit = "idle",
                          !.poll = "none", !.check = NoCheck]
    <3>1. Turn(g, next)
      BY <2>2 DEF Leave, Local
    <3>2. next \in PageTypes
      BY <1>1 DEF PageTypes
    <3>3. GivesUp(next)
      BY <1>1 DEF PageTypes
    <3>4. QED
      BY <3>1, <3>2, <3>3
  <2>3. QED
    BY <2>1, <2>2
<1>3. page'[g] = next
  BY <1>2 DEF Turn, PagesInv
<1>4. PageGoes(g)
  <2>1. PageShows(g)'
    BY <1>1, <1>2, <1>3, ShowsSame DEF dataVars
  <2>2. QED
    BY <1>1, <1>2, <1>3, <2>1 DEF PageGoes, PageTypes
<1>5. QED
  BY <1>1, <1>2, <1>4, TurnPage1

\* An outcome as it is read stays.
LEMMA OutcomeStays ==
  ASSUME KeptInv, NEW k \in Keys, FailureKept(k), NEW o \in Terminal, attempt[k].status = o
  PROVE  Stays(k, o)
<1>1. KeyInv(k)
  BY DEF KeptInv
<1>2. o = "succeeded" => TenantHas(k, {"ACTIVE", "FAILED"}) /\ (~Overran(k) => TenantHas(k, {"ACTIVE"}))
  BY <1>1 DEF KeyInv, InTime, Succeeding
<1>3. QED
  BY <1>2 DEF Stays, FailureKept

\* Polling: what is shown is the status as it is.
LEMMA PollKept ==
  ASSUME KeptInv, PagesInv, NEW g \in Pages,
         Poll(g) \/ PollAgain(g) \/ FailPoll(g) \/ RetryLoad(g)
  PROVE  PagesInv'
<1> DEFINE p == page[g]
<1>1. /\ p \in PageTypes /\ PageKeyed(g) /\ PageShows(g) /\ p.submit # "conflict"
      /\ p.poll # "none" /\ UNCHANGED <<dataVars, req, drawn>>
  BY DEF PagesInv, PageNeverConflicts, Poll, PollAgain, FailPoll, RetryLoad, Local, Turn
<1>2. /\ p.viewed \in Keys /\ attempt[p.viewed] # Absent /\ ~OnForm(g)
      /\ attempt[p.viewed].status \in Statuses
  BY <1>1, AttemptIs DEF PageShows, KeptInv, RowsOK
<1>3. PICK next \in PageTypes :
        /\ Turn(g, next) /\ SameRequest(p, next) /\ next.viewed = p.viewed
        /\ next.shown \in {p.shown, attempt[p.viewed].status}
  <2>1. CASE Poll(g)
    <3> DEFINE status == attempt[p.viewed].status
               poll == IF IsTerminal(status) THEN "stopped" ELSE "timer"
    <3>1. Turn(g, [p EXCEPT !.shown = status, !.poll = poll])
      BY <2>1 DEF Poll, Local
    <3>2. [p EXCEPT !.shown = status, !.poll = poll] \in PageTypes
      BY <1>1, <1>2 DEF PageTypes
    <3>3. QED
      BY <1>1, <3>1, <3>2 DEF PageTypes, SameRequest
  <2>2. CASE ~Poll(g)
    <3>1. PICK poll \in {"load", "error"} : Turn(g, [p EXCEPT !.poll = poll])
      BY <2>2 DEF PollAgain, FailPoll, RetryLoad, Local
    <3>2. QED
      BY <1>1, <3>1 DEF PageTypes, SameRequest
  <2>3. QED
    BY <2>1, <2>2
<1>4. page'[g] = next
  BY <1>3 DEF Turn, PagesInv
<1>5. PageGoes(g)
  <2>1. next.shown \in Terminal => Stays(p.viewed, next.shown)
    BY <1>1, <1>2, <1>3, OutcomeStays DEF PageShows, PagesInv
  <2>2. next.shown \in Terminal => Stays(page[g].viewed, page[g].shown)'
    <3>1. \A k, o : Stays(k, o) => (attempt' = attempt /\ tenant' = tenant /\ trouble' = trouble => Stays(k, o)')
      BY DEF Stays, TenantHas, Owns, SlugOf, Overran
    <3>2. page'[g].viewed = p.viewed /\ page'[g].shown = next.shown
      BY <1>3, <1>4
    <3>3. PICK k, o : k = p.viewed /\ o = next.shown
      OBVIOUS
    <3>4. next.shown \in Terminal => Stays(k, o)'
      BY <1>1, <2>1, <3>1, <3>3 DEF dataVars
    <3>5. QED
      BY <3>2, <3>3, <3>4 DEF Stays, TenantHas, Owns, SlugOf, Overran
  <2>3. PageShows(g)'
    BY <1>1, <1>2, <1>3, <1>4, <2>1, <2>2 DEF PageShows, OnForm, dataVars, SameRequest
  <2>4. QED
    BY <1>1, <1>3, <1>4, <2>3 DEF PageGoes, PageKeyed, Creating, OnForm, SameRequest
<1>6. QED
  BY <1>1, <1>3, <1>5, TurnPage1

-----------------------------------------------------------------------------
(* Requests of a page *)

\* A page is not told "conflict": its key stands for its values only.
LEMMA OwnKeyAgrees ==
  ASSUME KeptInv, PagesInv, NEW g \in Pages, NEW r \in Requests, page[g].request = r,
         req[r].pc = "answered"
  PROVE  /\ req[r].answer \in Contract!Answers \ {"conflict"} /\ req[r].key \in Keys
         /\ req[r].answer \in Contract!Acceptances => attempt[req[r].key] # Absent
<1>1. /\ Knows(req[r]) /\ req[r].key \in Keys /\ req[r].payload \in Payloads
      /\ attempt[req[r].key] \in AttemptTypes
  BY DEF KeptInv, RowsOK, Knows
<1>2. /\ PageKeyed(g) /\ r # Nothing /\ page[g].keyRef.key = req[r].key
      /\ req[r].key \in Keys \ RawKeys
  BY <1>1, ConstantsAssumption, RowTypes DEF PagesInv, PageKeyed, Nothing
<1>3. ASSUME req[r].answer = "conflict" PROVE FALSE
  <2>1. /\ attempt[req[r].key] # Absent /\ attempt[req[r].key].payload # req[r].payload
        /\ attempt[req[r].key].payload \in Payloads
    BY <1>1, <1>3, AttemptIs DEF Knows
  <2>2. Stands(req[r].key, req[r].payload) /\ Stands(req[r].key, attempt[req[r].key].payload)
    BY <2>1 DEF Stands
  <2>3. QED
    BY <1>1, <1>2, <2>1, <2>2 DEF PagesInv, KeysStand
<1>4. QED
  BY <1>1, <1>3 DEF Knows

LEMMA DeliverPages ==
  ASSUME KeptInv, PagesInv, NEW r \in Requests, Deliver(r)
  PROVE  PagesInv'
<1>1. /\ UNCHANGED <<dataVars, drawn>> /\ req' = [req EXCEPT ![r] = NoCall]
      /\ req[r].pc = "answered" /\ req \in [Requests -> CallTypes]
      /\ page' = [g \in Pages |-> IF page[g].request = r
                                    THEN Received(g, req[r].key, req[r].answer) ELSE page[g]]
  BY DEF Deliver, KeptInv, RowsOK
<1>2. ASSUME NEW g \in Pages, page[g].request # r PROVE page'[g] \in PageTypes /\ PageGoes(g)
  <2>1. /\ page'[g] = page[g] /\ page[g] \in PageTypes /\ PageKeyed(g) /\ PageShows(g)
        /\ page[g].submit # "conflict"
    BY <1>1, <1>2 DEF PagesInv, PageNeverConflicts
  <2>2. page[g].request # Nothing => req'[page[g].request] = req[page[g].request]
    BY <1>1, <1>2, <2>1 DEF PageTypes
  <2>3. PageShows(g)'
    BY <1>1, <2>1, ShowsSame DEF dataVars
  <2>4. QED
    BY <2>1, <2>2, <2>3 DEF PageGoes, PageKeyed, Creating, OnForm
<1>3. ASSUME NEW g \in Pages, page[g].request = r PROVE page'[g] \in PageTypes /\ PageGoes(g)
  <2> DEFINE p == page[g]
             k == req[r].key
             answer == req[r].answer
             done == [p EXCEPT !.request = Nothing, !.submit = answer]
             next == page'[g]
             Ends(n) == /\ n.keyRef = p.keyRef /\ n.values = p.values /\ n.payload = p.payload
                        /\ n.request = Nothing /\ n.shown = p.shown
                        /\ n.submit \notin {"creating", "conflict"}
  <2>1. /\ p \in PageTypes /\ PageKeyed(g) /\ PageShows(g) /\ NoCheck \in CheckTypes
        /\ r # Nothing /\ next = Received(g, k, answer)
    BY <1>1, <1>3, ConstantsAssumption
    DEF PagesInv, CheckTypes, CheckStages, NoCheck, Nothing
  <2>2. OnForm(g) /\ p.poll = "none" /\ p.shown = Nothing
    BY <1>3, <2>1 DEF PageKeyed, PageShows
  <2>3. /\ answer \in Contract!Answers \ {"conflict"} /\ k \in Keys
        /\ answer \in Contract!Acceptances => attempt[k] # Absent
    BY <1>1, <1>3, OwnKeyAgrees
  <2>4. done \in PageTypes
    BY <2>1, <2>3 DEF PageTypes
  <2>5. /\ done.keyRef = p.keyRef /\ done.values = p.values /\ done.payload = p.payload
        /\ done.request = Nothing /\ done.submit = answer /\ done.shown = p.shown
        /\ done.poll = p.poll /\ done.view = p.view
    BY <2>1 DEF PageTypes
  <2> HIDE DEF done
  <2>6. /\ next \in PageTypes /\ Ends(next)
        /\ \/ next.poll = "none"
           \/ next.view = "progress" /\ next.viewed = k /\ attempt[k] # Absent
    <3>1. CASE answer \in {"created", "replayed"}
      <4> DEFINE n == [done EXCEPT !.view = "progress", !.viewed = k, !.poll = "load",
                         !.submit = "idle", !.check = NoCheck]
      <4>1. next = n
        BY <2>1, <3>1 DEF Received, done
      <4>2. n \in PageTypes
        BY <2>1, <2>3, <2>4 DEF PageTypes
      <4>3. Ends(n) /\ n.view = "progress" /\ n.viewed = k
        BY <2>4, <2>5 DEF PageTypes
      <4>4. attempt[k] # Absent
        BY <2>3, <3>1 DEF Contract!Acceptances
      <4> HIDE DEF n, next
      <4>5. QED
        BY <4>1, <4>2, <4>3, <4>4
    <3>2. CASE answer = "refused"
      <4> DEFINE a == [slug |-> Slug(p.payload), status |-> "unavailable"]
                 n == [done EXCEPT !.submit = "error", !.available = a]
      <4>1. next = n
        BY <2>1, <3>2 DEF Received, done
      <4>2. a \in AvailableTypes
        BY <2>1, SlugType DEF PageTypes, AvailableTypes, CheckStages
      <4> HIDE DEF a
      <4>3. n \in PageTypes
        BY <2>4, <4>2 DEF PageTypes, Contract!Answers
      <4>4. Ends(n) /\ n.poll = "none"
        BY <2>2, <2>4, <2>5 DEF PageTypes
      <4> HIDE DEF n, next
      <4>5. QED
        BY <4>1, <4>3, <4>4
    <3>3. CASE answer \notin {"created", "replayed", "refused"}
      <4>1. next = done
        BY <2>1, <3>3 DEF Received, done
      <4>2. answer \notin {"creating", "conflict"}
        BY <2>3 DEF Contract!Answers, Contract!Acceptances
      <4> HIDE DEF next
      <4>3. QED
        BY <2>2, <2>4, <2>5, <4>1, <4>2
    <3>4. QED
      BY <3>1, <3>2, <3>3
  <2>7. PageShows(g)'
    BY <1>1, <2>2, <2>3, <2>6 DEF PageShows, OnForm, dataVars, Terminal, Nothing
  <2>8. QED
    BY <2>6, <2>7 DEF PageGoes
<1>4. page' \in [Pages -> PageTypes]
  BY <1>1, <1>2, <1>3
<1>5. \A q \in Requests : req'[q] = req[q] \/ req'[q].pc = "idle"
  BY <1>1 DEF NoCall
<1>6. QED
  BY <1>1, <1>2, <1>3, <1>4, <1>5, TurnPages DEF dataVars

LEMMA RestartPages == ASSUME KeptInv, PagesInv, Restart PROVE PagesInv'
<1>1. /\ UNCHANGED <<attempt, tenant, trouble, drawn>> /\ req' = [r \in Requests |-> NoCall]
      /\ page' = [g \in Pages |->
                    IF page[g].request = Nothing THEN page[g]
                    ELSE [page[g] EXCEPT !.submit = "error", !.request = Nothing]]
  BY DEF Restart
<1>2. ASSUME NEW g \in Pages PROVE page'[g] \in PageTypes /\ PageGoes(g)
  <2> DEFINE p == page[g]
             n == page'[g]
             lost == [p EXCEPT !.submit = "error", !.request = Nothing]
  <2>1. p \in PageTypes /\ PageKeyed(g) /\ PageShows(g) /\ p.submit # "conflict"
    BY DEF PagesInv, PageNeverConflicts
  <2>2. lost \in PageTypes
    BY <2>1 DEF PageTypes, Contract!Answers
  <2>3. /\ lost.keyRef = p.keyRef /\ lost.values = p.values /\ lost.payload = p.payload
        /\ lost.request = Nothing /\ lost.submit = "error" /\ lost.view = p.view
        /\ SameShown(p, lost)
    BY <2>1 DEF PageTypes, SameShown
  <2>4. n = IF p.request = Nothing THEN p ELSE lost
    BY <1>1
  <2> HIDE DEF lost, n
  <2>5. /\ n \in PageTypes /\ n.request = Nothing /\ n.submit \notin {"creating", "conflict"}
        /\ n.keyRef = p.keyRef /\ n.values = p.values /\ n.payload = p.payload
        /\ n.view = p.view /\ SameShown(p, n)
    BY <2>1, <2>2, <2>3, <2>4 DEF PageKeyed, Creating, SameShown
  <2>6. PageShows(g)'
    BY <1>1, <2>1, <2>5, ShowsSame DEF SameShown, n
  <2>7. QED
    BY <2>5, <2>6 DEF PageGoes, n
<1>3. page' \in [Pages -> PageTypes] /\ \A r \in Requests : req'[r].pc = "idle"
  BY <1>1, <1>2 DEF NoCall
<1>4. QED
  BY <1>1, <1>2, <1>3, TurnPages

\* The key of a submission: the page's own while its values are those it was
\* drawn for, and else one that stands for nothing yet.
LEMMA KeyForValues ==
  ASSUME KeptInv, PagesInv, NEW g \in Pages, OnForm(g), NEW k \in KeyFor(g)
  PROVE  /\ k \in Keys \ RawKeys
         /\ \A q \in Payloads : Stands(k, q) => q = page[g].payload
         /\ page[g].keyRef.payload = page[g].payload => k = page[g].keyRef.key
<1> DEFINE p == page[g]
<1>1. p \in PageTypes /\ PageKeyed(g) /\ p.payload \in Payloads /\ p.payload # Nothing
  BY RowTypes DEF PagesInv, PageTypes
<1>2. CASE p.keyRef.payload = p.payload
  <2>1. k = p.keyRef.key /\ k \in Keys \ RawKeys
    BY <1>1, <1>2 DEF KeyFor, PageKeyed
  <2>2. Stands(k, p.payload)
    BY <1>2, <2>1 DEF Stands
  <2>3. QED
    BY <1>1, <2>1, <2>2 DEF PagesInv, KeysStand
<1>3. CASE p.keyRef.payload # p.payload
  <2>1. k \in Keys \ (RawKeys \union {d.key : d \in drawn})
    BY <1>3, OneOf DEF KeyFor, FreeKey
  <2>2. QED
    BY <1>3, <2>1 DEF PagesInv, KeysStand
<1>4. QED
  BY <1>2, <1>3

LEMMA SubmitKept ==
  ASSUME KeptInv, PagesInv, NEW g \in Pages, Submit(g)
  PROVE  KeptInv' /\ Promise /\ PagesInv'
<1> DEFINE p == page[g]
<1>1. PICK r \in FreeRequest, k \in KeyFor(g) :
        /\ req' = [req EXCEPT ![r] =
                     [NoCall EXCEPT !.pc = "find", !.key = k, !.payload = p.payload]]
        /\ Turn(g, [p EXCEPT !.submit = "creating", !.request = r,
                      !.keyRef = [payload |-> p.payload, key |-> k]])
        /\ drawn' = drawn \union {[page |-> g, values |-> p.values, key |-> k]}
  BY DEF Submit
<1>2. /\ OnForm(g) /\ UNCHANGED dataVars /\ p \in PageTypes /\ PageKeyed(g) /\ PageShows(g)
      /\ p.payload \in Payloads /\ p.values \in Nat
  BY DEF Submit, PagesInv, PageTypes
<1>3. r \in Requests /\ req[r].pc = "idle" /\ r # Nothing
  BY OneOf, ConstantsAssumption DEF FreeRequest, Nothing
<1>4. /\ k \in Keys \ RawKeys
      /\ \A q \in Payloads : Stands(k, q) => q = p.payload
      /\ p.keyRef.payload = p.payload => k = p.keyRef.key
  BY <1>2, KeyForValues
<1>5. KeptInv' /\ Promise
  BY <1>1, <1>2, <1>4, CallBegins
<1> DEFINE ref == [payload |-> p.payload, key |-> k]
           next == [p EXCEPT !.submit = "creating", !.request = r, !.keyRef = ref]
           call == [NoCall EXCEPT !.pc = "find", !.key = k, !.payload = p.payload]
<1>6. next \in PageTypes
  <2>1. ref \in KeyRefTypes
    BY <1>2, <1>4 DEF KeyRefTypes
  <2> HIDE DEF ref
  <2>2. QED
    BY <1>2, <1>3, <2>1 DEF PageTypes
<1>7. /\ next.submit = "creating" /\ next.request = r /\ next.keyRef = ref
      /\ next.payload = p.payload /\ next.values = p.values /\ next.view = p.view
      /\ SameShown(p, next)
  BY <1>2 DEF PageTypes, SameShown
<1>8. page' = [page EXCEPT ![g] = next] /\ page \in [Pages -> PageTypes]
  BY <1>1 DEF Turn, PagesInv
<1>9. call.pc = "find" /\ call.key = k /\ call.payload = p.payload
  BY DEF NoCall
<1>10. req' = [req EXCEPT ![r] = call] /\ req \in [Requests -> CallTypes]
  BY <1>1 DEF KeptInv, RowsOK
<1> HIDE DEF next, call
<1>11. /\ page' \in [Pages -> PageTypes]
       /\ \A h \in Pages : page'[h] = IF h = g THEN next ELSE page[h]
       /\ \A q \in Requests : req'[q] = IF q = r THEN call ELSE req[q]
  BY <1>6, <1>8, <1>10
<1>12. KeysStand'
  <2>1. ASSUME NEW x \in Keys \ RawKeys, NEW q \in Payloads, Stands(x, q)'
        PROVE  Stands(x, q) \/ (x = k /\ q = p.payload)
    <3>1. CASE attempt'[x] # Absent /\ attempt'[x].payload = q
      BY <1>2, <3>1 DEF Stands, dataVars
    <3>2. ASSUME NEW i \in Requests, req'[i].pc # "idle", req'[i].key = x, req'[i].payload = q
          PROVE  Stands(x, q) \/ (x = k /\ q = p.payload)
      BY <1>9, <1>11, <3>2 DEF Stands
    <3>3. ASSUME NEW h \in Pages, page'[h].keyRef.key = x, page'[h].keyRef.payload = q
          PROVE  Stands(x, q) \/ (x = k /\ q = p.payload)
      BY <1>7, <1>11, <3>3 DEF Stands
    <3>4. QED
      BY <2>1, <3>1, <3>2, <3>3 DEF Stands
  <2>2. ASSUME NEW x \in Keys \ RawKeys, NEW q \in Payloads, Stands(x, q)'
        PROVE  /\ \E d \in drawn' : d.key = x
               /\ \A o \in Payloads : Stands(x, o)' => q = o
    <3>1. CASE x = k
      <4>1. [page |-> g, values |-> p.values, key |-> k] \in drawn'
        BY <1>1
      <4>2. \A o \in Payloads : Stands(x, o)' => o = p.payload
        BY <1>4, <2>1, <3>1
      <4>3. QED
        BY <2>2, <3>1, <4>1, <4>2
    <3>2. CASE x # k
      <4>1. \A o \in Payloads : Stands(x, o)' => Stands(x, o)
        BY <2>1, <3>2
      <4>2. QED
        BY <1>1, <2>2, <4>1 DEF PagesInv, KeysStand
    <3>3. QED
      BY <3>1, <3>2
  <2>3. QED
    BY <2>2 DEF KeysStand
<1>13. ASSUME NEW h \in Pages
       PROVE  PageKeyed(h)' /\ PageShows(h)' /\ page'[h].submit # "conflict"
  <2>1. CASE h = g
    <3>1. PageKeyed(g)'
      BY <1>2, <1>3, <1>4, <1>7, <1>9, <1>11 DEF PageKeyed, Creating, OnForm
    <3>2. PageShows(g)'
      BY <1>2, <1>7, <1>11, ShowsSame DEF dataVars, SameShown
    <3>3. QED
      BY <1>7, <1>11, <2>1, <3>1, <3>2
  <2>2. CASE h # g
    <3>1. /\ page'[h] = page[h] /\ PageKeyed(h) /\ PageShows(h) /\ page[h].submit # "conflict"
          /\ page[h].request \in Requests \union {Nothing}
      BY <1>11, <2>2 DEF PagesInv, PageNeverConflicts, PageTypes
    <3>2. page[h].request # Nothing => req'[page[h].request] = req[page[h].request]
      BY <1>3, <1>11, <3>1 DEF PageKeyed
    <3>3. PageKeyed(h)'
      BY <3>1, <3>2 DEF PageKeyed, Creating, OnForm
    <3>4. PageShows(h)'
      BY <1>2, <3>1, ShowsSame DEF dataVars
    <3>5. QED
      BY <3>1, <3>3, <3>4
  <2>3. QED
    BY <2>1, <2>2
<1>14. DrawnOnce'
  <2> DEFINE new == [page |-> g, values |-> p.values, key |-> k]
  <2>1. ASSUME NEW d \in drawn'
        PROVE  /\ d.page \in Pages /\ d.key \in Keys \ RawKeys
               /\ d.values \in Nat /\ d.values <= page'[d.page].values
               /\ d.values = page'[d.page].values =>
                    page'[d.page].keyRef = [payload |-> page'[d.page].payload, key |-> d.key]
    <3>1. CASE d = new
      <4>1. d.page = g /\ d.values = p.values /\ d.key = k
        BY <3>1
      <4>2. QED
        BY <1>2, <1>4, <1>7, <1>11, <4>1
    <3>2. CASE d # new
      <4>1. /\ d.page \in Pages /\ d.key \in Keys \ RawKeys
            /\ d.values \in Nat /\ d.values <= page[d.page].values
            /\ d.values = page[d.page].values =>
                 page[d.page].keyRef = [payload |-> page[d.page].payload, key |-> d.key]
        BY <1>1, <2>1, <3>2 DEF PagesInv, DrawnOnce
      <4>2. CASE d.page = g
        BY <1>4, <1>7, <1>11, <4>1, <4>2
      <4>3. CASE d.page # g
        BY <1>11, <4>1, <4>3
      <4>4. QED
        BY <4>2, <4>3
    <3>3. QED
      BY <3>1, <3>2
  <2>2. ASSUME NEW d \in drawn, d.page = g, d.values = p.values PROVE d.key = k
    <3>1. p.keyRef = [payload |-> p.payload, key |-> d.key]
      BY <2>2 DEF PagesInv, DrawnOnce
    <3>2. p.keyRef.payload = p.payload /\ p.keyRef.key = d.key
      BY <3>1
    <3>3. QED
      BY <1>4, <3>2
  <2>3. ASSUME NEW c \in drawn', NEW d \in drawn', c.page = d.page, c.values = d.values
        PROVE  c.key = d.key
    <3>1. new.page = g /\ new.values = p.values /\ new.key = k
      OBVIOUS
    <3>2. (c \in drawn \/ c = new) /\ (d \in drawn \/ d = new)
      BY <1>1, <2>3
    <3> HIDE DEF new
    <3>3. QED
      BY <2>2, <2>3, <3>1, <3>2 DEF PagesInv, DrawnOnce
  <2>4. QED
    BY <2>1, <2>3 DEF DrawnOnce
<1>15. \A x \in Keys : FailureKept(x)'
  BY <1>2, FailuresSame DEF PagesInv, dataVars
<1>16. QED
  BY <1>5, <1>11, <1>12, <1>13, <1>14, <1>15 DEF PagesInv, PageNeverConflicts

LEMMA RawKeyIs == RawKey \subseteq RawKeys
BY OneOf DEF RawKey

\* A client that is no page has a key of its own.
LEMMA RawCallKept ==
  ASSUME KeptInv, PagesInv, RawCall
  PROVE  KeptInv' /\ Promise /\ PagesInv'
<1>1. PICK r \in FreeRequest, k \in RawKeys, p \in Payloads \intersect world.asked :
        req' = [req EXCEPT ![r] = [NoCall EXCEPT !.pc = "find", !.key = k, !.payload = p]]
  BY RawKeyIs DEF RawCall
<1>2. r \in Requests /\ req[r].pc = "idle" /\ k \in Keys
  BY OneOf, ConstantsAssumption DEF FreeRequest
<1>3. UNCHANGED <<dataVars, page, drawn>>
  BY DEF RawCall
<1>4. KeptInv' /\ Promise
  BY <1>1, <1>2, <1>3, CallBegins
<1> DEFINE call == [NoCall EXCEPT !.pc = "find", !.key = k, !.payload = p]
<1>5. call.key = k
  BY DEF NoCall
<1> HIDE DEF call
<1>6. \A q \in Requests : req'[q] = IF q = r THEN call ELSE req[q]
  BY <1>1, <1>2 DEF KeptInv, RowsOK, call
<1>7. \A x \in Keys \ RawKeys, q \in Payloads : Stands(x, q)' => Stands(x, q)
  BY <1>3, <1>5, <1>6 DEF Stands, dataVars
<1>8. \A q \in Requests : req[q].pc # "idle" =>
         req'[q].pc # "idle" /\ req'[q].key = req[q].key /\ req'[q].payload = req[q].payload
  BY <1>2, <1>6
<1>9. RowsStay
  BY <1>3 DEF RowsStay, dataVars
<1>10. QED
  BY <1>3, <1>4, <1>7, <1>8, <1>9, CallPages

\* A step of a call: it stays the call it is.
Serving(r) ==
  \/ FindAttempt(r) \/ FindTenant(r) \/ InsertAttempt(r) \/ FindWinner(r) \/ MissWinner(r)
  \/ EnqueueAcceptedAttempt(r) \/ FailEnqueue(r) \/ AcceptRequest(r)
LEMMA ServingStays ==
  ASSUME KeptInv, NEW r \in Requests, Serving(r)
  PROVE  /\ \A q \in Requests :
              /\ req[q].pc # "idle" => req'[q].pc # "idle"
              /\ req'[q].pc # "idle" => req[q].pc # "idle"
              /\ req'[q].key = req[q].key /\ req'[q].payload = req[q].payload
         /\ UNCHANGED <<page, drawn>>
<1>1. req \in [Requests -> CallTypes] /\ req[r] \in CallTypes
  BY DEF KeptInv, RowsOK
<1>2. UNCHANGED <<page, drawn>> /\ req[r].pc # "idle"
  BY DEF Serving, FindAttempt, FindTenant, InsertAttempt, FindWinner, MissWinner,
         EnqueueAcceptedAttempt, FailEnqueue, AcceptRequest, At
<1> DEFINE Moves(call) == /\ req' = [req EXCEPT ![r] = call]
                         /\ call.pc # "idle" /\ call.key = req[r].key
                         /\ call.payload = req[r].payload
<1>3. ASSUME NEW answer, Answer(r, answer) PROVE \E call : Moves(call)
  <2>1. Moves([req[r] EXCEPT !.pc = "answered", !.answer = answer])
    BY <1>1, <1>3 DEF Answer, CallTypes
  <2>2. QED
    BY <2>1
<1>4. ASSUME NEW pc, pc # "idle", Goto(r, pc) PROVE \E call : Moves(call)
  <2>1. Moves([req[r] EXCEPT !.pc = pc])
    BY <1>1, <1>4 DEF Goto, CallTypes
  <2>2. QED
    BY <2>1
<1>5. ASSUME NEW found, ResolveExisting(r, found) PROVE \E call : Moves(call)
  <2>1. Moves([req[r] EXCEPT !.pc = "enqueue", !.replayed = TRUE])
          \/ \E answer : Answer(r, answer)
    BY <1>1, <1>5 DEF ResolveExisting, CallTypes
  <2>2. QED
    BY <1>3, <2>1
<1>6. \E call : Moves(call)
  <2>1. CASE FindAttempt(r)
    BY <1>4, <1>5, <2>1 DEF FindAttempt
  <2>2. CASE FindTenant(r)
    BY <1>3, <1>4, <2>2 DEF FindTenant
  <2>3. CASE InsertAttempt(r)
    <3>1. Goto(r, "enqueue") \/ Moves([req[r] EXCEPT !.pc = "findWinner", !.looks = Visible])
      BY <1>1, <2>3 DEF InsertAttempt, CallTypes
    <3>2. QED
      BY <1>4, <3>1
  <2>4. CASE FindWinner(r)
    BY <1>5, <2>4 DEF FindWinner
  <2>5. CASE MissWinner(r)
    <3>1. Answer(r, "error") \/ Moves([req[r] EXCEPT !.looks = @ - 1])
      BY <1>1, <1>2, <2>5 DEF MissWinner, CallTypes
    <3>2. QED
      BY <1>3, <3>1
  <2>6. CASE EnqueueAcceptedAttempt(r)
    BY <1>4, <2>6 DEF EnqueueAcceptedAttempt
  <2>7. CASE FailEnqueue(r)
    BY <1>3, <2>7 DEF FailEnqueue
  <2>8. CASE AcceptRequest(r)
    BY <1>3, <2>8 DEF AcceptRequest
  <2>9. QED
    BY <2>1, <2>2, <2>3, <2>4, <2>5, <2>6, <2>7, <2>8 DEF Serving
<1>7. QED
  BY <1>1, <1>2, <1>6
LEMMA ServingKept ==
  ASSUME KeptInv, PagesInv, NEW r \in Requests, Serving(r)
  PROVE  KeptInv' /\ Promise /\ PagesInv'
<1>1. req[r].key \in Keys /\ req[r].payload \in Payloads /\ req[r].pc # "idle"
  BY DEF KeptInv, Knows, Serving, FindAttempt, FindTenant, InsertAttempt, FindWinner, MissWinner,
         EnqueueAcceptedAttempt, FailEnqueue, AcceptRequest, At
<1>2. KeptInv' /\ Promise
  BY <1>1, CallActions, InsertKept, EnqueueKept DEF Serving
<1>3. RowsStay /\ \A x \in Keys : attempt'[x] # attempt[x] =>
                     x = req[r].key /\ attempt'[x].payload = req[r].payload
  <2>1. CASE InsertAttempt(r)
    BY <1>1, <2>1 DEF InsertAttempt, RowsStay, KeptInv, RowsOK
  <2>2. CASE ~InsertAttempt(r)
    <3>1. attempt' = attempt
      BY <2>2 DEF Serving, FindAttempt, FindTenant, FindWinner, MissWinner,
         EnqueueAcceptedAttempt, FailEnqueue, AcceptRequest, dataVars
    <3>2. QED
      BY <3>1 DEF RowsStay
  <2>3. QED
    BY <2>1, <2>2
<1>4. ASSUME NEW x \in Keys \ RawKeys, NEW p \in Payloads, Stands(x, p)' PROVE Stands(x, p)
  BY <1>1, <1>3, <1>4, ServingStays DEF Stands
<1>5. QED
  BY <1>2, <1>3, <1>4, ServingStays, CallPages

\* A step of the worker keeps the values of every attempt, and touches no
\* call and no page.
LEMMA WorkKept ==
  ASSUME KeptInv, PagesInv, NEW k \in Keys,
         Provision(k) \/ FailRun(k) \/ FailCreation(k) \/ OverrunJob(k)
  PROVE  KeptInv' /\ Promise /\ PagesInv'
<1>1. KeptInv' /\ Promise /\ RunMoves(k)
  BY ProvisionKept
<1>2. UNCHANGED <<req, page, drawn>>
  BY DEF Worker, Provision, ClaimAttempt, ResumeTenant, ResetAttemptStatus, CreateTenant,
         RecordCreation, ActivateTenant, FinishRun, FailStep, CompensateTenant, SettleFailure,
         RecordTimeout, CompleteJob, RejectJob, NoticeSignal, FailRun, FailCreation, OverrunJob
<1>3. RowsStay /\ \A x \in Keys, p \in Payloads : Stands(x, p)' => Stands(x, p)
  BY <1>1, <1>2 DEF RunMoves, RowsStay, Stands
<1>4. QED
  BY <1>1, <1>2, <1>3, CallPages

\* Of the other variables only "world" is not fixed.
LEMMA PageKept ==
  ASSUME KeptInv, PagesInv, NEW g \in Pages,
         Browse(g) \/ Edit(g) \/ Leave(g) \/ RetryLoad(g) \/ FailCheck(g) \/ Disconnect(g)
           \/ FailPoll(g)
  PROVE  KeptInv' /\ Promise /\ PagesInv'
<1>1. UNCHANGED <<dataVars, req>>
  BY DEF Browse, SendCheck, CheckSlugAvailability, ShowCheck, Poll, PollAgain, Edit, Leave,
         RetryLoad, FailCheck, Disconnect, FailPoll, Local
<1>2. PagesInv'
  BY CheckActions, EditKept, AbandonKept, PollKept DEF Browse
<1>3. QED
  BY <1>1, <1>2, NothingMoves

LEMMA StutterKept ==
  ASSUME KeptInv, PagesInv, UNCHANGED <<attempt, tenant, job, trouble, req, page, drawn>>
  PROVE  KeptInv' /\ Promise /\ PagesInv'
<1>1. KeptInv' /\ Promise
  BY NothingMoves DEF dataVars
<1>2. RowsStay /\ \A x \in Keys \ RawKeys, p \in Payloads : Stands(x, p)' => Stands(x, p)
  BY DEF RowsStay, Stands
<1>3. QED
  BY <1>1, <1>2, CallPages

LEMMA NextKept ==
  ASSUME KeptInv, PagesInv, Next
  PROVE  KeptInv' /\ Promise /\ PagesInv'
<1>1. CASE \E r \in Requests : Serve(r) \/ MissWinner(r) \/ FailEnqueue(r)
  <2>1. PICK r \in Requests : Serving(r) \/ Deliver(r)
    BY <1>1 DEF Serve, Serving
  <2>2. QED
    BY <2>1, ServingKept, DeliverKept, DeliverPages
<1>2. CASE RawCall
  BY <1>2, RawCallKept
<1>3. CASE \E k \in Keys : Provision(k) \/ FailRun(k) \/ FailCreation(k) \/ OverrunJob(k)
  BY <1>3, WorkKept
<1>4. CASE \E g \in Pages : Browse(g) \/ Use(g) \/ FailCheck(g) \/ Disconnect(g) \/ FailPoll(g)
  BY <1>4, PageKept, SubmitKept DEF Use
<1>5. CASE Restart
  BY <1>5, RestartKept, RestartPages
<1>6. QED
  BY <1>1, <1>2, <1>3, <1>4, <1>5 DEF Next, Fail

\* The list of tenants disturbs none of it.
LEMMA DirectoryKept ==
  ASSUME KeptInv, PagesInv, [DirectoryNext]_directoryVars
  PROVE  KeptInv' /\ Promise /\ PagesInv'
<1>1. CASE Onboard
  BY <1>1, NextKept DEF Onboard
<1>2. CASE \E c \in dir.calls : LoseList(c)
  BY <1>2, StutterKept DEF LoseList, dataVars
<1>3. CASE UNCHANGED vars
  BY <1>3, StutterKept DEF vars
<1>4. SetFilter \/ ApplyFilters \/ ResetFilters \/ TurnPage \/ AnswerCall
        \/ (\E c \in dir.calls : Abandon(c)) => UNCHANGED vars
  BY DEF SetFilter, ApplyFilters, ResetFilters, TurnPage, Look, Act, AnswerCall, Query, Receive,
         Refuse, Abandon
<1>5. QED
  BY <1>1, <1>2, <1>3, <1>4 DEF DirectoryNext, directoryVars

LEMMA ContractInitKept == Init => Contract!ContractInit
<1> SUFFICES ASSUME Init PROVE Contract!ContractInit
  OBVIOUS
<1>1. \A k \in Keys : OutcomeOf(k) = "none"
  BY DEF Init, OutcomeOf, Absent, Terminal
<1>2. \A r \in Requests : req[r].pc # "answered"
  BY DEF Init, NoCall
<1>3. {k \in Keys : job[k].state # "none"} = {}
  BY DEF Init, NoJob
<1>4. QED
  BY <1>1, <1>2, <1>3 DEF Init, Contract!ContractInit, Contract!Unreserved, Contract!Silence,
                       Contract!NotGiven, NoTenant, Nothing, Slugs

-----------------------------------------------------------------------------
(* Results                                                                   *)

LEMMA Invariants == DirectorySpec => [](KeptInv /\ PagesInv)
<1>1. DirectoryInit => KeptInv /\ PagesInv
  BY KeptInit, PagesInit DEF DirectoryInit
<1>2. KeptInv /\ PagesInv /\ [DirectoryNext]_directoryVars => (KeptInv /\ PagesInv)'
  BY DirectoryKept
<1>3. QED
  BY <1>1, <1>2, PTL DEF DirectorySpec

\* createOnboardingAttempt(), the queue and the worker keep the promise of
\* Onboarding: an attempt is reserved once, a client hears "created" or
\* "replayed" only when its values are reserved and their job is scheduled, a
\* tenant that has FAILED is not activated, a success is of a tenant that is,
\* and what a retry takes back is a failure that left a tenant.
THEOREM KeepsContract == DirectorySpec => ContractKept
<1>1. DirectoryInit => Contract!ContractInit
  BY ContractInitKept DEF DirectoryInit
<1>2. KeptInv /\ PagesInv /\ [DirectoryNext]_directoryVars => Promise
  BY DirectoryKept
<1>3. QED
  BY <1>1, <1>2, Invariants, PTL DEF DirectorySpec, ContractKept, Contract!ContractSpec, Promise

\* The same without the list of tenants.
THEOREM OnboardingKeepsContract == Spec => ContractKept
<1>1. Init => KeptInv /\ PagesInv /\ Contract!ContractInit
  BY KeptInit, PagesInit, ContractInitKept
<1>2. KeptInv /\ PagesInv /\ [Next]_vars => (KeptInv /\ PagesInv)' /\ Promise
  BY NextKept, StutterKept DEF vars
<1>3. QED
  BY <1>1, <1>2, PTL DEF Spec, ContractKept, Contract!ContractSpec, Promise

LEMMA RowsTyped == ASSUME KeptInv, PagesInv PROVE TypeOK
<1>1. ASSUME NEW k \in Keys
      PROVE  /\ attempt[k].status \in Statuses => attempt[k].payload \in Payloads
             /\ job[k].state \in {"none", "waiting", "done", "failed"} \union Running
             /\ job[k].runs \in 0 .. MaxRuns /\ job[k].stalls \in 0 .. MaxStalls
             /\ job[k].late \subseteq (0 .. MaxRuns) \X (Abortable \union Compensating)
             /\ job[k].late # {} => Overran(k)
  <2>1. attempt[k] \in AttemptTypes /\ job[k] \in JobTypes /\ JobIs(k)
    BY DEF KeptInv, RowsOK, KeyInv
  <2>2. attempt[k].status \in Statuses => attempt[k].payload \in Payloads
    BY <2>1, AttemptIs
  <2>3. QED
    BY <2>1, <2>2 DEF JobTypes, States, LateRuns, JobIs
<1>2. ASSUME NEW s \in Slugs
      PROVE  /\ tenant[s].of \in Keys \union {Nothing}
             /\ tenant[s].status = "none" <=> tenant[s].of = Nothing
  BY DEF KeptInv, RowsOK, TenantTypes, TenantOwned
<1>3. ASSUME NEW g \in Pages
      PROVE  /\ page[g].view \in {"form", "progress", "left"}
             /\ Creating(g) <=> page[g].request # Nothing
             /\ Creating(g) => req[page[g].request].payload = page[g].payload
  BY DEF PagesInv, PageTypes, PageKeyed
<1>4. QED
  BY <1>1, <1>2, <1>3 DEF TypeOK

\* Rows, jobs and pages are of their types, and a page that waits for an
\* answer waits for a call with its values.
THEOREM OnboardingTypeCorrect == DirectorySpec => []TypeOK
BY RowsTyped, Invariants, PTL

\* However requests are lost, repeated and answered late, runs fail, stall and
\* overlap: the values a page submits reserve one attempt, no page is told
\* that its key belongs to other values, and what it shows of an attempt
\* holds, as far as ShownOutcomeStands says.
THEOREM PagesAreNotMisled == DirectorySpec => []PageIsNotMisled
<1>1. KeptInv /\ PagesInv => PageIsNotMisled
  <2>1. SUFFICES ASSUME KeptInv, PagesInv PROVE PageIsNotMisled
    OBVIOUS
  <2>2. OneAttemptPerSubmission /\ PageNeverConflicts
    BY <2>1 DEF PagesInv, DrawnOnce, OneAttemptPerSubmission
  <2>3. ASSUME NEW g \in Pages, NEW k, k = page[g].viewed, NEW shown, shown = page[g].shown,
               shown \in Terminal
        PROVE  /\ shown = "succeeded" =>
                    /\ Owns(k) /\ tenant[SlugOf(k)].status \in {"ACTIVE", "FAILED"}
                    /\ ~Overran(k) =>
                         attempt[k].status = "succeeded" /\ tenant[SlugOf(k)].status = "ACTIVE"
               /\ shown = "failed-needs-manual-cleanup" /\ ~Overran(k) =>
                    attempt[k].status = "failed-needs-manual-cleanup"
               /\ shown = "failed" /\ trouble[k] = {} => attempt[k].status # "succeeded"
    <3>1. shown # Nothing
      BY <2>3 DEF Terminal, Nothing
    <3>2. k \in Keys /\ Stays(k, shown)
      BY <2>1, <2>3, <3>1 DEF PagesInv, PageShows
    <3>3. KeyInv(k)
      BY <2>1, <3>2 DEF KeptInv
    <3>4. ASSUME shown = "failed", trouble[k] = {} PROVE attempt[k].status # "succeeded"
      <4>1. IF Owns(k) THEN TenantHas(k, {"FAILED"}) ELSE attempt[k].status = "failed"
        BY <3>2, <3>4 DEF Stays
      <4>2. ~Overran(k)
        BY <3>4 DEF Overran
      <4>3. Succeeding(k) => TenantHas(k, {"ACTIVE"})
        BY <3>3, <4>2 DEF KeyInv, InTime
      <4>4. QED
        BY <4>1, <4>3 DEF Succeeding, TenantHas
    <3>5. QED
      BY <3>2, <3>4 DEF Stays, TenantHas
  <2>4. ShownOutcomeStands
    BY <2>3 DEF ShownOutcomeStands, Terminal
  <2>5. QED
    BY <2>2, <2>4 DEF PageIsNotMisled
<1>2. QED
  BY <1>1, Invariants, PTL

-----------------------------------------------------------------------------
(* The list of tenants: the order of creation                                *)

\* The tenants there are, each once.
\* The tenants there are, each once.
Born == {born[n] : n \in DOMAIN born}
BornInv ==
  /\ born \in Seq(Slugs)
  /\ \A m, n \in 1 .. Len(born) : born[m] = born[n] => m = n
  /\ Born = {s \in Slugs : tenant[s] # NoTenant}

NewTenants == {s \in Slugs : tenant[s] = NoTenant /\ tenant'[s] # NoTenant}

\* A step of the other parts gives at most one slug its tenant, and takes
\* none away.
LEMMA TenantsStay ==
  ASSUME KeptInv, Next
  PROVE  /\ \A s \in Slugs : tenant[s] # NoTenant => tenant'[s] # NoTenant
         /\ \A s, t \in NewTenants : s = t
<1> DEFINE Goal == /\ \A s \in Slugs : tenant[s] # NoTenant => tenant'[s] # NoTenant
                   /\ \A s, t \in NewTenants : s = t
<1>1. ASSUME UNCHANGED tenant PROVE Goal
  BY <1>1 DEF NewTenants
<1>2. ASSUME NEW k \in Keys, Provision(k) \/ FailRun(k) \/ FailCreation(k) \/ OverrunJob(k)
      PROVE  Goal
  <2> DEFINE s == SlugOf(k)
  <2>1. RunMoves(k) /\ k # Nothing
    BY <1>2, ProvisionKept, RowTypes
  <2>2. \A t \in Slugs : tenant'[t] = tenant[t] \/ t = s
    BY <2>1 DEF RunMoves
  <2>3. tenant'[s] = tenant[s] \/ tenant'[s].of = k
    BY <2>1 DEF RunMoves
  <2>4. tenant'[s] = tenant[s] \/ tenant'[s] # NoTenant
    BY <2>1, <2>3 DEF NoTenant
  <2>5. QED
    BY <2>2, <2>4 DEF NewTenants
<1>3. ASSUME NEW r \in Requests, Serve(r) \/ MissWinner(r) \/ FailEnqueue(r)
      PROVE  Goal
  BY <1>1, <1>3 DEF Serve, FindAttempt, FindTenant, InsertAttempt, FindWinner,
       EnqueueAcceptedAttempt, AcceptRequest, Deliver, MissWinner, FailEnqueue, dataVars
<1>4. ASSUME NEW g \in Pages, Browse(g) \/ Use(g) \/ FailCheck(g) \/ Disconnect(g) \/ FailPoll(g)
      PROVE  Goal
  BY <1>1, <1>4 DEF Browse, Use, SendCheck, CheckSlugAvailability, ShowCheck, Poll, PollAgain,
       Edit, Submit, Leave, RetryLoad, FailCheck, Disconnect, FailPoll, Local, dataVars
<1>5. ASSUME RawCall \/ Restart PROVE Goal
  BY <1>1, <1>5 DEF RawCall, Restart, dataVars
<1>6. QED
  BY <1>2, <1>3, <1>4, <1>5 DEF Next, Fail

\* A set of at most one element as a sequence.
LEMMA OneToSeq ==
  ASSUME NEW S, \A s, t \in S : s = t
  PROVE  /\ S = {} => SetToSeq(S) = <<>>
         /\ \A s \in S : SetToSeq(S) = <<s>>
<1>1. ASSUME S = {} PROVE SetToSeq(S) = <<>>
  <2>1. Cardinality(S) = 0
    BY <1>1, FS_EmptySet
  <2>2. \A f : f \in [1 .. 0 -> S] => f = <<>>
    OBVIOUS
  <2>3. <<>> \in [1 .. 0 -> S] /\ IsInjective(<<>>)
    BY DEF IsInjective
  <2>4. QED
    BY <2>1, <2>2, <2>3 DEF SetToSeq
<1>2. ASSUME NEW s \in S PROVE SetToSeq(S) = <<s>>
  <2>1. S = {s} /\ Cardinality(S) = 1
    BY <1>2, FS_Singleton
  <2>2. \A f : f \in [1 .. 1 -> S] => f = <<s>>
    BY <2>1
  <2>3. <<s>> \in [1 .. 1 -> S] /\ IsInjective(<<s>>)
    BY <2>1 DEF IsInjective
  <2>4. QED
    BY <2>1, <2>2, <2>3 DEF SetToSeq
<1>3. QED
  BY <1>1, <1>2

LEMMA BornKept ==
  ASSUME KeptInv, BornInv, Onboard
  PROVE  BornInv'
<1>1. born' = born \o SetToSeq(NewTenants) /\ Next
  BY DEF Onboard, NewTenants
<1>2. /\ \A s \in Slugs : tenant[s] # NoTenant => tenant'[s] # NoTenant
      /\ \A s, t \in NewTenants : s = t
  BY <1>1, TenantsStay
<1>3. CASE NewTenants = {}
  <2>1. born' = born
    BY <1>1, <1>2, <1>3, OneToSeq DEF BornInv
  <2>2. \A s \in Slugs : tenant'[s] # NoTenant <=> tenant[s] # NoTenant
    BY <1>2, <1>3 DEF NewTenants
  <2>3. QED
    BY <2>1, <2>2 DEF BornInv, Born
<1>4. CASE NewTenants # {}
  <2>1. PICK s \in NewTenants : NewTenants = {s}
    BY <1>2, <1>4
  <2>2. born' = born \o <<s>>
    BY <1>1, <1>2, <2>1, OneToSeq
  <2>3. s \in Slugs /\ tenant[s] = NoTenant /\ tenant'[s] # NoTenant
    BY <2>1 DEF NewTenants
  <2>4. born \in Seq(Slugs) /\ s \notin Born
    BY <2>3 DEF BornInv
  <2>5. born' \in Seq(Slugs) /\ Len(born') = Len(born) + 1
    BY <2>2, <2>3, <2>4
  <2>6. \A n \in 1 .. Len(born') : born'[n] = IF n = Len(born) + 1 THEN s ELSE born[n]
    BY <2>2, <2>4
  <2>7. \A n \in 1 .. Len(born) : born[n] \in Born
    BY <2>4 DEF Born
  <2>8. \A m, n \in 1 .. Len(born') : born'[m] = born'[n] => m = n
    BY <2>4, <2>5, <2>6, <2>7 DEF BornInv
  <2>9. DOMAIN born = 1 .. Len(born) /\ DOMAIN born' = 1 .. Len(born')
    BY <2>4, <2>5
  <2>10. Born' = Born \union {s}
    BY <2>4, <2>5, <2>6, <2>9 DEF Born
  <2>11. \A t \in Slugs : tenant'[t] # NoTenant <=> tenant[t] # NoTenant \/ t = s
    BY <1>2, <2>1, <2>3 DEF NewTenants
  <2>12. Born' = {t \in Slugs : tenant'[t] # NoTenant}
    BY <2>3, <2>10, <2>11 DEF BornInv
  <2>13. QED
    BY <2>5, <2>8, <2>12 DEF BornInv, Born
<1>5. QED
  BY <1>3, <1>4

LEMMA BornFinite ==
  ASSUME BornInv
  PROVE  /\ IsFiniteSet(Born) /\ Cardinality(Born) = Len(born)
         /\ \A s \in Born : CreatedAt(s) \in 1 .. Len(born) /\ born[CreatedAt(s)] = s
<1>1. born \in Seq(Slugs) /\ DOMAIN born = 1 .. Len(born) /\ Len(born) \in Nat
  BY DEF BornInv
<1>2. born \in Bijection(1 .. Len(born), Born)
  BY <1>1 DEF BornInv, Born, Bijection, Injection, Surjection, IsInjective
<1>3. IsFiniteSet(1 .. Len(born)) /\ Cardinality(1 .. Len(born)) = Len(born)
  BY <1>1, FS_Interval
<1>4. IsFiniteSet(Born) /\ Cardinality(Born) = Len(born)
  BY <1>2, <1>3, FS_Bijection DEF ExistsBijection
<1>5. \A s \in Born : \E n \in DOMAIN born : born[n] = s
  BY DEF Born
<1>6. QED
  BY <1>1, <1>4, <1>5 DEF CreatedAt

-----------------------------------------------------------------------------
(* The list of tenants: what a page of it holds                              *)

Where == Filters \union {NoFilter}
ItemTypes == [slug : Slugs, status : {"PROVISIONING", "ACTIVE", "FAILED"}]
Fits(items, where) ==
  /\ Cardinality(items) <= PageSize
  /\ \A t \in items :
       where.status \in {NoChoice, t.status} /\ where.keyword \in {NoChoice, t.slug}

LEMMA MatchingFinite ==
  ASSUME BornInv, NEW where
  PROVE  /\ Matching(where) \subseteq Born
         /\ IsFiniteSet(Matching(where)) /\ Cardinality(Matching(where)) \in Nat
<1>1. Matching(where) \subseteq Born
  BY DEF Matching, Born
<1>2. IsFiniteSet(Matching(where))
  BY <1>1, BornFinite, FS_Subset
<1>3. QED
  BY <1>1, <1>2, FS_CardinalityType

\* Of two tenants the older has more newer ones.
LEMMA NewerDiffer ==
  ASSUME NEW M, IsFiniteSet(M), NEW at \in [M -> Nat],
         NEW s \in M, NEW t \in M, at[s] > at[t]
  PROVE  Cardinality({m \in M : at[m] > at[s]}) # Cardinality({m \in M : at[m] > at[t]})
<1> DEFINE S == {m \in M : at[m] > at[s]}
           T == {m \in M : at[m] > at[t]}
<1>1. S \subseteq T /\ s \in T /\ s \notin S
  OBVIOUS
<1>2. IsFiniteSet(T)
  BY FS_Subset
<1>3. QED
  BY <1>1, <1>2, FS_Subset

LEMMA FoundFits ==
  ASSUME KeptInv, BornInv, NEW where, NEW number \in Nat \ {0}
  PROVE  FindMany(where, number) \subseteq ItemTypes /\ Fits(FindMany(where, number), where)
<1> DEFINE M == Matching(where)
           newer(s) == Cardinality({t \in M : CreatedAt(t) > CreatedAt(s)})
           skip == (number - 1) * PageSize
           P == {m \in M : newer(m) \in skip .. skip + PageSize - 1}
           Item(s) == [slug |-> s, status |-> StatusOf(s)]
           at == [m \in M |-> CreatedAt(m)]
<1>1. FindMany(where, number) = {Item(s) : s \in P}
  BY DEF FindMany
<1>2. PageSize \in Nat \ {0} /\ skip \in Int
  <2>1. PageSize \in Nat \ {0}
    BY DirectoryAssumption
  <2>2. QED
    BY <2>1
<1>3. M \subseteq Born /\ IsFiniteSet(M)
  BY MatchingFinite
<1>4. Len(born) \in Nat
  BY DEF BornInv
<1>5. \A m \in M : CreatedAt(m) \in 1 .. Len(born) /\ born[CreatedAt(m)] = m
  BY <1>3, BornFinite
<1>6. at \in [M -> Nat] /\ \A m \in M : at[m] = CreatedAt(m)
  BY <1>4, <1>5
<1>7. \A s \in M : newer(s) = Cardinality({m \in M : at[m] > at[s]})
  <2>1. SUFFICES ASSUME NEW s \in M
                 PROVE  {t \in M : CreatedAt(t) > CreatedAt(s)} = {m \in M : at[m] > at[s]}
    OBVIOUS
  <2>2. QED
    BY <1>6
<1> HIDE DEF at
<1>8. ASSUME NEW s \in M, NEW t \in M, s # t PROVE newer(s) # newer(t)
  <2>1. at[s] # at[t] /\ at[s] \in Nat /\ at[t] \in Nat
    BY <1>5, <1>6, <1>8
  <2>2. at[s] > at[t] \/ at[t] > at[s]
    BY <2>1
  <2>3. Cardinality({m \in M : at[m] > at[s]}) # Cardinality({m \in M : at[m] > at[t]})
    BY <2>2, <1>3, <1>6, NewerDiffer
  <2>4. QED
    BY <2>3, <1>7
<1> HIDE DEF newer, skip, M, Item
<1>9. IsFiniteSet(P) /\ Cardinality(P) <= PageSize
  <2> DEFINE I == skip .. skip + PageSize - 1
             f == [m \in P |-> newer(m)]
  <2>1. IsFiniteSet(I) /\ Cardinality(I) = PageSize
    BY <1>2, FS_Interval
  <2>2. f \in Injection(P, I)
    BY <1>8 DEF Injection, IsInjective
  <2>3. QED
    BY <2>1, <2>2, FS_Injection
<1>10. Cardinality({Item(s) : s \in P}) <= PageSize
  <2> DEFINE g == [m \in P |-> Item(m)]
             J == {Item(s) : s \in P}
  <2>1. g \in Surjection(P, J)
    BY DEF Surjection
  <2>2. IsFiniteSet(J) /\ Cardinality(J) <= Cardinality(P)
    BY <1>9, <2>1, FS_Surjection
  <2>3. Cardinality(J) \in Nat /\ Cardinality(P) \in Nat
    BY <1>9, <2>2, FS_CardinalityType
  <2>4. QED
    BY <1>2, <1>9, <2>2, <2>3
<1>11. ASSUME NEW s \in P PROVE s \in Slugs /\ Matches(s, where)
  BY <1>3 DEF M, Matching, Born, BornInv
<1>12. ASSUME NEW s \in P PROVE StatusOf(s) \in {"PROVISIONING", "ACTIVE", "FAILED"}
  <2>1. s \in Slugs /\ tenant[s] # NoTenant
    BY <1>3 DEF BornInv
  <2>2. tenant[s] \in TenantTypes /\ TenantOwned(s)
    BY <2>1 DEF KeptInv, RowsOK
  <2>3. QED
    BY <2>1, <2>2 DEF StatusOf, TenantTypes, TenantStatuses, TenantOwned, NoTenant
<1>13. \A s \in P : Item(s) \in ItemTypes /\ Item(s).slug = s /\ Item(s).status = StatusOf(s)
  BY <1>11, <1>12 DEF Item, ItemTypes
<1>14. \A t \in {Item(s) : s \in P} :
         where.status \in {NoChoice, t.status} /\ where.keyword \in {NoChoice, t.slug}
  BY <1>11, <1>13 DEF Matches
<1>15. QED
  BY <1>1, <1>10, <1>13, <1>14 DEF Fits

-----------------------------------------------------------------------------
(* The list of tenants: its page                                             *)

DirFilters == [value : Where, of : Nat]
DirCalls ==
  [id : Nat, where : Where, number : Nat \ {0}, read : BOOLEAN, items : SUBSET ItemTypes, total : Nat]
DirLists ==
  [status : {"loading", "ready", "error"}, items : SUBSET ItemTypes, total : Nat,
   number : Nat \ {0}]
DirTypes ==
  [filters : DirFilters, applied : DirFilters, number : Nat \ {0}, list : DirLists,
   calls : SUBSET DirCalls, latest : Nat, edits : Nat, left : Nat]

\* A call holds what was found for it, the latest is for what is applied, and
\* the list is the latest call's.
DirInv ==
  /\ dir \in DirTypes
  /\ \A c \in dir.calls : c.id <= dir.latest /\ Fits(c.items, c.where)
  /\ \A c, d \in dir.calls : c.id = d.id => c = d
  /\ \A c \in dir.calls :
       c.id = dir.latest => c.where = dir.applied.value /\ c.number = dir.number
  /\ Cardinality(dir.list.items) <= PageSize
  /\ dir.list.status = "ready" =>
       dir.list.number = dir.number /\ Fits(dir.list.items, dir.applied.value)
  /\ dir.list.status = "loading" /\ dir.latest > 0 => \E c \in dir.calls : c.id = dir.latest

LEMMA NothingFits ==
  /\ \A where : Fits({}, where)
  /\ Cardinality({}) <= PageSize
  /\ NoList \in DirLists /\ Cardinality(NoList.items) <= PageSize
  /\ InitialFilters \in DirFilters /\ InitialFilters.value \in Where
  /\ \A f \in Filters : f \in Where
<1>1. PageSize \in Nat \ {0} /\ Cardinality({}) = 0
  BY DirectoryAssumption, FS_EmptySet
<1>2. QED
  BY <1>1 DEF Fits, Where, NoList, DirLists, InitialFilters, DirFilters

\* Another call becomes the latest.
LEMMA AskedKept ==
  ASSUME DirInv, NEW filters \in DirFilters, NEW applied \in DirFilters, NEW number \in Nat \ {0},
         NEW left \in Nat,
         dir' = [Asked([dir EXCEPT !.filters = filters, !.applied = applied, !.number = number])
                   EXCEPT !.left = left]
  PROVE  DirInv'
<1> DEFINE new == [id |-> dir.latest + 1, where |-> applied.value, number |-> number,
                   read |-> FALSE, items |-> {}, total |-> 0]
<1>1. dir \in DirTypes /\ dir.latest \in Nat /\ \A c \in dir.calls : c.id \in Nat
  BY DEF DirInv, DirTypes, DirCalls
<1>2. dir' = [filters |-> filters, applied |-> applied, number |-> number, list |-> NoList,
              calls |-> dir.calls \union {new}, latest |-> dir.latest + 1,
              edits |-> dir.edits, left |-> left]
  BY <1>1 DEF Asked, DirTypes
<1>3. new \in DirCalls /\ new.id = dir.latest + 1 /\ Fits(new.items, new.where)
      /\ new.where = applied.value /\ new.number = number
  BY <1>1, NothingFits DEF DirCalls, DirFilters
<1> HIDE DEF new
<1>4. dir' \in DirTypes
  BY <1>1, <1>2, <1>3, NothingFits DEF DirTypes
<1>5. \A c \in dir.calls : c.id <= dir.latest /\ c.id # new.id
  BY <1>1, <1>3 DEF DirInv
<1>6. /\ \A c \in dir'.calls : c.id <= dir'.latest /\ Fits(c.items, c.where)
      /\ \A c, d \in dir'.calls : c.id = d.id => c = d
      /\ \A c \in dir'.calls :
           c.id = dir'.latest => c.where = dir'.applied.value /\ c.number = dir'.number
  BY <1>1, <1>2, <1>3, <1>5 DEF DirInv
<1>7. dir'.list = NoList /\ \E c \in dir'.calls : c.id = dir'.latest
  BY <1>2, <1>3
<1>8. NoList.status = "loading"
  BY DEF NoList
<1>9. QED
  BY <1>4, <1>6, <1>7, <1>8, NothingFits DEF DirInv

\* The page does what it did, but for what it asks for.
LEMMA OnlyFilters ==
  ASSUME DirInv, NEW filters \in DirFilters, NEW edits \in Nat, NEW left \in Nat,
         dir' = [dir EXCEPT !.filters = filters, !.edits = edits, !.left = left]
  PROVE  DirInv'
<1>1. dir \in DirTypes
  BY DEF DirInv
<1>2. dir' = [filters |-> filters, applied |-> dir.applied, number |-> dir.number,
              list |-> dir.list, calls |-> dir.calls, latest |-> dir.latest, edits |-> edits,
              left |-> left]
  BY <1>1 DEF DirTypes
<1>3. dir' \in DirTypes
  BY <1>1, <1>2 DEF DirTypes
<1>4. QED
  BY <1>2, <1>3 DEF DirInv

LEMMA LookKept ==
  ASSUME DirInv, NEW filters \in DirFilters, NEW applied \in DirFilters, NEW number \in Nat \ {0},
         Look(filters, applied, number)
  PROVE  DirInv'
<1> DEFINE d == [dir EXCEPT !.filters = filters, !.applied = applied, !.number = number]
<1>1. dir \in DirTypes /\ dir.left - 1 \in Nat /\ dir.edits \in Nat
  BY DEF DirInv, DirTypes, Look, Act
<1>2. CASE applied = dir.applied /\ number = dir.number
  <2>1. dir' = [d EXCEPT !.left = @ - 1]
    BY <1>2 DEF Look, Act
  <2>2. dir' = [dir EXCEPT !.filters = filters, !.edits = dir.edits, !.left = dir.left - 1]
    BY <1>1, <1>2, <2>1 DEF DirTypes
  <2>3. QED
    BY <1>1, <2>2, OnlyFilters
<1>3. CASE ~(applied = dir.applied /\ number = dir.number)
  <2>1. dir' = [Asked(d) EXCEPT !.left = @ - 1]
    BY <1>3 DEF Look, Act
  <2>2. Asked(d).left = dir.left
    BY <1>1 DEF Asked, DirTypes
  <2>3. dir' = [Asked(d) EXCEPT !.left = dir.left - 1]
    BY <2>1, <2>2
  <2>4. QED
    BY <1>1, <2>3, AskedKept
<1>4. QED
  BY <1>2, <1>3

LEMMA UseKept ==
  ASSUME DirInv, SetFilter \/ ApplyFilters \/ ResetFilters \/ TurnPage
  PROVE  DirInv'
<1>1. /\ dir \in DirTypes /\ dir.edits \in Nat /\ dir.left \in Nat
      /\ dir.filters \in DirFilters /\ dir.applied \in DirFilters
      /\ dir.number \in Nat \ {0}
  BY DEF DirInv, DirTypes
<1>2. CASE SetFilter
  <2>1. PICK f \in Filters :
          Act([dir EXCEPT !.filters = [value |-> f, of |-> dir.edits + 1], !.edits = @ + 1])
    BY <1>2 DEF SetFilter
  <2> DEFINE filters == [value |-> f, of |-> dir.edits + 1]
  <2>2. filters \in DirFilters
    BY <1>1, NothingFits DEF DirFilters
  <2>3. dir' = [dir EXCEPT !.filters = filters, !.edits = dir.edits + 1, !.left = dir.left - 1]
    BY <1>1, <2>1 DEF Act, DirTypes
  <2>4. dir.left - 1 \in Nat /\ dir.edits + 1 \in Nat
    BY <1>1, <2>1 DEF Act
  <2> HIDE DEF filters
  <2>5. QED
    BY <2>2, <2>3, <2>4, OnlyFilters
<1>3. CASE ApplyFilters \/ ResetFilters
  BY <1>1, <1>3, LookKept, NothingFits DEF ApplyFilters, ResetFilters
<1>4. CASE TurnPage
  <2>1. PICK number \in Nat \ {0} : Look(dir.filters, dir.applied, number)
    <3>1. dir.list.number = dir.number
      BY <1>4 DEF TurnPage, DirInv
    <3>2. CASE dir.list.number > 1 /\ Look(dir.filters, dir.applied, dir.number - 1)
      BY <1>1, <3>1, <3>2
    <3>3. CASE Look(dir.filters, dir.applied, dir.number + 1)
      BY <1>1, <3>3
    <3>4. QED
      BY <1>4, <3>2, <3>3 DEF TurnPage
  <2>2. QED
    BY <1>1, <2>1, LookKept
<1>5. QED
  BY <1>2, <1>3, <1>4

\* A call is over, and its answer is shown if it is the latest's.
LEMMA ShownKept ==
  ASSUME DirInv, NEW c \in dir.calls, NEW list \in DirLists, dir' = Shown(c, list),
         list.status # "loading", Cardinality(list.items) <= PageSize,
         list.status = "ready" => list.number = c.number /\ Fits(list.items, c.where)
  PROVE  DirInv'
<1>1. dir \in DirTypes
  BY DEF DirInv
<1>2. dir' = [filters |-> dir.filters, applied |-> dir.applied, number |-> dir.number,
              list |-> IF c.id = dir.latest THEN list ELSE dir.list,
              calls |-> dir.calls \ {c}, latest |-> dir.latest, edits |-> dir.edits,
              left |-> dir.left]
  BY <1>1 DEF Shown, DirTypes
<1>3. dir' \in DirTypes
  BY <1>1, <1>2 DEF DirTypes
<1>4. QED
  BY <1>2, <1>3 DEF DirInv

\* What is found for a call is put into it.
LEMMA CallAnswered ==
  ASSUME NEW A, NEW W, NEW N, NEW B, NEW I, NEW T,
         NEW c \in [id : A, where : W, number : N, read : B, items : I, total : T],
         NEW read \in B, NEW items \in I, NEW total \in T, NEW d,
         d = [c EXCEPT !.read = read, !.items = items, !.total = total]
  PROVE  /\ d \in [id : A, where : W, number : N, read : B, items : I, total : T]
         /\ d.id = c.id /\ d.where = c.where /\ d.number = c.number /\ d.items = items
OBVIOUS

LEMMA QueryKept ==
  ASSUME KeptInv, BornInv, DirInv, NEW c \in dir.calls, Query(c)
  PROVE  DirInv'
<1> DEFINE items == FindMany(c.where, c.number)
           total == Cardinality(Matching(c.where))
           found == [c EXCEPT !.read = TRUE, !.items = items, !.total = total]
<1>1. dir \in DirTypes /\ c \in DirCalls
  BY DEF DirInv, DirTypes
<1>2. c.number \in Nat \ {0} /\ c.where \in Where
  BY <1>1 DEF DirCalls
<1>3. items \subseteq ItemTypes /\ Fits(items, c.where) /\ total \in Nat
  BY <1>2, FoundFits, MatchingFinite
<1>4. dir' = [dir EXCEPT !.calls = (@ \ {c}) \union {found}]
  BY DEF Query
<1> HIDE DEF items, total
<1>5. /\ found \in DirCalls /\ found.id = c.id /\ found.where = c.where /\ found.number = c.number
      /\ found.items = items
  <2> DEFINE B == BOOLEAN
  <2>1. TRUE \in B /\ items \in SUBSET ItemTypes
        /\ c \in [id : Nat, where : Where, number : Nat \ {0}, read : B,
                  items : SUBSET ItemTypes, total : Nat]
    BY <1>1, <1>3 DEF DirCalls
  <2>2. DirCalls = [id : Nat, where : Where, number : Nat \ {0}, read : B,
                    items : SUBSET ItemTypes, total : Nat]
    BY DEF DirCalls
  <2> HIDE DEF B, found
  <2>3. PICK read \in B : read = TRUE
    BY <2>1
  <2>4. found = [c EXCEPT !.read = read, !.items = items, !.total = total]
    BY <2>3 DEF found
  <2>5. QED
    BY <1>3, <2>1, <2>2, <2>3, <2>4, CallAnswered
<1> HIDE DEF found
<1>6. dir' = [filters |-> dir.filters, applied |-> dir.applied, number |-> dir.number,
              list |-> dir.list, calls |-> (dir.calls \ {c}) \union {found},
              latest |-> dir.latest, edits |-> dir.edits, left |-> dir.left]
  BY <1>1, <1>4 DEF DirTypes
<1>7. dir' \in DirTypes
  BY <1>1, <1>5, <1>6 DEF DirTypes
<1>8. QED
  BY <1>3, <1>5, <1>6, <1>7 DEF DirInv

LEMMA CallKept ==
  ASSUME KeptInv, BornInv, DirInv, NEW c \in dir.calls,
         Query(c) \/ Receive(c) \/ Refuse(c) \/ Abandon(c) \/ LoseList(c)
  PROVE  DirInv'
<1>1. /\ dir \in DirTypes /\ c \in DirCalls /\ Fits(c.items, c.where)
      /\ c.number \in Nat \ {0} /\ c.items \in SUBSET ItemTypes /\ c.total \in Nat
  BY DEF DirInv, DirTypes, DirCalls
<1>2. CASE Receive(c)
  <2> DEFINE list == [status |-> "ready", items |-> c.items, total |-> c.total,
                      number |-> c.number]
  <2>1. list \in DirLists /\ list.status = "ready" /\ list.number = c.number
        /\ list.items = c.items /\ Cardinality(list.items) <= PageSize
    BY <1>1 DEF DirLists, Fits
  <2>2. dir' = Shown(c, list)
    BY <1>2 DEF Receive
  <2> HIDE DEF list
  <2>3. QED
    BY <1>1, <2>1, <2>2, ShownKept
<1>3. CASE Refuse(c) \/ LoseList(c)
  <2> DEFINE list == [NoList EXCEPT !.status = "error"]
  <2>1. list \in DirLists /\ list.status = "error" /\ Cardinality(list.items) <= PageSize
    BY NothingFits DEF DirLists, NoList
  <2>2. dir' = Shown(c, list)
    BY <1>3 DEF Refuse, LoseList
  <2> HIDE DEF list
  <2>3. QED
    BY <2>1, <2>2, ShownKept
<1>4. CASE Abandon(c)
  <2>1. dir' = [filters |-> dir.filters, applied |-> dir.applied, number |-> dir.number,
                list |-> dir.list, calls |-> dir.calls \ {c},
                latest |-> dir.latest, edits |-> dir.edits, left |-> dir.left]
        /\ c.id # dir.latest
    BY <1>1, <1>4 DEF Abandon, DirTypes
  <2>2. dir' \in DirTypes
    BY <1>1, <2>1 DEF DirTypes
  <2>3. QED
    BY <2>1, <2>2 DEF DirInv
<1>5. CASE Query(c)
  BY <1>5, QueryKept
<1>6. QED
  BY <1>2, <1>3, <1>4, <1>5

LEMMA DirInit == DirectoryInit => BornInv /\ DirInv
<1> SUFFICES ASSUME DirectoryInit PROVE BornInv /\ DirInv
  OBVIOUS
<1>1. born = <<>> /\ \A s \in Slugs : tenant[s] = NoTenant
  BY DEF DirectoryInit, Init
<1>2. BornInv
  BY <1>1 DEF BornInv, Born
<1>3. world \in Worlds /\ world.asks \in Nat
  BY DirectoryAssumption DEF DirectoryInit, Init
<1>4. Closed \in DirTypes /\ InitialFilters \in DirFilters
  BY NothingFits DEF Closed, DirTypes
<1>5. CASE world.asks = 0
  <2>1. dir = Closed
    BY <1>5 DEF DirectoryInit
  <2>2. dir.calls = {} /\ dir.list = NoList /\ dir.latest = 0 /\ NoList.status = "loading"
    BY <2>1 DEF Closed, NoList
  <2>3. DirInv
    BY <1>4, <2>1, <2>2, NothingFits DEF DirInv
  <2>4. QED
    BY <1>2, <2>3
<1>6. CASE world.asks # 0
  <2> DEFINE new == [id |-> 1, where |-> InitialFilters.value, number |-> 1, read |-> FALSE,
                     items |-> {}, total |-> 0]
  <2>1. dir = [filters |-> InitialFilters, applied |-> InitialFilters, number |-> 1,
               list |-> NoList, calls |-> {new}, latest |-> 1, edits |-> 0,
               left |-> world.asks]
    <3> DEFINE d == [filters |-> InitialFilters, applied |-> InitialFilters, number |-> 1,
                     list |-> NoList, calls |-> {}, latest |-> 0, edits |-> 0,
                     left |-> world.asks]
    <3>1. [Closed EXCEPT !.left = world.asks] = d
      BY DEF Closed
    <3>2. dir = Asked(d)
      BY <1>6, <3>1 DEF DirectoryInit
    <3>3. Asked(d) = [d EXCEPT !.latest = 1, !.list = NoList, !.calls = {} \union {new}]
      BY DEF Asked
    <3>4. QED
      BY <3>2, <3>3
  <2>2. new \in DirCalls /\ new.id = 1 /\ new.where = InitialFilters.value /\ new.number = 1
        /\ new.items = {}
    BY NothingFits DEF DirCalls
  <2> HIDE DEF new
  <2>3. dir \in DirTypes
    BY <1>3, <1>4, <2>1, <2>2, NothingFits DEF DirTypes
  <2>4. dir.calls = {new} /\ dir.latest = 1 /\ dir.applied = InitialFilters /\ dir.number = 1
        /\ dir.list = NoList /\ NoList.status = "loading"
    BY <2>1 DEF NoList
  <2>5. DirInv
    BY <2>2, <2>3, <2>4, NothingFits DEF DirInv
  <2>6. QED
    BY <1>2, <2>5
<1>7. QED
  BY <1>5, <1>6

LEMMA DirKept ==
  ASSUME KeptInv, BornInv, DirInv, [DirectoryNext]_directoryVars
  PROVE  BornInv' /\ DirInv'
<1>1. CASE Onboard
  <2>1. UNCHANGED dir
    BY <1>1 DEF Onboard
  <2>2. QED
    BY <1>1, <2>1, BornKept DEF DirInv
<1>2. CASE SetFilter \/ ApplyFilters \/ ResetFilters \/ TurnPage
  <2>1. UNCHANGED <<tenant, born>>
    BY <1>2 DEF SetFilter, ApplyFilters, ResetFilters, TurnPage, Look, Act, vars
  <2>2. QED
    BY <1>2, <2>1, UseKept DEF BornInv, Born
<1>3. CASE \E c \in dir.calls : Query(c) \/ Receive(c) \/ Refuse(c) \/ Abandon(c) \/ LoseList(c)
  <2>1. UNCHANGED <<tenant, born>>
    BY <1>3 DEF Query, Receive, Refuse, Abandon, LoseList, dataVars, vars
  <2>2. QED
    BY <1>3, <2>1, CallKept DEF BornInv, Born
<1>4. CASE UNCHANGED directoryVars
  BY <1>4 DEF directoryVars, vars, BornInv, Born, DirInv
<1>5. QED
  BY <1>1, <1>2, <1>3, <1>4 DEF DirectoryNext, AnswerCall

LEMMA DirInvariants == DirectorySpec => [](KeptInv /\ PagesInv /\ BornInv /\ DirInv)
<1>1. DirectoryInit => BornInv /\ DirInv
  BY DirInit
<1>2. KeptInv /\ BornInv /\ DirInv /\ [DirectoryNext]_directoryVars => (BornInv /\ DirInv)'
  BY DirKept
<1>3. QED
  BY <1>1, <1>2, Invariants, PTL DEF DirectorySpec

\* The state of the list is of its types: a tenant is created once, however
\* many requests name its slug, listTenants() gives a page no more than its
\* size, and the calls of a page are told apart.
THEOREM DirectoryTypeCorrect == DirectorySpec => []DirectoryTypeOK
<1>1. KeptInv /\ PagesInv /\ BornInv /\ DirInv => DirectoryTypeOK
  <2>1. SUFFICES ASSUME KeptInv, PagesInv, BornInv, DirInv PROVE DirectoryTypeOK
    OBVIOUS
  <2>2. TypeOK
    BY <2>1, RowsTyped
  <2>3. Born = {s \in Slugs : tenant[s] # NoTenant} /\ Len(born) = Cardinality(Born)
    BY <2>1, BornFinite DEF BornInv
  <2>4. dir.list.status \in {"loading", "ready", "error"}
    BY <2>1 DEF DirInv, DirTypes, DirLists
  <2>5. QED
    BY <2>1, <2>2, <2>3, <2>4 DEF DirectoryTypeOK, DirInv, Born
<1>2. QED
  BY <1>1, DirInvariants, PTL

\* However the answers of TenantsPage's calls are delayed, reordered or lost
\* while filters, pages and tenants change: a list it shows is of the page and
\* under the filters applied, and one it waits for has been asked for.
THEOREM ListsAreOfTheirFilters == DirectorySpec => []DirectoryIsOfItsFilters
<1>1. DirInv => DirectoryIsOfItsFilters
  BY DEF DirInv, Fits, DirectoryIsOfItsFilters
<1>2. QED
  BY <1>1, DirInvariants, PTL

=============================================================================
