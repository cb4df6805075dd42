------------------------- MODULE OnboardingRequests -------------------------
(***************************************************************************)
(* How a tenant is asked for: TenantOnboardingPage of apps/frontend, which *)
(* checks a slug, submits under an idempotency key and hands over to       *)
(* TenantProvisioningPage, which polls; TenantsService                     *)
(* .createOnboardingAttempt() of the backend; and the queue it feeds.      *)
(*                                                                         *)
(* Form validation has passed and the actor is an active System user.  A   *)
(* payload is a value with a slug; an attempt is known by its key, since   *)
(* the key is unique.  What a worker does with a job is TenantProvisioning *)
(* with its steps drawn together, so that what it writes to the attempt    *)
(* and the tenant is all there: the claim, the tenant or the slug taken,   *)
(* its activation, the success; or the compensation and the failure, and   *)
(* the writes of a run that has overrun its time.  The server and the      *)
(* workers are one process.                                                *)
(***************************************************************************)
EXTENDS Naturals, FiniteSets

CONSTANTS
  Keys,      \* idempotency keys, and the attempts reserved under them
  RawKeys,   \* those of clients that are no page and choose their own
  Payloads,  \* what forms can hold,
  Slug(_),   \* with the slug in it
  Pages,     \* browser tabs
  MaxRuns,   \* TENANT_PROVISIONING_JOB_RETRY_COUNT: how often a job is run
  MaxStalls, \* how often BullMQ requeues a job whose process died
  Requests,  \* bound on the POSTs under way at the same time
  MaxEdits,  \* bound on the edits of a form
  Worlds     \* the failures to consider and how many of them, how many calls
             \* API clients make with what payloads, and what the forms hold at first

\* "job": a run fails before it has claimed or found anything; "provisioning":
\* a step of it fails; "record": a cleanup or the write of an outcome does.
FaultKinds == {"restart", "network", "queue", "invisible", "job", "provisioning",
               "record", "timeout"}

ASSUME ConstantsAssumption ==
  /\ RawKeys \subseteq Keys
  /\ Payloads # {}
  /\ "nothing" \notin Keys \union Payloads \union Requests /\ "unreserved" \notin Payloads
  /\ MaxRuns \in Nat \ {0} /\ MaxStalls \in Nat /\ MaxEdits \in Nat
  /\ \A w \in Worlds : w.kinds \subseteq FaultKinds /\ w.left \in Nat /\ w.calls \in Nat
                         /\ w.forms \union w.asked \subseteq Payloads

VARIABLES
  attempt,   \* tenant_onboarding_attempts, by idempotencyKey
  tenant,    \* tenants, by slug: whose it is and its status
  job,       \* the provisioning queue, by job id, and the runs of each job
  trouble,   \* a history: the jobs that have overrun, or left a tenant unmarked
  req,       \* the calls of createOnboardingAttempt() under way
  page,      \* the pages
  drawn,     \* the keys pages have generated, with the values they are for
  world      \* the failures that may still happen

dataVars == <<attempt, tenant, job, trouble>>
vars == <<attempt, tenant, job, trouble, req, page, drawn, world>>

Slugs == {Slug(p) : p \in Payloads}
Nothing == "nothing"
Visible == 3  \* ONBOARDING_ATTEMPT_VISIBILITY_RETRY_DELAYS_MS.length

Terminal == {"succeeded", "failed", "failed-needs-manual-cleanup"}
Statuses == {"accepted", "provisioning"} \union Terminal

Absent == [status |-> "none", payload |-> Nothing]
NoTenant == [of |-> Nothing, status |-> "none"]

\* Where a run stands.  "late": where those stand that have overrun their time
\* and go on, each with the number of runs that were left.
Compensating == {"compensate", "fail", "cleanup"}
Abortable == {"reset", "create", "created", "provision"}
Running == Abortable \union Compensating \union {"finish", "resolved", "rejected", "timedOut"}
NoJob == [state |-> "none", runs |-> MaxRuns, stalls |-> 0, timer |-> TRUE, late |-> {}]
NoCall == [pc |-> "idle", key |-> Nothing, payload |-> Nothing,
           replayed |-> FALSE, looks |-> 0, answer |-> Nothing]
NoCheck == [slug |-> Nothing, stage |-> "none"]

\* A page: "values" counts the edits of its form.
Fresh(p) == [view |-> "form", payload |-> p, values |-> 0,
             available |-> [slug |-> Nothing, status |-> "idle"],
             check |-> [slug |-> Slug(p), stage |-> "timer"],
             keyRef |-> [payload |-> Nothing, key |-> Nothing],
             submit |-> "idle", request |-> Nothing,
             viewed |-> Nothing, shown |-> Nothing, poll |-> "none"]

\* A page that is not open.
NotOpen == [Fresh(CHOOSE p \in Payloads : TRUE) EXCEPT !.view = "left", !.check = NoCheck]

\* Of things that differ in name only, one.
One(S) == IF S = {} THEN {} ELSE {CHOOSE x \in S : TRUE}
FreeKey == One(Keys \ (RawKeys \union {d.key : d \in drawn}))
FreeRequest == One({r \in Requests : req[r].pc = "idle"})
RawKey ==
  LET used == {k \in RawKeys : attempt[k] # Absent \/ \E r \in Requests : req[r].key = k}
  IN  used \union One(RawKeys \ used)

Init ==
  /\ world \in Worlds
  /\ attempt = [k \in Keys |-> Absent]
  /\ tenant = [s \in Slugs |-> NoTenant]
  /\ job = [k \in Keys |-> NoJob]
  /\ trouble = [k \in Keys |-> {}]
  /\ req = [r \in Requests |-> NoCall]
  /\ page \in [Pages -> IF world.forms = {} THEN {NotOpen} ELSE {Fresh(p) : p \in world.forms}]
  /\ drawn = {}

Fault(kind) ==
  /\ kind \in world.kinds /\ world.left > 0
  /\ world' = [world EXCEPT !.left = @ - 1]

-----------------------------------------------------------------------------
(* createOnboardingAttempt() *)

Goto(r, pc) == req' = [req EXCEPT ![r].pc = pc]

\* The answer is on its way.
Answer(r, answer) == req' = [req EXCEPT ![r].pc = "answered", ![r].answer = answer]

\* The call is going on, at pc.
At(r, pc) == req[r].pc = pc /\ UNCHANGED <<page, drawn>>

SafePayloadsMatch(found, p) == found.payload = p

\* resolveExistingAttempt(), on the row as it was read.
ResolveExisting(r, found) ==
  IF ~SafePayloadsMatch(found, req[r].payload) THEN Answer(r, "conflict")
  ELSE IF found.status = "accepted"
    THEN req' = [req EXCEPT ![r].pc = "enqueue", ![r].replayed = TRUE]
    ELSE Answer(r, "replayed")

FindAttempt(r) ==
  /\ At(r, "find")
  /\ LET found == attempt[req[r].key]
     IN  IF found # Absent THEN ResolveExisting(r, found) ELSE Goto(r, "slug")
  /\ UNCHANGED <<dataVars, world>>

FindTenant(r) ==
  /\ At(r, "slug")
  /\ IF tenant[Slug(req[r].payload)] # NoTenant THEN Answer(r, "refused") ELSE Goto(r, "insert")
  /\ UNCHANGED <<dataVars, world>>

InsertAttempt(r) ==
  /\ At(r, "insert")
  /\ IF attempt[req[r].key] = Absent
       THEN /\ attempt' = [attempt EXCEPT ![req[r].key] =
                             [status |-> "accepted", payload |-> req[r].payload]]
            /\ Goto(r, "enqueue")
       ELSE /\ req' = [req EXCEPT ![r].pc = "findWinner", ![r].looks = Visible]
            /\ UNCHANGED attempt
  /\ UNCHANGED <<tenant, job, trouble, world>>

FindWinner(r) ==
  /\ At(r, "findWinner")
  /\ ResolveExisting(r, attempt[req[r].key])
  /\ UNCHANGED <<dataVars, world>>

\* The row of the winner is not visible yet: after the third look the client
\* is told to try again.
MissWinner(r) ==
  /\ At(r, "findWinner")
  /\ Fault("invisible")
  /\ IF req[r].looks = 1 THEN Answer(r, "error") ELSE req' = [req EXCEPT ![r].looks = @ - 1]
  /\ UNCHANGED dataVars

\* enqueueAcceptedAttempt(): the queue keeps a job for good, and adds none
\* under an id it has.
EnqueueAcceptedAttempt(r) ==
  /\ At(r, "enqueue")
  /\ job' = [job EXCEPT ![req[r].key].state = IF @ = "none" THEN "waiting" ELSE @]
  /\ Goto(r, "map")
  /\ UNCHANGED <<attempt, tenant, trouble, world>>

\* mapOnboardingAttemptRow(): a replayed attempt says so.
AcceptRequest(r) ==
  /\ At(r, "map")
  /\ Answer(r, IF req[r].replayed THEN "replayed" ELSE "created")
  /\ UNCHANGED <<dataVars, world>>

FailEnqueue(r) ==
  /\ At(r, "enqueue")
  /\ Fault("queue")
  /\ Answer(r, "error")
  /\ UNCHANGED dataVars

\* A job whose process has died: it has stalled, and is run again from its
\* beginning, MaxStalls times at most.
Stalled(j) ==
  IF j.state \notin Running THEN [j EXCEPT !.late = {}]
  ELSE [j EXCEPT !.late = {}, !.timer = TRUE,
          !.state = IF j.stalls < MaxStalls THEN "waiting" ELSE "failed",
          !.stalls = IF j.stalls < MaxStalls THEN @ + 1 ELSE @]

\* The process dies with every call it was serving and every run of a job.
Restart ==
  /\ (\E r \in Requests : req[r].pc # "idle") \/ (\E k \in Keys : job[k] # Stalled(job[k]))
  /\ Fault("restart")
  /\ req' = [r \in Requests |-> NoCall]
  /\ job' = [k \in Keys |-> Stalled(job[k])]
  /\ page' = [g \in Pages |->
                IF page[g].request = Nothing THEN page[g]
                ELSE [page[g] EXCEPT !.submit = "error", !.request = Nothing]]
  /\ UNCHANGED <<attempt, tenant, trouble, drawn>>

-----------------------------------------------------------------------------
(* The worker: a run of the job of attempt k *)

Worker == UNCHANGED <<req, page, drawn>>

SlugOf(k) == Slug(attempt[k].payload)
Owns(k) == tenant[SlugOf(k)].of = k
Overran(k) == "overran" \in trouble[k]

Mark(k, status) == attempt' = [attempt EXCEPT ![k].status = status]
MarkTenant(k, status) == tenant' = [tenant EXCEPT ![SlugOf(k)] = [of |-> k, status |-> status]]
Suffer(k, what) == trouble' = [trouble EXCEPT ![k] = @ \union {what}]

\* The run goes on.
Goes(k, to) == job' = [job EXCEPT ![k].state = to]

\* The run gets from here to there, or one that has overrun does: that one
\* goes on to its end only in its compensation, which does not look at the
\* signal.
Turns(k, from, to) ==
  \/ /\ job[k].state = from
     /\ Goes(k, to)
  \/ \E run \in 0 .. MaxRuns :
       /\ <<run, from>> \in job[k].late
       /\ job' = [job EXCEPT ![k].late =
            (@ \ {<<run, from>>}) \union ({run} \X ({to} \intersect Compensating))]

\* A run that finds no tenant of its attempt, nor an attempt to claim, is over.
ClaimAttempt(k) ==
  /\ job[k].state = "waiting" /\ ~Owns(k)
  /\ IF attempt[k].status = "accepted"
       THEN Mark(k, "provisioning") /\ Goes(k, "create")
       ELSE UNCHANGED attempt /\ Goes(k, "resolved")
  /\ UNCHANGED <<tenant, trouble, world>> /\ Worker

\* One that finds the tenant resumes, but for an attempt that has succeeded or
\* waits for an operator; the record of that may fail.
ResumeTenant(k) ==
  /\ job[k].state = "waiting" /\ Owns(k)
  /\ \/ /\ UNCHANGED world
        /\ Goes(k, CASE attempt[k].status = "succeeded" -> "resolved"
                     [] attempt[k].status = "failed-needs-manual-cleanup" -> "rejected"
                     [] attempt[k].status = "failed" -> "reset"
                     [] OTHER -> "provision")
     \/ /\ attempt[k].status \notin Terminal
        /\ Fault("record") /\ Goes(k, "rejected")
  /\ UNCHANGED <<attempt, tenant, trouble>> /\ Worker

\* A failure is taken back.
ResetAttemptStatus(k) ==
  /\ \/ Turns(k, "reset", "provision") /\ UNCHANGED world
     \/ Turns(k, "reset", "rejected") /\ Fault("record")
  /\ Mark(k, IF attempt[k].status = "failed" THEN "provisioning" ELSE attempt[k].status)
  /\ UNCHANGED <<tenant, trouble>> /\ Worker

\* The tenant is created, or the slug is taken (never by a tenant of its own).
CreateTenant(k) ==
  /\ IF tenant[SlugOf(k)] = NoTenant
       THEN Turns(k, "create", "created") /\ MarkTenant(k, "PROVISIONING") /\ UNCHANGED attempt
       ELSE Turns(k, "create", "resolved") /\ Mark(k, "failed") /\ UNCHANGED tenant
  /\ UNCHANGED <<trouble, world>> /\ Worker

RecordCreation(k) ==
  /\ job[k].state = "created" /\ Goes(k, "provision")
  /\ UNCHANGED <<attempt, tenant, trouble, world>> /\ Worker

\* The insert fails, or the record of it, and with it perhaps that of the
\* failure: a tenant that is there is not marked.
FailCreation(k) ==
  /\ \/ Fault("provisioning") /\ Turns(k, "create", "resolved") /\ Mark(k, "failed")
        /\ UNCHANGED trouble
     \/ Fault("record") /\ Turns(k, "create", "rejected") /\ UNCHANGED <<attempt, trouble>>
     \/ /\ Fault("record") /\ Suffer(k, "unmarked")
        /\ \/ Turns(k, "created", "resolved") /\ Mark(k, "failed")
           \/ Turns(k, "created", "rejected") /\ UNCHANGED attempt
  /\ UNCHANGED tenant /\ Worker

ActivationAllowed(k) == tenant[SlugOf(k)].status # "FAILED" /\ attempt[k].status = "provisioning"

\* A mutant: one half of the fence.
ActivateTenantStill(k) ==
  /\ attempt[k].status = "provisioning"
  /\ Turns(k, "provision", "finish") /\ MarkTenant(k, "ACTIVE")
  /\ UNCHANGED <<attempt, trouble, world>> /\ Worker

ActivateTenant(k) ==
  /\ ActivationAllowed(k)
  /\ Turns(k, "provision", "finish") /\ MarkTenant(k, "ACTIVE")
  /\ UNCHANGED <<attempt, trouble, world>> /\ Worker

\* The success is written, or that fails silently.
FinishRun(k) ==
  /\ job[k].state = "finish" /\ Goes(k, "resolved")
  /\ \/ Mark(k, "succeeded") /\ UNCHANGED world
     \/ Fault("record") /\ UNCHANGED attempt
  /\ UNCHANGED <<tenant, trouble>> /\ Worker

\* A step fails, or the record of it, or the activation is not allowed.
FailStep(k) ==
  /\ job[k].state \in {"provision", "finish"} /\ Goes(k, "compensate")
  /\ IF job[k].state = "provision" /\ ~ActivationAllowed(k) THEN UNCHANGED world
     ELSE Fault("provisioning")
  /\ UNCHANGED <<attempt, tenant, trouble>> /\ Worker

\* handleProvisioningFailure() until the tenant is marked; then what may fail
\* in it: the mark, silently; a step of the compensation, which two that
\* overlap can take from each other; the whole of it, silently.
CompensateTenant(k) ==
  /\ \/ Turns(k, "compensate", "fail") /\ MarkTenant(k, "FAILED") /\ UNCHANGED <<trouble, world>>
     \/ /\ Fault("record") /\ Turns(k, "compensate", "fail") /\ Suffer(k, "unmarked")
        /\ UNCHANGED tenant
     \/ /\ IF Overran(k) THEN UNCHANGED world ELSE Fault("record")
        /\ Turns(k, "compensate", "cleanup") /\ UNCHANGED <<tenant, trouble>>
     \/ Fault("record") /\ Turns(k, "compensate", "rejected") /\ UNCHANGED <<tenant, trouble>>
  /\ UNCHANGED attempt /\ Worker

\* The failure is written, or that fails silently.
SettleFailure(k) ==
  /\ \/ Turns(k, "fail", "rejected") /\ Mark(k, "failed") /\ UNCHANGED world
     \/ /\ Turns(k, "cleanup", "rejected") /\ Mark(k, "failed-needs-manual-cleanup")
        /\ UNCHANGED world
     \/ /\ \E from \in {"fail", "cleanup"} : Turns(k, from, "rejected")
        /\ Fault("record") /\ UNCHANGED attempt
  /\ UNCHANGED <<tenant, trouble>> /\ Worker

-----------------------------------------------------------------------------
(* The worker: the queue and the timer *)

CompleteJob(k) ==
  /\ job[k].state = "resolved" /\ Goes(k, "done")
  /\ UNCHANGED <<attempt, tenant, trouble, world>> /\ Worker

\* The queue tries again while it has attempts left.
RejectJob(k) ==
  /\ job[k].state = "rejected"
  /\ job' = [job EXCEPT ![k].state = IF job[k].runs > 1 THEN "waiting" ELSE "failed",
                        ![k].runs = @ - 1, ![k].timer = TRUE]
  /\ UNCHANGED <<attempt, tenant, trouble, world>> /\ Worker

\* A run fails before it has found or claimed anything.
FailRun(k) ==
  /\ job[k].state = "waiting" /\ Goes(k, "rejected")
  /\ Fault("job")
  /\ UNCHANGED <<attempt, tenant, trouble>> /\ Worker

\* The timer wins the race, at any time: what the run has sent may still take
\* effect, and a compensation goes on.
OverrunJob(k) ==
  /\ job[k].state \in {"waiting"} \union Running /\ job[k].timer
  /\ Fault("timeout")
  /\ job' = [job EXCEPT ![k].state = "timedOut", ![k].timer = FALSE,
               ![k].late = @ \union ({job[k].runs} \X
                                       ({job[k].state} \intersect (Abortable \union Compensating)))]
  /\ Suffer(k, "overran")
  /\ UNCHANGED <<attempt, tenant>> /\ Worker

\* A run that has overrun notices the signal.
NoticeSignal(k) ==
  /\ \E run \in job[k].late :
       run[2] \in Abortable /\ job' = [job EXCEPT ![k].late = @ \ {run}]
  /\ UNCHANGED <<attempt, tenant, trouble, world>> /\ Worker

\* recordProvisioningTimeout(): the attempt is 'failed' whatever it was, and
\* compensated if it has a tenant by now; or that fails.
RecordTimeout(k) ==
  /\ job[k].state = "timedOut"
  /\ \/ /\ Mark(k, "failed") /\ UNCHANGED world
        /\ Goes(k, IF Owns(k) THEN "compensate" ELSE "fail")
     \/ Fault("record") /\ Goes(k, "rejected") /\ UNCHANGED attempt
  /\ UNCHANGED <<tenant, trouble>> /\ Worker

-----------------------------------------------------------------------------
(* TenantOnboardingPage *)

\* Page g goes on as "next", and nothing else happens.
Turn(g, next) == page' = [page EXCEPT ![g] = next]
Local(g, next) == Turn(g, next) /\ UNCHANGED <<dataVars, req, drawn, world>>

OnForm(g) == page[g].view = "form"
Creating(g) == page[g].submit = "creating"

\* What an edit leaves: a new slug is checked once the typing has stopped,
\* and the check of the old one is dropped.
Edited(g, p) ==
  [page[g] EXCEPT !.payload = p, !.values = @ + 1, !.submit = "idle",
     !.check = IF Slug(p) = Slug(page[g].payload) THEN @
               ELSE [slug |-> Slug(p), stage |-> "timer"]]

\* A mutant: the fields stay enabled while the request is under way.
EditWhileCreating(g) ==
  /\ OnForm(g) /\ page[g].values < MaxEdits
  /\ \E p \in Payloads \ {page[g].payload} : Local(g, Edited(g, p))

Edit(g) ==
  /\ OnForm(g) /\ ~Creating(g) /\ page[g].values < MaxEdits
  /\ \E p \in Payloads \ {page[g].payload} : Local(g, Edited(g, p))

SendCheck(g) ==
  LET c == page[g].check
  IN  /\ OnForm(g) /\ c.stage = "timer"
      /\ Local(g, [page[g] EXCEPT !.check.stage = "sent",
                     !.available = [slug |-> c.slug, status |-> "checking"]])

\* checkSlugAvailability() of TenantsService.
CheckSlugAvailability(g) ==
  LET c == page[g].check
  IN  /\ OnForm(g) /\ c.stage = "sent"
      /\ Local(g, [page[g] EXCEPT !.check.stage =
                     IF tenant[c.slug] = NoTenant THEN "available" ELSE "unavailable"])

ShowCheck(g) ==
  LET c == page[g].check
  IN  /\ OnForm(g) /\ c.stage \in {"available", "unavailable"}
      /\ Local(g, [page[g] EXCEPT !.check = NoCheck,
                     !.available = [slug |-> c.slug, status |-> c.stage]])

FailCheck(g) ==
  LET c == page[g].check
  IN  /\ OnForm(g) /\ c.stage = "sent"
      /\ Fault("network")
      /\ Turn(g, [page[g] EXCEPT !.check = NoCheck,
                    !.available = [slug |-> c.slug, status |-> "error"]])
      /\ UNCHANGED <<dataVars, req, drawn>>

SlugIsAvailable(g) ==
  page[g].available = [slug |-> Slug(page[g].payload), status |-> "available"]

\* idempotencyKeyRef: the key stays while the values do.
KeyFor(g) ==
  IF page[g].keyRef.payload = page[g].payload
    THEN {page[g].keyRef.key}
    ELSE FreeKey

Submit(g) ==
  /\ OnForm(g) /\ ~Creating(g) /\ SlugIsAvailable(g)
  /\ \E r \in FreeRequest, k \in KeyFor(g) :
       /\ req' = [req EXCEPT ![r] =
                    [NoCall EXCEPT !.pc = "find", !.key = k, !.payload = page[g].payload]]
       /\ Turn(g, [page[g] EXCEPT !.submit = "creating", !.request = r,
                     !.keyRef = [payload |-> page[g].payload, key |-> k]])
       /\ drawn' = drawn \union {[page |-> g, values |-> page[g].values, key |-> k]}
  /\ UNCHANGED <<dataVars, world>>

\* A client of the API that is no page.
RawCall ==
  /\ world.calls > 0
  /\ world' = [world EXCEPT !.calls = @ - 1]
  /\ \E r \in FreeRequest, k \in RawKey, p \in Payloads \intersect world.asked :
       req' = [req EXCEPT ![r] = [NoCall EXCEPT !.pc = "find", !.key = k, !.payload = p]]
  /\ UNCHANGED <<dataVars, page, drawn>>

\* What handleSubmit() does with an answer.
Received(g, k, answer) ==
  LET done == [page[g] EXCEPT !.request = Nothing, !.submit = answer]
  IN  CASE answer \in {"created", "replayed"} ->
             [done EXCEPT !.view = "progress", !.viewed = k, !.poll = "load",
                          !.submit = "idle", !.check = NoCheck]
        [] answer = "refused" ->
             [done EXCEPT !.submit = "error",
                !.available = [slug |-> Slug(page[g].payload), status |-> "unavailable"]]
        [] OTHER -> done

\* The answer reaches the page that waits for it, if there is one.
Deliver(r) ==
  /\ req[r].pc = "answered"
  /\ page' = [g \in Pages |-> IF page[g].request = r
                                THEN Received(g, req[r].key, req[r].answer) ELSE page[g]]
  /\ req' = [req EXCEPT ![r] = NoCall]
  /\ UNCHANGED <<dataVars, drawn, world>>

\* The connection breaks: the page sees an error, the server goes on.
Disconnect(g) ==
  /\ page[g].request # Nothing
  /\ Fault("network")
  /\ Turn(g, [page[g] EXCEPT !.request = Nothing, !.submit = "error"])
  /\ UNCHANGED <<dataVars, req, drawn>>

\* The page is left: its effects are cleaned up and its calls aborted.
Leave(g) ==
  /\ page[g].view # "left"
  /\ Local(g, [page[g] EXCEPT !.view = "left", !.request = Nothing, !.submit = "idle",
                 !.poll = "none", !.check = NoCheck])

-----------------------------------------------------------------------------
(* TenantProvisioningPage *)

\* A mutant: polling stops as soon as provisioning has begun.
IsTerminalEarly(status) == status # "accepted"
IsTerminal(status) == status \in Terminal

Poll(g) ==
  LET status == attempt[page[g].viewed].status
  IN  /\ page[g].poll = "load"
      /\ Local(g, [page[g] EXCEPT !.shown = status,
                     !.poll = IF IsTerminal(status) THEN "stopped" ELSE "timer"])

PollAgain(g) == page[g].poll = "timer" /\ Local(g, [page[g] EXCEPT !.poll = "load"])

FailPoll(g) ==
  /\ page[g].poll = "load"
  /\ Fault("network")
  /\ Turn(g, [page[g] EXCEPT !.poll = "error"])
  /\ UNCHANGED <<dataVars, req, drawn>>

RetryLoad(g) == page[g].poll = "error" /\ Local(g, [page[g] EXCEPT !.poll = "load"])

-----------------------------------------------------------------------------
Serve(r) ==
  \/ FindAttempt(r) \/ FindTenant(r) \/ InsertAttempt(r) \/ FindWinner(r)
  \/ EnqueueAcceptedAttempt(r) \/ AcceptRequest(r) \/ Deliver(r)

Provision(k) ==
  \/ ClaimAttempt(k) \/ ResumeTenant(k) \/ ResetAttemptStatus(k)
  \/ CreateTenant(k) \/ RecordCreation(k)
  \/ ActivateTenant(k) \/ FinishRun(k) \/ FailStep(k)
  \/ CompensateTenant(k) \/ SettleFailure(k) \/ RecordTimeout(k)
  \/ CompleteJob(k) \/ RejectJob(k) \/ NoticeSignal(k)

Browse(g) ==
  SendCheck(g) \/ CheckSlugAvailability(g) \/ ShowCheck(g) \/ Poll(g) \/ PollAgain(g)

Use(g) == Edit(g) \/ Submit(g) \/ Leave(g) \/ RetryLoad(g)

Fail ==
  \/ \E r \in Requests : MissWinner(r) \/ FailEnqueue(r)
  \/ \E k \in Keys : FailRun(k) \/ FailCreation(k) \/ OverrunJob(k)
  \/ \E g \in Pages : FailCheck(g) \/ Disconnect(g) \/ FailPoll(g)
  \/ Restart

Next ==
  \/ \E r \in Requests : Serve(r)
  \/ RawCall
  \/ \E k \in Keys : Provision(k)
  \/ \E g \in Pages : Browse(g) \/ Use(g)
  \/ Fail

Spec == Init /\ [][Next]_vars

\* The server and the workers go on, and so do the timers of a page that is
\* open; people and API clients do as they like.
Fairness ==
  /\ \A r \in Requests : WF_vars(Serve(r))
  /\ \A k \in Keys : WF_vars(Provision(k))
  /\ \A g \in Pages : WF_vars(Browse(g))

FairSpec == Spec /\ Fairness

-----------------------------------------------------------------------------
TypeOK ==
  /\ \A k \in Keys :
       /\ attempt[k].status \in Statuses => attempt[k].payload \in Payloads
       /\ job[k].state \in {"none", "waiting", "done", "failed"} \union Running
       /\ job[k].runs \in 0 .. MaxRuns /\ job[k].stalls \in 0 .. MaxStalls
       /\ job[k].late \subseteq (0 .. MaxRuns) \X (Abortable \union Compensating)
       /\ job[k].late # {} => Overran(k)
  /\ \A s \in Slugs :
       /\ tenant[s].of \in Keys \union {Nothing}
       /\ tenant[s].status = "none" <=> tenant[s].of = Nothing
  /\ \A g \in Pages :
       /\ page[g].view \in {"form", "progress", "left"}
       /\ Creating(g) <=> page[g].request # Nothing
       /\ Creating(g) => req[page[g].request].payload = page[g].payload

-----------------------------------------------------------------------------
(* The code keeps the promise of Onboarding, whatever request, process,      *)
(* queue or connection fails between two of its steps.                       *)
OutcomeOf(k) == IF attempt[k].status \in Terminal THEN attempt[k].status ELSE "none"

Contract == INSTANCE Onboarding WITH
  reserved <- [k \in Keys |-> IF attempt[k] = Absent THEN "unreserved" ELSE attempt[k].payload],
  scheduled <- {k \in Keys : job[k].state # "none"},
  given <- tenant,
  outcome <- [k \in Keys |-> OutcomeOf(k)],
  told <- [r \in Requests |-> IF req[r].pc = "answered" THEN req[r].answer ELSE "silence"]

ContractKept == Contract!ContractSpec

(* However often a page submits the same values after errors, they reserve   *)
(* one attempt.                                                              *)
OneAttemptPerSubmission ==
  \A c, d \in drawn :
    /\ c.page = d.page /\ c.values = d.values
    /\ attempt[c.key] # Absent /\ attempt[d.key] # Absent
    => c.key = d.key

(* A page is never told that its key belongs to other values: a key it has   *)
(* drawn is not used for values that were edited later.                      *)
PageNeverConflicts == \A g \in Pages : page[g].submit # "conflict"

(* A page stops polling at 'failed' although a retry may take that back and  *)
(* even succeed.  What it shows holds all the same, unless a run has overrun *)
(* its time: a success that is shown is one, of a tenant that is ACTIVE, a   *)
(* cleanup is still waited for, and behind a failure comes no success, but   *)
(* when the failed tenant could not be marked.                               *)
ShownOutcomeStands ==
  \A g \in Pages :
    LET k == page[g].viewed IN
    /\ page[g].shown = "succeeded" =>
         /\ Owns(k) /\ tenant[SlugOf(k)].status \in {"ACTIVE", "FAILED"}
         /\ ~Overran(k) => attempt[k].status = "succeeded" /\ tenant[SlugOf(k)].status = "ACTIVE"
    /\ page[g].shown = "failed-needs-manual-cleanup" /\ ~Overran(k) =>
         attempt[k].status = "failed-needs-manual-cleanup"
    /\ page[g].shown = "failed" /\ trouble[k] = {} => attempt[k].status # "succeeded"

(* The three together: a page can rely on its key and on what it shows.      *)
PageIsNotMisled ==
  /\ OneAttemptPerSubmission
  /\ PageNeverConflicts
  /\ ShownOutcomeStands

(* A job that is over leaves its attempt without an outcome only when the    *)
(* process died, runs failed at once or outcomes could not be written.       *)
Abandoned(k) ==
  /\ job[k].state \in {"done", "failed"} /\ attempt[k].status \notin Terminal
  /\ world.kinds \intersect {"restart", "job", "record"} # {}

(* A page that was told its request was accepted and stays open comes to     *)
(* show an outcome, or an error, unless the attempt is abandoned.            *)
PageLearnsOutcome ==
  \A g \in Pages :
    page[g].view = "progress"
      ~> (\/ page[g].poll = "stopped" /\ page[g].shown \in Terminal
          \/ page[g].poll = "error"
          \/ page[g].view = "left"
          \/ \E k \in Keys : page[g].viewed = k /\ Abandoned(k))

(* The two together: a page is told what becomes of its request, and nothing *)
(* else.                                                                     *)
PageFollowsItsRequest == []PageIsNotMisled /\ PageLearnsOutcome

=============================================================================
