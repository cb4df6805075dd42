------------------------ MODULE TenantProvisioning ------------------------
(***************************************************************************)
(* Tenant onboarding, from the queued BullMQ job to the final audit row:   *)
(* TenantProvisioningWorker.process() and TenantProvisioningService        *)
(* .startLifecycle() of apps/backend/src/modules/tenants.                  *)
(*                                                                         *)
(* One onboarding attempt is modelled, with the tenant row linked to it,   *)
(* the tenant's Postgres schema, its First Admin and its setup tokens.     *)
(* BullMQ runs the job once per run r.  A run has two processes, which     *)
(* share nothing but the database and the abort signal:                    *)
(*   - Life(r), the promise of startLifecycle();                           *)
(*   - Watch(r), the worker's race of that promise against a timer.        *)
(* When the timer wins, Watch(r) raises the signal, compensates and        *)
(* rejects the job, while Life(r) goes on until it next looks at the       *)
(* signal: a statement it had already sent may still take effect, even     *)
(* after the next run has begun.  Every database call is one action.       *)
(***************************************************************************)
EXTENDS Naturals

CONSTANTS
  RetryCount,   \* TENANT_PROVISIONING_JOB_RETRY_COUNT, the job's "attempts"
  MaxStalls,    \* how often BullMQ requeues a job whose process died
  Worlds        \* what may go wrong in a behaviour: the kinds of disturbance,
                \* and a bound on their number

FaultKinds == {"timeout", "crash", "create", "step", "record",
               "compensation", "audit"}

FaultWorlds == [kinds : SUBSET FaultKinds, left : Nat]

ASSUME ConstantsAssumption ==
  /\ RetryCount \in Nat \ {0}
  /\ MaxStalls \in Nat
  /\ Worlds \subseteq FaultWorlds

Runs == 1 .. RetryCount + MaxStalls
Life(r) == <<r, "life">>
Watch(r) == <<r, "watch">>
Procs == Runs \X {"life", "watch"}

AttemptStatuses == {"accepted", "provisioning", "succeeded", "failed",
                    "failed-needs-manual-cleanup"}
TenantStatuses == {"none", "PROVISIONING", "ACTIVE", "FAILED"}
SchemaParts == {"namespace", "meta", "seed"}

\* The steps of provisionTenantSchema() that run between the tenant row and
\* the audit row, in their order, and the outcomes an attempt row keeps for
\* them.  The outcomes of provisioning_start, tenant_creation,
\* setup_email_sent and audit_finalized are left out: no code reads them.
Steps == {"schema_created", "bootstrap_migrated", "bootstrap_seeded",
          "first_admin_assigned", "setup_link_generated",
          "setup_email_sent", "activation"}
RecordedSteps == Steps \ {"setup_email_sent"}
NextStep == [schema_created       |-> "bootstrap_migrated",
             bootstrap_migrated   |-> "bootstrap_seeded",
             bootstrap_seeded     |-> "first_admin_assigned",
             first_admin_assigned |-> "setup_link_generated",
             setup_link_generated |-> "setup_email_sent",
             setup_email_sent     |-> "activation"]

\* Where a process stands: the call it has pending.
LifePCs == {"idle", "find", "status", "reset", "recordResumed", "claim",
            "payload", "insert", "recordCreated", "recordCreationFailure",
            "execute", "record", "recordFailure",
            "auditSucceeded", "statusSucceeded", "cancelled", "resolved"}
CompensationPCs == {"readOutcomes", "revokeTokens", "readAdmin",
                    "deleteAdmin", "dropSchema", "markFailed",
                    "auditFailed", "statusFailed"}
WatchPCs == {"idle", "racing", "recordTimeout", "findTimedOut", "settled"}
PCs == LifePCs \union CompensationPCs \union WatchPCs \union {"rejected", "dead"}

\* A lifecycle in one of these has returned control for good.
Finished == {"idle", "cancelled", "resolved", "rejected", "dead"}

NoAdmin == 0   \* no First Admin row; otherwise the run that created it
NoAudit == "none"

VARIABLES
  attemptStatus,  \* tenant_onboarding_attempts.status
  outcomes,       \* its stepOutcomes, one per recorded step
  tenant,         \* tenants.status of the linked tenant
  schema,         \* what the Postgres schema of the tenant holds
  admin,          \* the First Admin's TenantUser, AuthAccount and Role
  setupToken,     \* whether a setup token that is not revoked exists
  audit,          \* finalStatus of the permanent audit row
  job,            \* the BullMQ job
  pc,             \* the pending call of every process
  step,           \* the step Life(r) is at
  aborted,        \* the abort signal of every run
  comp,           \* what handleProvisioningFailure() has read and met
  faults          \* the world: the disturbances that may still happen

attemptVars == <<attemptStatus, outcomes>>
resourceVars == <<schema, admin, setupToken>>
runVars == <<step, aborted>>
vars == <<attemptStatus, outcomes, tenant, schema, admin, setupToken, audit,
          job, pc, step, aborted, comp, faults>>

Jobs == [state : {"queued", "active", "completed", "failed"},
         run : 0 .. RetryCount + MaxStalls,
         made : 0 .. RetryCount,
         stalls : 0 .. MaxStalls + 1]
Compensations == [schemaCreated : BOOLEAN, admin : {NoAdmin} \union Runs,
                  failed : BOOLEAN]
FreshCompensation == [schemaCreated |-> FALSE, admin |-> NoAdmin,
                      failed |-> FALSE]

Terminal == {"succeeded", "failed", "failed-needs-manual-cleanup"}

Init ==
  /\ attemptStatus = "accepted"
  /\ outcomes = [s \in RecordedSteps |-> "none"]
  /\ tenant = "none"
  /\ schema = {}
  /\ admin = NoAdmin
  /\ setupToken = FALSE
  /\ audit = NoAudit
  /\ job = [state |-> "queued", run |-> 0, made |-> 0, stalls |-> 0]
  /\ pc = [p \in Procs |-> "idle"]
  /\ step = [r \in Runs |-> "schema_created"]
  /\ aborted = [r \in Runs |-> FALSE]
  /\ comp = [p \in Procs |-> FreshCompensation]
  /\ faults \in Worlds

-----------------------------------------------------------------------------
(* Helpers *)

\* Something outside the code goes wrong, once more.
Fault(kind) ==
  /\ kind \in faults.kinds
  /\ faults.left > 0
  /\ faults' = [faults EXCEPT !.left = @ - 1]

\* The pending call of p returns and p makes the call l.
Goto(p, from, to) ==
  /\ pc[p] = from
  /\ pc' = [pc EXCEPT ![p] = to]

\* A mutant: no write at all once the attempt is terminal.
WriteDroppedOnceTerminal(status) == attemptStatus \in Terminal

(* updateAttemptSteps() writes nothing over a terminal attempt unless what  *)
(* it writes is terminal too.                                               *)
WriteDropped(status) ==
  attemptStatus \in Terminal /\ status \notin Terminal

WriteStatus(status) ==
  attemptStatus' = IF WriteDropped(status) THEN attemptStatus ELSE status

WriteOutcome(s, outcome) ==
  outcomes' = IF WriteDropped("provisioning") \/ s \notin RecordedSteps
                THEN outcomes
                ELSE [outcomes EXCEPT ![s] = outcome]

\* A mutant: one half of the fence.
ActivationAllowedAfterTimeout == tenant # "FAILED"

(* The final fence of activation(): the tenant is not FAILED and the        *)
(* attempt is still being provisioned.                                      *)
ActivationAllowed == tenant # "FAILED" /\ attemptStatus = "provisioning"

\* A mutant: the claim of an earlier run is not respected.
ClaimableByAnyRun == attemptStatus \in AttemptStatuses

\* claimAttempt() takes an accepted attempt only.
Claimable == attemptStatus = "accepted"

\* What an attempt becomes when its compensation is over.
FailureStatus(p) ==
  IF comp[p].failed THEN "failed-needs-manual-cleanup" ELSE "failed"

-----------------------------------------------------------------------------
(* The queue: BullMQ as the worker uses it *)

\* A worker takes the job and calls process().
StartRun ==
  /\ job.state = "queued"
  /\ LET r == job.run + 1 IN
       /\ job' = [job EXCEPT !.state = "active", !.run = r]
       /\ pc' = [pc EXCEPT ![Life(r)] = "find", ![Watch(r)] = "racing"]
  /\ UNCHANGED <<attemptVars, tenant, resourceVars, audit, runVars, comp, faults>>

\* The lifecycle won the race and resolved: so does process().
CompleteJob(r) ==
  /\ pc[Life(r)] = "resolved"
  /\ Goto(Watch(r), "racing", "settled")
  /\ job' = [job EXCEPT !.state = "completed", !.made = @ + 1]
  /\ UNCHANGED <<attemptVars, tenant, resourceVars, audit, runVars, comp, faults>>

\* A mutant: one retry too many.
RejectJobOffByOne(r) ==
  /\ \/ pc[Life(r)] = "rejected" /\ Goto(Watch(r), "racing", "settled")
     \/ Goto(Watch(r), "rejected", "settled")
  /\ job' = [job EXCEPT
               !.state = IF job.made < RetryCount THEN "queued" ELSE "failed",
               !.made = @ + 1]
  /\ UNCHANGED <<attemptVars, tenant, resourceVars, audit, runVars, comp, faults>>

\* process() rejects, with the lifecycle's error or with the timeout: BullMQ
\* retries while attempts are left.
RejectJob(r) ==
  /\ \/ pc[Life(r)] = "rejected" /\ Goto(Watch(r), "racing", "settled")
     \/ Goto(Watch(r), "rejected", "settled")
  /\ job' = [job EXCEPT
               !.state = IF job.made + 1 < RetryCount THEN "queued" ELSE "failed",
               !.made = @ + 1]
  /\ UNCHANGED <<attemptVars, tenant, resourceVars, audit, runVars, comp, faults>>

\* The process that runs r dies.  If the job was its, BullMQ finds it stalled
\* and requeues it, MaxStalls times at most.
Crash(r) ==
  /\ Fault("crash")
  /\ pc[Life(r)] \notin Finished \/ pc[Watch(r)] \notin {"idle", "settled", "dead"}
  /\ pc' = [pc EXCEPT ![Life(r)] = "dead", ![Watch(r)] = "dead"]
  /\ job' = IF pc[Watch(r)] = "settled"
              THEN job
              ELSE [job EXCEPT
                      !.state = IF job.stalls < MaxStalls THEN "queued" ELSE "failed",
                      !.stalls = @ + 1]
  /\ UNCHANGED <<attemptVars, tenant, resourceVars, audit, runVars, comp>>

-----------------------------------------------------------------------------
(* startLifecycle(): resume a linked tenant, or claim and create one *)

\* throwIfProvisioningCancelled() is called before and after these calls; a
\* call that was sent before the signal may also run to its end.
Fenced == {"find", "recordResumed", "insert", "recordCreated", "execute",
           "record", "recordFailure", "auditSucceeded", "statusSucceeded"}

\* Where a lifecycle goes from a write it does not fence: it looks at the
\* signal before it makes its next call.
Unless(r, to) == IF aborted[r] THEN "cancelled" ELSE to

\* The lifecycle notices the signal and throws ProvisioningCancelledError,
\* which nobody compensates: the watch does.
Cancel(r) ==
  /\ aborted[r]
  /\ pc[Life(r)] \in Fenced
  /\ pc' = [pc EXCEPT ![Life(r)] = "cancelled"]
  /\ UNCHANGED <<attemptVars, tenant, resourceVars, audit, job, runVars, comp, faults>>

FindLinkedTenant(r) ==
  /\ ~aborted[r]
  /\ Goto(Life(r), "find", IF tenant = "none" THEN "claim" ELSE "status")
  /\ UNCHANGED <<attemptVars, tenant, resourceVars, audit, job, runVars, comp, faults>>

\* A run that finds the attempt succeeded has nothing to do; one that finds
\* it waiting for an operator must not resume it.
ReadAttemptStatus(r) ==
  /\ Goto(Life(r), "status",
          CASE attemptStatus = "succeeded" -> "resolved"
            [] attemptStatus = "failed-needs-manual-cleanup" -> "rejected"
            [] attemptStatus = "failed" -> "reset"
            [] OTHER -> "recordResumed")
  /\ UNCHANGED <<attemptVars, tenant, resourceVars, audit, job, runVars, comp, faults>>

\* resetAttemptStatusToProvisioning(): past the guard of updateAttemptSteps().
ResetAttemptStatus(r) ==
  /\ Goto(Life(r), "reset", "recordResumed")
  /\ attemptStatus' = IF attemptStatus = "failed" THEN "provisioning" ELSE attemptStatus
  /\ UNCHANGED <<outcomes, tenant, resourceVars, audit, job, runVars, comp, faults>>

\* recordTenantCreationSuccess() on the resume path; a failure of it rejects
\* the run before anything that would compensate.
RecordResumedTenant(r) ==
  /\ \/ /\ Goto(Life(r), "recordResumed", Unless(r, "execute"))
        /\ step' = [step EXCEPT ![r] = "schema_created"]
        /\ WriteStatus("provisioning")
        /\ UNCHANGED faults
     \/ /\ Fault("record")
        /\ Goto(Life(r), "recordResumed", "rejected")
        /\ UNCHANGED <<attemptStatus, step>>
  /\ UNCHANGED <<outcomes, tenant, resourceVars, audit, job, aborted, comp>>

\* claimAttempt(), under FOR UPDATE.  Not claimed: there is nothing to do.
ClaimAttempt(r) ==
  /\ IF Claimable
       THEN /\ Goto(Life(r), "claim", "payload")
            /\ attemptStatus' = "provisioning"
       ELSE /\ Goto(Life(r), "claim", "resolved")
            /\ UNCHANGED attemptStatus
  /\ UNCHANGED <<outcomes, tenant, resourceVars, audit, job, runVars, comp, faults>>

\* readSafePayload(): the payload is sent to createOrResolveTenant(), unless
\* it does not validate or the signal was raised first.
ReadSafePayload(r) ==
  /\ \/ Goto(Life(r), "payload", Unless(r, "insert")) /\ UNCHANGED faults
     \/ Goto(Life(r), "payload", "recordCreationFailure") /\ Fault("create")
  /\ UNCHANGED <<attemptVars, tenant, resourceVars, audit, job, runVars, comp>>

\* createOrResolveTenant().  The insert fails when another attempt holds the
\* slug, and for any other database error.
CreateOrResolveTenant(r) ==
  /\ \/ /\ Goto(Life(r), "insert", Unless(r, "recordCreated"))
        /\ tenant' = IF tenant = "none" THEN "PROVISIONING" ELSE tenant
        /\ UNCHANGED faults
     \/ /\ Fault("create")
        /\ Goto(Life(r), "insert", "recordCreationFailure")
        /\ UNCHANGED tenant
  /\ UNCHANGED <<attemptVars, resourceVars, audit, job, runVars, comp>>

\* recordTenantCreationSuccess() of a new tenant; a failure of it is caught
\* and recorded as a failed creation.
RecordCreatedTenant(r) ==
  /\ \/ /\ Goto(Life(r), "recordCreated", Unless(r, "execute"))
        /\ step' = [step EXCEPT ![r] = "schema_created"]
        /\ WriteStatus("provisioning")
        /\ UNCHANGED faults
     \/ /\ Fault("record")
        /\ Goto(Life(r), "recordCreated", "recordCreationFailure")
        /\ UNCHANGED <<attemptStatus, step>>
  /\ UNCHANGED <<outcomes, tenant, resourceVars, audit, job, aborted, comp>>

\* recordTenantCreationFailure(), after which the run resolves.
RecordTenantCreationFailure(r) ==
  /\ \/ /\ Goto(Life(r), "recordCreationFailure", "resolved")
        /\ WriteStatus("failed")
        /\ UNCHANGED faults
     \/ /\ Fault("record")
        /\ Goto(Life(r), "recordCreationFailure", "rejected")
        /\ UNCHANGED attemptStatus
  /\ UNCHANGED <<outcomes, tenant, resourceVars, audit, job, runVars, comp>>

-----------------------------------------------------------------------------
(* provisionTenantSchema(): its steps, each an effect and a recorded outcome *)

AtStep(r, s) == pc[Life(r)] = "execute" /\ step[r] = s

\* The effect of the step is there: its outcome is recorded next.
StepReturns(r) ==
  /\ pc' = [pc EXCEPT ![Life(r)] = "record"]
  /\ UNCHANGED <<attemptVars, audit, job, runVars, comp, faults>>

\* The step threw without an effect: the failure is recorded next.
StepFails(r) ==
  /\ pc' = [pc EXCEPT ![Life(r)] = "recordFailure"]
  /\ UNCHANGED <<attemptVars, tenant, resourceVars, audit, job, runVars, comp>>

\* CREATE SCHEMA IF NOT EXISTS.
CreateTenantSchema(r) ==
  /\ AtStep(r, "schema_created")
  /\ schema' = schema \union {"namespace"}
  /\ StepReturns(r)
  /\ UNCHANGED <<tenant, admin, setupToken>>

\* ensureMetaTables() and bootstrapSeed() create tables in the schema, which
\* is an error when the schema is not there.
FillTenantSchema(r, s, part) ==
  /\ AtStep(r, s)
  /\ IF "namespace" \in schema
       THEN /\ schema' = schema \union {part}
            /\ StepReturns(r)
            /\ UNCHANGED <<tenant, admin, setupToken>>
       ELSE StepFails(r) /\ UNCHANGED faults

BootstrapTenantSchema(r) == FillTenantSchema(r, "bootstrap_migrated", "meta")
BootstrapTenantSeed(r) == FillTenantSchema(r, "bootstrap_seeded", "seed")

\* FirstAdminService.assign() reuses the First Admin of an earlier run.
AssignFirstAdmin(r) ==
  /\ AtStep(r, "first_admin_assigned")
  /\ admin' = IF admin = NoAdmin THEN r ELSE admin
  /\ StepReturns(r)
  /\ UNCHANGED <<tenant, schema, setupToken>>

\* SetupLinkService.generate() needs a First Admin; it revokes the older
\* tokens and mints one.
GenerateSetupLink(r) ==
  /\ AtStep(r, "setup_link_generated")
  /\ IF admin # NoAdmin
       THEN /\ setupToken' = TRUE
            /\ StepReturns(r)
            /\ UNCHANGED <<tenant, schema, admin>>
       ELSE StepFails(r) /\ UNCHANGED faults

\* sendBackupEmail() never blocks: delivered or not, recorded or not, the
\* lifecycle goes on, unless it is cancelled.
SendBackupEmail(r) ==
  /\ AtStep(r, "setup_email_sent")
  /\ ~aborted[r]
  /\ step' = [step EXCEPT ![r] = NextStep[step[r]]]
  /\ WriteStatus("provisioning")
  /\ UNCHANGED <<outcomes, tenant, resourceVars, audit, job, pc, aborted, comp,
                 faults>>

\* activation(): the conditional update of the tenant row.
Activation(r) ==
  /\ AtStep(r, "activation")
  /\ IF ActivationAllowed
       THEN /\ tenant' = "ACTIVE"
            /\ StepReturns(r)
            /\ UNCHANGED resourceVars
       ELSE StepFails(r) /\ UNCHANGED faults

StepThrows(r) ==
  /\ Fault("step")
  /\ pc[Life(r)] = "execute"
  /\ step[r] # "setup_email_sent"
  /\ StepFails(r)

\* updateAttemptStep(..., 'succeeded', signal), and on to the next step.
RecordStep(r) ==
  /\ ~aborted[r]
  /\ Goto(Life(r), "record",
          IF step[r] = "activation" THEN "auditSucceeded" ELSE "execute")
  /\ step' = [step EXCEPT ![r] = IF @ = "activation" THEN @ ELSE NextStep[@]]
  /\ WriteStatus("provisioning")
  /\ WriteOutcome(step[r], "succeeded")
  /\ UNCHANGED <<tenant, resourceVars, audit, job, aborted, comp, faults>>

\* The write of the outcome fails: the catch of the step treats it as a
\* failure of the step itself.
RecordStepThrows(r) ==
  /\ ~aborted[r]
  /\ Fault("record")
  /\ Goto(Life(r), "record", "recordFailure")
  /\ UNCHANGED <<attemptVars, tenant, resourceVars, audit, job, runVars, comp>>

\* updateAttemptStep(..., 'failed', signal), whether or not it succeeds; the
\* error it ends in reaches the catch of provisionTenantSchema().
RecordStepFailure(r) ==
  /\ ~aborted[r]
  /\ Goto(Life(r), "recordFailure", "readOutcomes")
  /\ \/ /\ WriteStatus("provisioning")
        /\ WriteOutcome(step[r], "failed")
        /\ UNCHANGED faults
     \/ Fault("record") /\ UNCHANGED attemptVars
  /\ UNCHANGED <<tenant, resourceVars, audit, job, runVars, comp>>

\* finalizeAudit(succeeded): the audit row, then the attempt.  A failure of
\* either is logged and swallowed.
UpsertSucceededAudit(r) ==
  /\ \/ /\ Goto(Life(r), "auditSucceeded", "statusSucceeded")
        /\ audit' = "succeeded"
        /\ UNCHANGED faults
     \/ /\ Fault("audit")
        /\ Goto(Life(r), "auditSucceeded", "resolved")
        /\ UNCHANGED audit
  /\ UNCHANGED <<attemptVars, tenant, resourceVars, job, runVars, comp>>

MarkAttemptSucceeded(r) ==
  /\ ~aborted[r]
  /\ Goto(Life(r), "statusSucceeded", "resolved")
  /\ \/ WriteStatus("succeeded") /\ UNCHANGED faults
     \/ Fault("audit") /\ UNCHANGED attemptStatus
  /\ UNCHANGED <<outcomes, tenant, resourceVars, audit, job, runVars, comp>>

-----------------------------------------------------------------------------
(* handleProvisioningFailure(), run by a lifecycle or by a watch; nothing in *)
(* it looks at the signal, and nothing keeps two of them apart.              *)

\* A sub-step failed: runCompensationSubStep() notes it and goes on.
SubStepFails(p) == comp' = [comp EXCEPT ![p].failed = TRUE]

\* readAttemptStepOutcomes(); when it throws, the handler gives up silently.
ReadStepOutcomes(p) ==
  /\ \/ /\ Goto(p, "readOutcomes", "revokeTokens")
        /\ comp' = [comp EXCEPT ![p] =
                      [schemaCreated |-> outcomes["schema_created"] = "succeeded",
                       admin |-> NoAdmin, failed |-> FALSE]]
        /\ UNCHANGED faults
     \/ /\ Fault("compensation")
        /\ Goto(p, "readOutcomes", "rejected")
        /\ UNCHANGED comp
  /\ UNCHANGED <<attemptVars, tenant, resourceVars, audit, job, runVars>>

\* SetupLinkService.revokeAll().
RevokeSetupTokens(p) ==
  /\ Goto(p, "revokeTokens", "readAdmin")
  /\ \/ setupToken' = FALSE /\ UNCHANGED <<comp, faults>>
     \/ Fault("compensation") /\ SubStepFails(p) /\ UNCHANGED setupToken
  /\ UNCHANGED <<attemptVars, tenant, schema, admin, audit, job, runVars>>

\* FirstAdminService.deactivate() reads the First Admin outside the
\* transaction that deletes it...
ReadFirstAdmin(p) ==
  /\ Goto(p, "readAdmin", "deleteAdmin")
  /\ comp' = [comp EXCEPT ![p].admin = admin]
  /\ UNCHANGED <<attemptVars, tenant, resourceVars, audit, job, runVars, faults>>

\* ...which fails when the row it read is gone.
DeleteFirstAdmin(p) ==
  /\ Goto(p, "deleteAdmin", "dropSchema")
  /\ \/ /\ comp[p].admin \in {NoAdmin, admin}
        /\ admin' = IF comp[p].admin = admin THEN NoAdmin ELSE admin
        /\ UNCHANGED <<comp, faults>>
     \/ /\ comp[p].admin \notin {NoAdmin, admin}
        /\ SubStepFails(p)
        /\ UNCHANGED <<admin, faults>>
     \/ /\ Fault("compensation")
        /\ SubStepFails(p)
        /\ UNCHANGED admin
  /\ UNCHANGED <<attemptVars, tenant, schema, setupToken, audit, job, runVars>>

\* DROP SCHEMA IF EXISTS ... CASCADE, skipped when the attempt does not say
\* that the schema was created.  The tenant is marked next, unless some
\* sub-step failed.
DropTenantSchema(p) ==
  /\ \/ /\ Goto(p, "dropSchema",
                IF comp[p].failed THEN "auditFailed" ELSE "markFailed")
        /\ schema' = IF comp[p].schemaCreated THEN {} ELSE schema
        /\ UNCHANGED <<comp, faults>>
     \/ /\ comp[p].schemaCreated
        /\ Fault("compensation")
        /\ Goto(p, "dropSchema", "auditFailed")
        /\ SubStepFails(p)
        /\ UNCHANGED schema
  /\ UNCHANGED <<attemptVars, tenant, admin, setupToken, audit, job, runVars>>

\* markTenantFailed() swallows its own failure.
MarkTenantFailed(p) ==
  /\ Goto(p, "markFailed", "auditFailed")
  /\ \/ tenant' = "FAILED" /\ UNCHANGED faults
     \/ Fault("compensation") /\ UNCHANGED tenant
  /\ UNCHANGED <<attemptVars, resourceVars, audit, job, runVars, comp>>

\* finalizeAudit(): the audit row, then the attempt; it swallows failures.
UpsertFailedAudit(p) ==
  /\ \/ /\ Goto(p, "auditFailed", "statusFailed")
        /\ audit' = FailureStatus(p)
        /\ UNCHANGED faults
     \/ /\ Goto(p, "auditFailed", "rejected")
        /\ Fault("audit")
        /\ UNCHANGED audit
  /\ UNCHANGED <<attemptVars, tenant, resourceVars, job, runVars, comp>>

\* A mutant: the attempt row is left to the retry.
MarkAttemptNothing(p) ==
  /\ Goto(p, "statusFailed", "rejected")
  /\ UNCHANGED <<attemptVars, tenant, resourceVars, audit, job, runVars, comp,
                 faults>>

MarkAttemptFailed(p) ==
  /\ Goto(p, "statusFailed", "rejected")
  /\ \/ WriteStatus(FailureStatus(p)) /\ UNCHANGED faults
     \/ Fault("audit") /\ UNCHANGED attemptStatus
  /\ UNCHANGED <<outcomes, tenant, resourceVars, audit, job, runVars, comp>>

-----------------------------------------------------------------------------
(* The watch: TenantProvisioningWorker.process() *)

\* The timer wins the race: the signal is raised first.  It can do so even
\* when the last call of the lifecycle has taken effect, for as long as the
\* reply is on its way.
Timeout(r) ==
  /\ Fault("timeout")
  /\ Goto(Watch(r), "racing", "recordTimeout")
  /\ aborted' = [aborted EXCEPT ![r] = TRUE]
  /\ UNCHANGED <<attemptVars, tenant, resourceVars, audit, job, step, comp>>

\* recordProvisioningTimeout(): the attempt is failed whatever it was...
RecordTimeout(r) ==
  /\ \/ /\ Goto(Watch(r), "recordTimeout", "findTimedOut")
        /\ WriteStatus("failed")
        /\ UNCHANGED faults
     \/ /\ Goto(Watch(r), "recordTimeout", "rejected")
        /\ Fault("record")
        /\ UNCHANGED attemptStatus
  /\ UNCHANGED <<outcomes, tenant, resourceVars, audit, job, runVars, comp>>

\* ...then compensated if a tenant is linked to it, and only audited if not.
FindTimedOutTenant(r) ==
  /\ Goto(Watch(r), "findTimedOut",
          IF tenant = "none" THEN "auditFailed" ELSE "readOutcomes")
  /\ comp' = [comp EXCEPT ![Watch(r)] = FreshCompensation]
  /\ UNCHANGED <<attemptVars, tenant, resourceVars, audit, job, runVars, faults>>

-----------------------------------------------------------------------------
(* The specification *)

Compensate(p) ==
  \/ ReadStepOutcomes(p)  \/ RevokeSetupTokens(p) \/ ReadFirstAdmin(p)
  \/ DeleteFirstAdmin(p)  \/ DropTenantSchema(p)  \/ MarkTenantFailed(p)
  \/ UpsertFailedAudit(p) \/ MarkAttemptFailed(p)

StartLifecycle(r) ==
  \/ FindLinkedTenant(r)      \/ ReadAttemptStatus(r)
  \/ ResetAttemptStatus(r)    \/ RecordResumedTenant(r)
  \/ ClaimAttempt(r)          \/ ReadSafePayload(r)
  \/ CreateOrResolveTenant(r) \/ RecordCreatedTenant(r)
  \/ RecordTenantCreationFailure(r)

ProvisionTenantSchema(r) ==
  \/ CreateTenantSchema(r)   \/ BootstrapTenantSchema(r)
  \/ BootstrapTenantSeed(r)  \/ AssignFirstAdmin(r)
  \/ GenerateSetupLink(r)    \/ SendBackupEmail(r)
  \/ Activation(r)           \/ StepThrows(r)
  \/ RecordStep(r)           \/ RecordStepThrows(r)
  \/ RecordStepFailure(r)    \/ UpsertSucceededAudit(r)
  \/ MarkAttemptSucceeded(r)

LifeStep(r) ==
  StartLifecycle(r) \/ ProvisionTenantSchema(r) \/ Cancel(r) \/ Compensate(Life(r))

WatchStep(r) ==
  RecordTimeout(r) \/ FindTimedOutTenant(r) \/ Compensate(Watch(r))

QueueStep(r) == CompleteJob(r) \/ RejectJob(r)

\* The job is over and no process of it is left running.
AtRest ==
  /\ job.state \in {"completed", "failed"}
  /\ \A r \in Runs : pc[Life(r)] \in Finished

Rest == AtRest /\ UNCHANGED vars

Next ==
  \/ StartRun
  \/ \E r \in Runs : LifeStep(r) \/ WatchStep(r) \/ QueueStep(r)
                     \/ Timeout(r) \/ Crash(r)
  \/ Rest

\* Every pending database call returns, and BullMQ serves its queue: nothing
\* else is assumed.  Timers and crashes need not happen.
Fairness ==
  /\ WF_vars(StartRun)
  /\ \A r \in Runs : WF_vars(LifeStep(r)) /\ WF_vars(WatchStep(r))
                     /\ WF_vars(QueueStep(r))

Spec == Init /\ [][Next]_vars
FairSpec == Spec /\ Fairness

-----------------------------------------------------------------------------
TypeOK ==
  /\ attemptStatus \in AttemptStatuses
  /\ outcomes \in [RecordedSteps -> {"none", "succeeded", "failed"}]
  /\ tenant \in TenantStatuses
  /\ schema \in SUBSET SchemaParts
  /\ admin \in {NoAdmin} \union Runs
  /\ setupToken \in BOOLEAN
  /\ audit \in {NoAudit} \union Terminal
  /\ job \in Jobs
  /\ pc \in [Procs -> PCs]
  /\ step \in [Runs -> Steps]
  /\ aborted \in [Runs -> BOOLEAN]
  /\ comp \in [Procs -> Compensations]
  /\ faults \in FaultWorlds

-----------------------------------------------------------------------------
(* What onboarding owes its callers *)

\* The worlds in which nothing but this goes wrong.
OnlyStepsFail == faults.kinds \subseteq {"step", "create"}
NoRunTimesOut == faults.kinds \subseteq {"step", "crash", "compensation", "audit"}
StepsFailOrTimeOut == faults.kinds \subseteq {"timeout", "step"}

Provisioned == schema = SchemaParts /\ admin # NoAdmin
NothingLeft == schema = {} /\ admin = NoAdmin /\ ~setupToken

(* An attempt that says "succeeded" had its tenant activated: whatever times *)
(* out, fails or crashes, no interleaving of lifecycles, watches and retries *)
(* finalizes the success of an attempt whose activation() did not commit.    *)
SucceededMeansActivated ==
  attemptStatus = "succeeded" => tenant \in {"ACTIVE", "FAILED"}

(* ...and, unless compensation itself fails, the attempt kept the outcome of *)
(* the activation: its write is not dropped behind a terminal status.        *)
SucceededMeansRecorded ==
  StepsFailOrTimeOut /\ attemptStatus = "succeeded"
    => outcomes["activation"] = "succeeded"

(* createOrResolveTenant() never finds a tenant: claimAttempt() lets one run *)
(* on the path that creates, and a resumed run does not take it.  So no      *)
(* attempt ever gets a second tenant row, and the branch that resolves a     *)
(* unique violation to the attempt's own tenant is dead code.                *)
InsertFindsNoTenant ==
  \A r \in Runs : pc[Life(r)] = "insert" => tenant = "none"

(* When everything has come to rest, an attempt that says "succeeded" has an *)
(* ACTIVE tenant: a compensation that fails the tenant after its activation  *)
(* takes the success back.                                                   *)
SucceededAtRestIsActive ==
  StepsFailOrTimeOut /\ AtRest /\ attemptStatus = "succeeded"
    => tenant = "ACTIVE"

(* A FAILED tenant is never revived: the fence of activation() holds against *)
(* retries and against the lifecycle of a run that timed out.                *)
FailedTenantStaysFailed ==
  [][tenant = "FAILED" => tenant' = "FAILED"]_vars

(* An ACTIVE tenant that is left alone has its whole schema and its First    *)
(* Admin: stale steps of a timed-out run and overlapping compensations never *)
(* leave an active tenant with a part missing.                               *)
ActiveTenantIsProvisioned ==
  StepsFailOrTimeOut /\ AtRest /\ tenant = "ACTIVE" => Provisioned

(* ...and its attempt says so.                                               *)
ActiveTenantIsReported ==
  StepsFailOrTimeOut /\ AtRest /\ tenant = "ACTIVE"
    => attemptStatus = "succeeded"

(* Once recordProvisioningTimeout() has failed the attempt, the lifecycle of *)
(* that run activates nothing: the attempt's status is the final fence, even *)
(* for an UPDATE sent before the signal and even after a retry has begun.    *)
TimeoutRecorded(r) ==
  aborted[r] /\ pc[Watch(r)] \notin {"racing", "recordTimeout"}
TimedOutRunNeverActivates ==
  [][\A r \in Runs :
       StepsFailOrTimeOut /\ TimeoutRecorded(r) /\ AtStep(r, "activation") /\ tenant # "ACTIVE"
         => ~(pc'[Life(r)] = "record" /\ tenant' = "ACTIVE")]_vars

(* Steps that fail leave no schema, First Admin or setup token behind unless *)
(* the attempt asks an operator to clean up.                                 *)
LeftoversAreReported ==
  OnlyStepsFail /\ AtRest /\ tenant # "ACTIVE" /\ ~NothingLeft
    => attemptStatus = "failed-needs-manual-cleanup"

(* Steps that fail never leave a tenant in PROVISIONING.                     *)
NoTenantLeftProvisioning ==
  OnlyStepsFail /\ AtRest => tenant # "PROVISIONING"

(* The audit row agrees with the attempt it is about, through crashes,       *)
(* failed compensations and lost audit writes, as long as no run times out.  *)
AuditAgrees ==
  NoRunTimesOut /\ AtRest /\ attemptStatus \in Terminal
    => audit = attemptStatus

(* An attempt that needs manual cleanup waits for its operator: neither a    *)
(* retry nor a compensation takes it out of that status.                     *)
ManualCleanupIsFinal ==
  [][NoRunTimesOut /\ attemptStatus = "failed-needs-manual-cleanup"
       => attemptStatus' = "failed-needs-manual-cleanup"]_vars

(* Whatever times out, fails or crashes, the job ends: process() never stays *)
(* pending and BullMQ's retries run out.                                     *)
JobSettles == <>[](job.state \in {"completed", "failed"})

(* When only steps fail, the attempt ends in a terminal status.              *)
AttemptSettles ==
  OnlyStepsFail => <>[](attemptStatus \in Terminal)

-----------------------------------------------------------------------------
(* What the runs check: the properties above, by what they are about *)

(* One attempt makes at most one tenant, and "succeeded" is written by an    *)
(* activation that committed, never by anything else.                        *)
OneTenantOneActivation ==
  /\ SucceededMeansActivated
  /\ InsertFindsNoTenant

(* What an attempt and its tenant say when nothing is under way any more is  *)
(* what there is, a schema, a First Admin, an activation; and what a failed  *)
(* run leaves behind is reported to an operator.                             *)
OutcomesAreTrue ==
  /\ SucceededMeansRecorded
  /\ SucceededAtRestIsActive
  /\ ActiveTenantIsProvisioned
  /\ ActiveTenantIsReported
  /\ LeftoversAreReported
  /\ NoTenantLeftProvisioning
  /\ AuditAgrees

(* Three decisions that overlapping runs may not undo: a tenant FAILED, a    *)
(* run timed out, an attempt handed to an operator.                          *)
DecisionsStand ==
  /\ FailedTenantStaysFailed
  /\ TimedOutRunNeverActivates
  /\ ManualCleanupIsFinal

(* The job ends whatever happens, and its attempt with it if only steps fail. *)
EverythingSettles ==
  /\ JobSettles
  /\ AttemptSettles

=============================================================================
