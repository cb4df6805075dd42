--------------------- MODULE TenantProvisioningProofs ---------------------
(***************************************************************************)
(* What TenantProvisioning guarantees for every number of retries and of   *)
(* stalls, and for every set of faults.                                    *)
(***************************************************************************)
EXTENDS TenantProvisioning, TLAPS

(* A run of the job and the job agree: the runs that were started are those *)
(* the retries and the stalls account for, only the current run of an      *)
(* active job has a watch that still has something to do, and a lifecycle   *)
(* starts and dies with its watch.                                          *)
JobAccounts ==
  /\ job.state \in {"queued", "active"} =>
       job.made < RetryCount /\ job.stalls <= MaxStalls
  /\ job.state = "queued" => job.run = job.made + job.stalls
  /\ job.state = "active" => job.run = job.made + job.stalls + 1
OneWatch ==
  \A r \in Runs :
    /\ r > job.run => pc[Watch(r)] = "idle"
    /\ pc[Watch(r)] \notin {"idle", "settled", "dead"} =>
         job.state = "active" /\ job.run = r
    /\ pc[Watch(r)] \in {"idle", "dead"} => pc[Life(r)] = pc[Watch(r)]
QueueInv == JobAccounts /\ OneWatch

TypeInv == TypeOK /\ QueueInv

-----------------------------------------------------------------------------
LEMMA ProcsLemma ==
  \A r \in Runs : Life(r) \in Procs /\ Watch(r) \in Procs /\ Life(r) # Watch(r)
BY DEF Procs, Life, Watch

\* A disturbance stays within the bound on disturbances.
LEMMA FaultType ==
  ASSUME faults \in FaultWorlds, NEW kind, Fault(kind)
  PROVE  faults' \in FaultWorlds
BY DEF Fault, FaultWorlds

LEMMA TypeInit == Init => TypeInv
<1> SUFFICES ASSUME Init PROVE TypeInv
  OBVIOUS
<1>1. job \in Jobs /\ faults \in FaultWorlds
  BY ConstantsAssumption DEF Init, Jobs
<1>2. outcomes \in [RecordedSteps -> {"none", "succeeded", "failed"}]
  BY DEF Init
<1>3. pc \in [Procs -> PCs] /\ step \in [Runs -> Steps]
  BY DEF Init, PCs, LifePCs, Steps
<1>4. aborted \in [Runs -> BOOLEAN] /\ comp \in [Procs -> Compensations]
  BY DEF Init, Compensations, FreshCompensation
<1>5. TypeOK
  BY <1>1, <1>2, <1>3, <1>4
  DEF Init, TypeOK, AttemptStatuses, TenantStatuses, NoAdmin, NoAudit
<1>6. JobAccounts
  BY ConstantsAssumption DEF Init, JobAccounts
<1>7. OneWatch
  BY ProcsLemma DEF Init, OneWatch
<1>8. QED
  BY <1>5, <1>6, <1>7 DEF TypeInv, QueueInv

(* Every step of a lifecycle's start keeps the variables in their types.     *)
LEMMA StartLifecycleType ==
  ASSUME TypeOK, NEW r \in Runs, StartLifecycle(r)
  PROVE  TypeOK'
<1> USE ProcsLemma, FaultType
    DEF TypeOK, Goto, PCs, LifePCs, attemptVars, resourceVars, runVars
<1>1. CASE FindLinkedTenant(r)
  BY <1>1 DEF FindLinkedTenant
<1>2. CASE ReadAttemptStatus(r)
  BY <1>2 DEF ReadAttemptStatus
<1>3. CASE ResetAttemptStatus(r)
  BY <1>3 DEF ResetAttemptStatus, AttemptStatuses
<1>4. CASE RecordResumedTenant(r)
  BY <1>4 DEF RecordResumedTenant, Unless, WriteStatus, AttemptStatuses, Steps
<1>5. CASE ClaimAttempt(r)
  BY <1>5 DEF ClaimAttempt, AttemptStatuses
<1>6. CASE ReadSafePayload(r)
  BY <1>6 DEF ReadSafePayload, Unless
<1>7. CASE CreateOrResolveTenant(r)
  BY <1>7 DEF CreateOrResolveTenant, Unless, TenantStatuses
<1>8. CASE RecordCreatedTenant(r)
  BY <1>8 DEF RecordCreatedTenant, Unless, WriteStatus, AttemptStatuses, Steps
<1>9. CASE RecordTenantCreationFailure(r)
  BY <1>9 DEF RecordTenantCreationFailure, WriteStatus, AttemptStatuses
<1>10. QED
  BY <1>1, <1>2, <1>3, <1>4, <1>5, <1>6, <1>7, <1>8, <1>9 DEF StartLifecycle

(* So does every step of provisionTenantSchema().                            *)
LEMMA ProvisionTenantSchemaType ==
  ASSUME TypeOK, NEW r \in Runs, ProvisionTenantSchema(r)
  PROVE  TypeOK'
<1> USE ProcsLemma, FaultType
    DEF TypeOK, Goto, PCs, LifePCs, StepReturns, StepFails, attemptVars,
        resourceVars, runVars
<1>1. CASE CreateTenantSchema(r)
  BY <1>1 DEF CreateTenantSchema, SchemaParts
<1>2. CASE BootstrapTenantSchema(r)
  BY <1>2 DEF BootstrapTenantSchema, FillTenantSchema, SchemaParts
<1>3. CASE BootstrapTenantSeed(r)
  BY <1>3 DEF BootstrapTenantSeed, FillTenantSchema, SchemaParts
<1>4. CASE AssignFirstAdmin(r)
  BY <1>4 DEF AssignFirstAdmin
<1>5. CASE GenerateSetupLink(r)
  BY <1>5 DEF GenerateSetupLink
<1>6. CASE SendBackupEmail(r)
  <2>1. NextStep[step[r]] \in Steps
    BY <1>6 DEF SendBackupEmail, AtStep, NextStep, Steps
  <2>2. attemptStatus' \in AttemptStatuses
    BY <1>6 DEF SendBackupEmail, WriteStatus, AttemptStatuses
  <2>3. QED
    BY <1>6, <2>1, <2>2 DEF SendBackupEmail
<1>7. CASE Activation(r)
  BY <1>7 DEF Activation, TenantStatuses
<1>8. CASE StepThrows(r)
  BY <1>8 DEF StepThrows
<1>9. CASE RecordStep(r)
  <2>1. step[r] # "activation" => NextStep[step[r]] \in Steps
    BY DEF NextStep, Steps
  <2>2. step' \in [Runs -> Steps]
    BY <1>9, <2>1 DEF RecordStep
  <2>3. outcomes' \in [RecordedSteps -> {"none", "succeeded", "failed"}]
    BY <1>9 DEF RecordStep, WriteOutcome
  <2>4. attemptStatus' \in AttemptStatuses
    BY <1>9 DEF RecordStep, WriteStatus, AttemptStatuses
  <2>5. pc' \in [Procs -> PCs]
    BY <1>9 DEF RecordStep
  <2>6. QED
    BY <1>9, <2>2, <2>3, <2>4, <2>5 DEF RecordStep
<1>10. CASE RecordStepThrows(r)
  BY <1>10 DEF RecordStepThrows
<1>11. CASE RecordStepFailure(r)
  BY <1>11 DEF RecordStepFailure, CompensationPCs, WriteStatus, WriteOutcome,
               AttemptStatuses
<1>12. CASE UpsertSucceededAudit(r)
  BY <1>12 DEF UpsertSucceededAudit, Terminal
<1>13. CASE MarkAttemptSucceeded(r)
  BY <1>13 DEF MarkAttemptSucceeded, WriteStatus, AttemptStatuses
<1>14. QED
  BY <1>1, <1>2, <1>3, <1>4, <1>5, <1>6, <1>7, <1>8, <1>9, <1>10, <1>11,
     <1>12, <1>13
  DEF ProvisionTenantSchema

\* A failed sub-step changes nothing but the flag of its compensation.
LEMMA SubStepType ==
  ASSUME comp \in [Procs -> Compensations], NEW p \in Procs, SubStepFails(p)
  PROVE  comp' \in [Procs -> Compensations]
BY DEF SubStepFails, Compensations

(* So does every step of a compensation, whoever runs it.                    *)
LEMMA CompensateType ==
  ASSUME TypeOK, NEW p \in Procs, Compensate(p)
  PROVE  TypeOK'
<1> USE FaultType, SubStepType DEF TypeOK, Goto, PCs, CompensationPCs, attemptVars,
            resourceVars, runVars
<1>1. CASE ReadStepOutcomes(p)
  <2> DEFINE found == outcomes["schema_created"] = "succeeded"
  <2>0. [schemaCreated |-> found, admin |-> NoAdmin, failed |-> FALSE]
          \in Compensations
    BY Zenon DEF Compensations
  <2>1. comp' \in [Procs -> Compensations]
    BY <1>1, <2>0 DEF ReadStepOutcomes
  <2>2. faults' \in FaultWorlds /\ pc' \in [Procs -> PCs]
    BY <1>1 DEF ReadStepOutcomes
  <2>3. QED
    BY <1>1, <2>1, <2>2 DEF ReadStepOutcomes
<1>2. CASE RevokeSetupTokens(p)
  BY <1>2 DEF RevokeSetupTokens
<1>3. CASE ReadFirstAdmin(p)
  BY <1>3 DEF ReadFirstAdmin, Compensations
<1>4. CASE DeleteFirstAdmin(p)
  BY <1>4 DEF DeleteFirstAdmin
<1>5. CASE DropTenantSchema(p)
  <2>1. comp' \in [Procs -> Compensations]
    BY <1>5 DEF DropTenantSchema
  <2>2. schema' \subseteq SchemaParts
    BY <1>5 DEF DropTenantSchema
  <2>3. faults' \in FaultWorlds /\ pc' \in [Procs -> PCs]
    BY <1>5 DEF DropTenantSchema
  <2>4. QED
    BY <1>5, <2>1, <2>2, <2>3 DEF DropTenantSchema
<1>6. CASE MarkTenantFailed(p)
  BY <1>6 DEF MarkTenantFailed, TenantStatuses
<1>7. CASE UpsertFailedAudit(p)
  BY <1>7 DEF UpsertFailedAudit, FailureStatus, Terminal
<1>8. CASE MarkAttemptFailed(p)
  BY <1>8 DEF MarkAttemptFailed, FailureStatus, WriteStatus, AttemptStatuses
<1>9. QED
  BY <1>1, <1>2, <1>3, <1>4, <1>5, <1>6, <1>7, <1>8 DEF Compensate

(* So does every step of a watch.                                            *)
LEMMA WatchStepType ==
  ASSUME TypeOK, NEW r \in Runs, WatchStep(r)
  PROVE  TypeOK'
<1>1. CASE RecordTimeout(r)
  BY <1>1, ProcsLemma, FaultType
  DEF TypeOK, RecordTimeout, Goto, PCs, WatchPCs, WriteStatus, AttemptStatuses,
      attemptVars, resourceVars, runVars
<1>2. CASE FindTimedOutTenant(r)
  <2>1. FreshCompensation \in Compensations
    BY DEF FreshCompensation, Compensations
  <2>2. QED
    BY <1>2, <2>1, ProcsLemma
    DEF TypeOK, FindTimedOutTenant, Goto, PCs, CompensationPCs, attemptVars,
        resourceVars, runVars
<1>3. CASE Compensate(Watch(r))
  BY <1>3, ProcsLemma, CompensateType
<1>4. QED
  BY <1>1, <1>2, <1>3 DEF WatchStep

(* And so does every step of a lifecycle.                                    *)
LEMMA LifeStepType ==
  ASSUME TypeOK, NEW r \in Runs, LifeStep(r)
  PROVE  TypeOK'
<1>1. CASE Cancel(r)
  BY <1>1, ProcsLemma
  DEF TypeOK, Cancel, PCs, LifePCs, attemptVars, resourceVars, runVars
<1>2. QED
  BY <1>1, ProcsLemma, StartLifecycleType, ProvisionTenantSchemaType,
     CompensateType
  DEF LifeStep

-----------------------------------------------------------------------------
(* Which processes a step moves                                              *)

\* A compensation moves its own process only, and never starts or kills it.
LEMMA CompensateMoves ==
  ASSUME TypeOK, NEW p \in Procs, Compensate(p)
  PROVE  /\ job' = job
         /\ \A q \in Procs \ {p} : pc'[q] = pc[q]
         /\ pc[p] \in CompensationPCs
         /\ pc'[p] \in CompensationPCs \union {"rejected"}
BY DEF TypeOK, Compensate, CompensationPCs, Goto, ReadStepOutcomes,
       RevokeSetupTokens, ReadFirstAdmin, DeleteFirstAdmin, DropTenantSchema,
       MarkTenantFailed, UpsertFailedAudit, MarkAttemptFailed

LEMMA StartLifecycleMoves ==
  ASSUME TypeOK, NEW r \in Runs, StartLifecycle(r)
  PROVE  /\ job' = job
         /\ \A q \in Procs \ {Life(r)} : pc'[q] = pc[q]
         /\ {pc[Life(r)], pc'[Life(r)]} \intersect {"idle", "dead"} = {}
<1> USE ProcsLemma DEF TypeOK, Goto, Unless
<1>1. CASE FindLinkedTenant(r) \/ ReadAttemptStatus(r) \/ ResetAttemptStatus(r)
  BY <1>1 DEF FindLinkedTenant, ReadAttemptStatus, ResetAttemptStatus
<1>2. CASE RecordResumedTenant(r) \/ ClaimAttempt(r) \/ ReadSafePayload(r)
  BY <1>2 DEF RecordResumedTenant, ClaimAttempt, ReadSafePayload
<1>3. CASE \/ CreateOrResolveTenant(r) \/ RecordCreatedTenant(r)
           \/ RecordTenantCreationFailure(r)
  BY <1>3 DEF CreateOrResolveTenant, RecordCreatedTenant,
              RecordTenantCreationFailure
<1>4. QED
  BY <1>1, <1>2, <1>3 DEF StartLifecycle

LEMMA ProvisionTenantSchemaMoves ==
  ASSUME TypeOK, NEW r \in Runs, ProvisionTenantSchema(r)
  PROVE  /\ job' = job
         /\ \A q \in Procs \ {Life(r)} : pc'[q] = pc[q]
         /\ {pc[Life(r)], pc'[Life(r)]} \intersect {"idle", "dead"} = {}
<1> USE ProcsLemma DEF TypeOK, Goto, AtStep, StepReturns, StepFails
<1>1. CASE \/ CreateTenantSchema(r) \/ BootstrapTenantSchema(r)
           \/ BootstrapTenantSeed(r) \/ AssignFirstAdmin(r)
  BY <1>1 DEF CreateTenantSchema, BootstrapTenantSchema, BootstrapTenantSeed,
              FillTenantSchema, AssignFirstAdmin
<1>2. CASE \/ GenerateSetupLink(r) \/ SendBackupEmail(r) \/ Activation(r)
           \/ StepThrows(r)
  BY <1>2 DEF GenerateSetupLink, SendBackupEmail, Activation, StepThrows
<1>3. CASE \/ RecordStep(r) \/ RecordStepThrows(r) \/ RecordStepFailure(r)
           \/ UpsertSucceededAudit(r) \/ MarkAttemptSucceeded(r)
  BY <1>3 DEF RecordStep, RecordStepThrows, RecordStepFailure,
              UpsertSucceededAudit, MarkAttemptSucceeded
<1>4. QED
  BY <1>1, <1>2, <1>3 DEF ProvisionTenantSchema

\* A lifecycle moves itself only, after it was started and until it dies.
LEMMA LifeMoves ==
  ASSUME TypeOK, NEW r \in Runs, LifeStep(r)
  PROVE  /\ job' = job
         /\ \A q \in Procs \ {Life(r)} : pc'[q] = pc[q]
         /\ {pc[Life(r)], pc'[Life(r)]} \intersect {"idle", "dead"} = {}
<1>1. CASE Cancel(r)
  BY <1>1, ProcsLemma DEF TypeOK, Cancel, Fenced
<1>2. CASE Compensate(Life(r))
  BY <1>2, ProcsLemma, CompensateMoves DEF CompensationPCs
<1>3. QED
  BY <1>1, <1>2, StartLifecycleMoves, ProvisionTenantSchemaMoves DEF LifeStep

\* A watch moves itself only, and is at work before and after.
LEMMA WatchMoves ==
  ASSUME TypeOK, NEW r \in Runs, WatchStep(r)
  PROVE  /\ job' = job
         /\ \A q \in Procs \ {Watch(r)} : pc'[q] = pc[q]
         /\ {pc[Watch(r)], pc'[Watch(r)]} \intersect {"idle", "settled", "dead"} = {}
<1>1. CASE RecordTimeout(r) \/ FindTimedOutTenant(r)
  BY <1>1, ProcsLemma DEF TypeOK, RecordTimeout, FindTimedOutTenant, Goto
<1>2. CASE Compensate(Watch(r))
  BY <1>2, ProcsLemma, CompensateMoves DEF CompensationPCs
<1>3. QED
  BY <1>1, <1>2 DEF WatchStep

-----------------------------------------------------------------------------
(* The steps of the queue.  Each proves the type of what it changes and that *)
(* the accounts of the job still hold.                                       *)

LEMMA StartRunInv == ASSUME TypeInv, StartRun PROVE TypeInv'
<1> DEFINE r == job.run + 1
<1>1. /\ job.state = "queued" /\ r \in Runs /\ r > job.run
      /\ job' = [job EXCEPT !.state = "active", !.run = r]
  BY ConstantsAssumption
  DEF TypeInv, TypeOK, QueueInv, JobAccounts, StartRun, Jobs, Runs
<1>2. job' \in Jobs /\ JobAccounts'
  <2>1. /\ job'.state = "active" /\ job'.run = job.run + 1
        /\ job'.made = job.made /\ job'.stalls = job.stalls
    BY <1>1 DEF TypeInv, TypeOK, Jobs
  <2>2. JobAccounts'
    BY <1>1, <2>1 DEF TypeInv, TypeOK, QueueInv, JobAccounts, Jobs
  <2>3. r \in 0 .. RetryCount + MaxStalls
    BY <1>1, ConstantsAssumption DEF Runs
  <2>4. job' \in Jobs
    BY <1>1, <2>3 DEF TypeInv, TypeOK, Jobs
  <2>5. QED
    BY <2>2, <2>4
<1>3. pc' = [pc EXCEPT ![Life(r)] = "find", ![Watch(r)] = "racing"]
  BY DEF StartRun
<1>4. pc' \in [Procs -> PCs]
  BY <1>1, <1>3, ProcsLemma DEF TypeInv, TypeOK, PCs, LifePCs, WatchPCs
<1>5. TypeOK'
  BY <1>2, <1>4
  DEF StartRun, TypeInv, TypeOK, attemptVars, resourceVars, runVars
<1>6. OneWatch'
  <2> SUFFICES ASSUME NEW q \in Runs
               PROVE  /\ q > job'.run => pc'[Watch(q)] = "idle"
                      /\ pc'[Watch(q)] \notin {"idle", "settled", "dead"} =>
                           job'.state = "active" /\ job'.run = q
                      /\ pc'[Watch(q)] \in {"idle", "dead"} =>
                           pc'[Life(q)] = pc'[Watch(q)]
    BY DEF OneWatch
  <2>1. CASE q = r
    BY <1>1, <1>3, <2>1, ProcsLemma DEF TypeInv, TypeOK, Jobs, Runs
  <2>2. CASE q # r
    <3>1. pc'[Watch(q)] = pc[Watch(q)] /\ pc'[Life(q)] = pc[Life(q)]
      BY <1>1, <1>3, <2>2, ProcsLemma DEF TypeInv, TypeOK, Life, Watch
    <3>2. q > job'.run => q > job.run
      BY <1>1, <2>2 DEF TypeInv, TypeOK, Jobs, Runs
    <3>3. QED
      BY <1>1, <3>1, <3>2 DEF TypeInv, QueueInv, OneWatch
  <2>3. QED
    BY <2>1, <2>2
<1>7. QED
  BY <1>2, <1>5, <1>6 DEF TypeInv, QueueInv

\* The job as a rejected or completed run leaves it.
LEMMA SettleInv ==
  ASSUME TypeInv, NEW r \in Runs, CompleteJob(r) \/ RejectJob(r)
  PROVE  TypeInv'
<1>1. /\ pc[Watch(r)] \in {"racing", "rejected"}
      /\ pc' = [pc EXCEPT ![Watch(r)] = "settled"]
  BY DEF CompleteJob, RejectJob, Goto
<1>2. job.state = "active" /\ job.run = r
  BY <1>1 DEF TypeInv, QueueInv, OneWatch
<1>3. \E state \in {"queued", "completed", "failed"} :
        /\ job' = [job EXCEPT !.state = state, !.made = @ + 1]
        /\ state = "queued" => job.made + 1 < RetryCount
  BY DEF CompleteJob, RejectJob
<1>4. job' \in Jobs /\ JobAccounts' /\ job'.run = job.run
  <2>1. PICK state \in {"queued", "completed", "failed"} :
          /\ job' = [job EXCEPT !.state = state, !.made = @ + 1]
          /\ state = "queued" => job.made + 1 < RetryCount
    BY <1>3
  <2>2. /\ job'.state = state /\ job'.run = job.run
        /\ job'.made = job.made + 1 /\ job'.stalls = job.stalls
    BY <2>1 DEF TypeInv, TypeOK, Jobs
  <2>3. JobAccounts'
    BY <1>2, <2>1, <2>2 DEF TypeInv, TypeOK, QueueInv, JobAccounts, Jobs
  <2>4. job.made + 1 \in 0 .. RetryCount
    BY <1>2, ConstantsAssumption
    DEF TypeInv, TypeOK, QueueInv, JobAccounts, Jobs
  <2>5. job' \in Jobs
    BY <2>1, <2>4 DEF TypeInv, TypeOK, Jobs
  <2>6. QED
    BY <2>2, <2>3, <2>5
<1>5. pc' \in [Procs -> PCs]
  BY <1>1, ProcsLemma DEF TypeInv, TypeOK, PCs, WatchPCs
<1>6. TypeOK'
  BY <1>4, <1>5
  DEF CompleteJob, RejectJob, TypeInv, TypeOK, attemptVars, resourceVars, runVars
<1>7. OneWatch'
  <2> SUFFICES ASSUME NEW q \in Runs
               PROVE  /\ q > job'.run => pc'[Watch(q)] = "idle"
                      /\ pc'[Watch(q)] \notin {"idle", "settled", "dead"} =>
                           job'.state = "active" /\ job'.run = q
                      /\ pc'[Watch(q)] \in {"idle", "dead"} =>
                           pc'[Life(q)] = pc'[Watch(q)]
    BY DEF OneWatch
  <2>1. CASE q = r
    BY <1>1, <1>2, <1>4, <2>1, ProcsLemma DEF TypeInv, TypeOK, Runs
  <2>2. CASE q # r
    <3>1. pc'[Watch(q)] = pc[Watch(q)] /\ pc'[Life(q)] = pc[Life(q)]
      BY <1>1, <2>2, ProcsLemma DEF TypeInv, TypeOK, Life, Watch
    <3>2. QED
      BY <1>2, <1>4, <2>2, <3>1 DEF TypeInv, QueueInv, OneWatch
  <2>3. QED
    BY <2>1, <2>2
<1>8. QED
  BY <1>4, <1>6, <1>7 DEF TypeInv, QueueInv

LEMMA CrashInv == ASSUME TypeInv, NEW r \in Runs, Crash(r) PROVE TypeInv'
<1>1. /\ pc' = [pc EXCEPT ![Life(r)] = "dead", ![Watch(r)] = "dead"]
      /\ pc[Watch(r)] \notin {"idle", "dead"}
  BY DEF TypeInv, QueueInv, OneWatch, Crash, Finished
<1>2. /\ job' \in Jobs /\ JobAccounts' /\ job'.run = job.run
      /\ pc[Watch(r)] = "settled" => job' = job
  <2>1. CASE pc[Watch(r)] = "settled"
    BY <2>1 DEF TypeInv, TypeOK, QueueInv, JobAccounts, Crash
  <2>2. CASE pc[Watch(r)] # "settled"
    <3>1. job.state = "active" /\ job.run = r
      BY <1>1, <2>2 DEF TypeInv, QueueInv, OneWatch
    <3>2. job' = [job EXCEPT
                    !.state = IF job.stalls < MaxStalls THEN "queued" ELSE "failed",
                    !.stalls = @ + 1]
      BY <2>2 DEF Crash
    <3>3. /\ job'.state = IF job.stalls < MaxStalls THEN "queued" ELSE "failed"
          /\ job'.run = job.run /\ job'.made = job.made
          /\ job'.stalls = job.stalls + 1
      BY <3>2 DEF TypeInv, TypeOK, Jobs
    <3>4. JobAccounts'
      BY <3>1, <3>3, ConstantsAssumption
      DEF TypeInv, TypeOK, QueueInv, JobAccounts, Jobs
    <3>5. job.stalls + 1 \in 0 .. MaxStalls + 1
      BY <3>1, ConstantsAssumption
      DEF TypeInv, TypeOK, QueueInv, JobAccounts, Jobs
    <3>6. job' \in Jobs
      BY <3>2, <3>5 DEF TypeInv, TypeOK, Jobs
    <3>7. QED
      BY <2>2, <3>3, <3>4, <3>6
  <2>3. QED
    BY <2>1, <2>2
<1>3. pc' \in [Procs -> PCs]
  BY <1>1, ProcsLemma DEF TypeInv, TypeOK, PCs
<1>4. TypeOK'
  BY <1>2, <1>3, FaultType
  DEF Crash, TypeInv, TypeOK, attemptVars, resourceVars, runVars
<1>5. OneWatch'
  <2> SUFFICES ASSUME NEW q \in Runs
               PROVE  /\ q > job'.run => pc'[Watch(q)] = "idle"
                      /\ pc'[Watch(q)] \notin {"idle", "settled", "dead"} =>
                           job'.state = "active" /\ job'.run = q
                      /\ pc'[Watch(q)] \in {"idle", "dead"} =>
                           pc'[Life(q)] = pc'[Watch(q)]
    BY DEF OneWatch
  <2>1. CASE q = r
    <3>1. pc'[Watch(q)] = "dead" /\ pc'[Life(q)] = "dead"
      BY <1>1, <2>1, ProcsLemma DEF TypeInv, TypeOK
    <3>2. ~(r > job.run)
      BY <1>1 DEF TypeInv, QueueInv, OneWatch
    <3>3. QED
      BY <1>2, <2>1, <3>1, <3>2
  <2>2. CASE q # r
    <3>1. pc'[Watch(q)] = pc[Watch(q)] /\ pc'[Life(q)] = pc[Life(q)]
      BY <1>1, <2>2, ProcsLemma DEF TypeInv, TypeOK, Life, Watch
    <3>2. pc[Watch(r)] = "settled" \/ job.run = r
      BY <1>1 DEF TypeInv, QueueInv, OneWatch
    <3>3. QED
      BY <1>2, <2>2, <3>1, <3>2 DEF TypeInv, QueueInv, OneWatch
  <2>3. QED
    BY <2>1, <2>2
<1>6. QED
  BY <1>2, <1>4, <1>5 DEF TypeInv, QueueInv

LEMMA TimeoutInv == ASSUME TypeInv, NEW r \in Runs, Timeout(r) PROVE TypeInv'
<1>1. TypeOK'
  BY ProcsLemma, FaultType
  DEF TypeInv, TypeOK, Timeout, Goto, PCs, WatchPCs, attemptVars, resourceVars
<1>2. OneWatch'
  BY ProcsLemma DEF TypeInv, TypeOK, QueueInv, OneWatch, Timeout, Goto, Life, Watch
<1>3. QED
  BY <1>1, <1>2 DEF TypeInv, QueueInv, JobAccounts, Timeout

\* A step of a lifecycle or of a watch leaves the job alone.
LEMMA ProcessInv ==
  ASSUME TypeInv, NEW r \in Runs, LifeStep(r) \/ WatchStep(r)
  PROVE  TypeInv'
<1>1. CASE LifeStep(r)
  <2>1. TypeOK'
    BY <1>1, LifeStepType DEF TypeInv
  <2>2. /\ job' = job
        /\ \A q \in Procs \ {Life(r)} : pc'[q] = pc[q]
        /\ {pc[Life(r)], pc'[Life(r)]} \intersect {"idle", "dead"} = {}
    BY <1>1, LifeMoves DEF TypeInv
  <2>3. \A q \in Runs : Watch(q) # Life(r) /\ (q # r => Life(q) # Life(r))
    BY DEF Life, Watch
  <2>4. OneWatch'
    BY <2>2, <2>3, ProcsLemma DEF TypeInv, QueueInv, OneWatch
  <2>5. QED
    BY <2>1, <2>2, <2>4 DEF TypeInv, QueueInv, JobAccounts
<1>2. CASE WatchStep(r)
  <2>1. TypeOK'
    BY <1>2, WatchStepType DEF TypeInv
  <2>2. /\ job' = job
        /\ \A q \in Procs \ {Watch(r)} : pc'[q] = pc[q]
        /\ {pc[Watch(r)], pc'[Watch(r)]} \intersect {"idle", "settled", "dead"} = {}
    BY <1>2, WatchMoves DEF TypeInv
  <2>3. ASSUME NEW q \in Runs
        PROVE  /\ pc'[Life(q)] = pc[Life(q)]
               /\ q # r => pc'[Watch(q)] = pc[Watch(q)]
    BY <2>2, ProcsLemma DEF Life, Watch
  <2>4. OneWatch'
    <3> SUFFICES ASSUME NEW q \in Runs
                 PROVE  /\ q > job.run => pc'[Watch(q)] = "idle"
                        /\ pc'[Watch(q)] \notin {"idle", "settled", "dead"} =>
                             job.state = "active" /\ job.run = q
                        /\ pc'[Watch(q)] \in {"idle", "dead"} =>
                             pc'[Life(q)] = pc'[Watch(q)]
      BY <2>2 DEF OneWatch
    <3>1. /\ q > job.run => pc[Watch(q)] = "idle"
          /\ pc[Watch(q)] \notin {"idle", "settled", "dead"} =>
               job.state = "active" /\ job.run = q
          /\ pc[Watch(q)] \in {"idle", "dead"} => pc[Life(q)] = pc[Watch(q)]
      BY DEF TypeInv, QueueInv, OneWatch
    <3>2. CASE q = r
      BY <2>2, <3>1, <3>2
    <3>3. CASE q # r
      BY <2>3, <3>1, <3>3
    <3>4. QED
      BY <3>2, <3>3
  <2>5. QED
    BY <2>1, <2>2, <2>4 DEF TypeInv, QueueInv, JobAccounts
<1>3. QED
  BY <1>1, <1>2

LEMMA TypeStep == TypeInv /\ [Next]_vars => TypeInv'
<1> SUFFICES ASSUME TypeInv, [Next]_vars PROVE TypeInv'
  OBVIOUS
<1>1. CASE UNCHANGED vars
  BY <1>1 DEF TypeInv, TypeOK, QueueInv, JobAccounts, OneWatch, vars
<1>2. CASE StartRun
  BY <1>2, StartRunInv
<1>3. CASE \E r \in Runs : \/ LifeStep(r) \/ WatchStep(r) \/ QueueStep(r)
                           \/ Timeout(r) \/ Crash(r)
  BY <1>3, ProcessInv, SettleInv, TimeoutInv, CrashInv DEF QueueStep
<1>4. QED
  BY <1>1, <1>2, <1>3 DEF Next, Rest

(* Every behaviour keeps the types.  With them go the accounts of the job:   *)
(* BullMQ never makes more runs than the retries and the stalls allow, and   *)
(* never two at a time that both still have a say in the job.                *)
THEOREM TypeCorrect == Spec => [](TypeOK /\ QueueInv)
<1>1. TypeInv => TypeOK /\ QueueInv
  BY DEF TypeInv
<1>2. QED
  BY <1>1, TypeInit, TypeStep, PTL DEF Spec

-----------------------------------------------------------------------------
(* What a step may do to the tenant row                                      *)

\* Only three statements write it: the insert, for a tenant that is not
\* there, the fenced activation, and the end of a complete compensation.
LEMMA TenantMoves ==
  ASSUME [Next]_vars
  PROVE  \/ tenant' = tenant
         \/ /\ \E r \in Runs : CreateOrResolveTenant(r)
            /\ tenant = "none" /\ tenant' = "PROVISIONING"
         \/ /\ \E r \in Runs : Activation(r)
            /\ tenant # "FAILED" /\ tenant' = "ACTIVE"
         \/ /\ \E p \in Procs : MarkTenantFailed(p)
            /\ tenant' = "FAILED"
<1>1. ASSUME NEW r \in Runs, StartLifecycle(r)
      PROVE  \/ tenant' = tenant
             \/ /\ CreateOrResolveTenant(r)
                /\ tenant = "none" /\ tenant' = "PROVISIONING"
  BY <1>1
  DEF StartLifecycle, FindLinkedTenant, ReadAttemptStatus, ResetAttemptStatus,
      RecordResumedTenant, ClaimAttempt, ReadSafePayload, CreateOrResolveTenant,
      RecordCreatedTenant, RecordTenantCreationFailure
<1>2. ASSUME NEW r \in Runs, ProvisionTenantSchema(r)
      PROVE  \/ tenant' = tenant
             \/ Activation(r) /\ tenant # "FAILED" /\ tenant' = "ACTIVE"
  BY <1>2
  DEF ProvisionTenantSchema, CreateTenantSchema, BootstrapTenantSchema,
      BootstrapTenantSeed, FillTenantSchema, AssignFirstAdmin,
      GenerateSetupLink, SendBackupEmail, Activation, ActivationAllowed,
      StepThrows, StepFails, RecordStep, RecordStepThrows, RecordStepFailure,
      UpsertSucceededAudit, MarkAttemptSucceeded
<1>3. ASSUME NEW p \in Procs, Compensate(p)
      PROVE  \/ tenant' = tenant
             \/ MarkTenantFailed(p) /\ tenant' = "FAILED"
  <2>1. CASE MarkTenantFailed(p)
    BY <2>1 DEF MarkTenantFailed
  <2>2. CASE \/ ReadStepOutcomes(p) \/ RevokeSetupTokens(p) \/ ReadFirstAdmin(p)
             \/ DeleteFirstAdmin(p)
    BY <2>2
    DEF ReadStepOutcomes, RevokeSetupTokens, ReadFirstAdmin, DeleteFirstAdmin
  <2>3. CASE \/ DropTenantSchema(p) \/ UpsertFailedAudit(p)
             \/ MarkAttemptFailed(p)
    BY <2>3 DEF DropTenantSchema, UpsertFailedAudit, MarkAttemptFailed
  <2>4. QED
    BY <1>3, <2>1, <2>2, <2>3 DEF Compensate
<1>4. ASSUME NEW r \in Runs,
             \/ Cancel(r) \/ RecordTimeout(r) \/ FindTimedOutTenant(r)
             \/ QueueStep(r) \/ Timeout(r) \/ Crash(r)
      PROVE  tenant' = tenant
  BY <1>4
  DEF Cancel, RecordTimeout, FindTimedOutTenant, QueueStep, CompleteJob,
      RejectJob, Timeout, Crash
<1>5. CASE StartRun \/ UNCHANGED vars
  BY <1>5 DEF StartRun, vars
<1>6. QED
  BY <1>1, <1>2, <1>3, <1>4, <1>5, ProcsLemma
  DEF Next, Rest, LifeStep, WatchStep

(* A tenant that compensation marked FAILED is never revived: whatever a     *)
(* retry, or the lifecycle of a run that timed out, still has under way, the *)
(* condition of activation()'s UPDATE stops it.                              *)
THEOREM FailedIsFinal == Spec => FailedTenantStaysFailed
<1>1. [Next]_vars => [tenant = "FAILED" => tenant' = "FAILED"]_vars
  BY TenantMoves
<1>2. QED
  BY <1>1, PTL DEF Spec, FailedTenantStaysFailed

-----------------------------------------------------------------------------
(* Success comes after activation                                            *)

\* A tenant whose activation committed, whatever became of it.
Decided == tenant \in {"ACTIVE", "FAILED"}

\* From the activation on, the lifecycle knows that it committed.
PastActivation(r) ==
  \/ pc[Life(r)] \in {"auditSucceeded", "statusSucceeded"}
  \/ pc[Life(r)] = "record" /\ step[r] = "activation"

SuccessInv ==
  /\ SucceededMeansActivated
  /\ \A r \in Runs : PastActivation(r) => Decided

LEMMA DecidedStays == ASSUME [Next]_vars, Decided PROVE Decided'
BY TenantMoves DEF Decided

\* A step that is not of the lifecycle of r leaves its place alone, but for
\* starting and killing it.
LEMMA OthersLeaveLife ==
  ASSUME TypeOK, [Next]_vars, NEW r \in Runs, ~LifeStep(r)
  PROVE  \/ pc'[Life(r)] = pc[Life(r)] /\ step'[r] = step[r]
         \/ pc'[Life(r)] \in {"find", "dead"}
<1>1. ASSUME NEW q \in Runs, q # r, LifeStep(q)
      PROVE  pc'[Life(r)] = pc[Life(r)] /\ step'[r] = step[r]
  <2>1. pc'[Life(r)] = pc[Life(r)]
    BY <1>1, LifeMoves, ProcsLemma DEF Life
  <2>2. CASE Cancel(q) \/ Compensate(Life(q))
    BY <2>1, <2>2
    DEF Cancel, Compensate, ReadStepOutcomes, RevokeSetupTokens, ReadFirstAdmin,
        DeleteFirstAdmin, DropTenantSchema, MarkTenantFailed, UpsertFailedAudit,
        MarkAttemptFailed, runVars
  <2>3. CASE StartLifecycle(q)
    BY <1>1, <2>1, <2>3
    DEF TypeOK, StartLifecycle, FindLinkedTenant, ReadAttemptStatus,
        ResetAttemptStatus, RecordResumedTenant, ClaimAttempt, ReadSafePayload,
        CreateOrResolveTenant, RecordCreatedTenant, RecordTenantCreationFailure,
        runVars
  <2>4. CASE ProvisionTenantSchema(q)
    BY <1>1, <2>1, <2>4
    DEF TypeOK, ProvisionTenantSchema, CreateTenantSchema,
        BootstrapTenantSchema, BootstrapTenantSeed, FillTenantSchema,
        AssignFirstAdmin, GenerateSetupLink, SendBackupEmail, Activation,
        StepThrows, StepReturns, StepFails, RecordStep, RecordStepThrows,
        RecordStepFailure, UpsertSucceededAudit, MarkAttemptSucceeded, runVars
  <2>5. QED
    BY <1>1, <2>2, <2>3, <2>4 DEF LifeStep
<1>2. ASSUME NEW q \in Runs, WatchStep(q)
      PROVE  pc'[Life(r)] = pc[Life(r)] /\ step'[r] = step[r]
  <2>1. pc'[Life(r)] = pc[Life(r)]
    BY <1>2, WatchMoves, ProcsLemma DEF Life, Watch
  <2>2. step' = step
    BY <1>2
    DEF WatchStep, RecordTimeout, FindTimedOutTenant, Compensate,
        ReadStepOutcomes, RevokeSetupTokens, ReadFirstAdmin, DeleteFirstAdmin,
        DropTenantSchema, MarkTenantFailed, UpsertFailedAudit,
        MarkAttemptFailed, runVars
  <2>3. QED
    BY <2>1, <2>2
<1>3. ASSUME NEW q \in Runs, QueueStep(q) \/ Timeout(q)
      PROVE  pc'[Life(r)] = pc[Life(r)] /\ step'[r] = step[r]
  BY <1>3, ProcsLemma
  DEF TypeOK, QueueStep, CompleteJob, RejectJob, Timeout, Goto, Life, Watch,
      runVars
<1>4. ASSUME NEW q \in Runs, Crash(q)
      PROVE  \/ pc'[Life(r)] = pc[Life(r)] /\ step'[r] = step[r]
             \/ pc'[Life(r)] = "dead"
  BY <1>4, ProcsLemma DEF TypeOK, Crash, Life, Watch, runVars
<1>5. CASE StartRun
  <2> DEFINE q == job.run + 1
  <2>1. pc' = [pc EXCEPT ![Life(q)] = "find", ![Watch(q)] = "racing"] /\ step' = step
    BY <1>5 DEF StartRun, runVars
  <2>2. CASE q = r
    BY <2>1, <2>2, ProcsLemma DEF TypeOK
  <2>3. CASE q # r
    BY <2>1, <2>3, ProcsLemma DEF TypeOK, Life, Watch
  <2>4. QED
    BY <2>2, <2>3
<1>6. CASE UNCHANGED vars
  BY <1>6 DEF vars
<1>7. QED
  BY <1>1, <1>2, <1>3, <1>4, <1>5, <1>6 DEF Next, Rest

\* Who moves past activation: activation(), when its UPDATE took effect, and
\* a lifecycle that is past it already.
LEMMA ReachPastActivation ==
  ASSUME TypeOK, [Next]_vars, NEW r \in Runs, PastActivation(r)'
  PROVE  PastActivation(r) \/ tenant' = "ACTIVE"
<1> USE ProcsLemma DEF TypeOK, PastActivation, Goto
<1>1. CASE ~LifeStep(r)
  BY <1>1, OthersLeaveLife
<1>2. CASE StartLifecycle(r)
  BY <1>2
  DEF StartLifecycle, FindLinkedTenant, ReadAttemptStatus, ResetAttemptStatus,
      RecordResumedTenant, ClaimAttempt, ReadSafePayload, CreateOrResolveTenant,
      RecordCreatedTenant, RecordTenantCreationFailure, Unless
<1>3. CASE ProvisionTenantSchema(r)
  <2> USE DEF AtStep, StepReturns, StepFails, runVars
  <2>1. CASE \/ CreateTenantSchema(r) \/ BootstrapTenantSchema(r)
             \/ BootstrapTenantSeed(r) \/ AssignFirstAdmin(r)
             \/ GenerateSetupLink(r) \/ SendBackupEmail(r)
    BY <2>1
    DEF CreateTenantSchema, BootstrapTenantSchema, BootstrapTenantSeed,
        FillTenantSchema, AssignFirstAdmin, GenerateSetupLink, SendBackupEmail
  <2>2. CASE Activation(r)
    BY <2>2 DEF Activation
  <2>3. CASE \/ StepThrows(r) \/ RecordStep(r) \/ RecordStepThrows(r)
             \/ RecordStepFailure(r)
    BY <2>3 DEF StepThrows, RecordStep, RecordStepThrows, RecordStepFailure
  <2>4. CASE UpsertSucceededAudit(r) \/ MarkAttemptSucceeded(r)
    BY <2>4 DEF UpsertSucceededAudit, MarkAttemptSucceeded
  <2>5. QED
    BY <1>3, <2>1, <2>2, <2>3, <2>4 DEF ProvisionTenantSchema
<1>4. CASE Compensate(Life(r)) \/ Cancel(r)
  BY <1>4, CompensateMoves DEF Cancel, CompensationPCs
<1>5. QED
  BY <1>1, <1>2, <1>3, <1>4 DEF LifeStep

\* Only the end of a lifecycle makes an attempt succeeded, and nothing makes
\* it accepted again.
LEMMA StatusMoves ==
  ASSUME [Next]_vars, attemptStatus' # attemptStatus
  PROVE  /\ attemptStatus' # "accepted"
         /\ attemptStatus' = "succeeded" =>
              \E r \in Runs : MarkAttemptSucceeded(r)
         /\ attemptStatus = "accepted" =>
              \/ \E r \in Runs : LifeStep(r) /\ ~Cancel(r)
              \/ \E r \in Runs : WatchStep(r)
<1> USE DEF WriteStatus
<1>1. ASSUME NEW r \in Runs, StartLifecycle(r)
      PROVE  attemptStatus' \in {attemptStatus, "provisioning", "failed"}
  BY <1>1
  DEF StartLifecycle, FindLinkedTenant, ReadAttemptStatus, ResetAttemptStatus,
      RecordResumedTenant, ClaimAttempt, ReadSafePayload, CreateOrResolveTenant,
      RecordCreatedTenant, RecordTenantCreationFailure, attemptVars
<1>2. ASSUME NEW r \in Runs, ProvisionTenantSchema(r)
      PROVE  \/ attemptStatus' \in {attemptStatus, "provisioning"}
             \/ MarkAttemptSucceeded(r) /\ attemptStatus' = "succeeded"
  <2>1. CASE \/ CreateTenantSchema(r) \/ BootstrapTenantSchema(r)
             \/ BootstrapTenantSeed(r) \/ AssignFirstAdmin(r)
             \/ GenerateSetupLink(r) \/ SendBackupEmail(r)
    BY <2>1
    DEF CreateTenantSchema, BootstrapTenantSchema, BootstrapTenantSeed,
        FillTenantSchema, AssignFirstAdmin, GenerateSetupLink, SendBackupEmail,
        StepReturns, StepFails, attemptVars
  <2>2. CASE \/ Activation(r) \/ StepThrows(r) \/ RecordStep(r)
             \/ RecordStepThrows(r) \/ RecordStepFailure(r)
             \/ UpsertSucceededAudit(r)
    BY <2>2
    DEF Activation, StepThrows, StepReturns, StepFails, RecordStep,
        RecordStepThrows, RecordStepFailure, UpsertSucceededAudit, attemptVars
  <2>3. CASE MarkAttemptSucceeded(r)
    BY <2>3 DEF MarkAttemptSucceeded
  <2>4. QED
    BY <1>2, <2>1, <2>2, <2>3 DEF ProvisionTenantSchema
<1>3. ASSUME NEW p \in Procs, Compensate(p)
      PROVE  attemptStatus' \in {attemptStatus, "failed", "failed-needs-manual-cleanup"}
  BY <1>3
  DEF Compensate, ReadStepOutcomes, RevokeSetupTokens, ReadFirstAdmin,
      DeleteFirstAdmin, DropTenantSchema, MarkTenantFailed, UpsertFailedAudit,
      MarkAttemptFailed, FailureStatus, attemptVars
<1>4. ASSUME NEW r \in Runs, RecordTimeout(r) \/ FindTimedOutTenant(r)
      PROVE  attemptStatus' \in {attemptStatus, "failed"}
  BY <1>4 DEF RecordTimeout, FindTimedOutTenant, attemptVars
<1>5. ASSUME NEW r \in Runs, Cancel(r) \/ QueueStep(r) \/ Timeout(r) \/ Crash(r)
      PROVE  attemptStatus' = attemptStatus
  BY <1>5
  DEF Cancel, QueueStep, CompleteJob, RejectJob, Timeout, Crash, attemptVars
<1>6. CASE StartRun \/ UNCHANGED vars
  BY <1>6 DEF StartRun, vars, attemptVars
<1>7. ASSUME NEW r \in Runs, LifeStep(r)
      PROVE  /\ attemptStatus' # "accepted"
             /\ attemptStatus' = "succeeded" => MarkAttemptSucceeded(r)
             /\ ~Cancel(r)
  BY <1>1, <1>2, <1>3, <1>5, <1>7, ProcsLemma DEF LifeStep
<1>8. ASSUME NEW r \in Runs, WatchStep(r)
      PROVE  attemptStatus' \notin {"accepted", "succeeded"}
  BY <1>3, <1>4, <1>8, ProcsLemma DEF WatchStep
<1>9. QED
  BY <1>5, <1>6, <1>7, <1>8 DEF Next, Rest

LEMMA SuccessStep == TypeOK /\ SuccessInv /\ [Next]_vars => SuccessInv'
<1> SUFFICES ASSUME TypeOK, SuccessInv, [Next]_vars PROVE SuccessInv'
  OBVIOUS
<1>1. ASSUME NEW r \in Runs, PastActivation(r)'
      PROVE  Decided'
  BY <1>1, ReachPastActivation, DecidedStays DEF SuccessInv, Decided
<1>2. SucceededMeansActivated'
  <2>1. CASE attemptStatus' = attemptStatus
    BY <2>1, DecidedStays DEF SuccessInv, SucceededMeansActivated, Decided
  <2>2. ASSUME NEW r \in Runs, MarkAttemptSucceeded(r)
        PROVE  Decided'
    BY <2>2, DecidedStays
    DEF SuccessInv, PastActivation, MarkAttemptSucceeded, Goto
  <2>3. CASE attemptStatus' # attemptStatus
    BY <2>2, <2>3, StatusMoves DEF SucceededMeansActivated, Decided
  <2>4. QED
    BY <2>1, <2>3
<1>3. QED
  BY <1>1, <1>2 DEF SuccessInv

(* No attempt ever says "succeeded" unless its tenant was activated, for any *)
(* number of retries and any faults.  The fence of activation() is what the  *)
(* proof rests on: only its UPDATE brings a lifecycle past activation, and a *)
(* tenant that was activated is ACTIVE or FAILED ever after.                 *)
THEOREM SuccessIsActivated == Spec => []SucceededMeansActivated
<1>1. Init => SuccessInv
  BY ProcsLemma DEF Init, SuccessInv, SucceededMeansActivated, PastActivation
<1>2. SuccessInv => SucceededMeansActivated
  BY DEF SuccessInv
<1>3. QED
  BY <1>1, <1>2, SuccessStep, TypeCorrect, PTL DEF Spec

-----------------------------------------------------------------------------
(* One tenant per attempt                                                    *)

\* Where a run can be before there is a tenant.
EarlyLife == {"idle", "find", "claim", "payload", "insert",
              "recordCreationFailure", "cancelled", "resolved", "rejected", "dead"}
EarlyWatch == {"idle", "racing", "recordTimeout", "findTimedOut",
               "auditFailed", "statusFailed", "settled", "rejected", "dead"}
Creating(r) == pc[Life(r)] \in {"payload", "insert"}

(* The claim is exclusive: it needs an accepted attempt, nothing makes the   *)
(* attempt accepted again, and until the one run that holds it has inserted  *)
(* the tenant nobody else can write the tenant row.                          *)
ClaimInv ==
  /\ attemptStatus = "accepted" =>
       tenant = "none" /\ \A r \in Runs : ~Creating(r)
  /\ \A r \in Runs : Creating(r) => tenant = "none"
  /\ \A q, r \in Runs : Creating(q) /\ Creating(r) => q = r
  /\ tenant = "none" =>
       \A r \in Runs : pc[Life(r)] \in EarlyLife /\ pc[Watch(r)] \in EarlyWatch

LEMMA ClaimInit == Init => ClaimInv
BY ProcsLemma DEF Init, ClaimInv, Creating, EarlyLife, EarlyWatch

\* A lifecycle comes to the creation of the tenant by claiming the attempt.
LEMMA CreatingMoves ==
  ASSUME TypeOK, [Next]_vars, NEW r \in Runs, Creating(r)'
  PROVE  \/ Creating(r)
         \/ attemptStatus = "accepted" /\ attemptStatus' = "provisioning"
<1> USE ProcsLemma DEF TypeOK, Creating, Goto
<1>1. CASE ~LifeStep(r)
  BY <1>1, OthersLeaveLife
<1>2. CASE StartLifecycle(r)
  BY <1>2
  DEF StartLifecycle, FindLinkedTenant, ReadAttemptStatus, ResetAttemptStatus,
      RecordResumedTenant, ClaimAttempt, Claimable, ReadSafePayload,
      CreateOrResolveTenant, RecordCreatedTenant, RecordTenantCreationFailure,
      Unless
<1>3. CASE ProvisionTenantSchema(r)
  BY <1>3
  DEF ProvisionTenantSchema, CreateTenantSchema, BootstrapTenantSchema,
      BootstrapTenantSeed, FillTenantSchema, AssignFirstAdmin,
      GenerateSetupLink, SendBackupEmail, Activation, AtStep, StepThrows,
      StepReturns, StepFails, RecordStep, RecordStepThrows, RecordStepFailure,
      UpsertSucceededAudit, MarkAttemptSucceeded
<1>4. CASE Compensate(Life(r)) \/ Cancel(r)
  BY <1>4, CompensateMoves DEF Cancel, CompensationPCs
<1>5. QED
  BY <1>1, <1>2, <1>3, <1>4 DEF LifeStep

\* The claim itself is the step of one run.
LEMMA ClaimMovesOne ==
  ASSUME TypeOK, ClaimInv, [Next]_vars, attemptStatus = "accepted",
         attemptStatus' = "provisioning", NEW q \in Runs, NEW r \in Runs,
         Creating(q)', Creating(r)'
  PROVE  q = r
<1>1. ~Creating(q) /\ ~Creating(r)
  BY DEF ClaimInv
<1>2. LifeStep(q) /\ LifeStep(r)
  BY <1>1, OthersLeaveLife DEF Creating
<1>3. pc'[Life(q)] # pc[Life(q)] /\ pc'[Life(r)] # pc[Life(r)]
  BY <1>1 DEF Creating
<1>4. q # r => pc'[Life(r)] = pc[Life(r)]
  BY <1>2, LifeMoves, ProcsLemma DEF Life
<1>5. QED
  BY <1>3, <1>4

\* A step that is not of the watch of r leaves it alone, but for the queue,
\* its timer and a crash.
LEMMA OthersLeaveWatch ==
  ASSUME TypeOK, [Next]_vars, NEW r \in Runs, ~WatchStep(r)
  PROVE  \/ pc'[Watch(r)] = pc[Watch(r)]
         \/ pc'[Watch(r)] \in {"racing", "settled", "recordTimeout", "dead"}
<1>1. ASSUME NEW q \in Runs, LifeStep(q)
      PROVE  pc'[Watch(r)] = pc[Watch(r)]
  BY <1>1, LifeMoves, ProcsLemma DEF Life, Watch
<1>2. ASSUME NEW q \in Runs, WatchStep(q), q # r
      PROVE  pc'[Watch(r)] = pc[Watch(r)]
  BY <1>2, WatchMoves, ProcsLemma DEF Watch
<1>3. ASSUME NEW q \in Runs, QueueStep(q) \/ Timeout(q) \/ Crash(q)
      PROVE  \/ pc'[Watch(r)] = pc[Watch(r)]
             \/ pc'[Watch(r)] \in {"settled", "recordTimeout", "dead"}
  BY <1>3, ProcsLemma
  DEF TypeOK, QueueStep, CompleteJob, RejectJob, Timeout, Crash, Goto, Life, Watch
<1>4. CASE StartRun
  <2> DEFINE q == job.run + 1
  <2>1. pc' = [pc EXCEPT ![Life(q)] = "find", ![Watch(q)] = "racing"]
    BY <1>4 DEF StartRun
  <2>2. CASE q = r
    BY <2>1, <2>2, ProcsLemma DEF TypeOK
  <2>3. CASE q # r
    BY <2>1, <2>3, ProcsLemma DEF TypeOK, Life, Watch
  <2>4. QED
    BY <2>2, <2>3
<1>5. CASE UNCHANGED vars
  BY <1>5 DEF vars
<1>6. QED
  BY <1>1, <1>2, <1>3, <1>4, <1>5 DEF Next, Rest

\* As long as there is no tenant, nobody gets past the creation of it.
LEMMA EarlyMoves ==
  ASSUME TypeOK, ClaimInv, [Next]_vars, tenant = "none", tenant' = "none",
         NEW r \in Runs
  PROVE  pc'[Life(r)] \in EarlyLife /\ pc'[Watch(r)] \in EarlyWatch
<1>1. pc[Life(r)] \in EarlyLife /\ pc[Watch(r)] \in EarlyWatch
  BY DEF ClaimInv
<1>2. pc'[Life(r)] \in EarlyLife
  <2> USE ProcsLemma DEF TypeOK, Goto, EarlyLife
  <2>1. CASE ~LifeStep(r)
    BY <1>1, <2>1, OthersLeaveLife
  <2>2. CASE StartLifecycle(r)
    BY <1>1, <2>2
    DEF StartLifecycle, FindLinkedTenant, ReadAttemptStatus, ResetAttemptStatus,
        RecordResumedTenant, ClaimAttempt, ReadSafePayload,
        CreateOrResolveTenant, RecordCreatedTenant, RecordTenantCreationFailure,
        Unless
  <2>3. CASE ProvisionTenantSchema(r)
    BY <1>1, <2>3
    DEF ProvisionTenantSchema, CreateTenantSchema, BootstrapTenantSchema,
        BootstrapTenantSeed, FillTenantSchema, AssignFirstAdmin,
        GenerateSetupLink, SendBackupEmail, Activation, AtStep, StepThrows,
        RecordStep, RecordStepThrows, RecordStepFailure, UpsertSucceededAudit,
        MarkAttemptSucceeded
  <2>4. CASE Compensate(Life(r)) \/ Cancel(r)
    BY <1>1, <2>4, CompensateMoves DEF Cancel, CompensationPCs
  <2>5. QED
    BY <2>1, <2>2, <2>3, <2>4 DEF LifeStep
<1>3. pc'[Watch(r)] \in EarlyWatch
  <2> USE ProcsLemma DEF TypeOK, Goto, EarlyWatch
  <2>1. CASE ~WatchStep(r)
    BY <1>1, <2>1, OthersLeaveWatch
  <2>2. CASE RecordTimeout(r) \/ FindTimedOutTenant(r)
    BY <2>2 DEF RecordTimeout, FindTimedOutTenant
  <2>3. CASE Compensate(Watch(r))
    BY <1>1, <2>3
    DEF Compensate, ReadStepOutcomes, RevokeSetupTokens, ReadFirstAdmin,
        DeleteFirstAdmin, DropTenantSchema, MarkTenantFailed, UpsertFailedAudit,
        MarkAttemptFailed
  <2>4. QED
    BY <2>1, <2>2, <2>3 DEF WatchStep
<1>4. QED
  BY <1>2, <1>3

\* The tenant row comes from the insert of the run that holds the claim.
LEMMA TenantFromClaim ==
  ASSUME TypeOK, ClaimInv, [Next]_vars, tenant = "none", tenant' # "none"
  PROVE  \E r \in Runs : Creating(r) /\ ~Creating(r)'
<1>1. ASSUME NEW r \in Runs, Activation(r) PROVE FALSE
  BY <1>1 DEF ClaimInv, Activation, AtStep, EarlyLife
<1>2. ASSUME NEW p \in Procs, MarkTenantFailed(p) PROVE FALSE
  <2>1. PICK r \in Runs : p \in {Life(r), Watch(r)}
    BY DEF Procs, Life, Watch
  <2>2. QED
    BY <1>2, <2>1 DEF ClaimInv, MarkTenantFailed, Goto, EarlyLife, EarlyWatch
<1>3. PICK r \in Runs : CreateOrResolveTenant(r)
  BY <1>1, <1>2, TenantMoves
<1>4. QED
  BY <1>3, ProcsLemma
  DEF TypeOK, CreateOrResolveTenant, Creating, Goto, Unless

LEMMA ClaimStep == TypeOK /\ ClaimInv /\ [Next]_vars => ClaimInv'
<1> SUFFICES ASSUME TypeOK, ClaimInv, [Next]_vars PROVE ClaimInv'
  OBVIOUS
<1>1. ASSUME attemptStatus' = "accepted"
      PROVE  tenant' = "none" /\ \A r \in Runs : ~Creating(r)'
  <2>1. attemptStatus = "accepted"
    BY <1>1, StatusMoves
  <2>2. QED
    BY <1>1, <2>1, TenantFromClaim, CreatingMoves DEF ClaimInv
<1>2. ASSUME NEW r \in Runs, Creating(r)'
      PROVE  tenant' = "none"
  <2>1. tenant = "none"
    BY <1>2, CreatingMoves DEF ClaimInv
  <2>2. CASE Creating(r)
    BY <1>2, <2>1, <2>2, TenantFromClaim DEF ClaimInv
  <2>3. CASE attemptStatus = "accepted"
    BY <2>1, <2>3, TenantFromClaim DEF ClaimInv
  <2>4. QED
    BY <1>2, <2>2, <2>3, CreatingMoves
<1>3. ASSUME NEW q \in Runs, NEW r \in Runs, Creating(q)', Creating(r)'
      PROVE  q = r
  BY <1>3, CreatingMoves, ClaimMovesOne DEF ClaimInv
<1>4. ASSUME tenant' = "none", NEW r \in Runs
      PROVE  pc'[Life(r)] \in EarlyLife /\ pc'[Watch(r)] \in EarlyWatch
  <2>1. tenant = "none"
    BY <1>4, TenantMoves
  <2>2. QED
    BY <1>4, <2>1, EarlyMoves
<1>5. QED
  BY <1>1, <1>2, <1>3, <1>4 DEF ClaimInv

(* createOrResolveTenant() inserts into a vacuum, for any number of retries  *)
(* and any faults: no attempt ever has two runs on its way to a tenant row,  *)
(* though a run that timed out may still be there when the next one starts.  *)
THEOREM OneTenantPerAttempt == Spec => []InsertFindsNoTenant
<1>1. ClaimInv => InsertFindsNoTenant
  BY DEF ClaimInv, Creating, InsertFindsNoTenant
<1>2. QED
  BY <1>1, ClaimInit, ClaimStep, TypeCorrect, PTL DEF Spec

(* An attempt makes one tenant, and says "succeeded" only of an activation   *)
(* that committed: the claim and activation()'s transaction are enough, with *)
(* any number of retries, timeouts and failures.                             *)
THEOREM TenantIsMadeOnce == Spec => []OneTenantOneActivation
<1>1. SucceededMeansActivated /\ InsertFindsNoTenant => OneTenantOneActivation
  BY DEF OneTenantOneActivation
<1>2. QED
  BY <1>1, SuccessIsActivated, OneTenantPerAttempt, PTL

-----------------------------------------------------------------------------
(* Who writes the attempt, and what may go wrong                             *)

Manual == attemptStatus = "failed-needs-manual-cleanup"

\* Where nothing but steps and the timer goes wrong, nothing else does.
LEMMA NoOtherFault ==
  StepsFailOrTimeOut =>
    /\ ~Fault("crash") /\ ~Fault("create") /\ ~Fault("record")
    /\ ~Fault("compensation") /\ ~Fault("audit")
BY DEF Fault, StepsFailOrTimeOut

\* The kinds of fault are those of the world, whatever happened of them.
LEMMA FaultKeepsKinds ==
  ASSUME faults \in FaultWorlds, NEW kind, Fault(kind)
  PROVE  faults'.kinds = faults.kinds
BY DEF Fault, FaultWorlds

LEMMA KindsStay == ASSUME TypeOK, [Next]_vars PROVE faults'.kinds = faults.kinds
<1> USE FaultKeepsKinds DEF TypeOK
<1>1. ASSUME NEW r \in Runs, StartLifecycle(r)
      PROVE  faults'.kinds = faults.kinds
  BY <1>1
  DEF StartLifecycle, FindLinkedTenant, ReadAttemptStatus, ResetAttemptStatus,
      RecordResumedTenant, ClaimAttempt, ReadSafePayload, CreateOrResolveTenant,
      RecordCreatedTenant, RecordTenantCreationFailure
<1>2. ASSUME NEW r \in Runs, ProvisionTenantSchema(r)
      PROVE  faults'.kinds = faults.kinds
  BY <1>2
  DEF ProvisionTenantSchema, CreateTenantSchema, BootstrapTenantSchema,
      BootstrapTenantSeed, FillTenantSchema, AssignFirstAdmin,
      GenerateSetupLink, SendBackupEmail, Activation, StepReturns, StepThrows,
      StepFails, RecordStep, RecordStepThrows, RecordStepFailure,
      UpsertSucceededAudit, MarkAttemptSucceeded
<1>3. ASSUME NEW p \in Procs, Compensate(p)
      PROVE  faults'.kinds = faults.kinds
  BY <1>3
  DEF Compensate, ReadStepOutcomes, RevokeSetupTokens, ReadFirstAdmin,
      DeleteFirstAdmin, DropTenantSchema, MarkTenantFailed, UpsertFailedAudit,
      MarkAttemptFailed
<1>4. ASSUME NEW r \in Runs,
             \/ Cancel(r) \/ RecordTimeout(r) \/ FindTimedOutTenant(r)
             \/ QueueStep(r) \/ Timeout(r) \/ Crash(r)
      PROVE  faults'.kinds = faults.kinds
  BY <1>4
  DEF Cancel, RecordTimeout, FindTimedOutTenant, QueueStep, CompleteJob,
      RejectJob, Timeout, Crash
<1>5. CASE StartRun \/ UNCHANGED vars
  BY <1>5 DEF StartRun, vars
<1>6. QED
  BY <1>1, <1>2, <1>3, <1>4, <1>5, ProcsLemma
  DEF Next, Rest, LifeStep, WatchStep

\* The statements that write the status of the attempt, and what they write.
LEMMA StatusWrites ==
  ASSUME [Next]_vars, attemptStatus' # attemptStatus
  PROVE  \/ attemptStatus = "accepted" /\ attemptStatus' = "provisioning"
         \/ attemptStatus \notin Terminal /\ attemptStatus' = "provisioning"
         \/ /\ \E r \in Runs : ResetAttemptStatus(r)
            /\ attemptStatus = "failed"
         \/ \E r \in Runs : RecordTenantCreationFailure(r)
         \/ \E r \in Runs : MarkAttemptSucceeded(r) /\ attemptStatus' = "succeeded"
         \/ \E r \in Runs : RecordTimeout(r) /\ attemptStatus' = "failed"
         \/ \E p \in Procs : /\ MarkAttemptFailed(p)
                             /\ attemptStatus' = FailureStatus(p)
<1> USE DEF WriteStatus, WriteDropped, Terminal
<1>1. ASSUME NEW r \in Runs, StartLifecycle(r)
      PROVE  \/ attemptStatus = "accepted" /\ attemptStatus' = "provisioning"
             \/ attemptStatus \notin Terminal /\ attemptStatus' = "provisioning"
             \/ ResetAttemptStatus(r) /\ attemptStatus = "failed"
             \/ RecordTenantCreationFailure(r)
  BY <1>1
  DEF StartLifecycle, FindLinkedTenant, ReadAttemptStatus, ResetAttemptStatus,
      RecordResumedTenant, ClaimAttempt, Claimable, ReadSafePayload,
      CreateOrResolveTenant, RecordCreatedTenant, attemptVars
<1>2. ASSUME NEW r \in Runs, ProvisionTenantSchema(r)
      PROVE  \/ attemptStatus \notin Terminal /\ attemptStatus' = "provisioning"
             \/ MarkAttemptSucceeded(r) /\ attemptStatus' = "succeeded"
  <2>1. CASE \/ CreateTenantSchema(r) \/ BootstrapTenantSchema(r)
             \/ BootstrapTenantSeed(r) \/ AssignFirstAdmin(r)
             \/ GenerateSetupLink(r) \/ SendBackupEmail(r)
    BY <2>1
    DEF CreateTenantSchema, BootstrapTenantSchema, BootstrapTenantSeed,
        FillTenantSchema, AssignFirstAdmin, GenerateSetupLink, SendBackupEmail,
        StepReturns, StepFails, attemptVars
  <2>2. CASE \/ Activation(r) \/ StepThrows(r) \/ RecordStep(r)
             \/ RecordStepThrows(r) \/ RecordStepFailure(r)
             \/ UpsertSucceededAudit(r)
    BY <2>2
    DEF Activation, StepThrows, StepReturns, StepFails, RecordStep,
        RecordStepThrows, RecordStepFailure, UpsertSucceededAudit, attemptVars
  <2>3. CASE MarkAttemptSucceeded(r)
    BY <2>3 DEF MarkAttemptSucceeded
  <2>4. QED
    BY <1>2, <2>1, <2>2, <2>3 DEF ProvisionTenantSchema
<1>3. ASSUME NEW p \in Procs, Compensate(p)
      PROVE  MarkAttemptFailed(p) /\ attemptStatus' = FailureStatus(p)
  BY <1>3
  DEF Compensate, ReadStepOutcomes, RevokeSetupTokens, ReadFirstAdmin,
      DeleteFirstAdmin, DropTenantSchema, MarkTenantFailed, UpsertFailedAudit,
      MarkAttemptFailed, FailureStatus, attemptVars
<1>4. ASSUME NEW r \in Runs, RecordTimeout(r) \/ FindTimedOutTenant(r)
      PROVE  RecordTimeout(r) /\ attemptStatus' = "failed"
  BY <1>4 DEF RecordTimeout, FindTimedOutTenant, attemptVars
<1>5. ASSUME NEW r \in Runs, Cancel(r) \/ QueueStep(r) \/ Timeout(r) \/ Crash(r)
      PROVE  FALSE
  BY <1>5
  DEF Cancel, QueueStep, CompleteJob, RejectJob, Timeout, Crash, attemptVars
<1>6. ~StartRun /\ ~UNCHANGED vars
  BY DEF StartRun, vars, attemptVars
<1>7. PICK r \in Runs : LifeStep(r) \/ WatchStep(r)
  BY <1>5, <1>6 DEF Next, Rest
<1>8. CASE StartLifecycle(r)
  BY <1>1, <1>8
<1>9. CASE ProvisionTenantSchema(r)
  BY <1>2, <1>9
<1>10. CASE Compensate(Life(r)) \/ Compensate(Watch(r))
  BY <1>3, <1>10, ProcsLemma
<1>11. CASE RecordTimeout(r) \/ FindTimedOutTenant(r)
  BY <1>4, <1>11
<1>12. QED
  BY <1>5, <1>7, <1>8, <1>9, <1>10, <1>11 DEF LifeStep, WatchStep

-----------------------------------------------------------------------------
(* Signals                                                                   *)

(* A signal is raised by a watch whose timer ran out, and a lifecycle that   *)
(* works without a signal works under a watch that still races it.           *)
TimedOutWatch == CompensationPCs \union
                 {"recordTimeout", "findTimedOut", "rejected", "settled", "dead"}
SignalInv ==
  \A r \in Runs :
    /\ aborted[r] => pc[Watch(r)] \in TimedOutWatch
    /\ ~aborted[r] => pc[Watch(r)] \in {"idle", "racing", "settled", "dead"}
    /\ ~aborted[r] /\ pc[Life(r)] \notin Finished => pc[Watch(r)] = "racing"

\* Only a lifecycle that is not over takes a step.
LEMMA LifeWorks ==
  ASSUME NEW r \in Runs, LifeStep(r)
  PROVE  pc[Life(r)] \notin Finished
<1> USE DEF Finished, Goto
<1>1. CASE StartLifecycle(r)
  BY <1>1
  DEF StartLifecycle, FindLinkedTenant, ReadAttemptStatus, ResetAttemptStatus,
      RecordResumedTenant, ClaimAttempt, ReadSafePayload, CreateOrResolveTenant,
      RecordCreatedTenant, RecordTenantCreationFailure
<1>2. CASE ProvisionTenantSchema(r)
  BY <1>2
  DEF ProvisionTenantSchema, CreateTenantSchema, BootstrapTenantSchema,
      BootstrapTenantSeed, FillTenantSchema, AssignFirstAdmin,
      GenerateSetupLink, SendBackupEmail, Activation, AtStep, StepThrows,
      RecordStep, RecordStepThrows, RecordStepFailure, UpsertSucceededAudit,
      MarkAttemptSucceeded
<1>3. CASE Compensate(Life(r))
  BY <1>3
  DEF Compensate, ReadStepOutcomes, RevokeSetupTokens, ReadFirstAdmin,
      DeleteFirstAdmin, DropTenantSchema, MarkTenantFailed, UpsertFailedAudit,
      MarkAttemptFailed
<1>4. CASE Cancel(r)
  BY <1>4 DEF Cancel, Fenced
<1>5. QED
  BY <1>1, <1>2, <1>3, <1>4 DEF LifeStep

\* A watch takes steps once its timer ran out, up to the rejection of the job.
LEMMA WatchWorks ==
  ASSUME TypeOK, NEW r \in Runs, WatchStep(r)
  PROVE  /\ pc[Watch(r)] \in CompensationPCs \union {"recordTimeout", "findTimedOut"}
         /\ pc'[Watch(r)] \in CompensationPCs \union {"findTimedOut", "rejected"}
<1>1. CASE RecordTimeout(r) \/ FindTimedOutTenant(r)
  BY <1>1, ProcsLemma
  DEF TypeOK, RecordTimeout, FindTimedOutTenant, Goto, CompensationPCs
<1>2. CASE Compensate(Watch(r))
  BY <1>2, ProcsLemma, CompensateMoves
<1>3. QED
  BY <1>1, <1>2 DEF WatchStep

\* Only the timer raises a signal, and nothing takes one back.
LEMMA SignalMoves ==
  ASSUME TypeOK, [Next]_vars, NEW r \in Runs
  PROVE  \/ aborted'[r] = aborted[r]
         \/ Timeout(r) /\ aborted'[r]
<1>1. ASSUME NEW q \in Runs, StartLifecycle(q) PROVE aborted' = aborted
  BY <1>1
  DEF StartLifecycle, FindLinkedTenant, ReadAttemptStatus, ResetAttemptStatus,
      RecordResumedTenant, ClaimAttempt, ReadSafePayload, CreateOrResolveTenant,
      RecordCreatedTenant, RecordTenantCreationFailure, runVars
<1>2. ASSUME NEW q \in Runs, ProvisionTenantSchema(q) PROVE aborted' = aborted
  BY <1>2
  DEF ProvisionTenantSchema, CreateTenantSchema, BootstrapTenantSchema,
      BootstrapTenantSeed, FillTenantSchema, AssignFirstAdmin,
      GenerateSetupLink, SendBackupEmail, Activation, StepReturns, StepThrows,
      StepFails, RecordStep, RecordStepThrows, RecordStepFailure,
      UpsertSucceededAudit, MarkAttemptSucceeded, runVars
<1>3. ASSUME NEW p \in Procs, Compensate(p) PROVE aborted' = aborted
  BY <1>3
  DEF Compensate, ReadStepOutcomes, RevokeSetupTokens, ReadFirstAdmin,
      DeleteFirstAdmin, DropTenantSchema, MarkTenantFailed, UpsertFailedAudit,
      MarkAttemptFailed, runVars
<1>4. ASSUME NEW q \in Runs,
             \/ Cancel(q) \/ RecordTimeout(q) \/ FindTimedOutTenant(q)
             \/ QueueStep(q) \/ Crash(q)
      PROVE  aborted' = aborted
  BY <1>4
  DEF Cancel, RecordTimeout, FindTimedOutTenant, QueueStep, CompleteJob,
      RejectJob, Crash, runVars
<1>5. ASSUME StartRun \/ UNCHANGED vars PROVE aborted' = aborted
  BY <1>5 DEF StartRun, vars, runVars
<1>6. ASSUME NEW q \in Runs, Timeout(q)
      PROVE  Timeout(r) \/ aborted'[r] = aborted[r]
  BY <1>6 DEF TypeOK, Timeout
<1>7. Timeout(r) => aborted'[r]
  BY DEF TypeOK, Timeout
<1>8. QED
  BY <1>1, <1>2, <1>3, <1>4, <1>5, <1>6, <1>7, ProcsLemma
  DEF Next, Rest, LifeStep, WatchStep

\* The processes of a run move by their own steps, by the queue, their timer
\* and a crash, and by nothing else.
LEMMA OthersMoveThemselves ==
  ASSUME TypeOK, [Next]_vars, NEW r \in Runs,
         ~(\/ Timeout(r) \/ Crash(r) \/ QueueStep(r) \/ WatchStep(r)
           \/ LifeStep(r) \/ (StartRun /\ r = job.run + 1))
  PROVE  pc'[Watch(r)] = pc[Watch(r)] /\ pc'[Life(r)] = pc[Life(r)]
<1> USE ProcsLemma DEF TypeOK, Life, Watch
<1>1. ASSUME NEW q \in Runs, q # r, LifeStep(q) \/ WatchStep(q)
      PROVE  pc'[Watch(r)] = pc[Watch(r)] /\ pc'[Life(r)] = pc[Life(r)]
  BY <1>1, LifeMoves, WatchMoves
<1>2. ASSUME NEW q \in Runs, q # r, QueueStep(q) \/ Timeout(q) \/ Crash(q)
      PROVE  pc'[Watch(r)] = pc[Watch(r)] /\ pc'[Life(r)] = pc[Life(r)]
  BY <1>2 DEF QueueStep, CompleteJob, RejectJob, Timeout, Crash, Goto
<1>3. CASE StartRun /\ r # job.run + 1
  BY <1>3 DEF StartRun
<1>4. CASE UNCHANGED vars
  BY <1>4 DEF vars
<1>5. QED
  BY <1>1, <1>2, <1>3, <1>4 DEF Next, Rest

LEMMA SignalInit == Init => SignalInv
BY ProcsLemma DEF Init, SignalInv, Finished

LEMMA SignalStep == TypeInv /\ SignalInv /\ [Next]_vars => SignalInv'
<1> SUFFICES ASSUME TypeInv, SignalInv, [Next]_vars, NEW r \in Runs
             PROVE  /\ aborted'[r] => pc'[Watch(r)] \in TimedOutWatch
                    /\ ~aborted'[r] =>
                         pc'[Watch(r)] \in {"idle", "racing", "settled", "dead"}
                    /\ ~aborted'[r] /\ pc'[Life(r)] \notin Finished =>
                         pc'[Watch(r)] = "racing"
  BY DEF SignalInv
<1> USE ProcsLemma DEF TimedOutWatch
<1>0. /\ aborted[r] => pc[Watch(r)] \in TimedOutWatch
      /\ ~aborted[r] => pc[Watch(r)] \in {"idle", "racing", "settled", "dead"}
      /\ ~aborted[r] /\ pc[Life(r)] \notin Finished => pc[Watch(r)] = "racing"
  BY DEF SignalInv
<1>1. TypeOK /\ aborted[r] \in BOOLEAN
  BY DEF TypeInv, TypeOK
<1>2. CASE Timeout(r)
  BY <1>1, <1>2 DEF TypeOK, Timeout, Goto
<1>3. CASE Crash(r)
  BY <1>0, <1>1, <1>3 DEF TypeOK, Crash, Finished, runVars
<1>4. CASE QueueStep(r)
  <2>1. /\ aborted' = aborted /\ pc' = [pc EXCEPT ![Watch(r)] = "settled"]
        /\ \/ pc[Life(r)] \in {"resolved", "rejected"}
           \/ pc[Watch(r)] = "rejected"
    BY <1>4 DEF QueueStep, CompleteJob, RejectJob, Goto, runVars
  <2>2. pc'[Watch(r)] = "settled" /\ pc'[Life(r)] = pc[Life(r)]
    BY <1>1, <2>1 DEF TypeOK
  <2>3. QED
    BY <1>0, <2>1, <2>2 DEF Finished
<1>5. CASE WatchStep(r)
  <2>1. aborted'[r] = aborted[r] /\ aborted[r]
    BY <1>0, <1>1, <1>5, SignalMoves, WatchWorks DEF Timeout, Goto, CompensationPCs
  <2>2. QED
    BY <1>1, <1>5, <2>1, WatchWorks
<1>6. CASE LifeStep(r)
  <2>1. pc'[Watch(r)] = pc[Watch(r)]
    BY <1>1, <1>6, LifeMoves
  <2>2. pc[Life(r)] \notin Finished
    BY <1>6, LifeWorks
  <2>3. aborted'[r] = aborted[r]
    BY <1>1, <2>1, SignalMoves DEF TypeOK, Timeout, Goto
  <2>4. QED
    BY <1>0, <2>1, <2>2, <2>3
<1>7. CASE StartRun /\ r = job.run + 1
  <2>1. pc[Watch(r)] = "idle"
    BY <1>1, <1>7 DEF TypeInv, TypeOK, QueueInv, OneWatch, Jobs, Runs
  <2>2. pc'[Watch(r)] = "racing" /\ aborted' = aborted
    BY <1>1, <1>7 DEF TypeOK, StartRun, runVars
  <2>3. QED
    BY <1>0, <2>1, <2>2 DEF CompensationPCs
<1>8. CASE ~(\/ Timeout(r) \/ Crash(r) \/ QueueStep(r) \/ WatchStep(r)
             \/ LifeStep(r) \/ (StartRun /\ r = job.run + 1))
  <2>1. pc'[Watch(r)] = pc[Watch(r)] /\ pc'[Life(r)] = pc[Life(r)]
    BY <1>1, <1>8, OthersMoveThemselves
  <2>2. aborted'[r] = aborted[r]
    BY <1>1, <1>8, SignalMoves
  <2>3. QED
    BY <1>0, <2>1, <2>2
<1>9. QED
  BY <1>2, <1>3, <1>4, <1>5, <1>6, <1>7, <1>8

-----------------------------------------------------------------------------
(* An attempt that waits for its operator                                    *)

(* Where no run times out only the current run is alive, and it lets go of   *)
(* an attempt that needs manual cleanup: it wrote that itself and is over,   *)
(* or it has yet to read it.                                                 *)
CleanupInv ==
  NoRunTimesOut =>
    /\ \A r \in Runs : ~aborted[r]
    /\ Manual => /\ tenant # "none"
                 /\ \A r \in Runs : pc[Life(r)] \in Finished \union {"find", "status"}

\* Without a signal there is one lifecycle that is not over, the current one.
LEMMA OneLife ==
  ASSUME TypeInv, SignalInv, NEW q \in Runs, NEW r \in Runs,
         ~aborted[q], pc[Life(q)] \notin Finished,
         pc[Watch(r)] \notin {"idle", "settled", "dead"}
  PROVE  q = r
<1>1. pc[Watch(q)] = "racing"
  BY DEF SignalInv
<1>2. QED
  BY <1>1 DEF TypeInv, QueueInv, OneWatch

\* Nothing takes an attempt out of manual cleanup where no run times out.
LEMMA ManualStays ==
  ASSUME TypeInv, SignalInv, CleanupInv, [Next]_vars, NoRunTimesOut, Manual
  PROVE  Manual'
<1>1. SUFFICES ASSUME attemptStatus' # attemptStatus PROVE FALSE
  BY DEF Manual
<1>2. ASSUME NEW r \in Runs
      PROVE  /\ pc[Life(r)] \in {"idle", "cancelled", "resolved", "rejected",
                                 "dead", "find", "status"}
             /\ pc[Watch(r)] \in {"idle", "racing", "settled", "dead"}
  BY DEF CleanupInv, SignalInv, Finished
<1>3. ASSUME NEW p \in Procs PROVE pc[p] # "statusFailed"
  <2>1. PICK r \in Runs : p \in {Life(r), Watch(r)}
    BY DEF Procs, Life, Watch
  <2>2. QED
    BY <1>2, <2>1
<1>4. QED
  BY <1>1, <1>2, <1>3, StatusWrites
  DEF Manual, Terminal, ResetAttemptStatus, RecordTenantCreationFailure,
      MarkAttemptSucceeded, RecordTimeout, MarkAttemptFailed, Goto

LEMMA CleanupStep ==
  TypeInv /\ SignalInv /\ ClaimInv /\ CleanupInv /\ [Next]_vars => CleanupInv'
<1> SUFFICES ASSUME TypeInv, SignalInv, ClaimInv, CleanupInv, [Next]_vars,
                    NoRunTimesOut'
             PROVE  /\ \A r \in Runs : ~aborted'[r]
                    /\ Manual' =>
                         /\ tenant' # "none"
                         /\ \A r \in Runs :
                              pc'[Life(r)] \in Finished \union {"find", "status"}
  BY DEF CleanupInv
<1>1. NoRunTimesOut /\ TypeOK
  BY KindsStay DEF NoRunTimesOut, TypeInv
<1>2. ASSUME NEW r \in Runs PROVE ~aborted[r] /\ ~aborted'[r]
  <2>1. ~aborted[r]
    BY <1>1 DEF CleanupInv
  <2>2. ~Timeout(r)
    BY <1>1 DEF NoRunTimesOut, Timeout, Fault
  <2>3. QED
    BY <1>1, <2>1, <2>2, SignalMoves
<1>3. ASSUME Manual, NEW r \in Runs
      PROVE  pc'[Life(r)] \in Finished \union {"find", "status"}
  <2>1. pc[Life(r)] \in Finished \union {"find", "status"} /\ tenant # "none"
    BY <1>1, <1>3 DEF CleanupInv
  <2>2. CASE LifeStep(r)
    <3>1. pc[Life(r)] \in {"find", "status"}
      BY <2>1, <2>2, LifeWorks
    <3>2. \/ FindLinkedTenant(r) \/ ReadAttemptStatus(r)
      BY <1>2, <2>2, <3>1
      DEF LifeStep, Cancel, Compensate, StartLifecycle, ProvisionTenantSchema,
          ResetAttemptStatus, RecordResumedTenant, ClaimAttempt, ReadSafePayload,
          CreateOrResolveTenant, RecordCreatedTenant,
          RecordTenantCreationFailure, CreateTenantSchema,
          BootstrapTenantSchema, BootstrapTenantSeed, FillTenantSchema,
          AssignFirstAdmin, GenerateSetupLink, SendBackupEmail, Activation,
          AtStep, StepThrows, RecordStep, RecordStepThrows, RecordStepFailure,
          UpsertSucceededAudit, MarkAttemptSucceeded, ReadStepOutcomes,
          RevokeSetupTokens, ReadFirstAdmin, DeleteFirstAdmin,
          DropTenantSchema, MarkTenantFailed, UpsertFailedAudit,
          MarkAttemptFailed, Goto
    <3>3. QED
      BY <1>1, <1>3, <2>1, <3>2, ProcsLemma
      DEF TypeOK, FindLinkedTenant, ReadAttemptStatus, Goto, Manual, Finished
  <2>3. QED
    BY <1>1, <2>1, <2>2, OthersLeaveLife DEF Finished
<1>4. ASSUME Manual PROVE tenant' # "none"
  BY <1>1, <1>4, TenantMoves DEF CleanupInv
<1>5. ASSUME Manual', ~Manual
      PROVE  /\ tenant' # "none"
             /\ \A r \in Runs : pc'[Life(r)] \in Finished \union {"find", "status"}
  <2>1. PICK p \in Procs : MarkAttemptFailed(p)
    BY <1>5, StatusWrites
    DEF Manual, ResetAttemptStatus, RecordTenantCreationFailure, WriteStatus
  <2>2. PICK r \in Runs : p \in {Life(r), Watch(r)}
    BY DEF Procs, Life, Watch
  <2>3. p = Life(r)
    BY <1>2, <2>1, <2>2 DEF SignalInv, MarkAttemptFailed, Goto
  <2>4. pc[Life(r)] = "statusFailed" /\ pc' = [pc EXCEPT ![Life(r)] = "rejected"]
    BY <2>1, <2>3 DEF MarkAttemptFailed, Goto
  <2>5. tenant # "none"
    BY <2>4 DEF ClaimInv, EarlyLife
  <2>6. pc[Watch(r)] = "racing"
    BY <1>2, <2>4 DEF SignalInv, Finished
  <2>7. ASSUME NEW q \in Runs
        PROVE  pc'[Life(q)] \in Finished
    <3>1. CASE q = r
      BY <1>1, <2>4, <3>1, ProcsLemma DEF TypeOK, Finished
    <3>2. CASE q # r
      <4>1. pc[Life(q)] \in Finished
        BY <1>2, <2>6, <3>2, OneLife
      <4>2. QED
        BY <1>1, <2>4, <3>2, <4>1, ProcsLemma DEF TypeOK, Life
    <3>3. QED
      BY <3>1, <3>2
  <2>8. QED
    BY <2>5, <2>7, TenantMoves
<1>6. QED
  BY <1>2, <1>3, <1>4, <1>5

-----------------------------------------------------------------------------
(* A run that timed out                                                      *)

\* A compensation that failed, or is about to: the First Admin it has read
\* was deleted by another one.
Spoilt(p) ==
  \/ comp[p].failed
  \/ pc[p] = "deleteAdmin" /\ comp[p].admin \notin {NoAdmin, admin}
SomeSpoilt == \E p \in Procs : Spoilt(p)

\* Where a lifecycle without a signal can be once a compensation failed.
Quiet == Finished \union CompensationPCs \union {"find", "status"}

\* Where a watch is done with the tenant and has yet to reject the job.
Ending == {"auditFailed", "statusFailed", "rejected"}

(* While the tenant is not FAILED, no compensation has run to its end: one   *)
(* that is past the tenant failed, which takes two that met at the First     *)
(* Admin, or it found no tenant to compensate, and its lifecycle makes       *)
(* nothing more of the one it may insert.                                    *)
CompensationInv ==
  \A r \in Runs :
    /\ pc[Life(r)] # "recordCreationFailure"
    /\ pc[Life(r)] \in {"auditFailed", "statusFailed"} => comp[Life(r)].failed
    /\ aborted[r] /\ pc[Watch(r)] \in Ending \union {"settled"} =>
         \/ comp[Watch(r)].failed
         \/ pc[Life(r)] \in EarlyLife /\ (pc[Watch(r)] \in Ending => ~SomeSpoilt)

(* Once a compensation failed no lifecycle is at a step, none will be, and   *)
(* the runs to come find that the attempt waits for its operator.            *)
SpoiltInv ==
  SomeSpoilt =>
    /\ tenant # "none"
    /\ job.state = "queued" => Manual
    /\ \A r \in Runs :
         /\ pc[Life(r)] # "execute"
         /\ ~aborted[r] => pc[Life(r)] \in Quiet
         /\ ~aborted[r] /\ pc[Life(r)] \in {"find", "status"} => Manual

(* A run that is rejected leaves an attempt that waits for its operator, and *)
(* while a watch compensates a lifecycle that is still at a step the attempt *)
(* stays terminal.                                                           *)
RejectionInv ==
  \A r \in Runs :
    /\ pc[Watch(r)] = "rejected" /\ comp[Watch(r)].failed => Manual
    /\ pc[Watch(r)] = "racing" /\ pc[Life(r)] = "rejected" => Manual
    /\ pc[Life(r)] = "execute"
       /\ pc[Watch(r)] \in CompensationPCs \union {"findTimedOut"} =>
         attemptStatus \in Terminal

TimedOutInv ==
  StepsFailOrTimeOut /\ tenant # "FAILED" =>
    CompensationInv /\ SpoiltInv /\ RejectionInv

\* What a step needs to know to keep it.
TimedOutStep ==
  /\ TypeInv /\ SignalInv /\ ClaimInv /\ [Next]_vars
  /\ StepsFailOrTimeOut /\ tenant # "FAILED" /\ tenant' # "FAILED"
  /\ CompensationInv /\ SpoiltInv /\ RejectionInv

\* What a compensation has read and met changes by its own steps.
LEMMA CompMoves ==
  ASSUME TypeOK, [Next]_vars, NEW p \in Procs, ~Compensate(p),
         ~(\E r \in Runs : p = Watch(r) /\ FindTimedOutTenant(r))
  PROVE  comp'[p] = comp[p]
<1>1. ASSUME NEW r \in Runs, StartLifecycle(r) PROVE comp' = comp
  BY <1>1
  DEF StartLifecycle, FindLinkedTenant, ReadAttemptStatus, ResetAttemptStatus,
      RecordResumedTenant, ClaimAttempt, ReadSafePayload, CreateOrResolveTenant,
      RecordCreatedTenant, RecordTenantCreationFailure
<1>2. ASSUME NEW r \in Runs, ProvisionTenantSchema(r) PROVE comp' = comp
  BY <1>2
  DEF ProvisionTenantSchema, CreateTenantSchema, BootstrapTenantSchema,
      BootstrapTenantSeed, FillTenantSchema, AssignFirstAdmin,
      GenerateSetupLink, SendBackupEmail, Activation, StepReturns, StepThrows,
      StepFails, RecordStep, RecordStepThrows, RecordStepFailure,
      UpsertSucceededAudit, MarkAttemptSucceeded
<1>3. ASSUME NEW q \in Procs, q # p, Compensate(q) PROVE comp'[p] = comp[p]
  BY <1>3
  DEF TypeOK, Compensate, ReadStepOutcomes, RevokeSetupTokens, ReadFirstAdmin,
      DeleteFirstAdmin, DropTenantSchema, MarkTenantFailed, UpsertFailedAudit,
      MarkAttemptFailed, SubStepFails
<1>4. ASSUME NEW r \in Runs,
             Cancel(r) \/ RecordTimeout(r) \/ QueueStep(r) \/ Timeout(r) \/ Crash(r)
      PROVE  comp' = comp
  BY <1>4
  DEF Cancel, RecordTimeout, QueueStep, CompleteJob, RejectJob, Timeout, Crash
<1>5. ASSUME NEW r \in Runs, p # Watch(r), FindTimedOutTenant(r)
      PROVE  comp'[p] = comp[p]
  BY <1>5, ProcsLemma DEF TypeOK, FindTimedOutTenant
<1>6. CASE StartRun \/ UNCHANGED vars
  BY <1>6 DEF StartRun, vars
<1>7. QED
  BY <1>1, <1>2, <1>3, <1>4, <1>5, <1>6, ProcsLemma
  DEF Next, Rest, LifeStep, WatchStep

\* The First Admin's row is inserted where there is none, or deleted.
LEMMA AdminMoves ==
  ASSUME [Next]_vars, admin' # admin
  PROVE  \/ admin = NoAdmin
         \/ \E p \in Procs : DeleteFirstAdmin(p) /\ comp[p].admin = admin
                             /\ UNCHANGED comp
<1>1. ASSUME NEW r \in Runs, StartLifecycle(r) PROVE admin' = admin
  BY <1>1
  DEF StartLifecycle, FindLinkedTenant, ReadAttemptStatus, ResetAttemptStatus,
      RecordResumedTenant, ClaimAttempt, ReadSafePayload, CreateOrResolveTenant,
      RecordCreatedTenant, RecordTenantCreationFailure, resourceVars
<1>2. ASSUME NEW r \in Runs, ProvisionTenantSchema(r)
      PROVE  admin' = admin \/ admin = NoAdmin
  BY <1>2
  DEF ProvisionTenantSchema, CreateTenantSchema, BootstrapTenantSchema,
      BootstrapTenantSeed, FillTenantSchema, AssignFirstAdmin,
      GenerateSetupLink, SendBackupEmail, Activation, StepReturns, StepThrows,
      StepFails, RecordStep, RecordStepThrows, RecordStepFailure,
      UpsertSucceededAudit, MarkAttemptSucceeded, resourceVars
<1>3. ASSUME NEW p \in Procs, Compensate(p)
      PROVE  DeleteFirstAdmin(p) /\ comp[p].admin = admin /\ UNCHANGED comp
  BY <1>3
  DEF Compensate, ReadStepOutcomes, RevokeSetupTokens, ReadFirstAdmin,
      DeleteFirstAdmin, DropTenantSchema, MarkTenantFailed, UpsertFailedAudit,
      MarkAttemptFailed, resourceVars
<1>4. ASSUME NEW r \in Runs,
             \/ Cancel(r) \/ RecordTimeout(r) \/ FindTimedOutTenant(r)
             \/ QueueStep(r) \/ Timeout(r) \/ Crash(r)
      PROVE  admin' = admin
  BY <1>4
  DEF Cancel, RecordTimeout, FindTimedOutTenant, QueueStep, CompleteJob,
      RejectJob, Timeout, Crash, resourceVars
<1>5. ASSUME StartRun \/ UNCHANGED vars PROVE admin' = admin
  BY <1>5 DEF StartRun, vars, resourceVars
<1>6. QED
  BY <1>1, <1>2, <1>3, <1>4, <1>5, ProcsLemma
  DEF Next, Rest, LifeStep, WatchStep

\* Where a compensation stands is moved by itself, the timer's watch, the
\* queue and a crash.
LEMMA DeleteAdminMoves ==
  ASSUME TypeOK, [Next]_vars, NEW p \in Procs, pc'[p] = "deleteAdmin"
  PROVE  pc[p] = "deleteAdmin" \/ ReadFirstAdmin(p)
<1> USE ProcsLemma
<1>1. PICK r \in Runs : p \in {Life(r), Watch(r)}
  BY DEF Procs, Life, Watch
<1>2. ASSUME Compensate(p) PROVE pc[p] = "deleteAdmin" \/ ReadFirstAdmin(p)
  BY <1>2
  DEF TypeOK, Compensate, ReadStepOutcomes, RevokeSetupTokens, DeleteFirstAdmin,
      DropTenantSchema, MarkTenantFailed, UpsertFailedAudit, MarkAttemptFailed,
      Goto
<1>3. CASE p = Life(r)
  <2>1. CASE ~LifeStep(r)
    BY <1>3, <2>1, OthersLeaveLife
  <2>2. CASE StartLifecycle(r)
    BY <1>3, <2>2
    DEF TypeOK, StartLifecycle, FindLinkedTenant, ReadAttemptStatus,
        ResetAttemptStatus, RecordResumedTenant, ClaimAttempt, ReadSafePayload,
        CreateOrResolveTenant, RecordCreatedTenant, RecordTenantCreationFailure,
        Unless, Goto
  <2>3. CASE ProvisionTenantSchema(r)
    BY <1>3, <2>3
    DEF TypeOK, ProvisionTenantSchema, CreateTenantSchema, BootstrapTenantSchema,
        BootstrapTenantSeed, FillTenantSchema, AssignFirstAdmin,
        GenerateSetupLink, SendBackupEmail, Activation, AtStep, StepReturns,
        StepThrows, StepFails, RecordStep, RecordStepThrows, RecordStepFailure,
        UpsertSucceededAudit, MarkAttemptSucceeded, Goto
  <2>4. CASE Cancel(r)
    BY <1>3, <2>4 DEF TypeOK, Cancel
  <2>5. QED
    BY <1>2, <1>3, <2>1, <2>2, <2>3, <2>4 DEF LifeStep
<1>4. CASE p = Watch(r)
  <2>1. CASE ~WatchStep(r)
    BY <1>4, <2>1, OthersLeaveWatch
  <2>2. CASE RecordTimeout(r) \/ FindTimedOutTenant(r)
    BY <1>4, <2>2 DEF TypeOK, RecordTimeout, FindTimedOutTenant, Goto
  <2>3. QED
    BY <1>2, <1>4, <2>1, <2>2 DEF WatchStep
<1>5. QED
  BY <1>1, <1>3, <1>4

\* A compensation fails where two have read the First Admin and one of them
\* deletes it.
LEMMA SpoiltComes ==
  ASSUME TimedOutStep, ~SomeSpoilt, SomeSpoilt'
  PROVE  \E d, p \in Procs : /\ d # p /\ DeleteFirstAdmin(d)
                             /\ pc[d] = "deleteAdmin" /\ pc[p] = "deleteAdmin"
<1> USE DEF TimedOutStep
<1>1. PICK p \in Procs :
        \/ comp'[p].failed
        \/ pc'[p] = "deleteAdmin" /\ comp'[p].admin \notin {NoAdmin, admin'}
  BY DEF SomeSpoilt, Spoilt
<1>2. ~comp[p].failed /\ TypeOK
  BY DEF SomeSpoilt, Spoilt, TypeInv
<1>3. comp[p] \in Compensations
  BY <1>2 DEF TypeOK
<1>4. ~DropTenantSchema(p) \/ comp' = comp
  BY NoOtherFault DEF DropTenantSchema
<1>5. ~RevokeSetupTokens(p) \/ comp' = comp
  BY NoOtherFault DEF RevokeSetupTokens
<1>6. ~DeleteFirstAdmin(p) \/ comp' = comp
  BY NoOtherFault DEF DeleteFirstAdmin, SomeSpoilt, Spoilt, Goto
<1>7. \/ comp'[p] = comp[p]
      \/ comp'[p].failed = FALSE /\ comp'[p].admin = NoAdmin
      \/ comp'[p].failed = comp[p].failed /\ comp'[p].admin = admin
         /\ ReadFirstAdmin(p)
  <2>1. CASE ReadStepOutcomes(p)
    <3>1. CASE comp' = comp
      BY <3>1
    <3>2. CASE comp' # comp
      <4>1. comp' = [comp EXCEPT ![p] =
                      [schemaCreated |-> outcomes["schema_created"] = "succeeded",
                       admin |-> NoAdmin, failed |-> FALSE]]
        BY <2>1, <3>2 DEF ReadStepOutcomes
      <4>2. comp'[p] = [schemaCreated |-> outcomes["schema_created"] = "succeeded",
                        admin |-> NoAdmin, failed |-> FALSE]
        BY <1>2, <4>1 DEF TypeOK
      <4>3. QED
        BY <4>2
    <3>3. QED
      BY <3>1, <3>2
  <2>2. CASE ReadFirstAdmin(p)
    <3>1. comp' = [comp EXCEPT ![p].admin = admin]
      BY <2>2 DEF ReadFirstAdmin
    <3>2. QED
      BY <1>2, <1>3, <2>2, <3>1 DEF TypeOK, Compensations
  <2>3. CASE MarkTenantFailed(p) \/ UpsertFailedAudit(p) \/ MarkAttemptFailed(p)
    BY <2>3 DEF MarkTenantFailed, UpsertFailedAudit, MarkAttemptFailed
  <2>4. ASSUME NEW r \in Runs, p = Watch(r), FindTimedOutTenant(r)
        PROVE  comp'[p].failed = FALSE /\ comp'[p].admin = NoAdmin
    BY <1>2, <2>4, ProcsLemma DEF TypeOK, FindTimedOutTenant, FreshCompensation
  <2>5. CASE ~Compensate(p) /\ ~(\E r \in Runs : p = Watch(r) /\ FindTimedOutTenant(r))
    BY <1>2, <2>5, CompMoves
  <2>6. CASE Compensate(p)
    BY <1>4, <1>5, <1>6, <2>1, <2>2, <2>3, <2>6 DEF Compensate
  <2>7. QED
    BY <2>4, <2>5, <2>6
<1>8. ~ReadFirstAdmin(p) \/ admin' = admin
  BY DEF ReadFirstAdmin, resourceVars
<1>9. /\ pc'[p] = "deleteAdmin" /\ comp'[p].admin \notin {NoAdmin, admin'}
      /\ comp'[p] = comp[p] /\ ~ReadFirstAdmin(p)
  <2>1. ~comp'[p].failed
    BY <1>2, <1>7
  <2>2. pc'[p] = "deleteAdmin" /\ comp'[p].admin \notin {NoAdmin, admin'}
    BY <1>1, <2>1
  <2>3. ~ReadFirstAdmin(p)
    <3>1. ReadFirstAdmin(p) => comp'[p].admin = admin
      BY <1>2, <1>3 DEF ReadFirstAdmin, TypeOK, Compensations
    <3>2. QED
      BY <1>8, <2>2, <3>1
  <2>4. QED
    BY <1>7, <2>2, <2>3
<1>10. pc[p] = "deleteAdmin"
  BY <1>2, <1>9, DeleteAdminMoves
<1>11. comp[p].admin \in {NoAdmin, admin}
  BY <1>10 DEF SomeSpoilt, Spoilt
<1>12. admin' # admin /\ admin # NoAdmin
  BY <1>9, <1>11
<1>13. PICK d \in Procs : DeleteFirstAdmin(d)
  BY <1>12, AdminMoves
<1>14. pc[d] = "deleteAdmin" /\ pc'[d] = "dropSchema"
  BY <1>2, <1>13 DEF TypeOK, DeleteFirstAdmin, Goto
<1>15. QED
  BY <1>9, <1>10, <1>13, <1>14

\* Before any has failed, only the current run compensates: the lifecycle of
\* an earlier run is over, or has not come to the tenant.
LEMMA CompensatesNow ==
  ASSUME TimedOutStep, ~SomeSpoilt, NEW r \in Runs,
         pc[Life(r)] = "deleteAdmin" \/ pc[Watch(r)] = "deleteAdmin"
  PROVE  job.state = "active" /\ job.run = r
<1> USE DEF TimedOutStep
<1>1. CASE pc[Watch(r)] = "deleteAdmin"
  BY <1>1 DEF TypeInv, QueueInv, OneWatch
<1>2. CASE pc[Life(r)] = "deleteAdmin"
  <2>1. pc[Watch(r)] \notin {"idle", "dead"}
    BY <1>2 DEF TypeInv, QueueInv, OneWatch
  <2>2. pc[Watch(r)] # "settled"
    <3>1. CASE aborted[r]
      BY <1>2, <3>1, ProcsLemma DEF CompensationInv, EarlyLife, SomeSpoilt, Spoilt
    <3>2. CASE ~aborted[r]
      BY <1>2, <3>2 DEF SignalInv, Finished
    <3>3. QED
      BY <3>1, <3>2
  <2>3. QED
    BY <2>1, <2>2 DEF TypeInv, QueueInv, OneWatch
<1>3. QED
  BY <1>1, <1>2

\* So the two that meet are the lifecycle and the watch of one run.
LEMMA SpoiltByTwo ==
  ASSUME TimedOutStep, ~SomeSpoilt, SomeSpoilt'
  PROVE  \E r \in Runs : /\ pc[Life(r)] = "deleteAdmin"
                         /\ pc[Watch(r)] = "deleteAdmin"
                         /\ DeleteFirstAdmin(Life(r)) \/ DeleteFirstAdmin(Watch(r))
                         /\ job.state = "active" /\ job.run = r
<1>1. PICK d, p \in Procs : /\ d # p /\ DeleteFirstAdmin(d)
                            /\ pc[d] = "deleteAdmin" /\ pc[p] = "deleteAdmin"
  BY SpoiltComes
<1>2. PICK q \in Runs : d \in {Life(q), Watch(q)}
  BY DEF Procs, Life, Watch
<1>3. PICK r \in Runs : p \in {Life(r), Watch(r)}
  BY DEF Procs, Life, Watch
<1>4. job.state = "active" /\ job.run = q /\ job.run = r
  BY <1>1, <1>2, <1>3, CompensatesNow
<1>5. QED
  BY <1>1, <1>2, <1>3, <1>4

\* Two that meet keep no lifecycle at a step and no watch near its end.
LEMMA SpoiltNow ==
  ASSUME TimedOutStep, ~SomeSpoilt, SomeSpoilt', NEW q \in Runs
  PROVE  /\ tenant' # "none" /\ job'.state # "queued"
         /\ pc[Watch(q)] \notin Ending
         /\ pc'[Life(q)] # "execute"
         /\ ~aborted'[q] => pc'[Life(q)] \in Quiet \ {"find", "status"}
<1> USE DEF TimedOutStep
<1>1. PICK r \in Runs : /\ pc[Life(r)] = "deleteAdmin"
                        /\ pc[Watch(r)] = "deleteAdmin"
                        /\ DeleteFirstAdmin(Life(r)) \/ DeleteFirstAdmin(Watch(r))
                        /\ job.state = "active" /\ job.run = r
  BY SpoiltByTwo
<1>2. TypeOK /\ job' = job /\ tenant' = tenant /\ aborted' = aborted
  BY <1>1 DEF TypeInv, DeleteFirstAdmin, runVars
<1>3. tenant # "none"
  BY <1>1 DEF ClaimInv, EarlyLife
<1>4. pc[Watch(q)] \notin Ending
  BY <1>1 DEF TypeInv, QueueInv, OneWatch, Ending
<1>5. CASE q = r
  <2>1. pc'[Life(r)] \in {"deleteAdmin", "dropSchema"}
    BY <1>1, <1>2, ProcsLemma DEF TypeOK, DeleteFirstAdmin, Goto
  <2>2. QED
    BY <1>1, <1>2, <1>3, <1>4, <1>5, <2>1 DEF Quiet, CompensationPCs
<1>6. CASE q # r
  <2>1. pc'[Life(q)] = pc[Life(q)]
    BY <1>1, <1>2, <1>6, ProcsLemma DEF TypeOK, DeleteFirstAdmin, Goto, Life, Watch
  <2>2. pc[Watch(q)] \in {"idle", "settled", "dead"}
    BY <1>1, <1>6 DEF TypeInv, QueueInv, OneWatch
  <2>3. CASE ~aborted[q]
    <3>1. pc[Life(q)] \in Finished
      BY <2>2, <2>3 DEF SignalInv
    <3>2. QED
      BY <1>1, <1>2, <1>3, <1>4, <2>1, <2>3, <3>1 DEF Quiet, Finished
  <2>4. CASE aborted[q]
    <3>1. pc[Watch(q)] # "idle"
      BY <2>4 DEF SignalInv, TimedOutWatch, CompensationPCs
    <3>2. pc[Watch(q)] = "dead" => pc[Life(q)] = "dead"
      BY DEF TypeInv, QueueInv, OneWatch
    <3>3. pc[Watch(q)] = "settled" => pc[Life(q)] \in EarlyLife
      BY <2>4, ProcsLemma DEF CompensationInv, SomeSpoilt, Spoilt
    <3>4. pc[Life(q)] # "execute"
      BY <2>2, <3>1, <3>2, <3>3 DEF EarlyLife
    <3>5. QED
      BY <1>1, <1>2, <1>3, <1>4, <2>1, <2>4, <3>4
  <2>5. QED
    BY <1>2, <2>3, <2>4 DEF TypeOK
<1>7. QED
  BY <1>5, <1>6

\* An attempt that waits for its operator does so until a watch times out,
\* ends its compensation, or loses its race to a success.
LEMMA ManualKeeps ==
  ASSUME TimedOutStep, Manual, ~Manual'
  PROVE  \E r \in Runs :
           /\ job.state = "active" /\ job.run = r
           /\ \/ pc[Watch(r)] \in {"recordTimeout", "statusFailed"}
              \/ pc[Watch(r)] = "racing" /\ pc[Life(r)] = "statusSucceeded"
<1> USE DEF TimedOutStep
<1>1. attemptStatus' # attemptStatus
  BY DEF Manual
<1>2. ASSUME NEW r \in Runs, MarkAttemptSucceeded(r)
      PROVE  /\ pc[Watch(r)] = "racing" /\ pc[Life(r)] = "statusSucceeded"
             /\ job.state = "active" /\ job.run = r
  <2>1. pc[Life(r)] = "statusSucceeded" /\ ~aborted[r]
    BY <1>2 DEF MarkAttemptSucceeded, Goto
  <2>2. pc[Watch(r)] = "racing"
    BY <2>1 DEF SignalInv, Finished
  <2>3. QED
    BY <2>1, <2>2 DEF TypeInv, QueueInv, OneWatch
<1>3. ASSUME NEW r \in Runs, RecordTimeout(r)
      PROVE  /\ pc[Watch(r)] = "recordTimeout"
             /\ job.state = "active" /\ job.run = r
  BY <1>3 DEF RecordTimeout, Goto, TypeInv, QueueInv, OneWatch
<1>4. ASSUME NEW p \in Procs, MarkAttemptFailed(p), attemptStatus' = FailureStatus(p)
      PROVE  \E r \in Runs : /\ pc[Watch(r)] = "statusFailed"
                             /\ job.state = "active" /\ job.run = r
  <2>1. pc[p] = "statusFailed" /\ ~comp[p].failed
    BY <1>4 DEF MarkAttemptFailed, Goto, FailureStatus, Manual
  <2>2. PICK r \in Runs : p \in {Life(r), Watch(r)}
    BY DEF Procs, Life, Watch
  <2>3. p = Watch(r)
    BY <2>1, <2>2 DEF CompensationInv
  <2>4. QED
    BY <2>1, <2>3 DEF TypeInv, QueueInv, OneWatch
<1>5. ASSUME NEW r \in Runs, RecordTenantCreationFailure(r) PROVE FALSE
  BY <1>5 DEF RecordTenantCreationFailure, CompensationInv, Goto
<1>6. QED
  BY <1>1, <1>2, <1>3, <1>4, <1>5, StatusWrites DEF Manual, Terminal

\* A lifecycle that was told to stop before it came to the tenant never does.
LEMMA EarlyStays ==
  ASSUME TypeOK, [Next]_vars, NEW r \in Runs, aborted[r],
         pc[Life(r)] \in EarlyLife
  PROVE  pc'[Life(r)] \in EarlyLife
<1> USE ProcsLemma DEF TypeOK, Goto, EarlyLife
<1>1. CASE ~LifeStep(r)
  BY <1>1, OthersLeaveLife
<1>2. CASE StartLifecycle(r)
  BY <1>2
  DEF StartLifecycle, FindLinkedTenant, ReadAttemptStatus, ResetAttemptStatus,
      RecordResumedTenant, ClaimAttempt, ReadSafePayload, CreateOrResolveTenant,
      RecordCreatedTenant, RecordTenantCreationFailure, Unless
<1>3. CASE ProvisionTenantSchema(r)
  BY <1>3
  DEF ProvisionTenantSchema, CreateTenantSchema, BootstrapTenantSchema,
      BootstrapTenantSeed, FillTenantSchema, AssignFirstAdmin,
      GenerateSetupLink, SendBackupEmail, Activation, AtStep, StepThrows,
      RecordStep, RecordStepThrows, RecordStepFailure, UpsertSucceededAudit,
      MarkAttemptSucceeded
<1>4. CASE Compensate(Life(r)) \/ Cancel(r)
  BY <1>4, CompensateMoves DEF Cancel, CompensationPCs
<1>5. QED
  BY <1>1, <1>2, <1>3, <1>4 DEF LifeStep

\* A compensation that gets past the tenant without marking it FAILED failed.
LEMMA EndingFails ==
  ASSUME TimedOutStep, NEW p \in Procs, Compensate(p),
         pc'[p] \in {"auditFailed", "statusFailed", "rejected"}
  PROVE  \/ pc[p] = "dropSchema" /\ comp'[p].failed
         \/ pc[p] = "auditFailed" /\ pc'[p] = "statusFailed" /\ comp' = comp
         \/ /\ MarkAttemptFailed(p) /\ comp' = comp
            /\ attemptStatus' = FailureStatus(p)
<1> USE NoOtherFault DEF TimedOutStep, TypeInv, TypeOK, Goto
<1>1. CASE ReadStepOutcomes(p) \/ RevokeSetupTokens(p) \/ ReadFirstAdmin(p)
  BY <1>1 DEF ReadStepOutcomes, RevokeSetupTokens, ReadFirstAdmin
<1>2. CASE DeleteFirstAdmin(p) \/ MarkTenantFailed(p)
  BY <1>2 DEF DeleteFirstAdmin, MarkTenantFailed
<1>3. CASE DropTenantSchema(p)
  BY <1>3 DEF DropTenantSchema
<1>4. CASE UpsertFailedAudit(p)
  BY <1>4 DEF UpsertFailedAudit
<1>5. CASE MarkAttemptFailed(p)
  BY <1>5 DEF MarkAttemptFailed, WriteStatus, WriteDropped, FailureStatus, Terminal
<1>6. QED
  BY <1>1, <1>2, <1>3, <1>4, <1>5 DEF Compensate

\* A lifecycle ends its compensation like this, and does nothing else there.
LEMMA LifeEnding ==
  ASSUME TimedOutStep, NEW r \in Runs
  PROVE  /\ pc'[Life(r)] # "recordCreationFailure"
         /\ pc'[Life(r)] \in {"auditFailed", "statusFailed"} => comp'[Life(r)].failed
<1> USE ProcsLemma DEF TimedOutStep
<1>0. /\ pc[Life(r)] # "recordCreationFailure"
      /\ pc[Life(r)] \in {"auditFailed", "statusFailed"} => comp[Life(r)].failed
      /\ TypeOK
  BY DEF CompensationInv, TypeInv
<1>1. CASE ~LifeStep(r)
  <2>1. pc'[Life(r)] = pc[Life(r)] \/ pc'[Life(r)] \in {"find", "dead"}
    BY <1>0, <1>1, OthersLeaveLife
  <2>2. ~Compensate(Life(r))
    BY <1>1 DEF LifeStep
  <2>3. comp'[Life(r)] = comp[Life(r)]
    BY <1>0, <2>2, CompMoves DEF Life, Watch
  <2>4. QED
    BY <1>0, <2>1, <2>3
<1>2. CASE StartLifecycle(r)
  BY <1>0, <1>2, NoOtherFault
  DEF TypeOK, Goto, StartLifecycle, FindLinkedTenant, ReadAttemptStatus,
      ResetAttemptStatus, RecordResumedTenant, ClaimAttempt, ReadSafePayload,
      CreateOrResolveTenant, RecordCreatedTenant, RecordTenantCreationFailure,
      Unless
<1>3. CASE ProvisionTenantSchema(r)
  BY <1>0, <1>3
  DEF TypeOK, Goto, ProvisionTenantSchema, CreateTenantSchema,
      BootstrapTenantSchema, BootstrapTenantSeed, FillTenantSchema,
      AssignFirstAdmin, GenerateSetupLink, SendBackupEmail, Activation, AtStep,
      StepReturns, StepThrows, StepFails, RecordStep, RecordStepThrows,
      RecordStepFailure, UpsertSucceededAudit, MarkAttemptSucceeded
<1>4. CASE Cancel(r)
  BY <1>0, <1>4 DEF TypeOK, Cancel
<1>5. CASE Compensate(Life(r))
  <2>1. pc'[Life(r)] # "recordCreationFailure"
    BY <1>0, <1>5, CompensateMoves DEF CompensationPCs
  <2>2. ASSUME pc'[Life(r)] \in {"auditFailed", "statusFailed"}
        PROVE  comp'[Life(r)].failed
    <3>1. ~MarkAttemptFailed(Life(r))
      BY <1>0, <2>2 DEF TypeOK, MarkAttemptFailed, Goto
    <3>2. QED
      BY <1>0, <1>5, <2>2, <3>1, EndingFails
  <2>3. QED
    BY <2>1, <2>2
<1>6. QED
  BY <1>1, <1>2, <1>3, <1>4, <1>5 DEF LifeStep

\* A watch ends its compensation like this.
LEMMA WatchEnding ==
  ASSUME TimedOutStep, NEW r \in Runs, aborted'[r],
         pc'[Watch(r)] \in Ending \union {"settled"}
  PROVE  \/ comp'[Watch(r)].failed
         \/ /\ pc'[Life(r)] \in EarlyLife
            /\ pc'[Watch(r)] \in Ending => ~SomeSpoilt'
<1> USE ProcsLemma DEF TimedOutStep
<1>1. TypeOK /\ aborted[r]
  <2>1. ~Timeout(r)
    BY DEF TypeInv, TypeOK, Timeout, Goto, Ending
  <2>2. QED
    BY <2>1, SignalMoves DEF TypeInv
<1>2. pc[Watch(r)] \in TimedOutWatch
  BY <1>1 DEF SignalInv
<1>3. CASE pc[Watch(r)] \in Ending \union {"settled"} /\ ~comp[Watch(r)].failed
  <2>1. pc[Life(r)] \in EarlyLife /\ (pc[Watch(r)] \in Ending => ~SomeSpoilt)
    BY <1>1, <1>3 DEF CompensationInv
  <2>2. pc'[Life(r)] \in EarlyLife
    BY <1>1, <2>1, EarlyStays
  <2>3. pc'[Watch(r)] \in Ending => pc[Watch(r)] \in Ending
    <3>1. pc[Watch(r)] = "settled" => ~WatchStep(r)
      BY <1>1, WatchWorks DEF CompensationPCs
    <3>2. QED
      BY <1>1, <1>3, <3>1, OthersLeaveWatch DEF Ending
  <2>4. pc'[Watch(r)] \in Ending => ~SomeSpoilt'
    BY <2>1, <2>3, SpoiltNow
  <2>5. QED
    BY <2>2, <2>4
<1>4. CASE pc[Watch(r)] \in Ending \union {"settled"} /\ comp[Watch(r)].failed
  <2>1. CASE Compensate(Watch(r))
    <3>1. pc[Watch(r)] # "dropSchema"
      BY <1>4 DEF Ending
    <3>2. pc'[Watch(r)] \in {"auditFailed", "statusFailed", "rejected"}
      BY <1>1, <2>1, CompensateMoves DEF Ending, CompensationPCs
    <3>3. comp' = comp
      BY <2>1, <3>1, <3>2, EndingFails
    <3>4. QED
      BY <1>4, <3>3
  <2>2. CASE ~Compensate(Watch(r))
    <3>1. \A q \in Runs : Watch(r) = Watch(q) => ~FindTimedOutTenant(q)
      BY <1>4 DEF FindTimedOutTenant, Goto, Ending
    <3>2. comp'[Watch(r)] = comp[Watch(r)]
      BY <1>1, <2>2, <3>1, CompMoves
    <3>3. QED
      BY <1>4, <3>2
  <2>3. QED
    BY <2>1, <2>2
<1>5. CASE pc[Watch(r)] \notin Ending \union {"settled"}
  <2>1. WatchStep(r)
    <3>1. CASE ~WatchStep(r)
      <4>1. pc'[Watch(r)] = "settled" /\ pc[Watch(r)] # "settled"
        BY <1>1, <1>5, <3>1, OthersLeaveWatch DEF Ending
      <4>2. QueueStep(r)
        BY <1>1, <3>1, <4>1, OthersMoveThemselves, LifeMoves
        DEF TypeOK, Timeout, Crash, StartRun, Goto
      <4>3. pc[Watch(r)] \in {"racing", "rejected"}
        BY <4>2 DEF QueueStep, CompleteJob, RejectJob, Goto
      <4>4. QED
        BY <1>2, <1>5, <4>3 DEF TimedOutWatch, CompensationPCs, Ending
    <3>2. QED
      BY <3>1
  <2>2. CASE RecordTimeout(r)
    <3>1. pc'[Watch(r)] = "findTimedOut"
      BY <1>1, <2>2, NoOtherFault DEF TypeOK, RecordTimeout, Goto
    <3>2. QED
      BY <3>1 DEF Ending
  <2>3. CASE FindTimedOutTenant(r)
    <3>1. tenant = "none"
      BY <1>1, <2>3 DEF TypeOK, FindTimedOutTenant, Goto, Ending
    <3>2. pc[Life(r)] \in EarlyLife /\ ~SomeSpoilt
      BY <3>1 DEF ClaimInv, SpoiltInv
    <3>3. pc'[Life(r)] \in EarlyLife
      BY <1>1, <3>2, EarlyStays
    <3>4. tenant' = "none"
      BY <2>3, <3>1 DEF FindTimedOutTenant
    <3>5. ~SomeSpoilt'
      BY <3>2, <3>4, SpoiltNow
    <3>6. QED
      BY <3>3, <3>5
  <2>4. CASE Compensate(Watch(r))
    <3>1. pc[Watch(r)] # "auditFailed" /\ pc[Watch(r)] # "statusFailed"
      BY <1>5 DEF Ending
    <3>2. pc'[Watch(r)] \in {"auditFailed", "statusFailed", "rejected"}
      BY <1>1, <2>4, CompensateMoves DEF Ending, CompensationPCs
    <3>3. ~MarkAttemptFailed(Watch(r))
      BY <3>1 DEF MarkAttemptFailed, Goto
    <3>4. QED
      BY <2>4, <3>1, <3>2, <3>3, EndingFails
  <2>5. QED
    BY <2>1, <2>2, <2>3, <2>4 DEF WatchStep
<1>6. QED
  BY <1>3, <1>4, <1>5

\* A lifecycle takes a step of the provisioning, without a signal, only from
\* where it already was on its way to one.
LEMMA QuietMoves ==
  ASSUME TimedOutStep, SomeSpoilt, NEW r \in Runs
  PROVE  /\ pc'[Life(r)] # "execute"
         /\ ~aborted'[r] => pc'[Life(r)] \in Quiet
         /\ ~aborted'[r] /\ pc'[Life(r)] \in {"find", "status"} =>
              \/ ~aborted[r] /\ pc[Life(r)] \in {"find", "status"}
              \/ job.state = "queued"
<1> USE ProcsLemma DEF TimedOutStep
<1>0. /\ TypeOK /\ tenant # "none" /\ pc[Life(r)] # "execute"
      /\ ~aborted[r] => pc[Life(r)] \in Quiet
      /\ ~aborted[r] /\ pc[Life(r)] \in {"find", "status"} => Manual
      /\ aborted[r] => aborted'[r]
  BY SignalMoves DEF SpoiltInv, TypeInv
<1>1. CASE ~LifeStep(r)
  <2>1. CASE pc'[Life(r)] = pc[Life(r)]
    BY <1>0, <2>1
  <2>2. CASE pc'[Life(r)] # pc[Life(r)]
    <3>1. pc'[Life(r)] \in {"find", "dead"}
      BY <1>0, <1>1, <2>2, OthersLeaveLife
    <3>2. pc'[Life(r)] = "find" => job.state = "queued"
      <4>1. \/ Timeout(r) \/ Crash(r) \/ QueueStep(r) \/ WatchStep(r) \/ StartRun
        BY <1>0, <1>1, <2>2, OthersMoveThemselves
      <4>2. CASE Timeout(r) \/ QueueStep(r)
        BY <1>0, <2>2, <4>2
        DEF TypeOK, Timeout, QueueStep, CompleteJob, RejectJob, Goto
      <4>3. CASE WatchStep(r)
        BY <1>0, <2>2, <4>3, WatchMoves
      <4>4. CASE Crash(r)
        BY <1>0, <4>4 DEF TypeOK, Crash
      <4>5. CASE StartRun
        BY <4>5 DEF StartRun
      <4>6. QED
        BY <4>1, <4>2, <4>3, <4>4, <4>5
    <3>3. QED
      BY <3>1, <3>2 DEF Quiet, Finished
  <2>3. QED
    BY <2>1, <2>2
<1>2. CASE StartLifecycle(r)
  BY <1>0, <1>2
  DEF TypeOK, Goto, StartLifecycle, FindLinkedTenant, ReadAttemptStatus,
      ResetAttemptStatus, RecordResumedTenant, ClaimAttempt, ReadSafePayload,
      CreateOrResolveTenant, RecordCreatedTenant, RecordTenantCreationFailure,
      Unless, Manual, Quiet, Finished, CompensationPCs
<1>3. CASE ProvisionTenantSchema(r)
  BY <1>0, <1>3
  DEF TypeOK, Goto, ProvisionTenantSchema, CreateTenantSchema,
      BootstrapTenantSchema, BootstrapTenantSeed, FillTenantSchema,
      AssignFirstAdmin, GenerateSetupLink, SendBackupEmail, Activation, AtStep,
      StepReturns, StepThrows, StepFails, RecordStep, RecordStepThrows,
      RecordStepFailure, UpsertSucceededAudit, MarkAttemptSucceeded, Quiet,
      Finished, CompensationPCs, runVars
<1>4. CASE Compensate(Life(r)) \/ Cancel(r)
  BY <1>0, <1>4, CompensateMoves
  DEF TypeOK, Cancel, Quiet, Finished, CompensationPCs
<1>5. QED
  BY <1>1, <1>2, <1>3, <1>4 DEF LifeStep

\* Once a compensation failed, the runs to come find an attempt that waits.
LEMMA SpoiltKeeps == ASSUME TimedOutStep PROVE SpoiltInv'
<1> SUFFICES ASSUME SomeSpoilt'
             PROVE  /\ tenant' # "none"
                    /\ job'.state = "queued" => Manual'
                    /\ \A r \in Runs :
                         /\ pc'[Life(r)] # "execute"
                         /\ ~aborted'[r] => pc'[Life(r)] \in Quiet
                         /\ ~aborted'[r] /\ pc'[Life(r)] \in {"find", "status"}
                              => Manual'
  BY DEF SpoiltInv
<1> USE DEF TimedOutStep
<1>1. CASE ~SomeSpoilt
  <2>1. 1 \in Runs
    BY ConstantsAssumption DEF Runs
  <2>2. tenant' # "none" /\ job'.state # "queued"
    BY <1>1, <2>1, SpoiltNow
  <2>3. QED
    BY <1>1, <2>2, SpoiltNow
<1>2. CASE SomeSpoilt
  <2>1. tenant # "none" /\ (job.state = "queued" => Manual)
    BY <1>2 DEF SpoiltInv
  <2>2. tenant' # "none"
    BY <2>1, TenantMoves
  <2>3. ASSUME job.state = "queued" PROVE Manual'
    BY <2>1, <2>3, ManualKeeps
  <2>4. ASSUME NEW r \in Runs, ~aborted[r], pc[Life(r)] \in {"find", "status"}
        PROVE  Manual'
    <3>1. Manual /\ pc[Watch(r)] = "racing"
      BY <1>2, <2>4 DEF SpoiltInv, SignalInv, Finished
    <3>2. job.state = "active" /\ job.run = r
      BY <3>1 DEF TypeInv, QueueInv, OneWatch
    <3>3. QED
      BY <2>4, <3>1, <3>2, ManualKeeps
  <2>5. ASSUME job'.state = "queued", job.state # "queued" PROVE Manual'
    <3>1. job' # job /\ ~StartRun
      BY <2>5 DEF StartRun
    <3>2. PICK r \in Runs : QueueStep(r)
      <4>1. ~UNCHANGED vars
        BY <3>1 DEF vars
      <4>2. ASSUME NEW r \in Runs, LifeStep(r) \/ WatchStep(r) PROVE FALSE
        BY <3>1, <4>2, LifeMoves, WatchMoves DEF TypeInv
      <4>3. ASSUME NEW r \in Runs, Timeout(r) \/ Crash(r) PROVE FALSE
        BY <3>1, <4>3, NoOtherFault DEF Timeout, Crash
      <4>4. QED
        BY <3>1, <4>1, <4>2, <4>3 DEF Next, Rest
    <3>3. \/ pc[Life(r)] = "rejected" /\ pc[Watch(r)] = "racing"
          \/ pc[Watch(r)] = "rejected"
      <4>1. CASE CompleteJob(r)
        <5>1. job' = [job EXCEPT !.state = "completed", !.made = @ + 1]
          BY <4>1 DEF CompleteJob
        <5>2. job'.state = "completed"
          BY <5>1 DEF TypeInv, TypeOK, Jobs
        <5>3. QED
          BY <2>5, <5>2
      <4>2. CASE RejectJob(r)
        BY <4>2 DEF RejectJob, Goto
      <4>3. QED
        BY <3>2, <4>1, <4>2 DEF QueueStep
    <3>4. Manual
      <4>1. CASE pc[Watch(r)] = "rejected"
        <5>1. aborted[r]
          BY <4>1 DEF SignalInv, TypeInv, TypeOK
        <5>2. comp[Watch(r)].failed
          BY <1>2, <4>1, <5>1 DEF CompensationInv, Ending
        <5>3. QED
          BY <4>1, <5>2 DEF RejectionInv
      <4>2. QED
        BY <3>3, <4>1 DEF RejectionInv
    <3>5. attemptStatus' = attemptStatus
      BY <3>2 DEF QueueStep, CompleteJob, RejectJob, attemptVars
    <3>6. QED
      BY <3>4, <3>5 DEF Manual
  <2>6. job'.state = "queued" => Manual'
    BY <2>3, <2>5
  <2>7. ASSUME NEW r \in Runs
        PROVE  /\ pc'[Life(r)] # "execute"
               /\ ~aborted'[r] => pc'[Life(r)] \in Quiet
               /\ ~aborted'[r] /\ pc'[Life(r)] \in {"find", "status"} => Manual'
    BY <1>2, <2>3, <2>4, <2>7, QuietMoves
  <2>8. QED
    BY <2>2, <2>6, <2>7
<1>3. QED
  BY <1>1, <1>2

\* A run that is rejected leaves an attempt that waits, and a watch that
\* compensates a lifecycle at work keeps the attempt terminal.
LEMMA RejectionKeeps == ASSUME TimedOutStep PROVE RejectionInv'
<1> SUFFICES ASSUME NEW r \in Runs
             PROVE  /\ pc'[Watch(r)] = "rejected" /\ comp'[Watch(r)].failed => Manual'
                    /\ pc'[Watch(r)] = "racing" /\ pc'[Life(r)] = "rejected" => Manual'
                    /\ pc'[Life(r)] = "execute"
                       /\ pc'[Watch(r)] \in CompensationPCs \union {"findTimedOut"}
                         => attemptStatus' \in Terminal
  BY DEF RejectionInv
<1> USE ProcsLemma DEF TimedOutStep
<1>0. TypeOK
  BY DEF TypeInv
<1>1. ASSUME pc'[Watch(r)] = "rejected", comp'[Watch(r)].failed PROVE Manual'
  <2>1. CASE WatchStep(r)
    <3>1. CASE RecordTimeout(r) \/ FindTimedOutTenant(r)
      BY <1>0, <1>1, <3>1, NoOtherFault
      DEF TypeOK, RecordTimeout, FindTimedOutTenant, Goto
    <3>2. CASE Compensate(Watch(r))
      <4>1. /\ MarkAttemptFailed(Watch(r)) /\ comp' = comp
            /\ attemptStatus' = FailureStatus(Watch(r))
        <5>1. pc[Watch(r)] # "dropSchema"
          BY <1>0, <1>1, <3>2
          DEF TypeOK, Compensate, ReadStepOutcomes, RevokeSetupTokens,
              ReadFirstAdmin, DeleteFirstAdmin, DropTenantSchema,
              MarkTenantFailed, UpsertFailedAudit, MarkAttemptFailed, Goto
        <5>2. QED
          BY <1>1, <3>2, <5>1, EndingFails
      <4>2. QED
        BY <1>1, <4>1 DEF FailureStatus, Manual
    <3>3. QED
      BY <2>1, <3>1, <3>2 DEF WatchStep
  <2>2. CASE ~WatchStep(r)
    <3>1. pc[Watch(r)] = "rejected"
      BY <1>0, <1>1, <2>2, OthersLeaveWatch
    <3>2. ~Compensate(Watch(r))
      BY <2>2 DEF WatchStep
    <3>3. \A q \in Runs : Watch(r) = Watch(q) => ~FindTimedOutTenant(q)
      BY <3>1 DEF FindTimedOutTenant, Goto
    <3>4. comp'[Watch(r)] = comp[Watch(r)]
      BY <1>0, <3>2, <3>3, CompMoves
    <3>5. Manual /\ job.state = "active" /\ job.run = r
      BY <1>1, <3>1, <3>4 DEF RejectionInv, TypeInv, QueueInv, OneWatch
    <3>6. QED
      BY <3>1, <3>5, ManualKeeps
  <2>3. QED
    BY <2>1, <2>2
<1>2. ASSUME pc'[Watch(r)] = "racing", pc'[Life(r)] = "rejected" PROVE Manual'
  <2>1. pc[Watch(r)] = "racing"
    <3>1. ~WatchStep(r)
      BY <1>0, <1>2, WatchWorks DEF CompensationPCs
    <3>2. \/ ~StartRun
          \/ r # job.run + 1
      BY <1>0, <1>2 DEF TypeOK, StartRun
    <3>3. CASE LifeStep(r)
      BY <1>0, <1>2, <3>3, LifeMoves
    <3>4. CASE Timeout(r) \/ Crash(r) \/ QueueStep(r)
      BY <1>0, <1>2, <3>4
      DEF TypeOK, Timeout, Crash, QueueStep, CompleteJob, RejectJob, Goto
    <3>5. QED
      BY <1>0, <1>2, <3>1, <3>2, <3>3, <3>4, OthersMoveThemselves
  <2>2. job.state = "active" /\ job.run = r /\ ~aborted[r]
    BY <2>1 DEF TypeInv, QueueInv, OneWatch, SignalInv, TimedOutWatch,
                CompensationPCs
  <2>3. CASE pc[Life(r)] = "rejected"
    <3>1. Manual
      BY <2>1, <2>3 DEF RejectionInv
    <3>2. QED
      BY <2>1, <2>2, <2>3, <3>1, ManualKeeps
  <2>4. CASE pc[Life(r)] # "rejected"
    <3>1. LifeStep(r)
      BY <1>0, <1>2, <2>4, OthersLeaveLife
    <3>2. CASE StartLifecycle(r)
      BY <1>0, <1>2, <3>2, NoOtherFault
      DEF TypeOK, Goto, StartLifecycle, FindLinkedTenant, ReadAttemptStatus,
          ResetAttemptStatus, RecordResumedTenant, ClaimAttempt,
          ReadSafePayload, CreateOrResolveTenant, RecordCreatedTenant,
          RecordTenantCreationFailure, CompensationInv, Unless, Manual,
          attemptVars
    <3>3. CASE ProvisionTenantSchema(r)
      BY <1>0, <1>2, <2>4, <3>3
      DEF TypeOK, Goto, ProvisionTenantSchema, CreateTenantSchema,
          BootstrapTenantSchema, BootstrapTenantSeed, FillTenantSchema,
          AssignFirstAdmin, GenerateSetupLink, SendBackupEmail, Activation,
          AtStep, StepReturns, StepThrows, StepFails, RecordStep,
          RecordStepThrows, RecordStepFailure, UpsertSucceededAudit,
          MarkAttemptSucceeded
    <3>4. CASE Cancel(r)
      BY <2>2, <3>4 DEF Cancel
    <3>5. CASE Compensate(Life(r))
      <4>1. pc[Life(r)] # "dropSchema"
        BY <1>0, <1>2, <3>5
        DEF TypeOK, Compensate, ReadStepOutcomes, RevokeSetupTokens,
            ReadFirstAdmin, DeleteFirstAdmin, DropTenantSchema,
            MarkTenantFailed, UpsertFailedAudit, MarkAttemptFailed, Goto
      <4>2. /\ MarkAttemptFailed(Life(r)) /\ comp' = comp
            /\ attemptStatus' = FailureStatus(Life(r))
        BY <1>2, <3>5, <4>1, EndingFails
      <4>3. comp[Life(r)].failed
        BY <4>2 DEF MarkAttemptFailed, Goto, CompensationInv
      <4>4. QED
        BY <4>2, <4>3 DEF FailureStatus, Manual
    <3>6. QED
      BY <3>1, <3>2, <3>3, <3>4, <3>5 DEF LifeStep
  <2>5. QED
    BY <2>3, <2>4
<1>3. ASSUME pc'[Life(r)] = "execute",
             pc'[Watch(r)] \in CompensationPCs \union {"findTimedOut"}
      PROVE  attemptStatus' \in Terminal
  <2>1. CASE RecordTimeout(r)
    BY <1>0, <1>3, <2>1, NoOtherFault
    DEF TypeOK, RecordTimeout, Goto, WriteStatus, WriteDropped, Terminal
  <2>2. CASE ~RecordTimeout(r)
    <3>1. pc[Watch(r)] \in CompensationPCs \union {"findTimedOut"}
      <4>1. CASE WatchStep(r)
        BY <1>0, <2>2, <4>1, CompensateMoves DEF WatchStep, FindTimedOutTenant, Goto
      <4>2. CASE ~WatchStep(r)
        BY <1>0, <1>3, <4>2, OthersLeaveWatch DEF CompensationPCs
      <4>3. QED
        BY <4>1, <4>2
    <3>2. aborted[r] /\ job.state = "active" /\ job.run = r
      BY <3>1 DEF SignalInv, TypeInv, TypeOK, QueueInv, OneWatch, CompensationPCs
    <3>3. pc[Life(r)] = "execute"
      <4>1. CASE ~LifeStep(r)
        BY <1>0, <1>3, <4>1, OthersLeaveLife
      <4>2. CASE StartLifecycle(r)
        BY <1>0, <1>3, <3>2, <4>2
        DEF TypeOK, Goto, StartLifecycle, FindLinkedTenant, ReadAttemptStatus,
            ResetAttemptStatus, RecordResumedTenant, ClaimAttempt,
            ReadSafePayload, CreateOrResolveTenant, RecordCreatedTenant,
            RecordTenantCreationFailure, Unless
      <4>3. CASE ProvisionTenantSchema(r)
        BY <1>0, <1>3, <3>2, <4>3
        DEF TypeOK, Goto, ProvisionTenantSchema, CreateTenantSchema,
            BootstrapTenantSchema, BootstrapTenantSeed, FillTenantSchema,
            AssignFirstAdmin, GenerateSetupLink, SendBackupEmail, Activation,
            AtStep, StepReturns, StepThrows, StepFails, RecordStep,
            RecordStepThrows, RecordStepFailure, UpsertSucceededAudit,
            MarkAttemptSucceeded
      <4>4. CASE Compensate(Life(r)) \/ Cancel(r)
        BY <1>0, <1>3, <4>4, CompensateMoves DEF TypeOK, Cancel, CompensationPCs
      <4>5. QED
        BY <4>1, <4>2, <4>3, <4>4 DEF LifeStep
    <3>4. attemptStatus \in Terminal
      BY <3>1, <3>3 DEF RejectionInv
    <3>5. ~SomeSpoilt
      BY <3>3 DEF SpoiltInv
    <3>6. ASSUME NEW q \in Runs, ResetAttemptStatus(q) PROVE FALSE
      <4>1. pc[Life(q)] = "reset"
        BY <3>6 DEF ResetAttemptStatus, Goto
      <4>2. q # r
        BY <3>3, <4>1
      <4>3. aborted[q]
        BY <3>1, <4>1, <4>2, OneLife DEF Finished, CompensationPCs
      <4>4. pc[Watch(q)] = "settled"
        BY <3>2, <4>1, <4>2, <4>3
        DEF TypeInv, QueueInv, OneWatch, SignalInv, TimedOutWatch, CompensationPCs
      <4>5. QED
        BY <3>5, <4>1, <4>3, <4>4
        DEF CompensationInv, SomeSpoilt, Spoilt, EarlyLife
    <3>7. ASSUME NEW p \in Procs, attemptStatus' = FailureStatus(p)
          PROVE  attemptStatus' \in Terminal
      BY <3>7 DEF FailureStatus, Terminal
    <3>8. ASSUME NEW q \in Runs, RecordTenantCreationFailure(q) PROVE FALSE
      BY <3>8 DEF RecordTenantCreationFailure, CompensationInv, Goto
    <3>9. QED
      BY <3>4, <3>6, <3>7, <3>8, StatusWrites DEF Terminal
  <2>3. QED
    BY <2>1, <2>2
<1>4. QED
  BY <1>1, <1>2, <1>3

LEMMA TimedOutInvInit == Init => TimedOutInv
<1> SUFFICES ASSUME Init PROVE TimedOutInv
  OBVIOUS
<1>1. \A p \in Procs : pc[p] = "idle" /\ ~comp[p].failed
  BY DEF Init, FreshCompensation
<1>2. ~SomeSpoilt
  BY <1>1 DEF SomeSpoilt, Spoilt
<1>3. QED
  BY <1>1, <1>2, ProcsLemma
  DEF Init, TimedOutInv, CompensationInv, SpoiltInv, RejectionInv, Ending,
      CompensationPCs

LEMMA TimedOutInvStep ==
  TypeInv /\ SignalInv /\ ClaimInv /\ TimedOutInv /\ [Next]_vars => TimedOutInv'
<1> SUFFICES ASSUME TypeInv, SignalInv, ClaimInv, TimedOutInv, [Next]_vars,
                    StepsFailOrTimeOut', tenant' # "FAILED"
             PROVE  CompensationInv' /\ SpoiltInv' /\ RejectionInv'
  BY DEF TimedOutInv
<1>1. StepsFailOrTimeOut
  BY KindsStay DEF StepsFailOrTimeOut, TypeInv
<1>2. tenant # "FAILED"
  BY TenantMoves
<1>3. TimedOutStep
  BY <1>1, <1>2 DEF TimedOutStep, TimedOutInv
<1>4. CompensationInv'
  BY <1>3, LifeEnding, WatchEnding DEF CompensationInv
<1>5. QED
  BY <1>3, <1>4, SpoiltKeeps, RejectionKeeps

\* In such a state the fence of activation() holds against a run that timed
\* out: its tenant is FAILED or its attempt is not being provisioned.
LEMMA FenceHolds ==
  ASSUME TypeInv, SignalInv, TimedOutInv, StepsFailOrTimeOut, NEW r \in Runs,
         TimeoutRecorded(r), AtStep(r, "activation")
  PROVE  ~ActivationAllowed
<1> SUFFICES ASSUME tenant # "FAILED", attemptStatus = "provisioning"
             PROVE  FALSE
  BY DEF ActivationAllowed
<1> USE ProcsLemma DEF AtStep
<1>1. CompensationInv /\ SpoiltInv /\ RejectionInv
  BY DEF TimedOutInv
<1>2. aborted[r] /\ pc[Watch(r)] \in TimedOutWatch /\ pc[Watch(r)] # "recordTimeout"
  BY DEF TimeoutRecorded, SignalInv
<1>3. pc[Watch(r)] # "dead"
  BY DEF TypeInv, QueueInv, OneWatch
<1>4. pc[Watch(r)] \notin CompensationPCs \union {"findTimedOut"}
  BY <1>1 DEF RejectionInv, Terminal
<1>5. pc[Watch(r)] \in {"rejected", "settled"}
  BY <1>2, <1>3, <1>4 DEF TimedOutWatch
<1>6. comp[Watch(r)].failed
  BY <1>1, <1>2, <1>5 DEF CompensationInv, EarlyLife, Ending
<1>7. QED
  BY <1>1, <1>6 DEF SpoiltInv, SomeSpoilt, Spoilt

(* Overlapping runs undo no decision, however many retries there are: a      *)
(* FAILED tenant is not revived; a run whose timeout is recorded activates   *)
(* nothing, where steps fail and runs time out; and an attempt that waits    *)
(* for its operator waits, where no run times out.                           *)
THEOREM DecisionsHold == Spec => DecisionsStand
<1> DEFINE Inv == TypeInv /\ SignalInv /\ ClaimInv /\ CleanupInv /\ TimedOutInv
<1>1. Init => Inv
  <2>1. Init => CleanupInv
    BY DEF Init, CleanupInv, Manual
  <2>2. QED
    BY <2>1, TypeInit, SignalInit, ClaimInit, TimedOutInvInit
<1>2. Inv /\ [Next]_vars => Inv'
  BY TypeStep, SignalStep, ClaimStep, CleanupStep, TimedOutInvStep DEF TypeInv
<1>3. Inv /\ [Next]_vars =>
        [\A r \in Runs :
           StepsFailOrTimeOut /\ TimeoutRecorded(r) /\ AtStep(r, "activation")
           /\ tenant # "ACTIVE"
             => ~(pc'[Life(r)] = "record" /\ tenant' = "ACTIVE")]_vars
  <2> SUFFICES ASSUME Inv, [Next]_vars, NEW r \in Runs, StepsFailOrTimeOut,
                      TimeoutRecorded(r), AtStep(r, "activation"),
                      tenant # "ACTIVE", tenant' = "ACTIVE"
               PROVE  FALSE
    OBVIOUS
  <2>1. \E q \in Runs : Activation(q)
    BY TenantMoves
  <2>2. ActivationAllowed
    BY <2>1 DEF Activation, StepFails
  <2>3. QED
    BY <2>2, FenceHolds
<1>4. Inv /\ [Next]_vars =>
        [NoRunTimesOut /\ attemptStatus = "failed-needs-manual-cleanup"
           => attemptStatus' = "failed-needs-manual-cleanup"]_vars
  BY ManualStays DEF Manual
<1>5. Spec => TimedOutRunNeverActivates
  BY <1>1, <1>2, <1>3, PTL DEF Spec, TimedOutRunNeverActivates
<1>6. Spec => ManualCleanupIsFinal
  BY <1>1, <1>2, <1>4, PTL DEF Spec, ManualCleanupIsFinal
<1>7. QED
  BY <1>5, <1>6, FailedIsFinal DEF DecisionsStand

-----------------------------------------------------------------------------
(* Outcomes, where steps fail and runs time out                              *)

\* Where a lifecycle stands between its first write and its last, but for the
\* compensation.
Working == {"payload", "insert", "recordCreated", "recordResumed", "execute",
            "record", "recordFailure", "auditSucceeded", "statusSucceeded"}

\* Whether r is past the effect of step s, if later is the steps after s.
Past(r, s, later) ==
  step[r] \in later \/ (step[r] = s /\ pc[Life(r)] = "record")

AfterSchema == Steps \ {"schema_created"}
AfterMigration == AfterSchema \ {"bootstrap_migrated"}
AfterSeed == AfterMigration \ {"bootstrap_seeded"}
AfterAdmin == AfterSeed \ {"first_admin_assigned"}

\* What the steps that r has done have made is there.
Done(r) ==
  /\ Past(r, "schema_created", AfterSchema) => "namespace" \in schema
  /\ Past(r, "bootstrap_migrated", AfterMigration) => "meta" \in schema
  /\ Past(r, "bootstrap_seeded", AfterSeed) => "seed" \in schema
  /\ Past(r, "first_admin_assigned", AfterAdmin) => admin # NoAdmin

\* Run r is at a step, or has yet to record one, and its watch has not begun
\* to compensate it.
Unhindered(r) ==
  \/ pc[Life(r)] = "execute" /\ pc[Watch(r)] \in {"racing", "recordTimeout"}
  \/ pc[Life(r)] = "record" /\ ~aborted[r]

(* The attempt is being provisioned while a lifecycle without a signal is at *)
(* work, and what its steps made stays until its own watch compensates.      *)
WorkInv ==
  \A r \in Runs :
    /\ ~aborted[r] /\ pc[Life(r)] \in Working => attemptStatus = "provisioning"
    /\ ~aborted[r] /\ pc[Life(r)] = "reset" => attemptStatus = "failed"
    /\ Unhindered(r) => Done(r)

\* Run r activated the tenant.  It is the last one, no other will come to the
\* tenant, and what it made and recorded stays unless its timer ran out.
Activated(r) ==
  /\ job.run = r /\ job.state # "queued" /\ ~SomeSpoilt
  /\ \A q \in Runs : q # r => pc[Life(q)] \in EarlyLife
  /\ PastActivation(r) \/ pc[Life(r)] \in {"resolved", "cancelled"}
  /\ pc[Life(r)] = "cancelled" => aborted[r]
  /\ pc[Watch(r)] \in (CompensationPCs \ {"auditFailed", "statusFailed"})
       \union {"racing", "recordTimeout", "findTimedOut", "settled"}
  /\ pc[Watch(r)] = "settled" => pc[Life(r)] = "resolved" /\ ~aborted[r]
  /\ pc[Watch(r)] \notin {"dropSchema", "markFailed"} => Provisioned
  /\ ~aborted[r] /\ pc[Life(r)] \in {"auditSucceeded", "statusSucceeded"} =>
       outcomes["activation"] = "succeeded"
  /\ ~aborted[r] /\ pc[Life(r)] = "resolved" => attemptStatus = "succeeded"
  /\ pc[Watch(r)] \in CompensationPCs \union {"findTimedOut"} =>
       attemptStatus # "succeeded"
ActiveInv == tenant = "ACTIVE" => \E r \in Runs : Activated(r)

OutcomeInv ==
  StepsFailOrTimeOut =>
    /\ tenant # "FAILED" => WorkInv /\ ActiveInv
    /\ \A r \in Runs : ~aborted[r] /\ PastActivation(r) => tenant = "ACTIVE"
    /\ attemptStatus = "succeeded" =>
         tenant = "ACTIVE" /\ outcomes["activation"] = "succeeded"

OutcomeStep == TimedOutStep /\ WorkInv /\ ActiveInv

\* Before a compensation failed only the current run can be at the tenant.
LEMMA LinkedIsNow ==
  ASSUME TimedOutStep, ~SomeSpoilt, NEW r \in Runs, pc[Life(r)] \notin EarlyLife
  PROVE  /\ job.state = "active" /\ job.run = r
         /\ pc[Watch(r)] \notin {"idle", "settled", "dead"}
<1> USE DEF TimedOutStep
<1>1. pc[Life(r)] \notin Finished
  BY DEF Finished, EarlyLife
<1>2. pc[Watch(r)] \notin {"idle", "dead"}
  BY <1>1 DEF TypeInv, QueueInv, OneWatch, Finished
<1>3. pc[Watch(r)] # "settled"
  <2>1. CASE aborted[r]
    BY <2>1, ProcsLemma DEF CompensationInv, SomeSpoilt, Spoilt
  <2>2. CASE ~aborted[r]
    BY <1>1, <2>2 DEF SignalInv
  <2>3. QED
    BY <2>1, <2>2
<1>4. QED
  BY <1>2, <1>3 DEF TypeInv, QueueInv, OneWatch

\* So while one run is at the tenant only its own processes act on it.
LEMMA ActsNow ==
  ASSUME TimedOutStep, ~SomeSpoilt, NEW r \in Runs, NEW p \in Procs,
         pc[Watch(r)] \notin {"idle", "settled", "dead"},
         pc[p] \in CompensationPCs
  PROVE  p \in {Life(r), Watch(r)}
<1>1. PICK q \in Runs : p \in {Life(q), Watch(q)}
  BY DEF Procs, Life, Watch
<1>2. job.run = r
  BY DEF TimedOutStep, TypeInv, QueueInv, OneWatch
<1>3. CASE p = Life(q)
  <2>1. pc[Life(q)] \notin EarlyLife
    BY <1>3 DEF CompensationPCs, EarlyLife
  <2>2. QED
    BY <1>2, <1>3, <2>1, LinkedIsNow
<1>4. CASE p = Watch(q)
  <2>1. job.run = q
    BY <1>4 DEF TimedOutStep, TypeInv, QueueInv, OneWatch, CompensationPCs
  <2>2. QED
    BY <1>2, <1>4, <2>1
<1>5. QED
  BY <1>1, <1>3, <1>4

\* A lifecycle at work without a signal has the attempt for itself.
LEMMA StatusIsItsOwn ==
  ASSUME TimedOutStep, NEW r \in Runs, ~aborted[r], ~LifeStep(r),
         pc[Life(r)] \in Working \union {"reset"}
  PROVE  \/ attemptStatus' = attemptStatus
         \/ attemptStatus \notin Terminal /\ attemptStatus' = "provisioning"
<1> USE DEF TimedOutStep
<1>1. /\ pc[Watch(r)] = "racing" /\ pc[Life(r)] \notin Finished
      /\ pc[Life(r)] \notin Quiet
  BY DEF SignalInv, Working, Finished, Quiet, CompensationPCs
<1>2. ~SomeSpoilt /\ job.run = r
  BY <1>1 DEF SpoiltInv, TypeInv, QueueInv, OneWatch
<1>3. ASSUME NEW q \in Runs, ResetAttemptStatus(q) PROVE FALSE
  <2>1. pc[Life(q)] = "reset" /\ q # r
    BY <1>3 DEF ResetAttemptStatus, Goto, LifeStep, StartLifecycle
  <2>2. job.run = q
    BY <1>2, <2>1, LinkedIsNow DEF EarlyLife
  <2>3. QED
    BY <1>2, <2>1, <2>2
<1>4. ASSUME NEW q \in Runs, RecordTenantCreationFailure(q) PROVE FALSE
  BY <1>4 DEF RecordTenantCreationFailure, CompensationInv, Goto
<1>5. ASSUME NEW q \in Runs, MarkAttemptSucceeded(q) PROVE FALSE
  <2>1. pc[Life(q)] = "statusSucceeded" /\ ~aborted[q] /\ q # r
    BY <1>5 DEF MarkAttemptSucceeded, Goto, LifeStep, ProvisionTenantSchema
  <2>2. QED
    BY <1>1, <2>1, OneLife DEF Finished
<1>6. ASSUME NEW q \in Runs, RecordTimeout(q) PROVE FALSE
  <2>1. pc[Watch(q)] = "recordTimeout"
    BY <1>6 DEF RecordTimeout, Goto
  <2>2. job.run = q
    BY <2>1 DEF TypeInv, QueueInv, OneWatch
  <2>3. QED
    BY <1>1, <1>2, <2>1, <2>2
<1>7. ASSUME NEW p \in Procs, MarkAttemptFailed(p) PROVE FALSE
  <2>1. pc[p] = "statusFailed"
    BY <1>7 DEF MarkAttemptFailed, Goto
  <2>2. p = Life(r)
    BY <1>1, <1>2, <2>1, ActsNow DEF CompensationPCs
  <2>3. QED
    BY <2>1, <2>2 DEF Working
<1>8. QED
  BY <1>3, <1>4, <1>5, <1>6, <1>7, StatusWrites DEF Terminal

\* Who writes the schema, the recorded outcomes and the audit row.
LEMMA WhoWrites ==
  ASSUME [Next]_vars
  PROVE  /\ schema \subseteq schema' \/ \E p \in Procs : DropTenantSchema(p)
         /\ \/ outcomes' = outcomes
            \/ /\ attemptStatus \notin Terminal
               /\ \E r \in Runs : RecordStep(r) \/ RecordStepFailure(r)
         /\ \/ audit' = audit
            \/ \E r \in Runs : UpsertSucceededAudit(r) /\ audit' = "succeeded"
            \/ \E p \in Procs : UpsertFailedAudit(p) /\ audit' = FailureStatus(p)
<1> USE DEF attemptVars, resourceVars
<1>1. ASSUME NEW r \in Runs, StartLifecycle(r)
      PROVE  UNCHANGED <<schema, outcomes, audit>>
  BY <1>1
  DEF StartLifecycle, FindLinkedTenant, ReadAttemptStatus, ResetAttemptStatus,
      RecordResumedTenant, ClaimAttempt, ReadSafePayload, CreateOrResolveTenant,
      RecordCreatedTenant, RecordTenantCreationFailure
<1>2. ASSUME NEW r \in Runs, ProvisionTenantSchema(r)
      PROVE  /\ schema \subseteq schema'
             /\ \/ outcomes' = outcomes
                \/ /\ attemptStatus \notin Terminal
                   /\ RecordStep(r) \/ RecordStepFailure(r)
             /\ \/ audit' = audit
                \/ UpsertSucceededAudit(r) /\ audit' = "succeeded"
  <2>1. CASE \/ CreateTenantSchema(r) \/ BootstrapTenantSchema(r)
             \/ BootstrapTenantSeed(r) \/ AssignFirstAdmin(r)
             \/ GenerateSetupLink(r) \/ SendBackupEmail(r)
             \/ Activation(r) \/ StepThrows(r) \/ RecordStepThrows(r)
    BY <2>1
    DEF CreateTenantSchema, BootstrapTenantSchema, BootstrapTenantSeed,
        FillTenantSchema, AssignFirstAdmin, GenerateSetupLink, SendBackupEmail,
        Activation, StepThrows, StepReturns, StepFails, RecordStepThrows
  <2>2. CASE RecordStep(r) \/ RecordStepFailure(r)
    <3>1. schema' = schema /\ audit' = audit
      BY <2>2 DEF RecordStep, RecordStepFailure
    <3>2. outcomes' = outcomes \/ WriteOutcome(step[r], "succeeded")
          \/ WriteOutcome(step[r], "failed")
      BY <2>2 DEF RecordStep, RecordStepFailure
    <3>3. outcomes' = outcomes \/ attemptStatus \notin Terminal
      BY <3>2 DEF WriteOutcome, WriteDropped, Terminal
    <3>4. QED
      BY <2>2, <3>1, <3>3
  <2>3. CASE UpsertSucceededAudit(r) \/ MarkAttemptSucceeded(r)
    BY <2>3 DEF UpsertSucceededAudit, MarkAttemptSucceeded
  <2>4. QED
    BY <1>2, <2>1, <2>2, <2>3 DEF ProvisionTenantSchema
<1>3. ASSUME NEW p \in Procs, Compensate(p)
      PROVE  /\ schema' = schema \/ DropTenantSchema(p)
             /\ outcomes' = outcomes
             /\ audit' = audit \/ (UpsertFailedAudit(p) /\ audit' = FailureStatus(p))
  BY <1>3
  DEF Compensate, ReadStepOutcomes, RevokeSetupTokens, ReadFirstAdmin,
      DeleteFirstAdmin, DropTenantSchema, MarkTenantFailed, UpsertFailedAudit,
      MarkAttemptFailed
<1>4. ASSUME NEW r \in Runs,
             \/ Cancel(r) \/ RecordTimeout(r) \/ FindTimedOutTenant(r)
             \/ QueueStep(r) \/ Timeout(r) \/ Crash(r)
      PROVE  UNCHANGED <<schema, outcomes, audit>>
  BY <1>4
  DEF Cancel, RecordTimeout, FindTimedOutTenant, QueueStep, CompleteJob,
      RejectJob, Timeout, Crash
<1>5. CASE StartRun \/ UNCHANGED vars
  BY <1>5 DEF StartRun, vars
<1>6. ASSUME NEW r \in Runs, LifeStep(r)
      PROVE  StartLifecycle(r) \/ ProvisionTenantSchema(r) \/ Cancel(r) \/ Compensate(Life(r))
  BY <1>6 DEF LifeStep
<1>7. ASSUME NEW r \in Runs, WatchStep(r)
      PROVE  RecordTimeout(r) \/ FindTimedOutTenant(r) \/ Compensate(Watch(r))
  BY <1>7 DEF WatchStep
<1>8. ASSUME NEW r \in Runs, StartLifecycle(r) \/ ProvisionTenantSchema(r)
                             \/ Compensate(Life(r)) \/ Compensate(Watch(r))
      PROVE  /\ schema \subseteq schema' \/ \E p \in Procs : DropTenantSchema(p)
             /\ \/ outcomes' = outcomes
                \/ /\ attemptStatus \notin Terminal
                   /\ \E q \in Runs : RecordStep(q) \/ RecordStepFailure(q)
             /\ \/ audit' = audit
                \/ \E q \in Runs : UpsertSucceededAudit(q) /\ audit' = "succeeded"
                \/ \E p \in Procs : UpsertFailedAudit(p) /\ audit' = FailureStatus(p)
  <2>1. CASE StartLifecycle(r)
    BY <1>1, <2>1
  <2>2. CASE ProvisionTenantSchema(r)
    BY <1>2, <2>2
  <2>3. CASE Compensate(Life(r)) \/ Compensate(Watch(r))
    BY <1>3, <2>3, ProcsLemma
  <2>4. QED
    BY <1>8, <2>1, <2>2, <2>3
<1>9. QED
  BY <1>4, <1>5, <1>6, <1>7, <1>8 DEF Next, Rest

\* A step that is not of the current lifecycle leaves it where it is, where
\* nothing crashes.
LEMMA OthersLeaveCurrent ==
  ASSUME TypeInv, [Next]_vars, ~Fault("crash"), NEW r \in Runs, ~LifeStep(r),
         job.state # "queued"
  PROVE  /\ pc'[Life(r)] = pc[Life(r)]
         /\ pc[Life(r)] \notin {"find", "dead"} => step'[r] = step[r]
<1> USE ProcsLemma
<1>1. TypeOK /\ ~StartRun /\ ~Crash(r)
  BY DEF TypeInv, StartRun, Crash
<1>2. pc'[Life(r)] = pc[Life(r)]
  <2>1. CASE Timeout(r) \/ QueueStep(r)
    BY <1>1, <2>1
    DEF TypeOK, Timeout, QueueStep, CompleteJob, RejectJob, Goto
  <2>2. CASE WatchStep(r)
    BY <1>1, <2>2, WatchMoves
  <2>3. CASE ~Timeout(r) /\ ~QueueStep(r) /\ ~WatchStep(r)
    BY <1>1, <2>3, OthersMoveThemselves
  <2>4. QED
    BY <2>1, <2>2, <2>3
<1>3. QED
  BY <1>1, <1>2, OthersLeaveLife

\* A lifecycle without a signal keeps its attempt being provisioned.
LEMMA StatusKeeps ==
  ASSUME OutcomeStep, NEW r \in Runs, ~aborted'[r]
  PROVE  /\ pc'[Life(r)] \in Working => attemptStatus' = "provisioning"
         /\ pc'[Life(r)] = "reset" => attemptStatus' = "failed"
<1> USE ProcsLemma DEF OutcomeStep, TimedOutStep
<1>0. /\ ~aborted[r] /\ TypeOK
      /\ pc[Life(r)] \in Working => attemptStatus = "provisioning"
      /\ pc[Life(r)] = "reset" => attemptStatus = "failed"
  BY SignalMoves DEF TypeInv, WorkInv
<1> USE DEF Working
<1>1. CASE ~LifeStep(r)
  <2>1. pc'[Life(r)] = pc[Life(r)] \/ pc'[Life(r)] \in {"find", "dead"}
    BY <1>0, <1>1, OthersLeaveLife
  <2>2. CASE pc[Life(r)] \in Working \union {"reset"}
    BY <1>0, <1>1, <2>1, <2>2, StatusIsItsOwn DEF Terminal
  <2>3. QED
    BY <2>1, <2>2
<1>2. CASE StartLifecycle(r)
  <2>1. CASE ReadAttemptStatus(r)
    <3>1. pc[Life(r)] = "status" /\ attemptStatus' = attemptStatus
      BY <2>1 DEF ReadAttemptStatus, Goto, attemptVars
    <3>2. attemptStatus # "accepted"
      BY <3>1 DEF ClaimInv, EarlyLife
    <3>3. QED
      BY <1>0, <2>1, <3>1, <3>2
      DEF TypeOK, ReadAttemptStatus, Goto, AttemptStatuses
  <2>2. CASE FindLinkedTenant(r) \/ ResetAttemptStatus(r) \/ RecordResumedTenant(r)
    BY <1>0, <2>2
    DEF TypeOK, FindLinkedTenant, ResetAttemptStatus, RecordResumedTenant, Goto,
        Unless, WriteStatus, attemptVars
  <2>3. CASE \/ ClaimAttempt(r) \/ ReadSafePayload(r) \/ CreateOrResolveTenant(r)
             \/ RecordCreatedTenant(r) \/ RecordTenantCreationFailure(r)
    BY <1>0, <2>3
    DEF TypeOK, ClaimAttempt, ReadSafePayload, CreateOrResolveTenant,
        RecordCreatedTenant, RecordTenantCreationFailure, Goto, Unless,
        WriteStatus, attemptVars
  <2>4. QED
    BY <1>2, <2>1, <2>2, <2>3 DEF StartLifecycle
<1>3. CASE ProvisionTenantSchema(r)
  <2> USE DEF AtStep, StepReturns, StepFails, WriteStatus, Goto, attemptVars
  <2>1. CASE \/ CreateTenantSchema(r) \/ BootstrapTenantSchema(r)
             \/ BootstrapTenantSeed(r) \/ AssignFirstAdmin(r)
             \/ GenerateSetupLink(r) \/ SendBackupEmail(r)
    BY <1>0, <2>1
    DEF TypeOK, CreateTenantSchema, BootstrapTenantSchema, BootstrapTenantSeed,
        FillTenantSchema, AssignFirstAdmin, GenerateSetupLink, SendBackupEmail
  <2>2. CASE Activation(r) \/ StepThrows(r)
    BY <1>0, <2>2 DEF TypeOK, Activation, StepThrows
  <2>3. CASE \/ RecordStep(r) \/ RecordStepThrows(r) \/ RecordStepFailure(r)
             \/ UpsertSucceededAudit(r) \/ MarkAttemptSucceeded(r)
    BY <1>0, <2>3
    DEF TypeOK, RecordStep, RecordStepThrows, RecordStepFailure,
        UpsertSucceededAudit, MarkAttemptSucceeded
  <2>4. QED
    BY <1>3, <2>1, <2>2, <2>3 DEF ProvisionTenantSchema
<1>4. CASE Compensate(Life(r)) \/ Cancel(r)
  BY <1>0, <1>4, CompensateMoves DEF Cancel, CompensationPCs
<1>5. QED
  BY <1>1, <1>2, <1>3, <1>4 DEF LifeStep

\* Nobody takes from a lifecycle what its steps made, until its timer ran out.
LEMMA NothingTaken ==
  ASSUME OutcomeStep, NEW r \in Runs,
         pc[Life(r)] \in {"execute", "record"},
         pc[Watch(r)] \in {"racing", "recordTimeout"}, ~SomeSpoilt
  PROVE  schema \subseteq schema' /\ (admin # NoAdmin => admin' # NoAdmin)
<1> USE DEF OutcomeStep, TimedOutStep
<1>1. ASSUME NEW p \in Procs, DropTenantSchema(p) \/ DeleteFirstAdmin(p)
      PROVE  FALSE
  <2>1. pc[p] \in {"dropSchema", "deleteAdmin"}
    BY <1>1 DEF DropTenantSchema, DeleteFirstAdmin, Goto
  <2>2. p \in {Life(r), Watch(r)}
    BY <2>1, ActsNow DEF CompensationPCs
  <2>3. QED
    BY <2>1, <2>2
<1>2. QED
  BY <1>1, WhoWrites, AdminMoves

LEMMA DoneKeeps ==
  ASSUME OutcomeStep, NEW r \in Runs, Unhindered(r)' PROVE Done(r)'
<1> USE ProcsLemma DEF OutcomeStep, TimedOutStep, Unhindered
<1>0. TypeOK /\ (~aborted'[r] => ~aborted[r])
  BY SignalMoves DEF TypeInv
<1> USE DEF AfterSchema, AfterMigration, AfterSeed, AfterAdmin
<1>1. CASE ~LifeStep(r)
  <2>1. pc'[Life(r)] = pc[Life(r)] /\ step'[r] = step[r]
    BY <1>0, <1>1, OthersLeaveLife
  <2>2. pc[Life(r)] = "execute" => pc[Watch(r)] \in {"racing", "recordTimeout"}
    <3>1. pc[Life(r)] = "execute" => pc[Watch(r)] # "idle"
      BY DEF TypeInv, QueueInv, OneWatch
    <3>2. CASE WatchStep(r)
      BY <1>0, <2>1, <3>2, WatchWorks DEF CompensationPCs
    <3>3. CASE Timeout(r) \/ QueueStep(r)
      BY <1>0, <2>1, <3>3
      DEF TypeOK, Timeout, QueueStep, CompleteJob, RejectJob, Goto
    <3>4. CASE StartRun /\ r = job.run + 1
      BY <1>0, <2>1, <3>4 DEF TypeOK, StartRun
    <3>5. CASE ~(\/ Timeout(r) \/ QueueStep(r) \/ WatchStep(r)
                 \/ (StartRun /\ r = job.run + 1))
      <4>1. ~Crash(r)
        BY NoOtherFault DEF Crash
      <4>2. pc'[Watch(r)] = pc[Watch(r)]
        BY <1>0, <1>1, <3>5, <4>1, OthersMoveThemselves
      <4>3. QED
        BY <2>1, <4>2
    <3>6. QED
      BY <2>1, <3>2, <3>3, <3>4, <3>5
  <2>3. pc[Life(r)] = "record" => pc[Watch(r)] = "racing"
    BY <1>0, <2>1 DEF SignalInv, Finished
  <2>4. Done(r) /\ ~SomeSpoilt
    <3>1. \/ pc[Life(r)] = "execute" /\ pc[Watch(r)] \in {"racing", "recordTimeout"}
          \/ pc[Life(r)] = "record" /\ ~aborted[r]
      BY <1>0, <2>1, <2>2
    <3>2. Done(r)
      BY <3>1 DEF WorkInv
    <3>3. ~SomeSpoilt
      BY <3>1 DEF SpoiltInv, Quiet, Finished, CompensationPCs
    <3>4. QED
      BY <3>2, <3>3
  <2>5. schema \subseteq schema' /\ (admin # NoAdmin => admin' # NoAdmin)
    BY <2>1, <2>2, <2>3, <2>4, NothingTaken
  <2>6. QED
    BY <2>1, <2>4, <2>5 DEF Done, Past
<1>2. CASE LifeStep(r)
  <2>1. pc'[Watch(r)] = pc[Watch(r)] /\ aborted'[r] = aborted[r]
    <3>1. pc'[Watch(r)] = pc[Watch(r)]
      BY <1>0, <1>2, LifeMoves
    <3>2. QED
      BY <1>0, <3>1, SignalMoves DEF TypeOK, Timeout, Goto
  <2>2. CASE StartLifecycle(r)
    <3>1. pc'[Life(r)] = "execute" /\ step'[r] = "schema_created"
      BY <1>0, <2>2
      DEF TypeOK, StartLifecycle, FindLinkedTenant, ReadAttemptStatus,
          ResetAttemptStatus, RecordResumedTenant, ClaimAttempt,
          ReadSafePayload, CreateOrResolveTenant, RecordCreatedTenant,
          RecordTenantCreationFailure, Unless, Goto
    <3>2. QED
      BY <3>1 DEF Done, Past
  <2>3. CASE ProvisionTenantSchema(r)
    <3>1. Done(r)
      <4>1. \/ pc[Life(r)] = "execute"
            \/ pc[Life(r)] = "record" /\ ~aborted[r]
        BY <1>0, <2>3
        DEF TypeOK, ProvisionTenantSchema, CreateTenantSchema,
            BootstrapTenantSchema, BootstrapTenantSeed, FillTenantSchema,
            AssignFirstAdmin, GenerateSetupLink, SendBackupEmail, Activation,
            AtStep, StepThrows, StepFails, RecordStep, RecordStepThrows,
            RecordStepFailure, UpsertSucceededAudit, MarkAttemptSucceeded, Goto
      <4>2. ~aborted[r] => pc[Watch(r)] = "racing"
        BY <4>1 DEF SignalInv, Finished
      <4>3. QED
        BY <1>0, <2>1, <4>1, <4>2 DEF WorkInv
    <3> USE <1>0, <3>1 DEF Done, Past, AtStep, StepReturns, runVars, Steps
    <3>2. CASE CreateTenantSchema(r)
      BY <3>2 DEF CreateTenantSchema, TypeOK
    <3>3. CASE BootstrapTenantSchema(r)
      BY <3>3 DEF BootstrapTenantSchema, FillTenantSchema, StepFails, TypeOK
    <3>4. CASE BootstrapTenantSeed(r)
      BY <3>4 DEF BootstrapTenantSeed, FillTenantSchema, StepFails, TypeOK
    <3>5. CASE AssignFirstAdmin(r)
      BY <3>5 DEF AssignFirstAdmin, TypeOK, NoAdmin, Runs
    <3>6. CASE GenerateSetupLink(r)
      BY <3>6 DEF GenerateSetupLink, StepFails, TypeOK
    <3>7. CASE SendBackupEmail(r)
      BY <3>7 DEF SendBackupEmail, TypeOK, NextStep, resourceVars
    <3>8. CASE Activation(r)
      BY <3>8 DEF Activation, StepFails, TypeOK, resourceVars
    <3>9. CASE StepThrows(r) \/ RecordStepThrows(r) \/ RecordStepFailure(r)
               \/ UpsertSucceededAudit(r) \/ MarkAttemptSucceeded(r)
      BY <2>1, <3>9
      DEF StepThrows, StepFails, RecordStepThrows, RecordStepFailure,
          UpsertSucceededAudit, MarkAttemptSucceeded, Goto, TypeOK
    <3>10. CASE RecordStep(r)
      <4>1. UNCHANGED <<schema, admin>> /\ pc[Life(r)] = "record"
        BY <3>10 DEF RecordStep, resourceVars, Goto
      <4>2. pc'[Life(r)] = "execute" /\ step[r] # "activation"
        BY <3>10 DEF RecordStep, Goto, TypeOK
      <4>3. step'[r] = NextStep[step[r]]
        BY <3>10, <4>2 DEF RecordStep, TypeOK
      <4>4. step[r] \in Steps \ {"activation"}
        BY <4>2 DEF TypeOK
      <4>5. QED
        BY <4>1, <4>2, <4>3, <4>4 DEF NextStep
    <3>11. QED
      BY <2>3, <3>2, <3>3, <3>4, <3>5, <3>6, <3>7, <3>8, <3>9, <3>10
      DEF ProvisionTenantSchema
  <2>4. CASE Compensate(Life(r)) \/ Cancel(r)
    BY <1>0, <2>4, CompensateMoves DEF TypeOK, Cancel, CompensationPCs
  <2>5. QED
    BY <1>2, <2>2, <2>3, <2>4 DEF LifeStep
<1>3. QED
  BY <1>1, <1>2

LEMMA WorkKeeps == ASSUME OutcomeStep PROVE WorkInv'
BY StatusKeeps, DoneKeeps DEF WorkInv

\* The run that activated the tenant is the only one that is at it, and
\* nobody but its watch compensates.
LEMMA ActivatedAlone ==
  ASSUME TypeInv, NEW r \in Runs, Activated(r)
  PROVE  /\ \A q \in Runs : pc[Life(q)] \notin EarlyLife => q = r
         /\ pc[Life(r)] \notin CompensationPCs
         /\ \A q \in Runs : pc[Watch(q)] \notin {"idle", "settled", "dead"} => q = r
         /\ \A p \in Procs : pc[p] \in CompensationPCs => p = Watch(r)
<1>1. \A q \in Runs : pc[Life(q)] \notin EarlyLife => q = r
  BY DEF Activated
<1>2. pc[Life(r)] \notin CompensationPCs
  BY DEF Activated, PastActivation, CompensationPCs
<1>3. \A q \in Runs : pc[Watch(q)] \notin {"idle", "settled", "dead"} => q = r
  BY DEF Activated, TypeInv, QueueInv, OneWatch
<1>4. ASSUME NEW p \in Procs, pc[p] \in CompensationPCs PROVE p = Watch(r)
  <2>1. PICK q \in Runs : p \in {Life(q), Watch(q)}
    BY DEF Procs, Life, Watch
  <2>2. CASE p = Life(q)
    <3>1. pc[Life(q)] \notin EarlyLife
      BY <1>4, <2>2 DEF CompensationPCs, EarlyLife
    <3>2. QED
      BY <1>1, <1>2, <1>4, <2>2, <3>1
  <2>3. CASE p = Watch(q)
    BY <1>3, <1>4, <2>3 DEF CompensationPCs
  <2>4. QED
    BY <2>1, <2>2, <2>3
<1>5. QED
  BY <1>1, <1>2, <1>3, <1>4

\* What activation() finds when its fence lets it pass.
LEMMA ActivationFinds ==
  ASSUME OutcomeStep, NEW r \in Runs, Activation(r), tenant # "ACTIVE",
         tenant' = "ACTIVE"
  PROVE  Activated(r)'
<1> USE ProcsLemma DEF OutcomeStep, TimedOutStep
<1>1. /\ TypeOK /\ pc[Life(r)] = "execute" /\ step[r] = "activation"
      /\ attemptStatus = "provisioning"
      /\ pc' = [pc EXCEPT ![Life(r)] = "record"]
      /\ UNCHANGED <<schema, admin, setupToken, job, comp, step, aborted, outcomes>>
  <2>1. ActivationAllowed
    BY DEF Activation, StepFails
  <2>2. QED
    BY <2>1 DEF TypeInv, Activation, AtStep, StepReturns, ActivationAllowed,
                runVars, resourceVars, attemptVars
<1>2. ~SomeSpoilt
  BY <1>1 DEF SpoiltInv
<1>3. /\ job.state = "active" /\ job.run = r
      /\ pc[Watch(r)] \notin {"idle", "settled", "dead"}
  BY <1>1, <1>2, LinkedIsNow DEF EarlyLife
<1>4. pc[Watch(r)] \in {"racing", "recordTimeout"}
  <2>1. pc[Watch(r)] \notin CompensationPCs \union {"findTimedOut"}
    BY <1>1 DEF RejectionInv, Terminal
  <2>2. pc[Watch(r)] # "rejected"
    <3>1. pc[Watch(r)] = "rejected" => aborted[r]
      BY DEF SignalInv
    <3>2. QED
      BY <1>1, <1>2, <3>1 DEF CompensationInv, Ending, EarlyLife, SomeSpoilt, Spoilt
  <2>3. QED
    BY <1>3, <2>1, <2>2 DEF SignalInv, TimedOutWatch
<1>5. Provisioned
  <2>1. Done(r)
    BY <1>1, <1>4 DEF WorkInv, Unhindered
  <2>2. SchemaParts \subseteq schema /\ admin # NoAdmin
    BY <1>1, <2>1
    DEF Done, Past, AfterSchema, AfterMigration, AfterSeed, AfterAdmin, Steps,
        SchemaParts
  <2>3. QED
    BY <1>1, <2>2 DEF TypeOK, Provisioned
<1>6. ASSUME NEW q \in Runs, q # r PROVE pc'[Life(q)] \in EarlyLife
  <2>1. pc[Life(q)] \in EarlyLife
    BY <1>2, <1>3, <1>6, LinkedIsNow
  <2>2. QED
    BY <1>1, <1>6, <2>1 DEF TypeOK, Life
<1>7. pc'[Life(r)] = "record" /\ pc'[Watch(r)] = pc[Watch(r)]
  BY <1>1 DEF TypeOK
<1>8. ~SomeSpoilt'
  <2>1. \A p \in Procs : pc'[p] = "deleteAdmin" => pc[p] = "deleteAdmin"
    BY <1>1 DEF TypeOK
  <2>2. QED
    BY <1>1, <1>2, <2>1 DEF SomeSpoilt, Spoilt
<1>9. Provisioned'
  BY <1>1, <1>5 DEF Provisioned
<1>10. PastActivation(r)'
  BY <1>1, <1>7 DEF PastActivation
<1>11. QED
  BY <1>1, <1>3, <1>4, <1>6, <1>7, <1>8, <1>9, <1>10
  DEF Activated, CompensationPCs

\* Once the tenant is ACTIVE the lifecycle of that run only ends.
LEMMA ActivatedLife ==
  ASSUME OutcomeStep, NEW r \in Runs, Activated(r)
  PROVE  /\ PastActivation(r)' \/ pc'[Life(r)] \in {"resolved", "cancelled"}
         /\ pc'[Life(r)] = "cancelled" => aborted'[r]
         /\ pc[Life(r)] = "resolved" => pc'[Life(r)] = "resolved"
         /\ ~aborted'[r] /\ pc'[Life(r)] \in {"auditSucceeded", "statusSucceeded"} =>
              outcomes'["activation"] = "succeeded"
         /\ pc'[Life(r)] = "resolved" =>
              \/ pc[Life(r)] = "resolved" /\ ~LifeStep(r)
              \/ pc[Life(r)] = "statusSucceeded" /\ attemptStatus' = "succeeded"
<1> USE ProcsLemma DEF OutcomeStep, TimedOutStep
<1>0. /\ TypeOK /\ (aborted[r] => aborted'[r]) /\ ~Fault("crash")
      /\ job.state # "queued"
      /\ PastActivation(r) \/ pc[Life(r)] \in {"resolved", "cancelled"}
      /\ pc[Life(r)] = "cancelled" => aborted[r]
      /\ ~aborted[r] /\ pc[Life(r)] \in {"auditSucceeded", "statusSucceeded"} =>
           outcomes["activation"] = "succeeded"
  BY SignalMoves, NoOtherFault DEF TypeInv, Activated
<1>1. CASE ~LifeStep(r)
  <2>1. pc'[Life(r)] = pc[Life(r)] /\ PastActivation(r)' = PastActivation(r)
    <3>1. /\ pc'[Life(r)] = pc[Life(r)]
          /\ pc[Life(r)] \notin {"find", "dead"} => step'[r] = step[r]
      BY <1>0, <1>1, OthersLeaveCurrent
    <3>2. QED
      BY <1>0, <3>1 DEF PastActivation
  <2>2. ASSUME pc[Life(r)] \in {"auditSucceeded", "statusSucceeded"}
        PROVE  outcomes' = outcomes
    <3>1. ASSUME NEW q \in Runs, RecordStep(q) \/ RecordStepFailure(q) PROVE FALSE
      <4>1. pc[Life(q)] \in {"record", "recordFailure"}
        BY <3>1 DEF RecordStep, RecordStepFailure, Goto
      <4>2. q = r
        BY <4>1, ActivatedAlone DEF EarlyLife
      <4>3. QED
        BY <2>2, <4>1, <4>2
    <3>2. QED
      BY <3>1, WhoWrites
  <2>3. QED
    BY <1>0, <1>1, <2>1, <2>2
<1>2. CASE LifeStep(r)
  <2>1. PastActivation(r)
    BY <1>0, <1>2, LifeWorks DEF Finished
  <2>2. aborted'[r] = aborted[r]
    <3>1. pc'[Watch(r)] = pc[Watch(r)]
      BY <1>0, <1>2, LifeMoves
    <3>2. QED
      BY <1>0, <3>1, SignalMoves DEF TypeOK, Timeout, Goto
  <2>3. \/ RecordStep(r) \/ UpsertSucceededAudit(r) \/ MarkAttemptSucceeded(r)
        \/ Cancel(r)
    <3>1. pc[Life(r)] \in {"record", "auditSucceeded", "statusSucceeded"}
      BY <2>1 DEF PastActivation
    <3>2. ~StartLifecycle(r)
      BY <3>1
      DEF StartLifecycle, FindLinkedTenant, ReadAttemptStatus, ResetAttemptStatus,
          RecordResumedTenant, ClaimAttempt, ReadSafePayload,
          CreateOrResolveTenant, RecordCreatedTenant, RecordTenantCreationFailure,
          Goto
    <3>3. ~Compensate(Life(r))
      BY <1>0, <3>1, CompensateMoves DEF CompensationPCs
    <3>4. ProvisionTenantSchema(r) =>
            RecordStep(r) \/ UpsertSucceededAudit(r) \/ MarkAttemptSucceeded(r)
      <4>1. ~RecordStepThrows(r)
        BY NoOtherFault DEF RecordStepThrows
      <4>2. /\ pc[Life(r)] # "execute" /\ pc[Life(r)] # "recordFailure"
        BY <3>1
      <4>3. ~StepThrows(r) /\ ~RecordStepFailure(r)
        BY <4>2 DEF StepThrows, RecordStepFailure, Goto
      <4>4. /\ ~CreateTenantSchema(r) /\ ~BootstrapTenantSchema(r)
            /\ ~BootstrapTenantSeed(r) /\ ~AssignFirstAdmin(r)
            /\ ~GenerateSetupLink(r) /\ ~SendBackupEmail(r) /\ ~Activation(r)
        BY <4>2
        DEF CreateTenantSchema, BootstrapTenantSchema, BootstrapTenantSeed,
            FillTenantSchema, AssignFirstAdmin, GenerateSetupLink,
            SendBackupEmail, Activation, AtStep
      <4>5. QED
        BY <4>1, <4>3, <4>4 DEF ProvisionTenantSchema
    <3>5. QED
      BY <1>2, <3>2, <3>3, <3>4 DEF LifeStep
  <2>4. CASE RecordStep(r)
    <3>1. pc[Life(r)] = "record" /\ step[r] = "activation" /\ ~aborted[r]
      BY <2>1, <2>4 DEF PastActivation, RecordStep, Goto
    <3>2. pc'[Life(r)] = "auditSucceeded"
      BY <1>0, <2>4, <3>1 DEF RecordStep, Goto, TypeOK
    <3>3. attemptStatus = "provisioning"
      BY <3>1 DEF WorkInv, Working
    <3>4. outcomes' = [outcomes EXCEPT !["activation"] = "succeeded"]
      BY <2>4, <3>1, <3>3
      DEF RecordStep, WriteOutcome, WriteDropped, Terminal, RecordedSteps, Steps
    <3>5. outcomes'["activation"] = "succeeded"
      BY <1>0, <3>4 DEF TypeOK, RecordedSteps, Steps
    <3>6. QED
      BY <3>1, <3>2, <3>5 DEF PastActivation
  <2>5. CASE UpsertSucceededAudit(r)
    <3>1. pc[Life(r)] = "auditSucceeded" /\ pc'[Life(r)] = "statusSucceeded"
      BY <1>0, <2>5, NoOtherFault DEF UpsertSucceededAudit, Goto, TypeOK
    <3>2. outcomes' = outcomes
      BY <2>5 DEF UpsertSucceededAudit, attemptVars
    <3>3. QED
      BY <1>0, <2>2, <3>1, <3>2 DEF PastActivation
  <2>6. CASE MarkAttemptSucceeded(r)
    <3>1. pc[Life(r)] = "statusSucceeded" /\ pc'[Life(r)] = "resolved"
      BY <1>0, <2>6 DEF MarkAttemptSucceeded, Goto, TypeOK
    <3>2. attemptStatus' = "succeeded"
      BY <2>6, NoOtherFault
      DEF MarkAttemptSucceeded, WriteStatus, WriteDropped, Terminal
    <3>3. QED
      BY <3>1, <3>2
  <2>7. CASE Cancel(r)
    <3>1. pc'[Life(r)] = "cancelled" /\ aborted[r] /\ pc[Life(r)] # "resolved"
      BY <1>0, <2>7 DEF Cancel, TypeOK, Fenced
    <3>2. QED
      BY <1>0, <3>1
  <2>8. QED
    BY <2>3, <2>4, <2>5, <2>6, <2>7
<1>3. QED
  BY <1>1, <1>2

\* Its watch sees it resolve, or its timer runs out and it compensates; until
\* the tenant is marked FAILED it gets no further than to that.
ActiveWatch == (CompensationPCs \ {"auditFailed", "statusFailed"})
               \union {"racing", "recordTimeout", "findTimedOut", "settled"}

LEMMA ActivatedWatch ==
  ASSUME OutcomeStep, tenant = "ACTIVE", NEW r \in Runs, Activated(r)
  PROVE  /\ pc'[Watch(r)] \in ActiveWatch
         /\ pc'[Watch(r)] = "settled" => pc[Life(r)] = "resolved" /\ ~aborted'[r]
         /\ pc[Watch(r)] \in {"dropSchema", "markFailed"} =>
              pc'[Watch(r)] \in {"dropSchema", "markFailed"}
         /\ pc'[Watch(r)] \in CompensationPCs \union {"findTimedOut"} =>
              \/ pc[Watch(r)] \in CompensationPCs \union {"findTimedOut"}
              \/ attemptStatus' = "failed"
         /\ job'.run = job.run /\ job'.state # "queued"
<1> USE ProcsLemma DEF OutcomeStep, TimedOutStep, ActiveWatch
<1>0. /\ TypeOK /\ job.state # "queued" /\ job.run = r /\ ~StartRun
      /\ pc[Watch(r)] \in ActiveWatch /\ ~comp[Watch(r)].failed
      /\ pc[Watch(r)] = "settled" => pc[Life(r)] = "resolved" /\ ~aborted[r]
      /\ pc[Watch(r)] = "racing" => ~aborted[r]
  BY DEF TypeInv, Activated, StartRun, SomeSpoilt, Spoilt, SignalInv,
         TimedOutWatch, CompensationPCs
<1>1. CASE WatchStep(r)
  <2>1. job' = job
    BY <1>0, <1>1, WatchMoves
  <2>2. CASE RecordTimeout(r)
    <3>1. pc[Watch(r)] = "recordTimeout" /\ pc'[Watch(r)] = "findTimedOut"
      BY <1>0, <2>2, NoOtherFault DEF RecordTimeout, Goto, TypeOK
    <3>2. attemptStatus' = "failed"
      BY <2>2, NoOtherFault
      DEF RecordTimeout, WriteStatus, WriteDropped, Terminal
    <3>3. QED
      BY <1>0, <2>1, <3>1, <3>2
  <2>3. CASE FindTimedOutTenant(r)
    <3>1. pc[Watch(r)] = "findTimedOut" /\ pc'[Watch(r)] = "readOutcomes"
      BY <1>0, <2>3 DEF FindTimedOutTenant, Goto, TypeOK
    <3>2. QED
      BY <1>0, <2>1, <3>1 DEF CompensationPCs
  <2>4. CASE Compensate(Watch(r))
    <3>1. pc[Watch(r)] \in CompensationPCs \ {"auditFailed", "statusFailed"}
      BY <1>0, <2>4, CompensateMoves DEF CompensationPCs
    <3>2. /\ ~UpsertFailedAudit(Watch(r)) /\ ~MarkAttemptFailed(Watch(r))
          /\ ~MarkTenantFailed(Watch(r))
      BY <3>1, NoOtherFault
      DEF UpsertFailedAudit, MarkAttemptFailed, MarkTenantFailed, Goto
    <3>3. CASE DropTenantSchema(Watch(r))
      <4>1. pc'[Watch(r)] = "markFailed"
        BY <1>0, <3>3, NoOtherFault DEF DropTenantSchema, Goto, TypeOK
      <4>2. QED
        BY <1>0, <2>1, <3>1, <4>1 DEF CompensationPCs
    <3>4. CASE ~DropTenantSchema(Watch(r))
      <4>1. /\ pc'[Watch(r)] \in {"revokeTokens", "readAdmin", "deleteAdmin", "dropSchema"}
            /\ pc[Watch(r)] \notin {"dropSchema", "markFailed"}
        BY <1>0, <2>4, <3>2, <3>4, NoOtherFault
        DEF Compensate, ReadStepOutcomes, RevokeSetupTokens, ReadFirstAdmin,
            DeleteFirstAdmin, Goto, TypeOK
      <4>2. QED
        BY <1>0, <2>1, <3>1, <4>1 DEF CompensationPCs
    <3>5. QED
      BY <3>3, <3>4
  <2>5. QED
    BY <1>1, <2>2, <2>3, <2>4 DEF WatchStep
<1>2. CASE Timeout(r)
  <2>1. pc[Watch(r)] = "racing" /\ pc'[Watch(r)] = "recordTimeout" /\ job' = job
    BY <1>0, <1>2 DEF Timeout, Goto, TypeOK
  <2>2. QED
    BY <1>0, <2>1 DEF CompensationPCs
<1>3. CASE QueueStep(r)
  <2>1. CompleteJob(r)
    <3>1. pc[Life(r)] # "rejected" /\ pc[Watch(r)] # "rejected"
      BY <1>0 DEF Activated, PastActivation, CompensationPCs
    <3>2. QED
      BY <1>3, <3>1 DEF QueueStep, RejectJob, Goto
  <2>2. /\ pc[Watch(r)] = "racing" /\ pc'[Watch(r)] = "settled"
        /\ pc[Life(r)] = "resolved" /\ aborted' = aborted
    BY <1>0, <2>1 DEF CompleteJob, Goto, TypeOK, runVars
  <2>3. job'.run = job.run /\ job'.state = "completed"
    BY <1>0, <2>1 DEF CompleteJob, TypeOK, Jobs
  <2>4. QED
    BY <1>0, <2>2, <2>3 DEF CompensationPCs
<1>4. CASE ~WatchStep(r) /\ ~Timeout(r) /\ ~QueueStep(r)
  <2>1. ~Crash(r)
    BY NoOtherFault DEF Crash
  <2>2. pc'[Watch(r)] = pc[Watch(r)]
    <3>1. CASE LifeStep(r)
      BY <1>0, <3>1, LifeMoves
    <3>2. CASE ~LifeStep(r)
      BY <1>0, <1>4, <2>1, <3>2, OthersMoveThemselves
    <3>3. QED
      BY <3>1, <3>2
  <2>3. aborted'[r] = aborted[r]
    BY <1>0, <1>4, SignalMoves
  <2>4. job' = job
    <3>1. ASSUME NEW q \in Runs, LifeStep(q) \/ WatchStep(q) PROVE job' = job
      BY <1>0, <3>1, LifeMoves, WatchMoves
    <3>2. ASSUME NEW q \in Runs, QueueStep(q) PROVE FALSE
      <4>1. pc[Watch(q)] \in {"racing", "rejected"}
        BY <3>2 DEF QueueStep, CompleteJob, RejectJob, Goto
      <4>2. q = r
        BY <4>1, ActivatedAlone
      <4>3. QED
        BY <1>4, <3>2, <4>2
    <3>3. ASSUME NEW q \in Runs, Timeout(q) \/ Crash(q) PROVE job' = job
      BY <3>3, NoOtherFault DEF Timeout, Crash
    <3>4. CASE UNCHANGED vars
      BY <3>4 DEF vars
    <3>5. QED
      BY <1>0, <3>1, <3>2, <3>3, <3>4 DEF Next, Rest
  <2>5. QED
    BY <1>0, <2>2, <2>3, <2>4
<1>5. QED
  BY <1>1, <1>2, <1>3, <1>4

\* What it made stays until its watch takes it back.
LEMMA ActivatedKeeps ==
  ASSUME OutcomeStep, tenant = "ACTIVE", NEW r \in Runs, Activated(r)
  PROVE  /\ ~SomeSpoilt'
         /\ \A q \in Runs : q # r => pc'[Life(q)] \in EarlyLife
         /\ pc'[Watch(r)] \notin {"dropSchema", "markFailed"} => Provisioned'
         /\ ~aborted'[r] /\ pc'[Life(r)] = "resolved" => attemptStatus' = "succeeded"
         /\ pc'[Watch(r)] \in CompensationPCs \union {"findTimedOut"} =>
              attemptStatus' # "succeeded"
<1> USE ProcsLemma DEF OutcomeStep, TimedOutStep
<1>0. TypeOK /\ job.state # "queued" /\ job.run = r /\ ~SomeSpoilt /\ ~StartRun
  BY DEF TypeInv, Activated, StartRun
<1>1. ~SomeSpoilt'
  <2>1. SUFFICES ASSUME SomeSpoilt' PROVE FALSE
    OBVIOUS
  <2>2. PICK q \in Runs : pc[Life(q)] = "deleteAdmin"
    BY <1>0, <2>1, SpoiltByTwo
  <2>3. QED
    BY <2>2, ActivatedAlone DEF EarlyLife, CompensationPCs
<1>2. ASSUME NEW q \in Runs, q # r PROVE pc'[Life(q)] \in EarlyLife
  <2>1. pc[Life(q)] \in EarlyLife
    BY <1>2 DEF Activated
  <2>2. CASE aborted[q]
    BY <1>0, <2>1, <2>2, EarlyStays
  <2>3. CASE ~aborted[q]
    <3>1. pc[Life(q)] \in Finished
      <4>1. pc[Watch(q)] # "racing"
        BY <1>2, ActivatedAlone
      <4>2. QED
        BY <2>3, <4>1 DEF SignalInv
    <3>2. ~LifeStep(q)
      BY <3>1, LifeWorks
    <3>3. QED
      BY <1>0, <2>1, <3>2, OthersLeaveLife DEF EarlyLife
  <2>4. QED
    BY <2>2, <2>3
<1>3. ASSUME pc'[Watch(r)] \notin {"dropSchema", "markFailed"} PROVE Provisioned'
  <2>1. Provisioned
    BY <1>3, ActivatedWatch DEF Activated
  <2>2. ASSUME NEW p \in Procs, DropTenantSchema(p) \/ DeleteFirstAdmin(p)
        PROVE  FALSE
    <3>1. pc[p] \in {"dropSchema", "deleteAdmin"}
      BY <2>2 DEF DropTenantSchema, DeleteFirstAdmin, Goto
    <3>2. p = Watch(r)
      BY <3>1, ActivatedAlone DEF CompensationPCs
    <3>3. ~DropTenantSchema(p)
      BY <1>3, <3>2, ActivatedWatch DEF DropTenantSchema, Goto
    <3>4. ~DeleteFirstAdmin(p)
      BY <1>0, <1>3, <3>2 DEF DeleteFirstAdmin, Goto, TypeOK
    <3>5. QED
      BY <2>2, <3>3, <3>4
  <2>3. schema \subseteq schema'
    BY <2>2, WhoWrites
  <2>4. admin' = admin
    BY <2>1, <2>2, AdminMoves DEF Provisioned
  <2>5. schema' \subseteq SchemaParts
    BY TypeStep DEF TypeInv, TypeOK
  <2>6. QED
    BY <2>1, <2>3, <2>4, <2>5 DEF Provisioned
<1>4. ASSUME ~aborted'[r], pc'[Life(r)] = "resolved"
      PROVE  attemptStatus' = "succeeded"
  <2>1. CASE pc[Life(r)] = "resolved" /\ ~LifeStep(r)
    <3>1. ~aborted[r]
      BY <1>0, <1>4, SignalMoves
    <3>2. attemptStatus = "succeeded"
      BY <2>1, <3>1 DEF Activated
    <3>3. ASSUME NEW q \in Runs, RecordTimeout(q) PROVE FALSE
      <4>1. pc[Watch(q)] = "recordTimeout"
        BY <3>3 DEF RecordTimeout, Goto
      <4>2. q = r
        BY <4>1, ActivatedAlone
      <4>3. QED
        BY <3>1, <4>1, <4>2 DEF SignalInv
    <3>4. ASSUME NEW p \in Procs, MarkAttemptFailed(p) PROVE FALSE
      <4>1. pc[p] = "statusFailed"
        BY <3>4 DEF MarkAttemptFailed, Goto
      <4>2. p = Watch(r)
        BY <4>1, ActivatedAlone DEF CompensationPCs
      <4>3. QED
        BY <4>1, <4>2 DEF Activated
    <3>5. ASSUME NEW q \in Runs, RecordTenantCreationFailure(q) PROVE FALSE
      BY <3>5 DEF RecordTenantCreationFailure, CompensationInv, Goto
    <3>6. QED
      BY <3>2, <3>3, <3>4, <3>5, StatusWrites DEF Terminal
  <2>2. QED
    BY <1>4, <2>1, ActivatedLife
<1>5. ASSUME pc'[Watch(r)] \in CompensationPCs \union {"findTimedOut"},
             attemptStatus' = "succeeded"
      PROVE  FALSE
  <2>1. pc[Watch(r)] \in CompensationPCs \union {"findTimedOut"}
    BY <1>5, ActivatedWatch
  <2>2. attemptStatus # "succeeded" /\ aborted[r]
    BY <1>0, <2>1 DEF Activated, SignalInv, CompensationPCs, TypeOK
  <2>3. PICK q \in Runs : MarkAttemptSucceeded(q)
    BY <1>5, <2>2, StatusMoves
  <2>4. pc[Life(q)] = "statusSucceeded" /\ ~aborted[q]
    BY <2>3 DEF MarkAttemptSucceeded, Goto
  <2>5. QED
    BY <2>2, <2>4, ActivatedAlone DEF EarlyLife
<1>6. QED
  BY <1>1, <1>2, <1>3, <1>4, <1>5

LEMMA ActiveKeeps == ASSUME OutcomeStep PROVE ActiveInv'
<1> SUFFICES ASSUME tenant' = "ACTIVE" PROVE \E r \in Runs : Activated(r)'
  BY DEF ActiveInv
<1>1. CASE tenant # "ACTIVE"
  <2>1. \E r \in Runs : Activation(r)
    BY <1>1, TenantMoves DEF OutcomeStep, TimedOutStep
  <2>2. QED
    BY <1>1, <2>1, ActivationFinds
<1>2. CASE tenant = "ACTIVE"
  <2>1. PICK r \in Runs : Activated(r)
    BY <1>2 DEF OutcomeStep, ActiveInv
  <2>2. job'.run = r
    BY <1>2, <2>1, ActivatedWatch DEF Activated
  <2>3. pc'[Watch(r)] = "settled" => pc'[Life(r)] = "resolved" /\ ~aborted'[r]
    BY <1>2, <2>1, ActivatedWatch, ActivatedLife
  <2>4. Activated(r)'
    BY <1>2, <2>1, <2>2, <2>3, ActivatedWatch, ActivatedLife, ActivatedKeeps
    DEF Activated, ActiveWatch
  <2>5. QED
    BY <2>4
<1>3. QED
  BY <1>1, <1>2

LEMMA OutcomeInvStep ==
  ASSUME TypeInv, SignalInv, ClaimInv, TimedOutInv, OutcomeInv, [Next]_vars
  PROVE  OutcomeInv'
<1> SUFFICES ASSUME StepsFailOrTimeOut'
             PROVE  /\ tenant' # "FAILED" => WorkInv' /\ ActiveInv'
                    /\ \A r \in Runs : ~aborted'[r] /\ PastActivation(r)' =>
                         tenant' = "ACTIVE"
                    /\ attemptStatus' = "succeeded" =>
                         tenant' = "ACTIVE" /\ outcomes'["activation"] = "succeeded"
  BY DEF OutcomeInv
<1>0. TypeOK /\ StepsFailOrTimeOut
  BY KindsStay DEF StepsFailOrTimeOut, TypeInv
<1>1. ASSUME tenant' # "FAILED" PROVE WorkInv' /\ ActiveInv'
  <2>1. tenant # "FAILED"
    BY <1>1, TenantMoves
  <2>2. OutcomeStep
    BY <1>0, <1>1, <2>1 DEF OutcomeStep, TimedOutStep, TimedOutInv, OutcomeInv
  <2>3. QED
    BY <2>2, WorkKeeps, ActiveKeeps
<1>2. ASSUME tenant = "ACTIVE", tenant' # "ACTIVE"
      PROVE  \E r \in Runs : Activated(r) /\ pc[Watch(r)] = "markFailed"
  <2>1. PICK r \in Runs : Activated(r)
    BY <1>0, <1>2 DEF OutcomeInv, ActiveInv
  <2>2. PICK p \in Procs : MarkTenantFailed(p)
    BY <1>2, TenantMoves
  <2>3. pc[p] = "markFailed"
    BY <2>2 DEF MarkTenantFailed, Goto
  <2>4. p = Watch(r)
    BY <2>1, <2>3, ActivatedAlone DEF CompensationPCs
  <2>5. QED
    BY <2>1, <2>3, <2>4
<1>3. ASSUME NEW r \in Runs, ~aborted[r], PastActivation(r)
      PROVE  /\ tenant = "ACTIVE" /\ tenant' = "ACTIVE"
             /\ Activated(r)
  <2>1. tenant = "ACTIVE"
    BY <1>0, <1>3 DEF OutcomeInv
  <2>2. PICK q \in Runs : Activated(q)
    BY <1>0, <2>1 DEF OutcomeInv, ActiveInv
  <2>3. pc[Life(r)] \notin EarlyLife
    BY <1>3 DEF PastActivation, EarlyLife
  <2>4. \A q1 \in Runs : Activated(q1) => q1 = r
    BY <2>3, ActivatedAlone
  <2>5. pc[Watch(r)] # "markFailed"
    BY <1>3 DEF SignalInv
  <2>6. QED
    BY <1>2, <2>1, <2>2, <2>4, <2>5
<1>4. ASSUME NEW r \in Runs, ~aborted'[r], PastActivation(r)'
      PROVE  tenant' = "ACTIVE"
  BY <1>0, <1>3, <1>4, SignalMoves, ReachPastActivation
<1>5. ASSUME attemptStatus' = "succeeded"
      PROVE  tenant' = "ACTIVE" /\ outcomes'["activation"] = "succeeded"
  <2>1. CASE attemptStatus = "succeeded"
    <3>1. tenant = "ACTIVE" /\ outcomes["activation"] = "succeeded"
      BY <1>0, <2>1 DEF OutcomeInv
    <3>2. outcomes' = outcomes
      BY <2>1, WhoWrites DEF Terminal
    <3>3. tenant' = "ACTIVE"
      BY <1>2, <2>1, <3>1 DEF Activated, CompensationPCs
    <3>4. QED
      BY <3>1, <3>2, <3>3
  <2>2. CASE attemptStatus # "succeeded"
    <3>1. PICK q \in Runs : MarkAttemptSucceeded(q)
      BY <1>5, <2>2, StatusMoves
    <3>2. pc[Life(q)] = "statusSucceeded" /\ ~aborted[q] /\ outcomes' = outcomes
      BY <3>1 DEF MarkAttemptSucceeded, Goto
    <3>3. Activated(q) /\ tenant' = "ACTIVE"
      BY <1>3, <3>2 DEF PastActivation
    <3>4. QED
      BY <3>2, <3>3 DEF Activated
  <2>3. QED
    BY <2>1, <2>2
<1>6. QED
  BY <1>1, <1>4, <1>5

-----------------------------------------------------------------------------
(* Outcomes, where no run times out                                          *)

NoTimeout == "timeout" \notin faults.kinds

(* A lifecycle that works has the attempt for itself.                        *)
SeqInv ==
  NoTimeout =>
    \A r \in Runs :
      /\ ~aborted[r]
      /\ pc[Life(r)] \in Working \union CompensationPCs \union {"recordCreationFailure"}
           => attemptStatus = "provisioning"
      /\ pc[Life(r)] = "reset" => attemptStatus = "failed"

(* It writes the audit row before the attempt, and the same of both.         *)
AuditInv ==
  NoRunTimesOut =>
    /\ attemptStatus \in Terminal => audit = attemptStatus
    /\ \A r \in Runs :
         /\ pc[Life(r)] # "recordCreationFailure"
         /\ pc[Life(r)] = "statusFailed" => audit = FailureStatus(Life(r))
         /\ pc[Life(r)] = "statusSucceeded" => audit = "succeeded"

\* Where no run times out there are lifecycles only, one at a time.
LEMMA WorksAlone ==
  ASSUME TypeInv, SignalInv, \A q \in Runs : ~aborted[q], NEW r \in Runs,
         pc[Life(r)] \notin Finished
  PROVE  /\ pc[Watch(r)] = "racing"
         /\ \A q \in Runs : q # r => pc[Life(q)] \in Finished /\ pc[Watch(q)] # "racing"
         /\ \A p \in Procs : pc[p] \in CompensationPCs => p = Life(r)
<1>1. \A q \in Runs : pc[Watch(q)] \in {"idle", "racing", "settled", "dead"}
  BY DEF SignalInv
<1>2. pc[Watch(r)] = "racing"
  BY DEF SignalInv
<1>3. \A q \in Runs : q # r => pc[Watch(q)] # "racing"
  BY <1>2 DEF TypeInv, QueueInv, OneWatch
<1>4. \A q \in Runs : q # r => pc[Life(q)] \in Finished
  BY <1>3 DEF SignalInv
<1>5. ASSUME NEW p \in Procs, pc[p] \in CompensationPCs PROVE p = Life(r)
  <2>1. PICK q \in Runs : p \in {Life(q), Watch(q)}
    BY DEF Procs, Life, Watch
  <2>2. p # Watch(q)
    BY <1>1, <1>5 DEF CompensationPCs
  <2>3. q = r
    BY <1>4, <1>5, <2>1, <2>2 DEF CompensationPCs, Finished
  <2>4. QED
    BY <2>1, <2>2, <2>3
<1>6. QED
  BY <1>2, <1>3, <1>4, <1>5

\* Then only the lifecycle that works writes the attempt and its audit row.
LEMMA WritesAlone ==
  ASSUME TypeInv, SignalInv, \A q \in Runs : ~aborted[q], [Next]_vars,
         NEW r \in Runs, pc[Life(r)] \notin Finished, ~LifeStep(r)
  PROVE  /\ \/ attemptStatus' = attemptStatus
            \/ attemptStatus \notin Terminal /\ attemptStatus' = "provisioning"
         /\ audit' = audit
         /\ comp'[Life(r)] = comp[Life(r)]
<1>1. /\ \A q \in Runs : q # r => pc[Life(q)] \in Finished
      /\ \A p \in Procs : pc[p] \in CompensationPCs => p = Life(r)
  BY WorksAlone
<1>2. ASSUME NEW p \in Procs, Compensate(p) PROVE FALSE
  <2>1. p = Life(r)
    BY <1>1, <1>2, CompensateMoves DEF TypeInv
  <2>2. QED
    BY <1>2, <2>1 DEF LifeStep
<1>3. ASSUME NEW q \in Runs, LifeStep(q) PROVE FALSE
  BY <1>1, <1>3, LifeWorks
<1>4. ASSUME NEW q \in Runs,
             \/ ResetAttemptStatus(q) \/ RecordTenantCreationFailure(q)
             \/ MarkAttemptSucceeded(q) \/ UpsertSucceededAudit(q)
      PROVE  FALSE
  BY <1>3, <1>4 DEF LifeStep, StartLifecycle, ProvisionTenantSchema
<1>5. ASSUME NEW q \in Runs, RecordTimeout(q) \/ FindTimedOutTenant(q) PROVE FALSE
  BY <1>5 DEF RecordTimeout, FindTimedOutTenant, Goto, SignalInv
<1>6. ASSUME NEW p \in Procs, MarkAttemptFailed(p) \/ UpsertFailedAudit(p)
      PROVE  FALSE
  BY <1>2, <1>6 DEF Compensate
<1>7. comp'[Life(r)] = comp[Life(r)]
  BY <1>2, <1>5, CompMoves, ProcsLemma DEF TypeInv
<1>8. audit' = audit
  BY <1>4, <1>6, WhoWrites
<1>9. QED
  BY <1>4, <1>5, <1>6, <1>7, <1>8, StatusWrites DEF Terminal

LEMMA SeqInvStep ==
  ASSUME TypeInv, SignalInv, ClaimInv, SeqInv, [Next]_vars
  PROVE  SeqInv'
<1> SUFFICES ASSUME NoTimeout', NEW r \in Runs
             PROVE  /\ ~aborted'[r]
                    /\ pc'[Life(r)] \in Working \union CompensationPCs
                                          \union {"recordCreationFailure"}
                         => attemptStatus' = "provisioning"
                    /\ pc'[Life(r)] = "reset" => attemptStatus' = "failed"
  BY DEF SeqInv
<1> USE ProcsLemma DEF Working, CompensationPCs
<1>0. /\ NoTimeout /\ TypeOK /\ \A q \in Runs : ~aborted[q]
      /\ pc[Life(r)] \in Working \union CompensationPCs
                           \union {"recordCreationFailure"}
           => attemptStatus = "provisioning"
      /\ pc[Life(r)] = "reset" => attemptStatus = "failed"
  BY KindsStay DEF NoTimeout, SeqInv, TypeInv
<1>1. ~aborted'[r]
  <2>1. ~Timeout(r)
    BY <1>0 DEF NoTimeout, Timeout, Fault
  <2>2. QED
    BY <1>0, <2>1, SignalMoves
<1>2. CASE ~LifeStep(r)
  <2>1. pc'[Life(r)] = pc[Life(r)] \/ pc'[Life(r)] \in {"find", "dead"}
    BY <1>0, <1>2, OthersLeaveLife
  <2>2. CASE pc[Life(r)] \in Working \union CompensationPCs
                               \union {"recordCreationFailure", "reset"}
    <3>1. \/ attemptStatus' = attemptStatus
          \/ attemptStatus \notin Terminal /\ attemptStatus' = "provisioning"
      BY <1>0, <1>2, <2>2, WritesAlone DEF Finished
    <3>2. QED
      BY <1>0, <1>1, <2>1, <2>2, <3>1 DEF Terminal
  <2>3. QED
    BY <1>1, <2>1, <2>2
<1>3. CASE StartLifecycle(r)
  <2>1. CASE ReadAttemptStatus(r)
    <3>1. pc[Life(r)] = "status" /\ attemptStatus' = attemptStatus
      BY <2>1 DEF ReadAttemptStatus, Goto, attemptVars
    <3>2. attemptStatus # "accepted"
      BY <3>1 DEF ClaimInv, EarlyLife
    <3>3. QED
      BY <1>0, <1>1, <2>1, <3>1, <3>2
      DEF TypeOK, ReadAttemptStatus, Goto, AttemptStatuses
  <2>2. CASE FindLinkedTenant(r) \/ ResetAttemptStatus(r) \/ RecordResumedTenant(r)
    BY <1>0, <1>1, <2>2
    DEF TypeOK, FindLinkedTenant, ResetAttemptStatus, RecordResumedTenant, Goto,
        Unless, WriteStatus, attemptVars
  <2>3. CASE \/ ClaimAttempt(r) \/ ReadSafePayload(r) \/ CreateOrResolveTenant(r)
             \/ RecordCreatedTenant(r) \/ RecordTenantCreationFailure(r)
    BY <1>0, <1>1, <2>3
    DEF TypeOK, ClaimAttempt, ReadSafePayload, CreateOrResolveTenant,
        RecordCreatedTenant, RecordTenantCreationFailure, Goto, Unless,
        WriteStatus, attemptVars
  <2>4. QED
    BY <1>3, <2>1, <2>2, <2>3 DEF StartLifecycle
<1>4. CASE ProvisionTenantSchema(r)
  <2> USE DEF AtStep, StepReturns, StepFails, WriteStatus, Goto, attemptVars
  <2>1. CASE \/ CreateTenantSchema(r) \/ BootstrapTenantSchema(r)
             \/ BootstrapTenantSeed(r) \/ AssignFirstAdmin(r)
             \/ GenerateSetupLink(r) \/ SendBackupEmail(r)
    BY <1>0, <1>1, <2>1
    DEF TypeOK, CreateTenantSchema, BootstrapTenantSchema, BootstrapTenantSeed,
        FillTenantSchema, AssignFirstAdmin, GenerateSetupLink, SendBackupEmail
  <2>2. CASE Activation(r) \/ StepThrows(r)
    BY <1>0, <1>1, <2>2 DEF TypeOK, Activation, StepThrows
  <2>3. CASE \/ RecordStep(r) \/ RecordStepThrows(r) \/ RecordStepFailure(r)
             \/ UpsertSucceededAudit(r) \/ MarkAttemptSucceeded(r)
    BY <1>0, <1>1, <2>3
    DEF TypeOK, RecordStep, RecordStepThrows, RecordStepFailure,
        UpsertSucceededAudit, MarkAttemptSucceeded
  <2>4. QED
    BY <1>4, <2>1, <2>2, <2>3 DEF ProvisionTenantSchema
<1>5. CASE Compensate(Life(r))
  BY <1>0, <1>1, <1>5
  DEF Compensate, ReadStepOutcomes, RevokeSetupTokens, ReadFirstAdmin,
      DeleteFirstAdmin, DropTenantSchema, MarkTenantFailed, UpsertFailedAudit,
      MarkAttemptFailed, Goto, TypeOK, attemptVars
<1>6. CASE Cancel(r)
  BY <1>0, <1>6 DEF Cancel
<1>7. QED
  BY <1>2, <1>3, <1>4, <1>5, <1>6 DEF LifeStep

LEMMA AuditInvStep ==
  ASSUME TypeInv, SignalInv, ClaimInv, SeqInv, AuditInv, [Next]_vars
  PROVE  AuditInv'
<1> SUFFICES ASSUME NoRunTimesOut'
             PROVE  /\ attemptStatus' \in Terminal => audit' = attemptStatus'
                    /\ \A r \in Runs :
                         /\ pc'[Life(r)] # "recordCreationFailure"
                         /\ pc'[Life(r)] = "statusFailed" =>
                              audit' = FailureStatus(Life(r))'
                         /\ pc'[Life(r)] = "statusSucceeded" => audit' = "succeeded"
  BY DEF AuditInv
<1> USE ProcsLemma
<1>0. /\ TypeOK /\ NoRunTimesOut /\ NoTimeout
      /\ ~Fault("create") /\ ~Fault("record") /\ ~Fault("timeout")
  BY KindsStay DEF NoRunTimesOut, NoTimeout, Fault, TypeInv
<1>1. /\ \A r \in Runs : ~aborted[r]
      /\ attemptStatus \in Terminal => audit = attemptStatus
  BY <1>0 DEF SeqInv, AuditInv
<1>2. ASSUME attemptStatus' \in Terminal PROVE audit' = attemptStatus'
  <2>1. CASE attemptStatus' = attemptStatus
    <3>1. ASSUME NEW r \in Runs, UpsertSucceededAudit(r) PROVE FALSE
      <4>1. pc[Life(r)] = "auditSucceeded"
        BY <3>1 DEF UpsertSucceededAudit, Goto
      <4>2. attemptStatus = "provisioning"
        BY <1>0, <4>1 DEF SeqInv, Working
      <4>3. QED
        BY <1>2, <2>1, <4>2 DEF Terminal
    <3>2. ASSUME NEW p \in Procs, UpsertFailedAudit(p) PROVE FALSE
      <4>1. pc[p] = "auditFailed"
        BY <3>2 DEF UpsertFailedAudit, Goto
      <4>2. PICK r \in Runs : p \in {Life(r), Watch(r)}
        BY DEF Procs, Life, Watch
      <4>3. p = Life(r)
        BY <1>1, <4>1, <4>2 DEF SignalInv
      <4>4. attemptStatus = "provisioning"
        BY <1>0, <4>1, <4>3 DEF SeqInv, CompensationPCs
      <4>5. QED
        BY <1>2, <2>1, <4>4 DEF Terminal
    <3>3. QED
      BY <1>1, <1>2, <2>1, <3>1, <3>2, WhoWrites
  <2>2. CASE attemptStatus' # attemptStatus
    <3>1. ASSUME NEW r \in Runs, ResetAttemptStatus(r) PROVE FALSE
      BY <1>2, <2>2, <3>1 DEF ResetAttemptStatus, Terminal
    <3>2. ASSUME NEW r \in Runs, RecordTenantCreationFailure(r) PROVE FALSE
      BY <1>0, <3>2 DEF AuditInv, RecordTenantCreationFailure, Goto
    <3>3. ASSUME NEW r \in Runs, RecordTimeout(r) PROVE FALSE
      BY <1>1, <3>3 DEF RecordTimeout, Goto, SignalInv
    <3>4. ASSUME NEW r \in Runs, MarkAttemptSucceeded(r),
                 attemptStatus' = "succeeded"
          PROVE  audit' = "succeeded"
      BY <1>0, <3>4 DEF AuditInv, MarkAttemptSucceeded, Goto
    <3>5. ASSUME NEW p \in Procs, MarkAttemptFailed(p),
                 attemptStatus' = FailureStatus(p)
          PROVE  audit' = FailureStatus(p)
      <4>1. pc[p] = "statusFailed" /\ audit' = audit
        BY <3>5 DEF MarkAttemptFailed, Goto
      <4>2. PICK r \in Runs : p \in {Life(r), Watch(r)}
        BY DEF Procs, Life, Watch
      <4>3. p = Life(r)
        BY <1>1, <4>1, <4>2 DEF SignalInv
      <4>4. QED
        BY <1>0, <4>1, <4>3 DEF AuditInv
    <3>6. QED
      BY <1>2, <2>2, <3>1, <3>2, <3>3, <3>4, <3>5, StatusWrites DEF Terminal
  <2>3. QED
    BY <2>1, <2>2
<1>3. ASSUME NEW r \in Runs
      PROVE  /\ pc'[Life(r)] # "recordCreationFailure"
             /\ pc'[Life(r)] = "statusFailed" => audit' = FailureStatus(Life(r))'
             /\ pc'[Life(r)] = "statusSucceeded" => audit' = "succeeded"
  <2>0. /\ pc[Life(r)] # "recordCreationFailure"
        /\ pc[Life(r)] = "statusFailed" => audit = FailureStatus(Life(r))
        /\ pc[Life(r)] = "statusSucceeded" => audit = "succeeded"
    BY <1>0 DEF AuditInv
  <2>1. CASE ~LifeStep(r)
    <3>1. pc'[Life(r)] = pc[Life(r)] \/ pc'[Life(r)] \in {"find", "dead"}
      BY <1>0, <2>1, OthersLeaveLife
    <3>2. CASE pc[Life(r)] \in {"statusFailed", "statusSucceeded"}
      <4>1. audit' = audit /\ comp'[Life(r)] = comp[Life(r)]
        BY <1>1, <2>1, <3>2, WritesAlone DEF Finished
      <4>2. QED
        BY <2>0, <3>1, <3>2, <4>1 DEF FailureStatus
    <3>3. QED
      BY <2>0, <3>1, <3>2
  <2>2. CASE StartLifecycle(r)
    BY <1>0, <2>0, <2>2
    DEF TypeOK, Goto, StartLifecycle, FindLinkedTenant, ReadAttemptStatus,
        ResetAttemptStatus, RecordResumedTenant, ClaimAttempt, ReadSafePayload,
        CreateOrResolveTenant, RecordCreatedTenant, RecordTenantCreationFailure,
        Unless
  <2>3. CASE ProvisionTenantSchema(r)
    BY <1>0, <2>0, <2>3
    DEF TypeOK, Goto, ProvisionTenantSchema, CreateTenantSchema,
        BootstrapTenantSchema, BootstrapTenantSeed, FillTenantSchema,
        AssignFirstAdmin, GenerateSetupLink, SendBackupEmail, Activation, AtStep,
        StepReturns, StepThrows, StepFails, RecordStep, RecordStepThrows,
        RecordStepFailure, UpsertSucceededAudit, MarkAttemptSucceeded
  <2>4. CASE Compensate(Life(r))
    <3>1. CASE UpsertFailedAudit(Life(r))
      <4>1. comp' = comp
        BY <3>1 DEF UpsertFailedAudit
      <4>2. \/ pc'[Life(r)] = "statusFailed" /\ audit' = FailureStatus(Life(r))
            \/ pc'[Life(r)] = "rejected"
        BY <1>0, <3>1 DEF UpsertFailedAudit, Goto, TypeOK
      <4>3. QED
        BY <4>1, <4>2 DEF FailureStatus
    <3>2. CASE ~UpsertFailedAudit(Life(r))
      <4>1. pc'[Life(r)] \notin {"statusFailed", "statusSucceeded", "recordCreationFailure"}
        BY <1>0, <2>4, <3>2
        DEF Compensate, ReadStepOutcomes, RevokeSetupTokens, ReadFirstAdmin,
            DeleteFirstAdmin, DropTenantSchema, MarkTenantFailed,
            MarkAttemptFailed, Goto, TypeOK
      <4>2. QED
        BY <4>1
    <3>3. QED
      BY <3>1, <3>2
  <2>5. CASE Cancel(r)
    BY <1>1, <2>5 DEF Cancel
  <2>6. QED
    BY <2>1, <2>2, <2>3, <2>4, <2>5 DEF LifeStep
<1>4. QED
  BY <1>2, <1>3

\* Where a lifecycle may hold a schema, a First Admin or a setup token.
Cleaning == {"readAdmin", "deleteAdmin", "dropSchema"}
Holding == {"execute", "record", "recordFailure", "readOutcomes", "revokeTokens"}
           \union Cleaning

\* What the tenant has, as the lifecycle that is at it goes.
Holds(r) ==
  /\ tenant = "PROVISIONING" =>
       pc[Life(r)] \in Holding \union {"recordCreated", "markFailed"}
  /\ tenant # "ACTIVE" /\ ~NothingLeft => pc[Life(r)] \in Holding
  /\ tenant = "ACTIVE" => PastActivation(r) \/ pc[Life(r)] = "resolved"
  /\ PastActivation(r) => tenant = "ACTIVE"
  /\ pc[Life(r)] \in {"execute", "recordFailure"} /\ step[r] = "schema_created" =>
       schema = {}
  /\ pc[Life(r)] \in {"execute", "record", "recordFailure"}
     /\ step[r] # "schema_created" => outcomes["schema_created"] = "succeeded"
  /\ pc[Life(r)] = "readOutcomes" /\ schema # {} =>
       outcomes["schema_created"] = "succeeded"
  /\ pc[Life(r)] \in {"revokeTokens"} \union Cleaning /\ schema # {} =>
       comp[Life(r)].schemaCreated
  /\ pc[Life(r)] \in Cleaning => ~setupToken
  /\ pc[Life(r)] = "deleteAdmin" => comp[Life(r)].admin = admin
  /\ pc[Life(r)] = "dropSchema" => admin = NoAdmin

(* Whatever a run leaves when it is over is nothing, or an ACTIVE tenant.    *)
LeftInv ==
  OnlyStepsFail =>
    /\ \A r \in Runs : ~comp[Life(r)].failed
    /\ \A r \in Runs : pc[Watch(r)] = "racing" => Holds(r)
    /\ (\A r \in Runs : pc[Watch(r)] # "racing") =>
         /\ tenant # "PROVISIONING"
         /\ tenant = "ACTIVE" => job.state # "queued"
         /\ tenant # "ACTIVE" => NothingLeft

\* What a step of the lifecycle that is at work needs to know to keep it.
LeftStep(r) ==
  /\ TypeOK /\ ClaimInv /\ ~aborted[r] /\ Holds(r) /\ ~comp[Life(r)].failed
  /\ pc[Life(r)] \in {"record", "recordFailure"} => attemptStatus = "provisioning"
  /\ ~Fault("crash") /\ ~Fault("record") /\ ~Fault("compensation")
  /\ ~Fault("audit") /\ ~Fault("timeout")

LEMMA StartHolds ==
  ASSUME NEW r \in Runs, LeftStep(r), StartLifecycle(r)
  PROVE  Holds(r)' /\ comp' = comp
<1> USE ProcsLemma DEF LeftStep, Goto, resourceVars, attemptVars
<1> USE DEF Holding, Cleaning, PastActivation
<1>0. /\ TypeOK
      /\ tenant # "PROVISIONING" \/ pc[Life(r)] = "recordCreated"
      /\ tenant # "ACTIVE" /\ NothingLeft
  <2>1. pc[Life(r)] \in {"find", "status", "reset", "recordResumed", "claim",
                         "payload", "insert", "recordCreated",
                         "recordCreationFailure"}
    BY DEF StartLifecycle, FindLinkedTenant, ReadAttemptStatus, ResetAttemptStatus,
           RecordResumedTenant, ClaimAttempt, ReadSafePayload,
           CreateOrResolveTenant, RecordCreatedTenant, RecordTenantCreationFailure
  <2>2. QED
    BY <2>1 DEF Holds
<1>1. CASE \/ FindLinkedTenant(r) \/ ReadAttemptStatus(r) \/ ResetAttemptStatus(r)
           \/ ClaimAttempt(r) \/ ReadSafePayload(r) \/ RecordTenantCreationFailure(r)
  <2>1. /\ UNCHANGED <<tenant, schema, admin, setupToken, comp>>
        /\ pc[Life(r)] # "recordCreated"
        /\ pc'[Life(r)] \in {"claim", "status", "resolved", "rejected", "reset",
                             "recordResumed", "payload", "insert",
                             "recordCreationFailure"}
    BY <1>0, <1>1
    DEF FindLinkedTenant, ReadAttemptStatus, ResetAttemptStatus, ClaimAttempt,
        ReadSafePayload, RecordTenantCreationFailure, Unless, TypeOK
  <2>2. QED
    BY <1>0, <2>1 DEF Holds, NothingLeft
<1>2. CASE CreateOrResolveTenant(r)
  <2>1. tenant = "none"
    BY <1>2 DEF CreateOrResolveTenant, ClaimInv, Creating
  <2>2. /\ UNCHANGED <<schema, admin, setupToken, comp>>
        /\ \/ tenant' = "PROVISIONING" /\ pc'[Life(r)] = "recordCreated"
           \/ tenant' = tenant /\ pc'[Life(r)] = "recordCreationFailure"
    BY <1>0, <1>2, <2>1 DEF CreateOrResolveTenant, Unless, TypeOK
  <2>3. QED
    BY <1>0, <2>1, <2>2 DEF Holds, NothingLeft
<1>3. CASE RecordResumedTenant(r) \/ RecordCreatedTenant(r)
  <2>1. /\ UNCHANGED <<tenant, schema, admin, setupToken, comp>>
        /\ pc'[Life(r)] = "execute" /\ step'[r] = "schema_created"
    BY <1>0, <1>3 DEF RecordResumedTenant, RecordCreatedTenant, Unless, TypeOK
  <2>2. QED
    BY <1>0, <2>1 DEF Holds, NothingLeft
<1>4. QED
  BY <1>1, <1>2, <1>3 DEF StartLifecycle

LEMMA StepHolds ==
  ASSUME NEW r \in Runs, LeftStep(r), ProvisionTenantSchema(r)
  PROVE  Holds(r)' /\ comp' = comp
<1> USE ProcsLemma DEF LeftStep, Goto, resourceVars, attemptVars, runVars
<1> USE DEF AtStep, StepReturns, StepFails, Holding, Cleaning, PastActivation
<1>0. TypeOK /\ Holds(r)
  OBVIOUS
<1>1. CASE CreateTenantSchema(r)
  BY <1>0, <1>1 DEF CreateTenantSchema, TypeOK, Holds
<1>2. CASE BootstrapTenantSchema(r)
  BY <1>0, <1>2 DEF BootstrapTenantSchema, FillTenantSchema, TypeOK, Holds
<1>3. CASE BootstrapTenantSeed(r)
  BY <1>0, <1>3 DEF BootstrapTenantSeed, FillTenantSchema, TypeOK, Holds
<1>4. CASE AssignFirstAdmin(r) \/ GenerateSetupLink(r)
  BY <1>0, <1>4 DEF AssignFirstAdmin, GenerateSetupLink, TypeOK, Holds
<1>5. CASE SendBackupEmail(r)
  BY <1>0, <1>5 DEF SendBackupEmail, NextStep, TypeOK, Holds
<1>6. CASE Activation(r)
  BY <1>0, <1>6 DEF Activation, TypeOK, Holds
<1>7. CASE StepThrows(r) \/ RecordStepThrows(r)
  BY <1>0, <1>7 DEF StepThrows, RecordStepThrows, TypeOK, Holds
<1>8. CASE RecordStep(r)
  <2>1. /\ UNCHANGED <<tenant, schema, admin, setupToken, comp>>
        /\ pc[Life(r)] = "record" /\ step[r] \in Steps
    BY <1>0, <1>8 DEF RecordStep, TypeOK
  <2>2. WriteOutcome(step[r], "succeeded") /\ attemptStatus = "provisioning"
    BY <1>8, <2>1 DEF RecordStep
  <2>3. outcomes'["schema_created"] = "succeeded"
    <3>1. CASE step[r] = "schema_created"
      BY <1>0, <2>2, <3>1
      DEF WriteOutcome, WriteDropped, Terminal, RecordedSteps, Steps, TypeOK
    <3>2. CASE step[r] # "schema_created"
      <4>1. outcomes["schema_created"] = "succeeded"
        BY <1>0, <2>1, <3>2 DEF Holds
      <4>2. QED
        BY <1>0, <2>2, <3>2, <4>1
        DEF WriteOutcome, RecordedSteps, Steps, TypeOK
    <3>3. QED
      BY <3>1, <3>2
  <2>4. CASE step[r] = "activation"
    <3>1. pc'[Life(r)] = "auditSucceeded"
      BY <1>0, <1>8, <2>4 DEF RecordStep, TypeOK
    <3>2. tenant = "ACTIVE"
      BY <1>0, <2>1, <2>4 DEF Holds
    <3>3. QED
      BY <2>1, <3>1, <3>2 DEF Holds
  <2>5. CASE step[r] # "activation"
    <3>1. pc'[Life(r)] = "execute" /\ step'[r] = NextStep[step[r]]
      BY <1>0, <1>8, <2>5 DEF RecordStep, TypeOK
    <3>2. tenant # "ACTIVE"
      BY <1>0, <2>1, <2>5 DEF Holds
    <3>3. step'[r] # "schema_created"
      BY <2>1, <2>5, <3>1 DEF Steps, NextStep
    <3>4. QED
      BY <2>1, <2>3, <3>1, <3>2, <3>3 DEF Holds
  <2>6. QED
    BY <2>4, <2>5
<1>9. CASE RecordStepFailure(r)
  <2>1. /\ UNCHANGED <<tenant, schema, admin, setupToken, comp>>
        /\ pc[Life(r)] = "recordFailure" /\ pc'[Life(r)] = "readOutcomes"
        /\ WriteOutcome(step[r], "failed")
    BY <1>0, <1>9 DEF RecordStepFailure, TypeOK
  <2>2. tenant # "ACTIVE"
    BY <1>0, <2>1 DEF Holds
  <2>3. schema # {} => outcomes'["schema_created"] = "succeeded"
    <3>1. schema # {} => /\ step[r] # "schema_created"
                         /\ outcomes["schema_created"] = "succeeded"
      BY <1>0, <2>1 DEF Holds
    <3>2. QED
      BY <1>0, <2>1, <3>1 DEF WriteOutcome, RecordedSteps, Steps, TypeOK
  <2>4. QED
    BY <2>1, <2>2, <2>3 DEF Holds
<1>10. CASE UpsertSucceededAudit(r) \/ MarkAttemptSucceeded(r)
  <2>1. /\ UNCHANGED <<tenant, schema, admin, setupToken, comp>>
        /\ pc[Life(r)] \in {"auditSucceeded", "statusSucceeded"}
        /\ pc'[Life(r)] \in {"statusSucceeded", "resolved"}
    BY <1>0, <1>10 DEF UpsertSucceededAudit, MarkAttemptSucceeded, TypeOK
  <2>2. tenant = "ACTIVE"
    BY <1>0, <2>1 DEF Holds
  <2>3. QED
    BY <2>1, <2>2 DEF Holds
<1>11. QED
  BY <1>1, <1>2, <1>3, <1>4, <1>5, <1>6, <1>7, <1>8, <1>9, <1>10
  DEF ProvisionTenantSchema

LEMMA CompensationHolds ==
  ASSUME NEW r \in Runs, LeftStep(r), Compensate(Life(r))
  PROVE  Holds(r)' /\ ~comp'[Life(r)].failed
<1> USE ProcsLemma DEF LeftStep, Goto, resourceVars, attemptVars, runVars
<1> USE DEF Holding, Cleaning, PastActivation
<1>0. TypeOK /\ Holds(r) /\ ~comp[Life(r)].failed /\ tenant # "ACTIVE"
  BY CompensateMoves DEF Holds, CompensationPCs
<1>1. comp[Life(r)] \in Compensations
  BY <1>0 DEF TypeOK
<1>2. CASE ReadStepOutcomes(Life(r))
  <2>1. /\ UNCHANGED <<tenant, schema, admin, setupToken>>
        /\ pc[Life(r)] = "readOutcomes" /\ pc'[Life(r)] = "revokeTokens"
        /\ comp'[Life(r)] =
             [schemaCreated |-> outcomes["schema_created"] = "succeeded",
              admin |-> NoAdmin, failed |-> FALSE]
    BY <1>0, <1>2 DEF ReadStepOutcomes, TypeOK
  <2>2. ~comp'[Life(r)].failed
    BY <2>1
  <2>3. schema # {} => outcomes["schema_created"] = "succeeded"
    BY <1>0, <2>1 DEF Holds
  <2>4. schema # {} => comp'[Life(r)].schemaCreated
    <3> SUFFICES ASSUME schema # {} PROVE comp'[Life(r)].schemaCreated
      OBVIOUS
    <3>1. (outcomes["schema_created"] = "succeeded") = TRUE
      BY <2>3
    <3>2. comp'[Life(r)] =
            [schemaCreated |-> TRUE, admin |-> NoAdmin, failed |-> FALSE]
      BY <2>1, <3>1, Zenon
    <3>3. QED
      BY <3>2
  <2>5. QED
    BY <1>0, <2>1, <2>2, <2>4 DEF Holds, NothingLeft
<1>3. CASE RevokeSetupTokens(Life(r))
  <2>1. /\ UNCHANGED <<tenant, schema, admin, comp>> /\ setupToken' = FALSE
        /\ pc[Life(r)] = "revokeTokens" /\ pc'[Life(r)] = "readAdmin"
    BY <1>0, <1>3 DEF RevokeSetupTokens, TypeOK
  <2>2. QED
    BY <1>0, <2>1 DEF Holds, NothingLeft
<1>4. CASE ReadFirstAdmin(Life(r))
  <2>1. /\ UNCHANGED <<tenant, schema, admin, setupToken>>
        /\ pc[Life(r)] = "readAdmin" /\ pc'[Life(r)] = "deleteAdmin"
        /\ comp'[Life(r)] = [comp[Life(r)] EXCEPT !.admin = admin]
    BY <1>0, <1>4 DEF ReadFirstAdmin, TypeOK
  <2>2. /\ comp'[Life(r)].admin = admin /\ ~comp'[Life(r)].failed
        /\ comp'[Life(r)].schemaCreated = comp[Life(r)].schemaCreated
    BY <1>0, <1>1, <2>1 DEF Compensations
  <2>3. QED
    BY <1>0, <2>1, <2>2 DEF Holds, NothingLeft
<1>5. CASE DeleteFirstAdmin(Life(r))
  <2>1. pc[Life(r)] = "deleteAdmin" /\ comp[Life(r)].admin = admin
    BY <1>0, <1>5 DEF DeleteFirstAdmin, Holds
  <2>2. /\ UNCHANGED <<tenant, schema, setupToken, comp>> /\ admin' = NoAdmin
        /\ pc'[Life(r)] = "dropSchema"
    BY <1>0, <1>5, <2>1 DEF DeleteFirstAdmin, TypeOK
  <2>3. QED
    BY <1>0, <2>1, <2>2 DEF Holds, NothingLeft
<1>6. CASE DropTenantSchema(Life(r))
  <2>1. /\ UNCHANGED <<tenant, admin, setupToken, comp>>
        /\ schema' = IF comp[Life(r)].schemaCreated THEN {} ELSE schema
        /\ pc[Life(r)] = "dropSchema" /\ pc'[Life(r)] = "markFailed"
    BY <1>0, <1>6 DEF DropTenantSchema, TypeOK
  <2>2. NothingLeft'
    BY <1>0, <2>1 DEF Holds, NothingLeft
  <2>3. QED
    BY <1>0, <2>1, <2>2 DEF Holds
<1>7. CASE MarkTenantFailed(Life(r))
  <2>1. /\ UNCHANGED <<schema, admin, setupToken, comp>> /\ tenant' = "FAILED"
        /\ pc[Life(r)] = "markFailed" /\ pc'[Life(r)] = "auditFailed"
    BY <1>0, <1>7 DEF MarkTenantFailed, TypeOK
  <2>2. QED
    BY <1>0, <2>1 DEF Holds, NothingLeft
<1>8. CASE UpsertFailedAudit(Life(r)) \/ MarkAttemptFailed(Life(r))
  <2>1. /\ UNCHANGED <<tenant, schema, admin, setupToken, comp>>
        /\ pc[Life(r)] \in {"auditFailed", "statusFailed"}
        /\ pc'[Life(r)] \in {"statusFailed", "rejected"}
    BY <1>0, <1>8 DEF UpsertFailedAudit, MarkAttemptFailed, TypeOK
  <2>2. QED
    BY <1>0, <2>1 DEF Holds, NothingLeft
<1>9. QED
  BY <1>2, <1>3, <1>4, <1>5, <1>6, <1>7, <1>8 DEF Compensate

LEMMA LeftInvStep ==
  ASSUME TypeInv, SignalInv, ClaimInv, SeqInv, LeftInv, [Next]_vars
  PROVE  LeftInv'
<1> SUFFICES ASSUME OnlyStepsFail'
             PROVE  /\ \A r \in Runs : ~comp'[Life(r)].failed
                    /\ \A r \in Runs : pc'[Watch(r)] = "racing" => Holds(r)'
                    /\ (\A r \in Runs : pc'[Watch(r)] # "racing") =>
                         /\ tenant' # "PROVISIONING"
                         /\ tenant' = "ACTIVE" => job'.state # "queued"
                         /\ tenant' # "ACTIVE" => NothingLeft'
  BY DEF LeftInv
<1> USE ProcsLemma
<1>0. /\ TypeOK /\ OnlyStepsFail /\ NoTimeout
      /\ ~Fault("crash") /\ ~Fault("record") /\ ~Fault("compensation")
      /\ ~Fault("audit") /\ ~Fault("timeout")
  BY KindsStay DEF OnlyStepsFail, NoTimeout, Fault, TypeInv
<1>1. /\ \A r \in Runs : ~aborted[r] /\ ~comp[Life(r)].failed
      /\ \A r \in Runs : pc[Watch(r)] = "racing" => Holds(r)
  BY <1>0 DEF SeqInv, LeftInv
<1>2. ASSUME NEW r \in Runs, WatchStep(r) \/ Timeout(r) \/ Crash(r) PROVE FALSE
  BY <1>0, <1>1, <1>2, WatchWorks DEF SignalInv, CompensationPCs, Timeout, Crash
<1>3. ASSUME NEW r \in Runs, LifeStep(r)
      PROVE  /\ pc'[Watch(r)] = "racing" /\ Holds(r)'
             /\ ~comp'[Life(r)].failed
             /\ \A q \in Runs : q # r => /\ pc'[Watch(q)] # "racing"
                                         /\ ~comp'[Life(q)].failed
  <2>1. pc[Life(r)] \notin Finished
    BY <1>3, LifeWorks
  <2>2. /\ pc[Watch(r)] = "racing"
        /\ \A q \in Runs : q # r => pc[Life(q)] \in Finished /\ pc[Watch(q)] # "racing"
        /\ \A p \in Procs : pc[p] \in CompensationPCs => p = Life(r)
    BY <1>1, <2>1, WorksAlone
  <2>3. \A q \in Runs : pc'[Watch(q)] = pc[Watch(q)]
    BY <1>0, <1>3, LifeMoves DEF Life, Watch
  <2>4. LeftStep(r)
    <3>1. pc[Life(r)] \in {"record", "recordFailure"} => attemptStatus = "provisioning"
      BY <1>0 DEF SeqInv, Working
    <3>2. QED
      BY <1>0, <1>1, <2>2, <3>1 DEF LeftStep
  <2>5. Holds(r)' /\ ~comp'[Life(r)].failed
    <3>1. ~Cancel(r)
      BY <1>1 DEF Cancel
    <3>2. CASE Compensate(Life(r))
      BY <2>4, <3>2, CompensationHolds
    <3>3. CASE ~Compensate(Life(r))
      <4>1. StartLifecycle(r) \/ ProvisionTenantSchema(r)
        BY <1>3, <3>1, <3>3 DEF LifeStep
      <4>2. QED
        BY <1>1, <2>4, <4>1, StartHolds, StepHolds
    <3>4. QED
      BY <3>2, <3>3
  <2>6. ASSUME NEW q \in Runs, q # r PROVE ~comp'[Life(q)].failed
    <3>1. ~Compensate(Life(q))
      <4>1. pc[Life(q)] \notin CompensationPCs
        BY <2>2, <2>6 DEF Life
      <4>2. QED
        BY <1>0, <4>1, CompensateMoves
    <3>2. comp'[Life(q)] = comp[Life(q)]
      BY <1>0, <3>1, CompMoves DEF Life, Watch
    <3>3. QED
      BY <1>1, <3>2
  <2>7. QED
    BY <2>2, <2>3, <2>5, <2>6
<1>4. ASSUME NEW r \in Runs, QueueStep(r)
      PROVE  /\ UNCHANGED <<tenant, schema, admin, setupToken, comp>>
             /\ \A q \in Runs : pc'[Watch(q)] # "racing"
             /\ tenant # "PROVISIONING"
             /\ tenant = "ACTIVE" => job'.state # "queued"
             /\ tenant # "ACTIVE" => NothingLeft
  <2>1. /\ pc[Watch(r)] = "racing" /\ pc[Life(r)] \in {"resolved", "rejected"}
        /\ pc' = [pc EXCEPT ![Watch(r)] = "settled"]
        /\ UNCHANGED <<tenant, schema, admin, setupToken, comp>>
    BY <1>1, <1>4
    DEF QueueStep, CompleteJob, RejectJob, Goto, SignalInv, resourceVars
  <2>2. \A q \in Runs : pc'[Watch(q)] # "racing"
    <3>1. \A q \in Runs : q # r => pc[Watch(q)] # "racing"
      BY <2>1 DEF TypeInv, QueueInv, OneWatch
    <3>2. QED
      BY <1>0, <2>1, <3>1 DEF TypeOK, Watch
  <2>3. Holds(r)
    BY <1>1, <2>1
  <2>4. tenant # "PROVISIONING" /\ (tenant # "ACTIVE" => NothingLeft)
    BY <2>1, <2>3 DEF Holds, Holding, Cleaning
  <2>5. tenant = "ACTIVE" => CompleteJob(r)
    <3>1. tenant = "ACTIVE" => pc[Life(r)] = "resolved"
      BY <2>1, <2>3 DEF Holds, PastActivation
    <3>2. QED
      BY <1>4, <2>1, <3>1 DEF QueueStep, RejectJob, Goto
  <2>6. CompleteJob(r) => job'.state # "queued"
    BY <1>0 DEF CompleteJob, TypeOK, Jobs
  <2>7. QED
    BY <2>1, <2>2, <2>4, <2>5, <2>6
<1>5. CASE StartRun
  <2>1. PICK r \in Runs : r = job.run + 1 /\ pc[Watch(r)] = "idle"
    <3>1. job.run + 1 \in Runs
      BY <1>0, <1>5, ConstantsAssumption
      DEF StartRun, TypeInv, QueueInv, JobAccounts, TypeOK, Jobs, Runs
    <3>2. pc[Watch(job.run + 1)] = "idle"
      BY <1>0, <3>1 DEF TypeInv, QueueInv, OneWatch, TypeOK, Jobs
    <3>3. QED
      BY <3>1, <3>2
  <2>2. /\ pc' = [pc EXCEPT ![Life(r)] = "find", ![Watch(r)] = "racing"]
        /\ UNCHANGED <<tenant, schema, admin, setupToken, comp>>
    BY <1>5, <2>1 DEF StartRun, resourceVars
  <2>3. job.state = "queued" /\ \A q \in Runs : pc[Watch(q)] # "racing"
    BY <1>5 DEF StartRun, TypeInv, QueueInv, OneWatch
  <2>4. tenant # "PROVISIONING" /\ tenant # "ACTIVE" /\ NothingLeft
    BY <1>0, <2>3 DEF LeftInv
  <2>5. pc'[Life(r)] = "find" /\ pc'[Watch(r)] = "racing"
    BY <1>0, <2>2 DEF TypeOK
  <2>6. Holds(r)'
    BY <2>2, <2>4, <2>5 DEF Holds, NothingLeft, PastActivation, Holding, Cleaning
  <2>7. ASSUME NEW q \in Runs, q # r PROVE pc'[Watch(q)] # "racing"
    BY <1>0, <2>2, <2>3, <2>7 DEF TypeOK, Life, Watch
  <2>8. QED
    BY <1>1, <2>2, <2>5, <2>6, <2>7
<1>6. CASE UNCHANGED vars
  <2>1. \A r \in Runs : Holds(r)' = Holds(r)
    BY <1>6 DEF vars, Holds, NothingLeft, PastActivation
  <2>2. QED
    BY <1>0, <1>1, <1>6, <2>1 DEF LeftInv, vars, NothingLeft
<1>7. CASE \E r \in Runs : LifeStep(r)
  BY <1>3, <1>7
<1>8. CASE \E r \in Runs : QueueStep(r)
  <2>1. PICK r \in Runs : QueueStep(r)
    BY <1>8
  <2>2. NothingLeft' = NothingLeft
    BY <1>4, <2>1 DEF NothingLeft
  <2>3. QED
    BY <1>1, <1>4, <2>1, <2>2
<1>9. QED
  BY <1>2, <1>5, <1>6, <1>7, <1>8 DEF Next, Rest

\* The four invariants hold where the attempt begins.
LEMMA OutcomeInit == Init => SeqInv /\ AuditInv /\ LeftInv /\ OutcomeInv
<1> SUFFICES ASSUME Init PROVE SeqInv /\ AuditInv /\ LeftInv /\ OutcomeInv
  OBVIOUS
<1>1. \A p \in Procs : pc[p] = "idle" /\ ~comp[p].failed
  BY DEF Init, FreshCompensation
<1>2. SeqInv /\ AuditInv
  BY <1>1, ProcsLemma
  DEF Init, SeqInv, AuditInv, Working, CompensationPCs, Terminal
<1>3. LeftInv
  BY <1>1, ProcsLemma DEF Init, LeftInv, NothingLeft
<1>4. OutcomeInv
  BY <1>1, ProcsLemma
  DEF Init, OutcomeInv, WorkInv, ActiveInv, Unhindered, Working, PastActivation
<1>5. QED
  BY <1>2, <1>3, <1>4

\* What they say of an attempt that has come to rest.
LEMMA OutcomesAtRest ==
  ASSUME TypeInv, SignalInv, SeqInv, AuditInv, LeftInv, OutcomeInv
  PROVE  OutcomesAreTrue
<1>1. ASSUME AtRest, NEW r \in Runs
      PROVE  pc[Watch(r)] \in {"idle", "settled", "dead"}
  BY <1>1 DEF AtRest, TypeInv, QueueInv, OneWatch
<1>2. SucceededMeansRecorded /\ SucceededAtRestIsActive
  BY DEF OutcomeInv, SucceededMeansRecorded, SucceededAtRestIsActive
<1>3. ActiveTenantIsProvisioned /\ ActiveTenantIsReported
  <2> SUFFICES ASSUME StepsFailOrTimeOut, AtRest, tenant = "ACTIVE"
               PROVE  Provisioned /\ attemptStatus = "succeeded"
    BY DEF ActiveTenantIsProvisioned, ActiveTenantIsReported
  <2>1. PICK r \in Runs : Activated(r)
    BY DEF OutcomeInv, ActiveInv
  <2>2. pc[Watch(r)] = "settled"
    BY <1>1, <2>1 DEF Activated, CompensationPCs
  <2>3. QED
    BY <2>1, <2>2 DEF Activated
<1>4. LeftoversAreReported /\ NoTenantLeftProvisioning
  <2>1. AtRest => \A r \in Runs : pc[Watch(r)] # "racing"
    BY <1>1
  <2>2. QED
    BY <2>1 DEF LeftInv, LeftoversAreReported, NoTenantLeftProvisioning
<1>5. AuditAgrees
  BY DEF AuditInv, AuditAgrees
<1>6. QED
  BY <1>2, <1>3, <1>4, <1>5 DEF OutcomesAreTrue

(* What an attempt and its tenant say is what there is, for any number of    *)
(* retries: a success has an ACTIVE tenant with its whole schema and First   *)
(* Admin once everything has come to rest, and its activation recorded, also *)
(* where runs time out; and where none does, nothing is left behind and the  *)
(* audit row agrees with the attempt.                                        *)
THEOREM OutcomesHold == Spec => []OutcomesAreTrue
<1> DEFINE Inv == /\ TypeInv /\ SignalInv /\ ClaimInv /\ TimedOutInv
                  /\ SeqInv /\ AuditInv /\ LeftInv /\ OutcomeInv
<1>1. Init => Inv
  BY TypeInit, SignalInit, ClaimInit, TimedOutInvInit, OutcomeInit
<1>2. Inv /\ [Next]_vars => Inv'
  <2> SUFFICES ASSUME Inv, [Next]_vars PROVE Inv'
    OBVIOUS
  <2>1. TypeInv' /\ SignalInv' /\ ClaimInv' /\ TimedOutInv'
    BY TypeStep, SignalStep, ClaimStep, TimedOutInvStep DEF TypeInv
  <2>2. SeqInv' /\ AuditInv' /\ LeftInv'
    BY SeqInvStep, AuditInvStep, LeftInvStep
  <2>3. OutcomeInv'
    BY OutcomeInvStep
  <2>4. QED
    BY <2>1, <2>2, <2>3
<1>3. Inv => OutcomesAreTrue
  BY OutcomesAtRest
<1>4. QED
  BY <1>1, <1>2, <1>3, PTL DEF Spec

=============================================================================
