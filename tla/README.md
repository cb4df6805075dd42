# Flexi in TLA+

Flexi is a multi-tenant application builder: a NestJS backend
(`src/apps/backend`) over Postgres (Prisma for the shared schema, Knex for one
schema per tenant), BullMQ queues for long work, and a React frontend
(`src/apps/frontend`).  This directory holds TLA+ modules of its stateful
parts, the TLC configurations that check them on small instances, and proofs
that TLAPS checks for every value of the constants.

    tlc -workers 2 -config MCProvisioningAll.cfg MCTenantProvisioning
    tlc -workers 2 -config MCTablesAll.cfg MCTables
    tlc -workers 2 -config MCAccountsAll.cfg MCAccounts
    tlapm TenantProvisioningProofs.tla
    tlapm FieldEditorProofs.tla

Paths below are relative to `src/apps/backend/src/modules` unless they say
otherwise.

## 1. Inventory

| component | state it keeps | operations | who it talks to |
|---|---|---|---|
| **Tenant provisioning** `tenants/provisioning.{service,worker}.ts`, `first-admin.service.ts` | `tenant_onboarding_attempts` (status, step outcomes), `tenants.status`, the tenant's Postgres schema, the First Admin's rows, setup tokens, the audit row | the job `process()`, `startLifecycle()`, seven steps, compensation, `recordProvisioningTimeout()` | BullMQ, Postgres, mail |
| **Setup links** `tenants/setup-link.service.ts`, `SetupAccountPage` | `setup_tokens`, what the page says of its link | `generate`, `revokeAll`, `redeem`, submit | provisioning, members |
| **Onboarding requests** `tenants/tenants.service.ts`, `TenantOnboardingPage`, `TenantProvisioningPage` | the attempt row and its idempotency key, the form's key and slug check, the status shown | `createOnboardingAttempt` with replay and conflict, status queries, submit, poll | provisioning queue |
| **Tenant directory** `listTenants()`, `TenantsPage` | filters typed and applied, the page number, the list shown, the latest request | filter, apply, reset, page | onboarding |
| **Field edits** `dynamic-tables/dynamic-tables.service.ts`, `ddl-worker.ts` | columns of a table, `_meta_fields`, `_meta_migrations`, the queue `ddl`, an advisory lock, the validation-schema cache | `enqueueFieldEdit`, `processFieldEdit`, `getOrBuildValidationSchema` | BullMQ, Postgres, row requests |
| **Field editor** `FieldEditor`, `DynamicTablesPage` | the table shown and the key it was read under, drafts, dialogs, a submission | open, draft, confirm, submit, poll, reload | field edits, DDL polling |
| **Table creation** same files, `DynamicTablesPage`, `TableBuilderForm` | `_meta_tables`, the physical table, the catalog shown | `enqueueCreateTable`, `processCreateTable`, metadata bootstrap, submit, page through the catalog | BullMQ, field edits |
| **Rows** same files, `rows.controller.ts`, `DynamicTableRowsPage`, `DynamicRowForm` | rows of a dynamic table, the list shown, two forms, the rows a relation offers | create, list with filters, sorting and pages, get, update, delete, edit | the cache of field edits, related tables |
| **Sessions** `auth/auth.service.ts`, `auth/sessions.service.ts`, `auth/guards/` | refresh tokens, password hash, access tokens with what they carry | login, refresh rotation, logout, change password, admit a request | every route |
| **Password reset** `auth/password-reset.service.ts`, `ForgotPasswordPage`, `ResetPasswordPage` | one-time codes with an attempt counter, countdown and verdict on the pages | request, reset, mail | sessions, mail |
| **Impersonation** `auth/impersonation.service.ts`, `ImpersonationBanner` | impersonation sessions and their audit events | start, end, check per request | sessions, tenant settings |
| **Tenant settings** `users/tenant-settings.service.ts`, `SelfRegistrationSettingsPage` | one row per tenant, the page's draft | read, patch, load, save | impersonation, self-registration |
| **Membership** `users/*.service.ts`, `AcceptInvitePage` | status, roles and `isActive` of users, invitations, the seat quota | invite, resend, revoke, redeem, register, approve, lock, unlock, activate, deactivate, delete, set roles, force a reset | sessions, mail |
| **Users pages** `UsersPage`, `UserInvitesPanel`, two dialogs | a filtered, paged list, a panel, a dialog, what is busy | act on a user or an invitation, invite, delete, reload | membership |
| **API client** `src/apps/frontend/src/lib/api-client.ts` | access token, stored refresh token, the refresh in flight | request with one retry, refresh, logout | sessions |
| **DDL polling** `src/apps/frontend/src/components/dynamic-tables/use-ddl-job-submission.ts` | the submission's state and abort controller | submit, poll, reset | field edits, table creation |

Pages without a directory are in `src/apps/frontend/src/pages`.  The tenant
seed, mail, the tenancy context, HTTP glue and the shared types have no
protocol of their own (one transaction, one call, or wiring), and the `wiki`,
`workflows`, `pages`, `cron-jobs`, `settings`, `logs` and `i18n` modules are
fourteen-line placeholders.  `PROJECT.json` lists each with the reason.

### What is hard, and what correctness means

* **Tenant provisioning.**  A job that times out is not stopped: its lifecycle
  goes on until it next looks at an abort signal, next to the compensation of
  the timeout and next to the retry.  Processes die between any two
  statements; recording an outcome is a statement too.  Correct means: an
  active tenant is whole and reported as such, success is only ever reported
  after activation, a failed tenant is never revived, what compensation leaves
  behind is reported, an attempt gets one tenant, the job ends.
* **Dynamic tables.**  A field edit is accepted on the request path and takes
  effect later, in several transactions, possibly behind other edits and
  possibly more than once.  Correct means: columns and metadata agree when
  edits have completed, no column loses its values in a change of type, limits
  hold, row requests validate against the fields there are.
* **Access.**  An access token is a snapshot that no request checks against the
  database again, except for the session of an impersonation and the status of
  the tenant.  Correct means: what a token allows was justified not longer ago
  than it lives, a support session serves only after its record was attempted and
  ends when it is ended,
  overlapping changes of settings keep each other.
* **Sessions, reset, membership.**  Tokens are inserted after
  the checks that justify them, and revocations are `updateMany`s over the
  tokens of that moment.  Correct means: nobody who was locked, deleted or
  reset keeps a session that outlives the decision (which holds only up to the
  requests in flight, see 3); one-time tokens and codes are used once; the
  attempt budget of a code holds.
* **Onboarding.**  A request may be answered twice, or not at all although it
  took effect, and is then sent again.  Correct means: one key stands for one
  payload, an accepted request has its job, a page that stays open learns what
  became of it.
* **Pages.**  What a page shows was read some time ago, in several requests;
  answers arrive in any order, after a form has gone or another took its place.
  Correct means: no answer settles on a form or a session that has gone on, a
  user's own changes are shown, what a form did not touch is kept.
* **Browser.**  One refresh at a time, one retry per request, tokens in two
  places.  Correct means: a logout stays a logout, a session does not end
  without a cause, the browser does not look like a thief of its own tokens.

The list of hazards in `PROJECT.json` names the line of each and the property
that covers it, or says why none does yet.

## 2. Modules

| module | what it is |
|---|---|
| `TenantProvisioning` | the onboarding job of one attempt: worker, timer, lifecycle, compensation, retries |
| `MCTenantProvisioning` | its sets of disturbances for TLC |
| `TenantProvisioningProofs` | theorems about it, with their lemmas |
| `FieldEdits` | field edits of one table: admission, queue, worker, metadata, schema cache |
| `MCFieldEdits` | its instances for TLC |
| `FieldEditor` | the page that edits the fields, on top of `FieldEdits` |
| `FieldEditorProofs` | theorems about the two, with their lemmas |
| `Accounts` | one tenant user's account: membership, sessions, reset codes |
| `ResetPages` | the pages for a forgotten password, on top of `Accounts` |
| `MCAccounts` | the workloads of its runs |
| `AccountsProofs` | theorems about it, with their lemmas |
| `Membership`, `MCMembership` | the members of a tenant: invitations, setup links, self-registration, deletions, seats |
| `LinkPages` | the pages behind the links of invitations and setup mails, on top of `Membership` |
| `MembershipProofs` | theorems about the two, with their lemmas |
| `Access`, `MCAccess` | tokens, guards, support sessions, settings and roles of one tenant |
| `AccessProofs` | theorems about it, with their lemmas |
| `UserPages`, `MCUserPages` | the administrators' pages of a tenant's users |
| `Onboarding` | what `POST /super-admin/tenants` promises: an abstract specification |
| `OnboardingRequests`, `MCOnboardingRequests` | the pages and the service that keep the promise |
| `OnboardingProofs` | that they do, and theorems about the page, with their lemmas |
| `TenantDirectory` | the list of tenants, on top of `OnboardingRequests` |
| `Browser`, `MCBrowser` | the tabs of one browser and its tokens |
| `BrowserProofs` | theorems about it, with their lemmas |
| `Tables`, `MCTables` | creation of tables: builder, catalog, admission, worker |
| `TablesProofs` | theorems about it, with their lemmas |
| `Rows`, `MCRows` | the rows of a table: page, forms, service, other clients |
| `RowQueries` | filtered, sorted and paged reads of the rows, on top of `Rows` |

Five modules compose a page with the component it talks to: `FieldEditor`
EXTENDS `FieldEdits`, `ResetPages` `Accounts`, `LinkPages` `Membership`,
`TenantDirectory` `OnboardingRequests` and `RowQueries` `Rows`.  Each keeps the
variables and actions of the other, lets it go on without the page
(`Elsewhere`, in `TenantDirectory` `Onboard`), and takes its requests through the actions that are there, so
that a page meets everything the component does on its own.  The others meet
where one takes the other's answer as given: the
worker of `OnboardingRequests` is `TenantProvisioning` with its steps drawn together, `Browser` has the session
endpoints of `Accounts`, `Membership` writes the statuses that `Accounts`
moves between, `Rows` has the rules whose cache is in `FieldEdits` and the
owners that `Membership` reassigns, `Access` has the refreshes of `Accounts`
as far as a token's contents go, `UserPages` makes the requests that `Accounts`
and `Membership` have in detail.  Each has a constant `Worlds` (in
`Accounts`, `Workloads`): an initial state chooses one, which says how the data
begins, which kinds of requests and faults occur, and how often; a run thus
checks several small instances at once.

### TenantProvisioning

A run `r` of the BullMQ job has two processes that share only the database and
the abort signal: `Life(r)`, the promise of `startLifecycle()`, and `Watch(r)`,
the worker's race of that promise with a timer.  `pc[p]` is the database call
a process has pending; an action is the return of that call and the code up to
the next one.  Every awaited call is an action of its own, so any two runs
interleave between any two calls, and a call that was sent before the abort
may still take effect after it.

| TLA+ | code |
|---|---|
| `StartRun`, `CompleteJob`, `RejectJob`, `Crash` | BullMQ starting, ending, retrying a run, and finding it stalled |
| `Timeout`, `RecordTimeout`, `FindTimedOutTenant` | `withTimeout()`, `recordProvisioningTimeout()` |
| `FindLinkedTenant` ... `RecordCreatedTenant` | `startLifecycle()`: resume or claim, and creation of the tenant |
| `CreateTenantSchema` ... `Activation` | the seven steps of `provisionTenantSchema()` |
| `RecordStep`, `RecordStepFailure` | `updateAttemptStep()` after a step |
| `ReadStepOutcomes` ... `MarkAttemptFailed` | `handleProvisioningFailure()`: the sub-steps of compensation, tenant status, audit |
| `WriteDropped` | the terminal guard of `updateAttemptSteps()` |
| `Fenced`, `Unless`, `Cancel` | `throwIfProvisioningCancelled()` |

What is abstracted, and why it changes no answer:

* A guarded write of the attempt is atomic with the look at the signal: the
  transaction locks the row, and the code looks again right before its
  `UPDATE` (1512); `RecordTimeout` waits for the same lock.
* `assign()`, `generate()` and the `updateMany` of `activation()` are one
  transaction or one statement each, and one action.
* The outcomes of `provisioning_start`, `tenant_creation`, `setup_email_sent`
  and `audit_finalized` are left out: nothing reads them.
* The attempt row is never deleted, so branches for a missing row are left out.
* The branch that resolves a unique violation on the tenant to the attempt's
  own tenant (256-273) is unreachable, because the claim is exclusive; the
  invariant `InsertFindsNoTenant` is what says so.
* A tenant whose creation fails gets no audit row (the code does not write
  one), so the run of `AuditAgrees` has no failing creation.

### FieldEdits

One table, one or two backend instances; an instance serves one field-edit
request and runs one job at a time (the worker's default concurrency).

| TLA+ | code |
|---|---|
| `ReceiveRequest`, `Buildable` | `enqueueFieldEdit()`, `buildFieldEditSteps()` |
| `AcquireGuardrailLock`, `CountFields`, `ListPendingJobs`, `RejectRequest`, `EnqueueDdlJob` | `enqueueFieldEditWithinLimit()`; the two reads of its `Promise.all` come in either order |
| `AcceptRequest` | commit of the admission, `invalidateValidationSchema()` |
| `TakeJob`, `ExecuteStep`, `RecordMigration`, `RecordFailedMigration`, `ApplyMetadataEffects`, `CompleteJob`, `RejectJob` | `processFieldEdit()` |
| `PromoteJob`, `Crash` | BullMQ: the end of a backoff, a stalled job put in front (external) |
| `ReadMetaFields`, `WriteValidationSchemaCache`, `EvictValidationSchema` | `getOrBuildValidationSchema()` and the LRU bound |

Abstractions: field `config` and `required`, and `failed` rows of
`_meta_migrations`, are left out.  The values of a column are one bit,
`whole`: whether it received those of the column it stands for.  Row writes
during a `modify` are therefore not in the model (a write between backfill and
cutover is lost; no line of the code speaks of it).  Which types Postgres
assigns to which is the constant `Assignable`.  The reads of metadata a request
makes while it builds its steps are taken at once.

### FieldEditor

| TLA+ | code |
|---|---|
| `OpenDetail`, `CloseDetail`, `ReadDetail`, `ShowDetail`, `LoseDetail`, `RetryDetail`, `Reload` | `DynamicTablesPage`: the table selected, `detailRequestKey`, the last outcome |
| `ChangeDraft`, `ChangeType`, `ChangeConfig`, `AddField`, `DiscardField`, `AskRemoval`, `ConfirmRemoval`, `CancelRemoval`, `LoadTargets`, `ChooseTarget` | the drafts and dialogs of `FieldEditor` |
| `Submit`, `ConfirmChanges`, `CancelChanges`, `DraftedEdits` | `submit()`, the dialog for a change of type, `buildRequest()` |
| `SendEdits`, `RefuseEdits`, `Serve`, `Die`, `LoseAnswer`, `PollJob`, `Completed` | `useDdlJobSubmission()` over the admission and the job of `FieldEdits` |

A table object that is new resets the drafts of an editor on the screen and the
state of its submission, not the submission.  A world bounds the user's
gestures; a form polls `MaxPolls` times (2; the code, 30).  A new field is typed
in one go; configuration and `required` are one bit of a draft; retyping a field
that is marked as removed, which changes nothing that is sent, is left out.

### Accounts

One account of one tenant and the requests that touch it at the same time.
What a request has read is in `req[r]` while it awaits something; an action is
one statement or one transaction, and `req[r].pc` names the one that is next.

| TLA+ | code |
|---|---|
| `Login`, `IssueTokens` | `login()`, `issueTokens()`: the check and the insert are apart |
| `ReadRefreshToken`, `KillSessions`, `RotateToken`, `ResolveActor`, `IssueTokens` | `refresh()` with reuse detection |
| `ReadLogoutToken`, `RevokeToken`; `ReadPasswordHash`, `CommitChange` | `logout()`; `changePassword()` |
| `RevokeSession`, `RevokeAllSessions` | `SessionsService` |
| `ReadMembership`, `WriteMembership` | `approveUser()`, `lockUser()`, `unlockUser()`, `softDelete()`: the read that decides, the unconditional write; `LegalIn` and `Target` say which status each needs and sets |
| `Deactivate`, `Activate`, `ForceResetPassword`, `BurnCodes` | `AccountLifecycleService` |
| `RequestReset`, `CheckCooldown`, `ConsumeEarlierCodes`, `CreateCode` | `requestReset()`; its transaction is two actions, since two of them lock nothing of each other when no code is live |
| `ResetPassword`, `FindCode`, `ExpireCode`, `CountMiss`, `RedeemCode` | `resetPassword()` |
| `ExpireSession`, `AgeCode` | time |

`session[s].login` (the login whose refreshes led to `s`), `code[c].redeemed`
and `late` are history variables: the code keeps none of them.

Abstractions: requests that change nothing are left out (a wrong password, an
unknown token, a refused permission).  Password hashes are left out, so any
submitted password or code may match or not.  So are the tenant's own status,
which login and refresh check where they check `isActive`; system users;
access tokens without a session id; the statuses `pending_invite` and
`pending_setup` and the operations that leave them, which are in `Membership`;
and the time between `CheckCooldown` and `CreateCode`,
during which the cooldown may end, since a request that began later covers it.

### ResetPages

| TLA+ | code |
|---|---|
| `AskForCode`, `AskInVain`, `ShowSent`, `ShowFailure`, `EndCountdown` | `ForgotPasswordPage`: submit, its answers, the countdown |
| `SubmitCode`, `SubmitInVain`, `ShowOutcome`, `LoseOutcome` | `ResetPasswordPage` |
| `OtpMatches`, `Verdict` | `resetPassword()`: the comparison, the answer of each branch |

`requestReset()` does not wait for its mail, so a code arrives in any order, at
any time or never.  What is typed besides the code is left out.  The countdown
is as long as the cooldown, which `Accounts` counts as the first age of a code.
`MaxTries` bounds the submissions of all pages together.

### Membership

A request is a sequence of statements; `req[r].pc` names the next one.  Reads
outside a transaction and those of a READ COMMITTED transaction see what has
been committed.  A write that finds a row locked waits, looks at the row again
when the lock goes, and matches nothing if its condition no longer holds.  A
circle of waits is broken by an abort, as Postgres does (`AbortDeadlocked`).

| TLA+ | code |
|---|---|
| `CreateInvites`, `ResendInvite`, `RevokeInvite`, `RedeemInvite`; `ConsumeInvite`, `InsertReplacement`, `TouchMember`, `CommitRevocation`, `CommitRedemption` | `UserInviteService`: the four calls; the conditional `updateMany` that consumes an invitation and the writes that follow it |
| `DirectCreate`, `Register`, `AssertEmailAvailable`, `InsertMembers` | `UsersAdminService.directCreate()`, `SelfRegistrationService`, `TenantUserDirectoryService` |
| `AssertSeatsAvailable`, `CountSeats` | `UserQuotaService`: counts outside locks |
| `SoftDelete`, `CommitSoftDelete`; `HardDelete`, `LockSource`, `LockTarget`, `TransferRows`, `UpdateRows`, `RemoveMember` | `UserDeletionService`: row locks in the order of the code, reassignment of rows |
| `GenerateSetupLink`, `CommitSetupLink`; `RedeemSetupToken`, `ConsumeSetupToken`, `CommitSetup` | `SetupLinkService` |
| `SignIn`, `CreateRow` | `login()`; `createRow()` with the access token it gave, which outlives the membership: no check of the member, no lock against a deletion, no foreign key |

`TransferRows` is the first count of a deletion, `UpdateRows` what has been found
when the last table was done: any rows inserted in between may be among them.
`history.late` has the rows that were inserted while their owner's deletion
looked for rows or after it; an access token is good for as long as the run
needs it, and its end, after minutes, is left out.

`usedSeats()` counts the occupied seats and the invited ones in two statements,
so `CountSeats` is taken once for each, in either order, and `req[r].todo` names
the counts that are still to come.  Left out: names, roles, mail, password
hashes, unlimited plans (a negative seat limit), and the administrator who
calls, who is none of the members.

### LinkPages

`Open`, `SubmitInvite`, `SubmitSetup`, `Receive` and `LoseAnswer` are
`AcceptInvitePage` and `SetupAccountPage`: a page sends the token of its link
through `RedeemInvite` or `RedeemSetupToken`, and `Shown` is what it makes of
the `Verdict` of the server.  An answer may be lost after the redemption was
made; one link may be open on two pages.  The checks of what is typed, and the
refusal of a weak password, leave form and link as they were and are left out.

### Access

| TLA+ | code |
|---|---|
| `Login`, `Refresh`, `ResolveActorByAuthAccountId`, `IsTenantActive`, `IssueTokens` | `AuthService`: what goes into a token is read in statements of its own |
| `StartImpersonation`, `FindTarget`, `FindActiveTenant`, `FindConsent`, `CreateSession`, `RecordStarted` | `ImpersonationService.start()`: three reads in any order (`Promise.all`), the session, the audit event, whose insert may fail silently |
| `EndImpersonation`, `RecordEnded`, `Exit` | `end()` with its conditional `updateMany` and its audit event, as above; `ImpersonationBanner` |
| `UseToken`, `AssertValidImpersonation`, `AssertActiveTenant`, `Handle` | a request through `JwtAuthGuard` and `PermissionsGuard` |
| `UpdateSettings`, `ReadSettings`, `FindSettingsRow`, `WriteSettings`, `RefuseWrite` | `updateSettings()`: Prisma's `upsert` is a look for the row, then an insert or an update |
| `OpenPage` ... `ShowFailure` | `SelfRegistrationSettingsPage` |
| `UpdateUser`, `ResolveRoleId`, `ReadRoles`, `SetRoles` | `updateUser()`: Prisma's nested `set` is a read of the roles, then their replacement |
| `ToggleAccount`, `FailTenant`, `Tick` | what others and the clock do |

There is one user, whose tokens and support sessions are modelled;
administrators, whose permission is checked in the same way, are not.  Clocks
agree, and a statement takes at most `MaxDelay` ticks.  `until` and `last` are
history: when a reason last held, and what the accepted PATCHes add up to.
Audit events other than those of a session are left out.

### UserPages

| TLA+ | code |
|---|---|
| `ReadList`, `LoseList`, `Query`, `Browse`, `Turn`, `Retry` | the list effect of `UsersPage`, `listUsers()` |
| `ClickAction`, `EndAction`, `LoseAnswer` | `runAction()`: approve, lock, unlock |
| `ReloadPanel`, `ReadInvites`, `ClickInvite`, `EndInviteAction` | `UserInvitesPanel`: resend, revoke |
| `OpenInvite`, `SubmitInvites`, `CloseInvite`, `EndInvite` | `InviteUsersDialog` |
| `OpenDelete`, `SetMode`, `ShowCandidates`, `ChooseTarget`, `SubmitDelete`, `CancelDelete`, `EndDelete` | `DeleteUserDialog` |
| `Lookup`, `Admit`, `WriteStatus`, `RemoveUser`, `InsertInvites`, `ReplaceInvite`, `RevokeInvite` | the routes: look-up and checks, then the write |
| `Register`, `Redeem`, `Expire` | people and time |

A dialog covers the rest of its page (`Covered`).  A revision counts the writes
of a user or an invitation; `done` and `sent` are history variables with the
revisions that a page's own actions produced.  Left out: names, roles,
`pending_setup` (offered what `pending_invite` is), mail, permissions.  Seats
are checked where they are and not shown; the panel's retry is one request.

### Onboarding and OnboardingRequests

`Onboarding` has, per key, the payload it is reserved for, the answers given
and the outcome of its provisioning, and per slug its tenant.
`OnboardingRequests` has the rows, jobs, requests and pages, and `ContractKept`
says that it implements `Onboarding` under the substitution at its `INSTANCE`.
The contract does not call every outcome final, as the code does not make it so:

* success and `failed-needs-manual-cleanup` stand unless a run of the job has
  overrun its time (`"overran" \in trouble[k]`), after which any run may write
  the attempt once more;
* `failed` may be taken back by a retry that finds a tenant of its attempt
  (`Retry`); a retry of one whose tenant is marked FAILED cannot activate it, so
  that a success may follow only if `markTenantFailed()` failed
  (`"unmarked"`), or a run has overrun;
* a tenant that is FAILED is never ACTIVE again, and a slug's tenant never
  changes hands.

| TLA+ | code |
|---|---|
| `Edit`, `SendCheck`, `CheckSlugAvailability`, `ShowCheck`, `KeyFor`, `Submit`, `Deliver`, `Disconnect` | `TenantOnboardingPage`: the form, its debounced check and its idempotency key |
| `Poll`, `PollAgain`, `FailPoll`, `RetryLoad`, `Leave` | `TenantProvisioningPage` |
| `FindAttempt`, `FindTenant`, `InsertAttempt`, `FindWinner`, `EnqueueAcceptedAttempt`, `AcceptRequest`, `FailEnqueue` | `createOnboardingAttempt()` |
| `ClaimAttempt`, `ResumeTenant`, `ResetAttemptStatus`, `CreateTenant`, `RecordCreation`, `FailCreation` | `startLifecycle()`: the claim, the retry that finds its tenant, the creation |
| `ActivateTenant`, `FinishRun`, `FailStep` | `provisionTenantSchema()`: its steps up to `activation()`, `finalizeAudit()`, its catch |
| `CompensateTenant`, `SettleFailure` | `handleProvisioningFailure()`: compensation and `markTenantFailed()`, then the status; each may fail silently |
| `OverrunJob`, `NoticeSignal`, `RecordTimeout` | `withTimeout()`, the signal, `recordProvisioningTimeout()` |
| `CompleteJob`, `RejectJob`, `FailRun` | the queue: the end of a run, a retry |
| `RawCall`, `Restart` | other clients of the route; the process dies, with its calls and its runs |

`job[k].late` has the runs that have overrun and go on: what they have sent may
take effect, a compensation, which does not look at the signal, goes on to its
end, and the queue may have begun the next run meanwhile.  Server and workers
are one process (`TenantsModule` provides both), so a `Restart` ends them
together and the job that was running has stalled.  Merged: the steps before
`activation()`; the look for the tenant with the claim or the read of the
status, since a tenant that is there stays; the steps of a compensation, whose
failures are left to chance (`TenantProvisioning` has each).
The status page stops at the first terminal status, as the code does.

### TenantDirectory

| TLA+ | code |
|---|---|
| `SetFilter`, `ApplyFilters`, `ResetFilters`, `TurnPage` | the form and the navigation of `TenantsPage` |
| `Query`, `Receive`, `Refuse`, `LoseList` | its effect: request, answer, `requestIdRef`, errors |
| `Matches`, `FindMany`, `DateRangeInvalid` | `listTenants()` |

React compares the applied filters by identity, so an edit is part of their
value.  Rows and count are read together; plan, name and actor are left out; a
date is a tenant's place in the order of creation.

### Browser

Per tab: the access token in memory, the single-flight refresh, up to two
requests under way, what React shows; shared by the tabs: the stored refresh
token; on the server: which sessions are live and whose.  A token
nothing refers to is free again, which keeps long behaviours finite; `Tokens`
bounds the pairs in use at once, and no pair is issued while none is free.
`past` records what has happened, so that properties can say why a session
ended: `lost` is an answer that was lost, or a tab reloaded while a request was
under way, `crossed` the answer of a login, logout or `/auth/me` that is to come
while the tab refreshes, repeats a request or asks who it is.
Assumed: an access token does not expire while the request that carries it is
under way.

### Tables

| TLA+ | code |
|---|---|
| `OpenBuilder`, `Submit`, `Cancel`, `Leave`, `Accepted`, `Poll`, `LoseAnswer`, `Completed` | `TableBuilderForm`, `useDdlJobSubmission()` |
| `ListRead`, `TurnPage` | the catalog effect of `DynamicTablesPage`, `listTables()` |
| `EnsureMetaTables`, `CreateMetaTables` | the bootstrap of the metadata tables |
| `AcquireTenantGuardrailLock`, `ReadLimit`, `AcceptTable`, `RejectTable` | `enqueueCreateTableWithinLimit()` |
| `CreateTable`, `RollBack`, `RecordMigration`, `RecordFailed`, `LoseRecord` | `processCreateTable()` |
| `RemoveField` | a field edit of another user between two attempts |

### Rows

| TLA+ | code |
|---|---|
| `PickKnownFields`, `PayloadErrs`, `ValueErrs`, `Dangling` | `pickKnownFields()`, `validateRowPayload()`, the foreign keys |
| `FindRow`, `Write`; `FindDeleted`, `DeleteRow` | `updateRow()`, `createRow()`; `deleteRow()`: lookup and write apart |
| `ListRead`, `TurnPage`, `Retry` | the rows effect, `listRows()`: two queries |
| `Opened`, `Change`, `Submit`, `Saved`, `SaveFailed` | `DynamicRowForm`: `initialValues()`, `buildPayload()`, `submit()` |
| `ApiWrite`, `DeleteTarget` | other clients of the routes; a row of the related table goes |

A value is what its kind tells apart: unset, empty, in range, too long, of a
wrong type, an id.  A page has one request of each form under way at a time.
A request whose answer is lost is settled before its form is used again.

### RowQueries

| TLA+ | code |
|---|---|
| `QueryErrs`, `MatchesFilters`, `ComesBefore`, `FindRows` | `resolveRowListQuery()`, `applyRowListFilters()`, `listRows()` |
| `Resolved`, `GetRow` | `buildRowQuery()`, `shapeRelationColumns()`; `getRow()` |
| `Ask`, `ReadStatement`, `LoseReading`, `GiveUp`, `Items`, `Truncated` | `toRowQuery()`; `loadRelationRows()` of `DynamicRowForm`: the first page, then the others at once, each in two statements |

The rules of the table are constant; json fields and what is wrong in the text
of a query are left out.  `quiet` is a history bit: no row has changed since
the reader asked.

## 3. Runs

Every unbounded count is bounded by a constant: runs of a job by `RetryCount`
and `MaxStalls`, disturbances by what a world has `left`, requests by its jobs
or their number, rows by `MaxSessions`, `MaxCodes`, `MaxRows`.  The defaults of
the code are three attempts and one stall, and five attempts of a code
(`MaxAttempts`).

| run | instance | what it shows |
|---|---|---|
| `provisioning_all` | 3 runs of the job; four worlds: steps and creation failing; crashes, failing compensation and audit; timeouts again and again; anything twice | compensation leaves nothing unreported, no tenant in PROVISIONING, audit row and attempt agree, an ACTIVE tenant is whole and reported, success only after activation, FAILED is final; job and attempt settle |
| `fieldedits_all` | one worker, 2 jobs of 3 attempts, 2 disturbances, or 3 failing statements; two instances with 3 additions, limit 1, one failing enqueue; an instance that serves rows as well; four worlds with an editor and two to four gestures | columns, metadata and migration rows agree, no half-filled column is cut over, the lock bounds how far the limit is exceeded; what is approved is what is on the screen, a completed edit is shown, a failure that is reported is one; every job, form and load comes to an end |
| `fieldedits_cache` | one instance, one edit, row requests | **violated**: a row request caches the schema of before the edit for good |
| `accounts_all` | two overlapping requests; sessions and membership (3 sessions), resets (3 codes, 3 attempts), or resets from two pages (2 submissions) | a login has one unrevoked session at its end; a lock or deactivation is outlived by at most the sessions in flight; a code sets one password, its counter is never set back, spent codes are gone; a page that says "reset" did reset, a code called invalid is, the countdown covers the cooldown |
| `membership_all` | five tenants, two overlapping requests of any kind on each; two more with two pages behind links | one live invitation per person, a membership claimed once, revocations stand, seats and addresses overshot by races only (each kind of seats by what all requests but one may ask for), a deletion hands over the rows it finds, and only rows inserted during or after it lose their owner; what a page says of its link is true and stays true; no circle of locks is left |
| `onboarding_all` | a page alone with failing requests, or failing, overrunning and stalling runs; the page with another client; two clients, with failures or runs that overrun; a job that fails in four ways; three worlds with a list of tenants | the service and its worker implement `Onboarding`; one attempt per submission; an open page learns an outcome, and what it shows is belied only as the contract says; a list is of the filters and the page it stands under |
| `browser_all` | eight worlds of one or two tabs | no session of a single tab ends without a cause or looks stolen, a logout holds, requests are made as the user shown, every await settles |
| `browser_typo` | one tab on the password page | **violated**: a mistyped current password signs the user out |
| `tables_all` | eight worlds of one or two pages, workers and names | tables, metadata, jobs and pages agree, a failure leaves nothing, the limit is at most doubled, every submission settles |
| `rows_all` | five worlds of two users: edits and other clients; deletions and lost answers; new rows; two rows on two pages; pages turned; three of a reader of two to four rows that tie | stored rows are valid, forms keep what was not touched, owners stay, lists show a user's own changes, saves settle; pages read in parallel make a whole |
| `access_all` | up to four calls: a support session while its grounds go; a consent withdrawn; roles changed under tokens; an account locked or a tenant failed; settings patched beside their page | nobody is let in longer than a token's life after the reason went, a support session serves after its record was attempted, ends once and serves nothing later, no setting is lost, the page settles |
| `user_pages_all` | nine worlds of one or two administrators with two or three events each | a list or panel that is shown has what its page has done; nothing stays busy or loading |

The largest are `accounts_all` (1.4 million distinct states, about a minute),
`membership_all` (0.9 million), `access_all` (0.8 million), `onboarding_all` (0.6
million, with its refinement and liveness), `provisioning_all` (0.3
million) and `fieldedits_all` (a quarter of a million, with liveness); the
others have thousands to 200 thousand.

A property of a run is often the conjunction of several, each defined with its
own comment: `OutcomesAreTrue`, `DecisionsStand` and `OneTenantOneActivation`
of the provisioning, `EditsTakeEffect` of field edits, `EditorHolds`,
`ResetPagesHold`, `CodesAreOneShot`, `RacesAreBounded`, `InvitationsHold`,
`RowsKeepTheirOwners`, `AccessIsJustified`, `TablesComeFromJobs`, `WritesAreSound`, `SessionIsTheUsers`,
and, with a temporal part, `PageFollowsItsRequest`, `PageFollowsItsJob`,
`PageFollowsItsUser` and `SettingsAreKept`.  The type invariant of a composed
module contains that of the module below it.

*Why the bounds are enough.*  In the world with timeouts of `provisioning_all`
a run times out at most once and a step throws at most once.  Two attempts with
one stall give three runs of the job, which is a stale lifecycle, a stale
compensation and a live run at the same time, the most that can meet on one
attempt; a further run adds another stale one.  In `fieldedits_all` a job is
overtaken by another one between any two of its attempts; two jobs already give
every order of the steps of two edits on one column, which is all a step
depends on, and three attempts of each let one overtake the other and be
overtaken again.  The safety
properties of that world also hold with three jobs of two attempts
(`MaxJobs = 3`, 6.5 million states), which takes too long with the liveness
property.

In `accounts_all` one run has both workloads: reset codes and sessions meet
only in statements that revoke sessions or look at `isActive`, and the proofs
below hold for every workload. The pages take part in a workload of their own.
Two requests are what a race needs: every guard in this code, and in that of
`Membership`, is the condition of one `UPDATE`, which one other request can
make false. Three sessions are two logins of which one refreshes, or a chain of
three. Three attempts are the fewest with which a request can set a counter
back, from 2 to 1, on a code that is still live. The run uses the symmetry of
requests, which is sound as it checks safety only.

In `onboarding_all` a job has two runs and may stall once, so that one that has
overrun, its compensation and the next run meet on one attempt; four failures
make a job fail, be retried and fail otherwise.  Two keys of API clients are
two attempts for one slug.

In `Browser` two requests in flight are one that leads a refresh and one that
joins it; seven events are two full rotations with what may cross them.  In
`Tables` two jobs on two workers are what a name or a limit can be raced with,
and four faults use up the attempts of a job and disturb the page as well.  In
`Rows` pages have one row, so that two rows already fill two pages, and two
users are the one who edits and the one who interferes (a form replaced by
another row's while its save is under way takes more steps than the world of two
rows has, and is not in the run); `MaxTouched` lets a
form change one field and leave the others.  A reader of `RowQueries` gets
three pages of one row, the fewest of which two are read at once, and a fourth
row makes it truncate.  In `Access` a token lives for two ticks and a statement
for at most one, so that a request outlives what it has read in several ways;
one support session is what two ends can race for, and a second one has nothing
in common with the first.  In `UserPages` two rows fill a page of three users,
two actions are what one busy id can confuse, and two administrators what a
stale list is.  In `FieldEditor` four gestures are: open, draft, submit and one
that interferes (close, reopen, another draft, a removal); its worlds have
`MaxPolls` = 2, so that a job outlasts the polling.  `ResetPages` has two pages
because a code is guessed from two.

*Which properties need which world.*  `LeftoversAreReported`,
`NoTenantLeftProvisioning` and `AttemptSettles` do not hold under crashes: a
process that dies after `CREATE SCHEMA` and before its outcome is recorded
leaves a schema, and one that dies after the claim leaves an attempt in
`provisioning` that no retry can claim.  `SucceededMeansRecorded` and
`SucceededAtRestIsActive` do not hold if compensation itself fails.
`ManualCleanupIsFinal` does not hold under timeouts: two overlapping
compensations of one run, its own and the timeout's, may end with
`failed-needs-manual-cleanup` (the one whose delete of the First Admin fails
because the other has done it) and then with `failed`, since a terminal status
may overwrite another (`provisioning.service.ts:1503`).
`CompletedEditsMatch`, `ColumnsStayWhole` and `MetadataDescribesColumns` hold
for one worker per table and fail for two, whose steps interleave; nothing in
the code keeps a second backend instance from running one.

*Fairness.*  `FairSpec` of `TenantProvisioning` has weak fairness of
`StartRun`, `LifeStep(r)`, `WatchStep(r)` and `QueueStep(r)`: BullMQ starts a
queued job, a pending database call returns (the drivers have timeouts), and
BullMQ takes note of a settled run.  `FairSpec` of `FieldEdits` has it of
`TakeJob`, `Work` and the promotion of delayed jobs.  Timers, crashes,
failures and clients are never fair.

`FairSpec` of `OnboardingRequests`, and the `Spec` of `Browser`, `Tables`,
`Rows`, `Access` and `UserPages`, have weak fairness of the steps of the
server, of workers and of a page that takes up an answer or a due timer: event
loops run what is due.  `DirectorySpec` adds that an answer to the list
arrives, `EditorSpec` that calls of the editor are answered or fail, admissions
go on and workers work, `QueriesSpec` nothing to that of `Rows`.  `Tables`
has strong fairness of taking the advisory lock, which is free again and again
while others hold it in turn.  What people do is never fair.  `Accounts` and
`Membership`, with the pages on them, have no fairness, as nothing there must happen: a request may be
abandoned at any statement.

*Deadlock* is checked in the runs of `TenantProvisioning`, `FieldEdits` and
`Membership`, where `Rest` is the stuttering of a system with nothing left to
do.  It is not checked in the others, where a system with nothing left to do
stops: in `Accounts` no sessions or codes are left, in the other worlds every event
has happened and every request been answered.  A deadlock of processes, such as
a circle of row locks or a refresh nobody ends, would violate a property.

### Disagreements between the code and what it says

1. `fieldedits_cache`: the cache entry is dropped when an edit is *enqueued*;
   `_meta_fields` changes when the job *ends*.  A row request in between
   rebuilds the old schema, against "the very next DML request against this
   table must validate against the rebuilt schema"
   (`dynamic-tables.service.ts:518`).
2. `browser_typo`: the change-password endpoint answers a wrong current
   password with a 401, which the API client takes for an expired token: it
   refreshes, sends the password again and ends the session.

Met while modelling, in the model, and without a run of their own:

*Provisioning*

* `recordProvisioningTimeout()` compensates any linked tenant, also one that
  `activation()`, "the product commit boundary" (`provisioning.service.ts:802`),
  has made ACTIVE (`provisioning.service.ts:1285`); `OutcomesAreTrue` allows
  for it.

*Field edits and tables*

* "Completed jobs need not be counted because their metadata row is committed
  before BullMQ marks them completed" (`dynamic-tables.service.ts:1735`) is
  true and not enough, since the count and the pending jobs are read apart: a
  job that commits after the one and completes before the other is in neither.
  Fields (1798) and tables (1748) exceed their limits, up to twice
  (`FieldLimitAtMostDoubled`, `TableLimitAtMostDoubled`).
* A `modify` asks for no admission, and not whether its field is there
  (`dynamic-tables.service.ts:656`); its metadata effect is an upsert (703).
  It makes known what has a column and no metadata: an addition whose metadata
  transaction failed in every attempt, or a field that another worker removes
  while the type is being changed.  Such fields come on top of the limit, and
  of twice the limit: with one attempt per job, TLC finds three where one is
  allowed when the metadata of two additions fail.  `FieldLimitAtMostDoubled`
  counts the others, all but `NotAdmitted`.
* `add-shadow-column` accepts any shadow column that is there, also one of
  another type that a failed `modify` left behind: the next `modify` cuts it
  over, and `_meta_fields` names a type the column does not have, though types
  stay "consistent with what was actually physically created"
  (`dynamic-tables.types.ts:113`).  Adding a field that exists keeps the column
  and overwrites its type in the same way.
* `backfill-column` is not existence-guarded, though every step "must be safe
  to re-execute (existence-guarded)" (`dynamic-tables.types.ts:31`): replayed
  after another job removed the field, it fails in every attempt.
* A `modify` is checked against RELATION when it is accepted and runs later:
  queued behind a remove and re-add as RELATION it converts the foreign-key
  column, which `dynamic-tables.service.ts:544` says is rejected.
* A create-table job whose record was lost is retried against the table it has
  made, and inserts metadata of fields that were removed meanwhile.  The job
  can also end `failed` although its table exists; submitting it again then
  fails on the slug.  Two first requests of a tenant bootstrap the metadata
  tables at once, and one of them fails.
* A creation that fails is never recorded, since the `failed` row of
  `_meta_migrations` would reference the row of `_meta_tables` that was rolled
  back (`ddl-worker.ts:226`); `ddl-worker.spec.ts:389` expects the record of a
  mocked database.
* An editor that has not heard of it can change the type of a field that was
  removed: the job fails and leaves a shadow column.
* "A stale outcome is ignored rather than cleared, because its key can no longer
  match" (`DynamicTablesPage.tsx:257`) is not so for a table that is closed and
  opened again: the old outcome is shown while the table is asked for anew, and
  drafts made on it go when the answer comes.  `resetSubmission()` makes a
  submission that is under way look idle without ending it, and a reload that
  fails takes the editor, and its polling, off the screen.

*Rows*

* The form sends every field, so that it undoes what others changed since the
  list was read.  A BOOLEAN that is unset becomes false and an empty text
  unset on any save (`UntouchedFieldsAreKept` allows for both); a DATETIME
  loses its seconds and a DATE may shift by a day with the server's time zone
  (`DynamicRowForm.tsx:87-101`, dates are not in the model).
* The answer of a save closes whichever row's editor is open by then
  (`DynamicTableRowsPage.tsx:588`).
* `updateRow()` answers 200 without a row when the row goes between its lookup
  and its `UPDATE`; `dynamic-tables.service.spec.ts:2149` says it answers 404
  for a row that does not exist.
* A row that a required relation points at cannot be deleted, and the attempt
  fails with an unshaped 500: its column is NOT NULL, though "not DB-enforced
  via NOT NULL" (`ddl-worker.ts:94-99`).
* A page whose last row goes shows no navigation when no row is left.
* The select of a relation "reads every row" (`DynamicRowForm.tsx:177`); when
  rows are deleted between its pages it misses some, or has some twice.
  `ReadingIsWhole` speaks of readings during which no row changes.
* The first of its requests leaves the page size out, so that "the server
  applies its own guardrail"; the server applies a default of 50, which it
  refuses itself if `DYNAMIC_TABLES_MAX_PAGE_SIZE` is smaller
  (`dynamic-tables.service.ts:1516-1532`).
* The form keeps one abort controller for that reading and for `submit()`
  (`DynamicRowForm.tsx:244`, 361): a form sent while its relations load has no
  options when the save fails, and nothing loads them again.
* The resolved relation takes the place of the foreign key in a row, as both
  have the slug for a name (`dynamic-tables.service.ts:1390-1394`), and is not
  "alongside the existing raw FK-id column" (1439).

*Membership*

* `activate()` sets `isActive` whatever the status is
  (`users/account-lifecycle.service.ts:119`), so a locked user, who "cannot
  authenticate" (`users/users-admin.service.ts:530`), can, and stays `locked`.
  The same call makes a deleted user active again.
* A redemption that read the member before `softDelete()` revives the member.
  Overlapping regenerations of a setup link leave two that work, against
  `tenants/setup-link.service.ts:37`.
* `createRow()` (`dynamic-tables.service.ts:1073-1094`) asks nothing about its
  member, `hardDelete()` takes no lock against inserts, and `owner_user_id` is a
  plain column that deliberately has no foreign key (`ddl-worker.ts:181-184`): a row inserted after
  the deletion has updated its table, or with the access token of a user who is
  gone, has an owner that does not exist.  `OwnersExist` excepts these rows, and
  no others.
* `updateUser()` sets roles while a redemption connects one: both may stay.  Two
  overlapping `updateUser()`s leave two roles as well, as each replaces the roles
  it has read (`users/users-admin.service.ts:315`).
* Two requests that race for the last seat overshoot "the quota by one"
  (`users/user-quota.service.ts:51-53`), by more if others come before or after
  them.  `usedSeats()` reads its two counts as two statements (77-94): a member
  who redeems an invitation between them is in neither, not yet occupied when
  those are counted and no longer invited when these are.  A tenant of two
  seats, both promised, can so come to have four taken, with never more than two
  requests under way, each for one seat.  `SeatOvershootIsBounded` bounds either
  kind for itself.
* `users/tenant-user-directory.service.ts:29-33` relies on a unique index of
  tenant and account that two memberships of one address do not violate.

* A redemption whose answer was lost has taken place; the same person's retry
  says that the link has expired.

*Access and settings*

* A support session need not be on record: `AuthAuditService.record()` is
  best-effort (`auth/auth-audit.service.ts:32-39`), a failed insert is logged and
  swallowed (67), and `start()` and `end()` go on all the same.
  `SupportIsAccountable` says what is left: the session's own row is there and
  the insert was tried before it serves, and an end is recorded at most once and
  only for a session that has ended.
* A consent that is withdrawn does not end a support session under way; the
  session lives for its fifteen minutes.
* Of two first PATCHes of a tenant's settings, one may fail on the unique index
  with an unshaped 500.
* `USER_ROLE_CHANGED` and the two events of the self-registration switch are
  recorded by comparison with a row that was read before
  (`users/users-admin.service.ts:346-353`, `users/tenant-settings.service.ts:208`):
  overlapping changes make events that did not happen or omit some that did.
* The settings page does not take up the answer's switches, and goes on showing
  what it sent.

*Users pages*

* One busy id stands for all rows (`UsersPage.tsx:196`): the end of an action
  frees another row that is still waiting.  An answer to a deletion closes
  whichever dialog is open by then (`UsersPage.tsx:450`), and a failure is silent
  if its dialog was cancelled.
* A failed action does not read the list again, so that the row that caused it
  stays as it was.  Revoking an invitation does not reload the list of users, and
  deleting an invited user not the panel.
* The panel hides "resend" for an expired invitation, "exactly the case resend
  exists for" (`UserInvitesPanel.tsx:27-35`).

*Onboarding*

* A job that fails before it claims its attempt leaves it `accepted`; a replay
  cannot revive it, because BullMQ keeps the id of the failed job.
* The page stops polling at `failed` (`TenantProvisioningPage.tsx:18-22`,
  43-45), which a retry may turn into `provisioning` again
  (`provisioning.service.ts:210`) and then into
  `failed-needs-manual-cleanup`, or, if `markTenantFailed()` has swallowed its
  failure (1035-1047) or a run has overrun its time, into `succeeded`.
  `ShownOutcomeStands` says what can be relied on.
* A process that dies after the claim, a claim whose failure cannot be recorded
  and a `finalizeAudit()` that fails (1121) leave an attempt in `provisioning`
  for good, and its page polling (`Abandoned`).
* An error of the tenants' list cannot be retried without editing a filter.

*Browser*

* A refresh in flight at the time of a logout stores its tokens after the
  session was cleared (`AuthContext.tsx:166`), and a logout that overtakes a
  refresh fires the kill switch.  A second tab shares the stored token and not
  the single flight: the kill switch again, and after a login of another user
  in it the first tab acts as that one.
* A refresh that fails for want of a network, or is throttled, signs the user
  out; so does a failed `/auth/me` at the start.  A login during the refresh of
  the start is overwritten by it.

*Accounts*

* A login or refresh that has found the account active inserts its session
  after a lock or a deactivation has revoked the others.  The transaction of
  `lockUser()` is there "so a refresh landing in between cannot hand back a
  session the lock was meant to end" (`users-admin.service.ts:531`); it does
  not reach such a request.  The session cannot be refreshed while the account
  is inactive, but can after `unlockUser()`.  `LateSessionsAreBounded` says how
  many there are.
* "At most one live code per account" (`auth/password-reset.service.ts:109`)
  is not kept by two overlapping `requestReset()`s: each consumes the earlier
  codes and creates its own.  `LiveCodesAreBounded` says what is kept.
* A guess at an older mail's code counts as a miss of the newer code; and when
  two requests have left two live codes, a code that was refused because of the
  newer one works once the newer one is spent or gone.
* `mail/email-delivery.service.ts:90` speaks of a SHA-256 hash of the code;
  `auth/password-reset.service.ts:420-422` makes a bcrypt hash.
* `changePassword()` "reads `mustChangePassword` from the database"
  (`auth/auth.service.ts:238`), the comment says; it does not, and clears it.
  A `forceResetPassword()` between its read of the hash and its transaction is
  overwritten, temporary password and flag both.
* `lockUser()`, `unlockUser()` and `approveUser()` write a status that they
  decided upon before: a `softDelete()` in between is undone, though "a deleted
  user can no longer be changed" (`users-admin.service.ts:717`).

## 4. Proofs

`TenantProvisioningProofs` proves, for every `RetryCount`, `MaxStalls` and set
`Worlds` that satisfy `ConstantsAssumption`:

* `TypeCorrect`: `Spec => [](TypeOK /\ QueueInv)`.  `TypeOK` alone is not
  inductive: that `job.run` stays within `Runs` needs the accounts of the job
  (`JobAccounts`: a run is a failure or a stall or the current one) and that
  only the current run's watch can still settle the job (`OneWatch`).
* `FailedIsFinal`: `Spec => FailedTenantStaysFailed`.  Only three actions
  write the tenant row (`TenantMoves`), and none of them leaves FAILED.
* `SuccessIsActivated`: `Spec => []SucceededMeansActivated`.  The strengthening
  `SuccessInv` says that a lifecycle that stands past `activation` has a
  decided tenant (ACTIVE or FAILED).  Only the `UPDATE` of `activation()`
  brings a lifecycle there, and a decided tenant stays decided.
* `OneTenantPerAttempt`: `Spec => []InsertFindsNoTenant`.  `ClaimInv` says
  that at most one lifecycle is between claim and insert, that there is no
  tenant then, that the attempt is not claimable again, and that no other
  process is yet at a call which could write the tenant row.
* `DecisionsHold`: `Spec => DecisionsStand`, all three decisions that the run
  checks.  A FAILED tenant is `FailedIsFinal`.  An attempt that waits for its
  operator (`CleanupInv`): where no run times out only the current lifecycle
  is alive (`SignalInv`), and it is the one that wrote the status, or has yet
  to read it.  A run that timed out (`TimedOutInv`) is the hard one, since an
  `UPDATE` sent before the signal may come at any time, during any later run.
  As long as the tenant is not FAILED no compensation has run to its end, so
  each one that is past the tenant failed, or found no tenant for a lifecycle
  that will not go on (`CompensationInv`).  Where only steps fail and runs time
  out, a compensation fails in one way: the lifecycle and the watch of one run
  both read the First Admin and one of them deletes it (`SpoiltByTwo`).  From
  then on nobody is at a step, and no later run comes to one, because it finds
  an attempt that needs manual cleanup (`SpoiltInv`, `RejectionInv`).  If no
  compensation failed, a run that finds a lifecycle at its activation finds
  either the watch still at work and the attempt terminal, or the tenant
  FAILED (`FenceHolds`).  TLC checked these invariants before they were
  proved, for three attempts of the job and three disturbances in the worlds
  they are about.
* `OutcomesHold`: `Spec => []OutcomesAreTrue`, all seven parts.  Where steps
  fail and runs time out, an attempt stays "provisioning" while a lifecycle
  that was not signalled works, and what its steps have made stays (`WorkInv`);
  the run that activated is the last one at the tenant, only its own watch
  compensates it, and until that drops the schema the tenant is whole
  (`ActiveInv`).  Both need `TimedOutInv` of `DecisionsHold`: no earlier run is
  left that could take anything away.  Where no run times out there is one
  lifecycle at a time (`WorksAlone`), which has the attempt for itself
  (`SeqInv`) and writes the audit row before it (`AuditInv`).  If also nothing
  but a step fails, `Holds` follows what the tenant has step by step, through
  the compensation, to nothing left or an ACTIVE tenant (`LeftInv`).  The
  invariants were checked by TLC first, in the same worlds.

`AccountsProofs` proves, for any finite set of requests, any workload and any
numbers of sessions, codes and attempts (`ConstantsAssumption`):

* `TypeCorrect`, `CodeIsRedeemedOnce` and `SpentCodeIsGone` from one invariant,
  `TypeInv`.  It adds to `TypeOK` that a request about to write a row it has
  read names one that exists (`NamesARow`), and that only a consumed code has
  set a password and a live one has attempts left (`CodeAccounts`).  `TypeOK`
  needs the latter: the counter stays in its range because it was below the
  budget when the code was live.
* `AttemptsOnlyGrow`: `Spec => AttemptsNeverGoBack`, from the same invariant
  and the guard of `CountMiss`.
* `CodesOpenOnce`: `Spec => []CodesAreOneShot`, the two invariants about codes
  together, as the run checks them.
* `OneSessionPerLogin`: `Spec => []OneLiveSessionPerLogin`.  The property is
  not inductive: a refresh has revoked the old session before it inserts the
  new one.  `ChainInv` says that a chain ends in one unrevoked session or in
  one request that carries it on, never in both.  Only the conditional revoke
  of `refresh()` turns the one into the other.
* `RacesStayBounded`: `Spec => []RacesAreBounded`, both bounds.  A session that
  lives on although the account is inactive was inserted by a request that had
  found it active, and each such request inserts one.  For codes, `LiveInv`
  counts the live ones together with the requests that have consumed the
  earlier codes and are about to create theirs: consuming leaves no live code,
  so that sum never exceeds the requests.
* `PagesImplementAccounts`: `ResetSpec => Spec`.  What the pages send is what
  any client could send, so all of the above holds of the specification that
  `accounts_all` checks.
* `PagesTellTheTruth`: `ResetSpec => []ResetPagesHold`, all three parts.
  `CountdownInv` says of the countdown that a code young enough to be refused
  for the cooldown is one whose page still counts down or waits
  (`YoungCodesAreAwaited`), and that the request of a page is under way while it
  waits (`AskingIsSeen`); so no page offers to send again what the server would
  quietly not send.  `PagesInv` follows one page of the other kind through
  submission, verdict and loss: its request is no other page's, and what it will
  be told is what the server has done with the code (`PageIsTold`); that a code
  is redeemed once then leaves one page that says so.

`TenantIsMadeOnce` states `OneTenantOneActivation`, the conjunction that
`provisioning_all` checks, from `SuccessIsActivated` and `OneTenantPerAttempt`.

`OnboardingProofs` proves, for any finite sets of keys, payloads, calls, pages
and faults (`ConstantsAssumption`), that the service and its pages implement
`Onboarding`, and what follows for the page:

* `KeepsContract`: `DirectorySpec => ContractKept`, and
  `OnboardingKeepsContract`: the same of `Spec`.  The invariant `KeptInv` says
  what a call may take for granted where it stands (`Knows`: it goes on to the
  queue only with an attempt that has its payload, and answers only after it),
  that a job is there before its attempt is claimed (`JobIs`), and that a tenant
  belongs to a claimed attempt (`TenantOwned`).  Of runs, any number of which
  may be late, `RunsAgree` says what holds where each of them stands whatever
  the others do: those past the creation have their tenant, and one that is
  about to write a failure has marked it or is in trouble.  As long as none has
  overrun, `InTime` says that the one run has the attempt as it left it.  Then
  every step of a call is `Reserve`, `Schedule`, `Tell`, `Hear` or a stutter of
  the abstract specification, every step of a run `Give`, `Activate`,
  `Withdraw`, `Settle`, `Retry`, `Suffer` or a stutter, and those of the pages
  stutter.
* `PagesAreNotMisled`: the safety part of `PageFollowsItsRequest`.
  `PagesInv` adds that a key which stands in a form was drawn by that form
  only (`KeysStand`, `DrawnOnce`), so that what it reserved has the page's own
  payload (`PageKeyed`) and no other page can make it conflict.
  What a shown outcome is worth (`ShownOutcomeStands`) follows from the steps of
  the contract alone: `Stays` is kept by each (`StaysKept`), and a failure that
  is no trouble's leaves its tenant FAILED (`FailuresKept`).
* `OnboardingTypeCorrect`: the part of `DirectoryTypeOK` about rows, calls and
  pages.
* `DirectoryTypeCorrect` and `ListsAreOfTheirFilters`, the two invariants of the
  list of tenants, for any filters and page size (`DirectoryAssumption`).
  `BornInv` says that the order of creation has every tenant once: a step of the
  other parts creates at most one (`TenantsStay`).  So of two tenants the older
  one has more newer ones (`NewerDiffer`), and those on a page differ in a
  number out of `PageSize` (`FoundFits`).  `DirInv` says that a call holds what
  fits what it asked for, that the latest call asks for what is applied, and
  that the list is the latest call's or that call is still on its way.

`MembershipProofs` proves, for any finite sets of members, invitations, tokens,
rows and requests and any worlds (`ConstantsAssumption`):

* `MembershipTypeCorrect`, `InvitationsAreHonoured` and `OwnersAreThere` from
  one invariant, `MembershipInv`.  Its core is `Holds`: what a request has seen
  of a row it has locked still holds, because no other request writes a locked
  row (`LocksApart`); this is what the conditional `updateMany`s of the code
  rely on.  `Knows` says what a request may take for granted without a lock,
  which is less: that its invitation was there, not that it still is.
  `PendingIsAlone` (an address has one live invitation) and `DoorIsClosed`
  (a member who was withdrawn has none) are kept because a replacement is
  inserted under the lock of the invitation it replaces.  Claims need one more
  thing, `SetupIsOnce`: unless two `generate()` overlap, one token works, one
  request generates, and a member who was claimed stays claimed.  The code
  does not exclude the overlap, so the theorem does not either.  A
  hard deletion that transfers rows gives them an owner because its target,
  which it has locked, stays active until it commits (`Holds`), and the rows it
  has not found are late ones.
* `NoRowIsOrphaned`: `Spec => RowsChangeHands`, an action property: a row
  changes hands only when its owner is removed, and then goes to a member who
  is active.  `RowsStayOwned` is both, as `membership_all` checks them.
* `SeatsAndAddressesStayBounded`: `Spec => []RacesAreBounded`, from `RaceInv`,
  which TLC checked in larger worlds before it was proved.  A request that has
  counted and found room may add its share later, without being counted by the
  others; the requests that stand there are `Counted`, one set for each of the
  two counts.  `Within` says that all of them but the last to count may add as
  many as a request may ask for, and the last one what it asked for, which fits.
  A seat is held, for this purpose, from the moment a request is bound to take
  it: `Awaited` has the invitations about to be replaced, `SeatHolders` the
  members whom a redemption has found.  Addresses are simpler: those who hold
  one and the requests about to insert it are no more than the requests
  (`AddressesStand`).  The proof needs of a world what the code has made true of
  a tenant before any race: it is within its seats, and its members have
  addresses of their own.  It also corrected the bound: as first stated, one
  limit on the sum of both kinds, it is false, because the counts are two
  statements (see *Membership* above), and TLC shows it in a world of two seats.
* `PagesAreClients`: `LinkSpec => Spec`, which carries all of these over to
  the specification with the pages, the one that `membership_all` checks.

`MembershipProofs` also proves the two properties of the pages behind the links,
`LinksTypeCorrect` and `LinkAnswersAreTrue`, from one invariant, `LinkInv`
(checked by TLC before it was proved, in three worlds with pages and 4 calls
each).  A page shows what was so when the server answered; hence the first half
of the proof is about the server alone: no step takes back what a page may have
been told (`NextGoesOn`, one lemma per action: an invitation or token that does
not work stays so, one that is spent stays spent and was spent for a claim).
The second half follows one page through opening, sending, the answer and its
loss: the one request under way redeems the page's own link and is no other
page's (`PageStands`, `PagesApart`).  Two pages that both say "ready" for one
person would be two claims of that person (`OneIsDone`, `SpentIsClaimed`), and
`InvitationsAreHonoured` leaves only two overlapping `generate()` for that.

`AccessProofs` proves, for every lifetime of a token, longest delay of a
statement, number of requests and of support sessions, and any roles and
permissions (`ConstantsAssumption`):

* `AccessInvariant`, `AccessTypeCorrect` and `AccessIsEarned`.  Tokens are
  snapshots, so what is to be shown is an account of time, which is what
  `AccessInv` is: for each place where a request may stand (`Justified`), each
  token (`TokenStands`) and each support session (`Stands`) it says since when
  each ground it relies on was last so (`HeldSince`: it holds, or it held at
  that time or later).  A statement hands on what it relied on with an older
  time, by at most `MaxDelay` (`Timely`, which the guard of `Tick` keeps); a
  token hands on what was so at most `TTL + 2 * MaxDelay` before, and the
  bounds of `StaleAccessIsBounded` are the sums.  `NotedRemains` is why nothing
  is lost on the way: a step that ends a ground notes the time.  For support,
  `EndsAreRecorded` says that a call which comes to record an end made it alone;
  only the conditional `updateMany` of `end()` makes one.  Nothing is claimed of
  the inserts themselves, which may fail.
* `NoSettingIsEverLost`: the safety half of `SettingsAreKept`.  Effective
  settings and the last accepted writes are overwritten by the same body
  (`StoreOverwrites`), and a row is never lost to a second insert.  That the
  page settles stays with TLC.
* `SessionsAreFinal`: `Spec => [][SessionsGoOn]_vars`, an action property: no
  step prolongs, reopens or ends again a support session.

`AccessInv` was checked by TLC before it was proved, in the five worlds of
`access_all` and with more sessions and a longer life of tokens.

`BrowserProofs` proves, for any sets of tabs, page requests, accounts and pairs
of tokens and any worlds (`ConstantsAssumption`):

* `TabsKeepTheirShape`: `Spec => []TypeOK`, with the shape of every tab's
  requests and of its refresh.
* `SessionsStayTheUsers`: `Spec => []SessionIsTheUsers`, all three parts.  What
  the code of a tab does between two awaits is a function of what it sees
  (`Here(b)`: the storage, its own fields, its requests, its refresh), and such
  functions are composed: an answer ends a refresh, which resumes its callers,
  each of which repeats its request or ends the session.  So there is one lemma
  per function, that says what it does to each field, the invariants are
  predicates of what one tab sees, and each kind of step is shown to keep them.
  `BrowserInv` has four parts besides the shape: who waits has a refresh that
  will resume it (`TabsInv`); after a logout nothing is left whose answer could
  store tokens again (`LogoutInv`); as long as there is one tab and its answers
  came in order, the tab, the storage and what is under way name the same pair
  and the same user (`OneTabInv`); and as long as nothing has happened but a
  mistyped password, the stored pair works and nothing was presented twice
  (`CalmInv`).

The attempt to prove `SessionsStayTheUsers` found it false: a request repeated
after a refresh, and a tab that is reloaded while a logout is under way, meet a
login or logout in ways that the causes did not count, and no world had that many events
of those kinds.  TLC confirmed it; the causes were widened and one such world is
now the eighth of `browser_all`.

`TablesProofs` proves, for any sets of instances, pages, names and fields, any
number of submissions, attempts and stalls, any page size and any worlds
(`ConstantsAssumption`):

* `TablesTypeCorrect`: `Spec => []TypeOK`.  That a table whose field is removed
  is there at all is no matter of types: the shape is inductive only together
  with what ties names, tables and metadata (`SchemaInv`): a name has at most
  one row, a row has its table and its job ran, and what a worker may take for
  granted of the table of its job at each of its steps (`Knows`): on the first
  run there is none, and one it found is still there.
* `TablesComeFromTheirJobs`: `Spec => []TablesComeFromJobs`, all four parts.
  `RecordStands` says that a recorded success is followed by completion or by
  the death of the process, so that a job which fails with a success on record
  has stalled.  For the limit (`LimitInv`), `Bound` counts the tables and the
  pending jobs that have none yet.  Only a request that holds the advisory lock
  raises it, and while it holds the lock the bound can only fall.  When the
  count was read the bound was at most that count and the pending jobs, of
  which there were no more than the limit; and when the pending jobs were read
  there were as many as it read.  So whoever is let in, with count and pending
  jobs below the limit, leaves the bound at most twice the limit and the
  pending jobs within it, though it read the two at different times and a job
  may have gone from one to the other unseen.
* `PagesShowWhatBecomes`: `Spec => []PageShowsWhatBecomes`, the safety half of
  `PageFollowsItsJob`.  What settles stays settled (`SettledStays`): a failed
  job is never tried again, and an answered request that has no job gets none.
  A page of the catalog read after the job completed has its table or is full
  (`PageOfTables`, of the first page of the rows, newest first).

These invariants were checked by TLC before they were proved, with three jobs
on two workers and two pages.

`FieldEditorProofs` proves, for any sets of instances, fields, types and
columns, any number of jobs, attempts, stalls and polls, and any worlds
(`ConstantsAssumption`, `EditorAssumption`), of the specification with the page,
the one that `fieldedits_all` checks:

* `EditorTypeCorrect`, `EditorTellsTheTruth` (`EditorSpec => []EditorHolds`) and
  `CompletedEditsAreRecorded`, from one invariant, `FieldEditorInv`.  A job that
  waits is in the queue once, no two workers run the same one (`QueueOK`,
  `WorkersOK`), and what a worker has behind it in its job is recorded
  (`ProgressOf`), hence all of it when it completes.  `MetaOK` says that a field
  which only one applied job touches is described as that job left it
  (`Becomes`), whatever else is retried: this is what a page that has reloaded
  after its job may take for granted (`Knows`), and so what `CompletedIsShown`
  needs.  A form that awaits its confirmation has no dialog or submission
  through which its drafts could change (`SubmissionOK`).
* `OneWorkerLosesNothing` and `OneWorkerMatches`: where at most one instance
  runs (`OneWorker`), columns and metadata agree as `EditsTakeEffect` says.
  `KeptColumns` and `MatchingTypes` say of the attempt under way what it has
  done so far: which columns and shadow columns stand, which are filled, which
  types they have, where a later edit of the job will not change them.  Behind
  it they say what other jobs may have left: a shadow column or another type
  only of a field that a job which is not completed touches.  The hypotheses
  are what the code leaves open.  With two workers, two jobs interleave on one
  column; a field may be called `f__shadow` like the shadow column of `f`
  (`ShadowsApart`); and an addition of a column that exists keeps the column and
  overwrites the type (`AddsAreNew`; see the disagreements above).
* `AdditionsStayBounded`: `EditorSpec => [](StartsWithin =>
  FieldLimitAtMostDoubled)`, on any number of instances, if the table was made
  within the limit.  `LimitInv` has the argument of `Tables`, with three
  differences: a job may add several fields, so that it is fields that are
  counted and not jobs; a request that adds nothing goes past the lock; and a
  `modify` may make a field known (`NotAdmitted`).  The attempt to prove the
  property without that exception is how the `modify` was found.
* `OneWorkerEditsTakeEffect`: `EditsTakeEffect`, under the hypotheses of all.

`FieldEditorInv`, `OneWorkerInv` and `LimitInv` were checked by TLC before they
were proved: in the worlds of `fieldedits_all` and in larger ones of up to five
jobs and two instances, explored to millions of states.

An inductive step has one case per action, and lemmas say which processes and
which variables a group of actions moves.  Proved is safety.  What is
model-checked only:

* liveness under fairness, and so the temporal parts of
  `PageFollowsItsRequest`, `SettingsAreKept` and of the other pages, and ENABLED;
* what sorts and folds rows: `RowQueries`, of whose operators (`SetToSortSeq`,
  folds over sequences) the prover knows nothing;
* `EditsTakeEffect` where several workers run, outside the limit and the
  records;
* the modules without a proof module: `Rows` and `UserPages`.

## 5. Plan

Modelled, in the order in which it was done: provisioning, field edits,
accounts; membership, browser, tables, the onboarding contract and its
implementation; rows; access; the pages of users, tenants, links, resets and
fields; queries of rows.  Proved, in that order: provisioning, accounts, the
refinement of `Onboarding`, membership and the pages of its links, access, what
overlapping runs of the provisioning do, the pages of resets, what races of
accounts and memberships may exceed, the browser, the creation of tables,
the list of tenants, and field edits with their page.
What is left to prove, in order:

1. `ListsShowOwnActions` of `UserPages`.
2. What `Rows` promises of stored rows (`WritesAreSound`).
3. An abstract specification of sessions, a set of live logins that a refresh
   leaves alone and a revocation shrinks, which `Accounts` implements.

`RowQueries` sorts and folds with the community modules' operators, about which
the prover knows nothing; it stays with TLC.

## 6. Not modelled

* The tenant seed (one transaction of idempotent statements), mail delivery (a
  call that succeeds or not; the composed modules let mail arrive at any time or
  never), the tenancy context, the health probe and the placeholder modules: see
  the notes in `PROJECT.json`.
* Rendering, routes, translation and the validation of texts.
* System users, whose sessions work as those of tenant users do, and names.
* Audit events, except those that say a support session was used.
* Reloading a page while its old requests are still running on the server is
  under-approximated in `Browser` and `Tables`: such requests end first or not
  at all.
* A row written while the field it fills changes its type: `FieldEdits` has
  columns and no rows, `Rows` rows and no change of fields.
