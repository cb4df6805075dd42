------------------------------- MODULE Tables -------------------------------
(***************************************************************************)
(* The creation of dynamic tables in one tenant: DynamicTablesPage with    *)
(* its TableBuilderForm and useDdlJobSubmission() in the browsers, the     *)
(* request path of DynamicTablesService.enqueueCreateTable(), the BullMQ   *)
(* queue "ddl" and DdlWorker.processCreateTable().                         *)
(*                                                                         *)
(* A page submits a table, learns the number of its job and asks for the   *)
(* job's state until it settles, it has asked often enough, or the user    *)
(* leaves.  Requests are counted against the table limit under an advisory *)
(* lock.  A worker creates the table and its metadata in one transaction   *)
(* and records the outcome in another; a job that fails is tried again     *)
(* after a delay, and by then others may have edited its fields.           *)
(***************************************************************************)
EXTENDS Naturals, Sequences, FiniteSets, SequencesExt

CONSTANTS
  Instances,     \* backend processes, each with a worker
  Pages,         \* mounted DynamicTablesPages
  Names,         \* names of tables
  Fields,        \* names of fields
  None,          \* no name, no instance, the fields of a table that is not there
  MaxJobs,       \* bound on the number of submissions
  RetryCount,    \* DDL_JOB_RETRY_COUNT
  MaxStalls,     \* how often BullMQ requeues a job whose process died
  MaxPolls,      \* MAX_POLL_ATTEMPTS
  PageSize,      \* DEFAULT_PAGE_SIZE of the catalog
  Worlds         \* deployments, clients and disturbances to consider

\* A world: its instances and pages, the tables its users ask for, and how
\* often, DYNAMIC_TABLES_MAX_TABLES_PER_TENANT, whether the schema has its
\* metadata tables, what may happen and how often; "browse" is for the
\* catalogs to be looked at.
FaultKinds == {"ddl", "record", "crash", "network", "leave", "edit", "browse"}

ASSUME ConstantsAssumption ==
  /\ \A fields \in SUBSET Fields : fields # None
  /\ None \notin Instances
  /\ MaxJobs \in Nat \ {0} /\ MaxStalls \in Nat
  /\ RetryCount \in Nat \ {0} /\ MaxPolls \in Nat \ {0} /\ PageSize \in Nat \ {0}
  /\ \A w \in Worlds :
       /\ w = [field \in DOMAIN w |-> w[field]]
       /\ {"instances", "pages", "requests", "jobs", "maxTables", "bootstrapped",
           "kinds", "left"} \subseteq DOMAIN w
       /\ w.instances \subseteq Instances /\ w.pages \subseteq Pages
       /\ w.jobs \in 0 .. MaxJobs /\ w.kinds \subseteq FaultKinds
       /\ w.requests \subseteq Names \X ((SUBSET Fields) \ {{}}) /\ w.bootstrapped \in BOOLEAN
       /\ w.left \in Nat /\ w.maxTables \in Nat

JobIds == 1 .. MaxJobs
Pending == {"wait", "active", "delayed"}

VARIABLES
  jobs,      \* submissions: the requests and the jobs they become
  queue,     \* the waiting jobs, first come first served
  tables,    \* the tables of the tenant's schema: their columns by name
  meta,      \* _meta_tables and _meta_fields: the fields, by job, of its table
  created,   \* the rows of _meta_tables, oldest first
  history,   \* _meta_migrations: the outcomes recorded of every job
  ready,     \* whether the schema has the metadata tables
  seen,      \* bootstrappedTenants: the instances that hold the tenant
  lock,      \* the request that holds the advisory lock "tables", or 0
  worker,    \* what the worker of every instance is doing
  page,      \* every page: its builder, the submission, the catalog
  world      \* the world, with the disturbances that may still happen

schemaVars == <<tables, meta, created>>
requestVars == <<ready, seen, lock>>
vars == <<jobs, queue, schemaVars, history, requestVars, worker, page, world>>

\* A request's "pc" is what it awaits, "answer" its response; "state" is that
\* of the job it becomes.
NoSubmission == [name |-> None, fields |-> {}, pc |-> "none", at |-> None,
                 todo |-> {}, count |-> 0, pending |-> 0, answer |-> "none",
                 state |-> "none", made |-> 0, stalls |-> 0, runs |-> 0]
IdleWorker == [pc |-> "idle", job |-> 0, exists |-> FALSE]
Loading == [todo |-> {"count", "rows"}, total |-> 0, items |-> <<>>, status |-> "loading"]
NewPage == [open |-> FALSE, status |-> "idle", job |-> 0, polls |-> 0,
            built |-> 0, number |-> 1, list |-> Loading]

\* The request is answered and what it read is forgotten.
Answered(job, answer) ==
  [job EXCEPT !.pc = "answered", !.answer = answer, !.at = None,
              !.todo = {}, !.count = 0, !.pending = 0]

Init ==
  /\ world \in Worlds
  /\ jobs = [j \in JobIds |-> NoSubmission]
  /\ queue = <<>>
  /\ tables = [n \in Names |-> None]
  /\ meta = [j \in JobIds |-> None]
  /\ created = <<>>
  /\ history = [j \in JobIds |-> {}]
  /\ ready = world.bootstrapped
  /\ seen = {}
  /\ lock = 0
  /\ worker = [i \in Instances |-> IdleWorker]
  /\ page = [p \in Pages |-> NewPage]

Fault(kind) ==
  /\ kind \in world.kinds
  /\ world.left > 0
  /\ world' = [world EXCEPT !.left = @ - 1]

-----------------------------------------------------------------------------
(* The page *)

Busy(p) == page[p].status \in {"submitting", "polling"}
Unused == {j \in JobIds : jobs[j].pc = "none" /\ j <= world.jobs}

OpenBuilder(p) ==
  /\ ~page[p].open
  /\ page' = [page EXCEPT ![p].open = TRUE]
  /\ UNCHANGED <<jobs, queue, schemaVars, history, requestVars, worker, world>>

\* The builder goes, and with it the submission it owned.
Unmounted(pg) == [pg EXCEPT !.open = FALSE, !.status = "idle", !.job = 0, !.polls = 0]

\* TableBuilderForm.validate() lets a name and distinct fields through, at
\* least one; sanitizeIdentifier() what Postgres takes as an identifier.
Submit(p) ==
  /\ page[p].open /\ ~Busy(p)
  /\ \E j \in Unused, request \in world.requests, i \in world.instances :
       /\ \A k \in Unused : j <= k
       /\ jobs' = [jobs EXCEPT ![j].name = request[1], ![j].fields = request[2],
                               ![j].pc = "bootstrap", ![j].at = i]
       /\ page' = [page EXCEPT ![p].status = "submitting", ![p].job = j, ![p].polls = 0]
  /\ UNCHANGED <<queue, schemaVars, history, requestVars, worker, world>>

Cancel(p) ==
  /\ page[p].open /\ ~Busy(p)
  /\ page' = [page EXCEPT ![p] = Unmounted(@)]
  /\ UNCHANGED <<jobs, queue, schemaVars, history, requestVars, worker, world>>

\* The page is left; what it asked for goes on without it.
Leave(p) ==
  /\ Busy(p)
  /\ Fault("leave")
  /\ page' = [page EXCEPT ![p] = NewPage]
  /\ UNCHANGED <<jobs, queue, schemaVars, history, requestVars, worker>>

\* submit(): the answer to POST /tables.
Accepted(p) ==
  LET answer == jobs[page[p].job].answer IN
  /\ page[p].status = "submitting"
  /\ answer # "none"
  /\ page' = [page EXCEPT ![p].status = IF answer = "accepted" THEN "polling" ELSE answer]
  /\ UNCHANGED <<jobs, queue, schemaVars, history, requestVars, worker, world>>

\* onCompleted() of the builder closes it and reads the catalog anew.
Completed(pg) ==
  [Unmounted(pg) EXCEPT !.built = pg.job, !.number = 1, !.list = Loading]

\* pollJob(): getJobStatus() through mapJobState().
Poll(p) ==
  LET state == jobs[page[p].job].state
      last == page[p].polls + 1 = MaxPolls IN
  /\ page[p].status = "polling"
  /\ \/ state = "completed" /\ page' = [page EXCEPT ![p] = Completed(@)]
     \/ state = "failed" /\ page' = [page EXCEPT ![p].status = "failed"]
     \/ state \in Pending /\ last /\ page' = [page EXCEPT ![p].status = "timeout"]
     \/ state \in Pending /\ ~last /\ page' = [page EXCEPT ![p].polls = @ + 1]
  /\ UNCHANGED <<jobs, queue, schemaVars, history, requestVars, worker, world>>

\* A request of the submission gets no answer, whatever the server does.
LoseAnswer(p) ==
  /\ Busy(p)
  /\ Fault("network")
  /\ page' = [page EXCEPT ![p].status = "error"]
  /\ UNCHANGED <<jobs, queue, schemaVars, history, requestVars, worker>>

\* The catalog effect and listTables(): a count and a page, in either order.
OnPage(number) ==
  LET newest == Reverse(created) IN
  SubSeq(newest, (number - 1) * PageSize + 1,
                 IF number * PageSize < Len(newest) THEN number * PageSize ELSE Len(newest))

ListRead(p, query) ==
  LET list == page[p].list
      left == list.todo \ {query}
      status == IF left = {} THEN "ready" ELSE "loading" IN
  /\ ready /\ "browse" \in world.kinds
  /\ query \in list.todo
  /\ page' = [page EXCEPT ![p].list =
       IF query = "count"
         THEN [list EXCEPT !.todo = left, !.total = Len(created), !.status = status]
         ELSE [list EXCEPT !.todo = left, !.items = OnPage(page[p].number), !.status = status]]
  /\ UNCHANGED <<jobs, queue, schemaVars, history, requestVars, worker, world>>

\* The buttons under the catalog, which a total of 0 hides.
TurnPage(p, number) ==
  LET list == page[p].list IN
  /\ list.status = "ready"
  /\ number >= 1 /\ (number - 1) * PageSize < list.total
  /\ number \in {page[p].number - 1, page[p].number + 1}
  /\ page' = [page EXCEPT ![p].number = number, ![p].list = Loading]
  /\ UNCHANGED <<jobs, queue, schemaVars, history, requestVars, worker, world>>

-----------------------------------------------------------------------------
(* The request: enqueueCreateTable() *)

\* ensureMetaTablesOnce(): an instance that has seen the tables does not look.
EnsureMetaTables(j) ==
  LET known == jobs[j].at \in seen \/ ready IN
  /\ jobs[j].pc = "bootstrap"
  /\ jobs' = [jobs EXCEPT ![j].pc = IF known THEN "lock" ELSE "create"]
  /\ seen' = IF known THEN seen \union {jobs[j].at} ELSE seen
  /\ UNCHANGED <<queue, schemaVars, history, ready, lock, worker, page, world>>

\* The transaction of runMetaTablesBootstrap() commits, or meets the tables
\* of another that was faster.
CreateMetaTables(j) ==
  /\ jobs[j].pc = "create"
  /\ IF ready
       THEN /\ jobs' = [jobs EXCEPT ![j] = Answered(@, "error")]
            /\ UNCHANGED <<ready, seen>>
       ELSE /\ jobs' = [jobs EXCEPT ![j].pc = "lock"]
            /\ ready' = TRUE
            /\ seen' = seen \union {jobs[j].at}
  /\ UNCHANGED <<queue, schemaVars, history, lock, worker, page, world>>

AcquireTenantGuardrailLock(j) ==
  /\ jobs[j].pc = "lock"
  /\ lock = 0
  /\ lock' = j
  /\ jobs' = [jobs EXCEPT ![j].pc = "read", ![j].todo = {"count", "pending"}]
  /\ UNCHANGED <<queue, schemaVars, history, ready, seen, worker, page, world>>

PendingCreates == Cardinality({j \in JobIds : jobs[j].state \in Pending})

\* Promise.all of the count and of getPendingDdlJobs().
ReadLimit(j, query) ==
  /\ jobs[j].pc = "read"
  /\ query \in jobs[j].todo
  /\ jobs' = [jobs EXCEPT ![j].todo = @ \ {query},
                          ![j].count = IF query = "count" THEN Len(created) ELSE @,
                          ![j].pending = IF query = "pending" THEN PendingCreates ELSE @]
  /\ UNCHANGED <<queue, schemaVars, history, requestVars, worker, page, world>>

WithinLimit(j) == jobs[j].count + jobs[j].pending < world.maxTables

EnqueueDdlJob(j) ==
  /\ jobs[j].pc = "read" /\ jobs[j].todo = {}
  /\ WithinLimit(j)
  /\ jobs' = [jobs EXCEPT ![j].pc = "commit", ![j].state = "wait"]
  /\ queue' = Append(queue, j)
  /\ UNCHANGED <<schemaVars, history, requestVars, worker, page, world>>

\* A mutant: a refusal keeps the lock.
RejectHolding(j) ==
  /\ jobs[j].pc = "read" /\ jobs[j].todo = {}
  /\ ~WithinLimit(j)
  /\ jobs' = [jobs EXCEPT ![j] = Answered(@, "refused")]
  /\ UNCHANGED <<queue, schemaVars, history, requestVars, worker, page, world>>

RejectTable(j) ==
  /\ jobs[j].pc = "read" /\ jobs[j].todo = {}
  /\ ~WithinLimit(j)
  /\ lock' = 0
  /\ jobs' = [jobs EXCEPT ![j] = Answered(@, "refused")]
  /\ UNCHANGED <<queue, schemaVars, history, ready, seen, worker, page, world>>

AcceptTable(j) ==
  /\ jobs[j].pc = "commit"
  /\ lock' = 0
  /\ jobs' = [jobs EXCEPT ![j] = Answered(@, "accepted")]
  /\ UNCHANGED <<queue, schemaVars, history, ready, seen, worker, page, world>>

-----------------------------------------------------------------------------
(* The worker: processCreateTable() *)

\* A mutant: a job that is taken stays in the list.
TakeJobTwice(i) ==
  LET j == Head(queue) IN
  /\ i \in world.instances
  /\ worker[i].pc = "idle" /\ queue # <<>>
  /\ jobs' = [jobs EXCEPT ![j].state = "active", ![j].runs = @ + 1]
  /\ worker' = [worker EXCEPT ![i].pc = "look", ![i].job = j]
  /\ UNCHANGED <<queue, schemaVars, history, requestVars, page, world>>

TakeJob(i) ==
  LET j == Head(queue) IN
  /\ i \in world.instances
  /\ worker[i].pc = "idle" /\ queue # <<>>
  /\ queue' = Tail(queue)
  /\ jobs' = [jobs EXCEPT ![j].state = "active", ![j].runs = @ + 1]
  /\ worker' = [worker EXCEPT ![i].pc = "look", ![i].job = j]
  /\ UNCHANGED <<schemaVars, history, requestVars, page, world>>

HasTable(i) ==
  /\ worker[i].pc = "look"
  /\ worker' = [worker EXCEPT ![i].pc = "apply",
                              ![i].exists = tables[jobs[worker[i].job].name] # None]
  /\ UNCHANGED <<jobs, queue, schemaVars, history, requestVars, page, world>>

\* A mutant: the slug of a table has no unique index.
NoSlugIndex(j) == FALSE

SlugTaken(j) == \E k \in JobIds \ {j} : meta[k] # None /\ jobs[k].name = jobs[j].name

\* CREATE TABLE meets a table that came after hasTable(), or the row of
\* _meta_tables one with its slug.
CreateErrs(i) ==
  LET j == worker[i].job IN
  \/ ~worker[i].exists /\ tables[jobs[j].name] # None
  \/ SlugTaken(j)

\* The transaction commits.  upsertMetaField() inserts the fields that are
\* missing and updates the others; none is removed.
CreateTable(i) ==
  LET j == worker[i].job
      n == jobs[j].name IN
  /\ worker[i].pc = "apply"
  /\ ~CreateErrs(i)
  /\ tables' = IF worker[i].exists THEN tables ELSE [tables EXCEPT ![n] = jobs[j].fields]
  /\ meta' = [meta EXCEPT ![j] = IF @ = None THEN jobs[j].fields ELSE @ \union jobs[j].fields]
  /\ created' = IF meta[j] = None THEN Append(created, j) ELSE created
  /\ worker' = [worker EXCEPT ![i].pc = "record", ![i].exists = FALSE]
  /\ UNCHANGED <<jobs, queue, history, requestVars, page, world>>

RollBack(i) ==
  /\ worker[i].pc = "apply"
  /\ \/ CreateErrs(i) /\ UNCHANGED world
     \/ Fault("ddl")
  /\ worker' = [worker EXCEPT ![i].pc = "recordFailed", ![i].exists = FALSE]
  /\ UNCHANGED <<jobs, queue, schemaVars, history, requestVars, page>>

Recorded(j, outcome) == history' = [history EXCEPT ![j] = @ \union {outcome}]

RecordMigration(i) ==
  /\ worker[i].pc = "record"
  /\ Recorded(worker[i].job, "completed")
  /\ worker' = [worker EXCEPT ![i].pc = "done"]
  /\ UNCHANGED <<jobs, queue, schemaVars, requestVars, page, world>>

LoseRecord(i) ==
  /\ worker[i].pc = "record"
  /\ Fault("record")
  /\ worker' = [worker EXCEPT ![i].pc = "recordFailed"]
  /\ UNCHANGED <<jobs, queue, schemaVars, history, requestVars, page>>

\* The row of a failure references the row of _meta_tables: without one the
\* insert fails in its turn.  Either way the job is rejected.
RecordFailed(i) ==
  LET j == worker[i].job
      last == jobs[j].made + 1 = RetryCount IN
  /\ worker[i].pc = "recordFailed"
  /\ \/ meta[j] # None /\ Recorded(j, "failed")
     \/ meta[j] = None /\ UNCHANGED history
  /\ jobs' = [jobs EXCEPT ![j].made = @ + 1, ![j].state = IF last THEN "failed" ELSE "delayed"]
  /\ worker' = [worker EXCEPT ![i] = IdleWorker]
  /\ UNCHANGED <<queue, schemaVars, requestVars, page, world>>

CompleteJob(i) ==
  /\ worker[i].pc = "done"
  /\ jobs' = [jobs EXCEPT ![worker[i].job].state = "completed"]
  /\ worker' = [worker EXCEPT ![i] = IdleWorker]
  /\ UNCHANGED <<queue, schemaVars, history, requestVars, page, world>>

PromoteJob(j) ==
  /\ jobs[j].state = "delayed"
  /\ jobs' = [jobs EXCEPT ![j].state = "wait"]
  /\ queue' = Append(queue, j)
  /\ UNCHANGED <<schemaVars, history, requestVars, worker, page, world>>

\* A field edit of the table removes one of its fields, run by a worker that
\* is free.
RemoveField(j, f) ==
  /\ meta[j] # None /\ f \in meta[j]
  /\ \E i \in world.instances : worker[i].pc = "idle"
  /\ Fault("edit")
  /\ meta' = [meta EXCEPT ![j] = @ \ {f}]
  /\ tables' = [tables EXCEPT ![jobs[j].name] = @ \ {f}]
  /\ UNCHANGED <<jobs, queue, created, history, requestVars, worker, page>>

\* A backend process dies: its requests get no answer, its transactions are
\* rolled back, BullMQ finds its job stalled.
Crash(i) ==
  LET j == worker[i].job
      served == {k \in JobIds : jobs[k].at = i}
      stalled == IF j = 0 THEN {} ELSE {j}
      again == {k \in stalled : jobs[k].stalls < MaxStalls} IN
  /\ i \in world.instances
  /\ Fault("crash")
  /\ jobs' = [k \in JobIds |->
       LET job == IF k \in served
                    THEN Answered(jobs[k], "error") ELSE jobs[k] IN
       IF k \in stalled
         THEN [job EXCEPT !.stalls = @ + 1, !.state = IF k \in again THEN "wait" ELSE "failed"]
         ELSE job]
  /\ queue' = queue \o SetToSeq(again)
  /\ worker' = [worker EXCEPT ![i] = IdleWorker]
  /\ seen' = seen \ {i}
  /\ lock' = IF lock \in served THEN 0 ELSE lock
  /\ UNCHANGED <<schemaVars, history, ready, page>>

-----------------------------------------------------------------------------
UserStep(p) == OpenBuilder(p) \/ Submit(p) \/ Cancel(p) \/ Leave(p)
PageStep(p) == Accepted(p) \/ Poll(p) \/ \E q \in {"count", "rows"} : ListRead(p, q)
RequestStep(j) ==
  \/ EnsureMetaTables(j) \/ CreateMetaTables(j) \/ AcquireTenantGuardrailLock(j)
  \/ \E q \in {"count", "pending"} : ReadLimit(j, q)
  \/ EnqueueDdlJob(j) \/ RejectTable(j) \/ AcceptTable(j)
WorkerStep(i) ==
  \/ TakeJob(i) \/ HasTable(i) \/ CreateTable(i) \/ RollBack(i)
  \/ RecordMigration(i) \/ LoseRecord(i) \/ RecordFailed(i) \/ CompleteJob(i)

Next ==
  \/ \E p \in world.pages : UserStep(p) \/ PageStep(p) \/ LoseAnswer(p)
                            \/ \E n \in 1 .. MaxJobs : TurnPage(p, n)
  \/ \E j \in JobIds : RequestStep(j) \/ PromoteJob(j)
  \/ \E i \in world.instances : WorkerStep(i) \/ Crash(i)
  \/ \E j \in JobIds, f \in Fields : RemoveField(j, f)

\* Event loops and workers go on, a lock that is free again and again is had,
\* a delay passes.  Nobody has to submit anything, and nothing has to fail.
Fairness ==
  /\ \A p \in Pages : WF_vars(Accepted(p)) /\ WF_vars(Poll(p))
  /\ \A j \in JobIds : WF_vars(RequestStep(j)) /\ WF_vars(PromoteJob(j))
                        /\ SF_vars(AcquireTenantGuardrailLock(j))
  /\ \A i \in Instances : WF_vars(WorkerStep(i))

Spec == Init /\ [][Next]_vars /\ Fairness

-----------------------------------------------------------------------------
(* Properties *)

\* The variables have their types.
TypeOK ==
  /\ \A j \in JobIds :
       /\ jobs[j].name \in Names \union {None} /\ jobs[j].fields \subseteq Fields
       /\ jobs[j].pc \in {"none", "bootstrap", "create", "lock", "read", "commit", "answered"}
       /\ jobs[j].answer \in {"none", "accepted", "refused", "error"}
       /\ jobs[j].state \in Pending \union {"none", "completed", "failed"}
       /\ jobs[j].made \in 0 .. RetryCount /\ jobs[j].stalls \in 0 .. MaxStalls + 1
       /\ jobs[j].at \in Instances \union {None} /\ jobs[j].todo \subseteq {"count", "pending"}
  /\ \A n \in 1 .. Len(queue) : jobs[queue[n]].state = "wait"
  /\ \A n \in Names : tables[n] = None \/ tables[n] \subseteq Fields
  /\ \A j \in JobIds : meta[j] = None \/ meta[j] \subseteq Fields
  /\ \A n \in 1 .. Len(created) : meta[created[n]] # None
  /\ history \in [JobIds -> SUBSET {"completed", "failed"}]
  /\ ready \in BOOLEAN /\ seen \subseteq Instances /\ lock \in 0 .. MaxJobs
  /\ \A i \in Instances : worker[i].job # 0 <=> worker[i].pc # "idle"
  /\ \A i, k \in Instances : worker[i].job = worker[k].job => i = k \/ worker[i].job = 0
  /\ \A p \in Pages :
       /\ page[p].status \in {"idle", "submitting", "polling", "refused", "error", "failed", "timeout"}
       /\ page[p].polls \in 0 .. MaxPolls /\ page[p].number \in 1 .. MaxJobs

\* Every table has one row in _meta_tables with its name, every row has its
\* table, no column is missing from the metadata, and the metadata names a
\* column that is not there only where the job that created the table ran
\* again after an edit.
TablesAreDescribed ==
  LET described == {j \in JobIds : meta[j] # None} IN
  /\ \A n \in Names : tables[n] # None =>
       Cardinality({j \in described : jobs[j].name = n}) = 1
  /\ \A j \in described :
       /\ tables[jobs[j].name] # None
       /\ tables[jobs[j].name] \subseteq meta[j]
       /\ jobs[j].runs = 1 => meta[j] = tables[jobs[j].name]

\* A job that completed has its own table: of two for one name, at most one
\* completes, and it is on record.
CompletedJobBuiltItsTable ==
  /\ \A j \in JobIds : jobs[j].state = "completed" =>
       meta[j] # None /\ "completed" \in history[j]
  /\ \A j, k \in JobIds :
       jobs[j].state = "completed" /\ jobs[k].state = "completed" /\ jobs[j].name = jobs[k].name
         => j = k

\* A job that ends failed has left a table only where its success could not
\* be recorded or its process died.
FailureLeavesNothing ==
  \A j \in JobIds : jobs[j].state = "failed" /\ meta[j] # None =>
    jobs[j].stalls > 0 \/ history[j] = {"failed"}

\* Reading the count and the jobs apart can let a request in that should have
\* been refused, but the advisory lock keeps the damage below twice the limit.
TableLimitAtMostDoubled ==
  Len(created) <= 2 * world.maxTables

\* The four together: a name has one table, the one its completed job built,
\* everything on record agrees with it, and tables stay few.
TablesComeFromJobs ==
  /\ TablesAreDescribed
  /\ CompletedJobBuiltItsTable
  /\ FailureLeavesNothing
  /\ TableLimitAtMostDoubled

\* What the page shows of a submission is final: a failure it shows is not
\* retried, a refused table is never created, and a builder that closed by
\* itself has its table on the first page of the catalog unless newer ones
\* fill that page.
PageShowsWhatBecomes ==
  \A p \in Pages :
    LET pg == page[p] IN
    /\ pg.status = "failed" => jobs[pg.job].state = "failed"
    /\ pg.status = "refused" => jobs[pg.job].state = "none"
    /\ pg.built # 0 => jobs[pg.built].state = "completed"
    /\ pg.built # 0 /\ pg.list.status = "ready" /\ pg.number = 1 =>
         \/ pg.built \in ToSet(pg.list.items)
         \/ Len(pg.list.items) = PageSize

\* Every submission comes to an end: its request is answered, its job settled
\* and the page no longer busy with it.
Settled(j) ==
  /\ jobs[j].pc \in {"none", "answered"} /\ jobs[j].state \notin Pending
  /\ \A p \in Pages : Busy(p) => page[p].job # j
EverythingSettles == \A j \in JobIds : ~Settled(j) ~> Settled(j)

\* The two together: a page comes to show the end of its submission, and the
\* end it shows is the one there is.
PageFollowsItsJob == []PageShowsWhatBecomes /\ EverythingSettles
=============================================================================
