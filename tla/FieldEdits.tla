---------------------------- MODULE FieldEdits ----------------------------
(***************************************************************************)
(* Field edits of one dynamic table: DynamicTablesService.enqueueFieldEdit *)
(* on the request path, the BullMQ queue "ddl", and DdlWorker              *)
(* .processFieldEdit() of apps/backend/src/modules/dynamic-tables.         *)
(*                                                                         *)
(* A backend instance serves requests and runs a worker that takes one job *)
(* at a time.  An accepted request becomes a job, which is a sequence of   *)
(* edits; an edit runs as one or three DDL steps, a transaction each, and  *)
(* _meta_fields changes in a transaction of its own after the last step of *)
(* the last edit.  A job that fails is retried from its first step, behind *)
(* the jobs that came in meanwhile.  Row requests validate against a       *)
(* schema that every instance builds from _meta_fields and caches.         *)
(***************************************************************************)
EXTENDS Naturals, Sequences, FiniteSets

CONSTANTS
  Instances,     \* backend processes; each has a worker and a cache
  RowReaders,    \* those that also serve row requests
  Fields,        \* field slugs, which are the names of their columns
  Columns,       \* column names: the fields and their shadow columns
  Shadow,        \* buildShadowColumnName(), per field
  Types,         \* the values of FieldDataType
  Relation,      \* FieldDataType.RELATION
  Assignable,    \* <<a, b>>: Postgres assigns a column of type a to one of type b
  Absent,        \* the type of a column or field that does not exist
  NoSchema,      \* an empty cache entry
  MaxJobs,       \* bound on the number of accepted requests
  RetryCount,    \* DDL_JOB_RETRY_COUNT, the jobs' "attempts"
  MaxStalls,     \* how often BullMQ requeues a job whose process died
  Worlds         \* the deployments, clients and disturbances to consider

FaultKinds == {"ddl", "record", "metadata", "enqueue", "crash", "lose"}
Nobody == "nobody"

\* An edit: a member of the "edits" of PATCH /api/tables/:tableId/fields.
Edits == [op : {"add", "remove", "modify"}, field : Fields, type : Types]

\* A world: the instances that run, the fields the table was created with,
\* the edits its clients may ask for, how many requests are accepted,
\* DYNAMIC_TABLES_MAX_FIELDS_PER_TABLE, the kinds of disturbance that may
\* happen, and a bound on their number.
ASSUME ConstantsAssumption ==
  /\ Nobody \notin Instances
  /\ RowReaders \subseteq Instances
  /\ Fields \subseteq Columns
  /\ Shadow \in [Fields -> Columns]
  /\ Relation \in Types /\ Absent \notin Types
  /\ Assignable \subseteq Types \X Types
  /\ NoSchema \notin [Fields -> Types \union {Absent}]
  /\ MaxJobs \in Nat
  /\ RetryCount \in Nat \ {0} /\ MaxStalls \in Nat
  /\ \A w \in Worlds :
       /\ w = [field \in DOMAIN w |-> w[field]]
       /\ {"instances", "initial", "requests", "jobs", "maxFields", "kinds", "left"}
            \subseteq DOMAIN w
       /\ w.instances \subseteq Instances /\ w.initial \in [Fields -> Types \union {Absent}]
       /\ w.requests \subseteq Seq(Edits) \ {<<>>} /\ w.jobs \in 0 .. MaxJobs
       /\ w.kinds \subseteq FaultKinds /\ w.left \in Nat /\ w.maxFields \in Nat

\* The steps an edit is run as.  A relation column is added like another.
FirstStage == [add |-> "add-column", remove |-> "drop-column",
               modify |-> "add-shadow-column"]
NextStage == [stage \in {"add-shadow-column", "backfill-column"} |->
                IF stage = "backfill-column" THEN "cutover-column"
                                             ELSE "backfill-column"]
Stages == {"add-column", "drop-column", "add-shadow-column",
           "backfill-column", "cutover-column"}

JobIds == 1 .. MaxJobs
Pending == {"wait", "active", "delayed"}
JobStates == Pending \union {"none", "completed", "failed"}

VARIABLES
  columns,   \* the columns of the physical table
  meta,      \* _meta_fields: the data type of every field
  jobs,      \* the jobs of the queue, by their number
  queue,     \* the waiting jobs, first come first served
  recorded,  \* per job, the steps with a completed row in _meta_migrations
  worker,    \* what the worker of every instance is doing
  req,       \* the field-edit request every instance is serving
  lock,      \* who holds the advisory lock of the table's fields
  read,      \* the rows of _meta_fields a row request has read
  cache,     \* validationSchemaCache, the entry of this table
  world      \* the world, with the disturbances that may still happen

tableVars == <<columns, meta>>
queueVars == <<jobs, queue>>
cacheVars == <<read, cache>>
vars == <<columns, meta, jobs, queue, recorded, worker, req, lock, read, cache,
          world>>

\* A column is whole unless it stands for an older one whose values it never
\* received.
NoColumn == [type |-> Absent, whole |-> FALSE]
NewColumn(type, whole) == [type |-> type, whole |-> whole]

NoJob == [edits |-> <<>>, state |-> "none", made |-> 0, stalls |-> 0]
IdleWorker == [pc |-> "idle", job |-> 0, n |-> 0, stage |-> "add-column"]
IdleRequest == [pc |-> "idle", edits |-> <<>>, todo |-> {}, count |-> 0, pending |-> 0]

FieldsOf(schema) == {f \in Fields : schema[f] # Absent}

Init ==
  /\ world \in Worlds
  /\ columns = [c \in Columns |->
                  IF c \in FieldsOf(world.initial)
                    THEN NewColumn(world.initial[c], TRUE) ELSE NoColumn]
  /\ meta = world.initial
  /\ jobs = [j \in JobIds |-> NoJob]
  /\ queue = <<>>
  /\ recorded = [j \in JobIds |-> {}]
  /\ worker = [i \in Instances |-> IdleWorker]
  /\ req = [i \in Instances |-> IdleRequest]
  /\ lock = Nobody
  /\ read = [i \in Instances |-> NoSchema]
  /\ cache = [i \in Instances |-> NoSchema]

\* Something outside the code goes wrong, once more.
Fault(kind) ==
  /\ kind \in world.kinds
  /\ world.left > 0
  /\ world' = [world EXCEPT !.left = @ - 1]

-----------------------------------------------------------------------------
(* The request: enqueueFieldEdit() and enqueueFieldEditWithinLimit() *)


AdditionsOf(edits) == {n \in DOMAIN edits : edits[n].op = "add"}

\* getPendingDdlJobs(), and the additions of its jobs summed up.
PendingAdditions ==
  Cardinality(UNION {{j} \X AdditionsOf(jobs[j].edits) :
                       j \in {x \in JobIds : jobs[x].state \in Pending}})

\* buildFieldEditSteps() rejects a "modify" to or from RELATION; whether the
\* field exists it does not ask.
Buildable(edit) ==
  edit.op = "modify" => edit.type # Relation /\ meta[edit.field] # Relation

\* The bound on jobs: a request is received only if its job has a number.
UnusedJobs == Cardinality({j \in 1 .. world.jobs : jobs[j].state = "none"})
RequestsUnderWay ==
  Cardinality({i \in Instances : req[i].pc \in {"lock", "read", "admit", "enqueue"}})

\* A request arrives and is built into steps.  A request that adds nothing is
\* enqueued at once, any other asks for admission.
ReceiveRequest(i, edits) ==
  /\ i \in world.instances
  /\ req[i].pc = "idle"
  /\ UnusedJobs > RequestsUnderWay
  /\ \A n \in DOMAIN edits : Buildable(edits[n])
  /\ req' = [req EXCEPT ![i] =
               [IdleRequest EXCEPT
                  !.pc = IF AdditionsOf(edits) = {} THEN "enqueue" ELSE "lock",
                  !.edits = edits]]
  /\ UNCHANGED <<tableVars, queueVars, recorded, worker, lock, cacheVars, world>>

\* acquireTenantGuardrailLock(): an advisory lock of the transaction.
AcquireGuardrailLock(i) ==
  /\ req[i].pc = "lock"
  /\ lock = Nobody
  /\ lock' = i
  /\ req' = [req EXCEPT ![i].pc = "read", ![i].todo = {"count", "pending"}]
  /\ UNCHANGED <<tableVars, queueVars, recorded, worker, cacheVars, world>>

\* The two reads of the Promise.all, in either order.
Reads(i, what) ==
  /\ req[i].pc = "read"
  /\ what \in req[i].todo
  /\ req' = [req EXCEPT
               ![i].todo = @ \ {what},
               ![i].pc = IF req[i].todo = {what} THEN "admit" ELSE "read",
               ![i].count = IF what = "count"
                              THEN Cardinality(FieldsOf(meta)) ELSE @,
               ![i].pending = IF what = "pending" THEN PendingAdditions ELSE @]
  /\ UNCHANGED <<tableVars, queueVars, recorded, worker, lock, cacheVars, world>>

CountFields(i) == Reads(i, "count")
ListPendingJobs(i) == Reads(i, "pending")

WithinLimit(r) ==
  r.count + r.pending + Cardinality(AdditionsOf(r.edits)) <= world.maxFields

\* The transaction of the admission is over, if the request was in one.
ReleaseLock(i) == lock' = IF lock = i THEN Nobody ELSE lock

\* guardrailExceeded(), or an error of the queue: the request is rejected.
RejectRequest(i) ==
  /\ \/ req[i].pc = "admit" /\ ~WithinLimit(req[i]) /\ UNCHANGED world
     \/ req[i].pc \in {"admit", "enqueue"} /\ Fault("enqueue")
  /\ req' = [req EXCEPT ![i] = IdleRequest]
  /\ ReleaseLock(i)
  /\ UNCHANGED <<tableVars, queueVars, recorded, worker, cacheVars>>

\* enqueueDdlJob(): the job waits behind the others.
EnqueueDdlJob(i) ==
  /\ \/ req[i].pc = "enqueue"
     \/ req[i].pc = "admit" /\ WithinLimit(req[i])
  /\ \E j \in JobIds :
       /\ jobs[j].state = "none"
       /\ \A k \in 1 .. j - 1 : jobs[k].state # "none"
       /\ jobs' = [jobs EXCEPT ![j] =
                     [NoJob EXCEPT !.edits = req[i].edits, !.state = "wait"]]
       /\ queue' = Append(queue, j)
  /\ req' = [req EXCEPT ![i].pc = "invalidate"]
  /\ UNCHANGED <<tableVars, recorded, worker, lock, cacheVars, world>>

\* The admission commits; invalidateValidationSchema(); the client is told.
AcceptRequest(i) ==
  /\ req[i].pc = "invalidate"
  /\ req' = [req EXCEPT ![i] = IdleRequest]
  /\ ReleaseLock(i)
  /\ cache' = [cache EXCEPT ![i] = NoSchema]
  /\ UNCHANGED <<tableVars, queueVars, recorded, worker, read, world>>

-----------------------------------------------------------------------------
(* Row requests: getOrBuildValidationSchema() *)

ReadMetaFields(i) ==
  /\ cache[i] = NoSchema
  /\ read[i] = NoSchema
  /\ read' = [read EXCEPT ![i] = meta]
  /\ UNCHANGED <<tableVars, queueVars, recorded, worker, req, lock, cache, world>>

WriteValidationSchemaCache(i) ==
  /\ read[i] # NoSchema
  /\ cache' = [cache EXCEPT ![i] = read[i]]
  /\ read' = [read EXCEPT ![i] = NoSchema]
  /\ UNCHANGED <<tableVars, queueVars, recorded, worker, req, lock, world>>

\* Row requests on other tables push this one out.
EvictValidationSchema(i) ==
  /\ cache[i] # NoSchema
  /\ cache' = [cache EXCEPT ![i] = NoSchema]
  /\ UNCHANGED <<tableVars, queueVars, recorded, worker, req, lock, read, world>>

-----------------------------------------------------------------------------
(* The worker: processFieldEdit() *)

Edit(w) == jobs[w.job].edits[w.n]
Position(w) == <<w.n, w.stage>>

StartEdit(w, n) ==
  [w EXCEPT !.pc = "step", !.n = n,
            !.stage = FirstStage[jobs[w.job].edits[n].op]]

AfterStep(w) ==
  IF w.stage \in DOMAIN NextStage
    THEN [w EXCEPT !.pc = "step", !.stage = NextStage[w.stage]]
  ELSE IF w.n < Len(jobs[w.job].edits)
    THEN StartEdit(w, w.n + 1)
    ELSE [w EXCEPT !.pc = "metadata"]

\* BullMQ hands the first waiting job to an idle worker.
TakeJob(i) ==
  /\ i \in world.instances
  /\ worker[i].pc = "idle"
  /\ queue # <<>>
  /\ jobs' = [jobs EXCEPT ![Head(queue)].state = "active"]
  /\ queue' = Tail(queue)
  /\ worker' = [worker EXCEPT ![i] =
                  StartEdit([IdleWorker EXCEPT !.job = Head(queue)], 1)]
  /\ UNCHANGED <<tableVars, recorded, req, lock, cacheVars, world>>

\* The backoff of a failed job is over: it waits behind the others.
PromoteJob(j) ==
  /\ jobs[j].state = "delayed"
  /\ jobs' = [jobs EXCEPT ![j].state = "wait"]
  /\ queue' = Append(queue, j)
  /\ UNCHANGED <<tableVars, recorded, worker, req, lock, cacheVars, world>>

Exists(c) == columns[c] # NoColumn

\* The one step that is not guarded by hasColumn(): the UPDATE of the
\* backfill names both columns, and assigns one to the other.
StepErrs(w) ==
  /\ w.stage = "backfill-column"
  /\ LET from == columns[Edit(w).field]
         to == columns[Shadow[Edit(w).field]]
     IN  <<from.type, to.type>> \notin Assignable

\* cutover-column: the source is dropped if it is there, and the shadow
\* renamed if it is there.
Cutover(f) ==
  [columns EXCEPT ![f] = columns[Shadow[f]], ![Shadow[f]] = NoColumn]

\* executeStep(): what a step makes of the columns.
StepEffect(w) ==
  LET f == Edit(w).field
      s == Shadow[f]
  IN CASE w.stage = "add-column" ->
            IF Exists(f) THEN columns
            ELSE [columns EXCEPT ![f] = NewColumn(Edit(w).type, TRUE)]
       [] w.stage = "drop-column" -> [columns EXCEPT ![f] = NoColumn]
       [] w.stage = "add-shadow-column" ->
            IF Exists(s) THEN columns
            ELSE [columns EXCEPT ![s] = NewColumn(Edit(w).type, FALSE)]
       [] w.stage = "backfill-column" ->
            [columns EXCEPT ![s].whole = columns[f].whole]
       [] w.stage = "cutover-column" -> Cutover(f)

\* The transaction of a step commits, or fails and changes nothing.
ExecuteStep(i) ==
  /\ worker[i].pc = "step"
  /\ \/ /\ ~StepErrs(worker[i])
        /\ columns' = StepEffect(worker[i])
        /\ worker' = [worker EXCEPT ![i].pc = "record"]
        /\ UNCHANGED world
     \/ /\ StepErrs(worker[i])
        /\ worker' = [worker EXCEPT ![i].pc = "recordFailure"]
        /\ UNCHANGED <<columns, world>>
     \/ /\ Fault("ddl")
        /\ worker' = [worker EXCEPT ![i].pc = "recordFailure"]
        /\ UNCHANGED columns
  /\ UNCHANGED <<meta, queueVars, recorded, req, lock, cacheVars>>

\* recordMigration(completed).  It is inside the try: when it fails, the step
\* is recorded as failed, although it is committed.
RecordMigration(i) ==
  /\ worker[i].pc = "record"
  /\ \/ /\ recorded' = [recorded EXCEPT ![worker[i].job] = @ \union {Position(worker[i])}]
        /\ worker' = [worker EXCEPT ![i] = AfterStep(@)]
        /\ UNCHANGED world
     \/ /\ Fault("record")
        /\ worker' = [worker EXCEPT ![i].pc = "recordFailure"]
        /\ UNCHANGED recorded
  /\ UNCHANGED <<tableVars, queueVars, req, lock, cacheVars>>

\* recordMigration(failed), whether or not it succeeds, and rethrow.
RecordFailedMigration(i) ==
  /\ worker[i].pc = "recordFailure"
  /\ worker' = [worker EXCEPT ![i].pc = "reject"]
  /\ UNCHANGED <<tableVars, queueVars, recorded, req, lock, cacheVars, world>>

\* The edits of a job are applied to _meta_fields in their order.
LastEditOf(f, edits) ==
  CHOOSE n \in DOMAIN edits :
    edits[n].field = f /\ \A m \in n + 1 .. Len(edits) : edits[m].field # f

Touches(edits, f) == \E n \in DOMAIN edits : edits[n].field = f

\* A mutant: fields are upserted, never deleted.
MetadataWithoutDeletes(edits) ==
  [f \in Fields |->
     IF Touches(edits, f) /\ edits[LastEditOf(f, edits)].op # "remove"
       THEN edits[LastEditOf(f, edits)].type ELSE meta[f]]

MetadataAfter(edits) ==
  [f \in Fields |->
     IF ~Touches(edits, f) THEN meta[f]
     ELSE LET e == edits[LastEditOf(f, edits)]
          IN  IF e.op = "remove" THEN Absent ELSE e.type]

\* The metadata effects, in one transaction; a failure of it is not recorded.
ApplyMetadataEffects(i) ==
  /\ worker[i].pc = "metadata"
  /\ \/ /\ meta' = MetadataAfter(jobs[worker[i].job].edits)
        /\ worker' = [worker EXCEPT ![i].pc = "complete"]
        /\ UNCHANGED world
     \/ /\ Fault("metadata")
        /\ worker' = [worker EXCEPT ![i].pc = "reject"]
        /\ UNCHANGED meta
  /\ UNCHANGED <<columns, queueVars, recorded, req, lock, cacheVars>>

\* process() resolves, or rejects: BullMQ retries while attempts are left.
CompleteJob(i) ==
  /\ worker[i].pc = "complete"
  /\ jobs' = [jobs EXCEPT ![worker[i].job].state = "completed"]
  /\ worker' = [worker EXCEPT ![i] = IdleWorker]
  /\ UNCHANGED <<tableVars, queue, recorded, req, lock, cacheVars, world>>

\* Mutants: failures are not counted; one retry too many.
RejectJobUncounted(i) ==
  /\ worker[i].pc = "reject"
  /\ jobs' = [jobs EXCEPT ![worker[i].job].state = "delayed"]
  /\ worker' = [worker EXCEPT ![i] = IdleWorker]
  /\ UNCHANGED <<tableVars, queue, recorded, req, lock, cacheVars, world>>

RejectJobOffByOne(i) ==
  /\ worker[i].pc = "reject"
  /\ jobs' = [jobs EXCEPT
                ![worker[i].job].state = IF jobs[worker[i].job].made < RetryCount
                                           THEN "delayed" ELSE "failed",
                ![worker[i].job].made = @ + 1]
  /\ worker' = [worker EXCEPT ![i] = IdleWorker]
  /\ UNCHANGED <<tableVars, queue, recorded, req, lock, cacheVars, world>>

RejectJob(i) ==
  /\ worker[i].pc = "reject"
  /\ jobs' = [jobs EXCEPT
                ![worker[i].job].state = IF jobs[worker[i].job].made + 1 < RetryCount
                                           THEN "delayed" ELSE "failed",
                ![worker[i].job].made = @ + 1]
  /\ worker' = [worker EXCEPT ![i] = IdleWorker]
  /\ UNCHANGED <<tableVars, queue, recorded, req, lock, cacheVars, world>>

\* The instance dies.  BullMQ finds its job stalled and puts it in front,
\* MaxStalls times at most; its transactions and its cache are gone.
Crash(i) ==
  /\ Fault("crash")
  /\ LET j == worker[i].job
         stalled == worker[i].pc # "idle"
         again == stalled /\ jobs[j].stalls < MaxStalls
     IN  /\ stalled \/ req[i].pc # "idle"
         /\ jobs' = IF ~stalled THEN jobs
                    ELSE [jobs EXCEPT ![j].state = IF again THEN "wait" ELSE "failed",
                                      ![j].stalls = @ + 1]
         /\ queue' = IF again THEN <<j>> \o queue ELSE queue
  /\ worker' = [worker EXCEPT ![i] = IdleWorker]
  /\ req' = [req EXCEPT ![i] = IdleRequest]
  /\ ReleaseLock(i)
  /\ read' = [read EXCEPT ![i] = NoSchema]
  /\ cache' = [cache EXCEPT ![i] = NoSchema]
  /\ UNCHANGED <<tableVars, recorded>>

-----------------------------------------------------------------------------
(* The specification *)

Admission(i) ==
  \/ AcquireGuardrailLock(i) \/ CountFields(i) \/ ListPendingJobs(i)
  \/ RejectRequest(i) \/ EnqueueDdlJob(i) \/ AcceptRequest(i)

RowRequest(i) ==
  ReadMetaFields(i) \/ WriteValidationSchemaCache(i) \/ EvictValidationSchema(i)

Work(i) ==
  \/ ExecuteStep(i) \/ RecordMigration(i) \/ RecordFailedMigration(i)
  \/ ApplyMetadataEffects(i) \/ CompleteJob(i) \/ RejectJob(i)

\* No request is being served, and no job is waiting, running or delayed.
AtRest ==
  /\ \A i \in Instances : req[i].pc = "idle"
  /\ \A j \in JobIds : jobs[j].state \notin Pending

Rest == AtRest /\ UNCHANGED vars

Next ==
  \/ \E i \in Instances :
       \/ \E edits \in world.requests : ReceiveRequest(i, edits)
       \/ Admission(i) \/ TakeJob(i) \/ Work(i) \/ Crash(i)
  \/ \E i \in RowReaders \intersect world.instances : RowRequest(i)
  \/ \E j \in JobIds : PromoteJob(j)
  \/ Rest

\* Pending calls return, and BullMQ serves its queue and its delayed jobs.
Fairness ==
  /\ \A i \in Instances : WF_vars(TakeJob(i)) /\ WF_vars(Work(i))
  /\ WF_vars(\E j \in JobIds : PromoteJob(j))

Spec == Init /\ [][Next]_vars
FairSpec == Spec /\ Fairness

-----------------------------------------------------------------------------
Column == [type : Types \union {Absent}, whole : BOOLEAN]
Schema == [Fields -> Types \union {Absent}]
Job == [edits : Seq(Edits), state : JobStates, made : 0 .. RetryCount,
        stalls : 0 .. MaxStalls + 1]

TypeOK ==
  /\ columns \in [Columns -> Column]
  /\ meta \in Schema
  /\ jobs \in [JobIds -> Job]
  /\ queue \in Seq(JobIds)
  /\ \A j \in JobIds : recorded[j] \subseteq ((DOMAIN jobs[j].edits) \X Stages)
  /\ \A i \in Instances :
       /\ worker[i].pc \in {"idle", "step", "record", "recordFailure", "metadata",
                            "complete", "reject"}
       /\ worker[i].pc # "idle" =>
            /\ worker[i].job \in JobIds
            /\ jobs[worker[i].job].state = "active"
            /\ worker[i].n \in DOMAIN jobs[worker[i].job].edits
            /\ worker[i].stage \in Stages
       /\ req[i].pc \in {"idle", "lock", "read", "admit", "enqueue", "invalidate"}
       /\ req[i].todo \subseteq {"count", "pending"}
       /\ read[i] \in Schema \union {NoSchema}
       /\ cache[i] \in Schema \union {NoSchema}
  /\ lock \in Instances \union {Nobody}

-----------------------------------------------------------------------------
(* What the edits of a table owe to its users *)

Accepted == {j \in JobIds : jobs[j].state # "none"}

(* When every accepted edit has completed, whatever failed, crashed and was  *)
(* retried in between and in whatever order the retries came, the columns    *)
(* have the types that _meta_fields gives them and no shadow column is left. *)
CompletedEditsMatch ==
  AtRest /\ (\A j \in Accepted : jobs[j].state = "completed")
    => \A f \in Fields :
         columns[f].type = meta[f] /\ columns[Shadow[f]] = NoColumn

(* _meta_fields describes no column that is missing, except while a job that *)
(* removes it is under way or after such a job has failed: the metadata of a *)
(* field follows its column.                                                 *)
MetadataDescribesColumns ==
  \A f \in Fields :
    meta[f] # Absent /\ ~Exists(f)
      => \E j \in Accepted :
           /\ jobs[j].state # "completed"
           /\ \E n \in DOMAIN jobs[j].edits :
                jobs[j].edits[n].op = "remove" /\ jobs[j].edits[n].field = f

(* A cutover never puts a column in place that was not backfilled from the   *)
(* one it drops: however attempts of several jobs follow one another, the    *)
(* values of the rows survive a change of type.                              *)
ColumnsStayWhole == \A f \in Fields : Exists(f) => columns[f].whole

(* Every step of a completed job has its completed row in _meta_migrations:  *)
(* a row that could not be inserted is made up for by a retry.               *)
StepsOf(edit) ==
  IF edit.op = "modify"
    THEN {"add-shadow-column", "backfill-column", "cutover-column"}
    ELSE {FirstStage[edit.op]}
CompletedIsRecorded ==
  \A j \in JobIds :
    jobs[j].state = "completed" =>
      \A n \in DOMAIN jobs[j].edits :
        {n} \X StepsOf(jobs[j].edits[n]) \subseteq recorded[j]

(* The advisory lock keeps the damage of the two unsynchronised reads of an  *)
(* admission bounded: a table never gets twice as many fields as it may have *)
(* by additions.  Not admitted are those that a "modify" makes known, of a   *)
(* column that an addition left behind whose metadata failed, or of a field  *)
(* that is removed meanwhile: the edit is not asked whether its field is     *)
(* there, and its metadata effect is an upsert.                              *)
AskedFor(op, f) ==
  \E j \in Accepted : \E n \in DOMAIN jobs[j].edits :
    jobs[j].edits[n].op = op /\ jobs[j].edits[n].field = f
NotAdmitted ==
  {f \in Fields : /\ AskedFor("modify", f)
                  /\ world.initial[f] = Absent \/ AskedFor("remove", f)}
FieldLimitAtMostDoubled ==
  Cardinality(FieldsOf(meta) \ NotAdmitted) <= 2 * world.maxFields

(* The five together: what a completed edit promised is what the table, its  *)
(* metadata, its rows and its migration records have, within the limit.      *)
EditsTakeEffect ==
  /\ CompletedEditsMatch
  /\ MetadataDescribesColumns
  /\ ColumnsStayWhole
  /\ CompletedIsRecorded
  /\ FieldLimitAtMostDoubled

(* Every accepted job completes or fails: no failure, crash or retry leaves  *)
(* one waiting for ever.                                                     *)
JobsSettle ==
  \A j \in JobIds : jobs[j].state = "wait" ~> jobs[j].state \in {"completed", "failed"}

-----------------------------------------------------------------------------
(* What comments and tests of the code say, and the code does not do *)

(* When no edit is under way, row requests validate against the fields the   *)
(* table has: no cached schema is older than the last edit.                  *)
CachedSchemaIsCurrent ==
  AtRest => \A i \in RowReaders : cache[i] \in {NoSchema, meta}

=============================================================================
