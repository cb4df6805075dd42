---------------------------- MODULE TablesProofs ----------------------------
(***************************************************************************)
(* What Tables guarantees for every number of instances, pages, names,     *)
(* submissions and attempts, and in every world.                           *)
(*                                                                         *)
(* The invariant is stated part by part: of a submission, of the queue and *)
(* of the workers that run its jobs, of the tables and their metadata, of  *)
(* what is on record, of the limit, and of what a page shows.              *)
(***************************************************************************)
EXTENDS Tables, FiniteSetTheorems, SequenceTheorems, TLAPS

Deployed ==
  /\ world = [field \in DOMAIN world |-> world[field]]
  /\ {"instances", "pages", "requests", "jobs", "maxTables", "bootstrapped",
      "kinds", "left"} \subseteq DOMAIN world
  /\ world.instances \subseteq Instances /\ world.pages \subseteq Pages
  /\ world.requests \subseteq Names \X ((SUBSET Fields) \ {{}})
  /\ world.maxTables \in Nat

Served == {"bootstrap", "create", "lock", "read", "commit"}
Submissions ==
  [name : Names \union {None}, fields : SUBSET Fields,
   pc : Served \union {"none", "answered"}, at : Instances \union {None},
   todo : SUBSET {"count", "pending"}, count : Nat, pending : Nat,
   answer : {"none", "accepted", "refused", "error"},
   state : Pending \union {"none", "completed", "failed"},
   made : Nat, stalls : Nat, runs : Nat]
Workers ==
  [pc : {"idle", "look", "apply", "record", "recordFailed", "done"},
   job : 0 .. MaxJobs, exists : BOOLEAN]
Lists ==
  [todo : SUBSET {"count", "rows"}, total : Nat, items : Seq(JobIds),
   status : {"loading", "ready"}]
PageStates ==
  [open : BOOLEAN,
   status : {"idle", "submitting", "polling", "refused", "error", "failed", "timeout"},
   job : 0 .. MaxJobs, polls : 0 .. MaxPolls, built : 0 .. MaxJobs,
   number : 1 .. MaxJobs, list : Lists]

Shape ==
  /\ Deployed
  /\ jobs \in [JobIds -> Submissions]
  /\ queue \in Seq(JobIds)
  /\ tables \in [Names -> (SUBSET Fields) \union {None}]
  /\ meta \in [JobIds -> (SUBSET Fields) \union {None}]
  /\ created \in Seq(JobIds)
  /\ history \in [JobIds -> SUBSET {"completed", "failed"}]
  /\ ready \in BOOLEAN /\ seen \subseteq Instances /\ lock \in 0 .. MaxJobs
  /\ worker \in [Instances -> Workers]
  /\ page \in [Pages -> PageStates]

\* A submission that is served is at some instance, one that has read under
\* the lock holds it; it has no job before it is accepted; a job that is
\* pending has attempts left.
Stands(j) ==
  /\ jobs[j].pc # "none" => jobs[j].name \in Names
  /\ jobs[j].at # None <=> jobs[j].pc \in Served
  /\ jobs[j].pc \in {"read", "commit"} => lock = j
  /\ jobs[j].pc \in {"none", "bootstrap", "create", "lock", "read"} => jobs[j].state = "none"
  /\ jobs[j].answer # "none" => jobs[j].pc = "answered"
  /\ jobs[j].answer = "refused" => jobs[j].state = "none"
  /\ jobs[j].state = "none" => jobs[j].runs = 0 /\ jobs[j].made = 0 /\ jobs[j].stalls = 0
  /\ jobs[j].made <= RetryCount /\ jobs[j].stalls <= MaxStalls + 1
  /\ jobs[j].state \in Pending => jobs[j].made < RetryCount /\ jobs[j].stalls <= MaxStalls
JobsStand == \A j \in JobIds : Stands(j)

\* Every job is in the queue once, and it waits there.
QueueStands ==
  /\ \A n \in 1 .. Len(queue) : jobs[queue[n]].state = "wait"
  /\ \A m, n \in 1 .. Len(queue) : queue[m] = queue[n] => m = n

\* A worker that is not idle has a job for itself, which is active.
WorkersStand ==
  /\ \A i \in Instances :
       /\ worker[i].job = 0 <=> worker[i].pc = "idle"
       /\ worker[i].job # 0 => jobs[worker[i].job].state = "active"
  /\ \A i, k \in Instances : worker[i].job = worker[k].job => i = k \/ worker[i].job = 0

\* A page that is not idle has submitted something, and polls while it may.
PagesStand ==
  \A p \in Pages :
    /\ page[p].status # "idle" => page[p].job # 0
    /\ page[p].status \in {"submitting", "polling"} => page[p].polls < MaxPolls

Described == {j \in JobIds : meta[j] # None}

\* The rows of _meta_tables, oldest first, are those of the described tables.
RowsStand ==
  /\ \A n \in 1 .. Len(created) : created[n] \in Described
  /\ \A j \in Described : \E n \in 1 .. Len(created) : created[n] = j
  /\ \A m, n \in 1 .. Len(created) : created[m] = created[n] => m = n

TypeInv == Shape /\ JobsStand /\ QueueStands /\ WorkersStand /\ PagesStand

\* A name has at most one row, a table has one and a row its table.
NamesStand ==
  /\ \A j, k \in Described : jobs[j].name = jobs[k].name => j = k
  /\ \A n \in Names : tables[n] # None => \E j \in Described : jobs[j].name = n
  /\ \A j \in Described :
       /\ jobs[j].runs > 0
       /\ tables[jobs[j].name] # None
       /\ tables[jobs[j].name] \subseteq meta[j]
       /\ jobs[j].runs = 1 => meta[j] = tables[jobs[j].name]

\* What a worker may take for granted of the table of its job.
Knows(i) ==
  LET j == worker[i].job IN
  /\ j # 0 => jobs[j].runs > 0
  /\ worker[i].pc \in {"look", "apply"} /\ jobs[j].runs = 1 => j \notin Described
  /\ worker[i].pc = "apply" /\ worker[i].exists => tables[jobs[j].name] # None
  /\ worker[i].pc \in {"record", "done"} => j \in Described
  /\ worker[i].pc = "done" => "completed" \in history[j]
WorkersKnow == \A i \in Instances : Knows(i)

SchemaInv == RowsStand /\ NamesStand /\ WorkersKnow

\* A job with a recorded success has completed or is about to, or its process
\* died in between.
OnRecord(j) ==
  /\ jobs[j].state = "completed" => j \in Described /\ "completed" \in history[j]
  /\ "completed" \in history[j] =>
       \/ jobs[j].state = "completed" \/ jobs[j].stalls > 0
       \/ \E i \in Instances : worker[i].job = j /\ worker[i].pc = "done"
  /\ jobs[j].state = "failed" /\ j \in Described =>
       jobs[j].stalls > 0 \/ history[j] = {"failed"}
RecordStands == \A j \in JobIds : OnRecord(j)

\* The pending jobs, and those that will add a table if they succeed.
PendingJobs == {j \in JobIds : jobs[j].state \in Pending}
Coming == {j \in JobIds : jobs[j].state \in Pending /\ meta[j] = None}
Bound == Len(created) + Cardinality(Coming)

\* The limit: who holds the lock has counted all tables but those of jobs that
\* were pending when it counted them, and these are within the limit.
LimitInv ==
  /\ Cardinality(PendingJobs) <= world.maxTables
  /\ Bound <= 2 * world.maxTables
  /\ \A j \in JobIds : jobs[j].pc = "read" =>
       /\ "count" \notin jobs[j].todo => Bound <= jobs[j].count + world.maxTables
       /\ "pending" \notin jobs[j].todo => Cardinality(PendingJobs) <= jobs[j].pending

\* The first page of the catalog has the table that was built, or is full.
Shows(pg) == pg.built \in ToSet(pg.list.items) \/ Len(pg.list.items) = PageSize
Shown(p) ==
  LET pg == page[p] IN
  /\ pg.status = "failed" => jobs[pg.job].state = "failed"
  /\ pg.status = "refused" => jobs[pg.job].state = "none" /\ jobs[pg.job].pc = "answered"
  /\ pg.built # 0 => jobs[pg.built].state = "completed"
  /\ pg.built # 0 /\ "rows" \notin pg.list.todo /\ pg.number = 1 => Shows(pg)
  /\ pg.list.status = "ready" => pg.list.todo = {}
ShownInv == \A p \in Pages : Shown(p)
-----------------------------------------------------------------------------
(* Types                                                                     *)

LEMMA Numbers ==
  /\ JobIds = 1 .. MaxJobs /\ MaxJobs \in Nat /\ MaxJobs >= 1
  /\ MaxStalls \in Nat /\ RetryCount \in Nat /\ RetryCount >= 1
  /\ MaxPolls \in Nat /\ MaxPolls >= 1 /\ PageSize \in Nat /\ PageSize >= 1
  /\ None \notin Instances
  /\ \A fields \in SUBSET Fields : fields # None
BY ConstantsAssumption DEF JobIds

\* The world keeps everything but the number of disturbances it has left.
WorldStays ==
  /\ world'.instances = world.instances /\ world'.pages = world.pages
  /\ world'.requests = world.requests /\ world'.maxTables = world.maxTables

LEMMA FaultStays ==
  ASSUME Deployed, NEW kind, Fault(kind)
  PROVE  Deployed' /\ WorldStays
<1>1. world' = [world EXCEPT !.left = world.left - 1]
  BY DEF Fault
<1>2. \A field \in DOMAIN world \ {"left"} : world'[field] = world[field]
  BY <1>1 DEF Deployed
<1>3. DOMAIN world' = DOMAIN world /\ world' = [field \in DOMAIN world' |-> world'[field]]
  BY <1>1 DEF Deployed
<1>4. QED
  BY <1>2, <1>3 DEF Deployed, WorldStays

LEMMA DeploymentStays ==
  ASSUME Deployed, UNCHANGED world
  PROVE  Deployed' /\ WorldStays
BY DEF Deployed, WorldStays

LEMMA WorldStep ==
  ASSUME Deployed, [Next]_vars
  PROVE  Deployed' /\ WorldStays
<1> USE DeploymentStays, FaultStays
<1>1. CASE UNCHANGED vars
  BY <1>1 DEF vars
<1>2. ASSUME NEW p \in world.pages, UserStep(p) \/ PageStep(p) \/ LoseAnswer(p)
                                    \/ \E n \in 1 .. MaxJobs : TurnPage(p, n)
      PROVE  Deployed' /\ WorldStays
  BY <1>2 DEF UserStep, PageStep, OpenBuilder, Submit, Cancel, Leave, Accepted, Poll, ListRead,
              LoseAnswer, TurnPage
<1>3. ASSUME NEW j \in JobIds, RequestStep(j) \/ PromoteJob(j)
      PROVE  Deployed' /\ WorldStays
  BY <1>3 DEF RequestStep, PromoteJob, EnsureMetaTables, CreateMetaTables,
              AcquireTenantGuardrailLock, ReadLimit, EnqueueDdlJob, RejectTable, AcceptTable
<1>4. ASSUME NEW i \in world.instances, WorkerStep(i) \/ Crash(i)
      PROVE  Deployed' /\ WorldStays
  BY <1>4 DEF WorkerStep, Crash, TakeJob, HasTable, CreateTable, RollBack, RecordMigration,
              LoseRecord, RecordFailed, CompleteJob
<1>5. ASSUME NEW j \in JobIds, NEW f \in Fields, RemoveField(j, f)
      PROVE  Deployed' /\ WorldStays
  BY <1>5 DEF RemoveField
<1>6. QED
  BY <1>1, <1>2, <1>3, <1>4, <1>5 DEF Next

\* The queue of a job that crashed.
LEMMA QueuedAgain ==
  /\ SetToSeq({}) = <<>>
  /\ \A x : SetToSeq({x}) = <<x>>
<1>1. SetToSeq({}) = <<>>
  <2>1. Cardinality({}) = 0 /\ <<>> \in [1 .. 0 -> {}] /\ IsInjective(<<>>)
    BY FS_EmptySet DEF IsInjective
  <2>2. \A f \in [1 .. 0 -> {}] : f = <<>>
    OBVIOUS
  <2>3. QED
    BY <2>1, <2>2 DEF SetToSeq
<1>2. ASSUME NEW x PROVE SetToSeq({x}) = <<x>>
  <2>1. Cardinality({x}) = 1
    BY FS_Singleton
  <2>2. <<x>> \in [1 .. 1 -> {x}] /\ IsInjective(<<x>>)
    BY DEF IsInjective
  <2>3. \A f \in [1 .. 1 -> {x}] : f = <<x>>
    OBVIOUS
  <2>4. SetToSeq({x}) \in [1 .. 1 -> {x}]
    BY <2>1, <2>2 DEF SetToSeq
  <2>5. QED
    BY <2>3, <2>4
<1>3. QED
  BY <1>1, <1>2

LEMMA TypeInit == Init => TypeInv
<1> SUFFICES ASSUME Init PROVE TypeInv
  OBVIOUS
<1> USE Numbers
<1>1. Deployed /\ world.bootstrapped \in BOOLEAN
  BY ConstantsAssumption DEF Init, Deployed
<1>2. NoSubmission \in Submissions /\ IdleWorker \in Workers
  BY DEF NoSubmission, Submissions, IdleWorker, Workers
<1>3. Loading \in Lists
  BY DEF Loading, Lists
<1>4. NewPage \in PageStates
  BY <1>3 DEF NewPage, PageStates
<1>5. Shape
  BY <1>1, <1>2, <1>4 DEF Init, Shape
<1>6. JobsStand /\ QueueStands
  BY DEF Init, JobsStand, Stands, NoSubmission, Served, Pending, QueueStands
<1>7. WorkersStand /\ PagesStand
  BY DEF Init, WorkersStand, PagesStand, IdleWorker, NewPage
<1>8. QED
  BY <1>5, <1>6, <1>7 DEF TypeInv

\* A step that leaves the pages, the server or both alone.
LEMMA PagesGoOn ==
  ASSUME PagesStand, UNCHANGED page
  PROVE  PagesStand'
BY DEF PagesStand

LEMMA StatesGoOn ==
  ASSUME QueueStands, WorkersStand, UNCHANGED <<queue, worker>>, Shape, Shape',
         \A j \in JobIds : jobs'[j].state = jobs[j].state
  PROVE  QueueStands' /\ WorkersStand'
<1>1. QueueStands'
  <2>1. \A n \in 1 .. Len(queue) : queue[n] \in JobIds
    BY DEF Shape
  <2>2. QED
    BY <2>1 DEF QueueStands
<1>2. WorkersStand'
  <2>1. \A i \in Instances : worker[i].job \in 0 .. MaxJobs
    BY DEF Shape, Workers
  <2>2. QED
    BY <2>1, Numbers DEF WorkersStand
<1>3. QED
  BY <1>1, <1>2

LEMMA OthersStand ==
  ASSUME JobsStand, NEW j \in JobIds, Stands(j)', lock' = lock \/ lock \in {0, j},
         \A k \in JobIds \ {j} : jobs'[k] = jobs[k]
  PROVE  JobsStand'
<1> SUFFICES ASSUME NEW k \in JobIds \ {j} PROVE Stands(k)'
  BY DEF JobsStand
<1>1. Stands(k) /\ jobs'[k] = jobs[k] /\ k # 0
  BY Numbers DEF JobsStand
<1>2. QED
  BY <1>1 DEF Stands

LEMMA PageMoves ==
  ASSUME TypeInv, NEW p \in Pages, NEW pg \in PageStates, page' = [page EXCEPT ![p] = pg],
         pg.status # "idle" => pg.job # 0,
         pg.status \in {"submitting", "polling"} => pg.polls < MaxPolls
  PROVE  page' \in [Pages -> PageStates] /\ PagesStand'
BY DEF TypeInv, Shape, PagesStand

\* The types of a step of a page, which the server takes no notice of.
serverVars == <<jobs, queue, schemaVars, history, requestVars, worker>>
LEMMA PageTypes ==
  ASSUME TypeInv, NEW p \in Pages, NEW pg \in PageStates, page' = [page EXCEPT ![p] = pg],
         pg.status # "idle" => pg.job # 0,
         pg.status \in {"submitting", "polling"} => pg.polls < MaxPolls,
         UNCHANGED serverVars, Deployed'
  PROVE  TypeInv'
<1>1. page' \in [Pages -> PageStates] /\ PagesStand'
  BY PageMoves
<1>2. Shape'
  BY <1>1 DEF TypeInv, Shape, serverVars, schemaVars, requestVars
<1>3. JobsStand'
  BY DEF TypeInv, JobsStand, Stands, serverVars, requestVars
<1>4. QueueStands' /\ WorkersStand'
  BY <1>2, StatesGoOn DEF TypeInv, serverVars
<1>5. QED
  BY <1>1, <1>2, <1>3, <1>4 DEF TypeInv

LEMMA NewPageType ==
  /\ Loading \in Lists /\ Loading.todo = {"count", "rows"} /\ Loading.status = "loading"
  /\ NewPage \in PageStates /\ NewPage.status = "idle" /\ NewPage.built = 0
  /\ NewPage.list = Loading
<1>1. Loading \in Lists
  BY DEF Loading, Lists
<1>2. NewPage \in PageStates
  BY <1>1, Numbers DEF NewPage, PageStates
<1>3. QED
  BY <1>1, <1>2 DEF NewPage, Loading

LEMMA UnmountedType ==
  ASSUME NEW pg \in PageStates
  PROVE  /\ Unmounted(pg) \in PageStates /\ Unmounted(pg).status = "idle"
         /\ Unmounted(pg).built = pg.built /\ Unmounted(pg).list = pg.list
         /\ Unmounted(pg).number = pg.number
<1>1. 0 \in 0 .. MaxJobs /\ 0 \in 0 .. MaxPolls
  BY Numbers
<1>2. QED
  BY <1>1 DEF Unmounted, PageStates

LEMMA CompletedType ==
  ASSUME NEW pg \in PageStates
  PROVE  /\ Completed(pg) \in PageStates /\ Completed(pg).status = "idle"
         /\ Completed(pg).built = pg.job /\ Completed(pg).list = Loading
         /\ Completed(pg).number = 1
<1>1. Unmounted(pg) \in PageStates /\ Unmounted(pg).status = "idle" /\ Loading \in Lists
  BY UnmountedType, NewPageType
<1>2. Completed(pg) = [Unmounted(pg) EXCEPT !.built = pg.job, !.number = 1, !.list = Loading]
  BY DEF Completed
<1>3. pg.job \in 0 .. MaxJobs /\ 1 \in 1 .. MaxJobs
  BY Numbers DEF PageStates
<1> HIDE DEF Unmounted
<1>4. QED
  BY <1>1, <1>2, <1>3 DEF PageStates

\* The newest tables first, a page of them.
LEMMA NewestFirst ==
  ASSUME Shape
  PROVE  /\ Reverse(created) \in Seq(JobIds) /\ Len(Reverse(created)) = Len(created)
         /\ \A n \in 1 .. Len(created) : Reverse(created)[n] = created[Len(created) - n + 1]
<1> DEFINE L == Len(created)
<1>1. created \in Seq(JobIds) /\ L \in Nat /\ \A n \in 1 .. L : created[n] \in JobIds
  BY DEF Shape
<1>2. Reverse(created) = [n \in 1 .. L |-> created[L - n + 1]]
  BY DEF Reverse
<1>3. \A n \in 1 .. L : L - n + 1 \in 1 .. L
  BY <1>1
<1>4. Reverse(created) \in [1 .. L -> JobIds]
  BY <1>1, <1>2, <1>3
<1> HIDE DEF L
<1>5. Reverse(created) \in Seq(JobIds) /\ Len(Reverse(created)) = L
  BY <1>1, <1>4
<1>6. QED
  BY <1>2, <1>5 DEF L

LEMMA PageOfTables ==
  ASSUME Shape, NEW number \in 1 .. MaxJobs
  PROVE  /\ OnPage(number) \in Seq(JobIds)
         /\ number = 1 => /\ Len(created) <= PageSize =>
                               \A n \in 1 .. Len(created) : created[n] \in ToSet(OnPage(1))
                          /\ Len(created) > PageSize => Len(OnPage(1)) = PageSize
<1> DEFINE newest == Reverse(created)
           L == Len(created)
           skip == (number - 1) * PageSize
           last == IF number * PageSize < L THEN number * PageSize ELSE L
<1>1. newest \in Seq(JobIds) /\ Len(newest) = L /\ L \in Nat
      /\ \A n \in 1 .. L : newest[n] = created[L - n + 1]
  BY NewestFirst DEF Shape
<1>2. skip \in Nat /\ number * PageSize \in Nat
  BY Numbers
<1>3. OnPage(number) = SubSeq(newest, skip + 1, last)
  BY <1>1 DEF OnPage
<1>4. last \in Int /\ skip + 1 \in Int /\ \A n \in skip + 1 .. last : newest[n] \in JobIds
  BY <1>1, <1>2
<1> HIDE DEF newest, L
<1>5. OnPage(number) \in Seq(JobIds)
  BY <1>3, <1>4, SubSeqProperties
<1>6. ASSUME number = 1, L <= PageSize, NEW n \in 1 .. L
      PROVE  created[n] \in ToSet(OnPage(1))
  <2>1. skip = 0 /\ number * PageSize = PageSize
    BY <1>6, Numbers
  <2>2. last = L /\ OnPage(1) = SubSeq(newest, 1, L)
    BY <1>1, <1>3, <1>6, <2>1, Numbers
  <2>3. OnPage(1) = newest
    BY <1>1, <2>2, SubSeqFull
  <2>4. L - n + 1 \in 1 .. L /\ newest[L - n + 1] = created[n]
    BY <1>1, <1>6
  <2>5. DOMAIN newest = 1 .. L
    BY <1>1
  <2>6. QED
    BY <2>3, <2>4, <2>5 DEF ToSet
<1>7. ASSUME number = 1, L > PageSize
      PROVE  Len(OnPage(1)) = PageSize
  <2>1. skip = 0 /\ number * PageSize = PageSize
    BY <1>7, Numbers
  <2>2. last = PageSize /\ OnPage(1) = SubSeq(newest, 1, PageSize)
    BY <1>1, <1>3, <1>7, <2>1, Numbers
  <2>3. Len(SubSeq(newest, 1, PageSize)) = PageSize - 1 + 1
    BY <1>1, <1>7, <1>4, <2>1, <2>2, Numbers, SubSeqProperties
  <2>4. QED
    BY <2>2, <2>3, Numbers
<1>8. QED
  BY <1>5, <1>6, <1>7, <1>1, Numbers DEF L

LEMMA PageType ==
  ASSUME TypeInv, NEW p \in Pages
  PROVE  /\ page[p] \in PageStates /\ page[p].list \in Lists
         /\ page[p].status # "idle" => page[p].job \in JobIds
         /\ page[p].status \in {"submitting", "polling"} => page[p].polls + 1 \in 1 .. MaxPolls
<1>1. page[p] \in PageStates
  BY DEF TypeInv, Shape
<1>2. QED
  BY <1>1, Numbers DEF TypeInv, PagesStand, PageStates

\* What a page does on its own.
PageOnly(p) ==
  \/ OpenBuilder(p) \/ Cancel(p) \/ Leave(p) \/ Accepted(p) \/ Poll(p)
  \/ \E q \in {"count", "rows"} : ListRead(p, q)
  \/ LoseAnswer(p) \/ \E n \in 1 .. MaxJobs : TurnPage(p, n)

\* The page after such a step.
PageAfter(p, pg) ==
  /\ pg \in PageStates
  /\ page' = [page EXCEPT ![p] = pg]
  /\ pg.status # "idle" => pg.job # 0
  /\ pg.status \in {"submitting", "polling"} => pg.polls < MaxPolls
  /\ UNCHANGED serverVars

LEMMA PageOnlyStep ==
  ASSUME TypeInv, NEW p \in Pages, PageOnly(p)
  PROVE  PageAfter(p, page'[p])
<1> DEFINE pg == page[p]
<1>1. /\ pg \in PageStates /\ pg.list \in Lists
      /\ pg.status # "idle" => pg.job # 0 /\ pg.job \in JobIds
      /\ pg.status \in {"submitting", "polling"} => pg.polls < MaxPolls
      /\ page \in [Pages -> PageStates]
  BY PageType DEF TypeInv, PagesStand, Shape
<1>2. ASSUME NEW new \in PageStates, page' = [page EXCEPT ![p] = new], UNCHANGED serverVars,
             new.status # "idle" => new.job # 0,
             new.status \in {"submitting", "polling"} => new.polls < MaxPolls
      PROVE  PageAfter(p, page'[p])
  <2>1. page'[p] = new
    BY <1>1, <1>2
  <2>2. QED
    BY <1>2, <2>1 DEF PageAfter
<1>3. CASE OpenBuilder(p)
  <2>1. page' = [page EXCEPT ![p] = [pg EXCEPT !.open = TRUE]] /\ UNCHANGED serverVars
    BY <1>3 DEF OpenBuilder, serverVars
  <2>2. [pg EXCEPT !.open = TRUE] \in PageStates
    BY <1>1 DEF PageStates
  <2>3. /\ [pg EXCEPT !.open = TRUE].status = pg.status /\ [pg EXCEPT !.open = TRUE].job = pg.job
        /\ [pg EXCEPT !.open = TRUE].polls = pg.polls
    BY <1>1 DEF PageStates
  <2>4. QED
    BY <1>1, <1>2, <2>1, <2>2, <2>3
<1>4. CASE Cancel(p)
  <2>1. page' = [page EXCEPT ![p] = Unmounted(pg)] /\ UNCHANGED serverVars
    BY <1>4 DEF Cancel, serverVars
  <2>2. QED
    BY <1>1, <1>2, <2>1, UnmountedType
<1>5. CASE Leave(p)
  <2>1. page' = [page EXCEPT ![p] = NewPage] /\ UNCHANGED serverVars
    BY <1>5 DEF Leave, serverVars
  <2>2. QED
    BY <1>2, <2>1, NewPageType
<1>6. ASSUME NEW status \in {"polling", "refused", "error", "failed", "timeout"},
             pg.status # "idle",
             page' = [page EXCEPT ![p] = [pg EXCEPT !.status = status]],
             status = "polling" => pg.status \in {"submitting", "polling"},
             UNCHANGED serverVars
      PROVE  PageAfter(p, page'[p])
  <2>1. [pg EXCEPT !.status = status] \in PageStates
    BY <1>1 DEF PageStates
  <2>2. /\ [pg EXCEPT !.status = status].status = status
        /\ [pg EXCEPT !.status = status].job = pg.job
        /\ [pg EXCEPT !.status = status].polls = pg.polls
    BY <1>1 DEF PageStates
  <2>3. QED
    BY <1>1, <1>2, <1>6, <2>1, <2>2
<1>7. CASE Accepted(p)
  <2> DEFINE answer == jobs[pg.job].answer
             status == IF answer = "accepted" THEN "polling" ELSE answer
  <2>1. pg.status = "submitting" /\ answer # "none" /\ UNCHANGED serverVars
        /\ page' = [page EXCEPT ![p] = [pg EXCEPT !.status = status]]
    BY <1>7 DEF Accepted, serverVars
  <2>2. answer \in {"none", "accepted", "refused", "error"}
    BY <1>1, <2>1 DEF TypeInv, Shape, Submissions
  <2>3. QED
    BY <1>6, <2>1, <2>2
<1>8. CASE Poll(p)
  <2> DEFINE new == [pg EXCEPT !.polls = pg.polls + 1]
  <2>1. pg.status = "polling" /\ UNCHANGED serverVars
    BY <1>8 DEF Poll, serverVars
  <2>2. \/ page' = [page EXCEPT ![p] = Completed(pg)]
        \/ page' = [page EXCEPT ![p] = [pg EXCEPT !.status = "failed"]]
        \/ page' = [page EXCEPT ![p] = [pg EXCEPT !.status = "timeout"]]
        \/ pg.polls + 1 # MaxPolls /\ page' = [page EXCEPT ![p] = new]
    BY <1>8 DEF Poll
  <2>3. CASE page' = [page EXCEPT ![p] = Completed(pg)]
    BY <1>1, <1>2, <2>1, <2>3, CompletedType
  <2>4. CASE \/ page' = [page EXCEPT ![p] = [pg EXCEPT !.status = "failed"]]
             \/ page' = [page EXCEPT ![p] = [pg EXCEPT !.status = "timeout"]]
    BY <1>6, <2>1, <2>4
  <2>5. CASE pg.polls + 1 # MaxPolls /\ page' = [page EXCEPT ![p] = new]
    <3>1. pg.polls + 1 \in 0 .. MaxPolls /\ pg.polls + 1 < MaxPolls
      BY <1>1, <2>1, <2>5, PageType, Numbers
    <3>2. new \in PageStates /\ new.status = pg.status /\ new.job = pg.job
          /\ new.polls = pg.polls + 1
      BY <1>1, <3>1 DEF PageStates
    <3>3. QED
      BY <1>1, <1>2, <2>1, <2>5, <3>1, <3>2
  <2>6. QED
    BY <2>2, <2>3, <2>4, <2>5
<1>9. CASE LoseAnswer(p)
  <2>1. pg.status # "idle" /\ UNCHANGED serverVars
        /\ page' = [page EXCEPT ![p] = [pg EXCEPT !.status = "error"]]
    BY <1>9 DEF LoseAnswer, Busy, serverVars
  <2>2. QED
    BY <1>6, <2>1
<1>10. ASSUME NEW list \in Lists, NEW number \in 1 .. MaxJobs,
              page' = [page EXCEPT ![p] = [pg EXCEPT !.number = number, !.list = list]],
              UNCHANGED serverVars
       PROVE  PageAfter(p, page'[p])
  <2> DEFINE new == [pg EXCEPT !.number = number, !.list = list]
  <2>1. new \in PageStates /\ new.status = pg.status /\ new.job = pg.job /\ new.polls = pg.polls
    BY <1>1 DEF PageStates
  <2>2. QED
    BY <1>1, <1>2, <1>10, <2>1
<1>11. ASSUME NEW q \in {"count", "rows"}, ListRead(p, q)
       PROVE  PageAfter(p, page'[p])
  <2> DEFINE left == pg.list.todo \ {q}
             status == IF left = {} THEN "ready" ELSE "loading"
             new == IF q = "count"
                      THEN [pg.list EXCEPT !.todo = left, !.total = Len(created), !.status = status]
                      ELSE [pg.list EXCEPT !.todo = left, !.items = OnPage(pg.number), !.status = status]
  <2>1. page' = [page EXCEPT ![p].list = new] /\ UNCHANGED serverVars
    BY <1>11 DEF ListRead, serverVars
  <2>2. pg.number \in 1 .. MaxJobs
    BY <1>1 DEF PageStates
  <2>3. OnPage(pg.number) \in Seq(JobIds) /\ Len(created) \in Nat
    BY <2>2, PageOfTables DEF TypeInv, Shape
  <2>4. left \in SUBSET {"count", "rows"} /\ status \in {"loading", "ready"}
    BY <1>1 DEF Lists
  <2> HIDE DEF left, status
  <2>5. new \in Lists
    BY <1>1, <2>3, <2>4 DEF Lists
  <2> HIDE DEF new
  <2>6. page' = [page EXCEPT ![p] = [pg EXCEPT !.number = pg.number, !.list = new]]
    BY <1>1, <2>1 DEF PageStates
  <2>7. QED
    BY <1>10, <2>1, <2>2, <2>5, <2>6
<1>12. ASSUME NEW n \in 1 .. MaxJobs, TurnPage(p, n)
       PROVE  PageAfter(p, page'[p])
  <2>1. page' = [page EXCEPT ![p] = [pg EXCEPT !.number = n, !.list = Loading]]
        /\ UNCHANGED serverVars
    BY <1>1, <1>12 DEF TurnPage, serverVars, PageStates
  <2>2. QED
    BY <1>10, <2>1, NewPageType
<1>13. QED
  BY <1>3, <1>4, <1>5, <1>7, <1>8, <1>9, <1>11, <1>12 DEF PageOnly

LEMMA PageOnlyTypes ==
  ASSUME TypeInv, NEW p \in Pages, PageOnly(p), Deployed'
  PROVE  TypeInv'
BY PageOnlyStep, PageTypes DEF PageAfter

-----------------------------------------------------------------------------
(* Types of the requests                                                     *)

LEMMA SubmitTypes ==
  ASSUME TypeInv, NEW p \in Pages, Submit(p), Deployed'
  PROVE  TypeInv'
<1>2. PICK j \in Unused, request \in world.requests, i \in world.instances :
        /\ jobs' = [jobs EXCEPT ![j].name = request[1], ![j].fields = request[2],
                                ![j].pc = "bootstrap", ![j].at = i]
        /\ page' = [page EXCEPT ![p].status = "submitting", ![p].job = j, ![p].polls = 0]
  BY DEF Submit
<1>3. j \in JobIds /\ jobs[j].pc = "none" /\ jobs[j] \in Submissions
  BY DEF Unused, TypeInv, Shape
<1>4. request[1] \in Names /\ request[2] \in SUBSET Fields /\ i \in Instances /\ i # None
  BY Numbers DEF TypeInv, Shape, Deployed
<1> DEFINE job == [jobs[j] EXCEPT !.name = request[1], !.fields = request[2],
                                  !.pc = "bootstrap", !.at = i]
<1>5. job \in Submissions
  BY <1>3, <1>4 DEF Submissions, Served
<1>6. jobs' \in [JobIds -> Submissions] /\ jobs'[j] = job
      /\ \A k \in JobIds \ {j} : jobs'[k] = jobs[k]
  BY <1>2, <1>3, <1>5 DEF TypeInv, Shape
<1>7. /\ job.pc = "bootstrap" /\ job.name \in Names /\ job.at # None
      /\ job.state = jobs[j].state /\ job.runs = jobs[j].runs /\ job.answer = jobs[j].answer
      /\ job.made = jobs[j].made /\ job.stalls = jobs[j].stalls
  BY <1>3, <1>4 DEF Submissions
<1>8. UNCHANGED <<queue, schemaVars, history, requestVars, worker>>
  BY DEF Submit
<1> HIDE DEF job
<1>9. JobsStand'
  <2>1. Stands(j)'
    BY <1>3, <1>6, <1>7 DEF TypeInv, JobsStand, Stands, Served
  <2>2. QED
    BY <1>3, <1>6, <1>8, <2>1, OthersStand DEF TypeInv, requestVars
<1>10. page' \in [Pages -> PageStates] /\ PagesStand'
  <2> DEFINE pg == [page[p] EXCEPT !.status = "submitting", !.job = j, !.polls = 0]
  <2>1. page[p] \in PageStates /\ j \in 0 .. MaxJobs /\ j # 0 /\ 0 \in 0 .. MaxPolls /\ 0 < MaxPolls
    BY <1>3, Numbers DEF TypeInv, Shape
  <2>2. pg \in PageStates /\ pg.job = j /\ pg.polls = 0
    BY <2>1 DEF PageStates
  <2>3. page' = [page EXCEPT ![p] = pg]
    BY <1>2 DEF TypeInv, Shape
  <2>4. QED
    BY <2>1, <2>2, <2>3, PageMoves
<1>11. Shape'
  BY <1>6, <1>8, <1>10 DEF TypeInv, Shape, schemaVars, requestVars
<1>12. QueueStands' /\ WorkersStand'
  BY <1>6, <1>7, <1>8, <1>11, StatesGoOn DEF TypeInv
<1>13. QED
  BY <1>9, <1>10, <1>11, <1>12 DEF TypeInv

\* A step of one submission: what it becomes.
JobAfter(j, job) ==
  /\ job \in Submissions
  /\ jobs' = [jobs EXCEPT ![j] = job]

LEMMA JobMoves ==
  ASSUME Shape, NEW j \in JobIds, NEW job, JobAfter(j, job)
  PROVE  /\ jobs' \in [JobIds -> Submissions] /\ jobs'[j] = job
         /\ \A k \in JobIds \ {j} : jobs'[k] = jobs[k]
BY DEF Shape, JobAfter

LEMMA RequestTypes ==
  ASSUME TypeInv, Deployed', NEW j \in JobIds, NEW job, JobAfter(j, job),
         UNCHANGED <<queue, schemaVars, history, worker, page>>,
         ready' \in BOOLEAN, seen' \subseteq Instances, lock' \in {lock, 0, j},
         lock' = lock \/ lock \in {0, j},
         job.state = jobs[j].state, Stands(j)'
  PROVE  TypeInv'
<1>1. /\ jobs' \in [JobIds -> Submissions] /\ jobs'[j] = job
      /\ \A k \in JobIds \ {j} : jobs'[k] = jobs[k]
  BY JobMoves DEF TypeInv
<1>2. lock' \in 0 .. MaxJobs
  BY Numbers DEF TypeInv, Shape
<1>3. Shape'
  BY <1>1, <1>2 DEF TypeInv, Shape, schemaVars
<1>4. JobsStand'
  BY <1>1, OthersStand DEF TypeInv
<1>5. QueueStands' /\ WorkersStand'
  BY <1>1, <1>3, StatesGoOn DEF TypeInv
<1>6. PagesStand'
  BY PagesGoOn DEF TypeInv
<1>7. QED
  BY <1>3, <1>4, <1>5, <1>6 DEF TypeInv

LEMMA AnsweredType ==
  ASSUME NEW job \in Submissions, NEW answer \in {"accepted", "refused", "error"}
  PROVE  LET new == Answered(job, answer) IN
         /\ new \in Submissions /\ new.pc = "answered" /\ new.answer = answer /\ new.at = None
         /\ new.name = job.name /\ new.fields = job.fields /\ new.state = job.state
         /\ new.made = job.made /\ new.stalls = job.stalls /\ new.runs = job.runs
BY DEF Answered, Submissions

\* A step of a request, other than the one that makes it a job.
Serving(j) ==
  \/ EnsureMetaTables(j) \/ CreateMetaTables(j) \/ AcquireTenantGuardrailLock(j)
  \/ \E q \in {"count", "pending"} : ReadLimit(j, q)
  \/ RejectTable(j) \/ AcceptTable(j)

\* What such a step leaves of the submission.
SameJob(job, old) ==
  /\ job.name = old.name /\ job.fields = old.fields /\ job.state = old.state
  /\ job.made = old.made /\ job.stalls = old.stalls /\ job.runs = old.runs

ServingAfter(j, job) ==
  /\ JobAfter(j, job) /\ SameJob(job, jobs[j])
  /\ UNCHANGED <<queue, schemaVars, history, worker, page>>
  /\ ready' \in BOOLEAN /\ seen' \subseteq Instances
  /\ \/ /\ jobs[j].pc \in {"bootstrap", "create"}
        /\ job.pc \in {"lock", "create"} /\ job.at = jobs[j].at /\ job.answer = jobs[j].answer
        /\ lock' = lock
     \/ /\ jobs[j].pc = "create" /\ job = Answered(jobs[j], "error") /\ lock' = lock
     \/ /\ jobs[j].pc = "lock" /\ lock = 0 /\ lock' = j
        /\ job = [jobs[j] EXCEPT !.pc = "read", !.todo = {"count", "pending"}]
     \/ /\ jobs[j].pc = "read" /\ lock' = lock
        /\ \E q \in jobs[j].todo :
             job = [jobs[j] EXCEPT !.todo = @ \ {q},
                                   !.count = IF q = "count" THEN Len(created) ELSE @,
                                   !.pending = IF q = "pending" THEN PendingCreates ELSE @]
     \/ /\ jobs[j].pc = "read" /\ lock' = 0 /\ job = Answered(jobs[j], "refused")
     \/ /\ jobs[j].pc = "commit" /\ lock' = 0 /\ job = Answered(jobs[j], "accepted")

LEMMA PendingCounted ==
  ASSUME Shape
  PROVE  /\ IsFiniteSet(PendingJobs) /\ Cardinality(PendingJobs) \in Nat
         /\ PendingCreates = Cardinality(PendingJobs)
<1>1. IsFiniteSet(JobIds)
  BY Numbers, FS_Interval
<1>2. PendingJobs \in SUBSET JobIds
  BY DEF PendingJobs
<1>3. IsFiniteSet(PendingJobs) /\ Cardinality(PendingJobs) \in Nat
  BY <1>1, <1>2, FS_Subset, FS_CardinalityType
<1>4. QED
  BY <1>3 DEF PendingCreates, PendingJobs

LEMMA ServingStep ==
  ASSUME TypeInv, NEW j \in JobIds, Serving(j)
  PROVE  ServingAfter(j, jobs'[j])
<1> DEFINE old == jobs[j]
<1>1. /\ old \in Submissions /\ jobs \in [JobIds -> Submissions] /\ Stands(j)
      /\ ready \in BOOLEAN /\ seen \subseteq Instances /\ Len(created) \in Nat
  BY DEF TypeInv, Shape, JobsStand
<1>2. ASSUME NEW job \in Submissions, jobs' = [jobs EXCEPT ![j] = job]
      PROVE  JobAfter(j, jobs'[j]) /\ jobs'[j] = job
  BY <1>1, <1>2 DEF JobAfter
<1>3. CASE EnsureMetaTables(j)
  <2> DEFINE known == jobs[j].at \in seen \/ ready
             job == [old EXCEPT !.pc = IF known THEN "lock" ELSE "create"]
  <2>1. /\ old.pc = "bootstrap" /\ jobs' = [jobs EXCEPT ![j] = job]
        /\ seen' \in {seen, seen \union {old.at}} /\ ready' = ready /\ lock' = lock
        /\ UNCHANGED <<queue, schemaVars, history, worker, page>>
    BY <1>1, <1>3 DEF EnsureMetaTables
  <2>2. /\ job \in Submissions /\ SameJob(job, old) /\ job.pc \in {"lock", "create"}
        /\ job.at = old.at /\ job.answer = old.answer
    BY <1>1 DEF Submissions, Served, SameJob
  <2>3. old.at \in Instances
    BY <1>1, <2>1 DEF Stands, Served, Submissions
  <2> HIDE DEF job
  <2>4. QED
    BY <1>1, <1>2, <2>1, <2>2, <2>3 DEF ServingAfter
<1>4. CASE CreateMetaTables(j)
  <2>1. old.pc = "create" /\ lock' = lock
        /\ UNCHANGED <<queue, schemaVars, history, worker, page>>
    BY <1>4 DEF CreateMetaTables
  <2>2. CASE ready
    <3> DEFINE job == Answered(old, "error")
    <3>1. jobs' = [jobs EXCEPT ![j] = job] /\ UNCHANGED <<ready, seen>>
      BY <1>4, <2>2 DEF CreateMetaTables
    <3>2. job \in Submissions /\ SameJob(job, old)
      BY <1>1, AnsweredType DEF SameJob
    <3> HIDE DEF job
    <3>3. JobAfter(j, jobs'[j]) /\ jobs'[j] = job
      BY <1>2, <3>1, <3>2
    <3>4. QED
      BY <1>1, <2>1, <3>1, <3>2, <3>3 DEF ServingAfter, job
  <2>3. CASE ~ready
    <3> DEFINE job == [old EXCEPT !.pc = "lock"]
    <3>1. jobs' = [jobs EXCEPT ![j] = job] /\ ready' = TRUE /\ seen' = seen \union {old.at}
      BY <1>4, <2>3 DEF CreateMetaTables
    <3>2. /\ job \in Submissions /\ SameJob(job, old) /\ job.pc = "lock"
          /\ job.at = old.at /\ job.answer = old.answer
      BY <1>1 DEF Submissions, Served, SameJob
    <3>3. old.at \in Instances
      BY <1>1, <2>1 DEF Stands, Served, Submissions
    <3> HIDE DEF job
    <3>4. QED
      BY <1>1, <1>2, <2>1, <3>1, <3>2, <3>3 DEF ServingAfter
  <2>4. QED
    BY <2>2, <2>3
<1>5. CASE AcquireTenantGuardrailLock(j)
  <2> DEFINE job == [old EXCEPT !.pc = "read", !.todo = {"count", "pending"}]
  <2>1. /\ old.pc = "lock" /\ lock = 0 /\ lock' = j /\ jobs' = [jobs EXCEPT ![j] = job]
        /\ UNCHANGED <<queue, schemaVars, history, ready, seen, worker, page>>
    BY <1>5 DEF AcquireTenantGuardrailLock
  <2>2. job \in Submissions /\ SameJob(job, old)
    BY <1>1 DEF Submissions, Served, SameJob
  <2> HIDE DEF job
  <2>3. JobAfter(j, jobs'[j]) /\ jobs'[j] = job
    BY <1>2, <2>1, <2>2
  <2>4. QED
    BY <1>1, <2>1, <2>2, <2>3 DEF ServingAfter, job
<1>6. ASSUME NEW q \in {"count", "pending"}, ReadLimit(j, q)
      PROVE  ServingAfter(j, jobs'[j])
  <2> DEFINE count == IF q = "count" THEN Len(created) ELSE old.count
             pending == IF q = "pending" THEN PendingCreates ELSE old.pending
             job == [old EXCEPT !.todo = old.todo \ {q}, !.count = count, !.pending = pending]
  <2>1. /\ old.pc = "read" /\ lock' = lock /\ q \in old.todo /\ jobs' = [jobs EXCEPT ![j] = job]
        /\ UNCHANGED <<queue, schemaVars, history, ready, seen, worker, page>>
    BY <1>6 DEF ReadLimit, requestVars
  <2>2. count \in Nat /\ pending \in Nat
    BY <1>1, PendingCounted DEF TypeInv, Submissions
  <2>3. job \in Submissions /\ SameJob(job, old)
    <3> HIDE DEF count, pending
    <3>1. QED
      BY <1>1, <2>2 DEF Submissions, Served, SameJob
  <2>4. \E r \in old.todo :
          job = [old EXCEPT !.todo = @ \ {r}, !.count = IF r = "count" THEN Len(created) ELSE @,
                            !.pending = IF r = "pending" THEN PendingCreates ELSE @]
    BY <2>1
  <2> HIDE DEF job
  <2>5. JobAfter(j, jobs'[j]) /\ jobs'[j] = job
    BY <1>2, <2>1, <2>3
  <2>6. QED
    BY <1>1, <2>1, <2>3, <2>4, <2>5 DEF ServingAfter
<1>7. ASSUME NEW answer \in {"refused", "accepted"},
             jobs' = [jobs EXCEPT ![j] = Answered(old, answer)]
      PROVE  /\ JobAfter(j, jobs'[j]) /\ SameJob(jobs'[j], old)
             /\ jobs'[j] = Answered(old, answer)
  <2>1. Answered(old, answer) \in Submissions /\ SameJob(Answered(old, answer), old)
    BY <1>1, AnsweredType DEF SameJob
  <2>2. QED
    BY <1>2, <1>7, <2>1
<1>8. CASE RejectTable(j)
  <2>1. /\ old.pc = "read" /\ lock' = 0 /\ jobs' = [jobs EXCEPT ![j] = Answered(old, "refused")]
        /\ UNCHANGED <<queue, schemaVars, history, ready, seen, worker, page>>
    BY <1>8 DEF RejectTable
  <2>2. QED
    BY <1>1, <1>7, <2>1 DEF ServingAfter
<1>9. CASE AcceptTable(j)
  <2>1. /\ old.pc = "commit" /\ lock' = 0 /\ jobs' = [jobs EXCEPT ![j] = Answered(old, "accepted")]
        /\ UNCHANGED <<queue, schemaVars, history, ready, seen, worker, page>>
    BY <1>9 DEF AcceptTable
  <2>2. QED
    BY <1>1, <1>7, <2>1 DEF ServingAfter
<1>10. QED
  BY <1>3, <1>4, <1>5, <1>6, <1>8, <1>9 DEF Serving

LEMMA ServingTypes ==
  ASSUME TypeInv, Deployed', NEW j \in JobIds, Serving(j)
  PROVE  TypeInv'
<1> DEFINE old == jobs[j]
           job == jobs'[j]
<1>1. ServingAfter(j, job) /\ old \in Submissions /\ Stands(j) /\ lock \in 0 .. MaxJobs
  BY ServingStep DEF TypeInv, Shape, JobsStand
<1>2. lock' \in {lock, 0, j} /\ (lock' = lock \/ lock \in {0, j})
  BY <1>1 DEF ServingAfter, Stands
<1>3. Stands(j)'
  <2>1. SameJob(job, old) /\ jobs'[j] = job
    BY <1>1 DEF ServingAfter
  <2>2. CASE /\ old.pc \in {"bootstrap", "create"} /\ job.pc \in {"lock", "create"}
             /\ job.at = old.at /\ job.answer = old.answer
    BY <1>1, <2>1, <2>2 DEF Stands, SameJob, Served
  <2>3. ASSUME NEW answer \in {"accepted", "refused", "error"}, job = Answered(old, answer),
               answer = "refused" => old.pc = "read", old.pc # "none"
        PROVE  Stands(j)'
    <3>1. job.pc = "answered" /\ job.answer = answer /\ job.at = None
      BY <1>1, <2>3, AnsweredType
    <3>2. QED
      BY <1>1, <2>1, <2>3, <3>1 DEF Stands, SameJob, Served
  <2>4. CASE job = [old EXCEPT !.pc = "read", !.todo = {"count", "pending"}] /\ old.pc = "lock" /\ lock' = j
    <3>1. job.pc = "read" /\ job.at = old.at /\ job.answer = old.answer
      BY <1>1, <2>4 DEF Submissions
    <3>2. QED
      BY <1>1, <2>1, <2>4, <3>1 DEF Stands, SameJob, Served
  <2>5. ASSUME NEW q \in old.todo, old.pc = "read", lock' = lock,
               job = [old EXCEPT !.todo = @ \ {q},
                                 !.count = IF q = "count" THEN Len(created) ELSE @,
                                 !.pending = IF q = "pending" THEN PendingCreates ELSE @]
        PROVE  Stands(j)'
    <3>1. job.pc = "read" /\ job.at = old.at /\ job.answer = old.answer
      BY <1>1, <2>5 DEF Submissions
    <3>2. QED
      BY <1>1, <2>1, <2>5, <3>1 DEF Stands, SameJob, Served
  <2>6. QED
    BY <1>1, <2>2, <2>3, <2>4, <2>5 DEF ServingAfter
<1>4. QED
  BY <1>1, <1>2, <1>3, RequestTypes DEF ServingAfter, SameJob

-----------------------------------------------------------------------------
(* Types of the queue and of the workers                                     *)

\* A job that does not wait yet joins the queue.
LEMMA Enqueued ==
  ASSUME Shape, QueueStands, NEW j \in JobIds, jobs[j].state # "wait", queue' = Append(queue, j),
         jobs'[j].state = "wait", \A k \in JobIds \ {j} : jobs'[k].state = jobs[k].state
  PROVE  queue' \in Seq(JobIds) /\ QueueStands'
<1>1. /\ queue \in Seq(JobIds) /\ queue' \in Seq(JobIds) /\ Len(queue') = Len(queue) + 1
      /\ Len(queue) \in Nat
      /\ \A n \in 1 .. Len(queue) : queue'[n] = queue[n] /\ queue[n] \in JobIds
      /\ queue'[Len(queue) + 1] = j
  BY DEF Shape
<1>2. \A n \in 1 .. Len(queue) : queue[n] # j
  BY DEF QueueStands
<1>3. \A n \in 1 .. Len(queue') : n \in 1 .. Len(queue) \/ n = Len(queue) + 1
  BY <1>1
<1>4. \A n \in 1 .. Len(queue') : jobs'[queue'[n]].state = "wait"
  BY <1>1, <1>2, <1>3 DEF QueueStands
<1>5. \A m, n \in 1 .. Len(queue') : queue'[m] = queue'[n] => m = n
  BY <1>1, <1>2, <1>3 DEF QueueStands
<1>6. QED
  BY <1>1, <1>4, <1>5 DEF QueueStands

\* The workers go on when no job of theirs moves.
LEMMA WorkersGoOn ==
  ASSUME Shape, WorkersStand, UNCHANGED worker,
         \A j \in JobIds : jobs[j].state = "active" => jobs'[j].state = "active"
  PROVE  WorkersStand'
<1>1. \A i \in Instances : worker[i].job \in 0 .. MaxJobs
  BY DEF Shape, Workers
<1>2. \A i \in Instances : worker[i].job # 0 => jobs'[worker[i].job].state = "active"
  BY <1>1, Numbers DEF WorkersStand
<1>3. QED
  BY <1>2 DEF WorkersStand

\* A submission becomes a job, or a job that was delayed waits again.
Waits(j) == EnqueueDdlJob(j) \/ PromoteJob(j)
WaitsAfter(j, job) ==
  /\ JobAfter(j, job) /\ job.state = "wait" /\ queue' = Append(queue, j)
  /\ UNCHANGED <<schemaVars, history, requestVars, worker, page>>
  /\ job.name = jobs[j].name /\ job.fields = jobs[j].fields /\ job.at = jobs[j].at
  /\ job.made = jobs[j].made /\ job.stalls = jobs[j].stalls /\ job.runs = jobs[j].runs
  /\ job.answer = jobs[j].answer
  /\ \/ jobs[j].pc = "read" /\ jobs[j].todo = {} /\ WithinLimit(j) /\ job.pc = "commit"
     \/ jobs[j].state = "delayed" /\ job.pc = jobs[j].pc

LEMMA WaitsStep ==
  ASSUME TypeInv, NEW j \in JobIds, Waits(j)
  PROVE  WaitsAfter(j, jobs'[j])
<1> DEFINE old == jobs[j]
<1>1. old \in Submissions /\ jobs \in [JobIds -> Submissions]
  BY DEF TypeInv, Shape
<1>2. CASE EnqueueDdlJob(j)
  <2> DEFINE job == [old EXCEPT !.pc = "commit", !.state = "wait"]
  <2>1. /\ old.pc = "read" /\ old.todo = {} /\ WithinLimit(j)
        /\ jobs' = [jobs EXCEPT ![j] = job] /\ queue' = Append(queue, j)
        /\ UNCHANGED <<schemaVars, history, requestVars, worker, page>>
    BY <1>1, <1>2 DEF EnqueueDdlJob
  <2>2. /\ job \in Submissions /\ job.pc = "commit" /\ job.state = "wait"
        /\ job.name = old.name /\ job.fields = old.fields /\ job.at = old.at
        /\ job.made = old.made /\ job.stalls = old.stalls /\ job.runs = old.runs
        /\ job.answer = old.answer
    BY <1>1 DEF Submissions, Served, Pending
  <2> HIDE DEF job
  <2>3. jobs'[j] = job
    BY <1>1, <2>1
  <2>4. QED
    BY <2>1, <2>2, <2>3 DEF WaitsAfter, JobAfter
<1>3. CASE PromoteJob(j)
  <2> DEFINE job == [old EXCEPT !.state = "wait"]
  <2>1. /\ old.state = "delayed"
        /\ jobs' = [jobs EXCEPT ![j] = job] /\ queue' = Append(queue, j)
        /\ UNCHANGED <<schemaVars, history, requestVars, worker, page>>
    BY <1>1, <1>3 DEF PromoteJob
  <2>2. /\ job \in Submissions /\ job.pc = old.pc /\ job.state = "wait"
        /\ job.name = old.name /\ job.fields = old.fields /\ job.at = old.at
        /\ job.made = old.made /\ job.stalls = old.stalls /\ job.runs = old.runs
        /\ job.answer = old.answer
    BY <1>1 DEF Submissions, Pending
  <2> HIDE DEF job
  <2>3. jobs'[j] = job
    BY <1>1, <2>1
  <2>4. QED
    BY <2>1, <2>2, <2>3 DEF WaitsAfter, JobAfter
<1>4. QED
  BY <1>2, <1>3 DEF Waits

LEMMA WaitsTypes ==
  ASSUME TypeInv, Deployed', NEW j \in JobIds, Waits(j)
  PROVE  TypeInv'
<1> DEFINE job == jobs'[j]
<1>1. WaitsAfter(j, job) /\ Stands(j)
  BY WaitsStep DEF TypeInv, JobsStand
<1>2. /\ jobs' \in [JobIds -> Submissions] /\ job \in Submissions
      /\ \A k \in JobIds \ {j} : jobs'[k] = jobs[k]
  BY <1>1, JobMoves DEF TypeInv, WaitsAfter
<1>3. jobs[j].state \notin {"wait", "active"}
  BY <1>1 DEF WaitsAfter, Stands
<1>4. queue' \in Seq(JobIds) /\ QueueStands'
  BY <1>1, <1>2, <1>3, Enqueued DEF TypeInv, WaitsAfter
<1>5. Shape'
  BY <1>1, <1>2, <1>4 DEF TypeInv, Shape, WaitsAfter, schemaVars, requestVars
<1>6. JobsStand'
  <2>2. job.made < RetryCount /\ job.stalls <= MaxStalls
    BY <1>1, <1>2, Numbers DEF Stands, WaitsAfter, Pending
  <2>3. Stands(j)'
    BY <1>1, <1>2, <2>2 DEF Stands, WaitsAfter, Served, requestVars, Pending
  <2>4. QED
    BY <1>1, <1>2, <2>3, OthersStand DEF TypeInv, WaitsAfter, requestVars
<1>7. WorkersStand'
  BY <1>1, <1>2, <1>3, WorkersGoOn DEF TypeInv, WaitsAfter
<1>8. PagesStand'
  BY <1>1, PagesGoOn DEF TypeInv, WaitsAfter
<1>9. QED
  BY <1>4, <1>5, <1>6, <1>7, <1>8 DEF TypeInv

\* The queue goes on when no job that waits moves.
LEMMA QueueGoesOn ==
  ASSUME Shape, QueueStands, UNCHANGED queue,
         \A j \in JobIds : jobs[j].state = "wait" => jobs'[j].state = "wait"
  PROVE  QueueStands'
<1>1. \A n \in 1 .. Len(queue) : queue[n] \in JobIds
  BY DEF Shape
<1>2. QED
  BY <1>1 DEF QueueStands

\* The job a worker runs.
LEMMA Running ==
  ASSUME TypeInv, NEW i \in Instances, worker[i].pc # "idle"
  PROVE  LET j == worker[i].job IN
         /\ j \in JobIds /\ jobs[j] \in Submissions /\ jobs[j].state = "active"
         /\ jobs[j].name \in Names /\ jobs[j].fields \subseteq Fields
         /\ jobs[j].made + 1 <= RetryCount /\ jobs[j].stalls <= MaxStalls
         /\ jobs[j].pc \in {"commit", "answered"}
<1> DEFINE j == worker[i].job
<1>1. worker[i] \in Workers /\ j # 0 /\ jobs[j].state = "active"
  BY DEF TypeInv, Shape, WorkersStand
<1>2. j \in JobIds
  BY <1>1, Numbers DEF Workers
<1>3. Stands(j) /\ jobs[j] \in Submissions
  BY <1>2 DEF TypeInv, Shape, JobsStand
<1> HIDE DEF j
<1>4. jobs[j].pc \notin {"none", "bootstrap", "create", "lock", "read"}
  BY <1>1, <1>3 DEF Stands
<1>5. jobs[j].pc \in {"commit", "answered"}
  BY <1>3, <1>4 DEF Submissions, Served
<1>6. jobs[j].made < RetryCount /\ jobs[j].stalls <= MaxStalls /\ jobs[j].name \in Names
  BY <1>1, <1>3, <1>4 DEF Stands, Pending
<1>7. jobs[j].made \in Nat /\ jobs[j].fields \subseteq Fields
  BY <1>3 DEF Submissions
<1>8. QED
  BY <1>1, <1>2, <1>3, <1>5, <1>6, <1>7, Numbers DEF j

\* A worker that goes on with its job.
RunAfter(i, w) ==
  /\ w \in Workers /\ worker' = [worker EXCEPT ![i] = w]
  /\ w.job = worker[i].job /\ w.pc # "idle" /\ worker[i].pc # "idle"
  /\ UNCHANGED <<jobs, queue, requestVars, page>>

LEMMA RunTypes ==
  ASSUME TypeInv, Deployed', NEW i \in Instances, NEW w, RunAfter(i, w),
         tables' \in [Names -> (SUBSET Fields) \union {None}],
         meta' \in [JobIds -> (SUBSET Fields) \union {None}],
         created' \in Seq(JobIds),
         history' \in [JobIds -> SUBSET {"completed", "failed"}]
  PROVE  TypeInv'
<1>1. Shape'
  BY DEF TypeInv, Shape, RunAfter, requestVars
<1>2. JobsStand' /\ PagesStand' /\ QueueStands'
  BY DEF TypeInv, JobsStand, Stands, PagesStand, QueueStands, RunAfter, requestVars
<1>3. WorkersStand'
  <2>1. \A k \in Instances : worker'[k].job = worker[k].job
                             /\ (worker'[k].pc = "idle" <=> worker[k].pc = "idle")
    BY DEF TypeInv, Shape, RunAfter
  <2>2. QED
    BY <2>1 DEF TypeInv, WorkersStand, RunAfter
<1>4. QED
  BY <1>1, <1>2, <1>3 DEF TypeInv

\* What such a step does.
LEMMA HasTableStep ==
  ASSUME TypeInv, NEW i \in Instances, HasTable(i)
  PROVE  /\ worker[i].pc = "look" /\ worker'[i].pc = "apply"
         /\ worker'[i].exists = (tables[jobs[worker[i].job].name] # None)
         /\ RunAfter(i, worker'[i])
         /\ UNCHANGED <<schemaVars, history, world>>
<1> DEFINE there == tables[jobs[worker[i].job].name] # None
           w == [worker[i] EXCEPT !.pc = "apply", !.exists = there]
<1>1. worker[i] \in Workers /\ worker \in [Instances -> Workers]
  BY DEF TypeInv, Shape
<1>2. /\ worker[i].pc = "look" /\ worker' = [worker EXCEPT ![i] = w]
      /\ UNCHANGED <<jobs, queue, schemaVars, history, requestVars, page, world>>
  BY <1>1 DEF HasTable
<1>3. there \in BOOLEAN
  OBVIOUS
<1> HIDE DEF there
<1>4. w \in Workers /\ w.pc = "apply" /\ w.exists = there /\ w.job = worker[i].job
  BY <1>1, <1>3 DEF Workers
<1> HIDE DEF w
<1>5. worker'[i] = w
  BY <1>1, <1>2
<1>6. QED
  BY <1>2, <1>4, <1>5 DEF RunAfter, there

\* The worker's position changes, and it forgets whether the table was there.
LEMMA WorkerAt ==
  ASSUME TypeInv, NEW i \in Instances,
         NEW pc \in {"record", "recordFailed", "done"}, worker[i].pc # "idle",
         UNCHANGED <<jobs, queue, requestVars, page>>,
         \/ worker' = [worker EXCEPT ![i].pc = pc]
         \/ worker' = [worker EXCEPT ![i].pc = pc, ![i].exists = FALSE]
  PROVE  RunAfter(i, worker'[i]) /\ worker'[i].pc = pc
<1>1. worker[i] \in Workers /\ worker \in [Instances -> Workers]
  BY DEF TypeInv, Shape
<1>2. PICK w \in {[worker[i] EXCEPT !.pc = pc], [worker[i] EXCEPT !.pc = pc, !.exists = FALSE]} :
        worker' = [worker EXCEPT ![i] = w]
  BY <1>1
<1>3. w \in Workers /\ w.pc = pc /\ w.job = worker[i].job
  BY <1>1, <1>2 DEF Workers
<1>4. worker'[i] = w
  BY <1>1, <1>2
<1>5. QED
  BY <1>2, <1>3, <1>4 DEF RunAfter

LEMMA CreateTableStep ==
  ASSUME TypeInv, NEW i \in Instances, CreateTable(i)
  PROVE  /\ RunAfter(i, worker'[i]) /\ worker[i].pc = "apply" /\ worker'[i].pc = "record"
         /\ tables' \in [Names -> (SUBSET Fields) \union {None}]
         /\ meta' \in [JobIds -> (SUBSET Fields) \union {None}]
         /\ created' \in Seq(JobIds)
         /\ UNCHANGED <<history, world>>
<1> DEFINE j == worker[i].job
<1>1. worker[i].pc = "apply" /\ UNCHANGED <<jobs, queue, requestVars, page, history, world>>
      /\ worker' = [worker EXCEPT ![i].pc = "record", ![i].exists = FALSE]
  BY DEF CreateTable
<1>2. RunAfter(i, worker'[i]) /\ worker'[i].pc = "record"
  BY <1>1, WorkerAt
<1>3. /\ j \in JobIds /\ jobs[j].name \in Names /\ jobs[j].fields \in SUBSET Fields
  BY <1>1, Running
<1>4. /\ tables \in [Names -> (SUBSET Fields) \union {None}]
      /\ meta \in [JobIds -> (SUBSET Fields) \union {None}] /\ created \in Seq(JobIds)
  BY DEF TypeInv, Shape
<1>5. /\ tables' \in {tables, [tables EXCEPT ![jobs[j].name] = jobs[j].fields]}
      /\ meta' = [meta EXCEPT ![j] = IF meta[j] = None THEN jobs[j].fields
                                                      ELSE meta[j] \union jobs[j].fields]
      /\ created' \in {created, Append(created, j)}
  BY <1>3, <1>4 DEF CreateTable
<1> HIDE DEF j
<1>6. meta' \in [JobIds -> (SUBSET Fields) \union {None}]
  <2>1. meta[j] = None \/ meta[j] \in SUBSET Fields
    BY <1>3, <1>4
  <2>2. QED
    BY <1>3, <1>4, <1>5, <2>1
<1>7. tables' \in [Names -> (SUBSET Fields) \union {None}]
  BY <1>3, <1>4, <1>5
<1>8. created' \in Seq(JobIds)
  BY <1>3, <1>4, <1>5, AppendProperties
<1>9. QED
  BY <1>1, <1>2, <1>6, <1>7, <1>8

LEMMA RollBackStep ==
  ASSUME TypeInv, NEW i \in Instances, RollBack(i) \/ LoseRecord(i)
  PROVE  /\ RunAfter(i, worker'[i]) /\ worker[i].pc \in {"apply", "record"}
         /\ worker'[i].pc = "recordFailed"
         /\ UNCHANGED <<schemaVars, history>>
<1>1. worker[i].pc \in {"apply", "record"}
      /\ UNCHANGED <<jobs, queue, schemaVars, history, requestVars, page>>
  BY DEF RollBack, LoseRecord
<1>2. \/ worker' = [worker EXCEPT ![i].pc = "recordFailed"]
      \/ worker' = [worker EXCEPT ![i].pc = "recordFailed", ![i].exists = FALSE]
  BY DEF RollBack, LoseRecord
<1>3. RunAfter(i, worker'[i]) /\ worker'[i].pc = "recordFailed"
  BY <1>1, <1>2, WorkerAt
<1>4. QED
  BY <1>1, <1>3

LEMMA RecordMigrationStep ==
  ASSUME TypeInv, NEW i \in Instances, RecordMigration(i)
  PROVE  LET j == worker[i].job IN
         /\ RunAfter(i, worker'[i]) /\ worker[i].pc = "record" /\ worker'[i].pc = "done"
         /\ history' = [history EXCEPT ![j] = history[j] \union {"completed"}]
         /\ history' \in [JobIds -> SUBSET {"completed", "failed"}]
         /\ UNCHANGED <<schemaVars, world>>
<1>1. worker[i].pc = "record" /\ worker' = [worker EXCEPT ![i].pc = "done"]
      /\ UNCHANGED <<jobs, queue, schemaVars, requestVars, page, world>>
  BY DEF RecordMigration
<1>2. RunAfter(i, worker'[i]) /\ worker'[i].pc = "done"
  BY <1>1, WorkerAt
<1>3. worker[i].job \in JobIds
  BY <1>1, Running
<1>4. history \in [JobIds -> SUBSET {"completed", "failed"}]
  BY DEF TypeInv, Shape
<1>5. history' = [history EXCEPT ![worker[i].job] = history[worker[i].job] \union {"completed"}]
  BY <1>4 DEF RecordMigration, Recorded
<1>6. history[worker[i].job] \union {"completed"} \in SUBSET {"completed", "failed"}
  BY <1>3, <1>4
<1>7. QED
  BY <1>1, <1>2, <1>3, <1>4, <1>5, <1>6

\* A worker takes the job at the head of the queue.
TakenAfter(i, j, job) ==
  /\ j \in JobIds /\ worker[i].pc = "idle" /\ worker[i].job = 0 /\ queue # <<>>
  /\ j = queue[1] /\ jobs[j].state = "wait"
  /\ JobAfter(j, job) /\ job = [jobs[j] EXCEPT !.state = "active", !.runs = jobs[j].runs + 1]
  /\ queue' = Tail(queue)
  /\ \E w \in Workers : w.pc = "look" /\ w.job = j /\ worker' = [worker EXCEPT ![i] = w]
  /\ UNCHANGED <<schemaVars, history, requestVars, page, world>>

LEMMA TakeJobStep ==
  ASSUME TypeInv, NEW i \in Instances, TakeJob(i)
  PROVE  TakenAfter(i, queue[1], jobs'[queue[1]])
<1> DEFINE j == queue[1]
           job == [jobs[j] EXCEPT !.state = "active", !.runs = jobs[j].runs + 1]
           w == [worker[i] EXCEPT !.pc = "look", !.job = j]
<1>1. queue \in Seq(JobIds) /\ queue # <<>> /\ worker[i].pc = "idle" /\ worker[i].job = 0
  BY DEF TypeInv, Shape, TakeJob, WorkersStand
<1>2. Len(queue) \in Nat /\ Len(queue) >= 1 /\ j \in JobIds /\ j = Head(queue)
  BY <1>1
<1>3. jobs[j].state = "wait"
  BY <1>2 DEF TypeInv, QueueStands
<1>4. /\ jobs' = [jobs EXCEPT ![j] = job] /\ queue' = Tail(queue)
      /\ worker' = [worker EXCEPT ![i] = w]
      /\ UNCHANGED <<schemaVars, history, requestVars, page, world>>
  BY <1>2 DEF TakeJob, TypeInv, Shape
<1>5. jobs[j] \in Submissions /\ jobs \in [JobIds -> Submissions]
      /\ worker[i] \in Workers /\ worker \in [Instances -> Workers]
  BY <1>2 DEF TypeInv, Shape
<1>6. job \in Submissions
  <2> HIDE DEF j
  <2>1. jobs[j].runs + 1 \in Nat
    BY <1>5 DEF Submissions
  <2>2. QED
    BY <1>5, <2>1 DEF Submissions, Pending
<1>7. w \in Workers /\ w.pc = "look" /\ w.job = j
  <2> HIDE DEF j
  <2>1. j \in 0 .. MaxJobs
    BY <1>2, Numbers
  <2>2. QED
    BY <1>5, <2>1 DEF Workers
<1> HIDE DEF j, w
<1>8. jobs'[j] = job
  BY <1>2, <1>4, <1>5
<1>9. JobAfter(j, job)
  BY <1>4, <1>6 DEF JobAfter
<1>10. TakenAfter(i, j, job)
  BY <1>1, <1>2, <1>3, <1>4, <1>7, <1>9 DEF TakenAfter, j
<1>11. QED
  BY <1>8, <1>10 DEF j

LEMMA TakenTypes ==
  ASSUME TypeInv, Deployed', NEW i \in Instances, NEW j, NEW job, TakenAfter(i, j, job)
  PROVE  TypeInv'
<1>1. j \in JobIds /\ jobs[j] \in Submissions /\ Stands(j) /\ j # 0 /\ jobs[j].state = "wait"
  BY Numbers DEF TakenAfter, TypeInv, Shape, JobsStand
<1>2. /\ jobs' \in [JobIds -> Submissions] /\ jobs'[j] = job
      /\ \A k \in JobIds \ {j} : jobs'[k] = jobs[k]
  BY <1>1, JobMoves DEF TakenAfter, TypeInv
<1>3. /\ job.state = "active" /\ job.name = jobs[j].name /\ job.pc = jobs[j].pc
      /\ job.at = jobs[j].at /\ job.made = jobs[j].made /\ job.stalls = jobs[j].stalls
      /\ job.answer = jobs[j].answer
  BY <1>1 DEF TakenAfter, Submissions
<1>4. PICK w \in Workers : w.pc = "look" /\ w.job = j /\ worker' = [worker EXCEPT ![i] = w]
  BY DEF TakenAfter
<1>5. UNCHANGED <<schemaVars, history, requestVars, page>> /\ queue' = Tail(queue)
      /\ queue \in Seq(JobIds) /\ queue # <<>> /\ j = queue[1]
  BY DEF TakenAfter, TypeInv, Shape
<1>6. /\ queue' \in Seq(JobIds) /\ Len(queue) \in Nat /\ Len(queue) >= 1
      /\ Len(queue') = Len(queue) - 1
      /\ \A n \in 1 .. Len(queue') : queue'[n] = queue[n + 1] /\ n + 1 \in 1 .. Len(queue)
  BY <1>5
<1>7. QueueStands'
  <2>1. \A n \in 1 .. Len(queue) : queue[n] \in JobIds
    BY <1>5
  <2>2. \A n \in 1 .. Len(queue') : queue'[n] # j
    BY <1>5, <1>6 DEF TypeInv, QueueStands
  <2>3. \A n \in 1 .. Len(queue') : jobs'[queue'[n]].state = "wait"
    BY <1>2, <1>6, <2>1, <2>2 DEF TypeInv, QueueStands
  <2>4. \A m, n \in 1 .. Len(queue') : queue'[m] = queue'[n] => m = n
    <3> SUFFICES ASSUME NEW m \in 1 .. Len(queue'), NEW n \in 1 .. Len(queue'), queue'[m] = queue'[n]
                 PROVE  m = n
      OBVIOUS
    <3>1. m + 1 = n + 1
      BY <1>6 DEF TypeInv, QueueStands
    <3>2. QED
      BY <1>6, <3>1
  <2>5. QED
    BY <2>3, <2>4 DEF QueueStands
<1>8. Stands(j)'
  BY <1>1, <1>2, <1>3, <1>5 DEF Stands, Pending, Served, requestVars
<1>9. JobsStand'
  BY <1>1, <1>2, <1>5, <1>8, OthersStand DEF TypeInv, requestVars
<1>10. worker' \in [Instances -> Workers] /\ worker'[i] = w
       /\ \A k \in Instances \ {i} : worker'[k] = worker[k]
  BY <1>4 DEF TypeInv, Shape
<1>11. Shape'
  BY <1>2, <1>5, <1>6, <1>10 DEF TypeInv, Shape, schemaVars, requestVars
<1>12. WorkersStand'
  <2>1. \A k \in Instances : worker[k].job \in 0 .. MaxJobs /\ worker[k].job # j
    BY <1>1 DEF TypeInv, Shape, Workers, WorkersStand
  <2>2. \A k \in Instances : worker'[k].job = 0 <=> worker'[k].pc = "idle"
    BY <1>1, <1>4, <1>10 DEF TypeInv, WorkersStand
  <2>3. \A k \in Instances : worker'[k].job # 0 => jobs'[worker'[k].job].state = "active"
    BY <1>1, <1>2, <1>3, <1>4, <1>10, <2>1, Numbers DEF TypeInv, WorkersStand
  <2>4. \A k, l \in Instances : worker'[k].job = worker'[l].job => k = l \/ worker'[k].job = 0
    BY <1>4, <1>10, <2>1 DEF TypeInv, WorkersStand
  <2>5. QED
    BY <2>2, <2>3, <2>4 DEF WorkersStand
<1>13. PagesStand'
  BY <1>5, PagesGoOn DEF TypeInv
<1>14. QED
  BY <1>7, <1>9, <1>11, <1>12, <1>13 DEF TypeInv

\* A worker that lets its job go; the job is settled or tried again.
LEMMA WorkerLeaves ==
  ASSUME TypeInv, NEW i \in Instances, worker' = [worker EXCEPT ![i] = IdleWorker],
         \A k \in JobIds \ {worker[i].job} : jobs'[k].state = jobs[k].state
  PROVE  worker' \in [Instances -> Workers] /\ WorkersStand'
<1>1. IdleWorker \in Workers /\ IdleWorker.job = 0 /\ IdleWorker.pc = "idle"
  BY Numbers DEF IdleWorker, Workers
<1>2. worker' \in [Instances -> Workers] /\ worker'[i] = IdleWorker
      /\ \A k \in Instances \ {i} : worker'[k] = worker[k]
  BY <1>1 DEF TypeInv, Shape
<1>3. \A k \in Instances : worker[k].job \in 0 .. MaxJobs
  BY DEF TypeInv, Shape, Workers
<1>4. \A k \in Instances : worker'[k].job # 0 => jobs'[worker'[k].job].state = "active"
  BY <1>1, <1>2, <1>3, Numbers DEF TypeInv, WorkersStand
<1>5. QED
  BY <1>1, <1>2, <1>4 DEF TypeInv, WorkersStand

\* A job that a worker lets go: it failed, or it completed.
LetGo(i, j, job) ==
  /\ worker[i].pc \in {"recordFailed", "done"} /\ j = worker[i].job
  /\ JobAfter(j, job) /\ worker' = [worker EXCEPT ![i] = IdleWorker]
  /\ UNCHANGED <<queue, schemaVars, requestVars, page, world>>
  /\ history' \in [JobIds -> SUBSET {"completed", "failed"}]
  /\ job.name = jobs[j].name /\ job.fields = jobs[j].fields /\ job.pc = jobs[j].pc
  /\ job.at = jobs[j].at /\ job.answer = jobs[j].answer /\ job.runs = jobs[j].runs
  /\ job.stalls = jobs[j].stalls
  /\ \/ /\ worker[i].pc = "recordFailed" /\ job.made = jobs[j].made + 1
        /\ job.state = IF job.made = RetryCount THEN "failed" ELSE "delayed"
        /\ \/ meta[j] # None /\ history' = [history EXCEPT ![j] = history[j] \union {"failed"}]
           \/ meta[j] = None /\ history' = history
     \/ /\ worker[i].pc = "done" /\ job.made = jobs[j].made /\ job.state = "completed"
        /\ history' = history

LEMMA LetGoStep ==
  ASSUME TypeInv, NEW i \in Instances, RecordFailed(i) \/ CompleteJob(i)
  PROVE  LetGo(i, worker[i].job, jobs'[worker[i].job])
<1> DEFINE j == worker[i].job
<1>1. worker[i].pc # "idle"
  BY DEF RecordFailed, CompleteJob
<1>2. j \in JobIds /\ jobs[j] \in Submissions /\ jobs \in [JobIds -> Submissions]
      /\ history \in [JobIds -> SUBSET {"completed", "failed"}]
  BY <1>1, Running DEF TypeInv, Shape
<1>3. CASE RecordFailed(i)
  <2> DEFINE made == jobs[j].made + 1
             state == IF made = RetryCount THEN "failed" ELSE "delayed"
             job == [jobs[j] EXCEPT !.made = made, !.state = state]
  <2>1. /\ worker[i].pc = "recordFailed" /\ jobs' = [jobs EXCEPT ![j] = job]
        /\ worker' = [worker EXCEPT ![i] = IdleWorker]
        /\ UNCHANGED <<queue, schemaVars, requestVars, page, world>>
    BY <1>2, <1>3 DEF RecordFailed
  <2>2. \/ meta[j] # None /\ history' = [history EXCEPT ![j] = history[j] \union {"failed"}]
        \/ meta[j] = None /\ history' = history
    BY <1>2, <1>3 DEF RecordFailed, Recorded
  <2>3. history[j] \union {"failed"} \in SUBSET {"completed", "failed"}
    BY <1>2
  <2>4. history' \in [JobIds -> SUBSET {"completed", "failed"}]
    BY <1>2, <2>2, <2>3
  <2>5. /\ job \in Submissions
        /\ job.name = jobs[j].name /\ job.fields = jobs[j].fields /\ job.pc = jobs[j].pc
        /\ job.at = jobs[j].at /\ job.answer = jobs[j].answer /\ job.runs = jobs[j].runs
        /\ job.stalls = jobs[j].stalls /\ job.made = made /\ job.state = state
    <3>1. made \in Nat /\ state \in {"failed", "delayed"}
      BY <1>2 DEF Submissions
    <3> HIDE DEF made, state, j
    <3>2. QED
      BY <1>2, <3>1 DEF Submissions, Pending
  <2> HIDE DEF job, j
  <2>6. jobs'[j] = job /\ JobAfter(j, job)
    BY <1>2, <2>1, <2>5 DEF JobAfter
  <2>7. QED
    BY <2>1, <2>2, <2>4, <2>5, <2>6 DEF LetGo, j
<1>4. CASE CompleteJob(i)
  <2> DEFINE job == [jobs[j] EXCEPT !.state = "completed"]
  <2>1. /\ worker[i].pc = "done" /\ jobs' = [jobs EXCEPT ![j] = job]
        /\ worker' = [worker EXCEPT ![i] = IdleWorker]
        /\ UNCHANGED <<queue, schemaVars, history, requestVars, page, world>>
    BY <1>2, <1>4 DEF CompleteJob
  <2>2. /\ job \in Submissions
        /\ job.name = jobs[j].name /\ job.fields = jobs[j].fields /\ job.pc = jobs[j].pc
        /\ job.at = jobs[j].at /\ job.answer = jobs[j].answer /\ job.runs = jobs[j].runs
        /\ job.stalls = jobs[j].stalls /\ job.made = jobs[j].made /\ job.state = "completed"
    BY <1>2 DEF Submissions
  <2> HIDE DEF job, j
  <2>3. jobs'[j] = job /\ JobAfter(j, job)
    BY <1>2, <2>1, <2>2 DEF JobAfter
  <2>4. QED
    BY <1>2, <2>1, <2>2, <2>3 DEF LetGo, j
<1>5. QED
  BY <1>3, <1>4

LEMMA LetGoTypes ==
  ASSUME TypeInv, Deployed', NEW i \in Instances, NEW j, NEW job, LetGo(i, j, job)
  PROVE  TypeInv'
<1>1. /\ j = worker[i].job /\ j \in JobIds /\ jobs[j] \in Submissions
      /\ jobs[j].state = "active" /\ Stands(j)
  BY Running DEF LetGo, TypeInv, JobsStand
<1>2. /\ jobs' \in [JobIds -> Submissions] /\ jobs'[j] = job
      /\ \A k \in JobIds \ {j} : jobs'[k] = jobs[k]
  BY <1>1, JobMoves DEF LetGo, TypeInv
<1>3. UNCHANGED <<queue, schemaVars, requestVars, page>>
  BY DEF LetGo
<1>4. worker' \in [Instances -> Workers] /\ WorkersStand'
  BY <1>1, <1>2, WorkerLeaves DEF LetGo
<1>5. Shape'
  BY <1>2, <1>3, <1>4 DEF TypeInv, Shape, LetGo, schemaVars, requestVars
<1>6. Stands(j)'
  <2>1. jobs[j].made + 1 <= RetryCount /\ jobs[j].made \in Nat
        /\ jobs[j].pc \in {"commit", "answered"}
    BY <1>1, Running DEF Submissions, LetGo
  <2>2. job.made <= RetryCount /\ (job.state \in Pending => job.made < RetryCount)
        /\ job.state # "none"
    BY <1>1, <2>1, Numbers DEF LetGo, Pending
  <2>3. job.answer # "refused"
    BY <1>1 DEF Stands, LetGo
  <2>4. QED
    BY <1>1, <1>2, <1>3, <2>1, <2>2, <2>3 DEF Stands, LetGo, Pending, requestVars
<1>7. JobsStand'
  BY <1>1, <1>2, <1>3, <1>6, OthersStand DEF TypeInv, requestVars
<1>8. QueueStands'
  BY <1>1, <1>2, <1>3, QueueGoesOn DEF TypeInv
<1>9. PagesStand'
  BY <1>3, PagesGoOn DEF TypeInv
<1>10. QED
  BY <1>4, <1>5, <1>7, <1>8, <1>9 DEF TypeInv

\* A submission after the process that served it died, or ran its job.
Killed(k, i) == IF jobs[k].at = i THEN Answered(jobs[k], "error") ELSE jobs[k]
Again(k) == jobs[k].stalls < MaxStalls
CrashAfter(i) ==
  LET j == worker[i].job IN
  /\ jobs' \in [JobIds -> Submissions]
  /\ \A k \in JobIds :
       LET job == jobs'[k] IN
       /\ jobs[k].at = i => job.pc = "answered" /\ job.answer = "error" /\ job.at = None
       /\ jobs[k].at # i => /\ job.pc = jobs[k].pc /\ job.answer = jobs[k].answer
                            /\ job.at = jobs[k].at /\ job.todo = jobs[k].todo
                            /\ job.count = jobs[k].count /\ job.pending = jobs[k].pending
       /\ job.name = jobs[k].name /\ job.fields = jobs[k].fields
       /\ job.made = jobs[k].made /\ job.runs = jobs[k].runs
       /\ k # j => job.state = jobs[k].state /\ job.stalls = jobs[k].stalls
       /\ k = j => /\ job.stalls = jobs[k].stalls + 1
                   /\ job.state = IF Again(k) THEN "wait" ELSE "failed"
  /\ queue' = IF j # 0 /\ Again(j) THEN Append(queue, j) ELSE queue
  /\ worker' = [worker EXCEPT ![i] = IdleWorker]
  /\ seen' \subseteq seen
  /\ lock' = IF lock \in JobIds /\ jobs[lock].at = i THEN 0 ELSE lock
  /\ UNCHANGED <<schemaVars, history, ready, page>>

LEMMA CrashStep ==
  ASSUME TypeInv, NEW i \in Instances, Crash(i)
  PROVE  CrashAfter(i)
<1> DEFINE j == worker[i].job
           served == {k \in JobIds : jobs[k].at = i}
           stalled == IF j = 0 THEN {} ELSE {j}
           again == {k \in stalled : jobs[k].stalls < MaxStalls}
<1>1. /\ jobs' = [k \in JobIds |->
            LET job == IF k \in served THEN Answered(jobs[k], "error") ELSE jobs[k] IN
            IF k \in stalled
              THEN [job EXCEPT !.stalls = @ + 1, !.state = IF k \in again THEN "wait" ELSE "failed"]
              ELSE job]
      /\ queue' = queue \o SetToSeq(again)
      /\ worker' = [worker EXCEPT ![i] = IdleWorker]
      /\ seen' = seen \ {i}
      /\ lock' = IF lock \in served THEN 0 ELSE lock
      /\ UNCHANGED <<schemaVars, history, ready, page>>
  BY DEF Crash
<1>2. jobs \in [JobIds -> Submissions] /\ queue \in Seq(JobIds) /\ j \in 0 .. MaxJobs
  BY DEF TypeInv, Shape, Workers
<1>3. \A k \in JobIds : k # 0
  BY Numbers
<1> HIDE DEF j
<1>4. ASSUME NEW k \in JobIds
      PROVE  /\ Killed(k, i) \in Submissions
             /\ jobs[k].at = i => /\ Killed(k, i).pc = "answered" /\ Killed(k, i).answer = "error"
                                  /\ Killed(k, i).at = None
             /\ jobs[k].at # i => Killed(k, i) = jobs[k]
             /\ SameJob(Killed(k, i), jobs[k])
  BY <1>2, AnsweredType DEF Killed, SameJob
<1>5. ASSUME NEW k \in JobIds
      PROVE  jobs'[k] = IF k = j
                          THEN [Killed(k, i) EXCEPT !.stalls = jobs[k].stalls + 1,
                                  !.state = IF Again(k) THEN "wait" ELSE "failed"]
                          ELSE Killed(k, i)
  <2>1. k \in stalled <=> k = j
    BY <1>3
  <2>2. k = j => (k \in again <=> Again(k))
    BY <2>1 DEF Again
  <2>3. (IF k \in served THEN Answered(jobs[k], "error") ELSE jobs[k]) = Killed(k, i)
    BY DEF Killed
  <2>4. Killed(k, i).stalls = jobs[k].stalls
    BY <1>4 DEF SameJob
  <2> DEFINE job == IF k \in served THEN Answered(jobs[k], "error") ELSE jobs[k]
  <2>5. jobs'[k] = IF k \in stalled
                     THEN [job EXCEPT !.stalls = @ + 1,
                                      !.state = IF k \in again THEN "wait" ELSE "failed"]
                     ELSE job
    BY <1>1
  <2>6. job = Killed(k, i)
    BY <2>3
  <2> HIDE DEF job, stalled, again, served
  <2>7. QED
    BY <2>1, <2>2, <2>4, <2>5, <2>6
<1>6. ASSUME NEW k \in JobIds
      PROVE  LET job == jobs'[k] IN
             /\ job \in Submissions
             /\ jobs[k].at = i => job.pc = "answered" /\ job.answer = "error" /\ job.at = None
             /\ jobs[k].at # i => /\ job.pc = jobs[k].pc /\ job.answer = jobs[k].answer
                                  /\ job.at = jobs[k].at /\ job.todo = jobs[k].todo
                                  /\ job.count = jobs[k].count /\ job.pending = jobs[k].pending
             /\ job.name = jobs[k].name /\ job.fields = jobs[k].fields
             /\ job.made = jobs[k].made /\ job.runs = jobs[k].runs
             /\ k # j => job.state = jobs[k].state /\ job.stalls = jobs[k].stalls
             /\ k = j => /\ job.stalls = jobs[k].stalls + 1
                         /\ job.state = IF Again(k) THEN "wait" ELSE "failed"
  <2> DEFINE old == Killed(k, i)
             stalls == jobs[k].stalls + 1
             state == IF Again(k) THEN "wait" ELSE "failed"
             new == [old EXCEPT !.stalls = stalls, !.state = state]
  <2>1. stalls \in Nat /\ state \in {"wait", "failed"}
    BY <1>2 DEF Submissions
  <2>2. old \in Submissions
    BY <1>4
  <2>3. jobs'[k] = IF k = j THEN new ELSE old
    BY <1>5
  <2> HIDE DEF stalls, state, old
  <2>4. /\ new \in Submissions /\ new.pc = old.pc /\ new.answer = old.answer /\ new.at = old.at
        /\ new.todo = old.todo /\ new.count = old.count /\ new.pending = old.pending
        /\ new.name = old.name /\ new.fields = old.fields /\ new.made = old.made
        /\ new.runs = old.runs /\ new.stalls = stalls /\ new.state = state
    BY <2>1, <2>2 DEF Submissions, Pending
  <2> HIDE DEF new
  <2>5. /\ jobs[k].at = i => old.pc = "answered" /\ old.answer = "error" /\ old.at = None
        /\ jobs[k].at # i => old = jobs[k]
        /\ SameJob(old, jobs[k])
    BY <1>4 DEF old
  <2>6. CASE k = j
    BY <2>3, <2>4, <2>5, <2>6 DEF SameJob, stalls, state
  <2>7. CASE k # j
    BY <2>2, <2>3, <2>5, <2>7 DEF SameJob
  <2>8. QED
    BY <2>6, <2>7
<1>7. jobs' \in [JobIds -> Submissions]
  <2>1. DOMAIN jobs' = JobIds /\ jobs' = [k \in JobIds |-> jobs'[k]]
    BY <1>1
  <2>2. QED
    BY <1>6, <2>1
<1>8. queue' = IF j # 0 /\ Again(j) THEN Append(queue, j) ELSE queue
  <2>1. CASE j # 0 /\ Again(j)
    <3>1. again = {j}
      BY <2>1 DEF Again
    <3>2. SetToSeq(again) = <<j>>
      BY <3>1, QueuedAgain
    <3>3. queue' = queue \o <<j>>
      BY <1>1, <3>2
    <3>4. j \in JobIds
      BY <1>2, <2>1, Numbers
    <3>5. QED
      BY <1>2, <2>1, <3>3, <3>4
  <2>2. CASE ~(j # 0 /\ Again(j))
    <3>1. again = {}
      BY <2>2 DEF Again
    <3>2. queue' = queue \o <<>>
      BY <1>1, <3>1, QueuedAgain
    <3>3. QED
      BY <1>2, <2>2, <3>2
  <2>3. QED
    BY <2>1, <2>2
<1>9. lock' = IF lock \in JobIds /\ jobs[lock].at = i THEN 0 ELSE lock
  BY <1>1
<1>10. QED
  BY <1>1, <1>6, <1>7, <1>8, <1>9 DEF CrashAfter, j

LEMMA CrashTypes ==
  ASSUME TypeInv, Deployed', NEW i \in Instances, Crash(i)
  PROVE  TypeInv'
<1> DEFINE j == worker[i].job
<1>1. CrashAfter(i)
  BY CrashStep
<1>2. /\ jobs \in [JobIds -> Submissions] /\ jobs' \in [JobIds -> Submissions]
      /\ queue \in Seq(JobIds) /\ i # None /\ worker[i].job \in 0 .. MaxJobs
      /\ \A k \in JobIds : k # 0
  BY <1>1, Numbers DEF TypeInv, Shape, CrashAfter, Workers
<1>3. j # 0 => /\ j \in JobIds /\ jobs[j].state = "active" /\ jobs[j].made < RetryCount
               /\ jobs[j].stalls <= MaxStalls /\ jobs[j].pc \in {"commit", "answered"}
  <2>1. j # 0 => worker[i].pc # "idle"
    BY DEF TypeInv, WorkersStand
  <2>2. \A k \in JobIds : jobs[k].state = "active" => jobs[k].made < RetryCount
    BY DEF TypeInv, JobsStand, Stands, Pending
  <2>3. QED
    BY <2>1, <2>2, Running
<1>4. JobsStand'
  <2> SUFFICES ASSUME NEW k \in JobIds PROVE Stands(k)'
    BY DEF JobsStand
  <2> DEFINE job == jobs'[k]
             old == jobs[k]
  <2>1. /\ old.at = i => job.pc = "answered" /\ job.answer = "error" /\ job.at = None
        /\ old.at # i => job.pc = old.pc /\ job.answer = old.answer /\ job.at = old.at
        /\ job.name = old.name /\ job.made = old.made /\ job.runs = old.runs
        /\ k # j => job.state = old.state /\ job.stalls = old.stalls
        /\ k = j => /\ job.stalls = old.stalls + 1
                    /\ job.state = IF Again(k) THEN "wait" ELSE "failed"
    BY <1>1 DEF CrashAfter
  <2>2. Stands(k) /\ old \in Submissions /\ job \in Submissions
    BY <1>2 DEF TypeInv, JobsStand
  <2>3. job.pc \in {"read", "commit"} => lock' = k
    <3>1. job.pc \in {"read", "commit"} => old.at # i /\ lock = k
      BY <2>1, <2>2 DEF Stands
    <3>2. QED
      BY <1>1, <3>1 DEF CrashAfter
  <2>4. /\ job.pc # "none" => job.name \in Names
        /\ job.at # None <=> job.pc \in Served
        /\ job.answer # "none" => job.pc = "answered"
    BY <1>2, <2>1, <2>2 DEF Stands, Served
  <2>5. CASE k = j
    <3>1. /\ old.state = "active" /\ old.made < RetryCount /\ old.stalls <= MaxStalls
          /\ old.pc \in {"commit", "answered"} /\ old.stalls \in Nat
      BY <1>2, <1>3, <2>2, <2>5 DEF Submissions
    <3>2. job.pc \in {"commit", "answered"} /\ job.answer # "refused"
          /\ job.state \in {"wait", "failed"}
      BY <2>1, <2>2, <2>5, <3>1 DEF Stands
    <3>3. job.made < RetryCount /\ job.stalls <= MaxStalls + 1
          /\ (job.state = "wait" => job.stalls <= MaxStalls)
      BY <2>1, <2>5, <3>1, Numbers DEF Again
    <3>4. job.made <= RetryCount
      BY <2>2, <3>3, Numbers DEF Submissions
    <3>5. QED
      BY <2>3, <2>4, <3>2, <3>3, <3>4 DEF Stands, Pending
  <2>6. CASE k # j
    <3>1. job.state = old.state /\ job.stalls = old.stalls /\ job.made = old.made
          /\ job.runs = old.runs
      BY <2>1, <2>6
    <3>2. /\ job.pc \in {"none", "bootstrap", "create", "lock", "read"} => job.state = "none"
          /\ job.answer = "refused" => job.state = "none"
      BY <2>1, <2>2, <3>1 DEF Stands
    <3>3. QED
      BY <2>2, <2>3, <2>4, <3>1, <3>2 DEF Stands
  <2>7. QED
    BY <2>5, <2>6
<1>5. worker' \in [Instances -> Workers] /\ WorkersStand'
  <2>1. \A k \in JobIds \ {j} : jobs'[k].state = jobs[k].state
    BY <1>1 DEF CrashAfter
  <2>2. worker' = [worker EXCEPT ![i] = IdleWorker]
    BY <1>1 DEF CrashAfter
  <2>3. QED
    BY <2>1, <2>2, WorkerLeaves
<1>6. queue' \in Seq(JobIds) /\ QueueStands'
  <2>1. CASE j # 0 /\ Again(j)
    <3>1. queue' = Append(queue, j) /\ jobs'[j].state = "wait" /\ jobs[j].state # "wait"
      BY <1>1, <1>3, <2>1 DEF CrashAfter
    <3>2. \A k \in JobIds \ {j} : jobs'[k].state = jobs[k].state
      BY <1>1 DEF CrashAfter
    <3>3. QED
      BY <1>3, <2>1, <3>1, <3>2, Enqueued DEF TypeInv
  <2>2. CASE ~(j # 0 /\ Again(j))
    <3>1. queue' = queue
      BY <1>1, <2>2 DEF CrashAfter
    <3>2. \A k \in JobIds : jobs[k].state = "wait" => jobs'[k].state = "wait"
      BY <1>1, <1>3, <1>2 DEF CrashAfter
    <3>3. QED
      BY <1>2, <3>1, <3>2, QueueGoesOn DEF TypeInv
  <2>3. QED
    BY <2>1, <2>2
<1>7. Shape'
  <2>1. lock' \in 0 .. MaxJobs /\ seen' \subseteq Instances
    BY <1>1, Numbers DEF CrashAfter, TypeInv, Shape
  <2>2. QED
    BY <1>1, <1>2, <1>5, <1>6, <2>1 DEF CrashAfter, TypeInv, Shape, schemaVars
<1>8. PagesStand'
  BY <1>1, PagesGoOn DEF CrashAfter, TypeInv
<1>9. QED
  BY <1>4, <1>5, <1>6, <1>7, <1>8 DEF TypeInv

\* A field goes from a table and from its metadata.
LEMMA RemoveFieldStep ==
  ASSUME TypeInv, NamesStand, NEW j \in JobIds, NEW f \in Fields, RemoveField(j, f)
  PROVE  /\ meta[j] \in SUBSET Fields /\ meta[j] # None /\ jobs[j].name \in Names
         /\ tables[jobs[j].name] \in SUBSET Fields
         /\ meta' = [meta EXCEPT ![j] = meta[j] \ {f}]
         /\ tables' = [tables EXCEPT ![jobs[j].name] = tables[jobs[j].name] \ {f}]
         /\ UNCHANGED <<jobs, queue, created, history, requestVars, worker, page>>
<1>1. meta[j] # None /\ meta \in [JobIds -> (SUBSET Fields) \union {None}]
      /\ tables \in [Names -> (SUBSET Fields) \union {None}] /\ jobs[j] \in Submissions
  BY DEF RemoveField, TypeInv, Shape
<1>2. j \in Described
  BY <1>1 DEF Described
<1>3. jobs[j].name \in Names
  <2>1. jobs[j].runs > 0
    BY <1>2 DEF NamesStand
  <2>2. jobs[j].state # "none"
    BY <2>1 DEF TypeInv, JobsStand, Stands
  <2>3. QED
    BY <2>2 DEF TypeInv, JobsStand, Stands
<1>4. tables[jobs[j].name] # None
  BY <1>2 DEF NamesStand
<1>5. meta[j] \in SUBSET Fields /\ tables[jobs[j].name] \in SUBSET Fields
  BY <1>1, <1>3, <1>4
<1>6. /\ meta' = [meta EXCEPT ![j] = meta[j] \ {f}]
      /\ tables' = [tables EXCEPT ![jobs[j].name] = tables[jobs[j].name] \ {f}]
  BY <1>1, <1>3 DEF RemoveField
<1>7. QED
  BY <1>1, <1>3, <1>5, <1>6 DEF RemoveField

LEMMA RemoveFieldTypes ==
  ASSUME TypeInv, Deployed', NamesStand, NEW j \in JobIds, NEW f \in Fields, RemoveField(j, f)
  PROVE  TypeInv'
<1>1. /\ meta[j] \in SUBSET Fields /\ jobs[j].name \in Names
      /\ tables[jobs[j].name] \in SUBSET Fields
      /\ meta' = [meta EXCEPT ![j] = meta[j] \ {f}]
      /\ tables' = [tables EXCEPT ![jobs[j].name] = tables[jobs[j].name] \ {f}]
      /\ UNCHANGED <<jobs, queue, created, history, requestVars, worker, page>>
  BY RemoveFieldStep
<1>2. meta[j] \ {f} \in SUBSET Fields /\ tables[jobs[j].name] \ {f} \in SUBSET Fields
  BY <1>1
<1>3. /\ meta' \in [JobIds -> (SUBSET Fields) \union {None}]
      /\ tables' \in [Names -> (SUBSET Fields) \union {None}]
  BY <1>1, <1>2 DEF TypeInv, Shape
<1>4. Shape'
  BY <1>1, <1>3 DEF TypeInv, Shape, requestVars
<1>5. QED
  BY <1>1, <1>4 DEF TypeInv, JobsStand, Stands, QueueStands, WorkersStand, PagesStand, requestVars

-----------------------------------------------------------------------------
(* Every step                                                                *)

\* The steps, by what they do.
LEMMA Steps ==
  ASSUME TypeInv, Next
  PROVE  \/ \E p \in Pages : PageOnly(p) \/ Submit(p)
         \/ \E j \in JobIds : Serving(j) \/ Waits(j)
         \/ \E i \in Instances : HasTable(i) \/ CreateTable(i) \/ RollBack(i) \/ LoseRecord(i)
                                 \/ RecordMigration(i) \/ TakeJob(i) \/ RecordFailed(i)
                                 \/ CompleteJob(i) \/ Crash(i)
         \/ \E j \in JobIds, f \in Fields : RemoveField(j, f)
<1>1. world.instances \subseteq Instances /\ world.pages \subseteq Pages
  BY DEF TypeInv, Shape, Deployed
<1>2. ASSUME NEW p \in Pages, UserStep(p) \/ PageStep(p) \/ LoseAnswer(p)
                               \/ \E n \in 1 .. MaxJobs : TurnPage(p, n)
      PROVE  PageOnly(p) \/ Submit(p)
  BY <1>2 DEF UserStep, PageStep, PageOnly
<1>3. ASSUME NEW j \in JobIds, RequestStep(j) \/ PromoteJob(j)
      PROVE  Serving(j) \/ Waits(j)
  BY <1>3 DEF RequestStep, Serving, Waits
<1>4. ASSUME NEW i \in Instances, WorkerStep(i) \/ Crash(i)
      PROVE  HasTable(i) \/ CreateTable(i) \/ RollBack(i) \/ LoseRecord(i)
             \/ RecordMigration(i) \/ TakeJob(i) \/ RecordFailed(i) \/ CompleteJob(i) \/ Crash(i)
  BY <1>4 DEF WorkerStep
<1>5. QED
  BY <1>1, <1>2, <1>3, <1>4 DEF Next

LEMMA TypeStutter ==
  ASSUME TypeInv, UNCHANGED vars
  PROVE  TypeInv'
<1>1. Shape'
  BY DEF TypeInv, Shape, Deployed, vars, schemaVars, requestVars
<1>2. QED
  BY <1>1 DEF TypeInv, JobsStand, Stands, QueueStands, WorkersStand, PagesStand,
              vars, schemaVars, requestVars

LEMMA TypeStep ==
  ASSUME TypeInv, NamesStand, [Next]_vars
  PROVE  TypeInv'
<1>1. Deployed'
  BY WorldStep DEF TypeInv, Shape
<1>2. CASE UNCHANGED vars
  BY <1>2, TypeStutter
<1>3. ASSUME NEW p \in Pages, PageOnly(p) \/ Submit(p) PROVE TypeInv'
  BY <1>1, <1>3, PageOnlyTypes, SubmitTypes
<1>4. ASSUME NEW j \in JobIds, Serving(j) \/ Waits(j) PROVE TypeInv'
  BY <1>1, <1>4, ServingTypes, WaitsTypes
<1>5. ASSUME NEW i \in Instances, NEW w, RunAfter(i, w),
             \/ UNCHANGED <<schemaVars, history>>
             \/ /\ UNCHANGED schemaVars
                /\ history' \in [JobIds -> SUBSET {"completed", "failed"}]
      PROVE  TypeInv'
  BY <1>1, <1>5, RunTypes DEF TypeInv, Shape, schemaVars
<1>6. ASSUME NEW i \in Instances, HasTable(i) \/ RollBack(i) \/ LoseRecord(i) \/ RecordMigration(i)
      PROVE  TypeInv'
  BY <1>5, <1>6, HasTableStep, RollBackStep, RecordMigrationStep
<1>7. ASSUME NEW i \in Instances, CreateTable(i) PROVE TypeInv'
  <2>1. history' \in [JobIds -> SUBSET {"completed", "failed"}]
    BY <1>7, CreateTableStep DEF TypeInv, Shape
  <2>2. QED
    BY <1>1, <1>7, <2>1, CreateTableStep, RunTypes
<1>8. ASSUME NEW i \in Instances, TakeJob(i) \/ RecordFailed(i) \/ CompleteJob(i) \/ Crash(i)
      PROVE  TypeInv'
  BY <1>1, <1>8, TakeJobStep, TakenTypes, LetGoStep, LetGoTypes, CrashTypes
<1>9. ASSUME NEW j \in JobIds, NEW f \in Fields, RemoveField(j, f) PROVE TypeInv'
  BY <1>1, <1>9, RemoveFieldTypes
<1>10. QED
  BY <1>2, <1>3, <1>4, <1>6, <1>7, <1>8, <1>9, Steps

-----------------------------------------------------------------------------
(* The tables and their metadata                                             *)

\* Only what ran is described, and what ran has a name.
LEMMA DescribedRan ==
  ASSUME TypeInv, NamesStand, NEW j \in Described
  PROVE  /\ j \in JobIds /\ jobs[j].runs > 0 /\ jobs[j].state # "none" /\ jobs[j].pc # "none"
         /\ jobs[j].name \in Names
<1>1. j \in JobIds /\ jobs[j].runs > 0
  BY DEF Described, NamesStand
<1>2. Stands(j)
  BY <1>1 DEF TypeInv, JobsStand
<1>3. QED
  BY <1>1, <1>2 DEF Stands

\* The schema stays as it is, jobs keep their names and their runs, and every
\* worker goes on or goes idle.
LEMMA SchemaGoesOn ==
  ASSUME TypeInv, TypeInv', SchemaInv, UNCHANGED schemaVars,
         \A k \in JobIds : history[k] \subseteq history'[k],
         \A k \in JobIds : /\ jobs'[k].runs = jobs[k].runs
                           /\ jobs[k].pc # "none" => jobs'[k].name = jobs[k].name,
         \A i \in Instances : worker'[i] = worker[i] \/ worker'[i] = IdleWorker \/ Knows(i)'
  PROVE  SchemaInv'
<1>1. Described' = Described /\ RowsStand'
  BY DEF Described, RowsStand, SchemaInv, schemaVars
<1>2. \A k \in Described : k \in JobIds /\ jobs'[k].runs = jobs[k].runs
                           /\ jobs'[k].name = jobs[k].name
  BY DescribedRan DEF SchemaInv
<1>3. NamesStand'
  BY <1>1, <1>2 DEF NamesStand, SchemaInv, schemaVars
<1>4. ASSUME NEW i \in Instances PROVE Knows(i)'
  <2>1. CASE worker'[i] = worker[i] /\ worker[i].pc # "idle"
    <3> DEFINE j == worker[i].job
    <3>1. j \in JobIds /\ jobs[j].pc # "none"
      BY <2>1, Running
    <3>2. jobs'[j].runs = jobs[j].runs /\ jobs'[j].name = jobs[j].name
          /\ history[j] \subseteq history'[j]
      BY <3>1
    <3>3. QED
      BY <1>1, <2>1, <3>2 DEF Knows, SchemaInv, WorkersKnow, schemaVars
  <2>2. CASE worker'[i].pc = "idle"
    <3>1. worker'[i].job = 0
      BY <2>2 DEF TypeInv, WorkersStand
    <3>2. QED
      BY <2>2, <3>1 DEF Knows
  <2>3. CASE Knows(i)'
    BY <2>3
  <2>4. QED
    BY <2>1, <2>2, <2>3 DEF IdleWorker
<1>5. QED
  BY <1>1, <1>3, <1>4 DEF SchemaInv, WorkersKnow

LEMMA SchemaOfPages ==
  ASSUME TypeInv, TypeInv', SchemaInv, NEW p \in Pages, PageOnly(p) \/ Submit(p)
  PROVE  SchemaInv'
<1>1. CASE PageOnly(p)
  <2>1. UNCHANGED serverVars
    BY <1>1, PageOnlyStep DEF PageAfter
  <2>2. QED
    BY <2>1, SchemaGoesOn DEF serverVars
<1>2. CASE Submit(p)
  <2>1. PICK j \in Unused, request \in world.requests, i \in world.instances :
          jobs' = [jobs EXCEPT ![j].name = request[1], ![j].fields = request[2],
                               ![j].pc = "bootstrap", ![j].at = i]
    BY <1>2 DEF Submit
  <2>2. UNCHANGED <<queue, schemaVars, history, requestVars, worker>>
    BY <1>2 DEF Submit
  <2>3. j \in JobIds /\ jobs[j].pc = "none" /\ jobs \in [JobIds -> Submissions]
    BY DEF Unused, TypeInv, Shape
  <2>4. \A k \in JobIds : /\ jobs'[k].runs = jobs[k].runs
                          /\ jobs[k].pc # "none" => jobs'[k].name = jobs[k].name
    BY <2>1, <2>3 DEF Submissions
  <2>5. QED
    BY <2>2, <2>4, SchemaGoesOn
<1>3. QED
  BY <1>1, <1>2

LEMMA SchemaOfRequests ==
  ASSUME TypeInv, TypeInv', SchemaInv, NEW j \in JobIds, Serving(j) \/ Waits(j)
  PROVE  SchemaInv'
<1> DEFINE job == jobs'[j]
<1>1. /\ JobAfter(j, job) /\ job.runs = jobs[j].runs /\ job.name = jobs[j].name
      /\ UNCHANGED <<schemaVars, history, worker>>
  BY ServingStep, WaitsStep DEF ServingAfter, WaitsAfter, SameJob
<1>2. \A k \in JobIds \ {j} : jobs'[k] = jobs[k]
  BY <1>1, JobMoves DEF TypeInv
<1>3. \A k \in JobIds : jobs'[k].runs = jobs[k].runs /\ jobs'[k].name = jobs[k].name
  BY <1>1, <1>2
<1>4. QED
  BY <1>1, <1>3, SchemaGoesOn

\* A worker that goes on with its job and leaves the schema alone.
LEMMA SchemaOfRuns ==
  ASSUME TypeInv, TypeInv', SchemaInv, NEW i \in Instances,
         HasTable(i) \/ RollBack(i) \/ LoseRecord(i) \/ RecordMigration(i)
  PROVE  SchemaInv'
<1> DEFINE j == worker[i].job
<1>1. RunAfter(i, worker'[i]) /\ UNCHANGED schemaVars
  BY HasTableStep, RollBackStep, RecordMigrationStep
<1>2. /\ UNCHANGED jobs /\ worker'[i].job = j /\ worker[i].pc # "idle"
      /\ \A k \in Instances \ {i} : worker'[k] = worker[k]
  BY <1>1 DEF RunAfter, TypeInv, Shape
<1>3. j \in JobIds /\ Knows(i) /\ Described' = Described
      /\ history \in [JobIds -> SUBSET {"completed", "failed"}]
  BY <1>1, <1>2, Running DEF SchemaInv, WorkersKnow, Described, schemaVars, TypeInv, Shape
<1>4. Knows(i)' /\ \A k \in JobIds : history[k] \subseteq history'[k]
  <2>1. CASE HasTable(i)
    BY <1>1, <1>2, <1>3, <2>1, HasTableStep DEF Knows, schemaVars
  <2>2. CASE RollBack(i) \/ LoseRecord(i)
    BY <1>1, <1>2, <1>3, <2>2, RollBackStep DEF Knows, schemaVars
  <2>3. CASE RecordMigration(i)
    <3>1. /\ worker[i].pc = "record" /\ worker'[i].pc = "done"
          /\ history' = [history EXCEPT ![j] = history[j] \union {"completed"}]
      BY <2>3, RecordMigrationStep
    <3>2. "completed" \in history'[j] /\ \A k \in JobIds : history[k] \subseteq history'[k]
      BY <1>3, <3>1
    <3>3. QED
      BY <1>1, <1>2, <1>3, <3>1, <3>2 DEF Knows, schemaVars
  <2>4. QED
    BY <2>1, <2>2, <2>3
<1>5. QED
  BY <1>1, <1>2, <1>4, SchemaGoesOn

LEMMA SchemaOfLetGo ==
  ASSUME TypeInv, TypeInv', SchemaInv, NEW i \in Instances, RecordFailed(i) \/ CompleteJob(i)
  PROVE  SchemaInv'
<1> DEFINE j == worker[i].job
           job == jobs'[j]
<1>1. LetGo(i, j, job) /\ j \in JobIds
  BY LetGoStep, Running DEF LetGo
<1>2. /\ JobAfter(j, job) /\ job.runs = jobs[j].runs /\ job.name = jobs[j].name
      /\ UNCHANGED schemaVars /\ worker' = [worker EXCEPT ![i] = IdleWorker]
  BY <1>1 DEF LetGo
<1>3. \A k \in JobIds \ {j} : jobs'[k] = jobs[k]
  BY <1>1, <1>2, JobMoves DEF TypeInv
<1>4. \A k \in JobIds : jobs'[k].runs = jobs[k].runs /\ jobs'[k].name = jobs[k].name
  BY <1>2, <1>3
<1>5. \A k \in JobIds : history[k] \subseteq history'[k]
  BY <1>1 DEF LetGo, TypeInv, Shape
<1>6. \A k \in Instances : worker'[k] = worker[k] \/ worker'[k] = IdleWorker
  BY <1>2 DEF TypeInv, Shape
<1>7. QED
  BY <1>2, <1>4, <1>5, <1>6, SchemaGoesOn

LEMMA SchemaOfCrash ==
  ASSUME TypeInv, TypeInv', SchemaInv, NEW i \in Instances, Crash(i)
  PROVE  SchemaInv'
<1>1. CrashAfter(i)
  BY CrashStep
<1>2. /\ UNCHANGED <<schemaVars, history>> /\ worker' = [worker EXCEPT ![i] = IdleWorker]
      /\ \A k \in JobIds : jobs'[k].runs = jobs[k].runs /\ jobs'[k].name = jobs[k].name
  BY <1>1 DEF CrashAfter
<1>3. \A k \in Instances : worker'[k] = worker[k] \/ worker'[k] = IdleWorker
  BY <1>2 DEF TypeInv, Shape
<1>4. QED
  BY <1>2, <1>3, SchemaGoesOn

LEMMA SchemaOfTaking ==
  ASSUME TypeInv, TypeInv', SchemaInv, NEW i \in Instances, TakeJob(i)
  PROVE  SchemaInv'
<1> DEFINE j == queue[1]
           job == jobs'[j]
<1>1. TakenAfter(i, j, job)
  BY TakeJobStep
<1>2. j \in JobIds /\ jobs[j] \in Submissions /\ j # 0 /\ jobs[j].state = "wait"
  BY <1>1, Numbers DEF TakenAfter, TypeInv, Shape
<1>3. /\ jobs'[j] = job /\ \A k \in JobIds \ {j} : jobs'[k] = jobs[k]
      /\ UNCHANGED <<schemaVars, history>>
  BY <1>1, <1>2, JobMoves DEF TakenAfter, TypeInv
<1>4. /\ job.runs = jobs[j].runs + 1 /\ job.name = jobs[j].name /\ jobs[j].runs \in Nat
  <2>1. job = [jobs[j] EXCEPT !.state = "active", !.runs = jobs[j].runs + 1]
    BY <1>1 DEF TakenAfter
  <2> HIDE DEF j, job
  <2>2. QED
    BY <1>2, <2>1 DEF Submissions
<1>5. PICK w \in Workers : w.pc = "look" /\ w.job = j /\ worker' = [worker EXCEPT ![i] = w]
  BY <1>1 DEF TakenAfter
<1>6. worker'[i] = w /\ \A k \in Instances \ {i} : worker'[k] = worker[k]
  BY <1>5 DEF TypeInv, Shape
<1>7. Described' = Described /\ RowsStand'
  BY <1>3 DEF Described, RowsStand, SchemaInv, schemaVars
<1> HIDE DEF j, job
<1>8. \A k \in Described : k \in JobIds /\ jobs'[k].name = jobs[k].name /\ jobs'[k].runs > 0
                           /\ (jobs'[k].runs = 1 => jobs[k].runs = 1)
  <2> SUFFICES ASSUME NEW k \in Described
               PROVE  k \in JobIds /\ jobs'[k].name = jobs[k].name /\ jobs'[k].runs > 0
                      /\ (jobs'[k].runs = 1 => jobs[k].runs = 1)
    OBVIOUS
  <2>1. k \in JobIds /\ jobs[k].runs > 0
    BY DescribedRan DEF SchemaInv
  <2>2. QED
    BY <1>3, <1>4, <2>1
<1>9. NamesStand'
  BY <1>3, <1>7, <1>8 DEF NamesStand, SchemaInv, schemaVars
<1>10. ASSUME NEW k \in Instances PROVE Knows(k)'
  <2>1. CASE k = i
    <3>1. job.runs = 1 => j \notin Described
      BY <1>4 DEF SchemaInv, NamesStand
    <3>2. QED
      BY <1>3, <1>4, <1>5, <1>6, <1>7, <2>1, <3>1 DEF Knows
  <2>2. CASE k # i /\ worker[k].pc = "idle"
    <3>1. worker'[k] = worker[k] /\ worker[k].job = 0
      BY <1>6, <2>2 DEF TypeInv, WorkersStand
    <3>2. QED
      BY <2>2, <3>1 DEF Knows
  <2>3. CASE k # i /\ worker[k].pc # "idle"
    <3>1. worker'[k] = worker[k] /\ worker[k].job \in JobIds /\ jobs[worker[k].job].state = "active"
      BY <1>6, <2>3, Running
    <3>2. jobs'[worker[k].job] = jobs[worker[k].job]
      BY <1>2, <1>3, <3>1
    <3>3. Knows(k)
      BY DEF SchemaInv, WorkersKnow
    <3>4. QED
      BY <1>3, <1>7, <3>1, <3>2, <3>3 DEF Knows, schemaVars
  <2>4. QED
    BY <2>1, <2>2, <2>3
<1>11. QED
  BY <1>7, <1>9, <1>10 DEF SchemaInv, WorkersKnow

\* A table is created, or found and described.
LEMMA CreateTableAfter ==
  ASSUME TypeInv, SchemaInv, NEW i \in Instances, CreateTable(i)
  PROVE  LET j == worker[i].job
             n == jobs[j].name IN
         /\ j \in JobIds /\ n \in Names /\ jobs[j].fields \in SUBSET Fields /\ jobs[j].runs > 0
         /\ Described' = Described \union {j}
         /\ \A k \in Described \ {j} : jobs[k].name # n
         /\ meta' = [meta EXCEPT ![j] = IF meta[j] = None THEN jobs[j].fields
                                                          ELSE meta[j] \union jobs[j].fields]
         /\ created' = IF j \in Described THEN created ELSE Append(created, j)
         /\ IF j \in Described
              THEN tables' = tables /\ jobs[j].runs # 1
              ELSE tables[n] = None /\ tables' = [tables EXCEPT ![n] = jobs[j].fields]
<1> DEFINE j == worker[i].job
           n == jobs[j].name
<1>1. worker[i].pc = "apply" /\ ~CreateErrs(i)
  BY DEF CreateTable
<1>2. j \in JobIds /\ n \in Names /\ jobs[j].fields \in SUBSET Fields
  BY <1>1, Running
<1>3. /\ jobs[j].runs > 0 /\ (jobs[j].runs = 1 => j \notin Described)
      /\ worker[i].exists => tables[n] # None
  BY <1>1, <1>2, Numbers DEF SchemaInv, WorkersKnow, Knows
<1>4. meta \in [JobIds -> (SUBSET Fields) \union {None}]
      /\ tables \in [Names -> (SUBSET Fields) \union {None}]
  BY DEF TypeInv, Shape
<1>5. \A k \in Described \ {j} : jobs[k].name # n
  BY <1>1 DEF CreateErrs, SlugTaken, Described
<1>6. /\ meta' = [meta EXCEPT ![j] = IF meta[j] = None THEN jobs[j].fields
                                                       ELSE meta[j] \union jobs[j].fields]
      /\ created' = IF meta[j] = None THEN Append(created, j) ELSE created
      /\ tables' = IF worker[i].exists THEN tables ELSE [tables EXCEPT ![n] = jobs[j].fields]
  BY <1>4 DEF CreateTable
<1>7. j \in Described <=> meta[j] # None
  BY <1>2 DEF Described
<1> DEFINE fields == jobs[j].fields
<1>8. Described' = Described \union {j}
  <2>1. meta'[j] # None
    <3>1. meta'[j] = IF meta[j] = None THEN fields ELSE meta[j] \union fields
      BY <1>2, <1>4, <1>6
    <3>2. meta[j] = None \/ meta[j] \in SUBSET Fields
      BY <1>2, <1>4
    <3>3. meta'[j] \in SUBSET Fields
      BY <1>2, <3>1, <3>2
    <3>4. QED
      BY <3>3, Numbers
  <2>2. \A k \in JobIds \ {j} : meta'[k] = meta[k]
    BY <1>4, <1>6
  <2>3. QED
    BY <1>2, <2>1, <2>2 DEF Described
<1>9. CASE j \in Described
  <2>1. tables[n] # None
    BY <1>9 DEF SchemaInv, NamesStand
  <2>2. worker[i].exists
    BY <1>1, <2>1 DEF CreateErrs
  <2>3. QED
    BY <1>2, <1>3, <1>5, <1>6, <1>7, <1>8, <1>9, <2>2
<1>10. CASE j \notin Described
  <2>1. tables[n] = None
    <3> SUFFICES ASSUME tables[n] # None PROVE FALSE
      OBVIOUS
    <3>1. PICK k \in Described : jobs[k].name = n
      BY <1>2 DEF SchemaInv, NamesStand
    <3>2. QED
      BY <1>5, <1>10, <3>1
  <2>2. ~worker[i].exists
    BY <1>3, <2>1
  <2>3. QED
    BY <1>2, <1>3, <1>5, <1>6, <1>7, <1>8, <1>10, <2>1, <2>2
<1>11. QED
  BY <1>9, <1>10

LEMMA SchemaOfCreation ==
  ASSUME TypeInv, TypeInv', SchemaInv, NEW i \in Instances, CreateTable(i)
  PROVE  SchemaInv'
<1> DEFINE j == worker[i].job
           n == jobs[j].name
           fields == jobs[j].fields
<1>1. /\ j \in JobIds /\ n \in Names /\ fields \in SUBSET Fields /\ jobs[j].runs > 0
      /\ Described' = Described \union {j}
      /\ \A k \in Described \ {j} : jobs[k].name # n
      /\ meta' = [meta EXCEPT ![j] = IF meta[j] = None THEN fields ELSE meta[j] \union fields]
      /\ created' = IF j \in Described THEN created ELSE Append(created, j)
      /\ IF j \in Described
           THEN tables' = tables /\ jobs[j].runs # 1
           ELSE tables[n] = None /\ tables' = [tables EXCEPT ![n] = fields]
  BY CreateTableAfter
<1>2. /\ RunAfter(i, worker'[i]) /\ worker[i].pc = "apply" /\ worker'[i].pc = "record"
      /\ UNCHANGED history
  BY CreateTableStep
<1>3. /\ UNCHANGED jobs /\ worker'[i].job = j
      /\ \A k \in Instances \ {i} : worker'[k] = worker[k]
  BY <1>2 DEF RunAfter, TypeInv, Shape
<1>4. /\ meta \in [JobIds -> (SUBSET Fields) \union {None}]
      /\ tables \in [Names -> (SUBSET Fields) \union {None}] /\ created \in Seq(JobIds)
      /\ \A k \in Described : k \in JobIds /\ jobs[k].name \in Names /\ meta[k] # None
  BY DescribedRan DEF TypeInv, Shape, SchemaInv, Described
<1>5. /\ meta'[j] = IF meta[j] = None THEN fields ELSE meta[j] \union fields
      /\ \A k \in JobIds \ {j} : meta'[k] = meta[k]
  BY <1>1, <1>4
<1> HIDE DEF j, n, fields
<1>6. \A m \in Names : tables[m] # None => tables'[m] = tables[m]
  BY <1>1, <1>4
<1>7. tables'[n] # None /\ tables'[n] \subseteq meta'[j]
      /\ (jobs[j].runs = 1 => meta'[j] = tables'[n])
  <2>1. CASE j \in Described
    <3>1. tables[n] # None /\ tables[n] \subseteq meta[j] /\ meta[j] # None
      BY <1>4, <2>1 DEF SchemaInv, NamesStand, n
    <3>2. QED
      BY <1>1, <1>5, <2>1, <3>1
  <2>2. CASE j \notin Described
    <3>1. meta[j] = None
      BY <1>1, <2>2 DEF Described
    <3>2. tables'[n] = fields /\ meta'[j] = fields
      BY <1>1, <1>4, <1>5, <2>2, <3>1
    <3>3. QED
      BY <1>1, <3>2, Numbers
  <2>3. QED
    BY <2>1, <2>2
<1>8. RowsStand'
  <2>1. CASE j \in Described
    BY <1>1, <2>1 DEF RowsStand, SchemaInv
  <2>2. CASE j \notin Described
    <3>1. created' = Append(created, j) /\ Len(created) \in Nat
      BY <1>1, <1>4, <2>2
    <3>2. /\ Len(created') = Len(created) + 1 /\ created'[Len(created) + 1] = j
          /\ \A m \in 1 .. Len(created) : created'[m] = created[m] /\ created[m] \in Described
      BY <1>1, <1>4, <3>1 DEF RowsStand, SchemaInv
    <3>3. \A m \in 1 .. Len(created') : m \in 1 .. Len(created) \/ m = Len(created) + 1
      BY <3>1, <3>2
    <3>4. 1 .. Len(created) \subseteq 1 .. Len(created') /\ Len(created) + 1 \in 1 .. Len(created')
      BY <3>1, <3>2
    <3>5. \A m \in 1 .. Len(created') : created'[m] \in Described'
      BY <1>1, <3>2, <3>3
    <3>6. \A k \in Described' : \E m \in 1 .. Len(created') : created'[m] = k
      <4> SUFFICES ASSUME NEW k \in Described'
                   PROVE  \E m \in 1 .. Len(created') : created'[m] = k
        OBVIOUS
      <4>1. CASE k = j
        BY <3>2, <3>4, <4>1
      <4>2. CASE k # j
        <5>1. PICK m \in 1 .. Len(created) : created[m] = k
          BY <1>1, <4>2 DEF RowsStand, SchemaInv
        <5>2. QED
          BY <3>2, <3>4, <5>1
      <4>3. QED
        BY <4>1, <4>2
    <3>7. \A l, m \in 1 .. Len(created') : created'[l] = created'[m] => l = m
      BY <2>2, <3>2, <3>3 DEF RowsStand, SchemaInv
    <3>8. QED
      BY <3>5, <3>6, <3>7 DEF RowsStand
  <2>3. QED
    BY <2>1, <2>2
<1>9. NamesStand'
  <2>1. \A k, l \in Described' : jobs'[k].name = jobs'[l].name => k = l
    BY <1>1, <1>3 DEF NamesStand, SchemaInv, n
  <2>2. \A m \in Names : tables'[m] # None => \E k \in Described' : jobs'[k].name = m
    <3> SUFFICES ASSUME NEW m \in Names, tables'[m] # None
                 PROVE  \E k \in Described' : jobs'[k].name = m
      OBVIOUS
    <3>1. CASE m = n
      BY <1>1, <1>3, <3>1 DEF n
    <3>2. CASE m # n
      <4>1. tables[m] # None
        BY <1>1, <1>4, <3>2
      <4>2. QED
        BY <1>1, <1>3, <4>1 DEF NamesStand, SchemaInv
    <3>3. QED
      BY <3>1, <3>2
  <2>3. ASSUME NEW k \in Described'
        PROVE  /\ jobs'[k].runs > 0 /\ tables'[jobs'[k].name] # None
               /\ tables'[jobs'[k].name] \subseteq meta'[k]
               /\ jobs'[k].runs = 1 => meta'[k] = tables'[jobs'[k].name]
    <3>1. CASE k = j
      BY <1>1, <1>3, <1>7, <3>1 DEF n
    <3>2. CASE k # j
      <4>1. k \in Described /\ jobs[k].name # n /\ jobs[k].name \in Names /\ meta'[k] = meta[k]
        BY <1>1, <1>4, <1>5, <3>2
      <4>2. tables[jobs[k].name] # None
        BY <4>1 DEF NamesStand, SchemaInv
      <4>3. tables'[jobs[k].name] = tables[jobs[k].name]
        BY <1>6, <4>1, <4>2
      <4>4. QED
        BY <1>3, <4>1, <4>2, <4>3 DEF NamesStand, SchemaInv
    <3>3. QED
      BY <3>1, <3>2
  <2>4. QED
    BY <2>1, <2>2, <2>3 DEF NamesStand
<1>10. ASSUME NEW k \in Instances PROVE Knows(k)'
  <2>1. CASE k = i
    BY <1>1, <1>2, <1>3, <2>1 DEF Knows, j
  <2>2. CASE k # i /\ worker[k].pc = "idle"
    <3>1. worker'[k] = worker[k] /\ worker[k].job = 0
      BY <1>3, <2>2 DEF TypeInv, WorkersStand
    <3>2. QED
      BY <2>2, <3>1 DEF Knows
  <2>3. CASE k # i /\ worker[k].pc # "idle"
    <3>1. worker'[k] = worker[k] /\ worker[k].job \in JobIds /\ worker[k].job # j
          /\ jobs[worker[k].job].name \in Names
      BY <1>1, <1>3, <2>3, Running, Numbers DEF TypeInv, WorkersStand, j
    <3>2. Knows(k)
      BY DEF SchemaInv, WorkersKnow
    <3>3. worker[k].job \in Described' <=> worker[k].job \in Described
      BY <1>1, <3>1
    <3>4. tables[jobs[worker[k].job].name] # None => tables'[jobs[worker[k].job].name] # None
      BY <1>6, <3>1
    <3>5. QED
      BY <1>2, <1>3, <3>1, <3>2, <3>3, <3>4 DEF Knows
  <2>4. QED
    BY <2>1, <2>2, <2>3
<1>11. QED
  BY <1>8, <1>9, <1>10 DEF SchemaInv, WorkersKnow

LEMMA SchemaOfEdits ==
  ASSUME TypeInv, TypeInv', SchemaInv, NEW j \in JobIds, NEW f \in Fields, RemoveField(j, f)
  PROVE  SchemaInv'
<1> DEFINE n == jobs[j].name
<1>1. /\ meta[j] \in SUBSET Fields /\ meta[j] # None /\ n \in Names
      /\ tables[n] \in SUBSET Fields
      /\ meta' = [meta EXCEPT ![j] = meta[j] \ {f}]
      /\ tables' = [tables EXCEPT ![n] = tables[n] \ {f}]
      /\ UNCHANGED <<jobs, created, history, worker>>
  BY RemoveFieldStep DEF SchemaInv
<1>2. /\ meta \in [JobIds -> (SUBSET Fields) \union {None}]
      /\ tables \in [Names -> (SUBSET Fields) \union {None}]
      /\ \A k \in Described : k \in JobIds /\ jobs[k].name \in Names
  BY DescribedRan DEF TypeInv, Shape, SchemaInv
<1>3. meta[j] \ {f} # None /\ tables[n] \ {f} # None
  BY <1>1, Numbers
<1> HIDE DEF n
<1>4. /\ meta'[j] = meta[j] \ {f} /\ \A k \in JobIds \ {j} : meta'[k] = meta[k]
      /\ tables'[n] = tables[n] \ {f} /\ \A m \in Names \ {n} : tables'[m] = tables[m]
  BY <1>1, <1>2
<1>5. Described' = Described /\ j \in Described
  BY <1>1, <1>3, <1>4 DEF Described
<1>6. RowsStand'
  BY <1>1, <1>5 DEF RowsStand, SchemaInv
<1>7. \A m \in Names : tables'[m] # None <=> tables[m] # None
  BY <1>1, <1>3, <1>4, Numbers
<1>8. NamesStand'
  <2>1. ASSUME NEW k \in Described
        PROVE  /\ jobs[k].runs > 0 /\ tables'[jobs[k].name] # None
               /\ tables'[jobs[k].name] \subseteq meta'[k]
               /\ jobs[k].runs = 1 => meta'[k] = tables'[jobs[k].name]
    <3>1. /\ jobs[k].runs > 0 /\ tables[jobs[k].name] # None
          /\ tables[jobs[k].name] \subseteq meta[k]
          /\ jobs[k].runs = 1 => meta[k] = tables[jobs[k].name]
      BY DEF NamesStand, SchemaInv
    <3>2. k # j => jobs[k].name # n
      BY <1>5 DEF NamesStand, SchemaInv, n
    <3>3. CASE k = j
      BY <1>2, <1>4, <1>7, <3>1, <3>3 DEF n
    <3>4. CASE k # j
      BY <1>2, <1>4, <3>1, <3>2, <3>4
    <3>5. QED
      BY <3>3, <3>4
  <2>2. QED
    BY <1>1, <1>5, <1>7, <2>1 DEF NamesStand, SchemaInv
<1>9. ASSUME NEW k \in Instances PROVE Knows(k)'
  <2>1. Knows(k)
    BY DEF SchemaInv, WorkersKnow
  <2>2. worker[k].pc = "apply" => jobs[worker[k].job].name \in Names
    BY Running
  <2>3. QED
    BY <1>1, <1>5, <1>7, <2>1, <2>2 DEF Knows
<1>10. QED
  BY <1>6, <1>8, <1>9 DEF SchemaInv, WorkersKnow

LEMMA SchemaStep ==
  ASSUME TypeInv, TypeInv', SchemaInv, [Next]_vars
  PROVE  SchemaInv'
<1>1. CASE UNCHANGED vars
  <2>1. UNCHANGED <<jobs, tables, meta, created, history, worker>>
    BY <1>1 DEF vars, schemaVars
  <2>2. QED
    BY <2>1 DEF SchemaInv, RowsStand, NamesStand, WorkersKnow, Knows, Described
<1>2. CASE Next
  BY <1>2, Steps, SchemaOfPages, SchemaOfRequests, SchemaOfRuns, SchemaOfCreation,
     SchemaOfTaking, SchemaOfLetGo, SchemaOfCrash, SchemaOfEdits
<1>3. QED
  BY <1>1, <1>2

LEMMA SchemaInit == Init => SchemaInv
<1> SUFFICES ASSUME Init PROVE SchemaInv
  OBVIOUS
<1>1. Described = {} /\ created = <<>>
  BY DEF Init, Described
<1>2. \A n \in Names : tables[n] = None
  BY DEF Init
<1>3. WorkersKnow
  BY DEF Init, WorkersKnow, Knows, IdleWorker
<1>4. QED
  BY <1>1, <1>2, <1>3 DEF SchemaInv, RowsStand, NamesStand

\* TypeOK holds in every state, however the requests, the workers and the
\* pages interleave: no table and no row is ever undescribed, every waiting
\* job is in the queue once and no two workers have the same job.
THEOREM TablesTypeCorrect == Spec => []TypeOK
<1>1. Init => TypeInv /\ SchemaInv
  BY TypeInit, SchemaInit
<1>2. TypeInv /\ SchemaInv /\ [Next]_vars => (TypeInv /\ SchemaInv)'
  BY TypeStep, SchemaStep DEF SchemaInv
<1>3. TypeInv /\ SchemaInv => TypeOK
  <2> SUFFICES ASSUME TypeInv, SchemaInv PROVE TypeOK
    OBVIOUS
  <2>1. ASSUME NEW j \in JobIds
        PROVE  /\ jobs[j].name \in Names \union {None} /\ jobs[j].fields \subseteq Fields
               /\ jobs[j].pc \in {"none", "bootstrap", "create", "lock", "read", "commit", "answered"}
               /\ jobs[j].answer \in {"none", "accepted", "refused", "error"}
               /\ jobs[j].state \in Pending \union {"none", "completed", "failed"}
               /\ jobs[j].made \in 0 .. RetryCount /\ jobs[j].stalls \in 0 .. MaxStalls + 1
               /\ jobs[j].at \in Instances \union {None} /\ jobs[j].todo \subseteq {"count", "pending"}
    <3>1. jobs[j] \in Submissions /\ jobs[j].made <= RetryCount /\ jobs[j].stalls <= MaxStalls + 1
      BY DEF TypeInv, Shape, JobsStand, Stands
    <3>2. QED
      BY <3>1, Numbers DEF Submissions, Served
  <2>2. \A n \in 1 .. Len(queue) : jobs[queue[n]].state = "wait"
    BY DEF TypeInv, QueueStands
  <2>3. /\ \A n \in Names : tables[n] = None \/ tables[n] \subseteq Fields
        /\ \A j \in JobIds : meta[j] = None \/ meta[j] \subseteq Fields
        /\ history \in [JobIds -> SUBSET {"completed", "failed"}]
        /\ ready \in BOOLEAN /\ seen \subseteq Instances /\ lock \in 0 .. MaxJobs
    BY DEF TypeInv, Shape
  <2>4. \A n \in 1 .. Len(created) : meta[created[n]] # None
    BY DEF SchemaInv, RowsStand, Described
  <2>5. /\ \A i \in Instances : worker[i].job # 0 <=> worker[i].pc # "idle"
        /\ \A i, k \in Instances : worker[i].job = worker[k].job => i = k \/ worker[i].job = 0
    BY DEF TypeInv, WorkersStand
  <2>6. ASSUME NEW p \in Pages
        PROVE  /\ page[p].status \in {"idle", "submitting", "polling", "refused", "error",
                                      "failed", "timeout"}
               /\ page[p].polls \in 0 .. MaxPolls /\ page[p].number \in 1 .. MaxJobs
    BY PageType DEF PageStates
  <2>7. QED
    BY <2>1, <2>2, <2>3, <2>4, <2>5, <2>6 DEF TypeOK
<1>4. QED
  BY <1>1, <1>2, <1>3, PTL DEF Spec

-----------------------------------------------------------------------------
(* What is on record                                                         *)

\* What a job that moves on its own leaves of the others.
LEMMA RecordGoesOn ==
  ASSUME TypeInv, RecordStands, NEW k \in JobIds,
         \/ jobs'[k].state = jobs[k].state
         \/ jobs'[k].state \notin {"completed", "failed"} /\ jobs[k].state # "completed",
         jobs'[k].stalls = jobs[k].stalls, history'[k] = history[k],
         k \in Described' <=> k \in Described,
         \A i \in Instances :
           worker[i].job = k /\ worker[i].pc = "done" =>
             worker'[i].job = k /\ worker'[i].pc = "done"
  PROVE  OnRecord(k)'
BY DEF RecordStands, OnRecord

\* Nothing is recorded, nothing is described, and no worker lets a job go.
LEMMA RecordStays ==
  ASSUME TypeInv, RecordStands, UNCHANGED <<meta, history>>,
         \A k \in JobIds : /\ jobs'[k].stalls = jobs[k].stalls
                           /\ \/ jobs'[k].state = jobs[k].state
                              \/ jobs'[k].state \notin {"completed", "failed"}
                                 /\ jobs[k].state # "completed",
         \A i \in Instances : worker[i].pc = "done" => worker'[i] = worker[i]
  PROVE  RecordStands'
<1>1. Described' = Described
  BY DEF Described
<1>2. QED
  BY <1>1, RecordGoesOn DEF RecordStands

LEMMA RecordOfPages ==
  ASSUME TypeInv, RecordStands, NEW p \in Pages, PageOnly(p) \/ Submit(p)
  PROVE  RecordStands'
<1>1. CASE PageOnly(p)
  <2>1. UNCHANGED serverVars
    BY <1>1, PageOnlyStep DEF PageAfter
  <2>2. QED
    BY <2>1, RecordStays DEF serverVars, schemaVars
<1>2. CASE Submit(p)
  <2>1. PICK j \in Unused, request \in world.requests, i \in world.instances :
          jobs' = [jobs EXCEPT ![j].name = request[1], ![j].fields = request[2],
                               ![j].pc = "bootstrap", ![j].at = i]
    BY <1>2 DEF Submit
  <2>2. UNCHANGED <<schemaVars, history, worker>>
    BY <1>2 DEF Submit
  <2>3. j \in JobIds /\ jobs \in [JobIds -> Submissions]
    BY DEF Unused, TypeInv, Shape
  <2>4. \A k \in JobIds : jobs'[k].stalls = jobs[k].stalls /\ jobs'[k].state = jobs[k].state
    BY <2>1, <2>3 DEF Submissions
  <2>5. QED
    BY <2>2, <2>4, RecordStays DEF schemaVars
<1>3. QED
  BY <1>1, <1>2

LEMMA RecordOfRequests ==
  ASSUME TypeInv, RecordStands, NEW j \in JobIds, Serving(j) \/ Waits(j)
  PROVE  RecordStands'
<1> DEFINE job == jobs'[j]
<1>1. /\ JobAfter(j, job) /\ job.stalls = jobs[j].stalls
      /\ \/ job.state = jobs[j].state
         \/ job.state = "wait" /\ (jobs[j].pc = "read" \/ jobs[j].state = "delayed")
      /\ UNCHANGED <<schemaVars, history, worker>>
  BY ServingStep, WaitsStep DEF ServingAfter, WaitsAfter, SameJob
<1>2. \A k \in JobIds \ {j} : jobs'[k] = jobs[k]
  BY <1>1, JobMoves DEF TypeInv
<1>3. jobs[j].pc = "read" => jobs[j].state = "none"
  BY DEF TypeInv, JobsStand, Stands
<1> HIDE DEF job
<1>4. \A k \in JobIds : /\ jobs'[k].stalls = jobs[k].stalls
                        /\ \/ jobs'[k].state = jobs[k].state
                           \/ jobs'[k].state \notin {"completed", "failed"}
                              /\ jobs[k].state # "completed"
  BY <1>1, <1>2, <1>3 DEF job
<1>5. QED
  BY <1>1, <1>4, RecordStays DEF schemaVars

LEMMA RecordOfRuns ==
  ASSUME TypeInv, SchemaInv, RecordStands, NEW i \in Instances,
         HasTable(i) \/ RollBack(i) \/ LoseRecord(i) \/ RecordMigration(i) \/ CreateTable(i)
  PROVE  RecordStands'
<1> DEFINE j == worker[i].job
<1>1. RunAfter(i, worker'[i]) /\ worker[i].pc # "done"
  BY HasTableStep, RollBackStep, RecordMigrationStep, CreateTableStep
<1>2. /\ UNCHANGED jobs /\ worker'[i].job = j /\ worker[i].pc # "idle"
      /\ \A k \in Instances \ {i} : worker'[k] = worker[k]
  BY <1>1 DEF RunAfter, TypeInv, Shape
<1>3. j \in JobIds /\ jobs[j].state = "active"
  BY <1>2, Running
<1>4. CASE HasTable(i) \/ RollBack(i) \/ LoseRecord(i)
  <2>1. UNCHANGED <<meta, history>>
    BY <1>4, HasTableStep, RollBackStep DEF schemaVars
  <2>2. QED
    BY <1>1, <1>2, <2>1, RecordStays
<1>5. CASE RecordMigration(i)
  <2>1. /\ worker'[i].pc = "done" /\ UNCHANGED meta
        /\ history' = [history EXCEPT ![j] = history[j] \union {"completed"}]
    BY <1>5, RecordMigrationStep DEF schemaVars
  <2>2. Described' = Described
    BY <2>1 DEF Described
  <2>3. \A k \in JobIds \ {j} : history'[k] = history[k]
    BY <2>1 DEF TypeInv, Shape
  <2>4. ASSUME NEW k \in JobIds PROVE OnRecord(k)'
    <3>1. CASE k = j
      BY <1>2, <1>3, <2>1, <3>1 DEF OnRecord
    <3>2. CASE k # j
      BY <1>1, <1>2, <2>2, <2>3, <3>2, RecordGoesOn
    <3>3. QED
      BY <3>1, <3>2
  <2>5. QED
    BY <2>4 DEF RecordStands
<1>6. CASE CreateTable(i)
  <2>1. Described' = Described \union {j} /\ UNCHANGED history
    BY <1>6, CreateTableAfter, CreateTableStep
  <2>2. ASSUME NEW k \in JobIds PROVE OnRecord(k)'
    <3>1. CASE k = j
      BY <1>1, <1>2, <1>3, <2>1, <3>1 DEF RecordStands, OnRecord
    <3>2. CASE k # j
      BY <1>1, <1>2, <2>1, <3>2, RecordGoesOn
    <3>3. QED
      BY <3>1, <3>2
  <2>3. QED
    BY <2>2 DEF RecordStands
<1>7. QED
  BY <1>4, <1>5, <1>6

LEMMA RecordOfTaking ==
  ASSUME TypeInv, RecordStands, NEW i \in Instances, TakeJob(i)
  PROVE  RecordStands'
<1> DEFINE j == queue[1]
           job == jobs'[j]
<1>1. TakenAfter(i, j, job)
  BY TakeJobStep
<1>2. /\ j \in JobIds /\ jobs[j] \in Submissions /\ jobs[j].state = "wait"
      /\ worker[i].pc = "idle" /\ UNCHANGED <<schemaVars, history>>
  BY <1>1 DEF TakenAfter, TypeInv, Shape
<1>3. \A k \in JobIds \ {j} : jobs'[k] = jobs[k]
  BY <1>1, <1>2, JobMoves DEF TakenAfter, TypeInv
<1>4. \A k \in Instances \ {i} : worker'[k] = worker[k]
  BY <1>1 DEF TakenAfter, TypeInv, Shape
<1>5. job = [jobs[j] EXCEPT !.state = "active", !.runs = jobs[j].runs + 1]
  BY <1>1 DEF TakenAfter
<1> HIDE DEF j, job
<1>6. job.state = "active" /\ job.stalls = jobs[j].stalls
  BY <1>2, <1>5 DEF Submissions
<1>7. \A k \in JobIds : /\ jobs'[k].stalls = jobs[k].stalls
                        /\ \/ jobs'[k].state = jobs[k].state
                           \/ jobs'[k].state \notin {"completed", "failed"}
                              /\ jobs[k].state # "completed"
  BY <1>2, <1>3, <1>6 DEF job
<1>8. QED
  BY <1>2, <1>4, <1>7, RecordStays DEF schemaVars

LEMMA RecordOfLetGo ==
  ASSUME TypeInv, SchemaInv, RecordStands, NEW i \in Instances, RecordFailed(i) \/ CompleteJob(i)
  PROVE  RecordStands'
<1>0. PICK j \in JobIds : j = worker[i].job
  BY LetGoStep, Running DEF LetGo
<1> DEFINE job == jobs'[j]
<1>1. LetGo(i, j, job) /\ jobs[j].state = "active" /\ j # 0 /\ j = worker[i].job
  BY <1>0, LetGoStep, Running, Numbers DEF LetGo
<1>2. \A k \in JobIds \ {j} : jobs'[k] = jobs[k]
  BY <1>1, JobMoves DEF LetGo, TypeInv
<1>3. Described' = Described
  BY <1>1 DEF LetGo, Described, schemaVars
<1>4. \A k \in Instances \ {i} : worker'[k] = worker[k]
  BY <1>1 DEF LetGo, TypeInv, Shape
<1>5. \A k \in JobIds \ {j} : history'[k] = history[k]
  BY <1>1 DEF LetGo, TypeInv, Shape
<1>6. \A k \in Instances : worker[k].job = j => k = i
  BY <1>1 DEF TypeInv, WorkersStand
<1>7. Knows(i) /\ OnRecord(j) /\ history[j] \subseteq {"completed", "failed"}
  BY <1>1 DEF SchemaInv, WorkersKnow, RecordStands, TypeInv, Shape
<1>8. OnRecord(j)'
  <2>1. CASE worker[i].pc = "recordFailed"
    <3>1. job.stalls = jobs[j].stalls /\ job.state \in {"failed", "delayed"}
      BY <1>1, <2>1 DEF LetGo
    <3>2. "completed" \in history[j] => jobs[j].stalls > 0
      BY <1>1, <1>6, <1>7, <2>1 DEF OnRecord
    <3>3. /\ j \in Described => history'[j] = history[j] \union {"failed"}
          /\ j \notin Described => history'[j] = history[j]
      BY <1>1, <2>1 DEF LetGo, Described, TypeInv, Shape
    <3>4. QED
      BY <1>3, <1>7, <3>1, <3>2, <3>3 DEF OnRecord
  <2>2. CASE worker[i].pc = "done"
    <3>1. job.state = "completed" /\ history' = history
      BY <1>1, <2>2 DEF LetGo
    <3>2. j \in Described /\ "completed" \in history[j]
      BY <1>0, <1>7, <2>2 DEF Knows
    <3>3. QED
      BY <1>3, <3>1, <3>2 DEF OnRecord
  <2>3. QED
    BY <1>1, <2>1, <2>2 DEF LetGo
<1>9. ASSUME NEW k \in JobIds \ {j} PROVE OnRecord(k)'
  <2>1. \A l \in Instances : worker[l].job = k => l # i
    BY <1>0, <1>9
  <2>2. QED
    BY <1>2, <1>3, <1>4, <1>5, <2>1, RecordGoesOn
<1>10. QED
  BY <1>8, <1>9 DEF RecordStands

LEMMA RecordOfCrash ==
  ASSUME TypeInv, RecordStands, NEW i \in Instances, Crash(i)
  PROVE  RecordStands'
<1> DEFINE j == worker[i].job
<1>1. CrashAfter(i)
  BY CrashStep
<1>2. UNCHANGED <<meta, history>> /\ Described' = Described
  BY <1>1 DEF CrashAfter, schemaVars, Described
<1>3. \A k \in Instances \ {i} : worker'[k] = worker[k]
  BY <1>1 DEF CrashAfter, TypeInv, Shape
<1>4. \A k \in JobIds \ {j} : jobs'[k].state = jobs[k].state /\ jobs'[k].stalls = jobs[k].stalls
  BY <1>1 DEF CrashAfter
<1>5. ASSUME NEW k \in JobIds PROVE OnRecord(k)'
  <2>1. CASE k = j
    <3>1. jobs[k].stalls \in Nat /\ jobs'[k].stalls = jobs[k].stalls + 1
          /\ jobs'[k].state \in {"wait", "failed"}
      BY <1>1, <2>1 DEF CrashAfter, TypeInv, Shape, Submissions
    <3>2. jobs'[k].stalls > 0
      BY <3>1
    <3>3. QED
      BY <3>1, <3>2 DEF OnRecord
  <2>2. CASE k # j
    BY <1>2, <1>3, <1>4, <2>2, RecordGoesOn
  <2>3. QED
    BY <2>1, <2>2
<1>6. QED
  BY <1>5 DEF RecordStands

LEMMA RecordStep ==
  ASSUME TypeInv, SchemaInv, RecordStands, [Next]_vars
  PROVE  RecordStands'
<1>1. CASE UNCHANGED vars
  BY <1>1 DEF vars, schemaVars, RecordStands, OnRecord, Described
<1>2. ASSUME NEW j \in JobIds, NEW f \in Fields, RemoveField(j, f) PROVE RecordStands'
  <2>1. /\ meta[j] \in SUBSET Fields /\ meta' = [meta EXCEPT ![j] = meta[j] \ {f}]
        /\ meta[j] # None /\ UNCHANGED <<jobs, history, worker>>
    BY <1>2, RemoveFieldStep DEF SchemaInv
  <2>2. meta[j] \ {f} # None
    BY <2>1, Numbers
  <2>3. Described' = Described
    BY <2>1, <2>2 DEF Described, TypeInv, Shape
  <2>4. QED
    BY <2>1, <2>3 DEF RecordStands, OnRecord
<1>3. CASE Next
  BY <1>2, <1>3, Steps, RecordOfPages, RecordOfRequests, RecordOfRuns, RecordOfTaking,
     RecordOfLetGo, RecordOfCrash
<1>4. QED
  BY <1>1, <1>3

-----------------------------------------------------------------------------
(* The limit                                                                 *)

LEMMA Counted ==
  ASSUME Shape
  PROVE  /\ IsFiniteSet(PendingJobs) /\ Cardinality(PendingJobs) \in Nat
         /\ IsFiniteSet(Coming) /\ Cardinality(Coming) \in Nat
         /\ Coming \subseteq PendingJobs /\ Cardinality(Coming) <= Cardinality(PendingJobs)
         /\ Len(created) \in Nat /\ Bound \in Nat /\ world.maxTables \in Nat
<1>1. IsFiniteSet(PendingJobs) /\ Cardinality(PendingJobs) \in Nat
  BY PendingCounted
<1>2. Coming \subseteq PendingJobs
  BY DEF Coming, PendingJobs
<1>3. IsFiniteSet(Coming) /\ Cardinality(Coming) \in Nat
      /\ Cardinality(Coming) <= Cardinality(PendingJobs)
  BY <1>1, <1>2, FS_Subset, FS_CardinalityType
<1>4. Len(created) \in Nat /\ world.maxTables \in Nat
  BY DEF Shape, Deployed
<1>5. QED
  BY <1>1, <1>2, <1>3, <1>4 DEF Bound

\* The limit holds on when no job begins and no request reads.
LEMMA LimitGoesOn ==
  ASSUME Shape, Shape', WorldStays, LimitInv,
         PendingJobs' \subseteq PendingJobs, Bound' <= Bound,
         \A j \in JobIds : jobs'[j].pc = "read" =>
           /\ jobs[j].pc = "read" /\ jobs'[j].todo = jobs[j].todo
           /\ jobs'[j].count = jobs[j].count /\ jobs'[j].pending = jobs[j].pending
  PROVE  LimitInv'
<1>1. Cardinality(PendingJobs') <= Cardinality(PendingJobs)
      /\ Cardinality(PendingJobs') \in Nat
  BY Counted, FS_Subset, FS_CardinalityType
<1>2. /\ Cardinality(PendingJobs) \in Nat /\ Bound \in Nat /\ world.maxTables \in Nat
      /\ world'.maxTables = world.maxTables
  BY Counted DEF WorldStays
<1>3. Bound' \in Nat
  <2>1. Cardinality(Coming') \in Nat
    <3>1. Coming' \subseteq PendingJobs'
      BY DEF Coming, PendingJobs
    <3>2. PendingJobs' \subseteq PendingJobs /\ IsFiniteSet(PendingJobs)
      BY Counted
    <3>3. IsFiniteSet(Coming')
      BY <3>1, <3>2, FS_Subset
    <3>4. QED
      BY <3>3, FS_CardinalityType
  <2>2. Len(created') \in Nat
    BY DEF Shape
  <2>3. QED
    BY <2>1, <2>2 DEF Bound
<1> DEFINE m == world.maxTables
           pending == Cardinality(PendingJobs)
           after == Cardinality(PendingJobs')
<1>4. /\ pending <= m /\ Bound <= 2 * m
      /\ \A j \in JobIds : jobs[j].pc = "read" =>
           /\ "count" \notin jobs[j].todo => Bound <= jobs[j].count + m
           /\ "pending" \notin jobs[j].todo => pending <= jobs[j].pending
  BY DEF LimitInv
<1>5. ASSUME NEW j \in JobIds, jobs'[j].pc = "read"
      PROVE  /\ "count" \notin jobs'[j].todo => Bound' <= jobs'[j].count + m
             /\ "pending" \notin jobs'[j].todo => after <= jobs'[j].pending
  <2>1. /\ jobs[j].pc = "read" /\ jobs'[j].todo = jobs[j].todo
        /\ jobs'[j].count = jobs[j].count /\ jobs'[j].pending = jobs[j].pending
    BY <1>5
  <2>2. jobs[j].count \in Nat /\ jobs[j].pending \in Nat
    BY DEF Shape, Submissions
  <2> HIDE DEF m, pending, after
  <2>3. m \in Nat /\ pending \in Nat /\ after \in Nat /\ after <= pending /\ Bound' <= Bound
    BY <1>1, <1>2 DEF m, pending, after
  <2>4. QED
    BY <1>2, <1>3, <1>4, <2>1, <2>2, <2>3
<1>6. after <= m /\ Bound' <= 2 * m
  BY <1>1, <1>2, <1>3, <1>4
<1>7. world'.maxTables = m
  BY <1>2
<1>8. QED
  BY <1>5, <1>6, <1>7 DEF LimitInv

\* The bound is where it was when the tables and what is to come are.
LEMMA BoundStays ==
  ASSUME Shape, UNCHANGED <<created, meta>>, PendingJobs' \subseteq PendingJobs
  PROVE  Bound' <= Bound
<1>1. Coming' \subseteq Coming
  BY DEF Coming, PendingJobs
<1>2. Cardinality(Coming') <= Cardinality(Coming) /\ Cardinality(Coming') \in Nat
  BY <1>1, Counted, FS_Subset, FS_CardinalityType
<1>3. Cardinality(Coming) \in Nat /\ Len(created) \in Nat
  BY Counted
<1>4. QED
  BY <1>2, <1>3 DEF Bound

\* What a step leaves that neither begins a job nor reads.
LEMMA LimitStays ==
  ASSUME Shape, Shape', WorldStays, LimitInv, UNCHANGED <<created, meta>>,
         \A k \in JobIds : jobs'[k].state \in Pending => jobs[k].state \in Pending,
         \A k \in JobIds : jobs'[k].pc = "read" =>
           /\ jobs[k].pc = "read" /\ jobs'[k].todo = jobs[k].todo
           /\ jobs'[k].count = jobs[k].count /\ jobs'[k].pending = jobs[k].pending
  PROVE  LimitInv'
<1>1. PendingJobs' \subseteq PendingJobs
  BY DEF PendingJobs
<1>2. QED
  BY <1>1, BoundStays, LimitGoesOn

LEMMA LimitOfPages ==
  ASSUME TypeInv, TypeInv', WorldStays, LimitInv, NEW p \in Pages, PageOnly(p) \/ Submit(p)
  PROVE  LimitInv'
<1>1. CASE PageOnly(p)
  <2>1. UNCHANGED serverVars
    BY <1>1, PageOnlyStep DEF PageAfter
  <2>2. QED
    BY <2>1, LimitStays DEF serverVars, schemaVars, TypeInv
<1>2. CASE Submit(p)
  <2>1. PICK j \in Unused, request \in world.requests, i \in world.instances :
          jobs' = [jobs EXCEPT ![j].name = request[1], ![j].fields = request[2],
                               ![j].pc = "bootstrap", ![j].at = i]
    BY <1>2 DEF Submit
  <2>2. UNCHANGED schemaVars
    BY <1>2 DEF Submit
  <2>3. j \in JobIds /\ jobs \in [JobIds -> Submissions]
    BY DEF Unused, TypeInv, Shape
  <2>4. /\ \A k \in JobIds \ {j} : jobs'[k] = jobs[k]
        /\ jobs'[j].pc = "bootstrap" /\ jobs'[j].state = jobs[j].state
    BY <2>1, <2>3 DEF Submissions
  <2>5. QED
    BY <2>2, <2>4, LimitStays DEF schemaVars, TypeInv
<1>3. QED
  BY <1>1, <1>2

\* A request takes the lock, and then reads while nobody else can begin a job.
LEMMA LimitOfServing ==
  ASSUME TypeInv, TypeInv', WorldStays, LimitInv, NEW j \in JobIds, Serving(j)
  PROVE  LimitInv'
<1> DEFINE old == jobs[j]
           job == jobs'[j]
<1>1. ServingAfter(j, job) /\ old \in Submissions
  BY ServingStep DEF TypeInv, Shape
<1>2. \A k \in JobIds \ {j} : jobs'[k] = jobs[k]
  BY <1>1, JobMoves DEF ServingAfter, TypeInv
<1>3. job.state = old.state /\ UNCHANGED <<schemaVars, history, worker>>
  BY <1>1 DEF ServingAfter, SameJob
<1>4. \A k \in JobIds : jobs'[k].state = jobs[k].state
  BY <1>2, <1>3
<1>5. PendingJobs' = PendingJobs /\ Coming' = Coming /\ Bound' = Bound
  BY <1>3, <1>4 DEF PendingJobs, Coming, Bound, schemaVars
<1>6. CASE job.pc # "read"
  <2>1. \A k \in JobIds : jobs'[k].pc = "read" => jobs[k].pc = "read" /\ jobs'[k] = jobs[k]
    BY <1>2, <1>6
  <2>2. QED
    BY <1>3, <1>4, <2>1, LimitStays DEF schemaVars, TypeInv
<1>7. CASE job.pc = "read"
  <2> DEFINE m == world.maxTables
             pending == Cardinality(PendingJobs)
  <2>1. \/ job.todo = {"count", "pending"}
        \/ /\ old.pc = "read"
           /\ \E q \in old.todo :
                /\ job.todo = old.todo \ {q}
                /\ job.count = IF q = "count" THEN Len(created) ELSE old.count
                /\ job.pending = IF q = "pending" THEN PendingCreates ELSE old.pending
    <3>1. CASE job = Answered(old, "error") \/ job = Answered(old, "refused")
               \/ job = Answered(old, "accepted")
      BY <1>1, <1>7, <3>1, AnsweredType
    <3>2. CASE job = [old EXCEPT !.pc = "read", !.todo = {"count", "pending"}]
      BY <1>1, <3>2 DEF Submissions
    <3>3. ASSUME old.pc = "read", NEW q \in old.todo,
                 job = [old EXCEPT !.todo = @ \ {q},
                                   !.count = IF q = "count" THEN Len(created) ELSE @,
                                   !.pending = IF q = "pending" THEN PendingCreates ELSE @]
          PROVE  /\ job.todo = old.todo \ {q}
                 /\ job.count = IF q = "count" THEN Len(created) ELSE old.count
                 /\ job.pending = IF q = "pending" THEN PendingCreates ELSE old.pending
      BY <1>1, <3>3 DEF Submissions
    <3>4. QED
      BY <1>1, <1>7, <3>1, <3>2, <3>3 DEF ServingAfter
  <2>2. /\ m \in Nat /\ pending \in Nat /\ Bound \in Nat /\ Len(created) \in Nat
        /\ Bound <= Len(created) + pending /\ pending <= m /\ Bound <= 2 * m
        /\ PendingCreates = pending
    <3>1. Cardinality(Coming) <= pending /\ Cardinality(Coming) \in Nat /\ pending \in Nat
          /\ Len(created) \in Nat
      BY Counted DEF TypeInv
    <3>2. Bound <= Len(created) + pending
      BY <3>1 DEF Bound
    <3>3. QED
      BY <3>1, <3>2, Counted, PendingCounted DEF LimitInv, TypeInv
  <2>3. /\ "count" \notin job.todo => Bound <= job.count + m
        /\ "pending" \notin job.todo => pending <= job.pending
    <3>1. /\ old.pc = "read" /\ "count" \notin old.todo => Bound <= old.count + m
          /\ old.pc = "read" /\ "pending" \notin old.todo => pending <= old.pending
      BY DEF LimitInv
    <3>2. Bound <= Len(created) + m
      BY <2>2
    <3> HIDE DEF m, pending, job, old
    <3>3. QED
      BY <2>1, <2>2, <3>1, <3>2
  <2>4. world'.maxTables = m
    BY DEF WorldStays
  <2>5. ASSUME NEW k \in JobIds, jobs'[k].pc = "read"
        PROVE  /\ "count" \notin jobs'[k].todo => Bound' <= jobs'[k].count + world'.maxTables
               /\ "pending" \notin jobs'[k].todo => Cardinality(PendingJobs') <= jobs'[k].pending
    <3>1. CASE k = j
      BY <1>5, <2>3, <2>4, <3>1
    <3>2. CASE k # j
      BY <1>2, <1>5, <2>4, <2>5, <3>2 DEF LimitInv
    <3>3. QED
      BY <3>1, <3>2
  <2>6. QED
    BY <1>5, <2>2, <2>4, <2>5 DEF LimitInv
<1>8. QED
  BY <1>6, <1>7

\* Who begins a job has counted all tables, and nobody else reads.
LEMMA LimitOfWaiting ==
  ASSUME TypeInv, TypeInv', WorldStays, LimitInv, NEW j \in JobIds, Waits(j)
  PROVE  LimitInv'
<1> DEFINE old == jobs[j]
           job == jobs'[j]
<1>1. WaitsAfter(j, job) /\ old \in Submissions
  BY WaitsStep DEF TypeInv, Shape
<1>2. \A k \in JobIds \ {j} : jobs'[k] = jobs[k]
  BY <1>1, JobMoves DEF WaitsAfter, TypeInv
<1>3. UNCHANGED <<created, meta>> /\ job.state = "wait"
  BY <1>1 DEF WaitsAfter, schemaVars
<1>4. CASE old.state = "delayed"
  <2>1. old.pc # "read"
    BY <1>4 DEF TypeInv, JobsStand, Stands
  <2>2. job.pc # "read"
    BY <1>1, <2>1 DEF WaitsAfter
  <2>3. \A k \in JobIds : jobs'[k].state \in Pending => jobs[k].state \in Pending
    BY <1>2, <1>4 DEF Pending
  <2>4. QED
    BY <1>2, <1>3, <2>2, <2>3, LimitStays DEF TypeInv
<1>5. CASE old.pc = "read" /\ old.todo = {} /\ WithinLimit(j) /\ job.pc = "commit"
  <2> DEFINE m == world.maxTables
             pending == Cardinality(PendingJobs)
             coming == Cardinality(Coming)
  <2>1. /\ Bound <= old.count + m /\ pending <= old.pending
        /\ old.count + old.pending < m
    BY <1>5 DEF LimitInv, WithinLimit
  <2>2. old.count \in Nat /\ old.pending \in Nat /\ m \in Nat /\ pending \in Nat
        /\ coming \in Nat /\ Len(created) \in Nat /\ Bound = Len(created) + coming
    BY <1>1, Counted DEF Submissions, TypeInv, Bound
  <2>3. PendingJobs' = PendingJobs \union {j}
    BY <1>2, <1>3 DEF PendingJobs, Pending
  <2>4. Coming' \subseteq Coming \union {j}
    BY <1>2, <1>3 DEF Coming, Pending
  <2>5. Cardinality(PendingJobs') \in Nat /\ Cardinality(PendingJobs') <= pending + 1
    <3>1. IsFiniteSet(PendingJobs)
      BY Counted DEF TypeInv
    <3>2. Cardinality(PendingJobs \union {j}) \in {pending, pending + 1}
      BY <3>1, FS_AddElement
    <3>3. QED
      BY <2>2, <2>3, <3>2
  <2>6. Cardinality(Coming') \in Nat /\ Cardinality(Coming') <= coming + 1
    <3>1. IsFiniteSet(Coming)
      BY Counted DEF TypeInv
    <3>2. IsFiniteSet(Coming \union {j}) /\ Cardinality(Coming \union {j}) \in {coming, coming + 1}
      BY <3>1, FS_AddElement
    <3>3. Cardinality(Coming') <= Cardinality(Coming \union {j}) /\ Cardinality(Coming') \in Nat
      BY <2>4, <3>2, FS_Subset, FS_CardinalityType
    <3>4. QED
      BY <2>2, <3>2, <3>3
  <2>7. Bound' = Len(created) + Cardinality(Coming')
    BY <1>3 DEF Bound
  <2>8. Bound' <= 2 * m /\ Cardinality(PendingJobs') <= m
    <3> HIDE DEF m, pending, coming, old
    <3>1. QED
      BY <2>1, <2>2, <2>5, <2>6, <2>7
  <2>9. \A k \in JobIds : jobs'[k].pc # "read"
    <3> SUFFICES ASSUME NEW k \in JobIds, k # j, jobs[k].pc = "read" PROVE FALSE
      BY <1>2, <1>5
    <3>1. lock = j /\ lock = k
      BY <1>5 DEF TypeInv, JobsStand, Stands
    <3>2. QED
      BY <3>1
  <2>10. world'.maxTables = m
    BY DEF WorldStays
  <2>11. QED
    BY <2>8, <2>9, <2>10 DEF LimitInv
<1>6. QED
  BY <1>1, <1>4, <1>5 DEF WaitsAfter

LEMMA LimitOfRuns ==
  ASSUME TypeInv, TypeInv', WorldStays, SchemaInv, LimitInv, NEW i \in Instances,
         HasTable(i) \/ RollBack(i) \/ LoseRecord(i) \/ RecordMigration(i) \/ CreateTable(i)
  PROVE  LimitInv'
<1>1. UNCHANGED jobs /\ worker[i].pc # "idle"
  BY HasTableStep, RollBackStep, RecordMigrationStep, CreateTableStep DEF RunAfter
<1>2. CASE HasTable(i) \/ RollBack(i) \/ LoseRecord(i) \/ RecordMigration(i)
  <2>1. UNCHANGED <<created, meta>>
    BY <1>2, HasTableStep, RollBackStep, RecordMigrationStep DEF schemaVars
  <2>2. QED
    BY <1>1, <2>1, LimitStays DEF TypeInv
<1>3. CASE CreateTable(i)
  <2>0. PICK j \in JobIds : j = worker[i].job
    BY <1>1, Running
  <2>1. /\ Described' = Described \union {j} /\ jobs[j].state = "active"
        /\ created' = IF j \in Described THEN created ELSE Append(created, j)
    BY <1>1, <1>3, <2>0, CreateTableAfter, Running
  <2>2. PendingJobs' = PendingJobs
    BY <1>1 DEF PendingJobs
  <2>3. Coming = PendingJobs \ Described /\ Coming' = PendingJobs \ Described'
    BY <1>1 DEF Coming, PendingJobs, Described
  <2>4. j \in PendingJobs
    BY <2>1 DEF PendingJobs, Pending
  <2>5. created \in Seq(JobIds) /\ Len(created) \in Nat
    BY DEF TypeInv, Shape
  <2>6. Bound' <= Bound
    <3>1. CASE j \in Described
      <4>1. created' = created /\ Coming' = Coming
        BY <2>1, <2>3, <3>1
      <4>2. QED
        BY <4>1, Counted DEF Bound, TypeInv
    <3>2. CASE j \notin Described
      <4>1. j \in Coming /\ Coming' = Coming \ {j}
        BY <2>1, <2>3, <2>4, <3>2
      <4>2. IsFiniteSet(Coming) /\ Cardinality(Coming) \in Nat
        BY Counted DEF TypeInv
      <4>3. Cardinality(Coming') = Cardinality(Coming) - 1
        BY <4>1, <4>2, FS_RemoveElement
      <4>4. Len(created') = Len(created) + 1
        BY <2>1, <2>5, <3>2
      <4>5. QED
        BY <2>5, <4>2, <4>3, <4>4 DEF Bound
    <3>3. QED
      BY <3>1, <3>2
  <2>7. QED
    BY <1>1, <2>2, <2>6, LimitGoesOn DEF TypeInv
<1>4. QED
  BY <1>2, <1>3

LEMMA LimitOfTaking ==
  ASSUME TypeInv, TypeInv', WorldStays, LimitInv, NEW i \in Instances, TakeJob(i)
  PROVE  LimitInv'
<1> DEFINE j == queue[1]
           job == jobs'[j]
<1>1. TakenAfter(i, j, job)
  BY TakeJobStep
<1>2. /\ j \in JobIds /\ jobs[j] \in Submissions /\ jobs[j].state = "wait"
      /\ UNCHANGED schemaVars
  BY <1>1 DEF TakenAfter, TypeInv, Shape
<1>3. \A k \in JobIds \ {j} : jobs'[k] = jobs[k]
  BY <1>1, <1>2, JobMoves DEF TakenAfter, TypeInv
<1>4. job = [jobs[j] EXCEPT !.state = "active", !.runs = jobs[j].runs + 1]
  BY <1>1 DEF TakenAfter
<1> HIDE DEF j, job
<1>5. job.state = "active" /\ job.pc = jobs[j].pc /\ job.todo = jobs[j].todo
      /\ job.count = jobs[j].count /\ job.pending = jobs[j].pending
  BY <1>2, <1>4 DEF Submissions
<1>6. /\ \A k \in JobIds : jobs'[k].state \in Pending => jobs[k].state \in Pending
      /\ \A k \in JobIds : jobs'[k].pc = jobs[k].pc /\ jobs'[k].todo = jobs[k].todo
           /\ jobs'[k].count = jobs[k].count /\ jobs'[k].pending = jobs[k].pending
  BY <1>2, <1>3, <1>5 DEF job, Pending
<1>7. QED
  BY <1>2, <1>6, LimitStays DEF schemaVars, TypeInv

LEMMA LimitOfLetGo ==
  ASSUME TypeInv, TypeInv', WorldStays, LimitInv, NEW i \in Instances,
         RecordFailed(i) \/ CompleteJob(i)
  PROVE  LimitInv'
<1>0. PICK j \in JobIds : j = worker[i].job
  BY LetGoStep, Running DEF LetGo
<1> DEFINE job == jobs'[j]
<1>1. LetGo(i, j, job) /\ jobs[j].state = "active" /\ jobs[j].pc \in {"commit", "answered"}
  BY <1>0, LetGoStep, Running DEF LetGo
<1>2. \A k \in JobIds \ {j} : jobs'[k] = jobs[k]
  BY <1>1, JobMoves DEF LetGo, TypeInv
<1>3. job.pc # "read" /\ UNCHANGED schemaVars
  BY <1>1 DEF LetGo
<1> HIDE DEF job
<1>4. /\ \A k \in JobIds : jobs'[k].state \in Pending => jobs[k].state \in Pending
      /\ \A k \in JobIds : jobs'[k].pc = "read" => jobs'[k] = jobs[k]
  BY <1>1, <1>2, <1>3 DEF job, Pending
<1>5. QED
  BY <1>3, <1>4, LimitStays DEF schemaVars, TypeInv

LEMMA LimitOfCrash ==
  ASSUME TypeInv, TypeInv', WorldStays, LimitInv, NEW i \in Instances, Crash(i)
  PROVE  LimitInv'
<1>1. CrashAfter(i)
  BY CrashStep
<1>2. \A k \in JobIds : jobs'[k].state \in Pending => jobs[k].state \in Pending
  <2> SUFFICES ASSUME NEW k \in JobIds, jobs'[k].state \in Pending
               PROVE  jobs[k].state \in Pending
    OBVIOUS
  <2>1. CASE k = worker[i].job
    <3>1. k # 0
      BY Numbers
    <3>2. worker[i].pc # "idle"
      BY <2>1, <3>1 DEF TypeInv, WorkersStand
    <3>3. QED
      BY <2>1, <3>2, Running DEF Pending
  <2>2. CASE k # worker[i].job
    BY <1>1, <2>2 DEF CrashAfter
  <2>3. QED
    BY <2>1, <2>2
<1>3. \A k \in JobIds : jobs'[k].pc = "read" =>
        /\ jobs[k].pc = "read" /\ jobs'[k].todo = jobs[k].todo
        /\ jobs'[k].count = jobs[k].count /\ jobs'[k].pending = jobs[k].pending
  BY <1>1 DEF CrashAfter
<1>4. UNCHANGED <<created, meta>>
  BY <1>1 DEF CrashAfter, schemaVars
<1>5. QED
  BY <1>2, <1>3, <1>4, LimitStays DEF TypeInv

LEMMA LimitOfEdits ==
  ASSUME TypeInv, TypeInv', WorldStays, SchemaInv, LimitInv,
         NEW j \in JobIds, NEW f \in Fields, RemoveField(j, f)
  PROVE  LimitInv'
<1>1. /\ meta[j] \in SUBSET Fields /\ meta' = [meta EXCEPT ![j] = meta[j] \ {f}]
      /\ meta[j] # None /\ UNCHANGED <<jobs, created>>
  BY RemoveFieldStep DEF SchemaInv
<1>2. meta[j] \ {f} # None
  BY <1>1, Numbers
<1>3. \A k \in JobIds : meta'[k] = None <=> meta[k] = None
  BY <1>1, <1>2 DEF TypeInv, Shape
<1>4. PendingJobs' = PendingJobs /\ Coming' = Coming
  BY <1>1, <1>3 DEF PendingJobs, Coming
<1>5. Bound' = Bound /\ Bound \in Nat
  BY <1>1, <1>4, Counted DEF Bound, TypeInv
<1>6. QED
  BY <1>1, <1>4, <1>5, LimitGoesOn DEF TypeInv

LEMMA LimitStep ==
  ASSUME TypeInv, TypeInv', SchemaInv, LimitInv, [Next]_vars
  PROVE  LimitInv'
<1>1. WorldStays
  BY WorldStep DEF TypeInv, Shape
<1>2. CASE UNCHANGED vars
  BY <1>1, <1>2, LimitStays DEF vars, schemaVars, TypeInv
<1>3. CASE Next
  BY <1>1, <1>3, Steps, LimitOfPages, LimitOfServing, LimitOfWaiting, LimitOfRuns,
     LimitOfTaking, LimitOfLetGo, LimitOfCrash, LimitOfEdits
<1>4. QED
  BY <1>2, <1>3

LEMMA RecordAndLimitInit == Init => RecordStands /\ LimitInv
<1> SUFFICES ASSUME Init PROVE RecordStands /\ LimitInv
  OBVIOUS
<1>1. TypeInv
  BY TypeInit
<1>2. \A j \in JobIds : /\ jobs[j].state = "none" /\ jobs[j].pc = "none"
                        /\ history[j] = {}
  BY DEF Init, NoSubmission
<1>3. PendingJobs = {} /\ Coming = {} /\ created = <<>>
  BY <1>2 DEF PendingJobs, Coming, Pending, Init
<1>4. Cardinality(PendingJobs) = 0 /\ Cardinality(Coming) = 0 /\ Len(created) = 0
  BY <1>3, FS_EmptySet
<1>5. world.maxTables \in Nat
  BY <1>1, Counted DEF TypeInv
<1>6. QED
  BY <1>2, <1>4, <1>5 DEF RecordStands, OnRecord, LimitInv, Bound

TablesInv == TypeInv /\ SchemaInv /\ RecordStands /\ LimitInv

LEMMA TablesInvStep == TablesInv /\ [Next]_vars => TablesInv'
<1> SUFFICES ASSUME TablesInv, [Next]_vars PROVE TablesInv'
  OBVIOUS
<1>1. TypeInv'
  BY TypeStep DEF TablesInv, SchemaInv
<1>2. QED
  BY <1>1, SchemaStep, RecordStep, LimitStep DEF TablesInv

LEMMA TablesHold == TablesInv => TablesComeFromJobs
<1> SUFFICES ASSUME TablesInv PROVE TablesComeFromJobs
  OBVIOUS
<1>1. TablesAreDescribed
  <2>1. ASSUME NEW n \in Names, tables[n] # None
        PROVE  Cardinality({j \in Described : jobs[j].name = n}) = 1
    <3>1. PICK j \in Described : jobs[j].name = n
      BY <2>1 DEF TablesInv, SchemaInv, NamesStand
    <3>2. {k \in Described : jobs[k].name = n} = {j}
      BY <3>1 DEF TablesInv, SchemaInv, NamesStand
    <3>3. QED
      BY <3>2, FS_Singleton
  <2>2. \A j \in Described :
          /\ tables[jobs[j].name] # None
          /\ tables[jobs[j].name] \subseteq meta[j]
          /\ jobs[j].runs = 1 => meta[j] = tables[jobs[j].name]
    BY DEF TablesInv, SchemaInv, NamesStand
  <2>3. Described = {j \in JobIds : meta[j] # None}
    BY DEF Described
  <2>4. QED
    BY <2>1, <2>2, <2>3 DEF TablesAreDescribed
<1>2. CompletedJobBuiltItsTable
  <2>1. \A j \in JobIds : jobs[j].state = "completed" =>
          j \in Described /\ meta[j] # None /\ "completed" \in history[j]
    BY DEF TablesInv, RecordStands, OnRecord, Described
  <2>2. \A j, k \in Described : jobs[j].name = jobs[k].name => j = k
    BY DEF TablesInv, SchemaInv, NamesStand
  <2>3. QED
    BY <2>1, <2>2 DEF CompletedJobBuiltItsTable
<1>3. FailureLeavesNothing
  BY DEF TablesInv, RecordStands, OnRecord, Described, FailureLeavesNothing
<1>4. TableLimitAtMostDoubled
  <2>1. Bound <= 2 * world.maxTables /\ Bound = Len(created) + Cardinality(Coming)
    BY DEF TablesInv, LimitInv, Bound
  <2>2. Len(created) \in Nat /\ Cardinality(Coming) \in Nat /\ world.maxTables \in Nat
    BY Counted DEF TablesInv, TypeInv
  <2>3. QED
    BY <2>1, <2>2 DEF TableLimitAtMostDoubled
<1>5. QED
  BY <1>1, <1>2, <1>3, <1>4 DEF TablesComeFromJobs

LEMMA TablesInvariant == Spec => []TablesInv
<1>1. Init => TablesInv
  BY TypeInit, SchemaInit, RecordAndLimitInit DEF TablesInv
<1>2. QED
  BY <1>1, TablesInvStep, PTL DEF Spec

\* Every table has one row with its name and all its columns described, a
\* completed job has its table and its record, a failed one left nothing that
\* is not accounted for, and tables are at most twice the limit, for every
\* number of workers, requests, retries and crashes.
THEOREM TablesComeFromTheirJobs == Spec => []TablesComeFromJobs
BY TablesInvariant, TablesHold, PTL

-----------------------------------------------------------------------------
(* What a page shows                                                         *)

\* What settles stays settled: the pages may rely on it.
LEMMA SettledStays ==
  ASSUME TablesInv, TablesInv', [Next]_vars, NEW j \in JobIds
  PROVE  /\ jobs[j].state = "failed" => jobs'[j].state = "failed"
         /\ jobs[j].state = "completed" => jobs'[j].state = "completed"
         /\ jobs[j].state = "none" /\ jobs[j].pc = "answered" =>
              jobs'[j].state = "none" /\ jobs'[j].pc = "answered"
<1> DEFINE Stays == /\ jobs[j].state = "failed" => jobs'[j].state = "failed"
                    /\ jobs[j].state = "completed" => jobs'[j].state = "completed"
                    /\ jobs[j].state = "none" /\ jobs[j].pc = "answered" =>
                         jobs'[j].state = "none" /\ jobs'[j].pc = "answered"
<1> USE DEF TablesInv
<1>1. CASE UNCHANGED jobs
  BY <1>1
<1>2. ASSUME NEW p \in Pages, PageOnly(p) PROVE Stays
  BY <1>1, <1>2, PageOnlyStep DEF PageAfter, serverVars
<1>3. ASSUME NEW p \in Pages, Submit(p) PROVE Stays
  <2>1. PICK k \in Unused, request \in world.requests, i \in world.instances :
          jobs' = [jobs EXCEPT ![k].name = request[1], ![k].fields = request[2],
                               ![k].pc = "bootstrap", ![k].at = i]
    BY <1>3 DEF Submit
  <2>2. k \in JobIds /\ jobs[k].pc = "none" /\ jobs \in [JobIds -> Submissions]
    BY DEF Unused, TypeInv, Shape
  <2>3. jobs[k].state = "none"
    BY <2>2 DEF TypeInv, JobsStand, Stands
  <2>4. \A l \in JobIds \ {k} : jobs'[l] = jobs[l]
    BY <2>1, <2>2
  <2>5. QED
    BY <2>2, <2>3, <2>4
<1>4. ASSUME NEW k \in JobIds, JobAfter(k, jobs'[k]),
             /\ jobs[k].state = "failed" => jobs'[k].state = "failed"
             /\ jobs[k].state = "completed" => jobs'[k].state = "completed"
             /\ jobs[k].state = "none" /\ jobs[k].pc = "answered" =>
                  jobs'[k].state = "none" /\ jobs'[k].pc = "answered"
      PROVE  Stays
  <2>1. \A l \in JobIds \ {k} : jobs'[l] = jobs[l]
    BY <1>4, JobMoves DEF TypeInv
  <2>2. QED
    BY <1>4, <2>1
<1>5. ASSUME NEW k \in JobIds, Serving(k) PROVE Stays
  <2>1. ServingAfter(k, jobs'[k])
    BY <1>5, ServingStep
  <2>2. JobAfter(k, jobs'[k]) /\ jobs'[k].state = jobs[k].state /\ jobs[k].pc # "answered"
    BY <2>1 DEF ServingAfter, SameJob
  <2>3. QED
    BY <1>4, <2>2
<1>6. ASSUME NEW k \in JobIds, Waits(k) PROVE Stays
  <2>1. WaitsAfter(k, jobs'[k])
    BY <1>6, WaitsStep
  <2>2. JobAfter(k, jobs'[k]) /\ (jobs[k].pc = "read" \/ jobs[k].state = "delayed")
    BY <2>1 DEF WaitsAfter
  <2>3. jobs[k].pc = "read" => jobs[k].state = "none"
    BY DEF TypeInv, JobsStand, Stands
  <2>4. QED
    BY <1>4, <2>2, <2>3
<1>7. ASSUME NEW i \in Instances, HasTable(i) \/ CreateTable(i) \/ RollBack(i) \/ LoseRecord(i)
                                  \/ RecordMigration(i)
      PROVE  Stays
  BY <1>1, <1>7, HasTableStep, CreateTableStep, RollBackStep, RecordMigrationStep DEF RunAfter
<1>8. ASSUME NEW i \in Instances, TakeJob(i) PROVE Stays
  <2>1. PICK k \in JobIds : JobAfter(k, jobs'[k]) /\ jobs[k].state = "wait"
    BY <1>8, TakeJobStep DEF TakenAfter
  <2>2. QED
    BY <1>4, <2>1
<1>9. ASSUME NEW i \in Instances, RecordFailed(i) \/ CompleteJob(i) PROVE Stays
  <2>1. PICK k \in JobIds : k = worker[i].job /\ jobs[k].state = "active"
    BY <1>9, LetGoStep, Running DEF LetGo
  <2>2. JobAfter(k, jobs'[k])
    BY <1>9, <2>1, LetGoStep DEF LetGo
  <2>3. QED
    BY <1>4, <2>1, <2>2
<1>10. ASSUME NEW i \in Instances, Crash(i) PROVE Stays
  <2>1. CrashAfter(i)
    BY <1>10, CrashStep
  <2>2. j # worker[i].job => jobs'[j].state = jobs[j].state
    BY <2>1 DEF CrashAfter
  <2>3. j = worker[i].job => jobs[j].state = "active"
    <3>1. j # 0
      BY Numbers
    <3>2. QED
      BY <3>1 DEF TypeInv, WorkersStand
  <2>4. jobs[j].pc = "answered" => jobs[j].at # i
    <3>1. i # None
      BY Numbers
    <3>2. QED
      BY <3>1 DEF TypeInv, JobsStand, Stands, Served
  <2>5. jobs[j].pc = "answered" => jobs'[j].pc = "answered"
    BY <2>1, <2>4 DEF CrashAfter
  <2>6. QED
    BY <2>2, <2>3, <2>5
<1>11. ASSUME NEW k \in JobIds, NEW f \in Fields, RemoveField(k, f) PROVE Stays
  BY <1>1, <1>11 DEF RemoveField
<1>12. CASE UNCHANGED vars
  BY <1>1, <1>12 DEF vars
<1>13. CASE Next
  BY <1>2, <1>3, <1>5, <1>6, <1>7, <1>8, <1>9, <1>10, <1>11, <1>13, Steps
<1>14. QED
  BY <1>12, <1>13

\* A page that does nothing shows what it showed, and that is still so.
LEMMA ShownStays ==
  ASSUME TablesInv, TablesInv', [Next]_vars, NEW p \in Pages, Shown(p), page'[p] = page[p]
  PROVE  Shown(p)'
<1> DEFINE pg == page[p]
<1>1. pg \in PageStates /\ (pg.status # "idle" => pg.job \in JobIds)
  BY PageType DEF TablesInv
<1>2. pg.built # 0 => pg.built \in JobIds
  BY <1>1, Numbers DEF PageStates
<1>3. /\ pg.status = "failed" => jobs'[pg.job].state = "failed"
      /\ pg.status = "refused" => jobs'[pg.job].state = "none" /\ jobs'[pg.job].pc = "answered"
  BY <1>1, SettledStays DEF Shown
<1>4. pg.built # 0 => jobs'[pg.built].state = "completed"
  BY <1>2, SettledStays DEF Shown
<1>5. QED
  BY <1>3, <1>4 DEF Shown, Shows

\* The page of tables that is read has the table of every job that completed,
\* or is full.
LEMMA ReadShows ==
  ASSUME TablesInv, NEW j \in JobIds, jobs[j].state = "completed"
  PROVE  j \in ToSet(OnPage(1)) \/ Len(OnPage(1)) = PageSize
<1>1. j \in Described
  BY DEF TablesInv, RecordStands, OnRecord
<1>2. PICK n \in 1 .. Len(created) : created[n] = j
  BY <1>1 DEF TablesInv, SchemaInv, RowsStand
<1>3. 1 \in 1 .. MaxJobs
  BY Numbers
<1>4. Shape /\ Len(created) \in Nat
  BY DEF TablesInv, TypeInv, Shape
<1>5. QED
  BY <1>2, <1>3, <1>4, PageOfTables, Numbers

\* A page whose submission moved, and whose catalog did not.
LEMMA ShownOfStatus ==
  ASSUME TypeInv, NEW p \in Pages, Shown(p), NEW pg \in PageStates,
         page' = [page EXCEPT ![p] = pg],
         pg.built = page[p].built, pg.number = page[p].number, pg.list = page[p].list,
         pg.status = "failed" => jobs'[pg.job].state = "failed",
         pg.status = "refused" => jobs'[pg.job].state = "none" /\ jobs'[pg.job].pc = "answered",
         pg.built # 0 => jobs'[pg.built].state = "completed"
  PROVE  Shown(p)'
<1>1. page'[p] = pg
  BY DEF TypeInv, Shape
<1>2. QED
  BY <1>1 DEF Shown, Shows

\* A page whose catalog moved, and whose submission did not.
LEMMA ShownOfList ==
  ASSUME TypeInv, UNCHANGED jobs, NEW p \in Pages, Shown(p), NEW pg \in PageStates,
         page' = [page EXCEPT ![p] = pg],
         pg.status = page[p].status, pg.job = page[p].job, pg.built = page[p].built,
         pg.built # 0 /\ "rows" \notin pg.list.todo /\ pg.number = 1 => Shows(pg),
         pg.list.status = "ready" => pg.list.todo = {}
  PROVE  Shown(p)'
<1>1. page'[p] = pg
  BY DEF TypeInv, Shape
<1>2. QED
  BY <1>1 DEF Shown, Shows

LEMMA ShownOfPage ==
  ASSUME TablesInv, TablesInv', NEW p \in Pages, Shown(p), PageOnly(p)
  PROVE  Shown(p)'
<1> DEFINE pg == page[p]
<1>1. /\ TypeInv /\ pg \in PageStates /\ pg.list \in Lists
      /\ pg.status # "idle" => pg.job \in JobIds
      /\ pg.built # 0 => jobs[pg.built].state = "completed" /\ pg.built \in JobIds
      /\ UNCHANGED jobs
  <2>1. pg.built \in 0 .. MaxJobs /\ TypeInv /\ pg \in PageStates /\ pg.list \in Lists
        /\ (pg.status # "idle" => pg.job \in JobIds)
    BY PageType DEF TablesInv, PageStates
  <2>2. UNCHANGED serverVars
    BY <2>1, PageOnlyStep DEF PageAfter
  <2>3. QED
    BY <2>1, <2>2, Numbers DEF Shown, serverVars
<1>2. ASSUME NEW status \in {"polling", "refused", "error", "failed", "timeout"},
             page' = [page EXCEPT ![p] = [pg EXCEPT !.status = status]],
             status = "failed" => jobs[pg.job].state = "failed",
             status = "refused" => jobs[pg.job].state = "none" /\ jobs[pg.job].pc = "answered"
      PROVE  Shown(p)'
  <2> DEFINE new == [pg EXCEPT !.status = status]
  <2>1. new \in PageStates /\ new.status = status /\ new.job = pg.job /\ new.built = pg.built
        /\ new.number = pg.number /\ new.list = pg.list
    BY <1>1 DEF PageStates
  <2>2. page' = [page EXCEPT ![p] = new]
    BY <1>2
  <2> HIDE DEF new
  <2>3. QED
    BY <1>1, <1>2, <2>1, <2>2, ShownOfStatus
<1>3. CASE OpenBuilder(p)
  <2> DEFINE new == [pg EXCEPT !.open = TRUE]
  <2>1. page' = [page EXCEPT ![p] = new]
    BY <1>3 DEF OpenBuilder, TablesInv, TypeInv, Shape
  <2>2. new \in PageStates /\ new.status = pg.status /\ new.job = pg.job /\ new.built = pg.built
        /\ new.number = pg.number /\ new.list = pg.list
    BY <1>1 DEF PageStates
  <2> HIDE DEF new
  <2>3. /\ pg.status = "failed" => jobs'[pg.job].state = "failed"
        /\ pg.status = "refused" => jobs'[pg.job].state = "none" /\ jobs'[pg.job].pc = "answered"
    BY <1>1 DEF Shown
  <2>4. QED
    BY <1>1, <2>1, <2>2, <2>3, ShownOfStatus
<1>4. CASE Cancel(p)
  <2>1. page' = [page EXCEPT ![p] = Unmounted(pg)]
    BY <1>4 DEF Cancel
  <2>2. QED
    BY <1>1, <2>1, UnmountedType, ShownOfStatus
<1>5. CASE Leave(p)
  <2>1. page' = [page EXCEPT ![p] = NewPage]
    BY <1>5 DEF Leave
  <2>2. page'[p] = NewPage
    BY <1>1, <2>1 DEF TypeInv, Shape
  <2>3. QED
    BY <2>2, NewPageType DEF Shown
<1>6. CASE Accepted(p)
  <2> DEFINE answer == jobs[pg.job].answer
             status == IF answer = "accepted" THEN "polling" ELSE answer
  <2>1. pg.status = "submitting" /\ answer # "none"
        /\ page' = [page EXCEPT ![p] = [pg EXCEPT !.status = status]]
    BY <1>6 DEF Accepted
  <2>2. pg.job \in JobIds /\ Stands(pg.job) /\ answer \in {"accepted", "refused", "error"}
    BY <1>1, <2>1 DEF TypeInv, Shape, Submissions, JobsStand
  <2>3. status = "refused" => jobs[pg.job].state = "none" /\ jobs[pg.job].pc = "answered"
    BY <2>1, <2>2 DEF Stands
  <2>4. status \in {"polling", "refused", "error"}
    BY <2>2
  <2> HIDE DEF status
  <2>5. QED
    BY <1>2, <2>1, <2>3, <2>4
<1>7. CASE Poll(p)
  <2>1. pg.status = "polling"
    BY <1>7 DEF Poll
  <2>2. \/ jobs[pg.job].state = "completed" /\ page' = [page EXCEPT ![p] = Completed(pg)]
        \/ jobs[pg.job].state = "failed" /\ page' = [page EXCEPT ![p] = [pg EXCEPT !.status = "failed"]]
        \/ page' = [page EXCEPT ![p] = [pg EXCEPT !.status = "timeout"]]
        \/ page' = [page EXCEPT ![p] = [pg EXCEPT !.polls = pg.polls + 1]]
    BY <1>7 DEF Poll
  <2>3. CASE jobs[pg.job].state = "completed" /\ page' = [page EXCEPT ![p] = Completed(pg)]
    <3>1. page'[p] = Completed(pg)
      BY <1>1, <2>3 DEF TypeInv, Shape
    <3> DEFINE new == Completed(pg)
    <3>2. /\ new.status = "idle" /\ new.built = pg.job /\ new.list = Loading
          /\ new.list.status = "loading" /\ "rows" \in new.list.todo
      BY <1>1, CompletedType, NewPageType
    <3> HIDE DEF new
    <3>3. page'[p] = new /\ jobs' = jobs /\ jobs[pg.job].state = "completed"
      BY <1>1, <2>3, <3>1 DEF new
    <3>4. QED
      BY <3>2, <3>3 DEF Shown
  <2>4. CASE \/ jobs[pg.job].state = "failed" /\ page' = [page EXCEPT ![p] = [pg EXCEPT !.status = "failed"]]
             \/ page' = [page EXCEPT ![p] = [pg EXCEPT !.status = "timeout"]]
    BY <1>2, <2>4
  <2>5. CASE page' = [page EXCEPT ![p] = [pg EXCEPT !.polls = pg.polls + 1]]
    <3> DEFINE new == [pg EXCEPT !.polls = pg.polls + 1]
    <3>1. page'[p] = new /\ page' = [page EXCEPT ![p] = new]
      BY <1>1, <2>5 DEF TypeInv, Shape
    <3>2. new \in PageStates
      <4>1. page'[p] \in PageStates
        BY PageType DEF TablesInv, TypeInv, Shape
      <4>2. QED
        BY <3>1, <4>1
    <3>3. new.status = pg.status /\ new.job = pg.job /\ new.built = pg.built
          /\ new.number = pg.number /\ new.list = pg.list
      BY <1>1 DEF PageStates
    <3> HIDE DEF new
    <3>4. QED
      BY <1>1, <2>1, <3>1, <3>2, <3>3, ShownOfStatus
  <2>6. QED
    BY <2>2, <2>3, <2>4, <2>5
<1>8. CASE LoseAnswer(p)
  <2>1. page' = [page EXCEPT ![p] = [pg EXCEPT !.status = "error"]]
    BY <1>8 DEF LoseAnswer
  <2>2. QED
    BY <1>2, <2>1
<1>9. ASSUME NEW list \in Lists, NEW number \in 1 .. MaxJobs,
             page' = [page EXCEPT ![p] = [pg EXCEPT !.number = number, !.list = list]],
             pg.built # 0 /\ "rows" \notin list.todo /\ number = 1 =>
               pg.built \in ToSet(list.items) \/ Len(list.items) = PageSize,
             list.status = "ready" => list.todo = {}
      PROVE  Shown(p)'
  <2> DEFINE new == [pg EXCEPT !.number = number, !.list = list]
  <2>1. new \in PageStates /\ new.status = pg.status /\ new.job = pg.job /\ new.built = pg.built
        /\ new.number = number /\ new.list = list
    BY <1>1 DEF PageStates
  <2>2. page' = [page EXCEPT ![p] = new]
    BY <1>9
  <2> HIDE DEF new
  <2>3. QED
    BY <1>1, <1>9, <2>1, <2>2, ShownOfList DEF Shows
<1>10. ASSUME NEW q \in {"count", "rows"}, ListRead(p, q) PROVE Shown(p)'
  <2> DEFINE left == pg.list.todo \ {q}
             status == IF left = {} THEN "ready" ELSE "loading"
             new == IF q = "count"
                      THEN [pg.list EXCEPT !.todo = left, !.total = Len(created), !.status = status]
                      ELSE [pg.list EXCEPT !.todo = left, !.items = OnPage(pg.number), !.status = status]
  <2>1. page' = [page EXCEPT ![p].list = new] /\ q \in pg.list.todo
    BY <1>10 DEF ListRead
  <2>2. pg.number \in 1 .. MaxJobs
    BY <1>1 DEF PageStates
  <2>3. OnPage(pg.number) \in Seq(JobIds) /\ Len(created) \in Nat
    BY <1>1, <2>2, PageOfTables DEF TypeInv, Shape
  <2>4. left \in SUBSET {"count", "rows"} /\ status \in {"loading", "ready"}
        /\ (status = "ready" => left = {})
    BY <1>1 DEF Lists
  <2>5. "rows" \in pg.list.todo \/ (q = "count" /\ "rows" \notin left => "rows" \notin pg.list.todo)
    OBVIOUS
  <2>6. q = "rows" \/ (q = "count" /\ ("rows" \in left <=> "rows" \in pg.list.todo))
    OBVIOUS
  <2> HIDE DEF left, status
  <2>7. new \in Lists /\ new.todo = left /\ new.status = status
        /\ (q = "count" => new.items = pg.list.items)
        /\ (q = "rows" => new.items = OnPage(pg.number))
    BY <1>1, <2>3, <2>4 DEF Lists
  <2> HIDE DEF new
  <2>8. page' = [page EXCEPT ![p] = [pg EXCEPT !.number = pg.number, !.list = new]]
    BY <1>1, <2>1 DEF PageStates, TypeInv, Shape
  <2>9. pg.built # 0 /\ "rows" \notin new.todo /\ pg.number = 1 =>
          pg.built \in ToSet(new.items) \/ Len(new.items) = PageSize
    <3>1. CASE q = "rows"
      BY <1>1, <2>7, <3>1, ReadShows
    <3>2. CASE q = "count"
      BY <2>6, <2>7, <3>2 DEF Shown, Shows
    <3>3. QED
      BY <3>1, <3>2
  <2>10. QED
    BY <1>9, <2>2, <2>4, <2>7, <2>8, <2>9
<1>11. ASSUME NEW n \in 1 .. MaxJobs, TurnPage(p, n) PROVE Shown(p)'
  <2>1. page' = [page EXCEPT ![p] = [pg EXCEPT !.number = n, !.list = Loading]]
    BY <1>1, <1>11 DEF TurnPage, PageStates
  <2>2. QED
    BY <1>9, <2>1, NewPageType
<1>12. QED
  BY <1>3, <1>4, <1>5, <1>6, <1>7, <1>8, <1>10, <1>11 DEF PageOnly

LEMMA ShownOfSubmit ==
  ASSUME TablesInv, TablesInv', [Next]_vars, NEW p \in Pages, Shown(p), Submit(p)
  PROVE  Shown(p)'
<1> DEFINE pg == page[p]
<1>1. PICK j \in Unused :
        page' = [page EXCEPT ![p].status = "submitting", ![p].job = j, ![p].polls = 0]
  BY DEF Submit
<1> DEFINE new == [pg EXCEPT !.status = "submitting", !.job = j, !.polls = 0]
<1>2. pg \in PageStates /\ TypeInv
  BY PageType DEF TablesInv
<1>3. page' = [page EXCEPT ![p] = new] /\ page'[p] = new
  BY <1>1 DEF TablesInv, TypeInv, Shape
<1>4. new \in PageStates
  <2>1. page'[p] \in PageStates
    BY DEF TablesInv, TypeInv, Shape
  <2>2. QED
    BY <1>3, <2>1
<1>5. new.status = "submitting" /\ new.built = pg.built /\ new.number = pg.number
      /\ new.list = pg.list
  BY <1>2 DEF PageStates
<1>6. pg.built # 0 => jobs'[pg.built].state = "completed"
  <2>1. pg.built # 0 => pg.built \in JobIds /\ jobs[pg.built].state = "completed"
    BY <1>2, Numbers DEF PageStates, Shown
  <2>2. QED
    BY <2>1, SettledStays
<1> HIDE DEF new
<1>7. QED
  BY <1>2, <1>3, <1>4, <1>5, <1>6, ShownOfStatus

LEMMA ShownStep ==
  ASSUME TablesInv, TablesInv', ShownInv, [Next]_vars
  PROVE  ShownInv'
<1> USE DEF ShownInv
<1>1. CASE UNCHANGED page
  BY <1>1, ShownStays
<1>2. ASSUME NEW p \in Pages, PageOnly(p) \/ Submit(p) PROVE ShownInv'
  <2>1. \A q \in Pages \ {p} : page'[q] = page[q]
    <3>1. CASE PageOnly(p)
      BY <3>1, PageOnlyStep DEF PageAfter, TablesInv, TypeInv, Shape
    <3>2. CASE Submit(p)
      BY <3>2 DEF Submit, TablesInv, TypeInv, Shape
    <3>3. QED
      BY <1>2, <3>1, <3>2
  <2>2. Shown(p)'
    BY <1>2, ShownOfPage, ShownOfSubmit
  <2>3. QED
    BY <2>1, <2>2, ShownStays
<1>3. CASE UNCHANGED vars
  BY <1>1, <1>3 DEF vars
<1>4. ASSUME NEW j \in JobIds, Serving(j) \/ Waits(j) PROVE UNCHANGED page
  BY <1>4, ServingStep, WaitsStep DEF ServingAfter, WaitsAfter, TablesInv
<1>5. ASSUME NEW i \in Instances,
             HasTable(i) \/ CreateTable(i) \/ RollBack(i) \/ LoseRecord(i) \/ RecordMigration(i)
      PROVE  UNCHANGED page
  BY <1>5, HasTableStep, CreateTableStep, RollBackStep, RecordMigrationStep DEF RunAfter, TablesInv
<1>6. ASSUME NEW i \in Instances, TakeJob(i) \/ RecordFailed(i) \/ CompleteJob(i) \/ Crash(i)
      PROVE  UNCHANGED page
  BY <1>6, TakeJobStep, LetGoStep, CrashStep DEF TakenAfter, LetGo, CrashAfter, TablesInv
<1>7. ASSUME NEW j \in JobIds, NEW f \in Fields, RemoveField(j, f) PROVE UNCHANGED page
  BY <1>7 DEF RemoveField
<1>8. CASE Next
  BY <1>1, <1>2, <1>4, <1>5, <1>6, <1>7, <1>8, Steps DEF TablesInv
<1>9. QED
  BY <1>3, <1>8

\* What a page shows of its submission is final, and the table it saw built is
\* on the first page of the catalog or newer ones fill that page, whatever
\* workers, requests, crashes and other pages do meanwhile.
THEOREM PagesShowWhatBecomes == Spec => []PageShowsWhatBecomes
<1>1. Init => ShownInv
  BY NewPageType DEF Init, ShownInv, Shown
<1>2. TablesInv /\ TablesInv' /\ ShownInv /\ [Next]_vars => ShownInv'
  BY ShownStep
<1>3. TablesInv /\ ShownInv => PageShowsWhatBecomes
  <2> SUFFICES ASSUME TablesInv, ShownInv, NEW p \in Pages
               PROVE  LET pg == page[p] IN
                      /\ pg.status = "failed" => jobs[pg.job].state = "failed"
                      /\ pg.status = "refused" => jobs[pg.job].state = "none"
                      /\ pg.built # 0 => jobs[pg.built].state = "completed"
                      /\ pg.built # 0 /\ pg.list.status = "ready" /\ pg.number = 1 =>
                           \/ pg.built \in ToSet(pg.list.items)
                           \/ Len(pg.list.items) = PageSize
    BY DEF PageShowsWhatBecomes
  <2>1. Shown(p)
    BY DEF ShownInv
  <2>2. QED
    BY <2>1 DEF Shown, Shows
<1>4. QED
  BY <1>1, <1>2, <1>3, TablesInvariant, PTL DEF Spec
=============================================================================
