-------------------------- MODULE FieldEditorProofs --------------------------
(***************************************************************************)
(* What the edits of a table's fields, and the page that submits them,     *)
(* guarantee for every number of backend instances, fields, jobs and       *)
(* retries, and in every world: what the page says of its submission is    *)
(* so, a job is completed only after every step of it was recorded, and no *)
(* addition leads beyond twice the limit of fields; where one worker is at *)
(* work, columns and metadata agree in the end.                            *)
(***************************************************************************)
EXTENDS FieldEditor, FiniteSetTheorems, WellFoundedInduction, TLAPS

-----------------------------------------------------------------------------
(* Sequences and finite sets *)

\* A set of naturals that is not empty and bounded has a greatest member.
LEMMA Greatest ==
  ASSUME NEW bound \in Nat, NEW T \in SUBSET (0 .. bound), T # {}
  PROVE  \E n \in T : \A m \in T : m <= n
<1> DEFINE R == OpToRel(<, Nat)
           D == {bound - n : n \in T}
<1>1. IsWellFoundedOn(R, Nat)
  BY NatLessThanWellFounded
<1>2. \A x, y \in Nat : x < y => <<x, y>> \in R
  BY DEF OpToRel
<1> HIDE DEF R
<1>3. D \subseteq Nat /\ D # {}
  <2>1. PICK t : t \in T
    OBVIOUS
  <2>2. bound - t \in D
    BY <2>1
  <2>3. \A n \in T : bound - n \in Nat
    OBVIOUS
  <2>4. QED
    BY <2>2, <2>3
<1>4. PICK d \in D : \A y \in D : ~ (<<y, d>> \in R)
  BY <1>1, <1>3, WFMin
<1>5. PICK n \in T : d = bound - n
  OBVIOUS
<1>6. \A m \in T : ~ (bound - m < bound - n)
  BY <1>2, <1>3, <1>4, <1>5
<1>7. QED
  BY <1>6

-----------------------------------------------------------------------------
(* The inductive invariant of the edits                                      *)

WorkerPCs == {"idle", "step", "record", "recordFailure", "metadata", "complete", "reject"}
RequestPCs == {"idle", "lock", "read", "admit", "enqueue", "invalidate"}
WorkerTypes == [pc : WorkerPCs, job : 0 .. MaxJobs, n : Nat, stage : Stages]
RequestTypes ==
  [pc : RequestPCs, edits : Seq(Edits), todo : SUBSET {"count", "pending"}, count : Nat,
   pending : Nat]
Requested == Seq(Edits) \ {<<>>}

\* The world keeps everything but what it has left.
WorldInv ==
  /\ world = [field \in DOMAIN world |-> world[field]]
  /\ {"instances", "initial", "requests", "jobs", "maxFields", "kinds", "left",
      "gestures", "choices", "additions"} \subseteq DOMAIN world
  /\ world.requests \subseteq Requested
  /\ world.choices \subseteq Types \ {Relation}
  /\ world.additions \subseteq Fields \X Types

TableInv == columns \in [Columns -> Column] /\ meta \in Schema

\* A job that may still be run has an attempt left, and a job that waits is in
\* the queue once.
JobsOK ==
  /\ jobs \in [JobIds -> Job]
  /\ \A j \in JobIds :
       /\ jobs[j].state # "none" => jobs[j].edits # <<>>
       /\ jobs[j].state \in Pending => jobs[j].made < RetryCount /\ jobs[j].stalls <= MaxStalls
QueueOK ==
  /\ queue \in Seq(JobIds)
  /\ \A n \in 1 .. Len(queue) : jobs[queue[n]].state = "wait"
  /\ \A m, n \in 1 .. Len(queue) : queue[m] = queue[n] => m = n

\* A worker is at a position of its job, on which no other worker is.
Works(i) == worker[i].pc # "idle"
JobOf(i) == jobs[worker[i].job]
WorkersOK ==
  /\ worker \in [Instances -> WorkerTypes]
  /\ \A i \in Instances :
       Works(i) => /\ worker[i].job \in JobIds /\ JobOf(i).state = "active"
                   /\ worker[i].n \in 1 .. Len(JobOf(i).edits)
  /\ \A i, k \in Instances : Works(i) /\ Works(k) /\ worker[i].job = worker[k].job => i = k

RequestsOK ==
  /\ req \in [Instances -> RequestTypes]
  /\ \A i \in Instances : req[i].pc # "idle" => req[i].edits # <<>>
  /\ lock \in Instances \union {Nobody}
CachesOK ==
  /\ read \in [Instances -> Schema \union {NoSchema}]
  /\ cache \in [Instances -> Schema \union {NoSchema}]

\* The steps of edit n of a job have their rows in _meta_migrations.
EditRecorded(j, n) == {n} \X StepsOf(jobs[j].edits[n]) \subseteq recorded[j]

\* What a worker has run has been recorded: the edits before the one it is at,
\* and the stages of that one before its stage; behind the last step, all.
ProgressOf(i) ==
  LET w == worker[i]
      j == worker[i].job
  IN  /\ \A n \in 1 .. Len(JobOf(i).edits) :
           n < w.n \/ w.pc \in {"metadata", "complete"} => EditRecorded(j, n)
      /\ w.pc \in {"step", "record"} =>
           /\ w.stage \in StepsOf(JobOf(i).edits[w.n])
           /\ w.stage = "backfill-column" => <<w.n, "add-shadow-column">> \in recorded[j]
           /\ w.stage = "cutover-column" =>
                {<<w.n, "add-shadow-column">>, <<w.n, "backfill-column">>} \subseteq recorded[j]
RecordsOK ==
  /\ recorded \in [JobIds -> SUBSET (Nat \X Stages)]
  /\ \A j \in JobIds : recorded[j] \subseteq (1 .. Len(jobs[j].edits)) \X Stages
  /\ \A j \in JobIds : jobs[j].state = "none" => recorded[j] = {}
  /\ \A i \in Instances : Works(i) => ProgressOf(i)
  /\ \A j \in JobIds : jobs[j].state = "completed" =>
       \A n \in 1 .. Len(jobs[j].edits) : EditRecorded(j, n)

\* What a field that no other job edits becomes by the edits of a job is what
\* _meta_fields says of it once the metadata effects have been applied.
Becomes(edits, f) ==
  LET last == edits[LastEditOf(f, edits)] IN IF last.op = "remove" THEN Absent ELSE last.type
Only(j, f) ==
  Touches(jobs[j].edits, f) /\ \A k \in Accepted \ {j} : ~Touches(jobs[k].edits, f)
Applied(j) ==
  \/ jobs[j].state = "completed"
  \/ \E i \in Instances : worker[i].pc = "complete" /\ worker[i].job = j
MetaOK ==
  \A j \in JobIds, f \in Fields :
    Applied(j) /\ Only(j, f) => meta[f] = Becomes(jobs[j].edits, f)

WorkInv == JobsOK /\ QueueOK /\ WorkersOK /\ RecordsOK /\ MetaOK
EditsInv == WorldInv /\ TableInv /\ WorkInv /\ RequestsOK /\ CachesOK

-----------------------------------------------------------------------------
(* Types                                                                     *)

LEMMA Constants ==
  /\ MaxJobs \in Nat /\ RetryCount \in Nat \ {0} /\ MaxStalls \in Nat /\ JobIds = 1 .. MaxJobs
  /\ Nobody \notin Instances /\ NoSchema \notin Schema /\ Absent \notin Types
  /\ Fields \subseteq Columns /\ Shadow \in [Fields -> Columns]
BY ConstantsAssumption DEF JobIds, Schema

LEMMA IdleTypes ==
  /\ NoJob \in Job /\ IdleWorker \in WorkerTypes /\ IdleRequest \in RequestTypes
  /\ NoJob.state = "none" /\ NoJob.edits = <<>> /\ NoJob.made = 0 /\ NoJob.stalls = 0
  /\ IdleWorker.pc = "idle" /\ IdleRequest.pc = "idle" /\ IdleRequest.edits = <<>>
<1>1. 0 \in 0 .. RetryCount /\ 0 \in 0 .. MaxStalls + 1 /\ 0 \in 0 .. MaxJobs
  BY Constants
<1>2. NoJob \in Job /\ NoJob.state = "none" /\ NoJob.edits = <<>> /\ NoJob.made = 0 /\ NoJob.stalls = 0
  BY <1>1 DEF NoJob, Job, JobStates
<1>3. IdleWorker \in WorkerTypes /\ IdleWorker.pc = "idle"
  BY <1>1 DEF IdleWorker, WorkerTypes, WorkerPCs, Stages
<1>4. IdleRequest \in RequestTypes /\ IdleRequest.pc = "idle" /\ IdleRequest.edits = <<>>
  BY DEF IdleRequest, RequestTypes, RequestPCs
<1>5. QED
  BY <1>2, <1>3, <1>4

\* The stages of an edit.
LEMMA StagesOf ==
  ASSUME NEW e \in Edits
  PROVE  /\ e.op \in {"add", "remove", "modify"} /\ e.field \in Fields /\ e.type \in Types
         /\ FirstStage[e.op] \in StepsOf(e) /\ FirstStage[e.op] \in Stages
         /\ FirstStage[e.op] \notin {"backfill-column", "cutover-column"}
         /\ StepsOf(e) \subseteq Stages
         /\ FirstStage[e.op] = "add-shadow-column" <=> e.op = "modify"
<1>1. e.op \in {"add", "remove", "modify"} /\ e.field \in Fields /\ e.type \in Types
  BY DEF Edits
<1>2. FirstStage["add"] = "add-column" /\ FirstStage["remove"] = "drop-column"
        /\ FirstStage["modify"] = "add-shadow-column"
  BY DEF FirstStage
<1>3. QED
  BY <1>1, <1>2 DEF StepsOf, Stages

LEMMA NextStages ==
  /\ DOMAIN NextStage = {"add-shadow-column", "backfill-column"}
  /\ NextStage["add-shadow-column"] = "backfill-column"
  /\ NextStage["backfill-column"] = "cutover-column"
BY DEF NextStage

\* A job goes to another state, and the others stay; its edits stay as well.
Goes(j, state) ==
  /\ jobs' \in [JobIds -> Job]
  /\ \A k \in JobIds \ {j} : jobs'[k] = jobs[k]
  /\ jobs'[j].state = state
Moves(j, state) == Goes(j, state) /\ jobs'[j].edits = jobs[j].edits

LEMMA StateMoves ==
  ASSUME JobsOK, NEW j \in JobIds, NEW state \in JobStates,
         jobs' = [jobs EXCEPT ![j].state = state]
  PROVE  Moves(j, state) /\ jobs'[j].made = jobs[j].made /\ jobs'[j].stalls = jobs[j].stalls
<1>1. jobs[j] \in Job
  BY DEF JobsOK
<1>2. jobs'[j] = [jobs[j] EXCEPT !.state = state] /\ \A k \in JobIds \ {j} : jobs'[k] = jobs[k]
  BY DEF JobsOK
<1>3. /\ jobs'[j] \in Job /\ jobs'[j].state = state /\ jobs'[j].edits = jobs[j].edits
      /\ jobs'[j].made = jobs[j].made /\ jobs'[j].stalls = jobs[j].stalls
  BY <1>1, <1>2 DEF Job
<1>4. jobs' \in [JobIds -> Job]
  BY <1>2, <1>3 DEF JobsOK
<1>5. QED
  BY <1>2, <1>3, <1>4 DEF Goes, Moves

\* What depends on jobs by their edits and by whether they have been accepted.
LEMMA MovesKeepEdits ==
  ASSUME NEW j \in JobIds, NEW state \in JobStates \ {"none"}, jobs[j].state # "none",
         Moves(j, state)
  PROVE  /\ \A k \in JobIds : jobs'[k].edits = jobs[k].edits
         /\ Accepted' = Accepted
         /\ \A k \in JobIds : \A f : Only(k, f)' <=> Only(k, f)
<1>1. \A k \in JobIds : jobs'[k].edits = jobs[k].edits
  BY DEF Goes, Moves
<1>2. Accepted' = Accepted
  BY DEF Goes, Moves, Accepted
<1>3. ASSUME NEW k \in JobIds, NEW f PROVE Only(k, f)' <=> Only(k, f)
  BY <1>1, <1>2 DEF Only, Accepted
<1>4. QED
  BY <1>1, <1>2, <1>3

LEMMA FieldsCounted ==
  ASSUME JobsOK
  PROVE  /\ Cardinality(FieldsOf(meta)) \in Nat /\ PendingAdditions \in Nat
         /\ IsFiniteSet(UNION {{j} \X AdditionsOf(jobs[j].edits) :
                                  j \in {x \in JobIds : jobs[x].state \in Pending}})
<1>1. IsFiniteSet(Fields)
  BY EditorAssumption
<1>2. FieldsOf(meta) \subseteq Fields
  BY DEF FieldsOf
<1>3. Cardinality(FieldsOf(meta)) \in Nat
  BY <1>1, <1>2, FS_Subset, FS_CardinalityType
<1> DEFINE P == {x \in JobIds : jobs[x].state \in Pending}
           g == [j \in P |-> {j} \X AdditionsOf(jobs[j].edits)]
           T == {{j} \X AdditionsOf(jobs[j].edits) : j \in P}
<1>4. IsFiniteSet(P)
  BY Constants, FS_Interval, FS_Subset
<1>5. g \in Surjection(P, T)
  BY DEF Surjection
<1>6. IsFiniteSet(T)
  BY <1>4, <1>5, FS_Surjection
<1>7. ASSUME NEW j \in P PROVE IsFiniteSet({j} \X AdditionsOf(jobs[j].edits))
  <2>1. jobs[j] \in Job
    BY DEF JobsOK
  <2>2. AdditionsOf(jobs[j].edits) \subseteq 1 .. Len(jobs[j].edits) /\ Len(jobs[j].edits) \in Nat
    BY <2>1 DEF AdditionsOf, Job
  <2>3. IsFiniteSet(1 .. Len(jobs[j].edits))
    BY <2>2, FS_Interval
  <2>4. IsFiniteSet(AdditionsOf(jobs[j].edits))
    BY <2>2, <2>3, FS_Subset
  <2>5. QED
    BY <2>4, FS_Singleton, FS_Product
<1>8. \A S \in T : IsFiniteSet(S)
  BY <1>7
<1>9. IsFiniteSet(UNION T)
  BY <1>6, <1>8, FS_UNION
<1>10. PendingAdditions \in Nat
  BY <1>9, FS_CardinalityType DEF PendingAdditions
<1>11. QED
  BY <1>3, <1>9, <1>10

-----------------------------------------------------------------------------
(* The worker                                                                *)

LEMMA WorkerIs ==
  ASSUME WorkInv, NEW i \in Instances, Works(i)
  PROVE  /\ worker[i] \in WorkerTypes /\ worker[i].job \in JobIds
         /\ JobOf(i) \in Job /\ JobOf(i).state = "active" /\ JobOf(i).edits \in Seq(Edits)
         /\ worker[i].n \in 1 .. Len(JobOf(i).edits) /\ worker[i].stage \in Stages
         /\ Edit(worker[i]) \in Edits
         /\ JobOf(i).made < RetryCount /\ JobOf(i).stalls <= MaxStalls
<1>1. worker[i] \in WorkerTypes /\ worker[i].job \in JobIds /\ JobOf(i).state = "active"
        /\ worker[i].n \in 1 .. Len(JobOf(i).edits)
  BY DEF WorkInv, WorkersOK
<1>2. JobOf(i) \in Job /\ JobOf(i).made < RetryCount /\ JobOf(i).stalls <= MaxStalls
  BY <1>1 DEF WorkInv, JobsOK, JobOf, Pending
<1>3. JobOf(i).edits \in Seq(Edits)
  BY <1>2 DEF Job
<1>4. JobOf(i).edits[worker[i].n] \in Edits
  BY <1>1, <1>3
<1>5. QED
  BY <1>1, <1>2, <1>3, <1>4 DEF Edit, JobOf, WorkerTypes

\* A job that is under way is not in the queue.
LEMMA NotQueued ==
  ASSUME QueueOK, NEW j \in JobIds, jobs[j].state # "wait"
  PROVE  \A n \in 1 .. Len(queue) : queue[n] # j
BY DEF QueueOK

LEMMA QueueStays ==
  ASSUME QueueOK, NEW j \in JobIds, NEW state, jobs[j].state # "wait", Goes(j, state),
         UNCHANGED queue
  PROVE  QueueOK'
<1>1. \A n \in 1 .. Len(queue) : queue[n] # j /\ queue[n] \in JobIds
  BY NotQueued DEF QueueOK
<1>2. QED
  BY <1>1 DEF QueueOK, Goes

\* It waits behind the others, or before them.
LEMMA QueueGrows ==
  ASSUME QueueOK, NEW j \in JobIds, jobs[j].state # "wait", Goes(j, "wait"),
         queue' = Append(queue, j) \/ queue' = <<j>> \o queue
  PROVE  QueueOK'
<1>1. /\ \A n \in 1 .. Len(queue) : queue[n] # j /\ queue[n] \in JobIds
      /\ queue \in Seq(JobIds) /\ Len(queue) \in Nat
  BY NotQueued DEF QueueOK
<1>9. jobs'[j].state = "wait" /\ \A n \in 1 .. Len(queue) : jobs'[queue[n]].state = "wait"
  BY <1>1 DEF QueueOK, Goes
<1>2. CASE queue' = Append(queue, j)
  <2>1. /\ queue' \in Seq(JobIds) /\ Len(queue') = Len(queue) + 1
        /\ \A n \in 1 .. Len(queue') : queue'[n] = IF n = Len(queue) + 1 THEN j ELSE queue[n]
    BY <1>1, <1>2
  <2>2. \A n \in 1 .. Len(queue') : n # Len(queue) + 1 => n \in 1 .. Len(queue)
    BY <1>1, <2>1
  <2>3. \A n \in 1 .. Len(queue') : jobs'[queue'[n]].state = "wait"
    BY <1>1, <1>9, <2>1, <2>2
  <2>4. \A m, n \in 1 .. Len(queue') : queue'[m] = queue'[n] => m = n
    <3>1. SUFFICES ASSUME NEW m \in 1 .. Len(queue'), NEW n \in 1 .. Len(queue'),
                          queue'[m] = queue'[n]
                   PROVE  m = n
      OBVIOUS
    <3>2. (m = Len(queue) + 1) <=> (n = Len(queue) + 1)
      BY <1>1, <2>1, <2>2, <3>1
    <3>3. m # Len(queue) + 1 => m = n
      BY <1>1, <2>1, <2>2, <3>1, <3>2 DEF QueueOK
    <3>4. QED
      BY <3>2, <3>3, <1>1, <2>1
  <2>5. QED
    BY <2>1, <2>3, <2>4 DEF QueueOK
<1>3. CASE queue' = <<j>> \o queue
  <2>1. /\ queue' \in Seq(JobIds) /\ Len(queue') = Len(queue) + 1
        /\ \A n \in 1 .. Len(queue') : queue'[n] = IF n = 1 THEN j ELSE queue[n - 1]
    BY <1>1, <1>3
  <2>2. \A n \in 1 .. Len(queue') : n # 1 => n - 1 \in 1 .. Len(queue)
    BY <1>1, <2>1
  <2>3. \A n \in 1 .. Len(queue') : jobs'[queue'[n]].state = "wait"
    BY <1>1, <1>9, <2>1, <2>2
  <2>4. \A m, n \in 1 .. Len(queue') : queue'[m] = queue'[n] => m = n
    <3>1. SUFFICES ASSUME NEW m \in 1 .. Len(queue'), NEW n \in 1 .. Len(queue'),
                          queue'[m] = queue'[n]
                   PROVE  m = n
      OBVIOUS
    <3>2. (m = 1) <=> (n = 1)
      BY <1>1, <2>1, <2>2, <3>1
    <3>3. m # 1 => m - 1 = n - 1
      BY <1>1, <2>1, <2>2, <3>1, <3>2 DEF QueueOK
    <3>4. QED
      BY <3>2, <3>3, <1>1, <2>1
  <2>5. QED
    BY <2>1, <2>3, <2>4 DEF QueueOK
<1>4. QED
  BY <1>2, <1>3

\* Worker i leaves its job, which goes to another state.
LEMMA LeavesWorkers ==
  ASSUME WorkInv, NEW i \in Instances, Works(i), NEW state \in JobStates \ {"none", "active"},
         Moves(worker[i].job, state), worker' = [worker EXCEPT ![i] = IdleWorker]
  PROVE  WorkersOK'
<1> DEFINE j == worker[i].job
<1>1. j \in JobIds /\ jobs[j].state = "active"
  BY WorkerIs DEF JobOf
<1>2. worker' \in [Instances -> WorkerTypes] /\ ~Works(i)'
        /\ \A k \in Instances \ {i} : worker'[k] = worker[k]
  BY IdleTypes DEF WorkInv, WorkersOK, Works
<1>3. ASSUME NEW k \in Instances, Works(k)'
      PROVE  k # i /\ Works(k) /\ worker'[k] = worker[k] /\ worker[k].job # j
               /\ worker[k].job \in JobIds
  BY <1>2, <1>3, WorkerIs DEF WorkInv, WorkersOK, Works
<1>4. \A k \in Instances : Works(k)' => JobOf(k)' = JobOf(k)
  BY <1>3 DEF Goes, Moves, JobOf
<1>5. QED
  BY <1>2, <1>3, <1>4 DEF WorkInv, WorkersOK, Works

LEMMA LeavesRecords ==
  ASSUME WorkInv, NEW i \in Instances, Works(i), NEW state \in JobStates \ {"none", "active"},
         Moves(worker[i].job, state), worker' = [worker EXCEPT ![i] = IdleWorker],
         UNCHANGED recorded, state = "completed" => worker[i].pc = "complete"
  PROVE  RecordsOK'
<1> DEFINE j == worker[i].job
<1>1. j \in JobIds /\ jobs[j].state = "active"
  BY WorkerIs DEF JobOf
<1>2. ~Works(i)' /\ \A k \in Instances \ {i} : worker'[k] = worker[k]
  BY IdleTypes DEF WorkInv, WorkersOK, Works
<1>3. \A k \in JobIds : jobs'[k].edits = jobs[k].edits
  BY <1>1, MovesKeepEdits
<1>4. ASSUME NEW k \in Instances, Works(k)'
      PROVE  k # i /\ Works(k) /\ worker'[k] = worker[k] /\ worker[k].job \in JobIds
  BY <1>2, <1>4, WorkerIs DEF Works
<1>5. \A k \in JobIds : \A n : EditRecorded(k, n)' <=> EditRecorded(k, n)
  BY <1>3 DEF EditRecorded
<1>6. ASSUME NEW k \in Instances, Works(k)' PROVE ProgressOf(k)'
  <2>1. ProgressOf(k)
    BY <1>4, <1>6 DEF WorkInv, RecordsOK
  <2>2. JobOf(k)'.edits = JobOf(k).edits
    BY <1>3, <1>4, <1>6 DEF JobOf
  <2>3. QED
    BY <1>4, <1>5, <1>6, <2>1, <2>2 DEF ProgressOf
<1>7. ASSUME NEW k \in JobIds, jobs'[k].state = "completed", NEW n \in 1 .. Len(jobs'[k].edits)
      PROVE  EditRecorded(k, n)'
  <2>1. CASE k = j
    <3>1. worker[i].pc = "complete"
      BY <1>7, <2>1 DEF Goes, Moves
    <3>2. ProgressOf(i) /\ n \in 1 .. Len(JobOf(i).edits)
      BY <1>3, <1>7, <2>1 DEF WorkInv, RecordsOK, JobOf
    <3>3. EditRecorded(j, n)
      BY <3>1, <3>2 DEF ProgressOf
    <3>4. QED
      BY <1>5, <1>1, <2>1, <3>3
  <2>2. CASE k # j
    <3>1. jobs'[k] = jobs[k]
      BY <1>7, <2>2 DEF Goes, Moves
    <3>2. EditRecorded(k, n)
      BY <1>7, <3>1 DEF WorkInv, RecordsOK
    <3>3. QED
      BY <1>5, <3>2
  <2>3. QED
    BY <2>1, <2>2
<1>8. \A k \in JobIds : jobs'[k].state = "none" => jobs[k].state = "none"
  BY <1>1 DEF Goes, Moves
<1>9. QED
  BY <1>3, <1>6, <1>7, <1>8 DEF WorkInv, RecordsOK

LEMMA LeavesMeta ==
  ASSUME WorkInv, NEW i \in Instances, Works(i), NEW state \in JobStates \ {"none", "active"},
         Moves(worker[i].job, state), worker' = [worker EXCEPT ![i] = IdleWorker],
         UNCHANGED meta, state = "completed" => worker[i].pc = "complete"
  PROVE  MetaOK'
<1> DEFINE j == worker[i].job
<1>1. j \in JobIds /\ jobs[j].state = "active"
  BY WorkerIs DEF JobOf
<1>2. /\ \A k \in JobIds : jobs'[k].edits = jobs[k].edits
      /\ \A k \in JobIds : \A f : Only(k, f)' <=> Only(k, f)
  BY <1>1, MovesKeepEdits
<1>3. \A k \in Instances : worker'[k].pc = "complete" => worker'[k] = worker[k]
  BY IdleTypes DEF WorkInv, WorkersOK
<1>4. \A k \in JobIds : jobs'[k].state = "completed" => Applied(k)
  BY <1>1 DEF Goes, Moves, Applied
<1>5. \A k \in JobIds : Applied(k)' => Applied(k)
  BY <1>3, <1>4 DEF Applied
<1>6. ASSUME NEW k \in JobIds, NEW f PROVE Becomes(jobs'[k].edits, f) = Becomes(jobs[k].edits, f)
  BY <1>2
<1>7. QED
  BY <1>2, <1>5, <1>6 DEF WorkInv, MetaOK

LEMMA JobsMove ==
  ASSUME JobsOK, NEW j \in JobIds, NEW state \in JobStates \ {"none"}, Moves(j, state),
         jobs[j].state # "none",
         state \in Pending => jobs'[j].made < RetryCount /\ jobs'[j].stalls <= MaxStalls
  PROVE  JobsOK'
<1>1. \A k \in JobIds \ {j} : jobs'[k] = jobs[k]
  BY DEF Goes, Moves
<1>2. jobs' \in [JobIds -> Job] /\ jobs'[j].state = state /\ jobs'[j].edits = jobs[j].edits
  BY DEF Goes, Moves
<1>3. jobs[j].edits # <<>>
  BY DEF JobsOK
<1>4. QED
  BY <1>1, <1>2, <1>3 DEF JobsOK

LEMMA RejectMoves ==
  ASSUME JobsOK, NEW j \in JobIds, NEW state \in JobStates, jobs[j].made < RetryCount,
         jobs' = [jobs EXCEPT ![j].state = state, ![j].made = @ + 1]
  PROVE  Moves(j, state) /\ jobs'[j].made = jobs[j].made + 1 /\ jobs'[j].stalls = jobs[j].stalls
<1>1. jobs[j] \in Job
  BY DEF JobsOK
<1>2. /\ \A k \in JobIds \ {j} : jobs'[k] = jobs[k]
      /\ jobs'[j] = [[jobs[j] EXCEPT !.state = state] EXCEPT !.made = jobs[j].made + 1]
      /\ DOMAIN jobs' = JobIds /\ jobs' = [k \in JobIds |-> jobs'[k]]
  BY DEF JobsOK
<1>3. jobs[j].made + 1 \in 0 .. RetryCount
  BY <1>1, Constants DEF Job
<1>4. /\ jobs'[j] \in Job /\ jobs'[j].state = state /\ jobs'[j].edits = jobs[j].edits
      /\ jobs'[j].made = jobs[j].made + 1 /\ jobs'[j].stalls = jobs[j].stalls
  BY <1>1, <1>2, <1>3 DEF Job
<1>5. \A k \in JobIds : jobs'[k] \in Job
  BY <1>2, <1>4 DEF JobsOK
<1>6. QED
  BY <1>2, <1>4, <1>5 DEF Goes, Moves

LEMMA StallMoves ==
  ASSUME JobsOK, NEW j \in JobIds, NEW state \in JobStates, jobs[j].stalls <= MaxStalls,
         jobs' = [jobs EXCEPT ![j].state = state, ![j].stalls = @ + 1]
  PROVE  Moves(j, state) /\ jobs'[j].made = jobs[j].made /\ jobs'[j].stalls = jobs[j].stalls + 1
<1>1. jobs[j] \in Job
  BY DEF JobsOK
<1>2. /\ \A k \in JobIds \ {j} : jobs'[k] = jobs[k]
      /\ jobs'[j] = [[jobs[j] EXCEPT !.state = state] EXCEPT !.stalls = jobs[j].stalls + 1]
      /\ DOMAIN jobs' = JobIds /\ jobs' = [k \in JobIds |-> jobs'[k]]
  BY DEF JobsOK
<1>3. jobs[j].stalls + 1 \in 0 .. MaxStalls + 1
  BY <1>1, Constants DEF Job
<1>4. /\ jobs'[j] \in Job /\ jobs'[j].state = state /\ jobs'[j].edits = jobs[j].edits
      /\ jobs'[j].made = jobs[j].made /\ jobs'[j].stalls = jobs[j].stalls + 1
  BY <1>1, <1>2, <1>3 DEF Job
<1>5. \A k \in JobIds : jobs'[k] \in Job
  BY <1>2, <1>4 DEF JobsOK
<1>6. QED
  BY <1>2, <1>4, <1>5 DEF Goes, Moves

\* process() has resolved or rejected, or its process has died.
LEMMA WorkLeaves ==
  ASSUME WorkInv, NEW i \in Instances, Works(i), NEW state \in JobStates \ {"none", "active"},
         Moves(worker[i].job, state), worker' = [worker EXCEPT ![i] = IdleWorker],
         state \in Pending => /\ jobs'[worker[i].job].made < RetryCount
                              /\ jobs'[worker[i].job].stalls <= MaxStalls,
         state = "completed" => worker[i].pc = "complete",
         \/ state = "wait" /\ queue' = <<worker[i].job>> \o queue
         \/ state # "wait" /\ UNCHANGED queue,
         UNCHANGED <<recorded, meta>>
  PROVE  WorkInv'
<1> DEFINE j == worker[i].job
<1>1. j \in JobIds /\ jobs[j].state = "active" /\ Goes(j, state)
  BY WorkerIs DEF JobOf, Moves
<1>2. JobsOK'
  BY <1>1, JobsMove DEF WorkInv
<1>3. QueueOK'
  BY <1>1, QueueGrows, QueueStays DEF WorkInv
<1>4. WorkersOK' /\ RecordsOK' /\ MetaOK'
  BY LeavesWorkers, LeavesRecords, LeavesMeta
<1>5. QED
  BY <1>2, <1>3, <1>4 DEF WorkInv

LEMMA CompleteWork ==
  ASSUME WorkInv, NEW i \in Instances, CompleteJob(i) PROVE WorkInv'
<1>1. Works(i) /\ worker[i].job \in JobIds
  BY WorkerIs DEF CompleteJob, Works
<1>2. "completed" \in JobStates \ {"none", "active"} /\ "completed" \notin Pending
  BY DEF JobStates, Pending
<1>3. Moves(worker[i].job, "completed")
  BY <1>1, <1>2, StateMoves DEF CompleteJob, WorkInv
<1>4. QED
  BY <1>1, <1>2, <1>3, WorkLeaves DEF CompleteJob, tableVars

LEMMA RejectWork ==
  ASSUME WorkInv, NEW i \in Instances, RejectJob(i) PROVE WorkInv'
<1> DEFINE j == worker[i].job
           state == IF jobs[j].made + 1 < RetryCount THEN "delayed" ELSE "failed"
<1>1. Works(i) /\ j \in JobIds /\ jobs[j].made < RetryCount /\ jobs[j].stalls <= MaxStalls
  BY WorkerIs DEF RejectJob, Works, JobOf
<1>2. state \in JobStates \ {"none", "active"} /\ state \notin {"wait", "completed"}
  BY DEF JobStates, Pending
<1>3. jobs' = [jobs EXCEPT ![j].state = state, ![j].made = @ + 1]
  BY DEF RejectJob
<1>4. Moves(j, state) /\ jobs'[j].made = jobs[j].made + 1 /\ jobs'[j].stalls = jobs[j].stalls
  BY <1>1, <1>2, <1>3, RejectMoves DEF WorkInv
<1>5. state \in Pending => jobs'[j].made < RetryCount /\ jobs'[j].stalls <= MaxStalls
  BY <1>1, <1>4 DEF Pending
<1>6. worker' = [worker EXCEPT ![i] = IdleWorker] /\ UNCHANGED <<queue, recorded, meta>>
  BY DEF RejectJob, tableVars
<1> HIDE DEF state
<1>7. QED
  BY <1>1, <1>2, <1>4, <1>5, <1>6, WorkLeaves

LEMMA CrashWork ==
  ASSUME WorkInv, NEW i \in Instances, Crash(i) PROVE WorkInv'
<1> DEFINE j == worker[i].job
           again == jobs[j].stalls < MaxStalls
           state == IF again THEN "wait" ELSE "failed"
<1>0. worker' = [worker EXCEPT ![i] = IdleWorker] /\ UNCHANGED <<recorded, meta>>
  BY DEF Crash, tableVars
<1>1. CASE ~Works(i)
  <2>1. UNCHANGED <<jobs, queue>>
    BY <1>1 DEF Crash, Works
  <2>2. worker' \in [Instances -> WorkerTypes] /\ ~Works(i)'
          /\ \A k \in Instances \ {i} : worker'[k] = worker[k]
    BY <1>0, IdleTypes DEF WorkInv, WorkersOK, Works
  <2>3. \A k \in Instances : Works(k)' => k # i /\ Works(k) /\ worker'[k] = worker[k]
    BY <2>2 DEF Works
  <2>4. WorkersOK'
    BY <2>1, <2>2, <2>3 DEF WorkInv, WorkersOK, JobOf, Works
  <2>5. \A k \in Instances : ProgressOf(k) /\ Works(k)' => ProgressOf(k)'
    BY <1>0, <2>1, <2>3 DEF ProgressOf, EditRecorded, JobOf
  <2>6. RecordsOK'
    BY <1>0, <2>1, <2>3, <2>5 DEF WorkInv, RecordsOK, EditRecorded
  <2>7. \A k \in JobIds : Applied(k)' => Applied(k)
    BY <2>1, <2>3 DEF Applied, Works
  <2>8. \A k \in JobIds : \A f : Only(k, f)' <=> Only(k, f)
    BY <2>1 DEF Only, Accepted
  <2>9. MetaOK'
    BY <1>0, <2>1, <2>7, <2>8 DEF WorkInv, MetaOK
  <2>10. JobsOK' /\ QueueOK'
    BY <2>1 DEF WorkInv, JobsOK, QueueOK
  <2>11. QED
    BY <2>4, <2>6, <2>9, <2>10 DEF WorkInv
<1>2. CASE Works(i)
  <2>1. j \in JobIds /\ jobs[j].stalls <= MaxStalls /\ jobs[j].made < RetryCount /\ jobs[j] \in Job
    BY <1>2, WorkerIs DEF JobOf
  <2>2. state \in JobStates \ {"none", "active"} /\ state # "completed"
    BY DEF JobStates, Pending
  <2>3. jobs' = [jobs EXCEPT ![j].state = state, ![j].stalls = @ + 1]
    BY <1>2 DEF Crash, Works
  <2>4. Moves(j, state) /\ jobs'[j].made = jobs[j].made /\ jobs'[j].stalls = jobs[j].stalls + 1
    BY <2>1, <2>2, <2>3, StallMoves DEF WorkInv
  <2>5. state \in Pending => jobs'[j].made < RetryCount /\ jobs'[j].stalls <= MaxStalls
    BY <2>1, <2>4, Constants DEF Pending, Job
  <2>6. \/ state = "wait" /\ queue' = <<j>> \o queue
        \/ state # "wait" /\ UNCHANGED queue
    BY <1>2 DEF Crash, Works
  <2> HIDE DEF state
  <2>7. QED
    BY <1>0, <1>2, <2>1, <2>2, <2>4, <2>5, <2>6, WorkLeaves
<1>3. QED
  BY <1>1, <1>2

-----------------------------------------------------------------------------
(* A worker goes on with its job                                             *)

\* Worker i goes from where it is to w, with the same job.
GoesOn(i, w) ==
  /\ worker' = [worker EXCEPT ![i] = w]
  /\ w \in WorkerTypes /\ w.pc # "idle" /\ w.job = worker[i].job
  /\ w.n \in 1 .. Len(JobOf(i).edits)
  /\ UNCHANGED <<jobs, queue>>
Records ==
  /\ recorded' \in [JobIds -> SUBSET (Nat \X Stages)]
  /\ \A j \in JobIds : recorded[j] \subseteq recorded'[j]

LEMMA GoesOnWorkers ==
  ASSUME WorkInv, NEW i \in Instances, Works(i), NEW w, GoesOn(i, w)
  PROVE  /\ JobsOK' /\ QueueOK' /\ WorkersOK'
         /\ worker'[i] = w /\ \A k \in Instances \ {i} : worker'[k] = worker[k]
         /\ \A k \in Instances : Works(k)' <=> Works(k)
         /\ \A k \in Instances : worker'[k].job = worker[k].job
<1>1. worker' \in [Instances -> WorkerTypes] /\ worker'[i] = w
        /\ \A k \in Instances \ {i} : worker'[k] = worker[k]
  BY DEF GoesOn, WorkInv, WorkersOK
<1>2. \A k \in Instances : (Works(k)' <=> Works(k)) /\ worker'[k].job = worker[k].job
  BY <1>1 DEF GoesOn, Works
<1>3. JobsOK' /\ QueueOK'
  BY DEF GoesOn, WorkInv, JobsOK, QueueOK
<1>4. \A k \in Instances : JobOf(k)' = JobOf(k)
  BY <1>2 DEF JobOf, GoesOn
<1>5. WorkersOK'
  BY <1>1, <1>2, <1>4 DEF GoesOn, WorkInv, WorkersOK
<1>6. QED
  BY <1>1, <1>2, <1>3, <1>5

LEMMA GoesOnRecords ==
  ASSUME WorkInv, NEW i \in Instances, Works(i), NEW w, GoesOn(i, w), Records, ProgressOf(i)',
         \A k \in JobIds : recorded'[k] \subseteq recorded[k]
           \union (IF k = worker[i].job THEN (1 .. Len(jobs[k].edits)) \X Stages ELSE {})
  PROVE  RecordsOK'
<1> DEFINE j == worker[i].job
<1>1. j \in JobIds /\ jobs[j].state = "active" /\ UNCHANGED jobs
  BY WorkerIs DEF JobOf, GoesOn
<1>2. \A k \in JobIds : recorded'[k] \subseteq (1 .. Len(jobs[k].edits)) \X Stages
  BY DEF WorkInv, RecordsOK
<1>3. \A k \in JobIds : jobs[k].state = "none" => recorded'[k] = {}
  BY <1>1 DEF WorkInv, RecordsOK
<1>4. \A k \in JobIds : \A n : EditRecorded(k, n) => EditRecorded(k, n)'
  BY <1>1 DEF Records, EditRecorded
<1>5. ASSUME NEW k \in Instances, Works(k)' PROVE ProgressOf(k)'
  <2>1. CASE k = i
    BY <2>1
  <2>2. CASE k # i
    <3>1. worker'[k] = worker[k] /\ Works(k) /\ ProgressOf(k) /\ worker[k].job \in JobIds
      BY <1>5, <2>2, GoesOnWorkers DEF WorkInv, RecordsOK, WorkersOK
    <3>2. JobOf(k)' = JobOf(k) /\ recorded[worker[k].job] \subseteq recorded'[worker'[k].job]
      BY <3>1, <1>1 DEF JobOf, Records
    <3>3. PICK m \in JobIds : m = worker[k].job /\ m = worker'[k].job
      BY <3>1
    <3>4. \A n : EditRecorded(m, n) => EditRecorded(m, n)'
      BY <1>4
    <3>5. QED
      BY <3>1, <3>2, <3>3, <3>4 DEF ProgressOf
  <2>3. QED
    BY <2>1, <2>2
<1>6. \A k \in JobIds : jobs'[k].state = "completed" =>
        \A n \in 1 .. Len(jobs'[k].edits) : EditRecorded(k, n)'
  BY <1>1, <1>4 DEF WorkInv, RecordsOK
<1>7. QED
  BY <1>1, <1>2, <1>3, <1>5, <1>6 DEF RecordsOK, Records

LEMMA GoesOnMeta ==
  ASSUME WorkInv, NEW i \in Instances, Works(i), NEW w, GoesOn(i, w), w.pc # "complete",
         UNCHANGED meta
  PROVE  MetaOK'
<1>1. \A k \in JobIds : Applied(k)' => Applied(k)
  BY GoesOnWorkers DEF Applied, GoesOn
<1>2. \A k \in JobIds : \A f : Only(k, f)' <=> Only(k, f)
  BY DEF Only, Accepted, GoesOn
<1>3. \A k \in JobIds : \A f : Becomes(jobs'[k].edits, f) = Becomes(jobs[k].edits, f)
  BY DEF GoesOn
<1>4. QED
  BY <1>1, <1>2, <1>3 DEF WorkInv, MetaOK

\* A worker that changes its pc only.
LEMMA PCMoves ==
  ASSUME WorkInv, NEW i \in Instances, Works(i), NEW pc \in WorkerPCs \ {"idle"},
         worker' = [worker EXCEPT ![i].pc = pc], UNCHANGED <<jobs, queue>>
  PROVE  /\ GoesOn(i, [worker[i] EXCEPT !.pc = pc])
         /\ worker'[i].pc = pc /\ worker'[i].job = worker[i].job
         /\ worker'[i].n = worker[i].n /\ worker'[i].stage = worker[i].stage
<1>1. worker[i] \in WorkerTypes /\ worker \in [Instances -> WorkerTypes]
  BY DEF WorkInv, WorkersOK
<1>2. [worker[i] EXCEPT !.pc = pc] \in WorkerTypes
  BY <1>1 DEF WorkerTypes
<1>3. worker' = [worker EXCEPT ![i] = [worker[i] EXCEPT !.pc = pc]]
  BY <1>1
<1>4. worker'[i] = [worker[i] EXCEPT !.pc = pc]
  BY <1>1
<1>5. [worker[i] EXCEPT !.pc = pc].pc = pc /\ [worker[i] EXCEPT !.pc = pc].job = worker[i].job
        /\ [worker[i] EXCEPT !.pc = pc].n = worker[i].n
        /\ [worker[i] EXCEPT !.pc = pc].stage = worker[i].stage
  BY <1>1 DEF WorkerTypes
<1>6. worker[i].n \in 1 .. Len(JobOf(i).edits)
  BY WorkerIs
<1>7. QED
  BY <1>2, <1>3, <1>4, <1>5, <1>6 DEF GoesOn

\* ... to a state that says no more about what has been recorded.
LEMMA PCWork ==
  ASSUME WorkInv, NEW i \in Instances, Works(i), NEW pc \in WorkerPCs \ {"idle"},
         worker' = [worker EXCEPT ![i].pc = pc], UNCHANGED <<jobs, queue, recorded, meta>>,
         \/ pc \in {"recordFailure", "reject"}
         \/ pc = "record" /\ worker[i].pc = "step"
  PROVE  WorkInv'
<1>1. /\ GoesOn(i, [worker[i] EXCEPT !.pc = pc])
      /\ worker'[i].pc = pc /\ worker'[i].job = worker[i].job
      /\ worker'[i].n = worker[i].n /\ worker'[i].stage = worker[i].stage
  BY PCMoves
<1>2. JobsOK' /\ QueueOK' /\ WorkersOK'
  BY <1>1, GoesOnWorkers
<1>3. Records
  BY DEF Records, WorkInv, RecordsOK
<1>4. ProgressOf(i)'
  <2>1. ProgressOf(i)
    BY DEF WorkInv, RecordsOK
  <2>2. JobOf(i)' = JobOf(i) /\ recorded[worker[i].job] = recorded'[worker'[i].job]
    BY <1>1 DEF JobOf
  <2>3. \A m, n : EditRecorded(m, n)' <=> EditRecorded(m, n)
    BY DEF EditRecorded
  <2>4. QED
    BY <1>1, <2>1, <2>2, <2>3 DEF ProgressOf
<1>5. RecordsOK'
  BY <1>1, <1>3, <1>4, GoesOnRecords
<1>6. [worker[i] EXCEPT !.pc = pc].pc # "complete"
  BY <1>1, GoesOnWorkers
<1>7. MetaOK'
  BY <1>1, <1>6, GoesOnMeta
<1>8. QED
  BY <1>2, <1>5, <1>7 DEF WorkInv

LEMMA ExecuteWork ==
  ASSUME WorkInv, NEW i \in Instances, ExecuteStep(i) PROVE WorkInv'
<1>1. Works(i) /\ worker[i].pc = "step" /\ UNCHANGED <<jobs, queue, recorded, meta>>
  BY DEF ExecuteStep, Works, queueVars
<1>2. PICK pc \in {"record", "recordFailure"} : worker' = [worker EXCEPT ![i].pc = pc]
  BY DEF ExecuteStep
<1>3. pc \in WorkerPCs \ {"idle"}
  BY DEF WorkerPCs
<1>4. QED
  BY <1>1, <1>2, <1>3, PCWork

LEMMA RecordFailedWork ==
  ASSUME WorkInv, NEW i \in Instances, RecordFailedMigration(i) PROVE WorkInv'
BY PCWork DEF RecordFailedMigration, Works, queueVars, tableVars, WorkerPCs

\* Where a worker goes when a step has been recorded.
LEMMA StartEditIs ==
  ASSUME NEW w \in WorkerTypes, w.job \in JobIds, NEW n \in 1 .. Len(jobs[w.job].edits),
         jobs[w.job].edits \in Seq(Edits)
  PROVE  /\ StartEdit(w, n) \in WorkerTypes /\ StartEdit(w, n).pc = "step"
         /\ StartEdit(w, n).job = w.job /\ StartEdit(w, n).n = n
         /\ StartEdit(w, n).stage = FirstStage[jobs[w.job].edits[n].op]
<1>1. jobs[w.job].edits[n] \in Edits /\ n \in Nat
  OBVIOUS
<1>2. FirstStage[jobs[w.job].edits[n].op] \in Stages
  BY <1>1, StagesOf
<1> DEFINE stage == FirstStage[jobs[w.job].edits[n].op]
<1>3. StartEdit(w, n) = [w EXCEPT !.pc = "step", !.n = n, !.stage = stage]
  BY DEF StartEdit
<1> HIDE DEF stage
<1>4. stage \in Stages
  BY <1>2 DEF stage
<1>5. QED
  BY <1>1, <1>3, <1>4 DEF WorkerTypes, WorkerPCs, stage

LEMMA RecordMigrationWork ==
  ASSUME WorkInv, NEW i \in Instances, RecordMigration(i) PROVE WorkInv'
<1> DEFINE w == worker[i]
           j == worker[i].job
           e == Edit(worker[i])
<1>1. /\ Works(i) /\ w.pc = "record" /\ w \in WorkerTypes /\ j \in JobIds
      /\ jobs[j] \in Job /\ jobs[j].edits \in Seq(Edits) /\ w.n \in 1 .. Len(jobs[j].edits)
      /\ w.stage \in Stages /\ e \in Edits /\ e = jobs[j].edits[w.n]
  BY WorkerIs DEF RecordMigration, Works, JobOf, Edit
<1>2. UNCHANGED <<jobs, queue, meta>>
  BY DEF RecordMigration, queueVars, tableVars
<1>3. ProgressOf(i)
  BY <1>1 DEF WorkInv, RecordsOK
<1>4. CASE worker' = [worker EXCEPT ![i].pc = "recordFailure"] /\ UNCHANGED recorded
  BY <1>1, <1>2, <1>4, PCWork DEF WorkerPCs
<1>5. CASE /\ recorded' = [recorded EXCEPT ![j] = @ \union {Position(w)}]
           /\ worker' = [worker EXCEPT ![i] = AfterStep(@)]
  <2> DEFINE v == AfterStep(worker[i])
  <2>1. recorded \in [JobIds -> SUBSET (Nat \X Stages)]
    BY DEF WorkInv, RecordsOK
  <2>2. Position(w) = <<w.n, w.stage>> /\ Position(w) \in (1 .. Len(jobs[j].edits)) \X Stages
    BY <1>1 DEF Position
  <2>3. /\ Records /\ Position(w) \in recorded'[j]
        /\ \A k \in JobIds : recorded'[k] \subseteq recorded[k]
             \union (IF k = j THEN (1 .. Len(jobs[k].edits)) \X Stages ELSE {})
    BY <1>1, <1>5, <2>1, <2>2 DEF Records
  <2>4. w.stage \in StepsOf(e)
    BY <1>1, <1>3 DEF ProgressOf, JobOf
  <2>5. \A k \in JobIds : \A n : EditRecorded(k, n) => EditRecorded(k, n)'
    BY <1>2, <2>3 DEF EditRecorded, Records
  <2>6. \A n \in 1 .. Len(jobs[j].edits) : n < w.n => EditRecorded(j, n)
    BY <1>1, <1>3 DEF ProgressOf, JobOf
  <2>7. w.stage \notin DOMAIN NextStage => {w.n} \X StepsOf(e) \subseteq recorded'[j]
    <3>1. SUFFICES ASSUME w.stage \notin DOMAIN NextStage PROVE {w.n} \X StepsOf(e) \subseteq recorded'[j]
      OBVIOUS
    <3>2. CASE e.op = "modify"
      <4>1. w.stage = "cutover-column"
        BY <3>1, <3>2, <2>4, NextStages DEF StepsOf
      <4>2. {<<w.n, "add-shadow-column">>, <<w.n, "backfill-column">>} \subseteq recorded[j]
        BY <4>1, <1>1, <1>3 DEF ProgressOf
      <4>3. recorded[j] \subseteq recorded'[j]
        BY <1>1, <2>3 DEF Records
      <4>4. QED
        BY <3>2, <4>1, <4>2, <4>3, <2>2, <2>3 DEF StepsOf
    <3>3. CASE e.op # "modify"
      BY <3>3, <2>2, <2>3, <2>4 DEF StepsOf
    <3>4. QED
      BY <3>2, <3>3
  <2>8. CASE w.stage \in DOMAIN NextStage
    <3> DEFINE stage == NextStage[w.stage]
    <3>1. v = [w EXCEPT !.pc = "step", !.stage = stage]
      BY <2>8 DEF AfterStep
    <3>2. /\ stage \in {"backfill-column", "cutover-column"} /\ stage \in Stages
          /\ w.stage \in {"add-shadow-column", "backfill-column"}
          /\ stage = "backfill-column" => w.stage = "add-shadow-column"
          /\ stage = "cutover-column" => w.stage = "backfill-column"
      BY <2>8, NextStages DEF Stages
    <3>3. e.op = "modify"
      BY <1>1, <2>4, <3>2, StagesOf DEF StepsOf, FirstStage
    <3>4. stage \in StepsOf(e)
      BY <3>2, <3>3 DEF StepsOf
    <3> HIDE DEF stage
    <3>5. /\ v \in WorkerTypes /\ v.pc = "step" /\ v.job = j /\ v.n = w.n /\ v.stage = stage
      BY <1>1, <3>1, <3>2 DEF WorkerTypes, WorkerPCs
    <3> HIDE DEF v
    <3>6. GoesOn(i, v)
      BY <1>1, <1>2, <1>5, <3>5 DEF GoesOn, v, JobOf
    <3>7. worker'[i] = v
      BY <1>1, <3>6, GoesOnWorkers
    <3>8. ProgressOf(i)'
      <4>1. <<w.n, w.stage>> \in recorded'[j]
        BY <2>2, <2>3
      <4>2. stage = "cutover-column" => <<w.n, "add-shadow-column">> \in recorded'[j]
        BY <1>1, <1>3, <2>3, <3>2 DEF ProgressOf, Records
      <4>4. worker'[i].job = j /\ worker'[i].n = w.n /\ worker'[i].pc = "step" /\ worker'[i].stage = stage
        BY <3>5, <3>7
      <4>5. JobOf(i)' = jobs[j]
        BY <1>2, <4>4 DEF JobOf
      <4>6. PICK m \in JobIds : m = j
        BY <1>1
      <4>7. \A n \in 1 .. Len(jobs[j].edits) : n < w.n => EditRecorded(m, n)'
        BY <2>5, <2>6, <4>6
      <4>8. QED
        BY <1>1, <3>2, <3>4, <4>1, <4>2, <4>4, <4>5, <4>6, <4>7 DEF ProgressOf
    <3>9. RecordsOK'
      BY <1>1, <2>3, <3>6, <3>8, GoesOnRecords
    <3>10. QED
      BY <1>1, <1>2, <3>5, <3>6, <3>9, GoesOnWorkers, GoesOnMeta DEF WorkInv
  <2>9. CASE w.stage \notin DOMAIN NextStage /\ w.n < Len(jobs[j].edits)
    <3>1. v = StartEdit(w, w.n + 1) /\ w.n + 1 \in 1 .. Len(jobs[j].edits)
      BY <1>1, <2>9 DEF AfterStep
    <3>2. /\ v \in WorkerTypes /\ v.pc = "step" /\ v.job = j /\ v.n = w.n + 1
          /\ v.stage = FirstStage[jobs[j].edits[w.n + 1].op]
      BY <1>1, <3>1, StartEditIs
    <3> HIDE DEF v
    <3>3. GoesOn(i, v)
      BY <1>1, <1>2, <1>5, <3>1, <3>2 DEF GoesOn, v, JobOf
    <3>4. worker'[i] = v
      BY <1>1, <3>3, GoesOnWorkers
    <3>5. ProgressOf(i)'
      <4>1. worker'[i].job = j /\ worker'[i].n = w.n + 1 /\ worker'[i].pc = "step"
              /\ worker'[i].stage = FirstStage[jobs[j].edits[w.n + 1].op]
        BY <3>2, <3>4
      <4>2. JobOf(i)' = jobs[j]
        BY <1>2, <4>1 DEF JobOf
      <4>3. PICK m \in JobIds : m = j
        BY <1>1
      <4>4. \A n \in 1 .. Len(jobs[j].edits) : n < w.n + 1 => EditRecorded(m, n)'
        <5>0. PICK n \in Nat : n = w.n
          BY <1>1
        <5>1. EditRecorded(m, n)'
          BY <1>1, <1>2, <2>7, <2>9, <4>3, <5>0 DEF EditRecorded
        <5>2. QED
          BY <1>1, <2>5, <2>6, <4>3, <5>0, <5>1
      <4>5. jobs[j].edits[w.n + 1] \in Edits
        BY <1>1, <3>1
      <4>6. /\ worker'[i].stage \in StepsOf(jobs[j].edits[w.n + 1])
            /\ worker'[i].stage \notin {"backfill-column", "cutover-column"}
        BY <4>1, <4>5, StagesOf
      <4>7. QED
        BY <1>1, <4>1, <4>2, <4>3, <4>4, <4>6 DEF ProgressOf
    <3>6. RecordsOK'
      BY <1>1, <2>3, <3>3, <3>5, GoesOnRecords
    <3>7. QED
      BY <1>1, <1>2, <3>2, <3>3, <3>6, GoesOnWorkers, GoesOnMeta DEF WorkInv
  <2>10. CASE w.stage \notin DOMAIN NextStage /\ ~ (w.n < Len(jobs[j].edits))
    <3>1. v = [w EXCEPT !.pc = "metadata"] /\ w.n = Len(jobs[j].edits)
      BY <1>1, <2>10 DEF AfterStep
    <3>2. /\ v \in WorkerTypes /\ v.pc = "metadata" /\ v.job = j /\ v.n = w.n
      BY <1>1, <3>1 DEF WorkerTypes, WorkerPCs
    <3> HIDE DEF v
    <3>3. GoesOn(i, v)
      BY <1>1, <1>2, <1>5, <3>1, <3>2 DEF GoesOn, v, JobOf
    <3>4. worker'[i] = v
      BY <1>1, <3>3, GoesOnWorkers
    <3>5. ProgressOf(i)'
      <4>1. worker'[i].job = j /\ worker'[i].n = w.n /\ worker'[i].pc = "metadata"
        BY <3>2, <3>4
      <4>2. JobOf(i)' = jobs[j]
        BY <1>2, <4>1 DEF JobOf
      <4>3. PICK m \in JobIds, n \in Nat : m = j /\ n = w.n
        BY <1>1
      <4>4. EditRecorded(m, n)'
        BY <1>1, <1>2, <2>7, <2>10, <4>3 DEF EditRecorded
      <4>5. \A k \in 1 .. Len(jobs[j].edits) : EditRecorded(m, k)'
        BY <1>1, <2>5, <2>6, <3>1, <4>3, <4>4
      <4>6. QED
        BY <4>1, <4>2, <4>3, <4>5 DEF ProgressOf
    <3>6. RecordsOK'
      BY <1>1, <2>3, <3>3, <3>5, GoesOnRecords
    <3>7. QED
      BY <1>1, <1>2, <3>2, <3>3, <3>6, GoesOnWorkers, GoesOnMeta DEF WorkInv
  <2>11. QED
    BY <2>8, <2>9, <2>10
<1>6. QED
  BY <1>4, <1>5 DEF RecordMigration

-----------------------------------------------------------------------------
(* The metadata effects                                                      *)

\* The last edit of a field is one of it.
LEMMA LastEditIs ==
  ASSUME NEW edits \in Seq(Edits), NEW f, Touches(edits, f)
  PROVE  /\ LastEditOf(f, edits) \in 1 .. Len(edits)
         /\ edits[LastEditOf(f, edits)] \in Edits /\ edits[LastEditOf(f, edits)].field = f
         /\ \A m \in LastEditOf(f, edits) + 1 .. Len(edits) : edits[m].field # f
<1> DEFINE T == {n \in 1 .. Len(edits) : edits[n].field = f}
<1>1. T \in SUBSET (0 .. Len(edits)) /\ T # {} /\ Len(edits) \in Nat
  BY DEF Touches
<1>2. PICK n \in T : \A m \in T : m <= n
  BY <1>1, Greatest
<1>3. \A m \in n + 1 .. Len(edits) : edits[m].field # f
  <2>1. SUFFICES ASSUME NEW m \in n + 1 .. Len(edits), edits[m].field = f PROVE FALSE
    OBVIOUS
  <2>2. m \in T /\ m > n /\ n \in Nat
    BY <2>1, <1>1, <1>2
  <2>3. QED
    BY <2>2, <1>2
<1>4. \E k \in DOMAIN edits :
        edits[k].field = f /\ \A m \in k + 1 .. Len(edits) : edits[m].field # f
  BY <1>2, <1>3
<1>5. /\ LastEditOf(f, edits) \in DOMAIN edits /\ edits[LastEditOf(f, edits)].field = f
      /\ \A m \in LastEditOf(f, edits) + 1 .. Len(edits) : edits[m].field # f
  BY <1>4 DEF LastEditOf
<1>6. QED
  BY <1>5

LEMMA BecomesType ==
  ASSUME NEW edits \in Seq(Edits), NEW f, Touches(edits, f)
  PROVE  Becomes(edits, f) \in Types \union {Absent}
<1>1. edits[LastEditOf(f, edits)].type \in Types
  BY LastEditIs DEF Edits
<1>2. QED
  BY <1>1 DEF Becomes

LEMMA MetadataAfterIs ==
  ASSUME NEW edits \in Seq(Edits), meta \in Schema
  PROVE  /\ MetadataAfter(edits) \in Schema
         /\ \A f \in Fields :
              MetadataAfter(edits)[f] = IF Touches(edits, f) THEN Becomes(edits, f) ELSE meta[f]
<1>1. \A f \in Fields :
        MetadataAfter(edits)[f] = IF Touches(edits, f) THEN Becomes(edits, f) ELSE meta[f]
  BY DEF MetadataAfter, Becomes
<1>2. \A f \in Fields : MetadataAfter(edits)[f] \in Types \union {Absent}
  BY <1>1, BecomesType DEF Schema
<1>3. MetadataAfter(edits) = [f \in Fields |-> MetadataAfter(edits)[f]]
  BY DEF MetadataAfter
<1>4. QED
  BY <1>1, <1>2, <1>3 DEF Schema

LEMMA ApplyWork ==
  ASSUME WorkInv, meta \in Schema, NEW i \in Instances, ApplyMetadataEffects(i)
  PROVE  WorkInv' /\ meta' \in Schema
<1> DEFINE j == worker[i].job
<1>1. /\ Works(i) /\ worker[i].pc = "metadata" /\ j \in JobIds /\ jobs[j].state = "active"
      /\ jobs[j].edits \in Seq(Edits)
  BY WorkerIs DEF ApplyMetadataEffects, Works, JobOf
<1>2. UNCHANGED <<jobs, queue, recorded>>
  BY DEF ApplyMetadataEffects, queueVars
<1>3. CASE worker' = [worker EXCEPT ![i].pc = "reject"] /\ UNCHANGED meta
  BY <1>1, <1>2, <1>3, PCWork DEF WorkerPCs
<1>4. CASE /\ meta' = MetadataAfter(jobs[j].edits)
           /\ worker' = [worker EXCEPT ![i].pc = "complete"]
  <2>1. /\ GoesOn(i, [worker[i] EXCEPT !.pc = "complete"])
        /\ worker'[i].pc = "complete" /\ worker'[i].job = j
        /\ worker'[i].n = worker[i].n /\ worker'[i].stage = worker[i].stage
    BY <1>1, <1>2, <1>4, PCMoves DEF WorkerPCs
  <2>2. JobsOK' /\ QueueOK' /\ WorkersOK'
          /\ \A k \in Instances \ {i} : worker'[k] = worker[k]
    BY <1>1, <2>1, GoesOnWorkers
  <2>3. Records
    BY <1>2 DEF Records, WorkInv, RecordsOK
  <2>4. ProgressOf(i)'
    <3>1. ProgressOf(i)
      BY <1>1 DEF WorkInv, RecordsOK
    <3>2. JobOf(i)' = JobOf(i) /\ JobOf(i) = jobs[j]
      BY <1>2, <2>1 DEF JobOf
    <3>3. \A m, n : EditRecorded(m, n)' <=> EditRecorded(m, n)
      BY <1>2 DEF EditRecorded
    <3>4. QED
      BY <1>1, <2>1, <3>1, <3>2, <3>3 DEF ProgressOf
  <2>5. RecordsOK'
    BY <1>1, <1>2, <2>1, <2>3, <2>4, GoesOnRecords
  <2>6. meta' \in Schema
          /\ \A f \in Fields :
               meta'[f] = IF Touches(jobs[j].edits, f) THEN Becomes(jobs[j].edits, f) ELSE meta[f]
    BY <1>1, <1>4, MetadataAfterIs
  <2>7. ASSUME NEW k \in JobIds, NEW f \in Fields, Applied(k)', Only(k, f)'
        PROVE  meta'[f] = Becomes(jobs[k].edits, f)
    <3>1. Only(k, f)
      BY <1>2, <2>7 DEF Only, Accepted
    <3>2. CASE k = j
      BY <2>6, <3>1, <3>2 DEF Only
    <3>3. CASE k # j
      <4>1. Applied(k)
        BY <1>2, <2>1, <2>2, <2>7, <3>3 DEF Applied
      <4>2. j \in Accepted \ {k}
        BY <1>1, <3>3 DEF Accepted
      <4>3. ~Touches(jobs[j].edits, f)
        BY <3>1, <4>2 DEF Only
      <4>4. meta[f] = Becomes(jobs[k].edits, f)
        BY <3>1, <4>1 DEF WorkInv, MetaOK
      <4>5. QED
        BY <2>6, <4>3, <4>4
    <3>4. QED
      BY <3>2, <3>3
  <2>8. MetaOK'
    BY <1>2, <2>7 DEF MetaOK
  <2>9. QED
    BY <2>2, <2>5, <2>6, <2>8 DEF WorkInv
<1>5. QED
  BY <1>3, <1>4 DEF ApplyMetadataEffects

-----------------------------------------------------------------------------
(* The queue                                                                 *)

\* Workers and their records, when a job moves that no worker has.
LEMMA JobElsewhere ==
  ASSUME WorkInv, NEW j \in JobIds, NEW state, Goes(j, state), jobs[j].state # "active",
         UNCHANGED <<worker, recorded>>
  PROVE  /\ \A k \in Instances : Works(k) => worker[k].job # j /\ JobOf(k)' = JobOf(k)
         /\ WorkersOK'
         /\ \A k \in Instances : Works(k) => ProgressOf(k)'
<1>1. \A k \in Instances : Works(k) =>
        worker[k].job # j /\ worker[k].job \in JobIds /\ JobOf(k)' = JobOf(k)
  BY WorkerIs DEF Goes, JobOf
<1>2. \A k \in Instances : Works(k)' <=> Works(k)
  BY DEF Works
<1>3. WorkersOK'
  BY <1>1, <1>2 DEF WorkInv, WorkersOK
<1>4. ASSUME NEW k \in Instances, Works(k) PROVE ProgressOf(k)'
  <2>1. ProgressOf(k)
    BY <1>4 DEF WorkInv, RecordsOK
  <2>2. PICK m \in JobIds : m = worker[k].job /\ m # j
    BY <1>1, <1>4
  <2>3. \A n : EditRecorded(m, n)' <=> EditRecorded(m, n)
    BY <2>2 DEF EditRecorded, Goes
  <2>4. JobOf(k)' = JobOf(k)
    BY <1>1, <1>4
  <2>5. QED
    BY <2>1, <2>2, <2>3, <2>4 DEF ProgressOf
<1>5. QED
  BY <1>1, <1>3, <1>4

LEMMA PromoteWork ==
  ASSUME WorkInv, NEW j \in JobIds, PromoteJob(j) PROVE WorkInv'
<1>1. /\ jobs[j].state = "delayed" /\ queue' = Append(queue, j)
      /\ UNCHANGED <<worker, recorded, meta>>
      /\ jobs' = [jobs EXCEPT ![j].state = "wait"]
  BY DEF PromoteJob, tableVars
<1>2. "wait" \in JobStates /\ "wait" \in Pending /\ "delayed" \in Pending
  BY DEF JobStates, Pending
<1>3. /\ Moves(j, "wait") /\ Goes(j, "wait")
      /\ jobs'[j].made = jobs[j].made /\ jobs'[j].stalls = jobs[j].stalls
  BY <1>1, <1>2, StateMoves DEF WorkInv, Moves
<1>4. jobs[j].made < RetryCount /\ jobs[j].stalls <= MaxStalls
  BY <1>1, <1>2 DEF WorkInv, JobsOK
<1>5. JobsOK' /\ QueueOK'
  BY <1>1, <1>2, <1>3, <1>4, JobsMove, QueueGrows DEF WorkInv
<1>6. WorkersOK' /\ \A k \in Instances : Works(k) => ProgressOf(k)'
  BY <1>1, <1>3, JobElsewhere
<1>7. /\ \A k \in JobIds : jobs'[k].edits = jobs[k].edits
      /\ \A k \in JobIds : \A f : Only(k, f)' <=> Only(k, f)
  BY <1>1, <1>2, <1>3, MovesKeepEdits
<1>8. \A k \in JobIds : /\ jobs'[k].state = "none" => jobs[k].state = "none"
                        /\ jobs'[k].state = "completed" => jobs[k].state = "completed"
  BY <1>3 DEF Goes
<1>9. RecordsOK'
  BY <1>1, <1>6, <1>7, <1>8 DEF WorkInv, RecordsOK, EditRecorded, Works
<1>10. \A k \in JobIds : Applied(k)' => Applied(k)
  BY <1>1, <1>8 DEF Applied
<1>11. \A k \in JobIds : \A f : Becomes(jobs'[k].edits, f) = Becomes(jobs[k].edits, f)
  BY <1>7
<1>12. MetaOK'
  BY <1>1, <1>7, <1>10, <1>11 DEF WorkInv, MetaOK
<1>13. QED
  BY <1>5, <1>6, <1>9, <1>12 DEF WorkInv

LEMMA TakeWork ==
  ASSUME WorkInv, NEW i \in Instances, TakeJob(i) PROVE WorkInv'
<1> DEFINE j == Head(queue)
           v == StartEdit([IdleWorker EXCEPT !.job = Head(queue)], 1)
<1>1. /\ ~Works(i) /\ queue \in Seq(JobIds) /\ queue # <<>> /\ queue' = Tail(queue)
      /\ jobs' = [jobs EXCEPT ![j].state = "active"]
      /\ worker' = [worker EXCEPT ![i] = v] /\ UNCHANGED <<recorded, meta>>
  BY DEF TakeJob, tableVars, Works, WorkInv, QueueOK
<1>2. j \in JobIds /\ j = queue[1] /\ Len(queue) \in Nat \ {0}
  BY <1>1
<1>3. jobs[j].state = "wait"
  BY <1>2 DEF WorkInv, QueueOK
<1>4. /\ jobs[j] \in Job /\ jobs[j].edits \in Seq(Edits) /\ jobs[j].edits # <<>>
      /\ jobs[j].made < RetryCount /\ jobs[j].stalls <= MaxStalls
  BY <1>2, <1>3 DEF WorkInv, JobsOK, Job, Pending
<1>5. 1 \in 1 .. Len(jobs[j].edits) /\ jobs[j].edits[1] \in Edits
  BY <1>4
<1>6. "active" \in JobStates /\ "active" \in Pending
  BY DEF JobStates, Pending
<1>7. /\ Moves(j, "active") /\ Goes(j, "active")
      /\ jobs'[j].made = jobs[j].made /\ jobs'[j].stalls = jobs[j].stalls
  BY <1>1, <1>2, <1>6, StateMoves DEF WorkInv, Moves
<1>8. JobsOK'
  BY <1>2, <1>3, <1>4, <1>6, <1>7, JobsMove DEF WorkInv
<1>9. /\ v \in WorkerTypes /\ v.pc = "step" /\ v.job = j /\ v.n = 1
      /\ v.stage = FirstStage[jobs[j].edits[1].op]
  <2> DEFINE w == [IdleWorker EXCEPT !.job = Head(queue)]
  <2>1. w \in WorkerTypes /\ w.job = j
    BY <1>2, IdleTypes, Constants DEF WorkerTypes
  <2> HIDE DEF w
  <2>2. /\ StartEdit(w, 1) \in WorkerTypes /\ StartEdit(w, 1).pc = "step"
        /\ StartEdit(w, 1).job = j /\ StartEdit(w, 1).n = 1
        /\ StartEdit(w, 1).stage = FirstStage[jobs[j].edits[1].op]
    BY <1>2, <1>4, <1>5, <2>1, StartEditIs
  <2>3. QED
    BY <2>2 DEF w
<1> HIDE DEF v
<1>10. QueueOK'
  <2>1. /\ Tail(queue) \in Seq(JobIds) /\ Len(Tail(queue)) = Len(queue) - 1
        /\ \A n \in 1 .. Len(Tail(queue)) : Tail(queue)[n] = queue[n + 1] /\ n + 1 \in 1 .. Len(queue)
    BY <1>1, <1>2
  <2>2. 1 \in 1 .. Len(queue)
    BY <1>2
  <2>3. \A n \in 1 .. Len(queue') : queue'[n] \in JobIds /\ queue'[n] # j
    BY <1>1, <1>2, <2>1, <2>2 DEF WorkInv, QueueOK
  <2>4. \A n \in 1 .. Len(queue') : jobs[queue'[n]].state = "wait"
    BY <1>1, <2>1 DEF WorkInv, QueueOK
  <2>5. \A n \in 1 .. Len(queue') : jobs'[queue'[n]].state = "wait"
    BY <2>3, <2>4, <1>7 DEF Goes
  <2>6. \A m, n \in 1 .. Len(queue') : queue'[m] = queue'[n] => m = n
    <3>1. SUFFICES ASSUME NEW m \in 1 .. Len(queue'), NEW n \in 1 .. Len(queue'),
                          queue'[m] = queue'[n]
                   PROVE  m = n
      OBVIOUS
    <3>2. queue[m + 1] = queue[n + 1] /\ m + 1 \in 1 .. Len(queue) /\ n + 1 \in 1 .. Len(queue)
      BY <1>1, <2>1, <3>1
    <3>3. m + 1 = n + 1
      BY <3>2 DEF WorkInv, QueueOK
    <3>4. QED
      BY <3>3
  <2>7. QED
    BY <1>1, <2>1, <2>5, <2>6 DEF QueueOK
<1>11. worker' \in [Instances -> WorkerTypes] /\ worker'[i] = v
         /\ \A k \in Instances \ {i} : worker'[k] = worker[k]
  BY <1>1, <1>9 DEF WorkInv, WorkersOK
<1>12. \A k \in Instances \ {i} : Works(k)' =>
         /\ Works(k) /\ worker[k].job # j /\ worker[k].job \in JobIds
         /\ JobOf(k)' = JobOf(k)
  <2>1. SUFFICES ASSUME NEW k \in Instances \ {i}, Works(k)'
                 PROVE  /\ Works(k) /\ worker[k].job # j /\ worker[k].job \in JobIds
                        /\ JobOf(k)' = JobOf(k)
    OBVIOUS
  <2>2. Works(k)
    BY <2>1, <1>11 DEF Works
  <2>3. worker[k].job \in JobIds /\ JobOf(k).state = "active"
    BY <2>2, WorkerIs
  <2>4. worker[k].job # j
    BY <1>3, <2>3 DEF JobOf
  <2>5. QED
    BY <2>2, <2>3, <2>4, <1>7, <1>11 DEF Goes, JobOf
<1>13. Works(i)' /\ worker'[i].job = j /\ JobOf(i)' = jobs'[j] /\ jobs'[j].state = "active"
         /\ jobs'[j].edits = jobs[j].edits
  BY <1>7, <1>9, <1>11 DEF Works, JobOf, Moves, Goes
<1>14. WorkersOK'
  <2>1. ASSUME NEW k \in Instances, Works(k)'
        PROVE  /\ worker'[k].job \in JobIds /\ JobOf(k)'.state = "active"
               /\ worker'[k].n \in 1 .. Len(JobOf(k)'.edits)
    <3>1. CASE k = i
      BY <3>1, <1>2, <1>5, <1>9, <1>11, <1>13
    <3>2. CASE k # i
      <4>1. Works(k) /\ worker[k].job \in JobIds /\ JobOf(k)' = JobOf(k) /\ worker'[k] = worker[k]
        BY <2>1, <3>2, <1>11, <1>12
      <4>2. QED
        BY <4>1 DEF WorkInv, WorkersOK
    <3>3. QED
      BY <3>1, <3>2
  <2>2. ASSUME NEW k \in Instances, NEW l \in Instances, Works(k)', Works(l)',
               worker'[k].job = worker'[l].job
        PROVE  k = l
    <3>1. CASE k # i /\ l # i
      BY <3>1, <2>2, <1>11, <1>12 DEF WorkInv, WorkersOK
    <3>2. CASE k = i \/ l = i
      BY <3>2, <2>2, <1>11, <1>12, <1>13
    <3>3. QED
      BY <3>1, <3>2
  <2>3. QED
    BY <1>11, <2>1, <2>2 DEF WorkersOK
<1>15. /\ \A k \in JobIds : jobs'[k].edits = jobs[k].edits
       /\ \A k \in JobIds : \A f : Only(k, f)' <=> Only(k, f)
  BY <1>2, <1>3, <1>6, <1>7, MovesKeepEdits
<1>16. \A k \in JobIds : \A n : EditRecorded(k, n)' <=> EditRecorded(k, n)
  BY <1>1, <1>15 DEF EditRecorded
<1>17. ASSUME NEW k \in Instances, Works(k)' PROVE ProgressOf(k)'
  <2>1. CASE k = i
    <3>1. jobs'[j].edits[1] \in Edits /\ jobs'[j].edits = jobs[j].edits
      BY <1>2, <1>5, <1>15
    <3>2. /\ worker'[i].pc = "step" /\ worker'[i].n = 1
          /\ worker'[i].stage \in StepsOf(jobs'[j].edits[1])
          /\ worker'[i].stage \notin {"backfill-column", "cutover-column"}
      BY <1>5, <1>9, <1>11, <3>1, StagesOf
    <3>3. \A n \in 1 .. Len(jobs'[j].edits) : ~ (n < 1)
      OBVIOUS
    <3>4. QED
      BY <2>1, <1>13, <3>2, <3>3 DEF ProgressOf
  <2>2. CASE k # i
    <3>1. /\ Works(k) /\ worker[k].job \in JobIds /\ JobOf(k)' = JobOf(k)
          /\ worker'[k] = worker[k] /\ ProgressOf(k)
      BY <1>17, <2>2, <1>11, <1>12 DEF WorkInv, RecordsOK
    <3>2. PICK m \in JobIds : m = worker[k].job /\ m = worker'[k].job
      BY <3>1
    <3>3. \A n : EditRecorded(m, n)' <=> EditRecorded(m, n)
      BY <1>16
    <3>4. QED
      BY <1>1, <3>1, <3>2, <3>3 DEF ProgressOf
  <2>3. QED
    BY <2>1, <2>2
<1>18. \A k \in JobIds : /\ jobs'[k].state = "none" => jobs[k].state = "none"
                         /\ jobs'[k].state = "completed" => jobs[k].state = "completed"
  BY <1>7 DEF Goes
<1>19. RecordsOK'
  BY <1>1, <1>15, <1>16, <1>17, <1>18 DEF WorkInv, RecordsOK
<1>20. \A k \in JobIds : Applied(k)' => Applied(k)
  BY <1>9, <1>11, <1>18 DEF Applied
<1>21. \A k \in JobIds : \A f : Becomes(jobs'[k].edits, f) = Becomes(jobs[k].edits, f)
  BY <1>15
<1>22. MetaOK'
  BY <1>1, <1>15, <1>20, <1>21 DEF WorkInv, MetaOK
<1>23. QED
  BY <1>8, <1>10, <1>14, <1>19, <1>22 DEF WorkInv

\* A new job waits.
LEMMA EnqueueWork ==
  ASSUME WorkInv, NEW i \in Instances, req[i].edits \in Requested, EnqueueDdlJob(i)
  PROVE  WorkInv'
<1>1. PICK j \in JobIds :
        /\ jobs[j].state = "none" /\ queue' = Append(queue, j)
        /\ jobs' = [jobs EXCEPT ![j] = [NoJob EXCEPT !.edits = req[i].edits, !.state = "wait"]]
  BY DEF EnqueueDdlJob
<1>2. UNCHANGED <<worker, recorded, meta>>
  BY DEF EnqueueDdlJob, tableVars
<1> DEFINE edits == req[i].edits
           new == [NoJob EXCEPT !.edits = req[i].edits, !.state = "wait"]
<1>3. new \in Job /\ new.edits = edits /\ new.state = "wait" /\ new.made = 0 /\ new.stalls = 0
  <2>1. "wait" \in JobStates
    BY DEF JobStates, Pending
  <2>2. edits \in Seq(Edits)
    BY DEF Requested
  <2>3. QED
    BY <2>1, <2>2, IdleTypes DEF Job
<1> HIDE DEF new
<1>4. jobs' \in [JobIds -> Job] /\ jobs'[j] = new /\ \A k \in JobIds \ {j} : jobs'[k] = jobs[k]
  BY <1>1, <1>3 DEF WorkInv, JobsOK, new
<1>5. Goes(j, "wait")
  BY <1>3, <1>4 DEF Goes
<1>6. JobsOK'
  <2>1. edits # <<>>
    BY DEF Requested
  <2>2. 0 < RetryCount /\ 0 <= MaxStalls
    BY Constants
  <2>3. QED
    BY <1>3, <1>4, <2>1, <2>2 DEF WorkInv, JobsOK
<1>7. QueueOK'
  BY <1>1, <1>5, QueueGrows DEF WorkInv
<1>8. /\ \A k \in Instances : Works(k) => worker[k].job # j /\ JobOf(k)' = JobOf(k)
      /\ WorkersOK' /\ \A k \in Instances : Works(k) => ProgressOf(k)'
  BY <1>1, <1>2, <1>5, JobElsewhere
<1>9. recorded[j] = {} /\ recorded[j] \subseteq (1 .. Len(new.edits)) \X Stages
  BY <1>1 DEF WorkInv, RecordsOK
<1>10. \A k \in JobIds : recorded'[k] \subseteq (1 .. Len(jobs'[k].edits)) \X Stages
  BY <1>2, <1>4, <1>9 DEF WorkInv, RecordsOK
<1>11. \A k \in JobIds : /\ jobs'[k].state = "none" => jobs[k].state = "none"
                         /\ jobs'[k].state = "completed" => k # j /\ jobs[k].state = "completed"
  BY <1>3, <1>4
<1>12. \A k \in JobIds \ {j} : \A n : EditRecorded(k, n)' <=> EditRecorded(k, n)
  BY <1>2, <1>4 DEF EditRecorded
<1>13. RecordsOK'
  <2>1. ASSUME NEW k \in JobIds, jobs'[k].state = "completed", NEW n \in 1 .. Len(jobs'[k].edits)
        PROVE  EditRecorded(k, n)'
    <3>1. k \in JobIds \ {j} /\ jobs'[k] = jobs[k]
      BY <2>1, <1>4, <1>11
    <3>2. EditRecorded(k, n)
      BY <2>1, <3>1 DEF WorkInv, RecordsOK
    <3>3. QED
      BY <3>1, <3>2, <1>12
  <2>2. \A k \in Instances : Works(k)' => ProgressOf(k)'
    BY <1>2, <1>8 DEF Works
  <2>3. recorded' \in [JobIds -> SUBSET (Nat \X Stages)]
    BY <1>2 DEF WorkInv, RecordsOK
  <2>4. \A k \in JobIds : jobs'[k].state = "none" => recorded'[k] = {}
    BY <1>2, <1>11 DEF WorkInv, RecordsOK
  <2>5. QED
    BY <1>10, <2>1, <2>2, <2>3, <2>4 DEF RecordsOK
<1>14. ASSUME NEW k \in JobIds, Applied(k)' PROVE k # j /\ Applied(k)
  <2>1. CASE jobs'[k].state = "completed"
    BY <2>1, <1>11 DEF Applied
  <2>2. CASE \E l \in Instances : worker'[l].pc = "complete" /\ worker'[l].job = k
    <3>1. PICK l \in Instances : worker[l].pc = "complete" /\ worker[l].job = k
      BY <1>2, <2>2
    <3>2. QED
      BY <3>1, <1>8 DEF Applied, Works
  <2>3. QED
    BY <2>1, <2>2, <1>14 DEF Applied
<1>15. Accepted \subseteq Accepted'
  BY <1>11 DEF Accepted
<1>16. ASSUME NEW k \in JobIds, NEW f \in Fields, Applied(k)', Only(k, f)'
       PROVE  meta'[f] = Becomes(jobs'[k].edits, f)
  <2>1. k # j /\ Applied(k) /\ jobs'[k] = jobs[k]
    BY <1>4, <1>14, <1>16
  <2>2. \A l \in Accepted \ {k} : l \in Accepted' \ {k} /\ l \in JobIds \ {j} /\ jobs'[l] = jobs[l]
    BY <1>1, <1>4, <1>15 DEF Accepted
  <2>3. Only(k, f)
    BY <1>16, <2>1, <2>2 DEF Only
  <2>4. QED
    BY <1>2, <2>1, <2>3 DEF WorkInv, MetaOK
<1>17. MetaOK'
  BY <1>16 DEF MetaOK
<1>18. QED
  BY <1>6, <1>7, <1>8, <1>13, <1>17 DEF WorkInv

-----------------------------------------------------------------------------
(* The world, the table, requests and caches                                 *)

LEMMA WorldStays ==
  ASSUME WorldInv,
         \/ UNCHANGED world
         \/ world' = [world EXCEPT !.left = @ - 1]
         \/ world' = [world EXCEPT !.gestures = @ - 1]
  PROVE  WorldInv'
<1>1. CASE UNCHANGED world
  BY <1>1 DEF WorldInv
<1>2. CASE world' = [world EXCEPT !.left = @ - 1]
  BY <1>2 DEF WorldInv
<1>3. CASE world' = [world EXCEPT !.gestures = @ - 1]
  BY <1>3 DEF WorldInv
<1>4. QED
  BY <1>1, <1>2, <1>3

LEMMA ColumnTypes ==
  /\ NoColumn \in Column /\ NoColumn.type = Absent
  /\ \A type \in Types \union {Absent} : \A whole \in BOOLEAN : NewColumn(type, whole) \in Column
BY DEF NoColumn, NewColumn, Column

LEMMA StepTypes ==
  ASSUME WorkInv, TableInv, NEW i \in Instances, Works(i)
  PROVE  StepEffect(worker[i]) \in [Columns -> Column]
<1> DEFINE w == worker[i]
           f == Edit(worker[i]).field
           s == Shadow[f]
           type == Edit(worker[i]).type
<1>1. w.stage \in Stages /\ Edit(w) \in Edits
  BY WorkerIs
<1>2. f \in Columns /\ s \in Columns /\ type \in Types /\ columns \in [Columns -> Column]
  BY <1>1, StagesOf, Constants DEF TableInv
<1>3. NewColumn(type, TRUE) \in Column /\ NewColumn(type, FALSE) \in Column
  BY <1>2, ColumnTypes
<1> HIDE DEF f, type
<1>4. CASE w.stage = "add-column"
  <2>1. StepEffect(w) = IF Exists(f) THEN columns ELSE [columns EXCEPT ![f] = NewColumn(type, TRUE)]
    BY <1>4 DEF StepEffect, f, type
  <2>2. QED
    BY <2>1, <1>2, <1>3
<1>5. CASE w.stage = "drop-column"
  <2>1. StepEffect(w) = [columns EXCEPT ![f] = NoColumn]
    BY <1>5 DEF StepEffect, f
  <2>2. QED
    BY <2>1, <1>2, ColumnTypes
<1>6. CASE w.stage = "add-shadow-column"
  <2>1. StepEffect(w) = IF Exists(s) THEN columns ELSE [columns EXCEPT ![s] = NewColumn(type, FALSE)]
    BY <1>6 DEF StepEffect, f, type
  <2>2. QED
    BY <2>1, <1>2, <1>3
<1>7. CASE w.stage = "backfill-column"
  <2>1. StepEffect(w) = [columns EXCEPT ![s] = [columns[s] EXCEPT !.whole = columns[f].whole]]
    BY <1>2, <1>7 DEF StepEffect, f
  <2>2. columns[s] \in Column /\ columns[f].whole \in BOOLEAN
    BY <1>2 DEF Column
  <2>3. [columns[s] EXCEPT !.whole = columns[f].whole] \in Column
    BY <2>2 DEF Column
  <2>4. QED
    BY <2>1, <2>3, <1>2
<1>8. CASE w.stage = "cutover-column"
  <2>1. StepEffect(w) = [columns EXCEPT ![f] = columns[s], ![s] = NoColumn]
    BY <1>8 DEF StepEffect, Cutover, f
  <2>2. QED
    BY <2>1, <1>2, ColumnTypes
<1>9. QED
  BY <1>1, <1>4, <1>5, <1>6, <1>7, <1>8 DEF Stages

LEMMA ReceiveTypes ==
  ASSUME RequestsOK, NEW i \in Instances, NEW edits \in Requested, ReceiveRequest(i, edits)
  PROVE  /\ RequestsOK'
         /\ req'[i].pc # "idle" /\ req'[i].edits = edits
         /\ \A k \in Instances \ {i} : req'[k] = req[k]
<1> DEFINE pc == IF AdditionsOf(edits) = {} THEN "enqueue" ELSE "lock"
           r == [IdleRequest EXCEPT !.pc = pc, !.edits = edits]
<1>1. pc \in RequestPCs \ {"idle"} /\ edits \in Seq(Edits) /\ edits # <<>>
  BY DEF RequestPCs, Requested
<1>2. req' = [req EXCEPT ![i] = r] /\ UNCHANGED lock
  BY DEF ReceiveRequest
<1> HIDE DEF pc
<1>3. r \in RequestTypes /\ r.pc = pc /\ r.edits = edits
  BY <1>1, IdleTypes DEF RequestTypes
<1> HIDE DEF r
<1>4. /\ req' \in [Instances -> RequestTypes] /\ req'[i] = r
      /\ \A k \in Instances \ {i} : req'[k] = req[k]
  BY <1>2, <1>3 DEF RequestsOK
<1>5. QED
  BY <1>1, <1>2, <1>3, <1>4 DEF RequestsOK

\* A request goes on, or is over.
RequestStep(i) ==
  /\ req' \in [Instances -> RequestTypes]
  /\ \A k \in Instances \ {i} : req'[k] = req[k]
  /\ req[i].pc # "idle"
  /\ req'[i].pc # "idle" => req'[i].edits = req[i].edits
  /\ lock' \in Instances \union {Nobody}

LEMMA RequestGoesOn ==
  ASSUME RequestsOK, NEW i \in Instances, RequestStep(i) PROVE RequestsOK'
BY DEF RequestsOK, RequestStep

LEMMA RequestPC ==
  ASSUME RequestsOK, NEW i \in Instances, req[i].pc # "idle", NEW pc \in RequestPCs,
         req' = [req EXCEPT ![i].pc = pc], lock' \in Instances \union {Nobody}
  PROVE  RequestStep(i) /\ req'[i].pc = pc
<1>1. req[i] \in RequestTypes /\ req \in [Instances -> RequestTypes]
  BY DEF RequestsOK
<1>2. req'[i] = [req[i] EXCEPT !.pc = pc] /\ \A k \in Instances \ {i} : req'[k] = req[k]
  BY <1>1
<1>3. req'[i] \in RequestTypes /\ req'[i].edits = req[i].edits /\ req'[i].pc = pc
  BY <1>1, <1>2 DEF RequestTypes
<1>4. req' \in [Instances -> RequestTypes]
  BY <1>1, <1>2, <1>3
<1>5. QED
  BY <1>2, <1>3, <1>4 DEF RequestStep

LEMMA RequestEnds ==
  ASSUME RequestsOK, NEW i \in Instances, req' = [req EXCEPT ![i] = IdleRequest]
  PROVE  /\ req' \in [Instances -> RequestTypes] /\ req'[i].pc = "idle"
         /\ \A k \in Instances \ {i} : req'[k] = req[k]
BY IdleTypes DEF RequestsOK

LEMMA ReadsRequest ==
  ASSUME RequestsOK, JobsOK, NEW i \in Instances, NEW what \in {"count", "pending"}, Reads(i, what)
  PROVE  RequestStep(i) /\ req'[i].pc # "idle"
<1> DEFINE todo == req[i].todo \ {what}
           pc == IF req[i].todo = {what} THEN "admit" ELSE "read"
           count == IF what = "count" THEN Cardinality(FieldsOf(meta)) ELSE req[i].count
           pending == IF what = "pending" THEN PendingAdditions ELSE req[i].pending
           r == [[[[req[i] EXCEPT !.todo = todo] EXCEPT !.pc = pc] EXCEPT !.count = count]
                   EXCEPT !.pending = pending]
<1>1. req[i] \in RequestTypes /\ req \in [Instances -> RequestTypes] /\ req[i].pc = "read"
  BY DEF RequestsOK, Reads
<1>2. /\ todo \in SUBSET {"count", "pending"} /\ pc \in RequestPCs \ {"idle"}
      /\ count \in Nat /\ pending \in Nat
  BY <1>1, FieldsCounted DEF RequestTypes, RequestPCs
<1>3. req' = [req EXCEPT ![i] = r]
  BY <1>1 DEF Reads
<1> HIDE DEF todo, pc, count, pending
<1>4. r \in RequestTypes /\ r.pc = pc /\ r.edits = req[i].edits
  BY <1>1, <1>2 DEF RequestTypes
<1> HIDE DEF r
<1>5. req' \in [Instances -> RequestTypes] /\ req'[i] = r /\ \A k \in Instances \ {i} : req'[k] = req[k]
  BY <1>1, <1>3, <1>4
<1>6. lock' \in Instances \union {Nobody}
  BY DEF Reads, RequestsOK
<1>7. QED
  BY <1>1, <1>2, <1>4, <1>5, <1>6 DEF RequestStep

LEMMA ReleaseTypes ==
  ASSUME RequestsOK, NEW i \in Instances, ReleaseLock(i)
  PROVE  lock' \in Instances \union {Nobody}
BY DEF RequestsOK, ReleaseLock

LEMMA AdmissionRequest ==
  ASSUME RequestsOK, JobsOK, NEW i \in Instances, Admission(i)
  PROVE  RequestStep(i) /\ RequestsOK'
<1>1. CASE AcquireGuardrailLock(i)
  <2> DEFINE r == [[req[i] EXCEPT !.pc = "read"] EXCEPT !.todo = {"count", "pending"}]
  <2>1. req[i] \in RequestTypes /\ req \in [Instances -> RequestTypes] /\ req[i].pc = "lock"
    BY <1>1 DEF RequestsOK, AcquireGuardrailLock
  <2>2. req' = [req EXCEPT ![i] = r] /\ lock' = i
    BY <1>1, <2>1 DEF AcquireGuardrailLock
  <2>3. r \in RequestTypes /\ r.edits = req[i].edits
    BY <2>1 DEF RequestTypes, RequestPCs
  <2> HIDE DEF r
  <2>4. req' \in [Instances -> RequestTypes] /\ req'[i] = r
          /\ \A k \in Instances \ {i} : req'[k] = req[k]
    BY <2>1, <2>2, <2>3
  <2>5. RequestStep(i)
    BY <2>1, <2>2, <2>3, <2>4 DEF RequestStep
  <2>6. QED
    BY <2>5, RequestGoesOn
<1>2. CASE CountFields(i) \/ ListPendingJobs(i)
  BY <1>2, ReadsRequest, RequestGoesOn DEF CountFields, ListPendingJobs
<1>3. CASE RejectRequest(i) \/ AcceptRequest(i)
  <2>1. req[i].pc # "idle" /\ req' = [req EXCEPT ![i] = IdleRequest] /\ ReleaseLock(i)
    BY <1>3 DEF RejectRequest, AcceptRequest
  <2>2. RequestStep(i)
    BY <2>1, RequestEnds, ReleaseTypes DEF RequestStep
  <2>3. QED
    BY <2>2, RequestGoesOn
<1>4. CASE EnqueueDdlJob(i)
  <2>1. req[i].pc # "idle" /\ req' = [req EXCEPT ![i].pc = "invalidate"] /\ UNCHANGED lock
    BY <1>4 DEF EnqueueDdlJob
  <2>2. RequestStep(i)
    BY <2>1, RequestPC DEF RequestPCs, RequestsOK
  <2>3. QED
    BY <2>2, RequestGoesOn
<1>5. QED
  BY <1>1, <1>2, <1>3, <1>4 DEF Admission

LEMMA CacheEnds ==
  ASSUME CachesOK, NEW i \in Instances,
         UNCHANGED read \/ read' = [read EXCEPT ![i] = NoSchema],
         UNCHANGED cache \/ cache' = [cache EXCEPT ![i] = NoSchema]
  PROVE  CachesOK'
BY DEF CachesOK

LEMMA RowRequestCaches ==
  ASSUME CachesOK, TableInv, NEW i \in Instances, RowRequest(i) PROVE CachesOK'
<1>1. meta \in Schema
  BY DEF TableInv
<1>2. QED
  BY <1>1 DEF RowRequest, ReadMetaFields, WriteValidationSchemaCache, EvictValidationSchema, CachesOK

-----------------------------------------------------------------------------
(* The inductive invariant of the page                                       *)

Flags == BOOLEAN
DraftTypes == [type : Types \union {Absent}, changed : Flags, removed : Flags]
NewFields == [field : Fields, type : Types, chosen : Flags]
DetailTypes ==
  [open : Flags, current : Flags, outcome : {"ready", "error"}, fields : Schema,
   fetch : {"none", "asked", "read"}, read : Schema \union {NoSchema}, done : SUBSET JobIds]
EditorTypes ==
  [drafts : [Fields -> DraftTypes], new : Seq(NewFields), candidate : Fields \union {Nobody},
   targets : {"loading", "ready", "error"},
   status : {"idle", "confirming", "submitting", "polling", "error", "jobFailed"},
   request : Seq(Edits), loop : {"none", "net", "served", "poll"},
   at : Instances \union {Nobody}, job : 0 .. MaxJobs, polls : Nat]

\* The completed edits of this page show in what it has of the fields, where
\* nobody else has edited them.
Knows(fields) ==
  \A j \in detail.done, f \in Fields : Only(j, f) => fields[f] = Becomes(jobs[j].edits, f)

DetailOK ==
  /\ detail \in DetailTypes
  /\ detail.fetch = "read" <=> detail.read # NoSchema
  /\ detail.fetch # "none" => detail.open
  /\ \A j \in detail.done : jobs[j].state = "completed"
  /\ detail.current /\ detail.outcome = "ready" => Knows(detail.fields)
  /\ detail.fetch = "read" => Knows(detail.read)

DraftsOK ==
  /\ editor \in EditorTypes
  /\ ~Mounted => editor = NoEditor
  /\ \A f \in Fields : editor.drafts[f].removed => detail.fields[f] # Absent
  /\ \A f \in Fields : Mounted /\ detail.fields[f] # Absent => editor.drafts[f].type \in Types
  /\ editor.candidate # Nobody => detail.fields[editor.candidate] # Absent

\* A submission awaits what it says, and a form that is to be approved has no
\* submission and no dialog that could change it.
SubmissionOK ==
  /\ editor.status = "confirming" =>
       editor.loop = "none" /\ editor.candidate = Nobody /\ editor.request = DraftedEdits
  /\ editor.status = "jobFailed" =>
       editor.loop = "none" /\ editor.job # 0 /\ jobs[editor.job].state = "failed"
  /\ editor.loop # "none" \/ editor.status = "confirming" <=> editor.request # <<>>
  /\ editor.at # Nobody <=> editor.loop = "served"
  /\ editor.loop = "served" => req[editor.at].pc # "idle" /\ req[editor.at].edits = editor.request
  /\ editor.loop = "poll" => editor.job # 0
  /\ editor.job # 0 => jobs[editor.job].state # "none"
  /\ editor.polls < MaxPolls

-----------------------------------------------------------------------------
(* Steps of the edits                                                        *)

\* Jobs keep their edits, and those that have ended stay as they are.
JobsAdvance ==
  \A j \in JobIds : jobs[j].state # "none" =>
    /\ jobs'[j].state # "none" /\ jobs'[j].edits = jobs[j].edits
    /\ jobs[j].state \in {"completed", "failed"} => jobs'[j].state = jobs[j].state

LEMMA EditsInitially ==
  ASSUME Init PROVE EditsInv
<1>1. /\ world \in Worlds /\ meta = world.initial /\ jobs = [j \in JobIds |-> NoJob] /\ queue = <<>>
      /\ columns = [c \in Columns |-> IF c \in FieldsOf(world.initial)
                                        THEN NewColumn(world.initial[c], TRUE) ELSE NoColumn]
      /\ recorded = [j \in JobIds |-> {}] /\ worker = [i \in Instances |-> IdleWorker]
      /\ req = [i \in Instances |-> IdleRequest] /\ lock = Nobody
      /\ read = [i \in Instances |-> NoSchema] /\ cache = [i \in Instances |-> NoSchema]
  BY DEF Init
<1>2. WorldInv
  BY <1>1, ConstantsAssumption, EditorAssumption DEF WorldInv, Requested
<1>3. world.initial \in Schema
  BY <1>1, ConstantsAssumption DEF Schema
<1>4. \A c \in FieldsOf(world.initial) : world.initial[c] \in Types \union {Absent}
  BY <1>3 DEF FieldsOf, Schema
<1>5. \A c \in FieldsOf(world.initial) : NewColumn(world.initial[c], TRUE) \in Column
  BY <1>4, ColumnTypes
<1>6. TableInv
  BY <1>1, <1>3, <1>5, ColumnTypes DEF TableInv
<1>7. JobsOK
  BY <1>1, IdleTypes DEF JobsOK, Pending
<1>8. QueueOK
  BY <1>1 DEF QueueOK
<1>9. WorkersOK /\ \A i \in Instances : ~Works(i)
  BY <1>1, IdleTypes DEF WorkersOK, Works
<1>10. RecordsOK
  BY <1>1, <1>9, IdleTypes DEF RecordsOK
<1>11. \A j \in JobIds : ~Applied(j)
  BY <1>1, IdleTypes DEF Applied
<1>12. MetaOK
  BY <1>11 DEF MetaOK
<1>13. RequestsOK
  BY <1>1, IdleTypes DEF RequestsOK
<1>14. CachesOK
  BY <1>1 DEF CachesOK
<1>15. QED
  BY <1>2, <1>6, <1>7, <1>8, <1>9, <1>10, <1>12, <1>13, <1>14 DEF EditsInv, WorkInv

LEMMA WorkStays ==
  ASSUME WorkInv, UNCHANGED <<meta, jobs, queue, recorded, worker>> PROVE WorkInv' /\ JobsAdvance
<1>1. JobsOK' /\ QueueOK'
  BY DEF WorkInv, JobsOK, QueueOK
<1>2. WorkersOK'
  BY DEF WorkInv, WorkersOK, Works, JobOf
<1>3. /\ \A j, n : EditRecorded(j, n)' <=> EditRecorded(j, n)
      /\ \A i : (ProgressOf(i)' <=> ProgressOf(i)) /\ (Works(i)' <=> Works(i))
  BY DEF EditRecorded, ProgressOf, Works, JobOf
<1>4. RecordsOK'
  BY <1>3 DEF WorkInv, RecordsOK
<1>5. \A j, f : (Only(j, f)' <=> Only(j, f)) /\ (Applied(j)' <=> Applied(j))
  BY DEF Only, Accepted, Applied
<1>6. MetaOK'
  BY <1>5 DEF WorkInv, MetaOK
<1>7. JobsAdvance
  BY DEF JobsAdvance
<1>8. QED
  BY <1>1, <1>2, <1>4, <1>6, <1>7 DEF WorkInv

LEMMA FaultIs ==
  ASSUME NEW kind, Fault(kind) PROVE world' = [world EXCEPT !.left = @ - 1]
BY DEF Fault

LEMMA DataStays ==
  ASSUME EditsInv, UNCHANGED dataVars,
         \/ UNCHANGED world
         \/ world' = [world EXCEPT !.left = @ - 1]
         \/ world' = [world EXCEPT !.gestures = @ - 1]
  PROVE  EditsInv' /\ JobsAdvance /\ UNCHANGED <<jobs, req, meta>>
<1>1. UNCHANGED <<columns, meta, jobs, queue, recorded, worker, req, lock, read, cache>>
  BY DEF dataVars, tableVars, queueVars, cacheVars
<1>2. WorldInv'
  BY WorldStays DEF EditsInv
<1>3. WorkInv' /\ JobsAdvance
  BY <1>1, WorkStays DEF EditsInv
<1>4. TableInv' /\ RequestsOK' /\ CachesOK'
  BY <1>1 DEF EditsInv, TableInv, RequestsOK, CachesOK
<1>5. QED
  BY <1>1, <1>2, <1>3, <1>4 DEF EditsInv

LEMMA ReceiveEdits ==
  ASSUME EditsInv, NEW i \in Instances, NEW edits \in Requested, ReceiveRequest(i, edits)
  PROVE  EditsInv' /\ JobsAdvance /\ req[i].pc = "idle" /\ UNCHANGED world
<1>1. /\ UNCHANGED <<columns, meta, jobs, queue, recorded, worker, read, cache, world>>
      /\ req[i].pc = "idle"
  BY DEF ReceiveRequest, tableVars, queueVars, cacheVars
<1>2. RequestsOK'
  BY ReceiveTypes DEF EditsInv
<1>3. WorkInv' /\ JobsAdvance
  BY <1>1, WorkStays DEF EditsInv
<1>4. WorldInv' /\ TableInv' /\ CachesOK'
  BY <1>1 DEF EditsInv, WorldInv, TableInv, CachesOK
<1>5. QED
  BY <1>1, <1>2, <1>3, <1>4 DEF EditsInv

LEMMA EnqueueIs ==
  ASSUME EditsInv, NEW i \in Instances, EnqueueDdlJob(i)
  PROVE  /\ \E j \in JobIds : /\ jobs[j].state = "none" /\ jobs'[j].state = "wait"
                              /\ \A k \in JobIds \ {j} : jobs'[k] = jobs[k]
         /\ req'[i].pc # "idle"
         /\ JobsAdvance
<1>1. PICK j \in JobIds :
        /\ jobs[j].state = "none"
        /\ jobs' = [jobs EXCEPT ![j] = [NoJob EXCEPT !.edits = req[i].edits, !.state = "wait"]]
  BY DEF EnqueueDdlJob
<1>2. [NoJob EXCEPT !.edits = req[i].edits, !.state = "wait"].state = "wait"
  BY DEF NoJob
<1>3. jobs'[j].state = "wait" /\ \A k \in JobIds \ {j} : jobs'[k] = jobs[k]
  BY <1>1, <1>2 DEF EditsInv, WorkInv, JobsOK
<1>4. req' = [req EXCEPT ![i].pc = "invalidate"] /\ req[i].pc # "idle" /\ UNCHANGED lock
  BY DEF EnqueueDdlJob
<1>5. req'[i].pc = "invalidate"
  BY <1>4, RequestPC DEF EditsInv, RequestsOK, RequestPCs
<1>6. QED
  BY <1>1, <1>3, <1>5 DEF JobsAdvance

LEMMA AdmissionEdits ==
  ASSUME EditsInv, NEW i \in Instances, Admission(i)
  PROVE  /\ EditsInv' /\ JobsAdvance /\ RequestStep(i) /\ UNCHANGED meta
         /\ \/ UNCHANGED jobs
            \/ /\ \E j \in JobIds : /\ jobs[j].state = "none" /\ jobs'[j].state = "wait"
                                    /\ \A k \in JobIds \ {j} : jobs'[k] = jobs[k]
               /\ req'[i].pc # "idle"
<1>1. RequestStep(i) /\ RequestsOK'
  BY AdmissionRequest DEF EditsInv, WorkInv
<1>2. req[i].pc # "idle" /\ req[i].edits \in Requested
  BY <1>1 DEF RequestStep, EditsInv, RequestsOK, Requested, RequestTypes
<1>3. /\ UNCHANGED <<columns, meta, recorded, worker, read>>
      /\ UNCHANGED world \/ world' = [world EXCEPT !.left = @ - 1]
      /\ UNCHANGED cache \/ cache' = [cache EXCEPT ![i] = NoSchema]
  <2>1. CASE AcquireGuardrailLock(i)
    BY <2>1 DEF AcquireGuardrailLock, tableVars, cacheVars
  <2>2. CASE CountFields(i) \/ ListPendingJobs(i)
    BY <2>2 DEF CountFields, ListPendingJobs, Reads, tableVars, cacheVars
  <2>3. CASE RejectRequest(i)
    BY <2>3, FaultIs DEF RejectRequest, tableVars, cacheVars
  <2>4. CASE EnqueueDdlJob(i)
    BY <2>4 DEF EnqueueDdlJob, tableVars, cacheVars
  <2>5. CASE AcceptRequest(i)
    BY <2>5 DEF AcceptRequest, tableVars
  <2>6. QED
    BY <2>1, <2>2, <2>3, <2>4, <2>5 DEF Admission
<1>4. WorldInv' /\ TableInv' /\ CachesOK'
  <2>1. CachesOK'
    BY <1>3, CacheEnds DEF EditsInv
  <2>2. WorldInv'
    BY <1>3, WorldStays DEF EditsInv
  <2>3. QED
    BY <1>3, <2>1, <2>2 DEF EditsInv, TableInv
<1>5. CASE EnqueueDdlJob(i)
  <2>1. WorkInv'
    BY <1>2, <1>5, EnqueueWork DEF EditsInv
  <2>2. QED
    BY <1>1, <1>3, <1>4, <1>5, <2>1, EnqueueIs DEF EditsInv
<1>6. CASE ~EnqueueDdlJob(i)
  <2>1. UNCHANGED <<jobs, queue>>
    BY <1>6 DEF Admission, AcquireGuardrailLock, CountFields, ListPendingJobs, Reads, RejectRequest,
                AcceptRequest, queueVars
  <2>2. WorkInv' /\ JobsAdvance
    BY <1>3, <2>1, WorkStays DEF EditsInv
  <2>3. QED
    BY <1>1, <1>3, <1>4, <2>1, <2>2 DEF EditsInv
<1>7. QED
  BY <1>5, <1>6

\* A worker changes its own job only, which has not ended.
LEMMA WorkJobs ==
  ASSUME EditsInv, NEW i \in Instances, Works(i),
         \/ UNCHANGED jobs
         \/ \E state \in JobStates \ {"none"} : Moves(worker[i].job, state)
  PROVE  JobsAdvance
<1>1. CASE UNCHANGED jobs
  BY <1>1 DEF JobsAdvance
<1>2. ASSUME NEW state \in JobStates \ {"none"}, Moves(worker[i].job, state) PROVE JobsAdvance
  <2>1. PICK j \in JobIds : j = worker[i].job /\ jobs[j].state = "active"
    BY WorkerIs DEF EditsInv, JobOf
  <2>2. QED
    BY <1>2, <2>1 DEF JobsAdvance, Moves, Goes
<1>3. QED
  BY <1>1, <1>2

LEMMA WorkEdits ==
  ASSUME EditsInv, NEW i \in Instances, Work(i)
  PROVE  EditsInv' /\ JobsAdvance /\ UNCHANGED req
<1> DEFINE j == worker[i].job
<1>1. Works(i) /\ UNCHANGED <<req, lock, read, cache>>
        /\ (UNCHANGED world \/ world' = [world EXCEPT !.left = @ - 1])
  BY FaultIs DEF Work, Works, ExecuteStep, RecordMigration, RecordFailedMigration,
     ApplyMetadataEffects, CompleteJob, RejectJob, cacheVars
<1>2. WorldInv' /\ RequestsOK' /\ CachesOK'
  <2>1. WorldInv'
    BY <1>1, WorldStays DEF EditsInv
  <2>2. QED
    BY <1>1, <2>1 DEF EditsInv, RequestsOK, CachesOK
<1>3. WorkInv' /\ TableInv'
  <2>1. CASE ExecuteStep(i)
    <3>1. columns' \in [Columns -> Column] /\ UNCHANGED meta
      BY <1>1, <2>1, StepTypes DEF EditsInv, ExecuteStep, TableInv
    <3>2. QED
      BY <2>1, <3>1, ExecuteWork DEF EditsInv, TableInv
  <2>2. CASE ApplyMetadataEffects(i)
    BY <2>2, ApplyWork DEF EditsInv, TableInv, ApplyMetadataEffects
  <2>3. CASE RecordMigration(i) \/ RecordFailedMigration(i) \/ CompleteJob(i) \/ RejectJob(i)
    <3>1. UNCHANGED <<columns, meta>>
      BY <2>3 DEF RecordMigration, RecordFailedMigration, CompleteJob, RejectJob, tableVars
    <3>2. QED
      BY <2>3, <3>1, RecordMigrationWork, RecordFailedWork, CompleteWork, RejectWork
         DEF EditsInv, TableInv
  <2>4. QED
    BY <2>1, <2>2, <2>3 DEF Work
<1>4. j \in JobIds /\ jobs[j].made < RetryCount /\ JobsOK
  BY <1>1, WorkerIs DEF EditsInv, WorkInv, JobOf
<1>5. JobsAdvance
  <2>1. CASE CompleteJob(i)
    <3>1. Moves(j, "completed")
      BY <1>4, <2>1, StateMoves DEF CompleteJob, JobStates
    <3>2. QED
      BY <1>1, <3>1, WorkJobs DEF JobStates
  <2>2. CASE RejectJob(i)
    <3> DEFINE state == IF jobs[j].made + 1 < RetryCount THEN "delayed" ELSE "failed"
    <3>1. state \in JobStates \ {"none"}
      BY DEF JobStates, Pending
    <3>2. jobs' = [jobs EXCEPT ![j].state = state, ![j].made = @ + 1]
      BY <2>2 DEF RejectJob
    <3> HIDE DEF state
    <3>3. Moves(j, state)
      BY <1>4, <3>1, <3>2, RejectMoves
    <3>4. QED
      BY <1>1, <3>1, <3>3, WorkJobs
  <2>3. CASE ~CompleteJob(i) /\ ~RejectJob(i)
    <3>1. UNCHANGED jobs
      BY <2>3 DEF Work, ExecuteStep, RecordMigration, RecordFailedMigration,
                  ApplyMetadataEffects, queueVars
    <3>2. QED
      BY <1>1, <3>1, WorkJobs
  <2>4. QED
    BY <2>1, <2>2, <2>3
<1>6. QED
  BY <1>1, <1>2, <1>3, <1>5 DEF EditsInv

LEMMA CrashEdits ==
  ASSUME EditsInv, NEW i \in Instances, Crash(i)
  PROVE  /\ EditsInv' /\ JobsAdvance /\ req'[i].pc = "idle"
         /\ \A k \in Instances \ {i} : req'[k] = req[k]
<1> DEFINE j == worker[i].job
           state == IF jobs[j].stalls < MaxStalls THEN "wait" ELSE "failed"
<1>1. /\ world' = [world EXCEPT !.left = @ - 1] /\ UNCHANGED <<columns, meta>>
      /\ req' = [req EXCEPT ![i] = IdleRequest] /\ ReleaseLock(i)
      /\ read' = [read EXCEPT ![i] = NoSchema] /\ cache' = [cache EXCEPT ![i] = NoSchema]
  BY FaultIs DEF Crash, tableVars
<1>2. /\ req' \in [Instances -> RequestTypes] /\ req'[i].pc = "idle"
      /\ \A k \in Instances \ {i} : req'[k] = req[k]
  BY <1>1, RequestEnds DEF EditsInv
<1>3. RequestsOK'
  BY <1>1, <1>2, ReleaseTypes DEF EditsInv, RequestsOK
<1>4. WorldInv' /\ CachesOK' /\ TableInv'
  <2>1. WorldInv'
    BY <1>1, WorldStays DEF EditsInv
  <2>2. CachesOK'
    BY <1>1, CacheEnds DEF EditsInv
  <2>3. QED
    BY <1>1, <2>1, <2>2 DEF EditsInv, TableInv
<1>5. WorkInv'
  BY CrashWork DEF EditsInv
<1>6. CASE ~Works(i)
  <2>1. UNCHANGED jobs
    BY <1>6 DEF Crash, Works
  <2>2. QED
    BY <1>2, <1>3, <1>4, <1>5, <2>1 DEF EditsInv, JobsAdvance
<1>7. CASE Works(i)
  <2>1. j \in JobIds /\ jobs[j].stalls <= MaxStalls /\ JobsOK
    BY <1>7, WorkerIs DEF JobOf, EditsInv, WorkInv
  <2>2. state \in JobStates \ {"none"}
    BY DEF JobStates, Pending
  <2>3. jobs' = [jobs EXCEPT ![j].state = state, ![j].stalls = @ + 1]
    BY <1>7 DEF Crash, Works
  <2> HIDE DEF state
  <2>4. Moves(j, state)
    BY <2>1, <2>2, <2>3, StallMoves
  <2>5. JobsAdvance
    BY <1>7, <2>2, <2>4, WorkJobs
  <2>6. QED
    BY <1>2, <1>3, <1>4, <1>5, <2>5 DEF EditsInv
<1>8. QED
  BY <1>6, <1>7

LEMMA TakeEdits ==
  ASSUME EditsInv, NEW i \in Instances, TakeJob(i)
  PROVE  EditsInv' /\ JobsAdvance /\ UNCHANGED req
<1>1. UNCHANGED <<columns, meta, req, lock, read, cache, world>>
  BY DEF TakeJob, tableVars, cacheVars
<1>2. WorkInv'
  BY TakeWork DEF EditsInv
<1>3. WorldInv' /\ TableInv' /\ RequestsOK' /\ CachesOK'
  BY <1>1 DEF EditsInv, WorldInv, TableInv, RequestsOK, CachesOK
<1>4. PICK j \in JobIds : jobs[j].state = "wait" /\ jobs' = [jobs EXCEPT ![j].state = "active"]
  <2>1. queue \in Seq(JobIds) /\ queue # <<>> /\ jobs' = [jobs EXCEPT ![Head(queue)].state = "active"]
    BY DEF TakeJob, EditsInv, WorkInv, QueueOK
  <2>2. Head(queue) = queue[1] /\ 1 \in 1 .. Len(queue)
    BY <2>1
  <2>3. Head(queue) \in JobIds /\ jobs[Head(queue)].state = "wait"
    BY <2>1, <2>2 DEF EditsInv, WorkInv, QueueOK
  <2>4. QED
    BY <2>1, <2>3
<1>5. Moves(j, "active")
  BY <1>4, StateMoves DEF EditsInv, WorkInv, JobStates, Pending
<1>6. JobsAdvance
  BY <1>4, <1>5 DEF JobsAdvance, Moves, Goes
<1>7. QED
  BY <1>1, <1>2, <1>3, <1>6 DEF EditsInv

LEMMA PromoteEdits ==
  ASSUME EditsInv, NEW j \in JobIds, PromoteJob(j)
  PROVE  EditsInv' /\ JobsAdvance /\ UNCHANGED req
<1>1. /\ UNCHANGED <<columns, meta, req, lock, read, cache, world>>
      /\ jobs[j].state = "delayed" /\ jobs' = [jobs EXCEPT ![j].state = "wait"]
  BY DEF PromoteJob, tableVars, cacheVars
<1>2. WorkInv'
  BY PromoteWork DEF EditsInv
<1>3. WorldInv' /\ TableInv' /\ RequestsOK' /\ CachesOK'
  BY <1>1 DEF EditsInv, WorldInv, TableInv, RequestsOK, CachesOK
<1>4. Moves(j, "wait")
  BY <1>1, StateMoves DEF EditsInv, WorkInv, JobStates, Pending
<1>5. JobsAdvance
  BY <1>1, <1>4 DEF JobsAdvance, Moves, Goes
<1>6. QED
  BY <1>1, <1>2, <1>3, <1>5 DEF EditsInv

LEMMA RowEdits ==
  ASSUME EditsInv, NEW i \in Instances, RowRequest(i)
  PROVE  EditsInv' /\ JobsAdvance /\ UNCHANGED req
<1>1. UNCHANGED <<columns, meta, jobs, queue, recorded, worker, req, lock, world>>
  BY DEF RowRequest, ReadMetaFields, WriteValidationSchemaCache, EvictValidationSchema,
         tableVars, queueVars
<1>2. CachesOK'
  BY RowRequestCaches DEF EditsInv
<1>3. WorkInv' /\ JobsAdvance
  BY <1>1, WorkStays DEF EditsInv
<1>4. WorldInv' /\ TableInv' /\ RequestsOK'
  BY <1>1 DEF EditsInv, WorldInv, TableInv, RequestsOK
<1>5. QED
  BY <1>1, <1>2, <1>3, <1>4 DEF EditsInv

LEMMA ElsewhereEdits ==
  ASSUME EditsInv, Elsewhere
  PROVE  EditsInv' /\ JobsAdvance /\ UNCHANGED <<req, detail, editor>>
<1>1. UNCHANGED <<detail, editor>>
  BY DEF Elsewhere
<1>2. ASSUME NEW i \in Instances, TakeJob(i) \/ Work(i)
      PROVE  EditsInv' /\ JobsAdvance /\ UNCHANGED req
  BY <1>2, TakeEdits, WorkEdits
<1>3. ASSUME NEW i \in RowReaders \intersect world.instances, RowRequest(i)
      PROVE  EditsInv' /\ JobsAdvance /\ UNCHANGED req
  BY <1>3, RowEdits, ConstantsAssumption
<1>4. ASSUME NEW j \in JobIds, PromoteJob(j)
      PROVE  EditsInv' /\ JobsAdvance /\ UNCHANGED req
  BY <1>4, PromoteEdits
<1>5. ASSUME Rest
      PROVE  EditsInv' /\ JobsAdvance /\ UNCHANGED req
  BY <1>5, DataStays DEF Rest, vars, dataVars, tableVars, queueVars, cacheVars
<1>6. QED
  BY <1>1, <1>2, <1>3, <1>4, <1>5 DEF Elsewhere

-----------------------------------------------------------------------------
(* What the operators of the editor make                                     *)

LEMMA FlagsAre == TRUE \in Flags /\ FALSE \in Flags /\ \A b \in Flags : b = TRUE \/ b = FALSE
BY DEF Flags

LEMMA DraftIs ==
  ASSUME NEW type \in Types \union {Absent}
  PROVE  /\ Draft(type) \in DraftTypes /\ Draft(type).type = type /\ Draft(type).removed = FALSE
BY FlagsAre DEF Draft, DraftTypes

LEMMA MountIs ==
  ASSUME NEW fields \in Schema
  PROVE  LET m == Mount(fields) IN
         /\ m \in EditorTypes
         /\ \A f \in Fields : m.drafts[f].type = fields[f] /\ m.drafts[f].removed = FALSE
         /\ m.candidate = Nobody /\ m.status = "idle" /\ m.request = <<>> /\ m.loop = "none"
         /\ m.at = Nobody /\ m.job = 0 /\ m.polls = 0
<1> DEFINE drafts == [f \in Fields |-> Draft(fields[f])]
           m == Mount(fields)
<1>1. \A f \in Fields : fields[f] \in Types \union {Absent}
  BY DEF Schema
<1>2. drafts \in [Fields -> DraftTypes]
        /\ \A f \in Fields : drafts[f].type = fields[f] /\ drafts[f].removed = FALSE
  BY <1>1, DraftIs
<1>3. /\ m = [drafts |-> drafts, new |-> <<>>, candidate |-> Nobody,
              targets |-> "loading", status |-> "idle", request |-> <<>>,
              loop |-> "none", at |-> Nobody, job |-> 0, polls |-> 0]
  BY DEF Mount
<1> HIDE DEF drafts, m
<1>4. 0 \in 0 .. MaxJobs
  BY Constants
<1>5. m \in EditorTypes
  BY <1>2, <1>3, <1>4 DEF EditorTypes
<1>6. /\ m.drafts = drafts /\ m.candidate = Nobody /\ m.status = "idle" /\ m.request = <<>>
      /\ m.loop = "none" /\ m.at = Nobody /\ m.job = 0 /\ m.polls = 0
  BY <1>3
<1>7. QED
  BY <1>2, <1>5, <1>6 DEF m

LEMMA NoFieldsAre == NoFields \in Schema /\ \A f \in Fields : NoFields[f] = Absent
BY DEF NoFields, Schema

LEMMA NoEditorIs ==
  /\ NoEditor \in EditorTypes
  /\ \A f \in Fields : NoEditor.drafts[f].removed = FALSE
  /\ NoEditor.candidate = Nobody /\ NoEditor.status = "idle" /\ NoEditor.request = <<>>
  /\ NoEditor.loop = "none" /\ NoEditor.at = Nobody /\ NoEditor.job = 0 /\ NoEditor.polls = 0
BY NoFieldsAre, MountIs DEF NoEditor

LEMMA RedraftedIs ==
  ASSUME editor \in EditorTypes, NEW fields \in Schema
  PROVE  LET r == Redrafted(fields) IN
         /\ r \in EditorTypes
         /\ \A f \in Fields : r.drafts[f].type = fields[f] /\ r.drafts[f].removed = FALSE
         /\ r.candidate = Nobody /\ r.status = "idle" /\ r.loop = editor.loop
         /\ r.at = editor.at /\ r.job = editor.job /\ r.polls = editor.polls
         /\ r.request = IF editor.loop = "none" THEN <<>> ELSE editor.request
<1> DEFINE m == Mount(fields)
           request == IF editor.loop = "none" THEN <<>> ELSE editor.request
           r == Redrafted(fields)
<1>1. /\ m \in EditorTypes
      /\ \A f \in Fields : m.drafts[f].type = fields[f] /\ m.drafts[f].removed = FALSE
      /\ m.candidate = Nobody /\ m.status = "idle"
  BY MountIs
<1>2. r = [m EXCEPT !.targets = editor.targets, !.loop = editor.loop, !.at = editor.at,
                    !.job = editor.job, !.polls = editor.polls, !.request = request]
  BY DEF Redrafted
<1>3. request \in Seq(Edits)
  BY DEF EditorTypes
<1> HIDE DEF m, request, r
<1>4. /\ r \in EditorTypes /\ r.drafts = m.drafts /\ r.candidate = m.candidate
      /\ r.status = m.status /\ r.loop = editor.loop
      /\ r.at = editor.at /\ r.job = editor.job /\ r.polls = editor.polls /\ r.request = request
  BY <1>1, <1>2, <1>3 DEF EditorTypes
<1>5. QED
  BY <1>1, <1>4 DEF r, request

LEMMA EndedIs ==
  ASSUME editor \in EditorTypes, NEW status \in {"error", "jobFailed"}
  PROVE  LET r == Ended(status) IN
         /\ r \in EditorTypes /\ r.drafts = editor.drafts /\ r.new = editor.new
         /\ r.candidate = editor.candidate /\ r.job = editor.job
         /\ r.status = status /\ r.request = <<>> /\ r.loop = "none" /\ r.at = Nobody
         /\ r.polls = 0
<1> DEFINE r == Ended(status)
<1>1. r = [editor EXCEPT !.status = status, !.request = <<>>, !.loop = "none", !.at = Nobody,
                         !.polls = 0]
  BY DEF Ended
<1> HIDE DEF r
<1>4. status \in {"idle", "confirming", "submitting", "polling", "error", "jobFailed"}
  OBVIOUS
<1>7. <<>> \in Seq(Edits)
  OBVIOUS
<1> DEFINE q == [editor EXCEPT !.status = status, !.request = <<>>]
<1>5. /\ q \in EditorTypes /\ q.status = status /\ q.request = <<>> /\ q.drafts = editor.drafts
      /\ q.new = editor.new /\ q.candidate = editor.candidate /\ q.job = editor.job
  BY <1>4, <1>7 DEF EditorTypes
<1>6. r = [q EXCEPT !.loop = "none", !.at = Nobody, !.polls = 0]
  BY <1>1
<1> HIDE DEF q
<1>2. /\ r \in EditorTypes /\ r.drafts = editor.drafts /\ r.new = editor.new
      /\ r.candidate = editor.candidate /\ r.job = editor.job
      /\ r.status = status /\ r.request = <<>> /\ r.loop = "none" /\ r.at = Nobody
      /\ r.polls = 0
  BY <1>5, <1>6 DEF EditorTypes
<1>3. QED
  BY <1>2 DEF r

LEMMA SentIs ==
  ASSUME editor \in EditorTypes, NEW edits \in Seq(Edits)
  PROVE  LET r == Sent(edits) IN
         /\ r \in EditorTypes /\ r.drafts = editor.drafts /\ r.new = editor.new
         /\ r.candidate = Nobody /\ r.job = 0 /\ r.at = editor.at
         /\ r.status = "submitting" /\ r.request = edits /\ r.loop = "net" /\ r.polls = 0
<1> DEFINE r == Sent(edits)
<1>1. r = [editor EXCEPT !.status = "submitting", !.request = edits, !.loop = "net",
                         !.job = 0, !.polls = 0, !.candidate = Nobody]
  BY DEF Sent
<1>2. 0 \in 0 .. MaxJobs
  BY Constants
<1> HIDE DEF r
<1>3. /\ r \in EditorTypes /\ r.drafts = editor.drafts /\ r.new = editor.new
      /\ r.candidate = Nobody /\ r.job = 0 /\ r.at = editor.at
      /\ r.status = "submitting" /\ r.request = edits /\ r.loop = "net" /\ r.polls = 0
  BY <1>1, <1>2 DEF EditorTypes
<1>4. QED
  BY <1>3 DEF r

\* What the drafts amount to depends on nothing else.
DraftedOf(fields, drafts, additions) ==
  LET Edited(f) ==
        \/ drafts[f].removed
        \/ fields[f] # Relation /\ drafts[f] # Draft(fields[f])
      edited == SetToSeq({f \in FieldsOf(fields) : Edited(f)})
  IN  [n \in DOMAIN edited |->
         IF drafts[edited[n]].removed
           THEN [op |-> "remove", field |-> edited[n], type |-> fields[edited[n]]]
           ELSE [op |-> "modify", field |-> edited[n], type |-> drafts[edited[n]].type]]
      \o [n \in DOMAIN additions |->
            [op |-> "add", field |-> additions[n].field, type |-> additions[n].type]]

LEMMA DraftedFrom == DraftedEdits = DraftedOf(detail.fields, editor.drafts, editor.new)
BY DEF DraftedEdits, DraftedOf

LEMMA DraftedStays ==
  ASSUME detail'.fields = detail.fields, editor'.drafts = editor.drafts, editor'.new = editor.new
  PROVE  DraftedEdits' = DraftedEdits
<1>1. DraftedEdits' = DraftedOf(detail'.fields, editor'.drafts, editor'.new)
  BY DEF DraftedEdits, DraftedOf
<1>2. QED
  BY <1>1, DraftedFrom

\* A finite set as a sequence.
LEMMA SequenceOf ==
  ASSUME NEW S, IsFiniteSet(S)
  PROVE  SetToSeq(S) \in Seq(S)
<1> DEFINE n == Cardinality(S)
<1>1. n \in Nat /\ ExistsBijection(1 .. n, S)
  BY FS_CardinalityType
<1>2. PICK g : g \in Bijection(1 .. n, S)
  BY <1>1 DEF ExistsBijection
<1>3. g \in [1 .. n -> S] /\ IsInjective(g)
  BY <1>2 DEF Bijection, Injection, IsInjective
<1>4. SetToSeq(S) \in [1 .. n -> S]
  BY <1>3 DEF SetToSeq
<1>5. QED
  BY <1>1, <1>4

LEMMA DraftedTypes ==
  ASSUME DraftsOK, detail \in DetailTypes, Mounted
  PROVE  DraftedEdits \in Seq(Edits)
<1> DEFINE Edited(f) ==
             \/ editor.drafts[f].removed
             \/ detail.fields[f] # Relation /\ editor.drafts[f] # Draft(detail.fields[f])
           S == {f \in FieldsOf(detail.fields) : Edited(f)}
           edited == SetToSeq(S)
           former == [n \in DOMAIN edited |->
             IF editor.drafts[edited[n]].removed
               THEN [op |-> "remove", field |-> edited[n], type |-> detail.fields[edited[n]]]
               ELSE [op |-> "modify", field |-> edited[n], type |-> editor.drafts[edited[n]].type]]
           additions == editor.new
           latter == [n \in DOMAIN additions |->
             [op |-> "add", field |-> additions[n].field, type |-> additions[n].type]]
<1>1. S \subseteq Fields /\ \A f \in S : detail.fields[f] # Absent
  BY DEF FieldsOf
<1>2. IsFiniteSet(S)
  BY <1>1, EditorAssumption, FS_Subset
<1> HIDE DEF S
<1>3. edited \in Seq(S)
  BY <1>2, SequenceOf
<1> HIDE DEF edited
<1>4. \A n \in DOMAIN edited : edited[n] \in S
  BY <1>3
<1>5. \A f \in S : detail.fields[f] \in Types /\ editor.drafts[f].type \in Types
  BY <1>1 DEF DraftsOK, DetailTypes, Schema
<1>6. \A n \in DOMAIN edited : former[n] \in Edits
  BY <1>1, <1>4, <1>5 DEF Edits
<1>7. former \in Seq(Edits)
  <2>1. DOMAIN edited = 1 .. Len(edited) /\ Len(edited) \in Nat
    BY <1>3
  <2>2. former = [n \in 1 .. Len(edited) |-> former[n]]
    BY <2>1
  <2>3. \A n \in 1 .. Len(edited) : former[n] \in Edits
    BY <1>6, <2>1
  <2> HIDE DEF former
  <2>4. QED
    BY <2>1, <2>2, <2>3
<1>8. additions \in Seq(NewFields)
  BY DEF DraftsOK, EditorTypes
<1> HIDE DEF additions
<1>9. \A n \in DOMAIN additions : latter[n] \in Edits
  <2>1. SUFFICES ASSUME NEW n \in DOMAIN additions PROVE latter[n] \in Edits
    OBVIOUS
  <2>2. additions[n] \in NewFields
    BY <1>8
  <2>3. additions[n].field \in Fields /\ additions[n].type \in Types
    BY <2>2 DEF NewFields
  <2>4. latter[n] = [op |-> "add", field |-> additions[n].field, type |-> additions[n].type]
    OBVIOUS
  <2>5. QED
    BY <2>3, <2>4 DEF Edits
<1>10. latter \in Seq(Edits)
  <2>1. DOMAIN additions = 1 .. Len(additions) /\ Len(additions) \in Nat
    BY <1>8
  <2>2. latter = [n \in 1 .. Len(additions) |-> latter[n]]
    BY <2>1
  <2>3. \A n \in 1 .. Len(additions) : latter[n] \in Edits
    BY <1>9, <2>1
  <2> HIDE DEF latter
  <2>4. QED
    BY <2>1, <2>2, <2>3
<1>11. DraftedEdits = former \o latter
  BY DEF DraftedEdits, S, edited, additions
<1> HIDE DEF former, latter
<1>12. QED
  BY <1>7, <1>10, <1>11

-----------------------------------------------------------------------------
(* Steps of the page                                                         *)

PageOK == DetailOK /\ DraftsOK /\ SubmissionOK

LEMMA MountedIf ==
  ASSUME DraftsOK,
         \/ editor.loop # "none" \/ editor.status # "idle" \/ editor.candidate # Nobody
         \/ editor.job # 0
  PROVE  Mounted
BY NoEditorIs DEF DraftsOK

\* What is known goes on being known when other jobs advance.
LEMMA KnowsOn ==
  ASSUME DetailOK, JobsAdvance, detail'.done = detail.done
  PROVE  /\ \A fields : Knows(fields) => Knows(fields)'
         /\ \A j \in detail'.done : jobs'[j].state = "completed"
<1>1. \A j \in detail.done : /\ j \in JobIds /\ jobs[j].state = "completed"
                             /\ jobs'[j].state = "completed" /\ jobs'[j].edits = jobs[j].edits
  BY DEF DetailOK, DetailTypes, JobsAdvance
<1>2. \A k \in Accepted : k \in Accepted' /\ jobs'[k].edits = jobs[k].edits
  BY DEF Accepted, JobsAdvance
<1>3. \A j \in detail.done, f \in Fields : Only(j, f)' => Only(j, f)
  BY <1>1, <1>2 DEF Only
<1>4. ASSUME NEW fields, Knows(fields) PROVE Knows(fields)'
  <2>1. SUFFICES ASSUME NEW j \in detail'.done, NEW f \in Fields, Only(j, f)'
                 PROVE  fields[f] = Becomes(jobs'[j].edits, f)
    BY DEF Knows
  <2>2. j \in detail.done /\ Only(j, f) /\ jobs'[j].edits = jobs[j].edits
    BY <1>1, <1>3, <2>1
  <2>3. fields[f] = Becomes(jobs[j].edits, f)
    BY <1>4, <2>2 DEF Knows
  <2>4. QED
    BY <2>2, <2>3
<1>5. QED
  BY <1>1, <1>4

LEMMA DetailStays ==
  ASSUME DetailOK, JobsAdvance, UNCHANGED detail PROVE DetailOK'
<1>1. /\ \A fields : Knows(fields) => Knows(fields)'
      /\ \A j \in detail.done : jobs'[j].state = "completed"
  BY KnowsOn
<1>2. PICK fields, had : fields = detail.fields /\ had = detail.read
  OBVIOUS
<1>3. (Knows(fields) => Knows(fields)') /\ (Knows(had) => Knows(had)')
  BY <1>1
<1>4. (Knows(detail.fields) => Knows(detail.fields)') /\ (Knows(detail.read) => Knows(detail.read)')
  BY <1>2, <1>3 DEF Knows
<1>5. QED
  BY <1>1, <1>4 DEF DetailOK

\* The drafts of an editor that stays on the page.
LEMMA DraftsStay ==
  ASSUME DraftsOK, Mounted, UNCHANGED detail, editor' \in EditorTypes,
         editor'.drafts = editor.drafts, editor'.candidate \in {editor.candidate, Nobody}
  PROVE  DraftsOK'
<1>1. Mounted'
  BY DEF Mounted
<1>2. QED
  BY <1>1 DEF DraftsOK

LEMMA PageStays ==
  ASSUME PageOK, UNCHANGED <<detail, editor>>, JobsAdvance,
         editor.loop = "served" =>
           req'[editor.at].pc # "idle" /\ req'[editor.at].edits = req[editor.at].edits
  PROVE  PageOK'
<1>1. DetailOK'
  BY DetailStays DEF PageOK
<1>2. DraftsOK'
  BY DEF PageOK, DraftsOK, Mounted
<1>3. DraftedEdits' = DraftedEdits
  BY DraftedStays
<1>4. editor.job # 0 => editor.job \in JobIds
  BY Constants DEF PageOK, DraftsOK, EditorTypes
<1>5. SubmissionOK'
  BY <1>3, <1>4 DEF PageOK, SubmissionOK, JobsAdvance
<1>6. QED
  BY <1>1, <1>2, <1>5 DEF PageOK

\* The submission is over.
LEMMA SubmissionEnds ==
  ASSUME PageOK, editor.loop # "none", UNCHANGED detail, JobsAdvance,
         NEW status \in {"error", "jobFailed"}, editor' = Ended(status),
         status = "jobFailed" => editor.job # 0 /\ jobs[editor.job].state = "failed"
  PROVE  PageOK'
<1>1. DetailOK'
  BY DetailStays DEF PageOK
<1>2. /\ editor' \in EditorTypes /\ editor'.drafts = editor.drafts
      /\ editor'.candidate = editor.candidate /\ editor'.job = editor.job
      /\ editor'.status = status /\ editor'.request = <<>> /\ editor'.loop = "none"
      /\ editor'.at = Nobody /\ editor'.polls = 0
  BY EndedIs DEF PageOK, DraftsOK
<1>3. DraftsOK'
  BY <1>2, MountedIf, DraftsStay DEF PageOK
<1>4. editor.job # 0 => editor.job \in JobIds
  BY Constants DEF PageOK, DraftsOK, EditorTypes
<1>5. 0 < MaxPolls
  BY EditorAssumption
<1>6. SubmissionOK'
  BY <1>2, <1>4, <1>5 DEF PageOK, SubmissionOK, JobsAdvance
<1>7. QED
  BY <1>1, <1>3, <1>6 DEF PageOK

\* There is no editor, or a new one.
LEMMA EditorGoes ==
  ASSUME editor' = NoEditor, ~Mounted'
  PROVE  DraftsOK' /\ SubmissionOK'
<1>1. 0 < MaxPolls
  BY EditorAssumption
<1>2. DraftsOK'
  BY NoEditorIs DEF DraftsOK
<1>3. SubmissionOK'
  BY <1>1, NoEditorIs DEF SubmissionOK
<1>4. QED
  BY <1>2, <1>3

LEMMA EditorComes ==
  ASSUME Mounted', detail'.fields \in Schema, editor' = Mount(detail'.fields)
  PROVE  DraftsOK' /\ SubmissionOK'
<1>1. 0 < MaxPolls
  BY EditorAssumption
<1>2. /\ editor' \in EditorTypes
      /\ \A f \in Fields : editor'.drafts[f].type = detail'.fields[f]
                           /\ editor'.drafts[f].removed = FALSE
      /\ editor'.candidate = Nobody /\ editor'.status = "idle" /\ editor'.request = <<>>
      /\ editor'.loop = "none" /\ editor'.at = Nobody /\ editor'.job = 0 /\ editor'.polls = 0
  BY MountIs
<1>3. \A f \in Fields : detail'.fields[f] \in Types \union {Absent}
  BY DEF Schema
<1>4. DraftsOK'
  BY <1>2, <1>3 DEF DraftsOK
<1>5. SubmissionOK'
  BY <1>1, <1>2 DEF SubmissionOK
<1>6. QED
  BY <1>4, <1>5

-----------------------------------------------------------------------------
(* The table that the page shows                                             *)

\* Steps that leave tables, jobs and requests alone.
LEMMA VarsStay ==
  ASSUME UNCHANGED vars
  PROVE  UNCHANGED <<columns, meta, jobs, queue, recorded, worker, req, lock, read, cache, world>>
         /\ UNCHANGED dataVars /\ JobsAdvance
BY DEF vars, dataVars, tableVars, queueVars, cacheVars, JobsAdvance

LEMMA GestureIs ==
  ASSUME Gesture PROVE world' = [world EXCEPT !.gestures = @ - 1]
BY DEF Gesture

LEMMA OpenPage ==
  ASSUME PageOK, JobsAdvance, OpenDetail PROVE PageOK'
<1>1. /\ ~detail.open /\ detail' = [detail EXCEPT !.open = TRUE, !.fetch = "asked"]
      /\ editor' = IF Mounted' THEN Mount(detail.fields) ELSE NoEditor
      /\ detail \in DetailTypes /\ detail.fetch = "none" /\ detail.read = NoSchema
  BY DEF OpenDetail, PageOK, DetailOK, DetailTypes
<1>2. /\ detail' \in DetailTypes /\ detail'.open = TRUE /\ detail'.fetch = "asked"
      /\ detail'.current = detail.current /\ detail'.outcome = detail.outcome
      /\ detail'.fields = detail.fields /\ detail'.read = detail.read /\ detail'.done = detail.done
  BY <1>1, FlagsAre DEF DetailTypes
<1>3. /\ \A fields : Knows(fields) => Knows(fields)'
      /\ \A j \in detail'.done : jobs'[j].state = "completed"
  BY <1>2, KnowsOn DEF PageOK
<1>4. PICK fields : fields = detail.fields
  OBVIOUS
<1>5. Knows(detail.fields) => Knows(detail.fields)'
  <2>1. Knows(fields) => Knows(fields)'
    BY <1>3
  <2>2. QED
    BY <1>2, <1>4, <2>1 DEF Knows
<1>6. DetailOK'
  BY <1>1, <1>2, <1>3, <1>5 DEF PageOK, DetailOK
<1>7. detail'.fields \in Schema
  BY <1>2 DEF DetailTypes
<1>8. DraftsOK' /\ SubmissionOK'
  BY <1>1, <1>2, <1>7, EditorComes, EditorGoes
<1>9. QED
  BY <1>6, <1>8 DEF PageOK

\* The page closes, or asks anew for a table that it does not show.
LEMMA ClosePage ==
  ASSUME PageOK, JobsAdvance, CloseDetail PROVE PageOK'
<1>1. /\ detail' = [detail EXCEPT !.open = FALSE, !.fetch = "none", !.read = NoSchema]
      /\ editor' = NoEditor /\ detail \in DetailTypes
  BY DEF CloseDetail, PageOK, DetailOK
<1>2. /\ detail' \in DetailTypes /\ detail'.open = FALSE /\ detail'.fetch = "none"
      /\ detail'.current = detail.current /\ detail'.outcome = detail.outcome
      /\ detail'.fields = detail.fields /\ detail'.read = NoSchema /\ detail'.done = detail.done
  BY <1>1, FlagsAre DEF DetailTypes
<1>3. /\ \A fields : Knows(fields) => Knows(fields)'
      /\ \A j \in detail'.done : jobs'[j].state = "completed"
  BY <1>2, KnowsOn DEF PageOK
<1>4. PICK fields : fields = detail.fields
  OBVIOUS
<1>5. Knows(detail.fields) => Knows(detail.fields)'
  <2>1. Knows(fields) => Knows(fields)'
    BY <1>3
  <2>2. QED
    BY <1>2, <1>4, <2>1 DEF Knows
<1>6. DetailOK'
  BY <1>1, <1>2, <1>3, <1>5 DEF PageOK, DetailOK
<1>7. DraftsOK' /\ SubmissionOK'
  BY <1>1, <1>2, EditorGoes DEF Mounted
<1>8. QED
  BY <1>6, <1>7 DEF PageOK

\* The table is asked for under another key.
LEMMA ReloadPage ==
  ASSUME PageOK, JobsAdvance, detail.open, NEW done \in SUBSET JobIds,
         \A j \in done : jobs'[j].state = "completed",
         detail' = [Reload EXCEPT !.done = done], editor' = NoEditor
  PROVE  PageOK'
<1>1. detail \in DetailTypes
  BY DEF PageOK, DetailOK
<1>2. detail' = [[detail EXCEPT !.current = FALSE, !.fetch = "asked", !.read = NoSchema]
                   EXCEPT !.done = done]
  BY DEF Reload
<1>3. /\ detail' \in DetailTypes /\ detail'.open = detail.open /\ detail'.fetch = "asked"
      /\ detail'.current = FALSE /\ detail'.read = NoSchema /\ detail'.done = done
  BY <1>1, <1>2, FlagsAre DEF DetailTypes
<1>4. DetailOK'
  BY <1>3 DEF DetailOK
<1>5. DraftsOK' /\ SubmissionOK'
  BY <1>3, EditorGoes DEF Mounted
<1>6. QED
  BY <1>4, <1>5 DEF PageOK

LEMMA RetryPage ==
  ASSUME PageOK, JobsAdvance, RetryDetail PROVE PageOK'
<1>1. /\ detail.open /\ detail.outcome = "error" /\ detail' = Reload /\ UNCHANGED editor
      /\ detail \in DetailTypes
  BY DEF RetryDetail, PageOK, DetailOK
<1>2. editor = NoEditor
  BY <1>1 DEF PageOK, DraftsOK, Mounted
<1>3. Reload \in DetailTypes /\ Reload.done = detail.done
  BY <1>1, FlagsAre DEF Reload, DetailTypes
<1>4. Reload = [Reload EXCEPT !.done = detail.done]
  BY <1>3 DEF DetailTypes
<1>5. \A j \in detail.done : jobs'[j].state = "completed"
  BY KnowsOn, <1>1, <1>3 DEF PageOK
<1>6. detail.done \in SUBSET JobIds
  BY <1>1 DEF DetailTypes
<1>7. QED
  BY <1>1, <1>2, <1>4, <1>5, <1>6, ReloadPage

LEMMA CompletedPage ==
  ASSUME PageOK, Completed PROVE PageOK'
<1>1. /\ editor.loop = "poll" /\ jobs[editor.job].state = "completed" /\ editor' = NoEditor
      /\ detail' = [Reload EXCEPT !.done = @ \union {editor.job}] /\ detail \in DetailTypes
  BY DEF Completed, JobState, PageOK, DetailOK
<1>2. JobsAdvance /\ UNCHANGED jobs
  BY VarsStay DEF Completed
<1>3. detail.open
  BY <1>1, MountedIf DEF PageOK, Mounted
<1>4. editor.job \in JobIds
  BY <1>1, Constants DEF PageOK, DraftsOK, EditorTypes, SubmissionOK
<1>5. Reload.done = detail.done
  BY <1>1 DEF Reload, DetailTypes
<1>6. detail.done \union {editor.job} \in SUBSET JobIds
  BY <1>1, <1>4 DEF DetailTypes
<1>7. \A j \in detail.done \union {editor.job} : jobs'[j].state = "completed"
  BY <1>1, <1>2 DEF PageOK, DetailOK
<1>8. Reload \in DetailTypes
  BY <1>1, FlagsAre DEF Reload, DetailTypes
<1>9. detail' = [Reload EXCEPT !.done = detail.done \union {editor.job}]
  BY <1>1, <1>5, <1>8 DEF DetailTypes
<1>10. QED
  BY <1>1, <1>2, <1>3, <1>6, <1>7, <1>9, ReloadPage

LEMMA ReadPage ==
  ASSUME EditsInv, PageOK, ReadDetail PROVE PageOK'
<1>1. /\ detail.fetch = "asked" /\ detail' = [detail EXCEPT !.fetch = "read", !.read = meta]
      /\ UNCHANGED editor /\ detail \in DetailTypes /\ meta \in Schema
  BY DEF ReadDetail, PageOK, DetailOK, EditsInv, TableInv
<1>2. /\ UNCHANGED <<jobs, req, meta>> /\ JobsAdvance
  BY VarsStay DEF ReadDetail
<1>3. /\ detail' \in DetailTypes /\ detail'.open = detail.open /\ detail'.fetch = "read"
      /\ detail'.current = detail.current /\ detail'.outcome = detail.outcome
      /\ detail'.fields = detail.fields /\ detail'.read = meta /\ detail'.done = detail.done
  BY <1>1 DEF DetailTypes
<1>4. /\ \A fields : Knows(fields) => Knows(fields)'
      /\ \A j \in detail'.done : jobs'[j].state = "completed"
  BY <1>2, <1>3, KnowsOn DEF PageOK
<1>5. Knows(meta)
  <2>1. \A j \in detail.done : j \in JobIds /\ Applied(j)
    BY <1>1 DEF PageOK, DetailOK, DetailTypes, Applied
  <2>2. QED
    BY <2>1 DEF Knows, EditsInv, WorkInv, MetaOK
<1>6. PICK fields, had : fields = detail.fields /\ had = meta
  OBVIOUS
<1>7. (Knows(detail.fields) => Knows(detail.fields)') /\ Knows(detail.read)'
  <2>1. (Knows(fields) => Knows(fields)') /\ (Knows(had) => Knows(had)')
    BY <1>4
  <2>2. Knows(had)
    BY <1>5, <1>6
  <2>3. QED
    BY <1>2, <1>3, <1>6, <2>1, <2>2 DEF Knows
<1>8. meta # NoSchema
  BY <1>1, Constants
<1>9. DetailOK'
  BY <1>1, <1>3, <1>4, <1>7, <1>8 DEF PageOK, DetailOK
<1>10. DraftsOK'
  BY <1>1, <1>3 DEF PageOK, DraftsOK, Mounted
<1>11. DraftedEdits' = DraftedEdits
  BY <1>1, <1>3, DraftedStays
<1>12. SubmissionOK'
  BY <1>1, <1>2, <1>11 DEF PageOK, SubmissionOK
<1>13. QED
  BY <1>9, <1>10, <1>12 DEF PageOK

LEMMA ShowPage ==
  ASSUME PageOK, ShowDetail PROVE PageOK'
<1>1. /\ detail.fetch = "read" /\ detail \in DetailTypes /\ detail.open
      /\ detail' = [detail EXCEPT !.current = TRUE, !.outcome = "ready", !.fields = detail.read,
                                  !.fetch = "none", !.read = NoSchema]
      /\ editor' = IF Mounted THEN Redrafted(detail.read) ELSE Mount(detail.read)
      /\ detail.read # NoSchema /\ Knows(detail.read)
  BY DEF ShowDetail, PageOK, DetailOK
<1>2. UNCHANGED <<jobs, req>> /\ JobsAdvance
  BY VarsStay DEF ShowDetail
<1>3. detail.read \in Schema
  BY <1>1 DEF DetailTypes
<1>4. /\ detail' \in DetailTypes /\ detail'.open = detail.open /\ detail'.fetch = "none"
      /\ detail'.current = TRUE /\ detail'.outcome = "ready"
      /\ detail'.fields = detail.read /\ detail'.read = NoSchema /\ detail'.done = detail.done
  BY <1>1, <1>3, FlagsAre DEF DetailTypes
<1>5. /\ \A fields : Knows(fields) => Knows(fields)'
      /\ \A j \in detail'.done : jobs'[j].state = "completed"
  BY <1>2, <1>4, KnowsOn DEF PageOK
<1>6. Knows(detail.fields)'
  <2>1. PICK fields : fields = detail.read
    OBVIOUS
  <2>2. Knows(fields)'
    BY <1>1, <1>5, <2>1
  <2>3. QED
    BY <1>4, <2>1, <2>2 DEF Knows
<1>7. DetailOK'
  BY <1>4, <1>5, <1>6 DEF DetailOK
<1>8. Mounted' /\ detail'.fields \in Schema
  BY <1>1, <1>3, <1>4 DEF Mounted
<1>9. CASE ~Mounted
  <2>1. editor' = Mount(detail'.fields)
    BY <1>1, <1>4, <1>9
  <2>2. QED
    BY <1>7, <1>8, <2>1, EditorComes DEF PageOK
<1>10. CASE Mounted
  <2>1. /\ editor' \in EditorTypes
        /\ \A f \in Fields : editor'.drafts[f].type = detail.read[f]
                             /\ editor'.drafts[f].removed = FALSE
        /\ editor'.candidate = Nobody /\ editor'.status = "idle" /\ editor'.loop = editor.loop
        /\ editor'.at = editor.at /\ editor'.job = editor.job /\ editor'.polls = editor.polls
        /\ editor'.request = IF editor.loop = "none" THEN <<>> ELSE editor.request
    BY <1>1, <1>3, <1>10, RedraftedIs DEF PageOK, DraftsOK
  <2>2. \A f \in Fields : detail'.fields[f] \in Types \union {Absent}
    BY <1>8 DEF Schema
  <2>3. DraftsOK'
    BY <1>4, <1>8, <2>1, <2>2 DEF DraftsOK
  <2>4. SubmissionOK'
    BY <1>2, <2>1 DEF PageOK, SubmissionOK
  <2>5. QED
    BY <1>7, <2>3, <2>4 DEF PageOK
<1>11. QED
  BY <1>9, <1>10

LEMMA LosePage ==
  ASSUME PageOK, JobsAdvance, LoseDetail PROVE PageOK'
<1>1. /\ detail' = [detail EXCEPT !.current = TRUE, !.outcome = "error", !.fields = NoFields,
                                  !.fetch = "none", !.read = NoSchema]
      /\ editor' = NoEditor /\ detail \in DetailTypes
  BY DEF LoseDetail, PageOK, DetailOK
<1>2. /\ detail' \in DetailTypes /\ detail'.open = detail.open /\ detail'.fetch = "none"
      /\ detail'.current = TRUE /\ detail'.outcome = "error"
      /\ detail'.read = NoSchema /\ detail'.done = detail.done
  BY <1>1, FlagsAre, NoFieldsAre DEF DetailTypes
<1>3. \A j \in detail'.done : jobs'[j].state = "completed"
  BY <1>2, KnowsOn DEF PageOK
<1>4. DetailOK'
  BY <1>2, <1>3 DEF DetailOK
<1>5. DraftsOK' /\ SubmissionOK'
  BY <1>1, <1>2, EditorGoes DEF Mounted
<1>6. QED
  BY <1>4, <1>5 DEF PageOK

-----------------------------------------------------------------------------
(* Drafts                                                                    *)

LEMMA SubmissionStays ==
  ASSUME SubmissionOK, UNCHANGED <<jobs, req>>,
         editor'.status = editor.status, editor'.request = editor.request,
         editor'.loop = editor.loop, editor'.at = editor.at, editor'.job = editor.job,
         editor'.polls = editor.polls,
         editor.status = "confirming" =>
           DraftedEdits' = DraftedEdits /\ editor'.candidate = Nobody
  PROVE  SubmissionOK'
BY DEF SubmissionOK

\* The editor changes something of its form, and the table stays.
FormChanges ==
  /\ editor' \in EditorTypes
  /\ editor'.status = editor.status /\ editor'.request = editor.request
  /\ editor'.loop = editor.loop /\ editor'.at = editor.at /\ editor'.job = editor.job
  /\ editor'.polls = editor.polls

LEMMA FormStays ==
  ASSUME PageOK, Mounted, JobsAdvance, UNCHANGED <<jobs, req, detail>>, FormChanges, DraftsOK',
         editor.status = "confirming" =>
           DraftedEdits' = DraftedEdits /\ editor'.candidate = Nobody
  PROVE  PageOK'
<1>1. DetailOK'
  BY DetailStays DEF PageOK
<1>2. SubmissionOK'
  BY SubmissionStays DEF PageOK, FormChanges
<1>3. QED
  BY <1>1, <1>2 DEF PageOK

LEMMA EditableIs ==
  ASSUME CanEdit PROVE Mounted /\ editor.status # "confirming"
BY DEF CanEdit, Locked

LEMMA ChangeDraftPage ==
  ASSUME PageOK, JobsAdvance, UNCHANGED <<jobs, req, detail>>, NEW f \in Fields,
         NEW draft \in DraftTypes, draft.removed = editor.drafts[f].removed, draft.type \in Types,
         CanEdit, editor' = [editor EXCEPT !.drafts[f] = draft]
  PROVE  PageOK'
<1>1. editor \in EditorTypes /\ editor.drafts \in [Fields -> DraftTypes]
  BY DEF PageOK, DraftsOK, EditorTypes
<1> DEFINE drafts == [editor.drafts EXCEPT ![f] = draft]
<1>2. editor' = [editor EXCEPT !.drafts = drafts]
  BY <1>1 DEF EditorTypes
<1>3. /\ drafts \in [Fields -> DraftTypes] /\ drafts[f] = draft
      /\ \A g \in Fields \ {f} : drafts[g] = editor.drafts[g]
  BY <1>1
<1> HIDE DEF drafts
<1>4. FormChanges /\ editor'.drafts = drafts /\ editor'.candidate = editor.candidate
  BY <1>1, <1>2, <1>3 DEF EditorTypes, FormChanges
<1>5. Mounted /\ Mounted' /\ editor.status # "confirming"
  BY EditableIs DEF Mounted
<1>6. DraftsOK'
  <2>1. \A g \in Fields : editor'.drafts[g].removed => detail'.fields[g] # Absent
    BY <1>3, <1>4 DEF PageOK, DraftsOK
  <2>2. \A g \in Fields : detail'.fields[g] # Absent => editor'.drafts[g].type \in Types
    BY <1>3, <1>4, <1>5 DEF PageOK, DraftsOK
  <2>3. editor'.candidate # Nobody => detail'.fields[editor'.candidate] # Absent
    BY <1>4 DEF PageOK, DraftsOK
  <2>4. QED
    BY <1>4, <1>5, <2>1, <2>2, <2>3 DEF DraftsOK, FormChanges
<1>7. QED
  BY <1>4, <1>5, <1>6, FormStays

LEMMA ChangeTypePage ==
  ASSUME EditsInv, PageOK, JobsAdvance, UNCHANGED <<jobs, req>>, NEW f \in Fields,
         NEW type \in world.choices, ChangeType(f, type)
  PROVE  PageOK'
<1> DEFINE draft == [editor.drafts[f] EXCEPT !.type = type]
<1>1. type \in Types
  BY DEF EditsInv, WorldInv
<1>2. CanEdit /\ editor' = [editor EXCEPT !.drafts[f] = draft] /\ UNCHANGED detail
  BY DEF ChangeType, ChangeDraft
<1>3. editor.drafts[f] \in DraftTypes
  BY DEF PageOK, DraftsOK, EditorTypes
<1>4. draft \in DraftTypes /\ draft.removed = editor.drafts[f].removed /\ draft.type \in Types
  BY <1>1, <1>3 DEF DraftTypes
<1> HIDE DEF draft
<1>5. QED
  BY <1>2, <1>4, ChangeDraftPage

LEMMA ChangeConfigPage ==
  ASSUME PageOK, JobsAdvance, UNCHANGED <<jobs, req>>, NEW f \in Fields, ChangeConfig(f)
  PROVE  PageOK'
<1> DEFINE draft == [editor.drafts[f] EXCEPT !.changed = TRUE]
<1>1. /\ CanEdit /\ editor' = [editor EXCEPT !.drafts[f] = draft] /\ UNCHANGED detail
      /\ detail.fields[f] # Absent
  BY DEF ChangeConfig, ChangeDraft, Kept
<1>2. editor.drafts[f] \in DraftTypes /\ editor.drafts[f].type \in Types
  BY <1>1, EditableIs DEF PageOK, DraftsOK, EditorTypes
<1>3. draft \in DraftTypes /\ draft.removed = editor.drafts[f].removed /\ draft.type \in Types
  BY <1>2, FlagsAre DEF DraftTypes
<1> HIDE DEF draft
<1>4. QED
  BY <1>1, <1>3, ChangeDraftPage

\* The dialog that asks about a removal.
LEMMA CandidatePage ==
  ASSUME PageOK, JobsAdvance, UNCHANGED <<jobs, req, detail>>, Mounted,
         NEW candidate \in Fields \union {Nobody},
         candidate # Nobody => detail.fields[candidate] # Absent /\ editor.status # "confirming",
         editor' = [editor EXCEPT !.candidate = candidate]
  PROVE  PageOK'
<1>1. /\ FormChanges /\ editor'.drafts = editor.drafts /\ editor'.new = editor.new
      /\ editor'.candidate = candidate
  BY DEF PageOK, DraftsOK, EditorTypes, FormChanges
<1>2. Mounted'
  BY DEF Mounted
<1>3. DraftsOK'
  BY <1>1, <1>2 DEF PageOK, DraftsOK, FormChanges
<1>4. DraftedEdits' = DraftedEdits
  BY <1>1, DraftedStays
<1>5. QED
  BY <1>1, <1>3, <1>4, FormStays

LEMMA AskPage ==
  ASSUME PageOK, JobsAdvance, UNCHANGED <<jobs, req>>, NEW f \in Fields, AskRemoval(f)
  PROVE  PageOK'
BY CandidatePage, EditableIs DEF AskRemoval, Kept

LEMMA CancelRemovalPage ==
  ASSUME PageOK, JobsAdvance, UNCHANGED <<jobs, req>>, CancelRemoval PROVE PageOK'
BY CandidatePage DEF CancelRemoval

LEMMA ConfirmRemovalPage ==
  ASSUME PageOK, JobsAdvance, UNCHANGED <<jobs, req>>, ConfirmRemoval PROVE PageOK'
<1> DEFINE f == editor.candidate
           draft == [editor.drafts[f] EXCEPT !.removed = TRUE]
           drafts == [editor.drafts EXCEPT ![f] = draft]
<1>1. /\ Mounted /\ f # Nobody /\ UNCHANGED detail /\ editor \in EditorTypes /\ f \in Fields
      /\ editor.drafts \in [Fields -> DraftTypes] /\ detail.fields[f] # Absent
  BY DEF ConfirmRemoval, PageOK, DraftsOK, EditorTypes
<1>2. editor' = [editor EXCEPT !.drafts = drafts, !.candidate = Nobody]
  BY <1>1 DEF ConfirmRemoval, EditorTypes
<1>3. draft \in DraftTypes /\ draft.type = editor.drafts[f].type
  BY <1>1, FlagsAre DEF DraftTypes
<1> HIDE DEF draft
<1>4. /\ drafts \in [Fields -> DraftTypes] /\ drafts[f] = draft
      /\ \A g \in Fields \ {f} : drafts[g] = editor.drafts[g]
  BY <1>1, <1>3
<1> HIDE DEF drafts, f
<1>5. FormChanges /\ editor'.drafts = drafts /\ editor'.candidate = Nobody
  BY <1>1, <1>2, <1>4 DEF EditorTypes, FormChanges
<1>6. Mounted' /\ editor.status # "confirming"
  BY <1>1 DEF Mounted, PageOK, SubmissionOK, f
<1>7. DraftsOK'
  <2>1. \A g \in Fields : editor'.drafts[g].removed => detail'.fields[g] # Absent
    BY <1>1, <1>4, <1>5 DEF PageOK, DraftsOK
  <2>2. \A g \in Fields : detail'.fields[g] # Absent => editor'.drafts[g].type \in Types
    BY <1>1, <1>3, <1>4, <1>5, <1>6 DEF PageOK, DraftsOK
  <2>3. QED
    BY <1>5, <1>6, <2>1, <2>2 DEF DraftsOK, FormChanges
<1>8. QED
  BY <1>1, <1>5, <1>6, <1>7, FormStays

\* The fields that are to be added.
LEMMA AdditionsPage ==
  ASSUME PageOK, JobsAdvance, UNCHANGED <<jobs, req, detail>>, CanEdit,
         NEW additions \in Seq(NewFields), editor' = [editor EXCEPT !.new = additions]
  PROVE  PageOK'
<1>1. /\ FormChanges /\ editor'.drafts = editor.drafts /\ editor'.candidate = editor.candidate
  BY DEF PageOK, DraftsOK, EditorTypes, FormChanges
<1>2. Mounted /\ editor.status # "confirming"
  BY EditableIs
<1>3. DraftsOK'
  BY <1>1, <1>2, DraftsStay DEF PageOK, FormChanges
<1>4. QED
  BY <1>1, <1>2, <1>3, FormStays

LEMMA NewAre ==
  ASSUME PageOK PROVE editor \in EditorTypes /\ editor.new \in Seq(NewFields)
BY DEF PageOK, DraftsOK, EditorTypes

LEMMA AddPage ==
  ASSUME EditsInv, PageOK, JobsAdvance, UNCHANGED <<jobs, req>>, NEW added \in world.additions,
         AddField(added[1], added[2])
  PROVE  PageOK'
<1> DEFINE new == [field |-> added[1], type |-> added[2], chosen |-> FALSE]
<1>1. added[1] \in Fields /\ added[2] \in Types
  BY DEF EditsInv, WorldInv
<1>2. new \in NewFields
  BY <1>1, FlagsAre DEF NewFields
<1>3. CanEdit /\ UNCHANGED detail /\ editor' = [editor EXCEPT !.new = Append(editor.new, new)]
  BY NewAre DEF AddField, EditorTypes
<1> HIDE DEF new
<1>4. Append(editor.new, new) \in Seq(NewFields)
  BY <1>2, NewAre
<1>5. QED
  BY <1>3, <1>4, AdditionsPage

LEMMA DiscardPage ==
  ASSUME PageOK, JobsAdvance, UNCHANGED <<jobs, req>>, NEW n \in DOMAIN editor.new, DiscardField(n)
  PROVE  PageOK'
<1>1. CanEdit /\ UNCHANGED detail /\ editor' = [editor EXCEPT !.new = RemoveAt(editor.new, n)]
  BY NewAre DEF DiscardField, EditorTypes
<1>2. editor.new \in Seq(NewFields) /\ n \in 1 .. Len(editor.new)
  BY NewAre
<1>3. SubSeq(editor.new, 1, n - 1) \in Seq(NewFields)
        /\ SubSeq(editor.new, n + 1, Len(editor.new)) \in Seq(NewFields)
  BY <1>2
<1>4. RemoveAt(editor.new, n) \in Seq(NewFields)
  BY <1>3 DEF RemoveAt
<1>5. QED
  BY <1>1, <1>4, AdditionsPage

LEMMA ChoosePage ==
  ASSUME PageOK, JobsAdvance, UNCHANGED <<jobs, req>>, NEW n \in DOMAIN editor.new, ChooseTarget(n)
  PROVE  PageOK'
<1> DEFINE field == [editor.new[n] EXCEPT !.chosen = TRUE]
           additions == [editor.new EXCEPT ![n] = field]
<1>1. CanEdit /\ UNCHANGED detail /\ editor' = [editor EXCEPT !.new[n].chosen = TRUE]
  BY DEF ChooseTarget
<1>2. editor \in EditorTypes /\ editor.new \in Seq(NewFields) /\ n \in 1 .. Len(editor.new)
  BY NewAre
<1>3. editor.new[n] \in NewFields
  BY <1>2
<1>4. field \in NewFields
  BY <1>3, FlagsAre DEF NewFields
<1>5. editor' = [editor EXCEPT !.new = additions]
  BY <1>1, <1>2 DEF EditorTypes
<1> HIDE DEF field
<1>6. additions \in Seq(NewFields)
  BY <1>2, <1>4
<1> HIDE DEF additions
<1>7. QED
  BY <1>1, <1>5, <1>6, AdditionsPage

LEMMA TargetsPage ==
  ASSUME PageOK, JobsAdvance, UNCHANGED <<jobs, req, detail>>, Mounted,
         NEW targets \in {"loading", "ready", "error"},
         editor' = [editor EXCEPT !.targets = targets]
  PROVE  PageOK'
<1>1. /\ FormChanges /\ editor'.drafts = editor.drafts /\ editor'.new = editor.new
      /\ editor'.candidate = editor.candidate
  BY DEF PageOK, DraftsOK, EditorTypes, FormChanges
<1>2. DraftsOK'
  BY <1>1, DraftsStay DEF PageOK, FormChanges
<1>3. DraftedEdits' = DraftedEdits
  BY <1>1, DraftedStays
<1>4. editor.status = "confirming" => editor'.candidate = Nobody
  BY <1>1 DEF PageOK, SubmissionOK
<1>5. QED
  BY <1>1, <1>2, <1>3, <1>4, FormStays

LEMMA LoadTargetsPage ==
  ASSUME PageOK, JobsAdvance, UNCHANGED <<jobs, req>>, LoadTargets PROVE PageOK'
BY TargetsPage DEF LoadTargets

LEMMA RetryTargetsPage ==
  ASSUME PageOK, JobsAdvance, UNCHANGED <<jobs, req>>, RetryTargets PROVE PageOK'
BY TargetsPage, EditableIs DEF RetryTargets

-----------------------------------------------------------------------------
(* The submission                                                            *)

LEMMA SentPage ==
  ASSUME PageOK, JobsAdvance, UNCHANGED <<jobs, req, detail>>, Mounted, editor.loop = "none",
         NEW edits \in Requested, editor' = Sent(edits)
  PROVE  PageOK'
<1>1. edits \in Seq(Edits) /\ edits # <<>> /\ 0 < MaxPolls
  BY EditorAssumption DEF Requested
<1>2. /\ editor' \in EditorTypes /\ editor'.drafts = editor.drafts
      /\ editor'.candidate = Nobody /\ editor'.job = 0 /\ editor'.at = editor.at
      /\ editor'.status = "submitting" /\ editor'.request = edits /\ editor'.loop = "net"
      /\ editor'.polls = 0
  BY <1>1, SentIs DEF PageOK, DraftsOK
<1>3. DetailOK'
  BY DetailStays DEF PageOK
<1>4. DraftsOK'
  BY <1>2, DraftsStay DEF PageOK
<1>5. SubmissionOK'
  BY <1>1, <1>2 DEF PageOK, SubmissionOK
<1>6. QED
  BY <1>3, <1>4, <1>5 DEF PageOK

LEMMA SubmitPage ==
  ASSUME PageOK, JobsAdvance, UNCHANGED <<jobs, req>>, Submit PROVE PageOK'
<1>1. UNCHANGED detail /\ Mounted /\ editor.status # "confirming" /\ editor.loop = "none"
  BY EditableIs DEF Submit, CanSubmit
<1>2. DraftedEdits \in Requested
  BY <1>1, DraftedTypes DEF Submit, CanSubmit, DraftsAreValid, PageOK, DetailOK, Requested
<1>3. CASE editor' = Sent(DraftedEdits)
  BY <1>1, <1>2, <1>3, SentPage
<1>4. CASE editor' = [editor EXCEPT !.status = "confirming", !.request = DraftedEdits,
                                    !.candidate = Nobody]
  <2> DEFINE edits == DraftedEdits
  <2>1. edits \in Seq(Edits) /\ edits # <<>>
    BY <1>2 DEF Requested
  <2>2. editor' = [editor EXCEPT !.status = "confirming", !.request = edits, !.candidate = Nobody]
    BY <1>4
  <2>3. editor \in EditorTypes
    BY DEF PageOK, DraftsOK
  <2> HIDE DEF edits
  <2>4. /\ editor' \in EditorTypes /\ editor'.drafts = editor.drafts /\ editor'.new = editor.new
        /\ editor'.candidate = Nobody /\ editor'.job = editor.job /\ editor'.at = editor.at
        /\ editor'.status = "confirming" /\ editor'.request = edits /\ editor'.loop = editor.loop
        /\ editor'.polls = editor.polls
    BY <2>1, <2>2, <2>3 DEF EditorTypes
  <2>5. DraftedEdits' = edits
    BY <1>1, <2>4, DraftedStays DEF edits
  <2>6. DetailOK' /\ DraftsOK'
    BY <1>1, <2>4, DetailStays, DraftsStay DEF PageOK
  <2>7. SubmissionOK'
    BY <1>1, <2>1, <2>4, <2>5 DEF PageOK, SubmissionOK
  <2>8. QED
    BY <2>6, <2>7 DEF PageOK
<1>5. QED
  BY <1>3, <1>4 DEF Submit

LEMMA CancelChangesPage ==
  ASSUME PageOK, JobsAdvance, UNCHANGED <<jobs, req>>, CancelChanges PROVE PageOK'
<1>1. /\ UNCHANGED detail /\ Mounted /\ editor.status = "confirming" /\ editor.loop = "none"
      /\ editor' = [editor EXCEPT !.status = "idle", !.request = <<>>] /\ editor \in EditorTypes
  BY MountedIf DEF CancelChanges, PageOK, SubmissionOK, DraftsOK
<1>2. <<>> \in Seq(Edits)
  OBVIOUS
<1>3. /\ editor' \in EditorTypes /\ editor'.drafts = editor.drafts
      /\ editor'.candidate = editor.candidate /\ editor'.job = editor.job /\ editor'.at = editor.at
      /\ editor'.status = "idle" /\ editor'.request = <<>> /\ editor'.loop = editor.loop
      /\ editor'.polls = editor.polls
  BY <1>1, <1>2 DEF EditorTypes
<1>4. DetailOK' /\ DraftsOK'
  BY <1>1, <1>3, DetailStays, DraftsStay DEF PageOK
<1>5. SubmissionOK'
  BY <1>1, <1>3 DEF PageOK, SubmissionOK
<1>6. QED
  BY <1>4, <1>5 DEF PageOK

LEMMA ConfirmChangesPage ==
  ASSUME PageOK, JobsAdvance, UNCHANGED <<jobs, req>>, ConfirmChanges PROVE PageOK'
<1>1. /\ UNCHANGED detail /\ Mounted /\ editor.status = "confirming" /\ editor.loop = "none"
      /\ editor' = Sent(editor.request) /\ editor.request # <<>>
  BY MountedIf DEF ConfirmChanges, PageOK, SubmissionOK
<1>2. editor.request \in Requested
  BY <1>1 DEF PageOK, DraftsOK, EditorTypes, Requested
<1>3. QED
  BY <1>1, <1>2, SentPage

LEMMA SendPage ==
  ASSUME EditsInv, PageOK, NEW i \in Instances, SendEdits(i) PROVE EditsInv' /\ PageOK'
<1>1. /\ UNCHANGED detail /\ Mounted /\ editor.loop = "net" /\ editor \in EditorTypes
      /\ editor' = [editor EXCEPT !.loop = "served", !.at = i]
      /\ editor.request # <<>> /\ ReceiveRequest(i, editor.request)
  BY MountedIf DEF SendEdits, PageOK, SubmissionOK, DraftsOK
<1>2. editor.request \in Requested
  BY <1>1 DEF EditorTypes, Requested
<1>3. /\ EditsInv' /\ JobsAdvance /\ UNCHANGED jobs
      /\ req'[i].pc # "idle" /\ req'[i].edits = editor.request
  BY <1>1, <1>2, ReceiveEdits, ReceiveTypes DEF EditsInv, ReceiveRequest, queueVars
<1>4. i # Nobody
  BY Constants
<1>5. /\ editor' \in EditorTypes /\ editor'.drafts = editor.drafts
      /\ editor'.candidate = editor.candidate /\ editor'.job = editor.job /\ editor'.at = i
      /\ editor'.status = editor.status /\ editor'.request = editor.request
      /\ editor'.loop = "served" /\ editor'.polls = editor.polls
  BY <1>1 DEF EditorTypes
<1>6. DetailOK' /\ DraftsOK'
  BY <1>1, <1>3, <1>5, DetailStays, DraftsStay DEF PageOK
<1>7. SubmissionOK'
  BY <1>1, <1>3, <1>4, <1>5 DEF PageOK, SubmissionOK
<1>8. QED
  BY <1>3, <1>6, <1>7 DEF PageOK

LEMMA RefusePage ==
  ASSUME PageOK, JobsAdvance, RefuseEdits PROVE PageOK'
BY SubmissionEnds DEF RefuseEdits

LEMMA LoseAnswerPage ==
  ASSUME PageOK, JobsAdvance, LoseAnswer PROVE PageOK'
BY SubmissionEnds DEF LoseAnswer

LEMMA PollPage ==
  ASSUME PageOK, JobsAdvance, UNCHANGED <<jobs, req>>, PollJob PROVE PageOK'
<1>1. /\ UNCHANGED detail /\ Mounted /\ editor.loop = "poll" /\ editor \in EditorTypes
      /\ editor.job # 0 /\ editor.polls < MaxPolls /\ editor.polls \in Nat
  BY MountedIf DEF PollJob, PageOK, SubmissionOK, DraftsOK, EditorTypes
<1>2. CASE JobState = "failed"
  <2>1. editor' = Ended("jobFailed") /\ jobs[editor.job].state = "failed"
    BY <1>2 DEF PollJob, JobState
  <2>2. QED
    BY <1>1, <2>1, SubmissionEnds
<1>3. CASE JobState # "failed" /\ editor.polls + 1 = MaxPolls
  <2>1. editor' = Ended("error")
    BY <1>3 DEF PollJob
  <2>2. QED
    BY <1>1, <2>1, SubmissionEnds
<1>4. CASE JobState # "failed" /\ editor.polls + 1 # MaxPolls
  <2> DEFINE polls == editor.polls + 1
  <2>1. polls \in Nat /\ polls < MaxPolls
    BY <1>1, <1>4, EditorAssumption
  <2>2. editor' = [editor EXCEPT !.status = "polling", !.polls = polls]
    BY <1>1, <1>4 DEF PollJob
  <2> HIDE DEF polls
  <2>3. /\ editor' \in EditorTypes /\ editor'.drafts = editor.drafts
        /\ editor'.candidate = editor.candidate /\ editor'.job = editor.job
        /\ editor'.at = editor.at /\ editor'.status = "polling"
        /\ editor'.request = editor.request /\ editor'.loop = editor.loop /\ editor'.polls = polls
    BY <1>1, <2>1, <2>2 DEF EditorTypes
  <2>4. DetailOK' /\ DraftsOK'
    BY <1>1, <2>3, DetailStays, DraftsStay DEF PageOK
  <2>5. SubmissionOK'
    BY <1>1, <2>1, <2>3 DEF PageOK, SubmissionOK
  <2>6. QED
    BY <2>4, <2>5 DEF PageOK
<1>5. QED
  BY <1>2, <1>3, <1>4

\* An instance goes on with the request it serves.
LEMMA ServePage ==
  ASSUME EditsInv, PageOK, NEW i \in Instances, Serve(i) PROVE EditsInv' /\ PageOK'
<1>1. UNCHANGED detail /\ Admission(i) /\ editor' = IF editor.at = i THEN Served(i) ELSE editor
  BY DEF Serve
<1>2. /\ EditsInv' /\ JobsAdvance /\ RequestStep(i)
      /\ \/ UNCHANGED jobs
         \/ /\ \E j \in JobIds : /\ jobs[j].state = "none" /\ jobs'[j].state = "wait"
                                 /\ \A k \in JobIds \ {j} : jobs'[k] = jobs[k]
            /\ req'[i].pc # "idle"
  BY <1>1, AdmissionEdits
<1>3. CASE editor.at # i
  <2>1. editor.loop = "served" => editor.at \in Instances \ {i}
    BY <1>3 DEF PageOK, SubmissionOK, DraftsOK, EditorTypes
  <2>2. editor.loop = "served" => req'[editor.at] = req[editor.at]
    BY <1>2, <2>1 DEF RequestStep
  <2>3. editor.loop = "served" => req[editor.at].pc # "idle"
    BY DEF PageOK, SubmissionOK
  <2>4. QED
    BY <1>1, <1>2, <1>3, <2>2, <2>3, PageStays
<1>4. CASE editor.at = i
  <2>1. /\ editor.loop = "served" /\ Mounted /\ editor \in EditorTypes /\ editor' = Served(i)
        /\ req[i].edits = editor.request /\ editor.request # <<>>
    BY <1>1, <1>4, Constants, MountedIf DEF PageOK, SubmissionOK, DraftsOK
  <2>2. CASE jobs' # jobs
    <3>1. PICK j \in JobIds : /\ jobs[j].state = "none" /\ jobs'[j].state = "wait"
                              /\ \A k \in JobIds \ {j} : jobs'[k] = jobs[k]
      BY <1>2, <2>2
    <3>2. (CHOOSE k \in JobIds : jobs'[k] # jobs[k]) = j
      BY <3>1
    <3>3. editor' = [editor EXCEPT !.job = j]
      BY <2>1, <2>2, <3>2 DEF Served
    <3>4. j \in 0 .. MaxJobs /\ j # 0
      BY <3>1, Constants
    <3>5. /\ editor' \in EditorTypes /\ editor'.drafts = editor.drafts
          /\ editor'.candidate = editor.candidate /\ editor'.job = j
          /\ editor'.at = editor.at /\ editor'.status = editor.status
          /\ editor'.request = editor.request /\ editor'.loop = editor.loop
          /\ editor'.polls = editor.polls
      BY <2>1, <3>3, <3>4 DEF EditorTypes
    <3>6. DetailOK' /\ DraftsOK'
      BY <1>1, <1>2, <2>1, <3>5, DetailStays, DraftsStay DEF PageOK
    <3>7. req'[i].pc # "idle" /\ req'[i].edits = editor.request
      BY <1>2, <2>1, <2>2 DEF RequestStep
    <3>8. SubmissionOK'
      BY <1>4, <2>1, <3>1, <3>4, <3>5, <3>7 DEF PageOK, SubmissionOK
    <3>9. QED
      BY <1>2, <3>6, <3>8 DEF PageOK
  <2>3. CASE jobs' = jobs /\ req'[i].pc # "idle"
    <3>1. UNCHANGED editor
      BY <2>1, <2>3 DEF Served
    <3>2. req'[editor.at].pc # "idle" /\ req'[editor.at].edits = req[editor.at].edits
      BY <1>2, <1>4, <2>3 DEF RequestStep
    <3>3. QED
      BY <1>1, <1>2, <3>1, <3>2, PageStays
  <2>4. CASE jobs' = jobs /\ req'[i].pc = "idle" /\ editor.job # 0
    <3>1. editor' = [editor EXCEPT !.status = "polling", !.loop = "poll", !.at = Nobody]
      BY <2>1, <2>4 DEF Served
    <3>2. /\ editor' \in EditorTypes /\ editor'.drafts = editor.drafts
          /\ editor'.candidate = editor.candidate /\ editor'.job = editor.job
          /\ editor'.at = Nobody /\ editor'.status = "polling"
          /\ editor'.request = editor.request /\ editor'.loop = "poll"
          /\ editor'.polls = editor.polls
      BY <2>1, <3>1 DEF EditorTypes
    <3>3. DetailOK' /\ DraftsOK'
      BY <1>1, <1>2, <2>1, <3>2, DetailStays, DraftsStay DEF PageOK
    <3>4. SubmissionOK'
      BY <2>1, <2>4, <3>2 DEF PageOK, SubmissionOK
    <3>5. QED
      BY <1>2, <3>3, <3>4 DEF PageOK
  <2>5. CASE jobs' = jobs /\ req'[i].pc = "idle" /\ editor.job = 0
    <3>1. editor' = Ended("error")
      BY <2>1, <2>5 DEF Served
    <3>2. QED
      BY <1>1, <1>2, <2>1, <3>1, SubmissionEnds
  <2>6. QED
    BY <2>2, <2>3, <2>4, <2>5
<1>5. QED
  BY <1>3, <1>4

LEMMA DiePage ==
  ASSUME EditsInv, PageOK, NEW i \in Instances, Die(i) PROVE EditsInv' /\ PageOK'
<1>1. UNCHANGED detail /\ Crash(i) /\ editor' = IF editor.at = i THEN Ended("error") ELSE editor
  BY DEF Die
<1>2. EditsInv' /\ JobsAdvance /\ \A k \in Instances \ {i} : req'[k] = req[k]
  BY <1>1, CrashEdits
<1>3. CASE editor.at # i
  <2>1. editor.loop = "served" => editor.at \in Instances \ {i}
    BY <1>3 DEF PageOK, SubmissionOK, DraftsOK, EditorTypes
  <2>2. editor.loop = "served" => req'[editor.at] = req[editor.at] /\ req[editor.at].pc # "idle"
    BY <1>2, <2>1 DEF PageOK, SubmissionOK
  <2>3. QED
    BY <1>1, <1>2, <1>3, <2>2, PageStays
<1>4. CASE editor.at = i
  <2>1. editor.loop # "none"
    BY <1>4, Constants DEF PageOK, SubmissionOK
  <2>2. QED
    BY <1>1, <1>2, <1>4, <2>1, SubmissionEnds
<1>5. QED
  BY <1>3, <1>4

LEMMA OthersPage ==
  ASSUME EditsInv, PageOK, NEW i \in Instances, NEW edits \in world.requests,
         OthersRequest(i, edits)
  PROVE  EditsInv' /\ PageOK'
<1>1. UNCHANGED <<detail, editor>> /\ ReceiveRequest(i, edits) /\ edits \in Requested
  BY DEF OthersRequest, EditsInv, WorldInv
<1>2. /\ EditsInv' /\ JobsAdvance /\ req[i].pc = "idle"
      /\ \A k \in Instances \ {i} : req'[k] = req[k]
  BY <1>1, ReceiveEdits, ReceiveTypes DEF EditsInv
<1>3. editor.loop = "served" => editor.at \in Instances \ {i} /\ req[editor.at].pc # "idle"
  BY <1>2 DEF PageOK, SubmissionOK, DraftsOK, EditorTypes
<1>4. QED
  BY <1>1, <1>2, <1>3, PageStays

LEMMA ElsewherePage ==
  ASSUME EditsInv, PageOK, Elsewhere PROVE EditsInv' /\ PageOK'
<1>1. EditsInv' /\ JobsAdvance /\ UNCHANGED <<req, detail, editor>>
  BY ElsewhereEdits
<1>2. editor.loop = "served" => req[editor.at].pc # "idle"
  BY DEF PageOK, SubmissionOK
<1>3. QED
  BY <1>1, <1>2, PageStays

-----------------------------------------------------------------------------
(* The theorems                                                              *)

FieldEditorInv == EditsInv /\ PageOK

LEMMA InitFieldEditor ==
  ASSUME EditorInit PROVE FieldEditorInv
<1>1. /\ detail = [open |-> FALSE, current |-> FALSE, outcome |-> "error", fields |-> NoFields,
                   fetch |-> "none", read |-> NoSchema, done |-> {}]
      /\ editor = NoEditor /\ Init
  BY DEF EditorInit
<1>2. /\ detail \in DetailTypes /\ detail.open = FALSE /\ detail.current = FALSE
      /\ detail.fetch = "none" /\ detail.read = NoSchema /\ detail.done = {}
  BY <1>1, FlagsAre, NoFieldsAre DEF DetailTypes
<1>3. DetailOK
  BY <1>2 DEF DetailOK
<1>4. 0 < MaxPolls
  BY EditorAssumption
<1>5. DraftsOK
  BY <1>1, <1>2, NoEditorIs DEF DraftsOK, Mounted
<1>6. SubmissionOK
  BY <1>1, <1>4, NoEditorIs DEF SubmissionOK
<1>7. QED
  BY <1>1, <1>3, <1>5, <1>6, EditsInitially DEF FieldEditorInv, PageOK

LEMMA UseStep ==
  ASSUME FieldEditorInv, Use PROVE FieldEditorInv'
<1>1. EditsInv /\ PageOK
  BY DEF FieldEditorInv
<1>2. /\ UNCHANGED dataVars
      /\ UNCHANGED world \/ world' = [world EXCEPT !.gestures = @ - 1]
  BY VarsStay, GestureIs
     DEF Use, OpenDetail, CloseDetail, RetryDetail, ChangeType, ChangeConfig, ChangeDraft, AskRemoval,
         AddField, ConfirmRemoval, CancelRemoval, RetryTargets, DiscardField, ChooseTarget,
         Submit, CancelChanges, ConfirmChanges
<1>3. EditsInv' /\ JobsAdvance /\ UNCHANGED <<jobs, req>>
  BY <1>1, <1>2, DataStays
<1>4. CASE OpenDetail \/ CloseDetail \/ RetryDetail
  BY <1>1, <1>3, <1>4, OpenPage, ClosePage, RetryPage DEF FieldEditorInv
<1>5. ASSUME NEW f \in Fields,
             \/ \E type \in world.choices : ChangeType(f, type)
             \/ ChangeConfig(f) \/ AskRemoval(f)
      PROVE  FieldEditorInv'
  BY <1>1, <1>3, <1>5, ChangeTypePage, ChangeConfigPage, AskPage DEF FieldEditorInv
<1>6. ASSUME NEW added \in world.additions, AddField(added[1], added[2])
      PROVE  FieldEditorInv'
  BY <1>1, <1>3, <1>6, AddPage DEF FieldEditorInv
<1>7. CASE ConfirmRemoval \/ CancelRemoval \/ RetryTargets
  BY <1>1, <1>3, <1>7, ConfirmRemovalPage, CancelRemovalPage, RetryTargetsPage DEF FieldEditorInv
<1>8. ASSUME NEW n \in DOMAIN editor.new, DiscardField(n) \/ ChooseTarget(n)
      PROVE  FieldEditorInv'
  BY <1>1, <1>3, <1>8, DiscardPage, ChoosePage DEF FieldEditorInv
<1>9. CASE Submit \/ CancelChanges \/ ConfirmChanges
  BY <1>1, <1>3, <1>9, SubmitPage, CancelChangesPage, ConfirmChangesPage DEF FieldEditorInv
<1>10. QED
  BY <1>4, <1>5, <1>6, <1>7, <1>8, <1>9 DEF Use

LEMMA AnswerStep ==
  ASSUME FieldEditorInv, Answers \/ LoseDetail \/ LoseAnswer PROVE FieldEditorInv'
<1>1. EditsInv /\ PageOK
  BY DEF FieldEditorInv
<1>2. /\ UNCHANGED dataVars
      /\ UNCHANGED world \/ world' = [world EXCEPT !.left = @ - 1]
  BY VarsStay, FaultIs DEF Answers, ReadDetail, ShowDetail, LoadTargets, LoseDetail, LoseAnswer
<1>3. EditsInv' /\ JobsAdvance /\ UNCHANGED <<jobs, req>>
  BY <1>1, <1>2, DataStays
<1>4. QED
  BY <1>1, <1>3, ReadPage, ShowPage, LoadTargetsPage, LosePage, LoseAnswerPage
     DEF Answers, FieldEditorInv

LEMMA AwaitStep ==
  ASSUME FieldEditorInv, Await PROVE FieldEditorInv'
<1>1. EditsInv /\ PageOK
  BY DEF FieldEditorInv
<1>2. CASE RefuseEdits \/ Completed \/ PollJob
  <2>1. UNCHANGED dataVars /\ UNCHANGED world
    BY <1>2, VarsStay DEF RefuseEdits, Completed, PollJob
  <2>2. EditsInv' /\ JobsAdvance /\ UNCHANGED <<jobs, req>>
    BY <1>1, <2>1, DataStays
  <2>3. QED
    BY <1>1, <1>2, <2>2, RefusePage, CompletedPage, PollPage DEF FieldEditorInv
<1>3. ASSUME NEW i \in Instances, SendEdits(i) PROVE FieldEditorInv'
  BY <1>1, <1>3, SendPage DEF FieldEditorInv
<1>4. QED
  BY <1>2, <1>3 DEF Await

LEMMA FieldEditorStep ==
  ASSUME FieldEditorInv, [EditorNext]_editorVars PROVE FieldEditorInv'
<1>1. EditsInv /\ PageOK
  BY DEF FieldEditorInv
<1>2. CASE Use
  BY <1>2, UseStep
<1>3. CASE Answers \/ LoseDetail \/ LoseAnswer
  BY <1>3, AnswerStep
<1>4. CASE Await
  BY <1>4, AwaitStep
<1>5. ASSUME NEW i \in Instances,
             Serve(i) \/ Die(i) \/ \E edits \in world.requests : OthersRequest(i, edits)
      PROVE  FieldEditorInv'
  BY <1>1, <1>5, ServePage, DiePage, OthersPage DEF FieldEditorInv
<1>6. CASE Elsewhere
  BY <1>1, <1>6, ElsewherePage DEF FieldEditorInv
<1>7. CASE UNCHANGED editorVars
  <2>1. UNCHANGED vars /\ UNCHANGED <<detail, editor>>
    BY <1>7 DEF editorVars
  <2>2. UNCHANGED dataVars /\ UNCHANGED <<world, req>> /\ JobsAdvance
    BY <2>1, VarsStay
  <2>3. EditsInv'
    BY <1>1, <2>2, DataStays
  <2>4. editor.loop = "served" => req[editor.at].pc # "idle"
    BY <1>1 DEF PageOK, SubmissionOK
  <2>5. QED
    BY <1>1, <2>1, <2>2, <2>3, <2>4, PageStays DEF FieldEditorInv
<1>8. QED
  BY <1>2, <1>3, <1>4, <1>5, <1>6, <1>7 DEF EditorNext

\* The types say no more than the invariant.
LEMMA TypesFollow ==
  ASSUME FieldEditorInv PROVE EditorTypeOK
<1>1. EditsInv /\ DetailOK /\ DraftsOK /\ SubmissionOK
  BY DEF FieldEditorInv, PageOK
<1>2. TypeOK
  <2>1. columns \in [Columns -> Column] /\ meta \in Schema /\ jobs \in [JobIds -> Job]
          /\ queue \in Seq(JobIds) /\ lock \in Instances \union {Nobody}
    BY <1>1 DEF EditsInv, WorkInv, TableInv, JobsOK, QueueOK, RequestsOK
  <2>2. \A j \in JobIds : recorded[j] \subseteq (DOMAIN jobs[j].edits) \X Stages
    <3>1. \A j \in JobIds : DOMAIN jobs[j].edits = 1 .. Len(jobs[j].edits)
      BY <2>1 DEF Job
    <3>2. QED
      BY <1>1, <3>1 DEF EditsInv, WorkInv, RecordsOK
  <2>3. ASSUME NEW i \in Instances
        PROVE  /\ worker[i].pc \in WorkerPCs
               /\ worker[i].pc # "idle" =>
                    /\ worker[i].job \in JobIds
                    /\ jobs[worker[i].job].state = "active"
                    /\ worker[i].n \in DOMAIN jobs[worker[i].job].edits
                    /\ worker[i].stage \in Stages
               /\ req[i].pc \in RequestPCs /\ req[i].todo \subseteq {"count", "pending"}
               /\ read[i] \in Schema \union {NoSchema} /\ cache[i] \in Schema \union {NoSchema}
    <3>1. worker[i] \in WorkerTypes /\ req[i] \in RequestTypes
      BY <1>1 DEF EditsInv, WorkInv, WorkersOK, RequestsOK
    <3>2. Works(i) => /\ worker[i].job \in JobIds /\ jobs[worker[i].job].state = "active"
                      /\ worker[i].n \in DOMAIN jobs[worker[i].job].edits
      BY <1>1, WorkerIs DEF EditsInv, JobOf
    <3>3. QED
      BY <1>1, <3>1, <3>2 DEF EditsInv, CachesOK, WorkerTypes, RequestTypes, Works
  <2>4. QED
    BY <2>1, <2>2, <2>3 DEF TypeOK, WorkerPCs, RequestPCs
<1>3. detail \in [open : BOOLEAN, current : BOOLEAN, outcome : {"ready", "error"},
                  fields : Schema, fetch : {"none", "asked", "read"},
                  read : Schema \union {NoSchema}, done : SUBSET JobIds]
  BY <1>1 DEF DetailOK, DetailTypes, Flags
<1>4. editor \in EditorTypes
  BY <1>1 DEF DraftsOK
<1>5. editor.drafts \in [Fields -> DraftType]
  BY <1>4 DEF EditorTypes, DraftTypes, DraftType, Flags
<1>6. \A n \in DOMAIN editor.new :
        editor.new[n] \in [field : Fields, type : Types, chosen : BOOLEAN]
  <2>1. editor.new \in Seq(NewFields)
    BY <1>4 DEF EditorTypes
  <2>2. \A n \in DOMAIN editor.new : editor.new[n] \in NewFields
    BY <2>1
  <2>3. QED
    BY <2>2 DEF NewFields, Flags
<1>7. /\ editor.candidate \in Fields \union {Nobody}
      /\ editor.targets \in {"loading", "ready", "error"}
      /\ editor.status \in {"idle", "confirming", "submitting", "polling", "error", "jobFailed"}
      /\ editor.request \in Seq(Edits) /\ editor.loop \in {"none", "net", "served", "poll"}
  BY <1>4 DEF EditorTypes
<1>8. QED
  BY <1>1, <1>2, <1>3, <1>5, <1>6, <1>7 DEF EditorTypeOK, DetailOK, DraftsOK, SubmissionOK, JobState

LEMMA EditorFollows ==
  ASSUME FieldEditorInv PROVE EditorHolds
<1>1. DetailOK /\ DraftsOK /\ SubmissionOK
  BY DEF FieldEditorInv, PageOK
<1>2. ApprovedIsShown
  BY <1>1 DEF ApprovedIsShown, SubmissionOK
<1>3. CompletedIsShown
  <2>1. SUFFICES ASSUME Mounted, NEW j \in detail.done, NEW f \in Fields, Only(j, f)
                 PROVE  detail.fields[f] = Becomes(jobs[j].edits, f)
    BY DEF CompletedIsShown, Only, Becomes
  <2>2. Knows(detail.fields)
    BY <1>1, <2>1 DEF DetailOK, Mounted
  <2>3. QED
    BY <2>1, <2>2 DEF Knows
<1>4. editor.status = "jobFailed" => JobState = "failed"
  BY <1>1 DEF SubmissionOK, JobState
<1>5. QED
  BY <1>2, <1>3, <1>4 DEF EditorHolds

LEMMA RecordsFollow ==
  ASSUME FieldEditorInv PROVE CompletedIsRecorded
<1>1. JobsOK /\ RecordsOK
  BY DEF FieldEditorInv, EditsInv, WorkInv
<1>2. \A j \in JobIds : DOMAIN jobs[j].edits = 1 .. Len(jobs[j].edits)
  BY <1>1 DEF JobsOK, Job
<1>3. QED
  BY <1>1, <1>2 DEF CompletedIsRecorded, RecordsOK, EditRecorded

\* The invariant holds in every reachable state.
LEMMA FieldEditorInvariant == EditorSpec => []FieldEditorInv
<1>1. EditorInit => FieldEditorInv
  BY InitFieldEditor
<1>2. FieldEditorInv /\ [EditorNext]_editorVars => FieldEditorInv'
  BY FieldEditorStep
<1>3. QED
  BY <1>1, <1>2, PTL DEF EditorSpec

\* enqueueFieldEdit(), processFieldEdit() and the page: a worker runs an active
\* job at an edit and a step that the job has, a job is rejected at most
\* RetryCount times and stalls at most once more than it is requeued, what is
\* recorded are steps of the job, and a field marked for removal is shown.
THEOREM EditorTypeCorrect == EditorSpec => []EditorTypeOK
<1>1. FieldEditorInv => EditorTypeOK
  BY TypesFollow
<1>2. QED
  BY <1>1, FieldEditorInvariant, PTL

\* useDdlJobSubmission() and FieldEditor: the page submits what it shows and its
\* user approved, says of a job only what became of it, and when it has reloaded
\* the table after a completed submission it shows what that submission made of
\* a field that nobody else edits, whatever fails, crashes and is retried.
THEOREM EditorTellsTheTruth == EditorSpec => []EditorHolds
<1>1. FieldEditorInv => EditorHolds
  BY EditorFollows
<1>2. QED
  BY <1>1, FieldEditorInvariant, PTL

\* processFieldEdit(): a job is completed only after every step of every edit of
\* it has its completed row in _meta_migrations, in whichever attempts.
THEOREM CompletedEditsAreRecorded == EditorSpec => []CompletedIsRecorded
<1>1. FieldEditorInv => CompletedIsRecorded
  BY RecordsFollow
<1>2. QED
  BY <1>1, FieldEditorInvariant, PTL

-----------------------------------------------------------------------------
(* One worker                                                                *)

\* At most one backend instance runs a worker, and shadow columns have names of
\* their own, as long as nobody calls a field f__shadow.
OneWorker == \A i, k \in world.instances : i = k
ShadowsApart ==
  \A f, g \in Fields : Shadow[f] \notin Fields /\ (Shadow[f] = Shadow[g] => f = g)

LastOf(edits, n) == \A m \in n + 1 .. Len(edits) : edits[m].field # edits[n].field
Leaves(e) == IF e.op = "remove" THEN Absent ELSE e.type
Unfinished(j) == jobs[j].state \notin {"none", "completed"}
OthersTouch(j, f) == \E k \in JobIds \ {j} : Unfinished(k) /\ Touches(jobs[k].edits, f)

\* What a job leaves added is new: it takes the place of what the same job has
\* removed, or the table was made without it and no other edit is about it.
Replaces(edits, n) ==
  \E m \in 1 .. n - 1 :
    /\ edits[m].op = "remove" /\ edits[m].field = edits[n].field
    /\ \A k \in m + 1 .. n - 1 : edits[k].field # edits[n].field
IsFirst(j, n) ==
  LET f == jobs[j].edits[n].field
  IN  /\ world.initial[f] = Absent /\ Only(j, f)
      /\ \A m \in 1 .. Len(jobs[j].edits) : jobs[j].edits[m].field = f => m = n
AddsAreNew ==
  \A j \in Accepted : \A n \in 1 .. Len(jobs[j].edits) :
    jobs[j].edits[n].op = "add" /\ LastOf(jobs[j].edits, n) =>
      Replaces(jobs[j].edits, n) \/ IsFirst(j, n)

\* Where the attempt of worker i is: the edits behind it, the one it is at,
\* and whether that one has its shadow column.
Live(i) == worker[i].pc \in {"step", "record", "metadata", "complete"}
Behind(i, n) == n < worker[i].n \/ worker[i].pc \in {"metadata", "complete"}
At(i, pc, stage) == worker[i].pc = pc /\ worker[i].stage = stage
HasShadow(i) ==
  \/ At(i, "record", "add-shadow-column") \/ At(i, "step", "backfill-column")
  \/ At(i, "record", "backfill-column") \/ At(i, "step", "cutover-column")
Filled(i) == At(i, "record", "backfill-column") \/ At(i, "step", "cutover-column")
EditsOf(i) == JobOf(i).edits
FieldAt(i) == EditsOf(i)[worker[i].n].field
ShadowAt(i) == Shadow[FieldAt(i)]

\* What the attempt has done to the columns of the fields it edits, and to their
\* metadata.
ShadowStands(i) ==
  (HasShadow(i) => Exists(ShadowAt(i))) /\ (Filled(i) => columns[ShadowAt(i)].whole)
ColumnStands(i) ==
  At(i, "record", "add-column") \/ At(i, "record", "cutover-column") => Exists(FieldAt(i))
ColumnsStand(i) ==
  \A n \in 1 .. Len(EditsOf(i)) : Behind(i, n) /\ EditsOf(i)[n].op # "remove" =>
    \/ Exists(EditsOf(i)[n].field)
    \/ \E k \in n + 1 .. worker[i].n :
         EditsOf(i)[k].op = "remove" /\ EditsOf(i)[k].field = EditsOf(i)[n].field
MetadataStands(i) ==
  worker[i].pc = "complete" =>
    \A f \in Fields : Touches(EditsOf(i), f) => meta[f] = Becomes(EditsOf(i), f)
ColumnsOf(i) == ShadowStands(i) /\ ColumnStands(i) /\ ColumnsStand(i) /\ MetadataStands(i)

\* ... and which types they have, unless another job may have left a shadow column.
ShadowTyped(i) ==
  HasShadow(i) /\ LastOf(EditsOf(i), worker[i].n) =>
    \/ columns[ShadowAt(i)].type = EditsOf(i)[worker[i].n].type
    \/ OthersTouch(worker[i].job, FieldAt(i))
Ends(i) == worker[i].pc = "record" /\ worker[i].stage \notin {"add-shadow-column", "backfill-column"}
ColumnTyped(i) ==
  Ends(i) /\ LastOf(EditsOf(i), worker[i].n) =>
    \/ columns[FieldAt(i)].type = Leaves(EditsOf(i)[worker[i].n])
    \/ OthersTouch(worker[i].job, FieldAt(i))
ColumnsTyped(i) ==
  \A n \in 1 .. Len(EditsOf(i)) : Behind(i, n) /\ LastOf(EditsOf(i), n) =>
    \/ columns[EditsOf(i)[n].field].type = Leaves(EditsOf(i)[n])
    \/ OthersTouch(worker[i].job, EditsOf(i)[n].field)
DroppedAt(i, n) ==
  /\ EditsOf(i)[n].op = "remove" /\ worker[i].pc \in {"step", "record"}
  /\ \A k \in n + 1 .. worker[i].n - 1 : EditsOf(i)[k].field # EditsOf(i)[n].field
  /\ EditsOf(i)[n].field = FieldAt(i) => At(i, "step", "add-column")
ColumnsDropped(i) ==
  /\ At(i, "record", "drop-column") => columns[FieldAt(i)] = NoColumn
  /\ \A n \in 1 .. worker[i].n - 1 : DroppedAt(i, n) => columns[EditsOf(i)[n].field] = NoColumn
ShadowsGone(i) ==
  /\ At(i, "record", "cutover-column") => ~Exists(ShadowAt(i))
  /\ \A n \in 1 .. Len(EditsOf(i)) :
       Behind(i, n) /\ EditsOf(i)[n].op = "modify" /\ Exists(Shadow[EditsOf(i)[n].field]) =>
         HasShadow(i) /\ FieldAt(i) = EditsOf(i)[n].field
TypesOf(i) ==
  ShadowTyped(i) /\ ColumnTyped(i) /\ ColumnsTyped(i) /\ ColumnsDropped(i) /\ ShadowsGone(i)

\* No column is lost or emptied: where one is missing, a job that is not completed
\* removes it.
RemovedBy(j, f) ==
  \E n \in 1 .. Len(jobs[j].edits) : jobs[j].edits[n].op = "remove" /\ jobs[j].edits[n].field = f
KeptColumns ==
  /\ ColumnsStayWhole
  /\ \A f \in Fields : meta[f] # Absent /\ ~Exists(f) =>
       \E j \in JobIds : Unfinished(j) /\ RemovedBy(j, f)
  /\ \A i \in Instances : Works(i) /\ Live(i) => ColumnsOf(i)

\* Columns and metadata agree but for what unfinished jobs have left, and what a
\* job is the first to add has the type that it gave it.
ModifiedBy(j, f, type) ==
  \E n \in 1 .. Len(jobs[j].edits) :
    jobs[j].edits[n].op = "modify" /\ jobs[j].edits[n].field = f /\ jobs[j].edits[n].type = type
TypesMatch ==
  /\ \A c \in Columns : columns[c].type = Absent => ~Exists(c)
  /\ \A f \in Fields : columns[f].type # meta[f] =>
       \E j \in JobIds : Unfinished(j) /\ Touches(jobs[j].edits, f)
  /\ \A f \in Fields : Exists(Shadow[f]) =>
       \E j \in JobIds : Unfinished(j) /\ ModifiedBy(j, f, columns[Shadow[f]].type)
NewColumnsMatch ==
  /\ \A f \in Fields :
       world.initial[f] = Absent /\ (\A j \in Accepted : ~Touches(jobs[j].edits, f)) =>
         columns[f] = NoColumn
  /\ \A j \in Accepted : \A n \in 1 .. Len(jobs[j].edits) :
       jobs[j].edits[n].op = "add" /\ IsFirst(j, n) =>
         columns[jobs[j].edits[n].field].type \in {Absent, jobs[j].edits[n].type}
MatchingTypes ==
  TypesMatch /\ NewColumnsMatch /\ \A i \in Instances : Works(i) /\ Live(i) => TypesOf(i)

WorkersServe == \A i \in Instances : Works(i) => i \in world.instances
OneWorkerInv ==
  /\ WorkersServe
  /\ OneWorker /\ ShadowsApart => KeptColumns /\ (AddsAreNew => MatchingTypes)

\* A step that completes no job and leaves the table alone, at which a worker
\* goes on, stops, or starts with a job.
NothingCompletes ==
  \A j \in JobIds : jobs'[j].state = "completed" => jobs[j].state = "completed"
Starts(i) ==
  /\ worker[i].pc = "step" /\ worker[i].n = 1
  /\ worker[i].stage \notin {"backfill-column", "cutover-column"}
Pauses ==
  /\ JobsAdvance /\ NothingCompletes /\ UNCHANGED <<columns, meta>>
  /\ world'.initial = world.initial
  /\ \A i \in Instances : Works(i)' /\ Live(i)' =>
       \/ Works(i) /\ worker'[i] = worker[i]
       \/ Starts(i)'

LEMMA UnfinishedStays ==
  ASSUME JobsAdvance, NothingCompletes
  PROVE  /\ \A j \in JobIds : Unfinished(j) => Unfinished(j)' /\ jobs'[j].edits = jobs[j].edits
         /\ \A j \in JobIds : \A f : OthersTouch(j, f) => OthersTouch(j, f)'
<1>1. \A j \in JobIds : Unfinished(j) => Unfinished(j)' /\ jobs'[j].edits = jobs[j].edits
  BY DEF JobsAdvance, NothingCompletes, Unfinished
<1>2. \A j \in JobIds : \A f : OthersTouch(j, f) => OthersTouch(j, f)'
  BY <1>1 DEF OthersTouch, Touches
<1>3. QED
  BY <1>1, <1>2

\* What the new jobs add was new before.
LEMMA AddsWereNew ==
  ASSUME JobsAdvance, world'.initial = world.initial
  PROVE  /\ \A j \in Accepted : j \in JobIds /\ j \in Accepted' /\ jobs'[j].edits = jobs[j].edits
         /\ \A j \in Accepted : \A n : IsFirst(j, n)' => IsFirst(j, n)
         /\ AddsAreNew' => AddsAreNew
<1>1. \A j \in Accepted : j \in JobIds /\ j \in Accepted' /\ jobs'[j].edits = jobs[j].edits
  BY DEF JobsAdvance, Accepted
<1>2. ASSUME NEW j \in Accepted, NEW f, Only(j, f)' PROVE Only(j, f)
  BY <1>1, <1>2 DEF Only, Touches
<1>3. ASSUME NEW j \in Accepted, NEW n, IsFirst(j, n)' PROVE IsFirst(j, n)
  BY <1>1, <1>2, <1>3 DEF IsFirst
<1>4. ASSUME AddsAreNew', NEW j \in Accepted, NEW n \in 1 .. Len(jobs[j].edits),
             jobs[j].edits[n].op = "add", LastOf(jobs[j].edits, n)
      PROVE  Replaces(jobs[j].edits, n) \/ IsFirst(j, n)
  <2>1. jobs'[j].edits = jobs[j].edits /\ j \in Accepted'
    BY <1>1
  <2>2. Replaces(jobs[j].edits, n) \/ IsFirst(j, n)'
    BY <1>4, <2>1 DEF AddsAreNew
  <2>3. QED
    BY <1>3, <2>2
<1>5. QED
  BY <1>1, <1>3, <1>4 DEF AddsAreNew

\* A worker that goes on is where it was.
LEMMA PausesWorker ==
  ASSUME WorkInv, Pauses, NEW i \in Instances, Works(i), worker'[i] = worker[i]
  PROVE  /\ worker[i].job \in JobIds /\ EditsOf(i)' = EditsOf(i)
         /\ FieldAt(i)' = FieldAt(i) /\ ShadowAt(i)' = ShadowAt(i)
         /\ Unfinished(worker[i].job)
<1>1. worker[i].job \in JobIds /\ JobOf(i).state = "active"
  BY WorkerIs
<1>2. EditsOf(i)' = EditsOf(i)
  BY <1>1 DEF Pauses, JobsAdvance, EditsOf, JobOf
<1>3. QED
  BY <1>1, <1>2 DEF FieldAt, ShadowAt, Unfinished, JobOf

LEMMA PausesKeep ==
  ASSUME WorkInv, Pauses, KeptColumns PROVE KeptColumns'
<1>1. \A j \in JobIds : Unfinished(j) => Unfinished(j)' /\ jobs'[j].edits = jobs[j].edits
  BY UnfinishedStays DEF Pauses
<1>2. \A j \in JobIds : \A f : Unfinished(j) /\ RemovedBy(j, f) => Unfinished(j)' /\ RemovedBy(j, f)'
  BY <1>1 DEF RemovedBy
<1>3. ASSUME NEW i \in Instances, Works(i)', Live(i)' PROVE ColumnsOf(i)'
  <2>1. CASE Works(i) /\ worker'[i] = worker[i]
    <3>1. EditsOf(i)' = EditsOf(i) /\ FieldAt(i)' = FieldAt(i) /\ ShadowAt(i)' = ShadowAt(i)
      BY <2>1, PausesWorker
    <3>2. ColumnsOf(i) /\ UNCHANGED <<columns, meta>>
      BY <1>3, <2>1 DEF KeptColumns, Live, Pauses
    <3>3. ShadowStands(i)' /\ ColumnStands(i)'
      BY <2>1, <3>1, <3>2 DEF ColumnsOf, ShadowStands, ColumnStands, HasShadow, Filled, At, Exists
    <3>4. ColumnsStand(i)'
      BY <2>1, <3>1, <3>2 DEF ColumnsOf, ColumnsStand, Behind, Exists
    <3>5. MetadataStands(i)'
      BY <2>1, <3>1, <3>2 DEF ColumnsOf, MetadataStands, Becomes, Touches
    <3>6. QED
      BY <3>3, <3>4, <3>5 DEF ColumnsOf
  <2>2. CASE Starts(i)'
    BY <2>2 DEF Starts, ColumnsOf, ShadowStands, ColumnStands, ColumnsStand, MetadataStands,
                HasShadow, Filled, At, Behind
  <2>3. QED
    BY <1>3, <2>1, <2>2 DEF Pauses
<1>4. QED
  BY <1>2, <1>3 DEF KeptColumns, Pauses, ColumnsStayWhole, Exists

LEMMA PausesMatch ==
  ASSUME WorkInv, WorkInv', Pauses, MatchingTypes PROVE MatchingTypes'
<1>1. /\ \A j \in JobIds : Unfinished(j) => Unfinished(j)' /\ jobs'[j].edits = jobs[j].edits
      /\ \A j \in JobIds : \A f : OthersTouch(j, f) => OthersTouch(j, f)'
  BY UnfinishedStays DEF Pauses
<1>2. UNCHANGED <<columns, meta>> /\ world'.initial = world.initial /\ JobsAdvance
  BY DEF Pauses
<1>3. TypesMatch'
  <2>1. \A j \in JobIds : \A f, type :
          /\ Unfinished(j) /\ Touches(jobs[j].edits, f) => Unfinished(j)' /\ Touches(jobs'[j].edits, f)
          /\ Unfinished(j) /\ ModifiedBy(j, f, type) => Unfinished(j)' /\ ModifiedBy(j, f, type)'
    BY <1>1 DEF ModifiedBy, Touches
  <2>2. QED
    BY <1>2, <2>1 DEF MatchingTypes, TypesMatch, Exists
<1>4. NewColumnsMatch'
  <2>1. /\ \A j \in Accepted : j \in JobIds /\ j \in Accepted' /\ jobs'[j].edits = jobs[j].edits
        /\ \A j \in Accepted : \A n : IsFirst(j, n)' => IsFirst(j, n)
    BY <1>2, AddsWereNew
  <2>2. ASSUME NEW f \in Fields, world.initial[f] = Absent,
               \A j \in Accepted' : ~Touches(jobs'[j].edits, f)
        PROVE  columns'[f] = NoColumn
    BY <1>2, <2>1, <2>2 DEF MatchingTypes, NewColumnsMatch
  <2>3. ASSUME NEW j \in Accepted', NEW n \in 1 .. Len(jobs'[j].edits),
               jobs'[j].edits[n].op = "add", IsFirst(j, n)'
        PROVE  columns'[jobs'[j].edits[n].field].type \in {Absent, jobs'[j].edits[n].type}
    <3>1. CASE j \in Accepted
      BY <1>2, <2>1, <2>3, <3>1 DEF MatchingTypes, NewColumnsMatch
    <3>2. CASE j \notin Accepted
      <4>1. PICK e : e = jobs'[j].edits[n]
        OBVIOUS
      <4>2. e.field \in Fields
        <5>1. jobs'[j] \in Job
          BY <2>3 DEF WorkInv, JobsOK, Accepted
        <5>2. e \in Edits
          BY <2>3, <4>1, <5>1 DEF Job
        <5>3. QED
          BY <5>2, StagesOf
      <4>3. world.initial[e.field] = Absent
        BY <1>2, <2>3, <4>1 DEF IsFirst
      <4>4. \A k \in Accepted' \ {j} : ~Touches(jobs'[k].edits, e.field)
        BY <2>3, <4>1 DEF IsFirst, Only, Touches
      <4>5. \A k \in Accepted : ~Touches(jobs[k].edits, e.field)
        BY <2>1, <3>2, <4>4
      <4>6. columns[e.field] = NoColumn
        BY <4>2, <4>3, <4>5 DEF MatchingTypes, NewColumnsMatch
      <4>7. QED
        BY <1>2, <4>1, <4>6, ColumnTypes
    <3>3. QED
      BY <3>1, <3>2
  <2>4. QED
    BY <1>2, <2>2, <2>3 DEF NewColumnsMatch
<1>5. ASSUME NEW i \in Instances, Works(i)', Live(i)' PROVE TypesOf(i)'
  <2>1. CASE Works(i) /\ worker'[i] = worker[i]
    <3>1. /\ EditsOf(i)' = EditsOf(i) /\ FieldAt(i)' = FieldAt(i) /\ ShadowAt(i)' = ShadowAt(i)
          /\ worker[i].job \in JobIds
      BY <2>1, PausesWorker
    <3>2. TypesOf(i)
      BY <1>5, <2>1 DEF MatchingTypes, Live
    <3>3. \A f : OthersTouch(worker[i].job, f) => OthersTouch(worker[i].job, f)'
      BY <1>1, <2>1, <3>1 DEF OthersTouch, Touches
    <3>4. ShadowTyped(i)'
      BY <1>2, <2>1, <3>1, <3>2, <3>3 DEF TypesOf, ShadowTyped, HasShadow, At
    <3>5. ColumnTyped(i)'
      BY <1>2, <2>1, <3>1, <3>2, <3>3 DEF TypesOf, ColumnTyped, Ends
    <3>6. ColumnsTyped(i)'
      BY <1>2, <2>1, <3>1, <3>2, <3>3 DEF TypesOf, ColumnsTyped, Behind
    <3>7. ColumnsDropped(i)'
      BY <1>2, <2>1, <3>1, <3>2 DEF TypesOf, ColumnsDropped, DroppedAt, At
    <3>8. ShadowsGone(i)'
      BY <1>2, <2>1, <3>1, <3>2 DEF TypesOf, ShadowsGone, Behind, HasShadow, At, Exists
    <3>9. QED
      BY <3>4, <3>5, <3>6, <3>7, <3>8 DEF TypesOf
  <2>2. CASE Starts(i)'
    BY <2>2 DEF Starts, TypesOf, ShadowTyped, ColumnTyped, ColumnsTyped, ColumnsDropped, ShadowsGone,
                Ends, HasShadow, At, Behind
  <2>3. QED
    BY <1>5, <2>1, <2>2 DEF Pauses
<1>6. QED
  BY <1>3, <1>4, <1>5 DEF MatchingTypes

\* A column exists if it has a type, or values.
LEMMA ColumnIs ==
  /\ NoColumn.type = Absent /\ NoColumn.whole = FALSE
  /\ \A c \in Column : c = NoColumn <=> c.type = Absent /\ c.whole = FALSE
  /\ \A type : NewColumn(type, TRUE).type = type /\ NewColumn(type, TRUE).whole
  /\ \A type : NewColumn(type, FALSE).type = type /\ ~NewColumn(type, FALSE).whole
  /\ \A type : type # Absent =>
       NewColumn(type, TRUE) # NoColumn /\ NewColumn(type, FALSE) # NoColumn
BY DEF Column, NoColumn, NewColumn

\* The worker that executes a step, and the two columns it is about.
LEMMA AttemptIs ==
  ASSUME WorkInv, NEW i \in Instances, Works(i)
  PROVE  /\ worker[i].job \in JobIds /\ JobOf(i).state = "active" /\ Unfinished(worker[i].job)
         /\ EditsOf(i) \in Seq(Edits) /\ EditsOf(i) = jobs[worker[i].job].edits
         /\ Len(EditsOf(i)) \in Nat /\ worker[i].n \in 1 .. Len(EditsOf(i))
         /\ Edit(worker[i]) = EditsOf(i)[worker[i].n] /\ Edit(worker[i]).field = FieldAt(i)
         /\ FieldAt(i) \in Fields /\ FieldAt(i) \in Columns /\ ShadowAt(i) \in Columns
         /\ EditsOf(i)[worker[i].n].op \in {"add", "remove", "modify"}
         /\ EditsOf(i)[worker[i].n].type \in Types
         /\ \A n \in 1 .. Len(EditsOf(i)) : EditsOf(i)[n].field \in Fields
<1>1. /\ worker[i].job \in JobIds /\ JobOf(i).state = "active"
      /\ EditsOf(i) \in Seq(Edits) /\ EditsOf(i) = jobs[worker[i].job].edits
      /\ worker[i].n \in 1 .. Len(EditsOf(i))
  BY WorkerIs DEF EditsOf, JobOf
<1>2. Unfinished(worker[i].job)
  BY <1>1 DEF Unfinished, JobOf
<1>3. EditsOf(i)[worker[i].n] \in Edits /\ Edit(worker[i]) = EditsOf(i)[worker[i].n]
        /\ Edit(worker[i]).field = FieldAt(i)
  BY <1>1 DEF Edit, FieldAt
<1>4. \A n \in 1 .. Len(EditsOf(i)) : EditsOf(i)[n] \in Edits
  BY <1>1
<1>5. \A n \in 1 .. Len(EditsOf(i)) : EditsOf(i)[n].field \in Fields
  BY <1>4, StagesOf
<1>6. /\ FieldAt(i) \in Fields /\ FieldAt(i) \in Columns /\ ShadowAt(i) \in Columns
      /\ EditsOf(i)[worker[i].n].op \in {"add", "remove", "modify"}
      /\ EditsOf(i)[worker[i].n].type \in Types
  BY <1>3, StagesOf, Constants DEF FieldAt, ShadowAt
<1>7. QED
  BY <1>1, <1>2, <1>3, <1>5, <1>6

\* What a step makes of the column of the field and of its shadow column.
Added(i) ==
  columns'[FieldAt(i)] = IF Exists(FieldAt(i)) THEN columns[FieldAt(i)]
                         ELSE NewColumn(EditsOf(i)[worker[i].n].type, TRUE)
ShadowAdded(i) ==
  columns'[ShadowAt(i)] = IF Exists(ShadowAt(i)) THEN columns[ShadowAt(i)]
                          ELSE NewColumn(EditsOf(i)[worker[i].n].type, FALSE)
ShadowFilled(i) ==
  /\ columns[FieldAt(i)].type \in Types /\ columns[ShadowAt(i)].type \in Types
  /\ columns'[ShadowAt(i)].type = columns[ShadowAt(i)].type
  /\ columns'[ShadowAt(i)].whole = columns[FieldAt(i)].whole
StepOf(i) ==
  LET f == FieldAt(i)
      s == ShadowAt(i)
      stage == worker[i].stage
  IN  /\ \A c \in Columns \ {f, s} : columns'[c] = columns[c]
      /\ stage = "add-column" => Added(i) /\ columns'[s] = columns[s]
      /\ stage = "drop-column" => columns'[f] = NoColumn /\ columns'[s] = columns[s]
      /\ stage = "add-shadow-column" => ShadowAdded(i) /\ columns'[f] = columns[f]
      /\ stage = "backfill-column" => ShadowFilled(i) /\ columns'[f] = columns[f]
      /\ stage = "cutover-column" => columns'[f] = columns[s] /\ columns'[s] = NoColumn

LEMMA StepIs ==
  ASSUME WorkInv, TableInv, ShadowsApart, NEW i \in Instances, Works(i), ~StepErrs(worker[i]),
         columns' = StepEffect(worker[i])
  PROVE  StepOf(i)
<1> DEFINE w == worker[i]
           f == FieldAt(i)
           s == ShadowAt(i)
           type == EditsOf(i)[worker[i].n].type
<1>1. f \in Columns /\ s \in Columns /\ Edit(w).field = f /\ Edit(w).type = type
        /\ f \in Fields /\ s = Shadow[f]
  BY AttemptIs DEF ShadowAt
<1>2. f # s /\ columns \in [Columns -> Column] /\ w.stage \in Stages
  BY <1>1, WorkerIs DEF ShadowsApart, TableInv
<1> HIDE DEF f, s, type
<1>3. CASE w.stage = "add-column"
  <2>1. columns' = IF Exists(f) THEN columns ELSE [columns EXCEPT ![f] = NewColumn(type, TRUE)]
    BY <1>1, <1>3 DEF StepEffect
  <2>2. QED
    BY <2>1, <1>1, <1>2, <1>3 DEF StepOf, Added, f, s, type
<1>4. CASE w.stage = "drop-column"
  <2>1. columns' = [columns EXCEPT ![f] = NoColumn]
    BY <1>1, <1>4 DEF StepEffect
  <2>2. QED
    BY <2>1, <1>1, <1>2, <1>4 DEF StepOf, f, s
<1>5. CASE w.stage = "add-shadow-column"
  <2>1. columns' = IF Exists(s) THEN columns ELSE [columns EXCEPT ![s] = NewColumn(type, FALSE)]
    BY <1>1, <1>5 DEF StepEffect
  <2>2. QED
    BY <2>1, <1>1, <1>2, <1>5 DEF StepOf, ShadowAdded, f, s, type
<1>6. CASE w.stage = "backfill-column"
  <2>1. columns' = [columns EXCEPT ![s].whole = columns[f].whole]
    BY <1>1, <1>6 DEF StepEffect
  <2>2. <<columns[f].type, columns[s].type>> \in Assignable
    BY <1>1, <1>6 DEF StepErrs
  <2>3. columns[f].type \in Types /\ columns[s].type \in Types
    BY <2>2, ConstantsAssumption
  <2>4. columns[s] \in Column /\ columns'[s] = [columns[s] EXCEPT !.whole = columns[f].whole]
          /\ \A c \in Columns \ {s} : columns'[c] = columns[c]
    BY <2>1, <1>1, <1>2
  <2>5. columns'[s].type = columns[s].type /\ columns'[s].whole = columns[f].whole
    BY <2>4 DEF Column
  <2>6. QED
    BY <2>3, <2>4, <2>5, <1>1, <1>2, <1>6 DEF StepOf, ShadowFilled, f, s
<1>7. CASE w.stage = "cutover-column"
  <2>1. columns' = [columns EXCEPT ![f] = columns[s], ![s] = NoColumn]
    BY <1>1, <1>7 DEF StepEffect, Cutover
  <2>2. QED
    BY <2>1, <1>1, <1>2, <1>7 DEF StepOf, f, s
<1>8. QED
  BY <1>2, <1>3, <1>4, <1>5, <1>6, <1>7 DEF Stages

LEMMA AddedIs ==
  ASSUME NEW i \in Instances, NEW type, type = EditsOf(i)[worker[i].n].type
  PROVE  /\ Added(i) =>
              \/ Exists(FieldAt(i)) /\ columns'[FieldAt(i)] = columns[FieldAt(i)]
              \/ ~Exists(FieldAt(i)) /\ columns'[FieldAt(i)].type = type
         /\ ShadowAdded(i) =>
              \/ Exists(ShadowAt(i)) /\ columns'[ShadowAt(i)] = columns[ShadowAt(i)]
              \/ ~Exists(ShadowAt(i)) /\ columns'[ShadowAt(i)].type = type
<1>1. NewColumn(type, TRUE).type = type /\ NewColumn(type, FALSE).type = type
  BY ColumnIs
<1>2. Added(i) =>
        \/ Exists(FieldAt(i)) /\ columns'[FieldAt(i)] = columns[FieldAt(i)]
        \/ ~Exists(FieldAt(i)) /\ columns'[FieldAt(i)] = NewColumn(type, TRUE)
  BY DEF Added
<1>3. ShadowAdded(i) =>
        \/ Exists(ShadowAt(i)) /\ columns'[ShadowAt(i)] = columns[ShadowAt(i)]
        \/ ~Exists(ShadowAt(i)) /\ columns'[ShadowAt(i)] = NewColumn(type, FALSE)
  BY DEF ShadowAdded
<1>4. QED
  BY <1>1, <1>2, <1>3

\* The stage of an edit is one of its steps.
LEMMA StageIs ==
  ASSUME WorkInv, NEW i \in Instances, Works(i), worker[i].pc \in {"step", "record"}
  PROVE  LET op == EditsOf(i)[worker[i].n].op
             stage == worker[i].stage
         IN  /\ stage \in Stages
             /\ op = "add" <=> stage = "add-column"
             /\ op = "remove" <=> stage = "drop-column"
             /\ op = "modify" <=> stage \in {"add-shadow-column", "backfill-column", "cutover-column"}
<1>1. ProgressOf(i)
  BY DEF WorkInv, RecordsOK
<1>2. worker[i].stage \in StepsOf(EditsOf(i)[worker[i].n]) /\ worker[i].stage \in Stages
  BY <1>1, WorkerIs DEF ProgressOf, EditsOf
<1>3. EditsOf(i)[worker[i].n].op \in {"add", "remove", "modify"}
  BY AttemptIs
<1>4. QED
  BY <1>2, <1>3 DEF StepsOf, FirstStage

\* A worker has executed a step, as the only one.
Executed(i) ==
  /\ Works(i) /\ worker[i].pc = "step" /\ StepOf(i)
  /\ worker' = [worker EXCEPT ![i].pc = "record"]
  /\ UNCHANGED <<meta, jobs>> /\ world'.initial = world.initial
  /\ \A k \in Instances : Works(k)' => k = i

LEMMA ExecutedIs ==
  ASSUME WorkInv, NEW i \in Instances, Executed(i)
  PROVE  /\ worker'[i].pc = "record" /\ worker'[i].job = worker[i].job
         /\ worker'[i].n = worker[i].n /\ worker'[i].stage = worker[i].stage
         /\ EditsOf(i)' = EditsOf(i) /\ FieldAt(i)' = FieldAt(i) /\ ShadowAt(i)' = ShadowAt(i)
<1>1. /\ worker'[i].pc = "record" /\ worker'[i].job = worker[i].job
      /\ worker'[i].n = worker[i].n /\ worker'[i].stage = worker[i].stage
  BY DEF Executed, WorkInv, WorkersOK, WorkerTypes
<1>2. QED
  BY <1>1 DEF Executed, EditsOf, JobOf, FieldAt, ShadowAt

\* The columns of other fields, and their shadows.
LEMMA OtherColumns ==
  ASSUME WorkInv, ShadowsApart, NEW i \in Instances, Executed(i)
  PROVE  /\ FieldAt(i) \in Fields /\ FieldAt(i) # ShadowAt(i)
         /\ \A f \in Fields \ {FieldAt(i)} :
              columns'[f] = columns[f] /\ columns'[Shadow[f]] = columns[Shadow[f]]
<1>1. FieldAt(i) \in Fields /\ ShadowAt(i) = Shadow[FieldAt(i)]
  BY AttemptIs DEF Executed, ShadowAt
<1>2. \A f \in Fields : f \in Columns /\ Shadow[f] \in Columns
  BY Constants
<1>3. QED
  BY <1>1, <1>2 DEF ShadowsApart, Executed, StepOf

LEMMA ExecutedKeeps ==
  ASSUME WorkInv, TableInv, TableInv', ShadowsApart, KeptColumns, NEW i \in Instances, Executed(i)
  PROVE  KeptColumns'
<1>0. PICK f, s, stage, op :
        f = FieldAt(i) /\ s = ShadowAt(i) /\ stage = worker[i].stage /\ op = EditsOf(i)[worker[i].n].op
  OBVIOUS
<1>1. /\ Works(i) /\ Live(i) /\ worker[i].pc = "step" /\ StepOf(i) /\ ColumnsOf(i)
  BY DEF Executed, KeptColumns, Live
<1>2. /\ worker'[i].pc = "record" /\ worker'[i].job = worker[i].job
      /\ worker'[i].n = worker[i].n /\ worker'[i].stage = stage
      /\ EditsOf(i)' = EditsOf(i) /\ FieldAt(i)' = f /\ ShadowAt(i)' = s
  BY <1>0, ExecutedIs
<1>3. /\ f \in Fields /\ f \in Columns /\ s \in Columns /\ f # s
      /\ \A g \in Fields \ {f} :
           columns'[g] = columns[g] /\ columns'[Shadow[g]] = columns[Shadow[g]]
      /\ EditsOf(i)[worker[i].n].type \in Types /\ op \in {"add", "remove", "modify"}
      /\ worker[i].n \in 1 .. Len(EditsOf(i)) /\ Len(EditsOf(i)) \in Nat
      /\ worker[i].job \in JobIds /\ Unfinished(worker[i].job)
      /\ EditsOf(i) = jobs[worker[i].job].edits
      /\ \A n \in 1 .. Len(EditsOf(i)) : EditsOf(i)[n].field \in Fields
  BY <1>0, <1>1, OtherColumns, AttemptIs
<1>4. /\ stage \in Stages
      /\ op = "add" <=> stage = "add-column"
      /\ op = "remove" <=> stage = "drop-column"
      /\ op = "modify" <=> stage \in {"add-shadow-column", "backfill-column", "cutover-column"}
  BY <1>0, <1>1, StageIs
<1>5. Absent \notin Types /\ \A c \in Columns : columns[c] \in Column /\ columns'[c] \in Column
  BY ConstantsAssumption DEF TableInv
<1>6. ColumnsStayWhole /\ ShadowStands(i)
  BY <1>1 DEF KeptColumns, ColumnsOf
\* The field keeps its values, and its column unless it is dropped.
<1>7. Exists(f)' => columns'[f].whole
  <2>1. Exists(f) => columns[f].whole
    BY <1>3, <1>6 DEF ColumnsStayWhole
  <2>2. stage = "cutover-column" => columns[s].whole
    BY <1>0, <1>1, <1>6 DEF ShadowStands, Filled, At
  <2>3. stage = "add-column" => columns'[f] = columns[f] \/ columns'[f].whole
    BY <1>0, <1>1, ColumnIs DEF StepOf, Added
  <2>4. stage = "drop-column" => columns'[f] = NoColumn
    BY <1>0, <1>1 DEF StepOf
  <2>5. stage \in {"add-shadow-column", "backfill-column"} => columns'[f] = columns[f]
    BY <1>0, <1>1 DEF StepOf
  <2>6. stage = "cutover-column" => columns'[f] = columns[s]
    BY <1>0, <1>1 DEF StepOf
  <2>7. QED
    BY <1>4, <2>1, <2>2, <2>3, <2>4, <2>5, <2>6 DEF Exists, Stages
<1>8. ColumnsStayWhole'
  BY <1>3, <1>6, <1>7 DEF ColumnsStayWhole, Exists
<1>9. /\ stage # "drop-column" /\ Exists(f) => Exists(f)'
      /\ stage \in {"add-column", "cutover-column"} => Exists(f)'
  <2>1. stage = "cutover-column" => Exists(s)
    BY <1>0, <1>1, <1>6 DEF ShadowStands, HasShadow, At
  <2>2. stage = "add-column" => columns'[f] # NoColumn
    <3>1. NewColumn(EditsOf(i)[worker[i].n].type, TRUE) # NoColumn
      BY <1>3, ColumnIs
    <3>2. QED
      BY <1>0, <1>1, <3>1 DEF StepOf, Added, Exists
  <2>3. stage \in {"add-shadow-column", "backfill-column"} => columns'[f] = columns[f]
    BY <1>0, <1>1 DEF StepOf
  <2>4. stage = "cutover-column" => columns'[f] = columns[s]
    BY <1>0, <1>1 DEF StepOf
  <2>5. QED
    BY <1>4, <2>1, <2>2, <2>3, <2>4 DEF Exists, Stages
<1>10. ASSUME NEW g \in Fields, meta'[g] # Absent, ~Exists(g)'
       PROVE  \E j \in JobIds : Unfinished(j)' /\ RemovedBy(j, g)'
  <2>1. UNCHANGED <<meta, jobs>>
    BY DEF Executed
  <2>2. CASE ~Exists(g)
    BY <1>10, <2>1, <2>2 DEF KeptColumns, Unfinished, RemovedBy
  <2>3. CASE Exists(g)
    <3>1. g = f /\ stage = "drop-column"
      BY <1>3, <1>9, <1>10, <2>3 DEF Exists
    <3>2. RemovedBy(worker[i].job, g)
      BY <1>0, <1>3, <1>4, <3>1 DEF RemovedBy, FieldAt
    <3>3. QED
      BY <1>3, <2>1, <3>2 DEF Unfinished, RemovedBy
  <2>4. QED
    BY <2>2, <2>3
<1>11. ShadowStands(i)'
  <2>1. stage = "add-shadow-column" => Exists(s)'
    <3>1. NewColumn(EditsOf(i)[worker[i].n].type, FALSE) # NoColumn
      BY <1>3, <1>5, ColumnIs
    <3>2. QED
      BY <1>0, <1>1, <3>1 DEF StepOf, ShadowAdded, Exists
  <2>2. stage = "backfill-column" => Exists(s)' /\ columns'[s].whole
    <3>1. stage = "backfill-column" => ShadowFilled(i)
      BY <1>0, <1>1 DEF StepOf
    <3>2. stage = "backfill-column" => Exists(f)
      BY <1>0, <1>3, <1>5, <3>1, ColumnIs DEF ShadowFilled, Exists
    <3>3. QED
      BY <1>0, <1>3, <1>5, <1>6, <3>1, <3>2, ColumnIs DEF ShadowFilled, Exists, ColumnsStayWhole
  <2>3. QED
    BY <1>2, <2>1, <2>2 DEF ShadowStands, HasShadow, Filled, At, Exists
<1>12. ColumnStands(i)'
  BY <1>2, <1>9 DEF ColumnStands, At, Exists
<1>13. ColumnsStand(i)'
  <2>1. ASSUME NEW n \in 1 .. Len(EditsOf(i)), Behind(i, n)', EditsOf(i)[n].op # "remove"
        PROVE  \/ columns'[EditsOf(i)[n].field] # NoColumn
               \/ \E k \in n + 1 .. worker[i].n :
                    EditsOf(i)[k].op = "remove" /\ EditsOf(i)[k].field = EditsOf(i)[n].field
    <3>1. n < worker[i].n /\ Behind(i, n)
      BY <1>2, <2>1 DEF Behind
    <3>2. \/ Exists(EditsOf(i)[n].field)
          \/ \E k \in n + 1 .. worker[i].n :
               EditsOf(i)[k].op = "remove" /\ EditsOf(i)[k].field = EditsOf(i)[n].field
      BY <1>1, <2>1, <3>1 DEF ColumnsOf, ColumnsStand
    <3>3. CASE Exists(EditsOf(i)[n].field)
      <4>1. CASE EditsOf(i)[n].field # f
        BY <1>3, <3>3, <4>1 DEF Exists
      <4>2. CASE EditsOf(i)[n].field = f /\ stage # "drop-column"
        BY <1>9, <3>3, <4>2 DEF Exists
      <4>4. CASE EditsOf(i)[n].field = f /\ stage = "drop-column"
        <5>1. EditsOf(i)[worker[i].n].op = "remove" /\ EditsOf(i)[worker[i].n].field = f
          BY <1>0, <1>4, <4>4 DEF FieldAt
        <5>2. worker[i].n \in n + 1 .. worker[i].n
          BY <1>3, <3>1
        <5>3. QED
          BY <4>4, <5>1, <5>2
      <4>5. QED
        BY <4>1, <4>2, <4>4
    <3>4. QED
      BY <3>2, <3>3
  <2>2. QED
    BY <1>2, <2>1 DEF ColumnsStand, Exists
<1>14. ColumnsOf(i)'
  BY <1>2, <1>11, <1>12, <1>13 DEF ColumnsOf, MetadataStands
<1>15. QED
  BY <1>8, <1>10, <1>14 DEF KeptColumns, Executed

\* What the lemmas on the types have in common.
LEMMA ExecutedFacts ==
  ASSUME WorkInv, TableInv, TableInv', ShadowsApart, MatchingTypes, NEW i \in Instances, Executed(i),
         NEW f, f = FieldAt(i), NEW s, s = ShadowAt(i), NEW e, e = EditsOf(i)[worker[i].n],
         NEW j, j = worker[i].job
  PROVE  /\ Works(i) /\ worker[i].pc = "step" /\ StepOf(i) /\ TypesOf(i)
         /\ worker'[i].pc = "record" /\ worker'[i].job = j
         /\ worker'[i].n = worker[i].n /\ worker'[i].stage = worker[i].stage
         /\ EditsOf(i)' = EditsOf(i) /\ FieldAt(i)' = f /\ ShadowAt(i)' = s
         /\ f \in Fields /\ f \in Columns /\ s \in Columns /\ f # s /\ s = Shadow[f]
         /\ \A g \in Fields \ {f} :
              columns'[g] = columns[g] /\ columns'[Shadow[g]] = columns[Shadow[g]]
         /\ \A g \in Fields : g \in Columns /\ Shadow[g] \in Columns
         /\ e.field = f /\ e.type \in Types /\ e.op \in {"add", "remove", "modify"}
         /\ worker[i].n \in 1 .. Len(EditsOf(i)) /\ Len(EditsOf(i)) \in Nat
         /\ j \in JobIds /\ j \in Accepted /\ Unfinished(j) /\ EditsOf(i) = jobs[j].edits
         /\ DOMAIN EditsOf(i) = 1 .. Len(EditsOf(i)) /\ Touches(jobs[j].edits, f)
         /\ UNCHANGED <<meta, jobs>> /\ world'.initial = world.initial
         /\ worker[i].stage \in Stages
         /\ e.op = "add" <=> worker[i].stage = "add-column"
         /\ e.op = "remove" <=> worker[i].stage = "drop-column"
         /\ e.op = "modify" <=>
              worker[i].stage \in {"add-shadow-column", "backfill-column", "cutover-column"}
         /\ \A g, k : OthersTouch(k, g)' <=> OthersTouch(k, g)
<1>1. /\ Works(i) /\ worker[i].pc = "step" /\ StepOf(i) /\ TypesOf(i)
      /\ UNCHANGED <<meta, jobs>> /\ world'.initial = world.initial
  BY DEF Executed, MatchingTypes, Live
<1>2. /\ worker'[i].pc = "record" /\ worker'[i].job = j
      /\ worker'[i].n = worker[i].n /\ worker'[i].stage = worker[i].stage
      /\ EditsOf(i)' = EditsOf(i) /\ FieldAt(i)' = f /\ ShadowAt(i)' = s
  BY ExecutedIs
<1>3. /\ f \in Fields /\ f \in Columns /\ s \in Columns /\ f # s /\ s = Shadow[f]
      /\ \A g \in Fields \ {f} :
           columns'[g] = columns[g] /\ columns'[Shadow[g]] = columns[Shadow[g]]
      /\ e.field = f /\ e.type \in Types /\ e.op \in {"add", "remove", "modify"}
      /\ worker[i].n \in 1 .. Len(EditsOf(i)) /\ Len(EditsOf(i)) \in Nat
      /\ j \in JobIds /\ Unfinished(j) /\ EditsOf(i) = jobs[j].edits
      /\ EditsOf(i) \in Seq(Edits)
  BY <1>1, OtherColumns, AttemptIs DEF ShadowAt, FieldAt
<1>4. /\ worker[i].stage \in Stages
      /\ e.op = "add" <=> worker[i].stage = "add-column"
      /\ e.op = "remove" <=> worker[i].stage = "drop-column"
      /\ e.op = "modify" <=>
           worker[i].stage \in {"add-shadow-column", "backfill-column", "cutover-column"}
  BY <1>1, StageIs
<1>5. \A g \in Fields : g \in Columns /\ Shadow[g] \in Columns
  BY Constants
<1>6. DOMAIN EditsOf(i) = 1 .. Len(EditsOf(i)) /\ Touches(jobs[j].edits, f)
  <2>1. DOMAIN EditsOf(i) = 1 .. Len(EditsOf(i))
    BY <1>3
  <2>2. QED
    BY <1>3, <2>1 DEF Touches, FieldAt
<1>7. \A g, k : OthersTouch(k, g)' <=> OthersTouch(k, g)
  BY <1>1 DEF OthersTouch, Unfinished, Touches
<1>8. j \in Accepted
  BY <1>3 DEF Unfinished, Accepted
<1>9. QED
  BY <1>1, <1>2, <1>3, <1>4, <1>5, <1>6, <1>7, <1>8

LEMMA ExecutedTypesMatch ==
  ASSUME WorkInv, TableInv, TableInv', ShadowsApart, MatchingTypes, NEW i \in Instances, Executed(i)
  PROVE  TypesMatch'
<1>0. PICK f, s, e, j, stage :
        /\ f = FieldAt(i) /\ s = ShadowAt(i) /\ e = EditsOf(i)[worker[i].n] /\ j = worker[i].job
        /\ stage = worker[i].stage
  OBVIOUS
<1>1. /\ StepOf(i) /\ f \in Fields /\ f \in Columns /\ s \in Columns /\ f # s /\ s = Shadow[f]
      /\ \A g \in Fields \ {f} :
           columns'[g] = columns[g] /\ columns'[Shadow[g]] = columns[Shadow[g]]
      /\ e.type \in Types /\ e.field = f /\ UNCHANGED <<meta, jobs>>
      /\ j \in JobIds /\ Unfinished(j) /\ EditsOf(i) = jobs[j].edits /\ Touches(jobs[j].edits, f)
      /\ worker[i].n \in 1 .. Len(EditsOf(i)) /\ stage \in Stages
      /\ e.op = "modify" <=> stage \in {"add-shadow-column", "backfill-column", "cutover-column"}
  BY <1>0, ExecutedFacts
<1>2. Absent \notin Types /\ \A c \in Columns : columns[c] \in Column /\ columns'[c] \in Column
  BY ConstantsAssumption DEF TableInv
<1>3. \A c \in Columns : columns[c].type = Absent => columns[c] = NoColumn
  BY DEF MatchingTypes, TypesMatch, Exists
\* The column of the field, and its shadow column.
<1>4. /\ columns'[f] \in {columns[f], columns[s], NoColumn} \/ columns'[f].type = e.type
      /\ \/ columns'[s] \in {columns[s], NoColumn}
         \/ columns'[s].type = e.type /\ e.op = "modify"
         \/ columns'[s].type = columns[s].type /\ columns[s].type \in Types
  <2>1. CASE stage = "add-column"
    BY <1>0, <1>1, <2>1, AddedIs DEF StepOf
  <2>2. CASE stage = "drop-column"
    BY <1>0, <1>1, <2>2 DEF StepOf
  <2>3. CASE stage = "add-shadow-column"
    <3>1. ShadowAdded(i) /\ columns'[f] = columns[f] /\ e.op = "modify"
      BY <1>0, <1>1, <2>3 DEF StepOf
    <3>2. columns'[s] = columns[s] \/ columns'[s].type = e.type
      BY <1>0, <3>1, AddedIs
    <3>3. QED
      BY <3>1, <3>2
  <2>4. CASE stage = "backfill-column"
    BY <1>0, <1>1, <2>4 DEF StepOf, ShadowFilled
  <2>5. CASE stage = "cutover-column"
    BY <1>0, <1>1, <2>5 DEF StepOf
  <2>6. QED
    BY <1>1, <2>1, <2>2, <2>3, <2>4, <2>5 DEF Stages
<1>5. ASSUME NEW c \in Columns, columns'[c].type = Absent PROVE columns'[c] = NoColumn
  <2>1. CASE c = f
    BY <1>1, <1>2, <1>3, <1>4, <1>5, <2>1
  <2>2. CASE c = s
    BY <1>1, <1>2, <1>3, <1>4, <1>5, <2>2
  <2>3. CASE c \notin {f, s}
    BY <1>0, <1>1, <1>3, <1>5, <2>3 DEF StepOf
  <2>4. QED
    BY <2>1, <2>2, <2>3
<1>6. ASSUME NEW g \in Fields, columns'[g].type # meta'[g]
      PROVE  \E k \in JobIds : Unfinished(k)' /\ Touches(jobs'[k].edits, g)
  <2>1. CASE g = f
    BY <1>1, <2>1 DEF Unfinished
  <2>2. CASE g # f
    <3>1. PICK k \in JobIds : Unfinished(k) /\ Touches(jobs[k].edits, g)
      BY <1>1, <1>6, <2>2 DEF MatchingTypes, TypesMatch
    <3>2. QED
      BY <1>1, <3>1 DEF Unfinished
  <2>3. QED
    BY <2>1, <2>2
<1>7. ASSUME NEW g \in Fields, columns'[Shadow[g]] # NoColumn
      PROVE  \E k \in JobIds : Unfinished(k)' /\ ModifiedBy(k, g, columns[Shadow[g]].type)'
  <2>1. CASE /\ columns[Shadow[g]] # NoColumn
             /\ columns'[Shadow[g]].type = columns[Shadow[g]].type
    <3>1. PICK k \in JobIds : Unfinished(k) /\ ModifiedBy(k, g, columns[Shadow[g]].type)
      BY <2>1 DEF MatchingTypes, TypesMatch, Exists
    <3>2. QED
      BY <1>1, <2>1, <3>1 DEF Unfinished, ModifiedBy
  <2>2. CASE g = f /\ columns'[s].type = e.type /\ e.op = "modify"
    BY <1>0, <1>1, <2>2 DEF Unfinished, ModifiedBy
  <2>3. CASE g # f
    BY <1>1, <1>7, <2>1, <2>3
  <2>4. CASE g = f
    BY <1>1, <1>2, <1>4, <1>7, <2>1, <2>2, <2>4, ColumnIs
  <2>5. QED
    BY <2>3, <2>4
<1>8. QED
  BY <1>5, <1>6, <1>7 DEF TypesMatch, Exists

LEMMA ExecutedNewMatch ==
  ASSUME WorkInv, TableInv, TableInv', ShadowsApart, MatchingTypes, NEW i \in Instances, Executed(i)
  PROVE  NewColumnsMatch'
<1>0. PICK f, s, e, j :
        f = FieldAt(i) /\ s = ShadowAt(i) /\ e = EditsOf(i)[worker[i].n] /\ j = worker[i].job
  OBVIOUS
<1>1. /\ StepOf(i) /\ f \in Fields
      /\ \A g \in Fields \ {f} : columns'[g] = columns[g]
      /\ e.field = f /\ UNCHANGED <<meta, jobs>> /\ world'.initial = world.initial
      /\ j \in Accepted /\ EditsOf(i) = jobs[j].edits /\ Touches(jobs[j].edits, f)
      /\ worker[i].n \in 1 .. Len(jobs[j].edits)
      /\ e.op = "add" => worker[i].stage = "add-column"
  BY <1>0, ExecutedFacts
<1>2. Accepted' = Accepted /\ \A k, n : IsFirst(k, n)' <=> IsFirst(k, n)
  BY <1>1 DEF Accepted, IsFirst, Only, Touches
<1>3. ASSUME NEW g \in Fields, world.initial[g] = Absent,
             \A k \in Accepted : ~Touches(jobs[k].edits, g)
      PROVE  columns'[g] = NoColumn
  BY <1>1, <1>3 DEF MatchingTypes, NewColumnsMatch
<1>4. ASSUME NEW k \in Accepted, NEW n \in 1 .. Len(jobs[k].edits),
             jobs[k].edits[n].op = "add", IsFirst(k, n)
      PROVE  columns'[jobs[k].edits[n].field].type \in {Absent, jobs[k].edits[n].type}
  <2>1. PICK d : d = jobs[k].edits[n]
    OBVIOUS
  <2>2. d.field \in Fields /\ columns[d.field].type \in {Absent, d.type}
    <3>1. jobs[k] \in Job
      BY DEF WorkInv, JobsOK, Accepted
    <3>2. d \in Edits
      BY <2>1, <3>1 DEF Job
    <3>3. QED
      BY <1>4, <2>1, <3>2, StagesOf DEF MatchingTypes, NewColumnsMatch
  <2>3. CASE d.field # f
    BY <1>1, <2>1, <2>2, <2>3
  <2>4. CASE d.field = f
    <3>1. k = j
      BY <1>1, <1>4, <2>1, <2>4 DEF IsFirst, Only
    <3>2. worker[i].n = n
      BY <1>0, <1>1, <1>4, <2>1, <2>4, <3>1 DEF IsFirst
    <3>3. e = d /\ worker[i].stage = "add-column"
      BY <1>0, <1>1, <1>4, <2>1, <3>1, <3>2
    <3>4. columns'[f] = columns[f] \/ columns'[f].type = e.type
      BY <1>0, <1>1, <3>3, AddedIs DEF StepOf
    <3>5. QED
      BY <2>1, <2>2, <2>4, <3>3, <3>4
  <2>5. QED
    BY <2>3, <2>4
<1>5. QED
  BY <1>1, <1>2, <1>3, <1>4 DEF NewColumnsMatch

\* The edits behind the worker do not touch the field of the one it is at, if
\* they are the last of their fields.
LEMMA ExecutedShadowTyped ==
  ASSUME WorkInv, TableInv, TableInv', ShadowsApart, MatchingTypes, NEW i \in Instances, Executed(i)
  PROVE  ShadowTyped(i)'
<1>0. PICK f, s, e, j, stage, n :
        /\ f = FieldAt(i) /\ s = ShadowAt(i) /\ e = EditsOf(i)[worker[i].n] /\ j = worker[i].job
        /\ stage = worker[i].stage /\ n = worker[i].n
  OBVIOUS
<1>1. /\ StepOf(i) /\ f \in Fields /\ s = Shadow[f] /\ TypesOf(i)
      /\ worker[i].pc = "step" /\ worker'[i].pc = "record" /\ worker'[i].job = j
      /\ worker'[i].n = n /\ worker'[i].stage = stage
      /\ EditsOf(i)' = EditsOf(i) /\ FieldAt(i)' = f /\ ShadowAt(i)' = s
      /\ e.field = f /\ UNCHANGED jobs
      /\ j \in JobIds /\ EditsOf(i) = jobs[j].edits /\ n \in 1 .. Len(jobs[j].edits)
      /\ Len(jobs[j].edits) \in Nat /\ DOMAIN jobs[j].edits = 1 .. Len(jobs[j].edits)
  BY <1>0, ExecutedFacts
<1>2. SUFFICES ASSUME stage \in {"add-shadow-column", "backfill-column"}, LastOf(EditsOf(i), n)
               PROVE  columns'[s].type = e.type \/ OthersTouch(j, f)
  BY <1>0, <1>1, ExecutedFacts DEF ShadowTyped, HasShadow, At
<1>3. CASE stage = "backfill-column"
  <2>1. columns'[s].type = columns[s].type
    BY <1>0, <1>1, <1>3 DEF StepOf, ShadowFilled
  <2>2. QED
    BY <1>0, <1>1, <1>2, <1>3, <2>1 DEF TypesOf, ShadowTyped, HasShadow, At
<1>4. CASE stage = "add-shadow-column" /\ ~Exists(s)
  BY <1>0, <1>1, <1>4, AddedIs DEF StepOf
\* The shadow column was there: a failed attempt left it.
<1>5. CASE stage = "add-shadow-column" /\ Exists(s)
  <2>1. ShadowAdded(i)
    BY <1>0, <1>1, <1>5 DEF StepOf
  <2>2. columns'[s] = columns[s]
    BY <1>0, <1>5, <2>1, AddedIs
  <2>3. PICK k \in JobIds : Unfinished(k) /\ ModifiedBy(k, f, columns[s].type)
    BY <1>1, <1>5 DEF MatchingTypes, TypesMatch
  <2>4. CASE k # j
    <3>1. jobs[k].edits \in Seq(Edits)
      BY DEF WorkInv, JobsOK, Job
    <3>2. Touches(jobs[k].edits, f)
      BY <2>3, <3>1 DEF ModifiedBy, Touches
    <3>3. QED
      BY <2>3, <2>4, <3>2 DEF OthersTouch
  <2>5. CASE k = j
    <3>1. PICK m \in 1 .. Len(jobs[j].edits) :
            /\ jobs[j].edits[m].op = "modify" /\ jobs[j].edits[m].field = f
            /\ jobs[j].edits[m].type = columns[s].type
      BY <2>3, <2>5 DEF ModifiedBy
    <3>2. m <= n
      BY <1>0, <1>1, <1>2, <3>1 DEF LastOf
    <3>3. ~(m < n)
      <4>1. ~HasShadow(i)
        BY <1>0, <1>1, <1>5 DEF HasShadow, At
      <4>2. m < n => Behind(i, m)
        BY <1>0 DEF Behind
      <4>3. QED
        BY <1>1, <1>5, <3>1, <4>1, <4>2 DEF TypesOf, ShadowsGone
    <3>4. m = n
      BY <1>1, <3>2, <3>3
    <3>5. QED
      BY <1>0, <1>1, <2>2, <3>1, <3>4
  <2>6. QED
    BY <2>4, <2>5
<1>6. QED
  BY <1>2, <1>3, <1>4, <1>5

LEMMA ExecutedColumnTyped ==
  ASSUME WorkInv, TableInv, TableInv', ShadowsApart, AddsAreNew, MatchingTypes,
         NEW i \in Instances, Executed(i)
  PROVE  ColumnTyped(i)'
<1>0. PICK f, s, e, j, stage, n :
        /\ f = FieldAt(i) /\ s = ShadowAt(i) /\ e = EditsOf(i)[worker[i].n] /\ j = worker[i].job
        /\ stage = worker[i].stage /\ n = worker[i].n
  OBVIOUS
<1>1. /\ StepOf(i) /\ f \in Fields /\ f \in Columns /\ TypesOf(i)
      /\ worker[i].pc = "step" /\ worker'[i].pc = "record" /\ worker'[i].job = j
      /\ worker'[i].n = n /\ worker'[i].stage = stage
      /\ EditsOf(i)' = EditsOf(i) /\ FieldAt(i)' = f
      /\ e.field = f /\ UNCHANGED jobs /\ stage \in Stages
      /\ j \in Accepted /\ EditsOf(i) = jobs[j].edits /\ n \in 1 .. Len(jobs[j].edits)
      /\ e.op = "add" <=> stage = "add-column"
      /\ e.op = "remove" <=> stage = "drop-column"
  BY <1>0, ExecutedFacts
<1>2. SUFFICES ASSUME stage \in {"add-column", "drop-column", "cutover-column"},
                      LastOf(EditsOf(i), n)
               PROVE  columns'[f].type = Leaves(e) \/ OthersTouch(j, f)
  BY <1>0, <1>1, ExecutedFacts DEF ColumnTyped, Ends, Stages
<1>3. CASE stage = "drop-column"
  BY <1>0, <1>1, <1>3, ColumnIs DEF StepOf, Leaves
<1>4. CASE stage = "cutover-column"
  <2>1. columns'[f] = columns[s]
    BY <1>0, <1>1, <1>4 DEF StepOf
  <2>2. columns[s].type = e.type \/ OthersTouch(j, f)
    BY <1>0, <1>1, <1>2, <1>4 DEF TypesOf, ShadowTyped, HasShadow, At
  <2>3. QED
    BY <1>1, <1>4, <2>1, <2>2 DEF Leaves
<1>5. CASE stage = "add-column"
  <2>1. Added(i) /\ Leaves(e) = e.type
    BY <1>0, <1>1, <1>5 DEF StepOf, Leaves
  <2>2. \/ Exists(f) /\ columns'[f] = columns[f]
        \/ ~Exists(f) /\ columns'[f].type = e.type
    BY <1>0, <2>1, AddedIs
  <2>3. CASE Replaces(jobs[j].edits, n)
    <3>1. PICK m \in 1 .. n - 1 :
            /\ jobs[j].edits[m].op = "remove" /\ jobs[j].edits[m].field = jobs[j].edits[n].field
            /\ \A k \in m + 1 .. n - 1 : jobs[j].edits[k].field # jobs[j].edits[n].field
      BY <2>3 DEF Replaces
    <3>2. DroppedAt(i, m)
      BY <1>0, <1>1, <1>5, <3>1 DEF DroppedAt, At
    <3>3. columns[f] = NoColumn
      BY <1>0, <1>1, <3>1, <3>2 DEF TypesOf, ColumnsDropped
    <3>4. QED
      BY <2>1, <2>2, <3>3 DEF Exists
  <2>4. CASE IsFirst(j, n)
    <3>1. columns[f].type \in {Absent, e.type}
      BY <1>0, <1>1, <1>5, <2>4 DEF MatchingTypes, NewColumnsMatch
    <3>2. Exists(f) => columns[f].type # Absent
      BY <1>1 DEF MatchingTypes, TypesMatch
    <3>3. QED
      BY <2>1, <2>2, <3>1, <3>2
  <2>5. QED
    BY <1>0, <1>1, <1>2, <1>5, <2>3, <2>4 DEF AddsAreNew
<1>6. QED
  BY <1>2, <1>3, <1>4, <1>5

LEMMA ExecutedBehind ==
  ASSUME WorkInv, TableInv, TableInv', ShadowsApart, MatchingTypes, NEW i \in Instances, Executed(i)
  PROVE  ColumnsTyped(i)' /\ ColumnsDropped(i)' /\ ShadowsGone(i)'
<1>0. PICK f, s, e, j, stage, n :
        /\ f = FieldAt(i) /\ s = ShadowAt(i) /\ e = EditsOf(i)[worker[i].n] /\ j = worker[i].job
        /\ stage = worker[i].stage /\ n = worker[i].n
  OBVIOUS
<1>1. /\ StepOf(i) /\ f \in Fields /\ s = Shadow[f] /\ TypesOf(i)
      /\ \A g \in Fields \ {f} :
           columns'[g] = columns[g] /\ columns'[Shadow[g]] = columns[Shadow[g]]
      /\ worker[i].pc = "step" /\ worker'[i].pc = "record" /\ worker'[i].job = j
      /\ worker'[i].n = n /\ worker'[i].stage = stage
      /\ EditsOf(i)' = EditsOf(i) /\ FieldAt(i)' = f /\ ShadowAt(i)' = s
      /\ EditsOf(i)[n].field = f /\ UNCHANGED jobs /\ stage \in Stages
      /\ n \in 1 .. Len(EditsOf(i)) /\ Len(EditsOf(i)) \in Nat
      /\ \A g, k : OthersTouch(k, g)' <=> OthersTouch(k, g)
  BY <1>0, ExecutedFacts
<1>2. Works(i)
  BY DEF Executed
<1>3. \A m \in 1 .. Len(EditsOf(i)) : EditsOf(i)[m].field \in Fields
  BY <1>2, AttemptIs
<1>4. ASSUME NEW m \in 1 .. Len(EditsOf(i)), Behind(i, m)' PROVE m < n /\ Behind(i, m)
  BY <1>0, <1>1, <1>4 DEF Behind
<1>5. ColumnsTyped(i)'
  <2>1. ASSUME NEW m \in 1 .. Len(EditsOf(i)), Behind(i, m)', LastOf(EditsOf(i), m)
        PROVE  \/ columns'[EditsOf(i)[m].field].type = Leaves(EditsOf(i)[m])
               \/ OthersTouch(j, EditsOf(i)[m].field)
    <3>1. EditsOf(i)[m].field # f
      BY <1>1, <1>4, <2>1 DEF LastOf
    <3>2. columns'[EditsOf(i)[m].field] = columns[EditsOf(i)[m].field]
      BY <1>1, <1>3, <3>1
    <3>3. QED
      BY <1>0, <1>1, <1>4, <2>1, <3>2 DEF TypesOf, ColumnsTyped
  <2>2. \A m \in 1 .. Len(EditsOf(i)) :
          OthersTouch(j, EditsOf(i)[m].field) <=> OthersTouch(worker[i].job, EditsOf(i)[m].field)'
    BY <1>0, <1>1 DEF OthersTouch, Unfinished
  <2>3. QED
    BY <1>1, <2>1, <2>2 DEF ColumnsTyped
<1>6. ColumnsDropped(i)'
  <2>1. stage = "drop-column" => columns'[f] = NoColumn
    BY <1>0, <1>1 DEF StepOf
  <2>2. ASSUME NEW m \in 1 .. n - 1, DroppedAt(i, m)' PROVE columns'[EditsOf(i)[m].field] = NoColumn
    <3>1. EditsOf(i)[m].field # f
      BY <1>1, <2>2 DEF DroppedAt, At
    <3>2. DroppedAt(i, m)
      BY <1>0, <1>1, <2>2, <3>1 DEF DroppedAt
    <3>3. columns[EditsOf(i)[m].field] = NoColumn
      BY <1>0, <1>1, <3>2 DEF TypesOf, ColumnsDropped
    <3>4. m \in 1 .. Len(EditsOf(i))
      BY <1>1
    <3>5. QED
      BY <1>1, <1>3, <3>1, <3>3, <3>4
  <2>3. QED
    BY <1>1, <2>1, <2>2 DEF ColumnsDropped, At
<1>7. ShadowsGone(i)'
  <2>1. stage = "cutover-column" => columns'[s] = NoColumn
    BY <1>0, <1>1 DEF StepOf
  <2>2. ASSUME NEW m \in 1 .. Len(EditsOf(i)), Behind(i, m)', EditsOf(i)[m].op = "modify",
               columns'[Shadow[EditsOf(i)[m].field]] # NoColumn
        PROVE  HasShadow(i)' /\ f = EditsOf(i)[m].field
    <3>1. CASE EditsOf(i)[m].field # f
      <4>1. Exists(Shadow[EditsOf(i)[m].field])
        BY <1>1, <1>3, <2>2, <3>1 DEF Exists
      <4>2. FieldAt(i) = EditsOf(i)[m].field
        BY <1>1, <1>4, <2>2, <4>1 DEF TypesOf, ShadowsGone
      <4>3. QED
        BY <1>0, <3>1, <4>2
    <3>2. CASE EditsOf(i)[m].field = f
      <4>1. CASE stage \in {"add-shadow-column", "backfill-column"}
        BY <1>1, <3>2, <4>1 DEF HasShadow, At
      <4>2. CASE stage \in {"add-column", "drop-column"}
        <5>1. Exists(s)
          BY <1>0, <1>1, <2>2, <3>2, <4>2 DEF StepOf, Exists
        <5>2. HasShadow(i)
          BY <1>1, <1>4, <2>2, <3>2, <5>1 DEF TypesOf, ShadowsGone
        <5>3. QED
          BY <1>0, <1>1, <4>2, <5>2 DEF HasShadow, At
      <4>3. QED
        BY <1>1, <2>1, <2>2, <3>2, <4>1, <4>2 DEF Stages
    <3>3. QED
      BY <3>1, <3>2
  <2>3. QED
    BY <1>1, <2>1, <2>2 DEF ShadowsGone, At, Exists
<1>8. QED
  BY <1>5, <1>6, <1>7

LEMMA ExecutedMatches ==
  ASSUME WorkInv, TableInv, TableInv', ShadowsApart, AddsAreNew, MatchingTypes,
         NEW i \in Instances, Executed(i)
  PROVE  MatchingTypes'
<1>1. TypesMatch' /\ NewColumnsMatch'
  BY ExecutedTypesMatch, ExecutedNewMatch
<1>2. TypesOf(i)'
  BY ExecutedShadowTyped, ExecutedColumnTyped, ExecutedBehind DEF TypesOf
<1>3. QED
  BY <1>1, <1>2 DEF MatchingTypes, Executed

\* A worker has recorded a step, as the only one, and goes on.
Recorded(i) ==
  /\ Works(i) /\ worker[i].pc = "record"
  /\ worker' = [worker EXCEPT ![i] = AfterStep(@)]
  /\ UNCHANGED <<columns, meta, jobs>> /\ world'.initial = world.initial
  /\ \A k \in Instances : Works(k)' => k = i

\* It goes on with the next stage, with the next edit, or is through.
GoesToStage(i) ==
  /\ worker[i].stage \in {"add-shadow-column", "backfill-column"}
  /\ worker'[i].pc = "step" /\ worker'[i].n = worker[i].n
  /\ worker[i].stage = "add-shadow-column" => worker'[i].stage = "backfill-column"
  /\ worker[i].stage = "backfill-column" => worker'[i].stage = "cutover-column"
GoesToEdit(i) ==
  /\ worker[i].n < Len(EditsOf(i))
  /\ worker'[i].pc = "step" /\ worker'[i].n = worker[i].n + 1
  /\ worker'[i].stage \notin {"backfill-column", "cutover-column"}
IsThrough(i) ==
  /\ worker[i].n = Len(EditsOf(i))
  /\ worker'[i].pc = "metadata" /\ worker'[i].n = worker[i].n

LEMMA RecordedIs ==
  ASSUME WorkInv, NEW i \in Instances, Recorded(i)
  PROVE  /\ worker'[i].job = worker[i].job /\ EditsOf(i)' = EditsOf(i)
         /\ \/ GoesToStage(i)
            \/ /\ worker[i].stage \in {"add-column", "drop-column", "cutover-column"}
               /\ GoesToEdit(i) \/ IsThrough(i)
<1> DEFINE w == worker[i]
<1>1. /\ Works(i) /\ w.pc = "record" /\ w \in WorkerTypes /\ w.job \in JobIds
      /\ jobs[w.job].edits \in Seq(Edits) /\ w.n \in 1 .. Len(jobs[w.job].edits)
      /\ w.stage \in Stages /\ EditsOf(i) = jobs[w.job].edits
      /\ worker'[i] = AfterStep(w) /\ UNCHANGED jobs
  BY WorkerIs DEF Recorded, EditsOf, JobOf, WorkInv, WorkersOK
<1>2. CASE w.stage \in DOMAIN NextStage
  <2>1. worker'[i] = [w EXCEPT !.pc = "step", !.stage = NextStage[w.stage]]
    BY <1>1, <1>2 DEF AfterStep
  <2>2. /\ worker'[i].pc = "step" /\ worker'[i].n = w.n /\ worker'[i].job = w.job
        /\ worker'[i].stage = NextStage[w.stage]
    BY <1>1, <2>1 DEF WorkerTypes
  <2>3. GoesToStage(i)
    BY <1>2, <2>2, NextStages DEF GoesToStage
  <2>4. QED
    BY <1>1, <2>2, <2>3 DEF EditsOf, JobOf
<1>3. CASE w.stage \notin DOMAIN NextStage
  <2>1. w.stage \in {"add-column", "drop-column", "cutover-column"}
    BY <1>1, <1>3, NextStages DEF Stages
  <2>2. CASE w.n < Len(jobs[w.job].edits)
    <3>1. worker'[i] = StartEdit(w, w.n + 1) /\ w.n + 1 \in 1 .. Len(jobs[w.job].edits)
      BY <1>1, <1>3, <2>2 DEF AfterStep
    <3>2. /\ worker'[i].pc = "step" /\ worker'[i].n = w.n + 1 /\ worker'[i].job = w.job
          /\ worker'[i].stage = FirstStage[jobs[w.job].edits[w.n + 1].op]
      BY <1>1, <3>1, StartEditIs
    <3>3. jobs[w.job].edits[w.n + 1] \in Edits
      BY <1>1, <3>1
    <3>4. worker'[i].stage \notin {"backfill-column", "cutover-column"}
      BY <3>2, <3>3, StagesOf
    <3>5. GoesToEdit(i)
      BY <1>1, <2>2, <3>2, <3>4 DEF GoesToEdit
    <3>6. QED
      BY <1>1, <2>1, <3>2, <3>5 DEF EditsOf, JobOf
  <2>3. CASE ~(w.n < Len(jobs[w.job].edits))
    <3>1. worker'[i] = [w EXCEPT !.pc = "metadata"]
      BY <1>1, <1>3, <2>3 DEF AfterStep
    <3>2. worker'[i].pc = "metadata" /\ worker'[i].n = w.n /\ worker'[i].job = w.job
      BY <1>1, <3>1 DEF WorkerTypes
    <3>3. w.n = Len(jobs[w.job].edits)
      BY <1>1, <2>3
    <3>4. IsThrough(i)
      BY <1>1, <3>2, <3>3 DEF IsThrough
    <3>5. QED
      BY <1>1, <2>1, <3>2, <3>4 DEF EditsOf, JobOf
  <2>4. QED
    BY <2>2, <2>3
<1>4. QED
  BY <1>2, <1>3

\* What is behind the worker then: what was, and if it does not stay at its edit,
\* that one.
LEMMA RecordedBehind ==
  ASSUME WorkInv, NEW i \in Instances, Recorded(i), NEW m \in 1 .. Len(EditsOf(i)), Behind(i, m)'
  PROVE  \/ m < worker[i].n /\ Behind(i, m)
         \/ /\ m = worker[i].n /\ ~GoesToStage(i)
            /\ worker[i].stage \in {"add-column", "drop-column", "cutover-column"}
<1>1. worker[i].n \in 1 .. Len(EditsOf(i)) /\ Len(EditsOf(i)) \in Nat
  BY AttemptIs DEF Recorded
<1>2. CASE GoesToStage(i)
  BY <1>1, <1>2 DEF GoesToStage, Behind
<1>3. CASE /\ worker[i].stage \in {"add-column", "drop-column", "cutover-column"}
           /\ GoesToEdit(i) \/ IsThrough(i)
  <2>1. m < worker[i].n \/ m = worker[i].n
    BY <1>1, <1>3 DEF GoesToEdit, IsThrough, Behind
  <2>2. QED
    BY <1>3, <2>1 DEF GoesToStage, Behind
<1>4. QED
  BY <1>2, <1>3, RecordedIs

LEMMA RecordedKeeps ==
  ASSUME WorkInv, KeptColumns, NEW i \in Instances, Recorded(i) PROVE KeptColumns'
<1>1. /\ Works(i) /\ worker[i].pc = "record" /\ ColumnsOf(i)
      /\ UNCHANGED <<columns, meta, jobs>> /\ \A k \in Instances : Works(k)' => k = i
      /\ EditsOf(i)' = EditsOf(i)
      /\ worker[i].n \in 1 .. Len(EditsOf(i)) /\ Len(EditsOf(i)) \in Nat
  BY RecordedIs, AttemptIs DEF Recorded, KeptColumns, Live
<1>2. ShadowStands(i)'
  <2>1. CASE GoesToStage(i)
    <3>1. ShadowAt(i)' = ShadowAt(i)
      BY <1>1, <2>1 DEF GoesToStage, ShadowAt, FieldAt
    <3>2. QED
      BY <1>1, <2>1, <3>1 DEF ColumnsOf, ShadowStands, GoesToStage, HasShadow, Filled, At, Exists
  <2>2. CASE GoesToEdit(i) \/ IsThrough(i)
    BY <2>2 DEF GoesToEdit, IsThrough, ShadowStands, HasShadow, Filled, At
  <2>3. QED
    BY <2>1, <2>2, RecordedIs
<1>3. worker'[i].pc \in {"step", "metadata"}
  BY RecordedIs DEF GoesToStage, GoesToEdit, IsThrough
<1>4. worker'[i].n \in {worker[i].n, worker[i].n + 1}
  BY RecordedIs DEF GoesToStage, GoesToEdit, IsThrough
<1>5. ColumnsStand(i)'
  <2>1. ASSUME NEW m \in 1 .. Len(EditsOf(i)), Behind(i, m)', EditsOf(i)[m].op # "remove"
        PROVE  \/ Exists(EditsOf(i)[m].field)
               \/ \E k \in m + 1 .. worker'[i].n :
                    EditsOf(i)[k].op = "remove" /\ EditsOf(i)[k].field = EditsOf(i)[m].field
    <3>1. CASE Behind(i, m)
      BY <1>1, <1>4, <2>1, <3>1 DEF ColumnsOf, ColumnsStand
    <3>2. CASE /\ m = worker[i].n
               /\ worker[i].stage \in {"add-column", "drop-column", "cutover-column"}
      <4>1. worker[i].stage # "drop-column"
        BY <1>1, <2>1, <3>2, StageIs
      <4>2. QED
        BY <1>1, <3>2, <4>1 DEF ColumnsOf, ColumnStands, At, FieldAt
    <3>3. QED
      BY <2>1, <3>1, <3>2, RecordedBehind
  <2>2. QED
    BY <1>1, <2>1 DEF ColumnsStand, Exists
<1>6. ColumnsOf(i)'
  BY <1>2, <1>3, <1>5 DEF ColumnsOf, ColumnStands, MetadataStands, At
<1>7. ColumnsStayWhole'
  BY <1>1 DEF KeptColumns, ColumnsStayWhole, Exists
<1>8. \A f \in Fields : meta'[f] # Absent /\ columns'[f] = NoColumn =>
        \E j \in JobIds : Unfinished(j)' /\ RemovedBy(j, f)'
  BY <1>1 DEF KeptColumns, Exists, Unfinished, RemovedBy
<1>9. QED
  BY <1>1, <1>6, <1>7, <1>8 DEF KeptColumns, Exists

LEMMA RecordedMatches ==
  ASSUME WorkInv, MatchingTypes, NEW i \in Instances, Recorded(i) PROVE MatchingTypes'
<1>0. PICK j, n, stage : j = worker[i].job /\ n = worker[i].n /\ stage = worker[i].stage
  OBVIOUS
<1>1. /\ Works(i) /\ worker[i].pc = "record" /\ TypesOf(i)
      /\ UNCHANGED <<columns, meta, jobs>> /\ world'.initial = world.initial
      /\ \A k \in Instances : Works(k)' => k = i
      /\ EditsOf(i)' = EditsOf(i) /\ worker'[i].job = j
      /\ n \in 1 .. Len(EditsOf(i)) /\ Len(EditsOf(i)) \in Nat
      /\ FieldAt(i) = EditsOf(i)[n].field /\ ShadowAt(i) = Shadow[EditsOf(i)[n].field]
  BY <1>0, RecordedIs, AttemptIs DEF Recorded, MatchingTypes, Live, FieldAt, ShadowAt
<1>2. \A g, k : OthersTouch(k, g)' <=> OthersTouch(k, g)
  BY <1>1 DEF OthersTouch, Unfinished, Touches
<1>3. TypesMatch'
  BY <1>1 DEF MatchingTypes, TypesMatch, Exists, Unfinished, ModifiedBy
<1>4. NewColumnsMatch'
  <2>1. Accepted' = Accepted /\ \A k, m : IsFirst(k, m)' <=> IsFirst(k, m)
    BY <1>1 DEF Accepted, IsFirst, Only, Touches
  <2>2. QED
    BY <1>1, <2>1 DEF MatchingTypes, NewColumnsMatch
<1>5. ShadowTyped(i)'
  <2>1. CASE GoesToStage(i)
    <3>1. /\ ShadowAt(i)' = ShadowAt(i) /\ FieldAt(i)' = FieldAt(i) /\ worker'[i].n = worker[i].n
          /\ HasShadow(i)
      BY <1>1, <2>1 DEF GoesToStage, ShadowAt, FieldAt, HasShadow, At
    <3>2. QED
      BY <1>0, <1>1, <1>2, <3>1 DEF TypesOf, ShadowTyped
  <2>2. CASE GoesToEdit(i) \/ IsThrough(i)
    BY <2>2 DEF GoesToEdit, IsThrough, ShadowTyped, HasShadow, At
  <2>3. QED
    BY <2>1, <2>2, RecordedIs
<1>6. worker'[i].pc \in {"step", "metadata"}
  BY RecordedIs DEF GoesToStage, GoesToEdit, IsThrough
<1>7. ColumnsTyped(i)'
  <2>1. ASSUME NEW m \in 1 .. Len(EditsOf(i)), Behind(i, m)', LastOf(EditsOf(i), m)
        PROVE  \/ columns[EditsOf(i)[m].field].type = Leaves(EditsOf(i)[m])
               \/ OthersTouch(j, EditsOf(i)[m].field)
    <3>1. CASE Behind(i, m)
      BY <1>0, <1>1, <2>1, <3>1 DEF TypesOf, ColumnsTyped
    <3>2. CASE m = n /\ stage \in {"add-column", "drop-column", "cutover-column"}
      BY <1>0, <1>1, <2>1, <3>2 DEF TypesOf, ColumnTyped, Ends
    <3>3. QED
      BY <1>0, <2>1, <3>1, <3>2, RecordedBehind
  <2>2. \A m \in 1 .. Len(EditsOf(i)) :
          OthersTouch(j, EditsOf(i)[m].field) <=> OthersTouch(worker[i].job, EditsOf(i)[m].field)'
    BY <1>1 DEF OthersTouch, Unfinished
  <2>3. QED
    BY <1>1, <2>1, <2>2 DEF ColumnsTyped
<1>8. ColumnsDropped(i)'
  <2>1. ASSUME NEW m \in 1 .. worker'[i].n - 1, DroppedAt(i, m)'
        PROVE  columns[EditsOf(i)[m].field] = NoColumn
    <3>1. CASE GoesToStage(i)
      <4>1. EditsOf(i)[m].field # FieldAt(i) /\ worker'[i].n = n
        BY <1>0, <1>1, <2>1, <3>1 DEF GoesToStage, DroppedAt, At, FieldAt
      <4>2. DroppedAt(i, m)
        BY <1>0, <1>1, <2>1, <4>1 DEF DroppedAt
      <4>3. QED
        BY <1>0, <1>1, <2>1, <4>1, <4>2 DEF TypesOf, ColumnsDropped
    <3>2. CASE GoesToEdit(i) /\ m = n
      <4>1. EditsOf(i)[n].op = "remove"
        BY <1>1, <2>1, <3>2 DEF DroppedAt
      <4>2. stage = "drop-column"
        BY <1>0, <1>1, <4>1, StageIs
      <4>3. QED
        BY <1>0, <1>1, <3>2, <4>2 DEF TypesOf, ColumnsDropped, At
    <3>3. CASE GoesToEdit(i) /\ m # n
      <4>1. m \in 1 .. n - 1 /\ worker'[i].n = n + 1
        BY <1>0, <1>1, <2>1, <3>3 DEF GoesToEdit
      <4>2. \A k \in m + 1 .. n : EditsOf(i)[k].field # EditsOf(i)[m].field
        BY <1>1, <2>1, <4>1 DEF DroppedAt
      <4>3. EditsOf(i)[m].field # FieldAt(i)
        BY <1>1, <4>1, <4>2
      <4>4. DroppedAt(i, m)
        BY <1>0, <1>1, <2>1, <4>1, <4>2, <4>3 DEF DroppedAt
      <4>5. QED
        BY <1>0, <1>1, <4>1, <4>4 DEF TypesOf, ColumnsDropped
    <3>4. CASE IsThrough(i)
      BY <2>1, <3>4 DEF IsThrough, DroppedAt
    <3>5. QED
      BY <3>1, <3>2, <3>3, <3>4, RecordedIs
  <2>2. QED
    BY <1>1, <1>6, <2>1 DEF ColumnsDropped, At
<1>9. ShadowsGone(i)'
  <2>1. ASSUME NEW m \in 1 .. Len(EditsOf(i)), Behind(i, m)', EditsOf(i)[m].op = "modify",
               Exists(Shadow[EditsOf(i)[m].field])
        PROVE  HasShadow(i)' /\ FieldAt(i)' = EditsOf(i)[m].field
    <3>1. CASE m < n /\ Behind(i, m)
      <4>1. HasShadow(i) /\ FieldAt(i) = EditsOf(i)[m].field
        BY <1>1, <2>1, <3>1 DEF TypesOf, ShadowsGone
      <4>2. GoesToStage(i)
        BY <1>1, <4>1, RecordedIs DEF HasShadow, At
      <4>3. QED
        BY <1>1, <4>1, <4>2 DEF GoesToStage, HasShadow, At, FieldAt
    <3>2. CASE m = n /\ stage \in {"add-column", "drop-column", "cutover-column"}
      <4>1. stage = "cutover-column"
        BY <1>0, <1>1, <2>1, <3>2, StageIs
      <4>2. QED
        BY <1>0, <1>1, <2>1, <3>2, <4>1 DEF TypesOf, ShadowsGone, At
    <3>3. QED
      BY <1>0, <2>1, <3>1, <3>2, RecordedBehind
  <2>2. QED
    BY <1>1, <1>6, <2>1 DEF ShadowsGone, At, Exists
<1>10. TypesOf(i)'
  BY <1>5, <1>6, <1>7, <1>8, <1>9 DEF TypesOf, ColumnTyped, Ends
<1>11. QED
  BY <1>1, <1>3, <1>4, <1>10 DEF MatchingTypes

\* A worker that is through with the edits has left the columns as they say.
LEMMA WhatRemains ==
  ASSUME WorkInv, NEW i \in Instances, Works(i), worker[i].pc \in {"metadata", "complete"},
         NEW f, Touches(EditsOf(i), f)
  PROVE  /\ ColumnsStand(i) /\ Becomes(EditsOf(i), f) # Absent => Exists(f)
         /\ ColumnsTyped(i) =>
              columns[f].type = Becomes(EditsOf(i), f) \/ OthersTouch(worker[i].job, f)
<1> DEFINE last == LastEditOf(f, EditsOf(i))
<1>1. /\ last \in 1 .. Len(EditsOf(i)) /\ EditsOf(i)[last].field = f
      /\ \A m \in last + 1 .. Len(EditsOf(i)) : EditsOf(i)[m].field # f
      /\ worker[i].n \in 1 .. Len(EditsOf(i)) /\ Len(EditsOf(i)) \in Nat
  BY AttemptIs, LastEditIs
<1>2. Behind(i, last) /\ LastOf(EditsOf(i), last)
  BY <1>1 DEF Behind, LastOf
<1>3. Leaves(EditsOf(i)[last]) = Becomes(EditsOf(i), f)
  BY DEF Leaves, Becomes
<1>4. Becomes(EditsOf(i), f) # Absent => EditsOf(i)[last].op # "remove"
  BY DEF Becomes
<1> HIDE DEF last
<1>5. ColumnsStand(i) /\ Becomes(EditsOf(i), f) # Absent => Exists(f)
  <2>1. SUFFICES ASSUME ColumnsStand(i), Becomes(EditsOf(i), f) # Absent PROVE Exists(f)
    OBVIOUS
  <2>2. \/ Exists(EditsOf(i)[last].field)
        \/ \E k \in last + 1 .. worker[i].n :
             EditsOf(i)[k].op = "remove" /\ EditsOf(i)[k].field = EditsOf(i)[last].field
    BY <1>1, <1>2, <1>4, <2>1 DEF ColumnsStand
  <2>3. \A k \in last + 1 .. worker[i].n : k \in last + 1 .. Len(EditsOf(i))
    BY <1>1
  <2>4. QED
    BY <1>1, <2>2, <2>3
<1>6. ColumnsTyped(i) =>
        columns[f].type = Becomes(EditsOf(i), f) \/ OthersTouch(worker[i].job, f)
  BY <1>1, <1>2, <1>3 DEF ColumnsTyped
<1>7. QED
  BY <1>5, <1>6

\* The metadata effects of a job have been applied, or the job is completed.
AppliesEffects(i) ==
  /\ Works(i) /\ worker[i].pc = "metadata" /\ meta' = MetadataAfter(jobs[worker[i].job].edits)
  /\ worker' = [worker EXCEPT ![i].pc = "complete"]
  /\ UNCHANGED <<columns, jobs>> /\ world'.initial = world.initial
  /\ \A k \in Instances : Works(k)' => k = i
Completes(i) ==
  /\ Works(i) /\ worker[i].pc = "complete" /\ Moves(worker[i].job, "completed")
  /\ UNCHANGED <<columns, meta>> /\ world'.initial = world.initial
  /\ \A k \in Instances : ~Works(k)'

LEMMA EffectsAre ==
  ASSUME WorkInv, TableInv, NEW i \in Instances, AppliesEffects(i)
  PROVE  /\ worker'[i].pc = "complete" /\ worker'[i].job = worker[i].job
         /\ worker'[i].n = worker[i].n /\ EditsOf(i)' = EditsOf(i)
         /\ EditsOf(i) \in Seq(Edits) /\ EditsOf(i) = jobs[worker[i].job].edits
         /\ worker[i].job \in JobIds /\ Unfinished(worker[i].job)
         /\ \A f \in Fields :
              meta'[f] = IF Touches(EditsOf(i), f) THEN Becomes(EditsOf(i), f) ELSE meta[f]
<1>1. /\ worker'[i].pc = "complete" /\ worker'[i].job = worker[i].job /\ worker'[i].n = worker[i].n
  BY DEF AppliesEffects, WorkInv, WorkersOK, WorkerTypes
<1>2. /\ EditsOf(i) \in Seq(Edits) /\ EditsOf(i) = jobs[worker[i].job].edits
      /\ worker[i].job \in JobIds /\ Unfinished(worker[i].job)
  BY AttemptIs DEF AppliesEffects
<1>3. EditsOf(i)' = EditsOf(i)
  BY <1>1 DEF AppliesEffects, EditsOf, JobOf
<1>4. \A f \in Fields :
        meta'[f] = IF Touches(EditsOf(i), f) THEN Becomes(EditsOf(i), f) ELSE meta[f]
  BY <1>2, MetadataAfterIs DEF AppliesEffects, TableInv
<1>5. QED
  BY <1>1, <1>2, <1>3, <1>4

LEMMA EffectsKeep ==
  ASSUME WorkInv, TableInv, KeptColumns, NEW i \in Instances, AppliesEffects(i) PROVE KeptColumns'
<1>1. /\ worker'[i].pc = "complete" /\ worker'[i].n = worker[i].n /\ EditsOf(i)' = EditsOf(i)
      /\ \A f \in Fields :
           meta'[f] = IF Touches(EditsOf(i), f) THEN Becomes(EditsOf(i), f) ELSE meta[f]
  BY EffectsAre
<1>2. /\ Works(i) /\ worker[i].pc = "metadata" /\ ColumnsOf(i) /\ UNCHANGED <<columns, jobs>>
      /\ \A k \in Instances : Works(k)' => k = i
  BY DEF AppliesEffects, KeptColumns, Live
<1>3. ASSUME NEW f \in Fields, meta'[f] # Absent, ~Exists(f)
      PROVE  \E j \in JobIds : Unfinished(j)' /\ RemovedBy(j, f)'
  <2>1. ~Touches(EditsOf(i), f)
    BY <1>1, <1>2, <1>3, WhatRemains DEF ColumnsOf
  <2>2. QED
    BY <1>1, <1>2, <1>3, <2>1 DEF KeptColumns, Unfinished, RemovedBy
<1>4. ColumnsStand(i)'
  BY <1>1, <1>2 DEF ColumnsOf, ColumnsStand, Behind, Exists
<1>5. MetadataStands(i)'
  BY <1>1 DEF MetadataStands
<1>6. ColumnsOf(i)'
  BY <1>1, <1>4, <1>5 DEF ColumnsOf, ShadowStands, ColumnStands, HasShadow, Filled, At
<1>7. QED
  BY <1>2, <1>3, <1>6 DEF KeptColumns, ColumnsStayWhole, Exists

LEMMA EffectsMatch ==
  ASSUME WorkInv, TableInv, MatchingTypes, NEW i \in Instances, AppliesEffects(i)
  PROVE  MatchingTypes'
<1>0. PICK j : j = worker[i].job
  OBVIOUS
<1>1. /\ worker'[i].pc = "complete" /\ worker'[i].job = j /\ worker'[i].n = worker[i].n
      /\ EditsOf(i)' = EditsOf(i) /\ EditsOf(i) = jobs[j].edits /\ j \in JobIds /\ Unfinished(j)
      /\ \A f \in Fields :
           meta'[f] = IF Touches(EditsOf(i), f) THEN Becomes(EditsOf(i), f) ELSE meta[f]
  BY <1>0, EffectsAre
<1>2. /\ Works(i) /\ worker[i].pc = "metadata" /\ TypesOf(i) /\ UNCHANGED <<columns, jobs>>
      /\ world'.initial = world.initial /\ \A k \in Instances : Works(k)' => k = i
  BY DEF AppliesEffects, MatchingTypes, Live
<1>3. TypesMatch'
  <2>1. ASSUME NEW f \in Fields, columns[f].type # meta'[f]
        PROVE  \E k \in JobIds : Unfinished(k)' /\ Touches(jobs[k].edits, f)
    BY <1>1, <1>2, <2>1 DEF MatchingTypes, TypesMatch, Unfinished
  <2>2. QED
    BY <1>2, <2>1 DEF MatchingTypes, TypesMatch, Exists, Unfinished, ModifiedBy
<1>4. NewColumnsMatch'
  <2>1. Accepted' = Accepted /\ \A k, m : IsFirst(k, m)' <=> IsFirst(k, m)
    BY <1>2 DEF Accepted, IsFirst, Only, Touches
  <2>2. QED
    BY <1>2, <2>1 DEF MatchingTypes, NewColumnsMatch
<1>5. ColumnsTyped(i)'
  <2>1. \A m \in 1 .. Len(EditsOf(i)) :
          OthersTouch(worker[i].job, EditsOf(i)[m].field) => OthersTouch(worker[i].job, EditsOf(i)[m].field)'
    BY <1>0, <1>1, <1>2 DEF OthersTouch, Unfinished, Touches
  <2>2. QED
    BY <1>1, <1>2, <2>1 DEF TypesOf, ColumnsTyped, Behind
<1>6. ShadowsGone(i)'
  BY <1>1, <1>2 DEF TypesOf, ShadowsGone, Behind, HasShadow, At, Exists
<1>7. TypesOf(i)'
  BY <1>1, <1>5, <1>6 DEF TypesOf, ShadowTyped, ColumnTyped, ColumnsDropped, DroppedAt, Ends,
                          HasShadow, At
<1>8. QED
  BY <1>2, <1>3, <1>4, <1>7 DEF MatchingTypes

\* What the completion of its job leaves of the unfinished ones: the others.
LEMMA CompletesIs ==
  ASSUME WorkInv, NEW i \in Instances, Completes(i)
  PROVE  /\ worker[i].job \in JobIds /\ EditsOf(i) = jobs[worker[i].job].edits
         /\ EditsOf(i) \in Seq(Edits)
         /\ \A k \in JobIds : jobs'[k].edits = jobs[k].edits
         /\ \A k \in JobIds \ {worker[i].job} : Unfinished(k) => Unfinished(k)'
         /\ Accepted' = Accepted /\ \A k, m : k \in JobIds => (IsFirst(k, m)' <=> IsFirst(k, m))
<1>1. /\ worker[i].job \in JobIds /\ jobs[worker[i].job].state = "active"
      /\ EditsOf(i) = jobs[worker[i].job].edits /\ EditsOf(i) \in Seq(Edits)
  BY AttemptIs DEF Completes, JobOf
<1>2. /\ \A k \in JobIds : jobs'[k].edits = jobs[k].edits
      /\ Accepted' = Accepted /\ \A k \in JobIds : \A f : Only(k, f)' <=> Only(k, f)
  BY <1>1, MovesKeepEdits DEF Completes, JobStates
<1>3. \A k \in JobIds \ {worker[i].job} : Unfinished(k) => Unfinished(k)'
  BY DEF Completes, Moves, Goes, Unfinished
<1>4. \A k, m : k \in JobIds => (IsFirst(k, m)' <=> IsFirst(k, m))
  BY <1>2 DEF Completes, IsFirst
<1>5. QED
  BY <1>1, <1>2, <1>3, <1>4

LEMMA CompletesKeep ==
  ASSUME WorkInv, KeptColumns, NEW i \in Instances, Completes(i) PROVE KeptColumns'
<1>0. PICK j : j = worker[i].job
  OBVIOUS
<1>1. /\ j \in JobIds /\ EditsOf(i) = jobs[j].edits /\ EditsOf(i) \in Seq(Edits)
      /\ \A k \in JobIds : jobs'[k].edits = jobs[k].edits
      /\ \A k \in JobIds \ {j} : Unfinished(k) => Unfinished(k)'
  BY <1>0, CompletesIs
<1>2. /\ Works(i) /\ worker[i].pc = "complete" /\ ColumnsOf(i) /\ UNCHANGED <<columns, meta>>
      /\ \A k \in Instances : ~Works(k)'
  BY DEF Completes, KeptColumns, Live
<1>3. ASSUME NEW f \in Fields, meta[f] # Absent, ~Exists(f)
      PROVE  \E k \in JobIds : Unfinished(k)' /\ RemovedBy(k, f)'
  <2>1. PICK k \in JobIds : Unfinished(k) /\ RemovedBy(k, f)
    BY <1>3 DEF KeptColumns
  <2>2. k # j
    <3>1. SUFFICES ASSUME k = j PROVE FALSE
      OBVIOUS
    <3>2. Touches(EditsOf(i), f)
      BY <1>1, <2>1, <3>1 DEF RemovedBy, Touches
    <3>3. meta[f] = Becomes(EditsOf(i), f)
      BY <1>2, <3>2 DEF ColumnsOf, MetadataStands
    <3>4. QED
      BY <1>2, <1>3, <3>2, <3>3, WhatRemains DEF ColumnsOf
  <2>3. QED
    BY <1>1, <2>1, <2>2 DEF RemovedBy
<1>4. QED
  BY <1>2, <1>3 DEF KeptColumns, ColumnsStayWhole, Exists

LEMMA CompletesMatch ==
  ASSUME WorkInv, KeptColumns, MatchingTypes, NEW i \in Instances, Completes(i)
  PROVE  MatchingTypes'
<1>0. PICK j : j = worker[i].job
  OBVIOUS
<1>1. /\ j \in JobIds /\ EditsOf(i) = jobs[j].edits /\ EditsOf(i) \in Seq(Edits)
      /\ \A k \in JobIds : jobs'[k].edits = jobs[k].edits
      /\ \A k \in JobIds \ {j} : Unfinished(k) => Unfinished(k)'
      /\ Accepted' = Accepted /\ \A k, m : k \in JobIds => (IsFirst(k, m)' <=> IsFirst(k, m))
  BY <1>0, CompletesIs
<1>2. /\ Works(i) /\ worker[i].pc = "complete" /\ ColumnsOf(i) /\ TypesOf(i)
      /\ UNCHANGED <<columns, meta>> /\ world'.initial = world.initial
      /\ \A k \in Instances : ~Works(k)'
  BY DEF Completes, KeptColumns, MatchingTypes, Live
<1>3. ASSUME NEW f \in Fields, columns[f].type # meta[f]
      PROVE  \E k \in JobIds : Unfinished(k)' /\ Touches(jobs'[k].edits, f)
  <2>1. PICK k \in JobIds : Unfinished(k) /\ Touches(jobs[k].edits, f)
    BY <1>3 DEF MatchingTypes, TypesMatch
  <2>2. CASE k # j
    BY <1>1, <2>1, <2>2
  <2>3. CASE k = j
    <3>1. Touches(EditsOf(i), f)
      BY <1>1, <2>1, <2>3
    <3>2. meta[f] = Becomes(EditsOf(i), f)
      BY <1>2, <3>1 DEF ColumnsOf, MetadataStands
    <3>3. OthersTouch(j, f)
      BY <1>0, <1>2, <1>3, <3>1, <3>2, WhatRemains DEF TypesOf
    <3>4. QED
      BY <1>1, <3>3 DEF OthersTouch
  <2>4. QED
    BY <2>2, <2>3
<1>4. ASSUME NEW f \in Fields, Exists(Shadow[f])
      PROVE  \E k \in JobIds : Unfinished(k)' /\ ModifiedBy(k, f, columns[Shadow[f]].type)'
  <2>1. PICK k \in JobIds : Unfinished(k) /\ ModifiedBy(k, f, columns[Shadow[f]].type)
    BY <1>4 DEF MatchingTypes, TypesMatch
  <2>2. k # j
    <3>1. SUFFICES ASSUME k = j PROVE FALSE
      OBVIOUS
    <3>2. PICK m \in 1 .. Len(EditsOf(i)) : EditsOf(i)[m].op = "modify" /\ EditsOf(i)[m].field = f
      BY <1>1, <2>1, <3>1 DEF ModifiedBy
    <3>3. HasShadow(i)
      BY <1>2, <1>4, <3>2 DEF TypesOf, ShadowsGone, Behind
    <3>4. QED
      BY <1>2, <3>3 DEF HasShadow, At
  <2>3. QED
    BY <1>1, <1>2, <2>1, <2>2 DEF ModifiedBy
<1>5. TypesMatch'
  <2>1. \A c \in Columns : columns'[c].type = Absent => ~Exists(c)'
    BY <1>2 DEF MatchingTypes, TypesMatch, Exists
  <2>2. \A f \in Fields : columns'[f].type # meta'[f] =>
          \E k \in JobIds : Unfinished(k)' /\ Touches(jobs'[k].edits, f)
    BY <1>2, <1>3
  <2>3. \A f \in Fields : Exists(Shadow[f])' =>
          \E k \in JobIds : Unfinished(k)' /\ ModifiedBy(k, f, columns[Shadow[f]].type)'
    BY <1>2, <1>4 DEF Exists
  <2>4. QED
    BY <1>2, <2>1, <2>2, <2>3 DEF TypesMatch, Unfinished, ModifiedBy
<1>6. NewColumnsMatch'
  <2>1. \A k \in Accepted : k \in JobIds
    BY DEF Accepted
  <2>2. QED
    BY <1>1, <1>2, <2>1 DEF MatchingTypes, NewColumnsMatch, Touches
<1>7. QED
  BY <1>2, <1>5, <1>6 DEF MatchingTypes

-----------------------------------------------------------------------------
(* Steps with one worker                                                     *)

\* A step of the world leaves it its instances and its table.
WorldKeeps == world'.instances = world.instances /\ world'.initial = world.initial
LEMMA WorldIsKept ==
  ASSUME WorldInv,
         \/ UNCHANGED world
         \/ world' = [world EXCEPT !.left = @ - 1]
         \/ world' = [world EXCEPT !.gestures = @ - 1]
  PROVE  WorldKeeps
<1>1. CASE UNCHANGED world
  BY <1>1 DEF WorldKeeps
<1>2. CASE world' = [world EXCEPT !.left = @ - 1]
  BY <1>2 DEF WorldInv, WorldKeeps
<1>3. CASE world' = [world EXCEPT !.gestures = @ - 1]
  BY <1>3 DEF WorldInv, WorldKeeps
<1>4. QED
  BY <1>1, <1>2, <1>3

\* What is left to show of a step.
LEMMA OneWorkerStep ==
  ASSUME OneWorkerInv, JobsAdvance, WorldKeeps, WorkersServe',
         OneWorker /\ ShadowsApart /\ KeptColumns => KeptColumns',
         OneWorker /\ ShadowsApart /\ KeptColumns /\ AddsAreNew /\ MatchingTypes => MatchingTypes'
  PROVE  OneWorkerInv'
<1>1. OneWorker' <=> OneWorker
  BY DEF WorldKeeps, OneWorker
<1>2. ShadowsApart' <=> ShadowsApart
  BY DEF ShadowsApart
<1>3. AddsAreNew' => AddsAreNew
  BY AddsWereNew DEF WorldKeeps
<1>4. QED
  BY <1>1, <1>2, <1>3 DEF OneWorkerInv

\* ... of one that only pauses: that no worker appears.
LEMMA PausingStep ==
  ASSUME OneWorkerInv, WorkInv, WorkInv', Pauses, WorldKeeps, WorkersServe' PROVE OneWorkerInv'
<1>1. JobsAdvance
  BY DEF Pauses
<1>2. KeptColumns => KeptColumns'
  BY PausesKeep
<1>3. MatchingTypes => MatchingTypes'
  BY PausesMatch
<1>4. QED
  BY <1>1, <1>2, <1>3, OneWorkerStep

\* The workers go on or stop.
LEMMA IdlingStep ==
  ASSUME OneWorkerInv, WorkInv, WorkInv', JobsAdvance, NothingCompletes, WorldKeeps,
         UNCHANGED <<columns, meta>>,
         \A k \in Instances :
           \/ worker'[k] = worker[k] \/ ~Works(k)'
           \/ Works(k) /\ worker'[k].pc \in {"recordFailure", "reject"}
  PROVE  OneWorkerInv'
<1>1. WorkersServe'
  BY DEF OneWorkerInv, WorkersServe, Works, WorldKeeps
<1>2. Pauses
  BY DEF Pauses, Works, Live, WorldKeeps
<1>3. QED
  BY <1>1, <1>2, PausingStep

\* ... or nothing happens to them.
LEMMA QuietStep ==
  ASSUME OneWorkerInv, WorkInv, WorkInv', JobsAdvance, WorldKeeps,
         UNCHANGED <<columns, meta, worker>>,
         \/ UNCHANGED jobs
         \/ \E j \in JobIds : jobs'[j].state = "wait" /\ \A k \in JobIds \ {j} : jobs'[k] = jobs[k]
  PROVE  OneWorkerInv'
<1>1. NothingCompletes
  BY DEF NothingCompletes
<1>2. QED
  BY <1>1, IdlingStep

\* The worker that works is the only one, and stays so.
LEMMA OnlyOne ==
  ASSUME OneWorkerInv, OneWorker, NEW i \in Instances, Works(i),
         \A k \in Instances \ {i} : worker'[k] = worker[k]
  PROVE  \A k \in Instances : Works(k)' => k = i
<1>1. \A k \in Instances : Works(k) => k = i
  BY DEF OneWorkerInv, WorkersServe, OneWorker
<1>2. QED
  BY <1>1 DEF Works

LEMMA TakeStep ==
  ASSUME EditsInv, OneWorkerInv, NEW i \in Instances, TakeJob(i) PROVE OneWorkerInv'
<1> DEFINE v == StartEdit([IdleWorker EXCEPT !.job = Head(queue)], 1)
<1>1. EditsInv' /\ JobsAdvance
  BY TakeEdits
<1>2. /\ i \in world.instances /\ UNCHANGED <<columns, meta, world>>
      /\ queue \in Seq(JobIds) /\ queue # <<>> /\ worker' = [worker EXCEPT ![i] = v]
      /\ jobs' = [jobs EXCEPT ![Head(queue)].state = "active"]
  BY DEF TakeJob, tableVars, EditsInv, WorkInv, QueueOK
<1>3. PICK j \in JobIds : j = Head(queue) /\ jobs[j].state = "wait"
  <2>1. Head(queue) = queue[1] /\ 1 \in 1 .. Len(queue) /\ Head(queue) \in JobIds
    BY <1>2
  <2>2. QED
    BY <2>1 DEF EditsInv, WorkInv, QueueOK
<1>4. /\ jobs[j] \in Job /\ jobs[j].edits \in Seq(Edits) /\ jobs[j].edits # <<>>
  BY <1>3 DEF EditsInv, WorkInv, JobsOK, Job, Pending
<1>5. 1 \in 1 .. Len(jobs[j].edits) /\ jobs[j].edits[1] \in Edits
  BY <1>4
<1>6. /\ v.pc = "step" /\ v.n = 1 /\ v.stage \notin {"backfill-column", "cutover-column"}
  <2> DEFINE w == [IdleWorker EXCEPT !.job = Head(queue)]
  <2>1. w \in WorkerTypes /\ w.job = j
    BY <1>3, IdleTypes, Constants DEF WorkerTypes
  <2> HIDE DEF w
  <2>2. /\ StartEdit(w, 1).pc = "step" /\ StartEdit(w, 1).n = 1
        /\ StartEdit(w, 1).stage = FirstStage[jobs[j].edits[1].op]
    BY <1>4, <1>5, <2>1, StartEditIs
  <2>3. QED
    BY <1>5, <2>2, StagesOf DEF w
<1> HIDE DEF v
<1>7. worker'[i] = v /\ \A k \in Instances \ {i} : worker'[k] = worker[k]
  BY <1>2 DEF EditsInv, WorkInv, WorkersOK
<1>8. NothingCompletes
  <2>1. Moves(j, "active")
    BY <1>2, <1>3, StateMoves DEF EditsInv, WorkInv, JobStates, Pending
  <2>2. QED
    BY <2>1 DEF Moves, Goes, NothingCompletes
<1>9. Pauses
  BY <1>1, <1>2, <1>6, <1>7, <1>8 DEF Pauses, Starts, Works
<1>10. WorkersServe'
  BY <1>2, <1>7 DEF OneWorkerInv, WorkersServe, Works
<1>11. WorldKeeps
  BY <1>2 DEF WorldKeeps
<1>12. QED
  BY <1>1, <1>9, <1>10, <1>11, PausingStep DEF EditsInv

LEMMA ExecuteStepKeeps ==
  ASSUME EditsInv, EditsInv', JobsAdvance, OneWorkerInv, NEW i \in Instances, ExecuteStep(i)
  PROVE  OneWorkerInv'
<1>1. /\ Works(i) /\ worker[i].pc = "step" /\ UNCHANGED <<meta, jobs>> /\ WorldKeeps
      /\ worker \in [Instances -> WorkerTypes]
  BY FaultIs, WorldIsKept DEF ExecuteStep, Works, queueVars, EditsInv, WorkInv, WorkersOK
<1>2. CASE columns' = columns /\ worker' = [worker EXCEPT ![i].pc = "recordFailure"]
  <2>1. NothingCompletes
    BY <1>1 DEF NothingCompletes
  <2>2. /\ worker'[i].pc = "recordFailure"
        /\ \A k \in Instances \ {i} : worker'[k] = worker[k]
    BY <1>1, <1>2 DEF WorkerTypes
  <2>3. QED
    BY <1>1, <1>2, <2>1, <2>2, IdlingStep DEF EditsInv
<1>3. CASE /\ ~StepErrs(worker[i]) /\ columns' = StepEffect(worker[i])
           /\ worker' = [worker EXCEPT ![i].pc = "record"]
  <2>1. \A k \in Instances \ {i} : worker'[k] = worker[k]
    BY <1>1, <1>3
  <2>2. OneWorker => \A k \in Instances : Works(k)' => k = i
    BY <1>1, <2>1, OnlyOne
  <2>3. OneWorker /\ ShadowsApart => Executed(i)
    BY <1>1, <1>3, <2>2, StepIs DEF Executed, EditsInv, WorldKeeps
  <2>4. WorkersServe'
    BY <1>1, <2>1 DEF OneWorkerInv, WorkersServe, Works, WorldKeeps
  <2>5. QED
    BY <1>1, <2>3, <2>4, ExecutedKeeps, ExecutedMatches, OneWorkerStep DEF EditsInv
<1>4. QED
  BY <1>2, <1>3 DEF ExecuteStep

LEMMA RecordStepKeeps ==
  ASSUME EditsInv, EditsInv', JobsAdvance, OneWorkerInv, NEW i \in Instances, RecordMigration(i)
  PROVE  OneWorkerInv'
<1>1. /\ Works(i) /\ worker[i].pc = "record" /\ UNCHANGED <<columns, meta, jobs>> /\ WorldKeeps
      /\ worker \in [Instances -> WorkerTypes]
  BY FaultIs, WorldIsKept
     DEF RecordMigration, Works, tableVars, queueVars, EditsInv, WorkInv, WorkersOK
<1>2. CASE worker' = [worker EXCEPT ![i].pc = "recordFailure"]
  <2>1. NothingCompletes
    BY <1>1 DEF NothingCompletes
  <2>2. /\ worker'[i].pc = "recordFailure"
        /\ \A k \in Instances \ {i} : worker'[k] = worker[k]
    BY <1>1, <1>2 DEF WorkerTypes
  <2>3. QED
    BY <1>1, <1>2, <2>1, <2>2, IdlingStep DEF EditsInv
<1>3. CASE worker' = [worker EXCEPT ![i] = AfterStep(@)]
  <2>1. \A k \in Instances \ {i} : worker'[k] = worker[k]
    BY <1>1, <1>3
  <2>2. OneWorker => Recorded(i)
    BY <1>1, <1>3, <2>1, OnlyOne DEF Recorded, WorldKeeps
  <2>3. WorkersServe'
    BY <1>1, <2>1 DEF OneWorkerInv, WorkersServe, Works, WorldKeeps
  <2>4. QED
    BY <1>1, <2>2, <2>3, RecordedKeeps, RecordedMatches, OneWorkerStep DEF EditsInv
<1>4. QED
  BY <1>2, <1>3 DEF RecordMigration

LEMMA EffectsStepKeeps ==
  ASSUME EditsInv, EditsInv', JobsAdvance, OneWorkerInv, NEW i \in Instances, ApplyMetadataEffects(i)
  PROVE  OneWorkerInv'
<1>1. /\ Works(i) /\ worker[i].pc = "metadata" /\ UNCHANGED <<columns, jobs>> /\ WorldKeeps
      /\ worker \in [Instances -> WorkerTypes]
  BY FaultIs, WorldIsKept DEF ApplyMetadataEffects, Works, queueVars, EditsInv, WorkInv, WorkersOK
<1>2. CASE UNCHANGED meta /\ worker' = [worker EXCEPT ![i].pc = "reject"]
  <2>1. NothingCompletes
    BY <1>1 DEF NothingCompletes
  <2>2. worker'[i].pc = "reject" /\ \A k \in Instances \ {i} : worker'[k] = worker[k]
    BY <1>1, <1>2 DEF WorkerTypes
  <2>3. QED
    BY <1>1, <1>2, <2>1, <2>2, IdlingStep DEF EditsInv
<1>3. CASE /\ meta' = MetadataAfter(jobs[worker[i].job].edits)
           /\ worker' = [worker EXCEPT ![i].pc = "complete"]
  <2>1. \A k \in Instances \ {i} : worker'[k] = worker[k]
    BY <1>1, <1>3
  <2>2. OneWorker => AppliesEffects(i)
    BY <1>1, <1>3, <2>1, OnlyOne DEF AppliesEffects, WorldKeeps
  <2>3. WorkersServe'
    BY <1>1, <2>1 DEF OneWorkerInv, WorkersServe, Works, WorldKeeps
  <2>4. QED
    BY <1>1, <2>2, <2>3, EffectsKeep, EffectsMatch, OneWorkerStep DEF EditsInv
<1>4. QED
  BY <1>2, <1>3 DEF ApplyMetadataEffects

LEMMA CompleteStepKeeps ==
  ASSUME EditsInv, EditsInv', JobsAdvance, OneWorkerInv, NEW i \in Instances, CompleteJob(i)
  PROVE  OneWorkerInv'
<1>1. /\ Works(i) /\ worker[i].pc = "complete" /\ UNCHANGED <<columns, meta, world>>
      /\ jobs' = [jobs EXCEPT ![worker[i].job].state = "completed"]
      /\ worker' = [worker EXCEPT ![i] = IdleWorker] /\ worker \in [Instances -> WorkerTypes]
  BY DEF CompleteJob, Works, tableVars, EditsInv, WorkInv, WorkersOK
<1>2. worker'[i].pc = "idle" /\ \A k \in Instances \ {i} : worker'[k] = worker[k]
  BY <1>1, IdleTypes
<1>3. Moves(worker[i].job, "completed")
  BY <1>1, WorkerIs, StateMoves DEF EditsInv, WorkInv, JobStates
<1>4. WorldKeeps
  BY <1>1 DEF WorldKeeps
<1>5. OneWorker => Completes(i)
  BY <1>1, <1>2, <1>3, OnlyOne DEF Completes, Works
<1>6. WorkersServe'
  BY <1>2, <1>4 DEF OneWorkerInv, WorkersServe, Works, WorldKeeps
<1>7. QED
  BY <1>4, <1>5, <1>6, CompletesKeep, CompletesMatch, OneWorkerStep DEF EditsInv

LEMMA FailStepKeeps ==
  ASSUME EditsInv, EditsInv', JobsAdvance, OneWorkerInv, NEW i \in Instances,
         RecordFailedMigration(i) \/ RejectJob(i) \/ Crash(i)
  PROVE  OneWorkerInv'
<1>1. /\ UNCHANGED <<columns, meta>> /\ WorldKeeps /\ worker \in [Instances -> WorkerTypes]
  BY FaultIs, WorldIsKept
     DEF RecordFailedMigration, RejectJob, Crash, tableVars, EditsInv, WorkInv, WorkersOK
<1>2. \/ UNCHANGED jobs
      \/ /\ Works(i) /\ worker[i].job \in JobIds
         /\ \E state \in {"delayed", "wait", "failed"} : Moves(worker[i].job, state)
  <2> DEFINE j == worker[i].job
  <2>1. CASE RecordFailedMigration(i)
    BY <2>1 DEF RecordFailedMigration, queueVars
  <2>2. CASE RejectJob(i)
    <3> DEFINE state == IF jobs[j].made + 1 < RetryCount THEN "delayed" ELSE "failed"
    <3>1. Works(i)
      BY <2>2 DEF RejectJob, Works
    <3>2. j \in JobIds /\ jobs[j].made < RetryCount /\ JobsOK
      BY <3>1, WorkerIs DEF EditsInv, WorkInv, JobOf
    <3>3. state \in {"delayed", "wait", "failed"} /\ state \in JobStates
      BY DEF JobStates, Pending
    <3>4. jobs' = [jobs EXCEPT ![j].state = state, ![j].made = @ + 1]
      BY <2>2 DEF RejectJob
    <3> HIDE DEF state
    <3>5. QED
      BY <3>1, <3>2, <3>3, <3>4, RejectMoves
  <2>3. CASE Crash(i) /\ Works(i)
    <3> DEFINE state == IF jobs[j].stalls < MaxStalls THEN "wait" ELSE "failed"
    <3>1. j \in JobIds /\ jobs[j].stalls <= MaxStalls /\ JobsOK
      BY <2>3, WorkerIs DEF EditsInv, WorkInv, JobOf
    <3>2. state \in {"delayed", "wait", "failed"} /\ state \in JobStates
      BY DEF JobStates, Pending
    <3>3. jobs' = [jobs EXCEPT ![j].state = state, ![j].stalls = @ + 1]
      BY <2>3 DEF Crash, Works
    <3> HIDE DEF state
    <3>4. QED
      BY <2>3, <3>1, <3>2, <3>3, StallMoves
  <2>4. CASE Crash(i) /\ ~Works(i)
    BY <2>4 DEF Crash, Works
  <2>5. QED
    BY <2>1, <2>2, <2>3, <2>4
<1>3. NothingCompletes
  BY <1>2 DEF Moves, Goes, NothingCompletes
<1>4. \A k \in Instances :
        \/ worker'[k] = worker[k] \/ ~Works(k)'
        \/ Works(k) /\ worker'[k].pc \in {"recordFailure", "reject"}
  <2>1. CASE RecordFailedMigration(i)
    <3>1. worker' = [worker EXCEPT ![i].pc = "reject"] /\ Works(i)
      BY <2>1 DEF RecordFailedMigration, Works
    <3>2. QED
      BY <1>1, <3>1 DEF WorkerTypes
  <2>2. CASE worker' = [worker EXCEPT ![i] = IdleWorker]
    BY <1>1, <2>2, IdleTypes DEF Works
  <2>3. QED
    BY <2>1, <2>2 DEF RejectJob, Crash
<1>5. QED
  BY <1>1, <1>3, <1>4, IdlingStep DEF EditsInv

LEMMA WorkStepKeeps ==
  ASSUME EditsInv, OneWorkerInv, NEW i \in Instances, Work(i) PROVE OneWorkerInv'
<1>1. EditsInv' /\ JobsAdvance
  BY WorkEdits
<1>2. QED
  BY <1>1, ExecuteStepKeeps, RecordStepKeeps, EffectsStepKeeps, CompleteStepKeeps, FailStepKeeps
     DEF Work

\* A request that is received, served or rejected changes no column.
LEMMA AdmissionKeeps ==
  ASSUME EditsInv, OneWorkerInv, NEW i \in Instances, Admission(i) PROVE OneWorkerInv'
<1>1. /\ EditsInv' /\ JobsAdvance
      /\ \/ UNCHANGED jobs
         \/ \E j \in JobIds : jobs'[j].state = "wait" /\ \A k \in JobIds \ {j} : jobs'[k] = jobs[k]
  BY AdmissionEdits
<1>2. /\ UNCHANGED <<columns, meta, worker>>
      /\ UNCHANGED world \/ world' = [world EXCEPT !.left = @ - 1]
  <2>1. CASE AcquireGuardrailLock(i)
    BY <2>1 DEF AcquireGuardrailLock, tableVars
  <2>2. CASE CountFields(i) \/ ListPendingJobs(i)
    BY <2>2 DEF CountFields, ListPendingJobs, Reads, tableVars
  <2>3. CASE RejectRequest(i)
    BY <2>3, FaultIs DEF RejectRequest, tableVars
  <2>4. CASE EnqueueDdlJob(i)
    BY <2>4 DEF EnqueueDdlJob, tableVars
  <2>5. CASE AcceptRequest(i)
    BY <2>5 DEF AcceptRequest, tableVars
  <2>6. QED
    BY <2>1, <2>2, <2>3, <2>4, <2>5 DEF Admission
<1>3. QED
  BY <1>1, <1>2, WorldIsKept, QuietStep DEF EditsInv

LEMMA ReceiveKeeps ==
  ASSUME EditsInv, OneWorkerInv, NEW i \in Instances, NEW edits \in Requested,
         ReceiveRequest(i, edits)
  PROVE  OneWorkerInv'
<1>1. EditsInv' /\ JobsAdvance /\ UNCHANGED world
  BY ReceiveEdits
<1>2. UNCHANGED <<columns, meta, worker, jobs>>
  BY DEF ReceiveRequest, tableVars, queueVars
<1>3. QED
  BY <1>1, <1>2, WorldIsKept, QuietStep DEF EditsInv

LEMMA DataKeep ==
  ASSUME EditsInv, OneWorkerInv, UNCHANGED dataVars,
         \/ UNCHANGED world
         \/ world' = [world EXCEPT !.left = @ - 1]
         \/ world' = [world EXCEPT !.gestures = @ - 1]
  PROVE  OneWorkerInv'
<1>1. EditsInv' /\ JobsAdvance
  BY DataStays
<1>2. UNCHANGED <<columns, meta, worker, jobs>>
  BY DEF dataVars, tableVars, queueVars
<1>3. QED
  BY <1>1, <1>2, WorldIsKept, QuietStep DEF EditsInv

LEMMA ElsewhereKeeps ==
  ASSUME EditsInv, OneWorkerInv, Elsewhere PROVE OneWorkerInv'
<1>1. ASSUME NEW i \in Instances, TakeJob(i) \/ Work(i) PROVE OneWorkerInv'
  BY <1>1, TakeStep, WorkStepKeeps
<1>2. ASSUME NEW i \in RowReaders \intersect world.instances, RowRequest(i) PROVE OneWorkerInv'
  <2>1. EditsInv' /\ JobsAdvance
    BY <1>2, RowEdits, ConstantsAssumption
  <2>2. UNCHANGED <<columns, meta, worker, jobs, world>>
    BY <1>2 DEF RowRequest, ReadMetaFields, WriteValidationSchemaCache, EvictValidationSchema,
                tableVars, queueVars
  <2>3. QED
    BY <2>1, <2>2, WorldIsKept, QuietStep DEF EditsInv
<1>3. ASSUME NEW j \in JobIds, PromoteJob(j) PROVE OneWorkerInv'
  <2>1. EditsInv' /\ JobsAdvance
    BY <1>3, PromoteEdits
  <2>2. UNCHANGED <<columns, meta, worker, world>> /\ jobs' = [jobs EXCEPT ![j].state = "wait"]
    BY <1>3 DEF PromoteJob, tableVars
  <2>3. Moves(j, "wait")
    BY <2>2, StateMoves DEF EditsInv, WorkInv, JobStates, Pending
  <2>4. jobs'[j].state = "wait" /\ \A k \in JobIds \ {j} : jobs'[k] = jobs[k]
    BY <2>3 DEF Moves, Goes
  <2>5. QED
    BY <2>1, <2>2, <2>4, WorldIsKept, QuietStep DEF EditsInv
<1>4. ASSUME Rest PROVE OneWorkerInv'
  BY <1>4, DataKeep DEF Rest, vars, dataVars, tableVars, queueVars, cacheVars
<1>5. QED
  BY <1>1, <1>2, <1>3, <1>4 DEF Elsewhere

LEMMA EditorKeeps ==
  ASSUME FieldEditorInv, OneWorkerInv, [EditorNext]_editorVars PROVE OneWorkerInv'
<1>1. EditsInv /\ PageOK
  BY DEF FieldEditorInv
<1>2. CASE Use
  <2>1. UNCHANGED dataVars /\ (UNCHANGED world \/ world' = [world EXCEPT !.gestures = @ - 1])
    BY <1>2, VarsStay, GestureIs
       DEF Use, OpenDetail, CloseDetail, RetryDetail, ChangeType, ChangeConfig, ChangeDraft, AskRemoval,
           AddField, ConfirmRemoval, CancelRemoval, RetryTargets, DiscardField, ChooseTarget,
           Submit, CancelChanges, ConfirmChanges
  <2>2. QED
    BY <1>1, <2>1, DataKeep
<1>3. CASE Answers \/ LoseDetail \/ LoseAnswer
  <2>1. UNCHANGED dataVars /\ (UNCHANGED world \/ world' = [world EXCEPT !.left = @ - 1])
    BY <1>3, VarsStay, FaultIs DEF Answers, ReadDetail, ShowDetail, LoadTargets, LoseDetail, LoseAnswer
  <2>2. QED
    BY <1>1, <2>1, DataKeep
<1>4. CASE RefuseEdits \/ Completed \/ PollJob \/ UNCHANGED editorVars
  <2>1. UNCHANGED dataVars /\ UNCHANGED world
    BY <1>4, VarsStay DEF RefuseEdits, Completed, PollJob, editorVars
  <2>2. QED
    BY <1>1, <2>1, DataKeep
<1>5. ASSUME NEW i \in Instances, SendEdits(i) PROVE OneWorkerInv'
  <2>1. ReceiveRequest(i, editor.request) /\ editor.loop = "net"
    BY <1>5 DEF SendEdits
  <2>2. editor.request \in Requested
    BY <1>1, <2>1 DEF PageOK, SubmissionOK, DraftsOK, EditorTypes, Requested
  <2>3. QED
    BY <1>1, <2>1, <2>2, ReceiveKeeps
<1>6. ASSUME NEW i \in Instances,
             Serve(i) \/ Die(i) \/ \E edits \in world.requests : OthersRequest(i, edits)
      PROVE  OneWorkerInv'
  <2>1. CASE Serve(i)
    BY <1>1, <2>1, AdmissionKeeps DEF Serve
  <2>2. CASE Die(i)
    <3>1. Crash(i)
      BY <2>2 DEF Die
    <3>2. QED
      BY <1>1, <3>1, CrashEdits, FailStepKeeps
  <2>3. ASSUME NEW edits \in world.requests, OthersRequest(i, edits) PROVE OneWorkerInv'
    BY <1>1, <2>3, ReceiveKeeps DEF OthersRequest, EditsInv, WorldInv
  <2>4. QED
    BY <1>6, <2>1, <2>2, <2>3
<1>7. CASE Elsewhere
  BY <1>1, <1>7, ElsewhereKeeps
<1>8. QED
  BY <1>2, <1>3, <1>4, <1>5, <1>6, <1>7 DEF EditorNext, Await

\* At first the columns are those of the fields that the table was made with.
LEMMA OneWorkerInitially ==
  ASSUME EditorInit PROVE OneWorkerInv
<1>1. /\ world.initial \in Schema /\ meta = world.initial /\ jobs = [j \in JobIds |-> NoJob]
      /\ columns = [c \in Columns |-> IF c \in FieldsOf(world.initial)
                                        THEN NewColumn(world.initial[c], TRUE) ELSE NoColumn]
      /\ worker = [i \in Instances |-> IdleWorker]
  BY ConstantsAssumption DEF EditorInit, Init, Schema
<1>2. \A i \in Instances : ~Works(i)
  BY <1>1, IdleTypes DEF Works
<1>3. \A j \in JobIds : j \notin Accepted
  BY <1>1, IdleTypes DEF Accepted
<1>4. ASSUME NEW c \in Columns
      PROVE  IF c \in Fields /\ world.initial[c] # Absent
               THEN Exists(c) /\ columns[c].type = world.initial[c] /\ columns[c].whole
               ELSE columns[c] = NoColumn
  BY <1>1, ColumnIs DEF FieldsOf, Exists
<1>5. Fields \subseteq Columns /\ \A f \in Fields : Shadow[f] \in Columns
  BY Constants
<1>6. KeptColumns
  BY <1>1, <1>2, <1>4, <1>5 DEF KeptColumns, ColumnsStayWhole, Exists
<1>7. ShadowsApart => TypesMatch
  <2>1. \A c \in Columns : columns[c].type = Absent => ~Exists(c)
    BY <1>4, ColumnIs DEF Exists
  <2>2. \A f \in Fields : columns[f].type = meta[f]
    BY <1>1, <1>4, <1>5, ColumnIs
  <2>3. ShadowsApart => \A f \in Fields : ~Exists(Shadow[f])
    BY <1>4, <1>5 DEF ShadowsApart, Exists
  <2>4. QED
    BY <2>1, <2>2, <2>3 DEF TypesMatch
<1>8. NewColumnsMatch
  <2>1. Accepted = {}
    BY <1>3 DEF Accepted
  <2>2. QED
    BY <1>4, <1>5, <2>1 DEF NewColumnsMatch
<1>9. QED
  BY <1>2, <1>6, <1>7, <1>8 DEF OneWorkerInv, WorkersServe, MatchingTypes

LEMMA OneWorkerInvariant == EditorSpec => [](FieldEditorInv /\ OneWorkerInv)
<1>1. EditorInit => FieldEditorInv /\ OneWorkerInv
  BY InitFieldEditor, OneWorkerInitially
<1>2. (FieldEditorInv /\ OneWorkerInv) /\ [EditorNext]_editorVars => (FieldEditorInv /\ OneWorkerInv)'
  BY FieldEditorStep, EditorKeeps
<1>3. QED
  BY <1>1, <1>2, PTL DEF EditorSpec

LEMMA NothingIsLost ==
  ASSUME OneWorkerInv, OneWorker, ShadowsApart
  PROVE  MetadataDescribesColumns /\ ColumnsStayWhole
<1>1. KeptColumns
  BY DEF OneWorkerInv
<1>2. ASSUME NEW f \in Fields, meta[f] # Absent, ~Exists(f)
      PROVE  \E j \in Accepted :
               /\ jobs[j].state # "completed"
               /\ \E n \in DOMAIN jobs[j].edits :
                    jobs[j].edits[n].op = "remove" /\ jobs[j].edits[n].field = f
  <2>1. PICK j \in JobIds : Unfinished(j) /\ RemovedBy(j, f)
    BY <1>1, <1>2 DEF KeptColumns
  <2>2. QED
    BY <2>1 DEF Unfinished, RemovedBy, Accepted
<1>3. QED
  BY <1>1, <1>2 DEF KeptColumns, MetadataDescribesColumns

LEMMA WhatCompletesMatches ==
  ASSUME OneWorkerInv, OneWorker, ShadowsApart, AddsAreNew PROVE CompletedEditsMatch
<1>1. TypesMatch
  BY DEF OneWorkerInv, MatchingTypes
<1>2. ASSUME \A j \in Accepted : jobs[j].state = "completed"
      PROVE  \A f \in Fields : columns[f].type = meta[f] /\ columns[Shadow[f]] = NoColumn
  <2>1. \A j \in JobIds : ~Unfinished(j)
    BY <1>2 DEF Unfinished, Accepted
  <2>2. QED
    BY <1>1, <2>1 DEF TypesMatch, Exists
<1>3. QED
  BY <1>2 DEF CompletedEditsMatch

\* DdlWorker and processFieldEdit(): where one instance of the backend runs, and
\* no field has the name of another's shadow column, no column that _meta_fields
\* describes is missing unless a job that removes it is not completed, and none
\* has lost its values, whatever fails, crashes and is retried.
THEOREM OneWorkerLosesNothing ==
  EditorSpec => [](OneWorker /\ ShadowsApart => MetadataDescribesColumns /\ ColumnsStayWhole)
<1>1. FieldEditorInv /\ OneWorkerInv =>
        (OneWorker /\ ShadowsApart => MetadataDescribesColumns /\ ColumnsStayWhole)
  BY NothingIsLost
<1>2. QED
  BY <1>1, OneWorkerInvariant, PTL

\* ... and if what the accepted jobs add was not there, the columns have the
\* types that _meta_fields gives them once all jobs are completed, and no shadow
\* column is left.
THEOREM OneWorkerMatches ==
  EditorSpec => [](OneWorker /\ ShadowsApart /\ AddsAreNew => CompletedEditsMatch)
<1>1. FieldEditorInv /\ OneWorkerInv =>
        (OneWorker /\ ShadowsApart /\ AddsAreNew => CompletedEditsMatch)
  BY WhatCompletesMatches
<1>2. QED
  BY <1>1, OneWorkerInvariant, PTL

-----------------------------------------------------------------------------
(* The limit                                                                 *)

\* The additions that are pending, and the fields that are there or coming.
Awaited ==
  UNION {{j} \X AdditionsOf(jobs[j].edits) : j \in {x \in JobIds : jobs[x].state \in Pending}}
FieldsComing == {jobs[a[1]].edits[a[2]].field : a \in Awaited}
Arrivals == (FieldsOf(meta) \union FieldsComing) \ NotAdmitted

\* Who asks for additions holds the lock as long as it reads, and what it has
\* read bounds what is there or coming, since only it may add to that.
Admitted(i) ==
  /\ req[i].pc = "admit" => req[i].todo = {}
  /\ req[i].pc = "enqueue" => AdditionsOf(req[i].edits) = {}
  /\ req[i].pc \in {"read", "admit"} =>
       /\ lock = i
       /\ "count" \notin req[i].todo =>
            Cardinality(Arrivals) <= req[i].count + world.maxFields
       /\ "pending" \notin req[i].todo => PendingAdditions <= req[i].pending

\* A field of the table stays known until an edit removes it.
KnownStays ==
  \A f \in Fields : world.initial[f] = Absent \/ AskedFor("remove", f) \/ meta[f] # Absent

StartsWithin == Cardinality(FieldsOf(world.initial)) <= world.maxFields
LimitInv ==
  /\ world.maxFields \in Nat
  /\ PendingAdditions <= world.maxFields
  /\ StartsWithin => Cardinality(Arrivals) <= 2 * world.maxFields
  /\ \A i \in Instances : Admitted(i)
  /\ KnownStays

LEMMA LimitCounts ==
  ASSUME JobsOK
  PROVE  /\ IsFiniteSet(Awaited) /\ PendingAdditions = Cardinality(Awaited)
         /\ PendingAdditions \in Nat
         /\ IsFiniteSet(Arrivals) /\ Cardinality(Arrivals) \in Nat
         /\ Cardinality(FieldsOf(meta)) \in Nat
         /\ Cardinality(FieldsOf(meta) \ NotAdmitted) <= Cardinality(Arrivals)
         /\ Cardinality(Arrivals) <= Cardinality(FieldsOf(meta)) + PendingAdditions
<1>1. /\ IsFiniteSet(Awaited) /\ PendingAdditions \in Nat /\ PendingAdditions = Cardinality(Awaited)
      /\ Cardinality(FieldsOf(meta)) \in Nat
  BY FieldsCounted DEF Awaited, PendingAdditions
<1>2. IsFiniteSet(FieldsOf(meta))
  BY EditorAssumption, FS_Subset DEF FieldsOf
<1> DEFINE g == [a \in Awaited |-> jobs[a[1]].edits[a[2]].field]
<1>3. g \in Surjection(Awaited, FieldsComing)
  BY DEF Surjection, FieldsComing
<1>4. IsFiniteSet(FieldsComing) /\ Cardinality(FieldsComing) <= PendingAdditions
  BY <1>1, <1>3, FS_Surjection
<1> HIDE DEF g
<1>5. /\ IsFiniteSet(FieldsOf(meta) \union FieldsComing)
      /\ Cardinality(FieldsOf(meta) \union FieldsComing) =
           Cardinality(FieldsOf(meta)) + Cardinality(FieldsComing)
             - Cardinality(FieldsOf(meta) \intersect FieldsComing)
  BY <1>2, <1>4, FS_Union
<1>6. Cardinality(FieldsComing) \in Nat /\ Cardinality(FieldsOf(meta) \intersect FieldsComing) \in Nat
  BY <1>2, <1>4, FS_Subset, FS_CardinalityType
<1>7. /\ IsFiniteSet(Arrivals) /\ Cardinality(Arrivals) \in Nat
      /\ Cardinality(Arrivals) <= Cardinality(FieldsOf(meta) \union FieldsComing)
  BY <1>5, FS_Subset, FS_CardinalityType DEF Arrivals
<1>8. Cardinality(FieldsOf(meta) \ NotAdmitted) <= Cardinality(Arrivals)
  <2>1. FieldsOf(meta) \ NotAdmitted \subseteq Arrivals
    BY DEF Arrivals
  <2>2. QED
    BY <2>1, <1>7, FS_Subset
<1>9. Cardinality(FieldsOf(meta) \union FieldsComing)
        <= Cardinality(FieldsOf(meta)) + PendingAdditions
  BY <1>1, <1>4, <1>5, <1>6
<1>10. Cardinality(FieldsOf(meta) \union FieldsComing) \in Nat
  BY <1>5, FS_CardinalityType
<1>11. Cardinality(Arrivals) <= Cardinality(FieldsOf(meta)) + PendingAdditions
  BY <1>1, <1>7, <1>9, <1>10
<1>12. QED
  BY <1>1, <1>7, <1>8, <1>11

\* What is awaited.
LEMMA AwaitedIs ==
  ASSUME NEW j, NEW n
  PROVE  <<j, n>> \in Awaited <=>
           j \in JobIds /\ jobs[j].state \in Pending /\ n \in AdditionsOf(jobs[j].edits)
BY DEF Awaited

LEMMA ComingIs ==
  ASSUME NEW f
  PROVE  f \in FieldsComing <=>
           \E j \in JobIds : /\ jobs[j].state \in Pending
                             /\ \E n \in AdditionsOf(jobs[j].edits) : jobs[j].edits[n].field = f
<1>1. \A a \in Awaited : \E j \in JobIds :
        /\ jobs[j].state \in Pending
        /\ \E n \in AdditionsOf(jobs[j].edits) : a = <<j, n>>
  BY DEF Awaited
<1>2. ASSUME f \in FieldsComing
      PROVE  \E j \in JobIds : /\ jobs[j].state \in Pending
                               /\ \E n \in AdditionsOf(jobs[j].edits) : jobs[j].edits[n].field = f
  <2>1. PICK a \in Awaited : f = jobs[a[1]].edits[a[2]].field
    BY <1>2 DEF FieldsComing
  <2>2. PICK j \in JobIds : /\ jobs[j].state \in Pending
                            /\ \E n \in AdditionsOf(jobs[j].edits) : a = <<j, n>>
    BY <1>1
  <2>3. PICK n \in AdditionsOf(jobs[j].edits) : a = <<j, n>>
    BY <2>2
  <2>4. a[1] = j /\ a[2] = n
    BY <2>3
  <2>5. QED
    BY <2>1, <2>2, <2>4
<1>3. ASSUME NEW j \in JobIds, jobs[j].state \in Pending, NEW n \in AdditionsOf(jobs[j].edits),
             jobs[j].edits[n].field = f
      PROVE  f \in FieldsComing
  <2>1. <<j, n>> \in Awaited /\ <<j, n>>[1] = j /\ <<j, n>>[2] = n
    BY <1>3, AwaitedIs
  <2>2. QED
    BY <2>1, <1>3 DEF FieldsComing
<1>4. QED
  BY <1>2, <1>3

\* What has been asked for has been asked for.
LEMMA AskedForStays ==
  ASSUME JobsAdvance, NEW op, NEW f, AskedFor(op, f) PROVE AskedFor(op, f)'
<1>1. PICK j \in Accepted : \E n \in DOMAIN jobs[j].edits :
        jobs[j].edits[n].op = op /\ jobs[j].edits[n].field = f
  BY DEF AskedFor
<1>2. j \in Accepted' /\ jobs'[j].edits = jobs[j].edits
  BY <1>1 DEF JobsAdvance, Accepted
<1>3. QED
  BY <1>1, <1>2 DEF AskedFor

LEMMA NotAdmittedStays ==
  ASSUME JobsAdvance, world'.initial = world.initial PROVE NotAdmitted \subseteq NotAdmitted'
BY AskedForStays DEF NotAdmitted

\* Nothing arrives unless a job does that adds something.
NothingArrives ==
  \A j \in JobIds :
    jobs[j].state = "none" => jobs'[j].state = "none" \/ AdditionsOf(jobs'[j].edits) = {}

LEMMA AwaitedFalls ==
  ASSUME JobsOK, JobsAdvance, NothingArrives
  PROVE  Awaited' \subseteq Awaited /\ FieldsComing' \subseteq FieldsComing
<1>1. ASSUME NEW j \in JobIds, jobs'[j].state \in Pending, NEW n \in AdditionsOf(jobs'[j].edits)
      PROVE  jobs[j].state \in Pending /\ jobs'[j].edits = jobs[j].edits
  <2>1. jobs[j].state # "none"
    BY <1>1 DEF NothingArrives, Pending
  <2>2. jobs'[j].edits = jobs[j].edits /\ jobs[j].state \notin {"completed", "failed"}
    BY <1>1, <2>1 DEF JobsAdvance, Pending
  <2>3. jobs[j].state \in JobStates
    BY DEF JobsOK, Job
  <2>4. QED
    BY <2>1, <2>2, <2>3 DEF JobStates
<1>2. Awaited' \subseteq Awaited
  BY <1>1 DEF Awaited
<1>3. ASSUME NEW a \in Awaited' PROVE a \in Awaited /\ jobs'[a[1]].edits = jobs[a[1]].edits
  <2>1. PICK j \in JobIds : /\ jobs'[j].state \in Pending
                            /\ \E n \in AdditionsOf(jobs'[j].edits) : a = <<j, n>>
    BY <1>3 DEF Awaited
  <2>2. PICK n \in AdditionsOf(jobs'[j].edits) : a = <<j, n>>
    BY <2>1
  <2>3. a[1] = j
    BY <2>2
  <2>4. QED
    BY <1>1, <1>2, <1>3, <2>1, <2>2, <2>3
<1>4. FieldsComing' \subseteq FieldsComing
  BY <1>3 DEF FieldsComing
<1>5. QED
  BY <1>2, <1>4

\* How a request may have gone on when nothing arrives.
AsksOn(k) ==
  \/ req'[k] = req[k] /\ (lock = k => lock' = k)
  \/ req'[k].pc \in {"idle", "lock", "invalidate"}
  \/ req'[k].pc = "enqueue" /\ AdditionsOf(req'[k].edits) = {}
  \/ Admitted(k)'
LimitsStay == world'.maxFields = world.maxFields /\ world'.initial = world.initial

LEMMA LimitGoesOn ==
  ASSUME EditsInv, EditsInv', LimitInv, LimitsStay, JobsAdvance,
         Awaited' \subseteq Awaited, Arrivals' \subseteq Arrivals, KnownStays',
         \A k \in Instances : AsksOn(k)
  PROVE  LimitInv'
<1> DEFINE max == world.maxFields
           there == Cardinality(Arrivals)
           after == Cardinality(Arrivals')
           pending == PendingAdditions
           later == PendingAdditions'
<1>1. JobsOK /\ JobsOK' /\ max \in Nat /\ world'.maxFields = max
  BY DEF EditsInv, WorkInv, LimitInv, LimitsStay
<1>2. /\ IsFiniteSet(Awaited) /\ pending = Cardinality(Awaited) /\ pending \in Nat
      /\ IsFiniteSet(Arrivals) /\ there \in Nat
  BY <1>1, LimitCounts
<1>3. Cardinality(Awaited') <= pending /\ Cardinality(Awaited') \in Nat
        /\ after <= there /\ after \in Nat
  BY <1>2, FS_Subset, FS_CardinalityType
<1>4. later = Cardinality(Awaited')
  BY DEF Awaited, PendingAdditions
<1>5. /\ pending <= max
      /\ StartsWithin => there <= 2 * max
      /\ \A i \in Instances : Admitted(i)
  BY DEF LimitInv
<1>6. StartsWithin' <=> StartsWithin
  BY DEF StartsWithin, LimitsStay
<1> HIDE DEF max, there, after, pending, later
<1>7. ASSUME NEW k \in Instances PROVE Admitted(k)'
  <2>1. CASE req'[k] = req[k] /\ (lock = k => lock' = k)
    <3>1. Admitted(k) /\ req[k] \in RequestTypes
      BY <1>5 DEF EditsInv, RequestsOK
    <3>2. req[k].count \in Nat /\ req[k].pending \in Nat
      BY <3>1 DEF RequestTypes
    <3>3. req[k].pc \in {"read", "admit"} =>
            /\ lock' = k
            /\ "count" \notin req[k].todo => after <= req[k].count + max
            /\ "pending" \notin req[k].todo => later <= req[k].pending
      BY <1>1, <1>2, <1>3, <1>4, <2>1, <3>1, <3>2 DEF Admitted, there, pending, max
    <3>4. QED
      BY <1>1, <2>1, <3>1, <3>3 DEF Admitted, after, later, max
  <2>2. CASE req'[k].pc \in {"idle", "lock", "invalidate"}
    BY <2>2 DEF Admitted
  <2>3. CASE req'[k].pc = "enqueue" /\ AdditionsOf(req'[k].edits) = {}
    BY <2>3 DEF Admitted
  <2>4. CASE Admitted(k)'
    BY <2>4
  <2>5. QED
    BY <2>1, <2>2, <2>3, <2>4 DEF AsksOn
<1>8. later <= max /\ (StartsWithin => after <= 2 * max)
  BY <1>1, <1>2, <1>3, <1>4, <1>5
<1>9. QED
  BY <1>1, <1>6, <1>7, <1>8 DEF LimitInv, max, after, later

\* ... and the metadata stay as well.
LEMMA LimitStays ==
  ASSUME EditsInv, EditsInv', LimitInv, LimitsStay, JobsAdvance, NothingArrives, UNCHANGED meta,
         \A k \in Instances : AsksOn(k)
  PROVE  LimitInv'
<1>1. Awaited' \subseteq Awaited /\ FieldsComing' \subseteq FieldsComing
  BY AwaitedFalls DEF EditsInv, WorkInv
<1>2. FieldsOf(meta') = FieldsOf(meta) /\ NotAdmitted \subseteq NotAdmitted'
  BY NotAdmittedStays DEF LimitsStay
<1>3. Arrivals' \subseteq Arrivals
  BY <1>1, <1>2 DEF Arrivals
<1>4. KnownStays'
  BY AskedForStays DEF LimitInv, KnownStays, LimitsStay
<1>5. QED
  BY <1>1, <1>3, <1>4, LimitGoesOn

LEMMA LimitsAreKept ==
  ASSUME WorldInv,
         \/ UNCHANGED world
         \/ world' = [world EXCEPT !.left = @ - 1]
         \/ world' = [world EXCEPT !.gestures = @ - 1]
  PROVE  LimitsStay
<1>1. CASE UNCHANGED world
  BY <1>1 DEF LimitsStay
<1>2. CASE world' = [world EXCEPT !.left = @ - 1]
  BY <1>2 DEF WorldInv, LimitsStay
<1>3. CASE world' = [world EXCEPT !.gestures = @ - 1]
  BY <1>3 DEF WorldInv, LimitsStay
<1>4. QED
  BY <1>1, <1>2, <1>3

\* The request that reads the number of fields or what is pending.
LEMMA ReadsLimit ==
  ASSUME EditsInv, EditsInv', LimitInv, NEW i \in Instances, NEW what \in {"count", "pending"},
         Reads(i, what)
  PROVE  LimitInv'
<1> DEFINE todo == req[i].todo \ {what}
           pc == IF req[i].todo = {what} THEN "admit" ELSE "read"
           count == IF what = "count" THEN Cardinality(FieldsOf(meta)) ELSE req[i].count
           pending == IF what = "pending" THEN PendingAdditions ELSE req[i].pending
           r == [[[[req[i] EXCEPT !.todo = todo] EXCEPT !.pc = pc] EXCEPT !.count = count]
                   EXCEPT !.pending = pending]
<1>1. /\ req[i] \in RequestTypes /\ req \in [Instances -> RequestTypes] /\ req[i].pc = "read"
      /\ what \in req[i].todo
  BY DEF EditsInv, RequestsOK, Reads
<1>2. req' = [req EXCEPT ![i] = r]
  BY <1>1 DEF Reads
<1>3. UNCHANGED <<meta, jobs, lock, world>>
  BY DEF Reads, tableVars, queueVars
<1>4. JobsAdvance /\ NothingArrives /\ LimitsStay
  BY <1>3 DEF JobsAdvance, NothingArrives, LimitsStay
<1>5. /\ Cardinality(Arrivals) \in Nat /\ PendingAdditions \in Nat /\ world.maxFields \in Nat
      /\ Cardinality(FieldsOf(meta)) \in Nat /\ PendingAdditions <= world.maxFields
      /\ Cardinality(Arrivals) <= Cardinality(FieldsOf(meta)) + PendingAdditions
  BY LimitCounts DEF EditsInv, WorkInv, LimitInv
<1>6. Cardinality(Arrivals) <= Cardinality(FieldsOf(meta)) + world.maxFields
  BY <1>5
<1>7. Admitted(i)
  BY DEF LimitInv
<1>8. /\ pc = "admit" => todo = {}
      /\ pc \in {"read", "admit"}
      /\ "count" \notin todo => Cardinality(Arrivals) <= count + world.maxFields
      /\ "pending" \notin todo => PendingAdditions <= pending
  BY <1>1, <1>5, <1>6, <1>7 DEF Admitted
<1> HIDE DEF todo, pc, count, pending
<1>9. r.todo = todo /\ r.pc = pc /\ r.count = count /\ r.pending = pending
  BY <1>1 DEF RequestTypes
<1> HIDE DEF r
<1>10. req'[i] = r /\ \A k \in Instances \ {i} : req'[k] = req[k]
  BY <1>1, <1>2
<1>11. Cardinality(Arrivals)' = Cardinality(Arrivals) /\ PendingAdditions' = PendingAdditions
  BY <1>3 DEF Arrivals, FieldsComing, Awaited, NotAdmitted, AskedFor, Accepted, PendingAdditions
<1>12. Admitted(i)'
  BY <1>1, <1>3, <1>7, <1>8, <1>9, <1>10, <1>11 DEF Admitted
<1>13. \A k \in Instances : AsksOn(k)
  BY <1>3, <1>10, <1>12 DEF AsksOn
<1>14. QED
  BY <1>3, <1>4, <1>13, LimitStays

\* A request that adds something is enqueued within the limit: the lock has kept
\* others from adding since it read.
LEMMA AdmitLimit ==
  ASSUME EditsInv, EditsInv', LimitInv, NEW i \in Instances, EnqueueDdlJob(i), req[i].pc = "admit"
  PROVE  LimitInv'
<1> DEFINE edits == req[i].edits
           adds == AdditionsOf(edits)
           max == world.maxFields
           job == [NoJob EXCEPT !.edits = edits, !.state = "wait"]
<1>1. /\ req[i] \in RequestTypes /\ req \in [Instances -> RequestTypes] /\ edits \in Seq(Edits)
      /\ req[i].count \in Nat /\ req[i].pending \in Nat
  BY DEF EditsInv, RequestsOK, RequestTypes
<1>2. PICK j \in JobIds : jobs[j].state = "none" /\ jobs' = [jobs EXCEPT ![j] = job]
  BY DEF EnqueueDdlJob
<1>3. job.state = "wait" /\ job.edits = edits
  BY DEF NoJob
<1> HIDE DEF job
<1>4. jobs'[j] = job /\ \A k \in JobIds \ {j} : jobs'[k] = jobs[k]
  BY <1>2 DEF EditsInv, WorkInv, JobsOK
<1>5. JobsAdvance
  BY <1>2, <1>4 DEF JobsAdvance
<1>6. UNCHANGED <<meta, lock, world>> /\ req' = [req EXCEPT ![i].pc = "invalidate"]
  BY DEF EnqueueDdlJob, tableVars
<1>7. /\ WithinLimit(req[i]) /\ Admitted(i) /\ max \in Nat
  BY DEF EnqueueDdlJob, LimitInv
<1>8. /\ lock = i /\ req[i].count + req[i].pending + Cardinality(adds) <= max
      /\ Cardinality(Arrivals) <= req[i].count + max /\ PendingAdditions <= req[i].pending
  BY <1>7 DEF Admitted, WithinLimit
<1>9. IsFiniteSet(adds) /\ Cardinality(adds) \in Nat
  <2>1. adds \subseteq 1 .. Len(edits) /\ Len(edits) \in Nat
    BY <1>1 DEF AdditionsOf
  <2>2. IsFiniteSet(1 .. Len(edits))
    BY <2>1, FS_Interval
  <2> HIDE DEF adds, edits
  <2>3. QED
    BY <2>1, <2>2, FS_Subset, FS_CardinalityType
<1>10. /\ IsFiniteSet(Awaited) /\ PendingAdditions = Cardinality(Awaited)
       /\ PendingAdditions \in Nat
       /\ IsFiniteSet(Arrivals) /\ Cardinality(Arrivals) \in Nat
  BY LimitCounts DEF EditsInv, WorkInv
<1> DEFINE new == {<<j, n>> : n \in adds}
           coming == {edits[n].field : n \in adds}
<1>11. /\ IsFiniteSet(new) /\ Cardinality(new) <= Cardinality(adds) /\ Cardinality(new) \in Nat
       /\ IsFiniteSet(coming) /\ Cardinality(coming) <= Cardinality(adds)
       /\ Cardinality(coming) \in Nat
  <2> DEFINE g == [n \in adds |-> <<j, n>>]
             h == [n \in adds |-> edits[n].field]
  <2>1. g \in Surjection(adds, new)
    BY DEF Surjection
  <2>2. h \in Surjection(adds, coming)
    BY DEF Surjection
  <2> HIDE DEF g, h, new, coming, adds
  <2>3. QED
    BY <1>9, <2>1, <2>2, FS_Surjection, FS_CardinalityType
<1>12. ASSUME NEW a \in Awaited'
       PROVE  \/ a \in Awaited /\ jobs'[a[1]].edits = jobs[a[1]].edits
              \/ a \in new /\ jobs'[a[1]].edits[a[2]].field \in coming
  <2>1. PICK k \in JobIds : /\ jobs'[k].state \in Pending
                            /\ \E n \in AdditionsOf(jobs'[k].edits) : a = <<k, n>>
    BY <1>12 DEF Awaited
  <2>2. PICK n \in AdditionsOf(jobs'[k].edits) : a = <<k, n>>
    BY <2>1
  <2>3. a[1] = k /\ a[2] = n
    BY <2>2
  <2>4. CASE k = j
    BY <2>2, <2>3, <2>4, <1>3, <1>4
  <2>5. CASE k # j
    <3>1. jobs'[k] = jobs[k]
      BY <1>4, <2>5
    <3>2. a \in Awaited
      BY <2>1, <2>2, <3>1, AwaitedIs
    <3>3. QED
      BY <2>3, <3>1, <3>2
  <2>6. QED
    BY <2>4, <2>5
<1>13. Awaited' \subseteq Awaited \union new
  BY <1>12
<1>14. Arrivals' \subseteq Arrivals \union coming
  <2>1. FieldsComing' \subseteq FieldsComing \union coming
    BY <1>12 DEF FieldsComing
  <2>2. NotAdmitted \subseteq NotAdmitted' /\ FieldsOf(meta') = FieldsOf(meta)
    BY <1>5, <1>6, NotAdmittedStays
  <2>3. QED
    BY <2>1, <2>2 DEF Arrivals
<1> HIDE DEF new, coming, adds
<1>15. PendingAdditions' = Cardinality(Awaited') /\ PendingAdditions' \in Nat
  <2>1. PendingAdditions' = Cardinality(Awaited')
    BY DEF PendingAdditions, Awaited
  <2>2. IsFiniteSet(Awaited')
    BY <1>10, <1>11, <1>13, FS_Union, FS_Subset
  <2>3. QED
    BY <2>1, <2>2, FS_CardinalityType
<1>16. Cardinality(Awaited') <= Cardinality(Awaited) + Cardinality(new)
  <2>1. /\ IsFiniteSet(Awaited \union new)
        /\ Cardinality(Awaited \union new) =
             Cardinality(Awaited) + Cardinality(new) - Cardinality(Awaited \intersect new)
    BY <1>10, <1>11, FS_Union
  <2>2. Cardinality(Awaited \intersect new) \in Nat
    BY <1>10, FS_Subset, FS_CardinalityType
  <2>3. Cardinality(Awaited') <= Cardinality(Awaited \union new)
    BY <1>13, <2>1, FS_Subset
  <2>4. QED
    BY <1>10, <1>11, <1>15, <2>1, <2>2, <2>3
<1>17. Cardinality(Arrivals') <= Cardinality(Arrivals) + Cardinality(coming)
         /\ Cardinality(Arrivals') \in Nat
  <2>1. /\ IsFiniteSet(Arrivals \union coming)
        /\ Cardinality(Arrivals \union coming) =
             Cardinality(Arrivals) + Cardinality(coming) - Cardinality(Arrivals \intersect coming)
    BY <1>10, <1>11, FS_Union
  <2>2. Cardinality(Arrivals \intersect coming) \in Nat
    BY <1>10, FS_Subset, FS_CardinalityType
  <2>3. Cardinality(Arrivals') <= Cardinality(Arrivals \union coming)
          /\ Cardinality(Arrivals') \in Nat
    BY <1>14, <2>1, FS_Subset, FS_CardinalityType
  <2>4. QED
    BY <1>10, <1>11, <2>1, <2>2, <2>3
<1> HIDE DEF max
<1>18. PendingAdditions' <= max
  BY <1>1, <1>7, <1>8, <1>9, <1>10, <1>11, <1>15, <1>16
<1>19. Cardinality(Arrivals') <= 2 * max
  BY <1>1, <1>7, <1>8, <1>9, <1>10, <1>11, <1>17
<1>20. req'[i].pc = "invalidate" /\ \A k \in Instances \ {i} : req'[k] = req[k]
  BY <1>1, <1>6 DEF RequestTypes
<1>21. ASSUME NEW k \in Instances PROVE Admitted(k)'
  <2>1. CASE k = i
    BY <1>20, <2>1 DEF Admitted
  <2>2. CASE k # i
    <3>1. Admitted(k) /\ req'[k] = req[k]
      BY <1>20, <2>2 DEF LimitInv
    <3>2. req[k].pc \notin {"read", "admit"}
      BY <1>8, <2>2, <3>1 DEF Admitted
    <3>3. QED
      BY <3>1, <3>2 DEF Admitted
  <2>3. QED
    BY <2>1, <2>2
<1>22. KnownStays'
  BY <1>5, <1>6, AskedForStays DEF LimitInv, KnownStays
<1>23. QED
  BY <1>6, <1>7, <1>18, <1>19, <1>21, <1>22 DEF LimitInv, max

LEMMA EnqueueLimit ==
  ASSUME EditsInv, EditsInv', LimitInv, NEW i \in Instances, EnqueueDdlJob(i)
  PROVE  LimitInv'
<1>1. CASE req[i].pc = "admit"
  BY <1>1, AdmitLimit
<1>2. CASE req[i].pc = "enqueue"
  <2>1. AdditionsOf(req[i].edits) = {}
    BY <1>2 DEF LimitInv, Admitted
  <2>2. PICK j \in JobIds :
          /\ jobs[j].state = "none"
          /\ jobs' = [jobs EXCEPT ![j] = [NoJob EXCEPT !.edits = req[i].edits, !.state = "wait"]]
    BY DEF EnqueueDdlJob
  <2>3. [NoJob EXCEPT !.edits = req[i].edits, !.state = "wait"].edits = req[i].edits
    BY DEF NoJob
  <2>4. jobs'[j].edits = req[i].edits /\ \A k \in JobIds \ {j} : jobs'[k] = jobs[k]
    BY <2>2, <2>3 DEF EditsInv, WorkInv, JobsOK
  <2>5. JobsAdvance /\ NothingArrives
    BY <2>1, <2>2, <2>4 DEF JobsAdvance, NothingArrives
  <2>6. UNCHANGED <<meta, lock, world>> /\ req' = [req EXCEPT ![i].pc = "invalidate"]
    BY DEF EnqueueDdlJob, tableVars
  <2>7. req'[i].pc = "invalidate" /\ \A k \in Instances \ {i} : req'[k] = req[k]
    BY <2>6 DEF EditsInv, RequestsOK, RequestTypes
  <2>8. LimitsStay /\ \A k \in Instances : AsksOn(k)
    BY <2>6, <2>7 DEF LimitsStay, AsksOn
  <2>9. QED
    BY <2>5, <2>6, <2>8, LimitStays
<1>3. QED
  BY <1>1, <1>2 DEF EnqueueDdlJob

\* A request that is over releases its own lock only.
LEMMA EndedLimit ==
  ASSUME EditsInv, NEW i \in Instances, req' = [req EXCEPT ![i] = IdleRequest], ReleaseLock(i)
  PROVE  \A k \in Instances : AsksOn(k)
<1>1. req'[i].pc = "idle" /\ \A k \in Instances \ {i} : req'[k] = req[k]
  BY IdleTypes DEF EditsInv, RequestsOK
<1>2. QED
  BY <1>1 DEF AsksOn, ReleaseLock

LEMMA AdmissionLimit ==
  ASSUME EditsInv, EditsInv', LimitInv, NEW i \in Instances, Admission(i)
  PROVE  LimitInv'
<1>1. CASE CountFields(i) \/ ListPendingJobs(i)
  BY <1>1, ReadsLimit DEF CountFields, ListPendingJobs
<1>2. CASE EnqueueDdlJob(i)
  BY <1>2, EnqueueLimit
<1>3. CASE AcquireGuardrailLock(i) \/ RejectRequest(i) \/ AcceptRequest(i)
  <2>1. UNCHANGED <<meta, jobs>> /\ (UNCHANGED world \/ world' = [world EXCEPT !.left = @ - 1])
    BY <1>3, FaultIs DEF AcquireGuardrailLock, RejectRequest, AcceptRequest, tableVars, queueVars
  <2>2. JobsAdvance /\ NothingArrives
    BY <2>1 DEF JobsAdvance, NothingArrives
  <2>3. LimitsStay
    BY <2>1, LimitsAreKept DEF EditsInv
  <2>4. ASSUME AcquireGuardrailLock(i) PROVE \A k \in Instances : AsksOn(k)
    <3> DEFINE r == [[req[i] EXCEPT !.pc = "read"] EXCEPT !.todo = {"count", "pending"}]
    <3>1. /\ req[i] \in RequestTypes /\ req \in [Instances -> RequestTypes] /\ req[i].pc = "lock"
          /\ lock = Nobody
      BY <2>4 DEF EditsInv, RequestsOK, AcquireGuardrailLock
    <3>2. req' = [req EXCEPT ![i] = r] /\ lock' = i
      BY <2>4, <3>1 DEF AcquireGuardrailLock
    <3>3. r.pc = "read" /\ r.todo = {"count", "pending"}
      BY <3>1 DEF RequestTypes
    <3> HIDE DEF r
    <3>4. req'[i] = r /\ \A k \in Instances \ {i} : req'[k] = req[k]
      BY <3>1, <3>2
    <3>5. Admitted(i)'
      BY <3>2, <3>3, <3>4 DEF Admitted
    <3>6. \A k \in Instances : lock # k
      BY <3>1, Constants
    <3>7. QED
      BY <3>4, <3>5, <3>6 DEF AsksOn
  <2>5. ASSUME RejectRequest(i) \/ AcceptRequest(i) PROVE \A k \in Instances : AsksOn(k)
    <3>1. req' = [req EXCEPT ![i] = IdleRequest] /\ ReleaseLock(i)
      BY <2>5 DEF RejectRequest, AcceptRequest
    <3>2. QED
      BY <3>1, EndedLimit
  <2>6. QED
    BY <1>3, <2>1, <2>2, <2>3, <2>4, <2>5, LimitStays
<1>4. QED
  BY <1>1, <1>2, <1>3 DEF Admission

\* The metadata effects make known what an addition has announced, or what is
\* known, or what need not be admitted.
LEMMA ApplyLimit ==
  ASSUME EditsInv, EditsInv', LimitInv, NEW i \in Instances, ApplyMetadataEffects(i)
  PROVE  LimitInv'
<1> DEFINE j == worker[i].job
           edits == jobs[j].edits
<1>1. /\ j \in JobIds /\ jobs[j].state = "active" /\ edits \in Seq(Edits)
  BY WorkerIs DEF EditsInv, ApplyMetadataEffects, Works, JobOf
<1>2. /\ UNCHANGED <<jobs, req, lock>>
      /\ UNCHANGED world \/ world' = [world EXCEPT !.left = @ - 1]
      /\ UNCHANGED meta \/ meta' = MetadataAfter(edits)
  BY FaultIs DEF ApplyMetadataEffects, queueVars
<1>3. LimitsStay
  BY <1>2, LimitsAreKept DEF EditsInv
<1>4. JobsAdvance /\ NothingArrives /\ \A k \in Instances : AsksOn(k)
  BY <1>2 DEF JobsAdvance, NothingArrives, AsksOn
<1>5. CASE UNCHANGED meta
  BY <1>3, <1>4, <1>5, LimitStays
<1>6. CASE meta' = MetadataAfter(edits)
  <2>1. \A f \in Fields : meta'[f] = IF Touches(edits, f) THEN Becomes(edits, f) ELSE meta[f]
    BY <1>1, <1>6, MetadataAfterIs DEF EditsInv, TableInv
  <2>2. Awaited' \subseteq Awaited /\ FieldsComing' \subseteq FieldsComing
    BY <1>4, AwaitedFalls DEF EditsInv, WorkInv
  <2>3. NotAdmitted \subseteq NotAdmitted'
    BY <1>3, <1>4, NotAdmittedStays DEF LimitsStay
  <2>4. ASSUME NEW f \in Fields, Touches(edits, f)
        PROVE  \/ f \in FieldsComing
               \/ AskedFor("modify", f)
               \/ AskedFor("remove", f) /\ Becomes(edits, f) = Absent
    <3>1. PICK n \in 1 .. Len(edits) : n = LastEditOf(f, edits) /\ edits[n] \in Edits /\ edits[n].field = f
      BY <1>1, <2>4, LastEditIs
    <3>2. j \in Accepted /\ n \in DOMAIN edits /\ jobs[j].state \in Pending
      BY <1>1 DEF Accepted, Pending
    <3>3. CASE edits[n].op = "add"
      <4>1. n \in AdditionsOf(edits)
        BY <3>2, <3>3 DEF AdditionsOf
      <4>2. QED
        BY <1>1, <3>1, <3>2, <4>1, ComingIs
    <3>4. CASE edits[n].op = "modify"
      BY <3>1, <3>2, <3>4 DEF AskedFor
    <3>5. CASE edits[n].op = "remove"
      BY <3>1, <3>2, <3>5 DEF AskedFor, Becomes
    <3>6. QED
      BY <3>1, <3>3, <3>4, <3>5 DEF Edits
  <2>5. ASSUME NEW f \in Fields PROVE AskedFor("remove", f)' <=> AskedFor("remove", f)
    BY <1>2 DEF AskedFor, Accepted
  <2>6. ASSUME NEW f \in Fields, meta'[f] # Absent, meta[f] = Absent
        PROVE  f \in FieldsComing \/ f \in NotAdmitted
    <3>1. Touches(edits, f) /\ Becomes(edits, f) # Absent
      BY <2>1, <2>6
    <3>2. world.initial[f] = Absent \/ AskedFor("remove", f)
      BY <2>6 DEF LimitInv, KnownStays
    <3>3. QED
      BY <2>4, <3>1, <3>2 DEF NotAdmitted
  <2>7. FieldsOf(meta') \subseteq FieldsOf(meta) \union FieldsComing \union NotAdmitted
    BY <2>6 DEF FieldsOf
  <2>8. Arrivals' \subseteq Arrivals
    BY <2>2, <2>3, <2>7 DEF Arrivals
  <2>9. KnownStays'
    <3>1. SUFFICES ASSUME NEW f \in Fields, meta'[f] = Absent
                   PROVE  world.initial[f] = Absent \/ AskedFor("remove", f)
      BY <1>3, <2>5 DEF KnownStays, LimitsStay
    <3>2. CASE meta[f] = Absent
      BY <3>2 DEF LimitInv, KnownStays
    <3>3. CASE meta[f] # Absent
      <4>1. Touches(edits, f) /\ Becomes(edits, f) = Absent
        BY <2>1, <3>1, <3>3
      <4>2. PICK n \in 1 .. Len(edits) :
              n = LastEditOf(f, edits) /\ edits[n] \in Edits /\ edits[n].field = f
        BY <1>1, <4>1, LastEditIs
      <4>3. edits[n].op = "remove"
        BY <4>1, <4>2, Constants DEF Becomes, Edits
      <4>4. j \in Accepted /\ n \in DOMAIN edits
        BY <1>1 DEF Accepted
      <4>5. QED
        BY <4>2, <4>3, <4>4 DEF AskedFor
    <3>4. QED
      BY <3>2, <3>3
  <2>10. QED
    BY <1>3, <1>4, <2>2, <2>8, <2>9, LimitGoesOn
<1>7. QED
  BY <1>2, <1>5, <1>6

LEMMA WorkLimit ==
  ASSUME EditsInv, LimitInv, NEW i \in Instances, Work(i) PROVE LimitInv'
<1>1. EditsInv' /\ JobsAdvance /\ UNCHANGED req
  BY WorkEdits
<1>2. CASE ApplyMetadataEffects(i)
  BY <1>1, <1>2, ApplyLimit
<1>3. CASE ~ApplyMetadataEffects(i)
  <2> DEFINE j == worker[i].job
  <2>1. /\ UNCHANGED <<meta, lock>>
        /\ UNCHANGED world \/ world' = [world EXCEPT !.left = @ - 1]
        /\ Works(i)
    BY <1>3, FaultIs DEF Work, ExecuteStep, RecordMigration, RecordFailedMigration, CompleteJob,
       RejectJob, tableVars, Works
  <2>2. j \in JobIds /\ jobs[j].state = "active"
    BY <2>1, WorkerIs DEF EditsInv, JobOf
  <2>3. \A k \in JobIds \ {j} : jobs'[k] = jobs[k]
    BY <1>3 DEF Work, ExecuteStep, RecordMigration, RecordFailedMigration, CompleteJob, RejectJob,
       queueVars, EditsInv, WorkInv, JobsOK
  <2>4. NothingArrives
    BY <2>2, <2>3 DEF NothingArrives
  <2>5. LimitsStay /\ \A k \in Instances : AsksOn(k)
    BY <1>1, <2>1, LimitsAreKept DEF EditsInv, AsksOn
  <2>6. QED
    BY <1>1, <2>1, <2>4, <2>5, LimitStays
<1>4. QED
  BY <1>2, <1>3

LEMMA CrashLimit ==
  ASSUME EditsInv, LimitInv, NEW i \in Instances, Crash(i) PROVE LimitInv'
<1> DEFINE j == worker[i].job
<1>1. EditsInv' /\ JobsAdvance
  BY CrashEdits
<1>2. /\ world' = [world EXCEPT !.left = @ - 1] /\ UNCHANGED meta
      /\ req' = [req EXCEPT ![i] = IdleRequest] /\ ReleaseLock(i)
  BY FaultIs DEF Crash, tableVars
<1>3. LimitsStay /\ \A k \in Instances : AsksOn(k)
  BY <1>2, LimitsAreKept, EndedLimit DEF EditsInv
<1>4. NothingArrives
  <2>1. CASE ~Works(i)
    BY <2>1 DEF Crash, Works, NothingArrives
  <2>2. CASE Works(i)
    <3>1. j \in JobIds /\ jobs[j].state = "active"
      BY <2>2, WorkerIs DEF EditsInv, JobOf
    <3>2. \A k \in JobIds \ {j} : jobs'[k] = jobs[k]
      BY <2>2 DEF Crash, Works, EditsInv, WorkInv, JobsOK
    <3>3. QED
      BY <3>1, <3>2 DEF NothingArrives
  <2>3. QED
    BY <2>1, <2>2
<1>5. QED
  BY <1>1, <1>2, <1>3, <1>4, LimitStays

LEMMA DataLimit ==
  ASSUME EditsInv, LimitInv, UNCHANGED dataVars,
         \/ UNCHANGED world
         \/ world' = [world EXCEPT !.left = @ - 1]
         \/ world' = [world EXCEPT !.gestures = @ - 1]
  PROVE  LimitInv'
<1>1. EditsInv' /\ JobsAdvance /\ UNCHANGED <<jobs, req, meta, lock>>
  BY DataStays DEF dataVars
<1>2. LimitsStay /\ NothingArrives /\ \A k \in Instances : AsksOn(k)
  BY <1>1, LimitsAreKept DEF EditsInv, NothingArrives, AsksOn
<1>3. QED
  BY <1>1, <1>2, LimitStays

LEMMA ReceiveLimit ==
  ASSUME EditsInv, LimitInv, NEW i \in Instances, NEW edits \in Requested, ReceiveRequest(i, edits)
  PROVE  LimitInv'
<1> DEFINE pc == IF AdditionsOf(edits) = {} THEN "enqueue" ELSE "lock"
           r == [IdleRequest EXCEPT !.pc = pc, !.edits = edits]
<1>1. EditsInv' /\ JobsAdvance /\ UNCHANGED world
  BY ReceiveEdits
<1>2. UNCHANGED <<meta, jobs, lock>> /\ req' = [req EXCEPT ![i] = r]
  BY DEF ReceiveRequest, tableVars, queueVars
<1>3. pc = "lock" \/ (pc = "enqueue" /\ AdditionsOf(edits) = {})
  OBVIOUS
<1> HIDE DEF pc
<1>4. r.pc = pc /\ r.edits = edits
  BY DEF IdleRequest
<1> HIDE DEF r
<1>5. req'[i] = r /\ \A k \in Instances \ {i} : req'[k] = req[k]
  BY <1>2 DEF EditsInv, RequestsOK
<1>6. NothingArrives /\ LimitsStay /\ \A k \in Instances : AsksOn(k)
  BY <1>1, <1>2, <1>3, <1>4, <1>5 DEF NothingArrives, LimitsStay, AsksOn
<1>7. QED
  BY <1>1, <1>2, <1>6, LimitStays

LEMMA ElsewhereLimit ==
  ASSUME EditsInv, LimitInv, Elsewhere PROVE LimitInv'
<1>1. ASSUME NEW i \in Instances, Work(i) PROVE LimitInv'
  BY <1>1, WorkLimit
<1>2. ASSUME NEW i \in Instances, TakeJob(i) PROVE LimitInv'
  <2>1. EditsInv' /\ JobsAdvance /\ UNCHANGED <<req, meta, lock, world>>
    BY <1>2, TakeEdits DEF TakeJob, tableVars
  <2>2. /\ queue \in Seq(JobIds) /\ queue # <<>> /\ jobs' = [jobs EXCEPT ![Head(queue)].state = "active"]
        /\ jobs \in [JobIds -> Job]
    BY <1>2 DEF TakeJob, EditsInv, WorkInv, QueueOK, JobsOK
  <2>3. PICK j \in JobIds : j = Head(queue) /\ jobs[j].state = "wait"
    <3>1. Head(queue) = queue[1] /\ 1 \in 1 .. Len(queue) /\ Head(queue) \in JobIds
      BY <2>2
    <3>2. QED
      BY <3>1 DEF EditsInv, WorkInv, QueueOK
  <2>4. \A k \in JobIds \ {j} : jobs'[k] = jobs[k]
    BY <2>2, <2>3
  <2>5. NothingArrives /\ LimitsStay /\ \A k \in Instances : AsksOn(k)
    BY <2>1, <2>3, <2>4 DEF NothingArrives, LimitsStay, AsksOn
  <2>6. QED
    BY <2>1, <2>5, LimitStays
<1>3. ASSUME NEW i \in RowReaders \intersect world.instances, RowRequest(i) PROVE LimitInv'
  <2>1. EditsInv' /\ JobsAdvance
    BY <1>3, RowEdits, ConstantsAssumption
  <2>2. UNCHANGED <<meta, jobs, req, lock, world>>
    BY <1>3 DEF RowRequest, ReadMetaFields, WriteValidationSchemaCache, EvictValidationSchema,
                tableVars, queueVars
  <2>3. NothingArrives /\ LimitsStay /\ \A k \in Instances : AsksOn(k)
    BY <2>2 DEF NothingArrives, LimitsStay, AsksOn
  <2>4. QED
    BY <2>1, <2>2, <2>3, LimitStays
<1>4. ASSUME NEW j \in JobIds, PromoteJob(j) PROVE LimitInv'
  <2>1. EditsInv' /\ JobsAdvance /\ UNCHANGED <<req, meta, lock, world>>
    BY <1>4, PromoteEdits DEF PromoteJob, tableVars
  <2>2. jobs[j].state = "delayed" /\ \A k \in JobIds \ {j} : jobs'[k] = jobs[k]
    BY <1>4 DEF PromoteJob, EditsInv, WorkInv, JobsOK
  <2>3. NothingArrives /\ LimitsStay /\ \A k \in Instances : AsksOn(k)
    BY <2>1, <2>2 DEF NothingArrives, LimitsStay, AsksOn
  <2>4. QED
    BY <2>1, <2>3, LimitStays
<1>5. ASSUME Rest PROVE LimitInv'
  BY <1>5, DataLimit DEF Rest, vars, dataVars, tableVars, queueVars, cacheVars
<1>6. QED
  BY <1>1, <1>2, <1>3, <1>4, <1>5 DEF Elsewhere

LEMMA EditorLimit ==
  ASSUME FieldEditorInv, LimitInv, [EditorNext]_editorVars PROVE LimitInv'
<1>1. EditsInv /\ PageOK
  BY DEF FieldEditorInv
<1>2. CASE Use
  <2>1. UNCHANGED dataVars /\ (UNCHANGED world \/ world' = [world EXCEPT !.gestures = @ - 1])
    BY <1>2, VarsStay, GestureIs
       DEF Use, OpenDetail, CloseDetail, RetryDetail, ChangeType, ChangeConfig, ChangeDraft, AskRemoval,
           AddField, ConfirmRemoval, CancelRemoval, RetryTargets, DiscardField, ChooseTarget,
           Submit, CancelChanges, ConfirmChanges
  <2>2. QED
    BY <1>1, <2>1, DataLimit
<1>3. CASE Answers \/ LoseDetail \/ LoseAnswer
  <2>1. UNCHANGED dataVars /\ (UNCHANGED world \/ world' = [world EXCEPT !.left = @ - 1])
    BY <1>3, VarsStay, FaultIs DEF Answers, ReadDetail, ShowDetail, LoadTargets, LoseDetail, LoseAnswer
  <2>2. QED
    BY <1>1, <2>1, DataLimit
<1>4. CASE RefuseEdits \/ Completed \/ PollJob \/ UNCHANGED editorVars
  <2>1. UNCHANGED dataVars /\ UNCHANGED world
    BY <1>4, VarsStay DEF RefuseEdits, Completed, PollJob, editorVars
  <2>2. QED
    BY <1>1, <2>1, DataLimit
<1>5. ASSUME NEW i \in Instances, SendEdits(i) PROVE LimitInv'
  <2>1. ReceiveRequest(i, editor.request) /\ editor.loop = "net"
    BY <1>5 DEF SendEdits
  <2>2. editor.request \in Requested
    BY <1>1, <2>1 DEF PageOK, SubmissionOK, DraftsOK, EditorTypes, Requested
  <2>3. QED
    BY <1>1, <2>1, <2>2, ReceiveLimit
<1>6. ASSUME NEW i \in Instances,
             Serve(i) \/ Die(i) \/ \E edits \in world.requests : OthersRequest(i, edits)
      PROVE  LimitInv'
  <2>1. CASE Serve(i)
    BY <1>1, <2>1, AdmissionEdits, AdmissionLimit DEF Serve
  <2>2. CASE Die(i)
    BY <1>1, <2>2, CrashLimit DEF Die
  <2>3. ASSUME NEW edits \in world.requests, OthersRequest(i, edits) PROVE LimitInv'
    BY <1>1, <2>3, ReceiveLimit DEF OthersRequest, EditsInv, WorldInv
  <2>4. QED
    BY <1>6, <2>1, <2>2, <2>3
<1>7. CASE Elsewhere
  BY <1>1, <1>7, ElsewhereLimit
<1>8. QED
  BY <1>2, <1>3, <1>4, <1>5, <1>6, <1>7 DEF EditorNext, Await

LEMMA LimitInitially ==
  ASSUME EditorInit PROVE LimitInv
<1>1. /\ world \in Worlds /\ meta = world.initial /\ jobs = [j \in JobIds |-> NoJob]
      /\ req = [i \in Instances |-> IdleRequest]
  BY DEF EditorInit, Init
<1>2. world.maxFields \in Nat
  BY <1>1, ConstantsAssumption
<1>3. EditsInv
  BY EditsInitially DEF EditorInit
<1>4. Awaited = {}
  BY <1>1, IdleTypes DEF Awaited, Pending
<1>5. PendingAdditions = 0
  BY <1>3, <1>4, LimitCounts, FS_EmptySet DEF EditsInv, WorkInv
<1>6. Cardinality(Arrivals) <= Cardinality(FieldsOf(world.initial))
        /\ Cardinality(Arrivals) \in Nat /\ Cardinality(FieldsOf(world.initial)) \in Nat
  BY <1>1, <1>3, <1>5, LimitCounts DEF EditsInv, WorkInv
<1>7. \A i \in Instances : Admitted(i)
  BY <1>1, IdleTypes DEF Admitted
<1>8. KnownStays
  BY <1>1 DEF KnownStays
<1>9. StartsWithin => Cardinality(Arrivals) <= 2 * world.maxFields
  BY <1>2, <1>6 DEF StartsWithin
<1>10. QED
  BY <1>2, <1>5, <1>7, <1>8, <1>9 DEF LimitInv

LEMMA LimitFollows ==
  ASSUME FieldEditorInv, LimitInv, StartsWithin PROVE FieldLimitAtMostDoubled
<1>1. /\ Cardinality(Arrivals) \in Nat /\ world.maxFields \in Nat
      /\ Cardinality(FieldsOf(meta) \ NotAdmitted) <= Cardinality(Arrivals)
      /\ Cardinality(Arrivals) <= 2 * world.maxFields
  BY LimitCounts DEF FieldEditorInv, EditsInv, WorkInv, LimitInv
<1>2. Cardinality(FieldsOf(meta) \ NotAdmitted) \in Nat
  BY EditorAssumption, FS_Subset, FS_CardinalityType DEF FieldsOf
<1>3. QED
  BY <1>1, <1>2 DEF FieldLimitAtMostDoubled

LEMMA LimitInvariant == EditorSpec => [](FieldEditorInv /\ LimitInv)
<1>1. EditorInit => FieldEditorInv /\ LimitInv
  BY InitFieldEditor, LimitInitially
<1>2. (FieldEditorInv /\ LimitInv) /\ [EditorNext]_editorVars => (FieldEditorInv /\ LimitInv)'
  BY FieldEditorStep, EditorLimit
<1>3. QED
  BY <1>1, <1>2, PTL DEF EditorSpec

\* enqueueFieldEditWithinLimit(): on any number of instances, a table that was
\* made within the limit gets at most twice as many fields by additions, though
\* what is there and what is pending are read by two statements.
THEOREM AdditionsStayBounded == EditorSpec => [](StartsWithin => FieldLimitAtMostDoubled)
<1>1. FieldEditorInv /\ LimitInv => (StartsWithin => FieldLimitAtMostDoubled)
  BY LimitFollows
<1>2. QED
  BY <1>1, LimitInvariant, PTL

\* Together: where one instance works, on a table that was made within the limit
\* and gets only fields that are new, what a completed edit promised is what the
\* columns, the metadata, the rows and the records have.
THEOREM OneWorkerEditsTakeEffect ==
  EditorSpec => [](OneWorker /\ ShadowsApart /\ AddsAreNew /\ StartsWithin => EditsTakeEffect)
<1>1. CompletedIsRecorded
        /\ (OneWorker /\ ShadowsApart => MetadataDescribesColumns /\ ColumnsStayWhole)
        /\ (OneWorker /\ ShadowsApart /\ AddsAreNew => CompletedEditsMatch)
        /\ (StartsWithin => FieldLimitAtMostDoubled)
      => (OneWorker /\ ShadowsApart /\ AddsAreNew /\ StartsWithin => EditsTakeEffect)
  BY DEF EditsTakeEffect
<1>2. QED
  BY <1>1, CompletedEditsAreRecorded, OneWorkerLosesNothing, OneWorkerMatches,
     AdditionsStayBounded, PTL
=============================================================================
