----------------------------- MODULE FieldEditor -----------------------------
(***************************************************************************)
(* The field editor: DynamicTablesPage as far as it shows one table, and   *)
(* FieldEditor with useDdlJobSubmission() on it, over the field edits of   *)
(* FieldEdits, in which other clients take part.                           *)
(*                                                                         *)
(* The page keeps the last outcome of a request for the table under the    *)
(* key of that request, and shows it as long as the key is the one it      *)
(* would ask under now: also when the table is closed and opened again,    *)
(* while it is asked for anew.  A new table object resets the drafts of an *)
(* editor that is on the screen and the state of its submission, not the   *)
(* submission itself.  Loops, dialogs and drafts go when the editor goes.  *)
(*                                                                         *)
(* A world also says what its user may choose and add, and how often the   *)
(* user does something.  A new field is typed in one go, and configuration *)
(* and "required" are one bit of a draft.  Retyping a field that is marked *)
(* as removed changes nothing that is sent, and is left out; so is         *)
(* readOnly.                                                               *)
(***************************************************************************)
EXTENDS FieldEdits, SequencesExt

CONSTANTS
  MaxPolls  \* MAX_POLL_ATTEMPTS

ASSUME EditorAssumption ==
  /\ MaxPolls \in Nat \ {0}
  /\ IsFiniteSet(Fields)
  /\ \A w \in Worlds :
       /\ {"gestures", "choices", "additions"} \subseteq DOMAIN w
       /\ w.gestures \in Nat
       /\ w.choices \subseteq Types \ {Relation}
       /\ w.additions \subseteq Fields \X Types

VARIABLES
  detail,   \* the page: what it shows of the table, and its request
  editor    \* the editor and its submission

dataVars == <<tableVars, queueVars, recorded, worker, req, lock, cacheVars>>
editorVars == <<vars, detail, editor>>

NoFields == [f \in Fields |-> Absent]
Draft(type) == [type |-> type, changed |-> FALSE, removed |-> FALSE]

\* An editor as it is mounted on a table.  "loop" is what the submission
\* awaits: an answer (of a request that is on its way, or that an instance
\* serves) or the outcome of its job.
Mount(fields) ==
  [drafts |-> [f \in Fields |-> Draft(fields[f])], new |-> <<>>, candidate |-> Nobody,
   targets |-> "loading", status |-> "idle", request |-> <<>>,
   loop |-> "none", at |-> Nobody, job |-> 0, polls |-> 0]
NoEditor == Mount(NoFields)

EditorInit ==
  /\ Init
  /\ detail = [open |-> FALSE, current |-> FALSE, outcome |-> "error", fields |-> NoFields,
               fetch |-> "none", read |-> NoSchema, done |-> {}]
  /\ editor = NoEditor

-----------------------------------------------------------------------------
(* The page *)

Mounted == detail.open /\ detail.current /\ detail.outcome = "ready"

\* The user does something, once more.
Gesture ==
  /\ world.gestures > 0
  /\ world' = [world EXCEPT !.gestures = @ - 1]

\* What was shown last is shown at once, and asked for again.
OpenDetail ==
  /\ ~detail.open
  /\ Gesture
  /\ detail' = [detail EXCEPT !.open = TRUE, !.fetch = "asked"]
  /\ editor' = IF Mounted' THEN Mount(detail.fields) ELSE NoEditor
  /\ UNCHANGED dataVars

CloseDetail ==
  /\ detail.open
  /\ Gesture
  /\ detail' = [detail EXCEPT !.open = FALSE, !.fetch = "none", !.read = NoSchema]
  /\ editor' = NoEditor
  /\ UNCHANGED dataVars

\* getTableDetail()
ReadDetail ==
  /\ detail.fetch = "asked"
  /\ detail' = [detail EXCEPT !.fetch = "read", !.read = meta]
  /\ UNCHANGED <<vars, editor>>

\* The editor that is there takes up another table object: its drafts and
\* dialogs go and the state of its submission, which itself goes on.
Redrafted(fields) ==
  [Mount(fields) EXCEPT
     !.targets = editor.targets, !.loop = editor.loop, !.at = editor.at,
     !.job = editor.job, !.polls = editor.polls,
     !.request = IF editor.loop = "none" THEN <<>> ELSE editor.request]

ShowDetail ==
  /\ detail.fetch = "read"
  /\ detail' = [detail EXCEPT !.current = TRUE, !.outcome = "ready", !.fields = detail.read,
                              !.fetch = "none", !.read = NoSchema]
  /\ editor' = IF Mounted THEN Redrafted(detail.read) ELSE Mount(detail.read)
  /\ UNCHANGED vars

LoseDetail ==
  /\ detail.fetch # "none"
  /\ Fault("lose")
  /\ detail' = [detail EXCEPT !.current = TRUE, !.outcome = "error", !.fields = NoFields,
                              !.fetch = "none", !.read = NoSchema]
  /\ editor' = NoEditor
  /\ UNCHANGED dataVars

\* The table is asked for under another key: the request under way is
\* aborted, and what is shown now goes.
Reload == [detail EXCEPT !.current = FALSE, !.fetch = "asked", !.read = NoSchema]

RetryDetail ==
  /\ detail.open /\ detail.current /\ detail.outcome = "error"
  /\ detail' = Reload
  /\ UNCHANGED <<vars, editor>>

-----------------------------------------------------------------------------
(* Drafts *)

Locked == editor.status \in {"confirming", "submitting", "polling"}
CanEdit == Mounted /\ ~Locked
Kept(f) == detail.fields[f] # Absent /\ ~editor.drafts[f].removed

ChangeDraft(f, draft) ==
  /\ CanEdit /\ Kept(f) /\ detail.fields[f] # Relation
  /\ draft # editor.drafts[f]
  /\ Gesture
  /\ editor' = [editor EXCEPT !.drafts[f] = draft]
  /\ UNCHANGED <<dataVars, detail>>

ChangeType(f, type) == ChangeDraft(f, [editor.drafts[f] EXCEPT !.type = type])
ChangeConfig(f) == ChangeDraft(f, [editor.drafts[f] EXCEPT !.changed = TRUE])

AskRemoval(f) ==
  /\ CanEdit /\ Kept(f)
  /\ editor' = [editor EXCEPT !.candidate = f]
  /\ UNCHANGED <<vars, detail>>

\* The dialog is no part of the fieldset: a locked form does not disable it.
ConfirmRemoval ==
  /\ Mounted /\ editor.candidate # Nobody
  /\ Gesture
  /\ editor' = [editor EXCEPT !.drafts[editor.candidate].removed = TRUE, !.candidate = Nobody]
  /\ UNCHANGED <<dataVars, detail>>

CancelRemoval ==
  /\ Mounted /\ editor.candidate # Nobody
  /\ editor' = [editor EXCEPT !.candidate = Nobody]
  /\ UNCHANGED <<vars, detail>>

AddField(f, type) ==
  /\ CanEdit
  /\ Gesture
  /\ editor' = [editor EXCEPT !.new = Append(@, [field |-> f, type |-> type, chosen |-> FALSE])]
  /\ UNCHANGED <<dataVars, detail>>

DiscardField(n) ==
  /\ CanEdit /\ n \in DOMAIN editor.new
  /\ editor' = [editor EXCEPT !.new = RemoveAt(@, n)]
  /\ UNCHANGED <<vars, detail>>

\* The tables a relation may point at, read in the background; nothing shows
\* them before there is a relation to be added.
NewRelations == {n \in DOMAIN editor.new : editor.new[n].type = Relation}

LoadTargets ==
  /\ Mounted /\ editor.targets = "loading" /\ NewRelations # {}
  /\ \/ editor' = [editor EXCEPT !.targets = "ready"] /\ UNCHANGED world
     \/ Fault("lose") /\ editor' = [editor EXCEPT !.targets = "error"]
  /\ UNCHANGED <<dataVars, detail>>

RetryTargets ==
  /\ CanEdit /\ editor.targets = "error" /\ NewRelations # {}
  /\ editor' = [editor EXCEPT !.targets = "loading"]
  /\ UNCHANGED <<vars, detail>>

ChooseTarget(n) ==
  /\ CanEdit /\ editor.targets = "ready" /\ n \in NewRelations
  /\ editor' = [editor EXCEPT !.new[n].chosen = TRUE]
  /\ UNCHANGED <<vars, detail>>

-----------------------------------------------------------------------------
(* Submission *)

\* buildRequest(): removals and changes of the fields there are, additions.
DraftedEdits ==
  LET Edited(f) ==
        \/ editor.drafts[f].removed
        \/ detail.fields[f] # Relation /\ editor.drafts[f] # Draft(detail.fields[f])
      edited == SetToSeq({f \in FieldsOf(detail.fields) : Edited(f)})
      additions == editor.new
  IN  [n \in DOMAIN edited |->
         IF editor.drafts[edited[n]].removed
           THEN [op |-> "remove", field |-> edited[n], type |-> detail.fields[edited[n]]]
           ELSE [op |-> "modify", field |-> edited[n], type |-> editor.drafts[edited[n]].type]]
      \o [n \in DOMAIN additions |->
            [op |-> "add", field |-> additions[n].field, type |-> additions[n].type]]

DraftsAreValid ==
  /\ DraftedEdits # <<>>
  /\ \A n \in DOMAIN editor.new :
       /\ ~Kept(editor.new[n].field)
       /\ \A m \in 1 .. n - 1 : editor.new[m].field # editor.new[n].field
       /\ editor.new[n].type = Relation => editor.new[n].chosen

ChangesType ==
  \E f \in FieldsOf(detail.fields) : Kept(f) /\ editor.drafts[f].type # detail.fields[f]

\* The bound on jobs: a request is sent only if its job has a number.
Room == UnusedJobs > RequestsUnderWay

Sent(edits) ==
  [editor EXCEPT !.status = "submitting", !.request = edits, !.loop = "net",
                 !.job = 0, !.polls = 0, !.candidate = Nobody]

\* Nothing happens while an earlier submission is in flight, even if its state
\* has been reset.
CanSubmit == CanEdit /\ editor.loop = "none" /\ DraftsAreValid

Submit ==
  /\ CanSubmit
  /\ \/ ~ChangesType /\ Room /\ editor' = Sent(DraftedEdits)
     \/ ChangesType
          /\ editor' = [editor EXCEPT !.status = "confirming", !.request = DraftedEdits,
                                      !.candidate = Nobody]
  /\ UNCHANGED <<vars, detail>>

CancelChanges ==
  /\ editor.status = "confirming"
  /\ editor' = [editor EXCEPT !.status = "idle", !.request = <<>>]
  /\ UNCHANGED <<vars, detail>>

ConfirmChanges ==
  /\ editor.status = "confirming" /\ Room
  /\ editor' = Sent(editor.request)
  /\ UNCHANGED <<vars, detail>>

\* The submission ends with an error, whose code says "jobFailed" if that is
\* what its job did.
Ended(status) ==
  [editor EXCEPT !.status = status, !.request = <<>>, !.loop = "none", !.at = Nobody, !.polls = 0]

SendEdits(i) ==
  /\ editor.loop = "net"
  /\ ReceiveRequest(i, editor.request)
  /\ editor' = [editor EXCEPT !.loop = "served", !.at = i]
  /\ UNCHANGED detail

\* A request that cannot be built into steps is answered with a 400.
RefuseEdits ==
  /\ editor.loop = "net"
  /\ \E n \in DOMAIN editor.request : ~Buildable(editor.request[n])
  /\ editor' = Ended("error")
  /\ UNCHANGED <<vars, detail>>

\* What the editor makes of a step of the instance that serves its request:
\* the job has its number; the answer is that it has, or an error.
Served(i) ==
  IF jobs' # jobs THEN [editor EXCEPT !.job = CHOOSE j \in JobIds : jobs'[j] # jobs[j]]
  ELSE IF req'[i].pc # "idle" THEN editor
  ELSE IF editor.job # 0 THEN [editor EXCEPT !.status = "polling", !.loop = "poll", !.at = Nobody]
  ELSE Ended("error")

\* An instance goes on with the request it serves, which may be the editor's.
Serve(i) ==
  /\ Admission(i)
  /\ editor' = IF editor.at = i THEN Served(i) ELSE editor
  /\ UNCHANGED detail

Die(i) ==
  /\ Crash(i)
  /\ editor' = IF editor.at = i THEN Ended("error") ELSE editor
  /\ UNCHANGED detail

\* The request or its answer is lost, or a poll.
LoseAnswer ==
  /\ editor.loop # "none"
  /\ Fault("lose")
  /\ editor' = Ended("error")
  /\ UNCHANGED <<dataVars, detail>>

JobState == jobs[editor.job].state

\* A mutant: the request for the table that is under way is not aborted.
CompletedOverRequest ==
  /\ editor.loop = "poll" /\ JobState = "completed"
  /\ detail' = [detail EXCEPT !.current = FALSE, !.done = @ \union {editor.job},
                              !.fetch = IF @ = "read" THEN "read" ELSE "asked"]
  /\ editor' = NoEditor
  /\ UNCHANGED vars

\* onCompleted: the page reads the table anew, and the editor goes.
Completed ==
  /\ editor.loop = "poll" /\ JobState = "completed"
  /\ detail' = [Reload EXCEPT !.done = @ \union {editor.job}]
  /\ editor' = NoEditor
  /\ UNCHANGED vars

\* pollJob(): the job has failed, or has not ended yet.
PollJob ==
  /\ editor.loop = "poll" /\ JobState # "completed"
  /\ editor' = IF JobState = "failed" THEN Ended("jobFailed")
               ELSE IF editor.polls + 1 = MaxPolls THEN Ended("error")
               ELSE [editor EXCEPT !.status = "polling", !.polls = @ + 1]
  /\ UNCHANGED <<vars, detail>>

-----------------------------------------------------------------------------
(* The specification *)

\* Other clients leave the editor's request its number.
OthersRequest(i, edits) ==
  /\ UnusedJobs > RequestsUnderWay + IF editor.loop = "net" THEN 1 ELSE 0
  /\ ReceiveRequest(i, edits)
  /\ UNCHANGED <<detail, editor>>

Elsewhere ==
  /\ \/ \E i \in Instances : TakeJob(i) \/ Work(i)
     \/ \E i \in RowReaders \intersect world.instances : RowRequest(i)
     \/ \E j \in JobIds : PromoteJob(j)
     \/ Rest
  /\ UNCHANGED <<detail, editor>>

Use ==
  \/ OpenDetail \/ CloseDetail \/ RetryDetail
  \/ \E f \in Fields :
       \/ \E type \in world.choices : ChangeType(f, type)
       \/ ChangeConfig(f) \/ AskRemoval(f)
  \/ \E added \in world.additions : AddField(added[1], added[2])
  \/ ConfirmRemoval \/ CancelRemoval \/ RetryTargets
  \/ \E n \in DOMAIN editor.new : DiscardField(n) \/ ChooseTarget(n)
  \/ Submit \/ CancelChanges \/ ConfirmChanges

Answers == ReadDetail \/ ShowDetail \/ LoadTargets
Await == RefuseEdits \/ Completed \/ PollJob \/ \E i \in Instances : SendEdits(i)

EditorNext ==
  \/ Use \/ Answers \/ Await \/ LoseDetail \/ LoseAnswer
  \/ \E i \in Instances : Serve(i) \/ Die(i) \/ \E edits \in world.requests : OthersRequest(i, edits)
  \/ Elsewhere

\* A server answers what it is sent, and a page takes up what is due.
EditorFairness ==
  /\ WF_editorVars(Answers) /\ WF_editorVars(Await)
  /\ \A i \in Instances : WF_editorVars(Serve(i))
  /\ \A i \in Instances :
       /\ WF_editorVars(TakeJob(i) /\ UNCHANGED <<detail, editor>>)
       /\ WF_editorVars(Work(i) /\ UNCHANGED <<detail, editor>>)
  /\ WF_editorVars((\E j \in JobIds : PromoteJob(j)) /\ UNCHANGED <<detail, editor>>)

EditorSpec == EditorInit /\ [][EditorNext]_editorVars /\ EditorFairness

-----------------------------------------------------------------------------
(* Properties *)

DraftType == [type : Types \union {Absent}, changed : BOOLEAN, removed : BOOLEAN]

\* Types, and what holds the parts together: the page shows a table it has
\* read; an editor that is not there awaits nothing; one that awaits an answer
\* has its request, at an instance that is serving it if it has got there, and
\* one that polls has a job; a draft is removed of fields that exist only.
EditorTypeOK ==
  /\ TypeOK
  /\ detail \in [open : BOOLEAN, current : BOOLEAN, outcome : {"ready", "error"},
                 fields : Schema, fetch : {"none", "asked", "read"},
                 read : Schema \union {NoSchema}, done : SUBSET JobIds]
  /\ detail.fetch = "read" <=> detail.read # NoSchema
  /\ detail.fetch # "none" => detail.open
  /\ ~Mounted => editor = NoEditor
  /\ editor.drafts \in [Fields -> DraftType]
  /\ \A f \in Fields : editor.drafts[f].removed => detail.fields[f] # Absent
  /\ \A n \in DOMAIN editor.new :
       editor.new[n] \in [field : Fields, type : Types, chosen : BOOLEAN]
  /\ editor.candidate \in Fields \union {Nobody}
  /\ editor.targets \in {"loading", "ready", "error"}
  /\ editor.status \in {"idle", "confirming", "submitting", "polling", "error", "jobFailed"}
  /\ editor.request \in Seq(Edits)
  /\ editor.loop # "none" \/ editor.status = "confirming" <=> editor.request # <<>>
  /\ editor.loop = "served" =>
       req[editor.at].pc # "idle" /\ req[editor.at].edits = editor.request
  /\ editor.loop = "poll" => JobState # "none" /\ editor.polls < MaxPolls
  /\ editor.loop \in {"none", "net", "served", "poll"}

\* What a user is asked to approve is what the form shows: whatever dialogs
\* are open and whatever arrives, no edit that is on the screen is missing in
\* the request that an approval sends (the comments of submit()).
ApprovedIsShown == editor.status = "confirming" => editor.request = DraftedEdits

\* Once an edit of this editor has completed, no table without it is shown,
\* however the request for the table that its completion starts meets one that
\* was under way, unless others have edited the same field.
CompletedIsShown ==
  Mounted =>
    \A j \in detail.done, f \in Fields :
      Touches(jobs[j].edits, f) /\ (\A k \in Accepted \ {j} : ~Touches(jobs[k].edits, f)) =>
        LET last == jobs[j].edits[LastEditOf(f, jobs[j].edits)] IN
        detail.fields[f] = IF last.op = "remove" THEN Absent ELSE last.type

\* The editor tells the truth: about what it will send, what has been done, and
\* that a failure it reports of a job is the last word on that job.
EditorHolds ==
  /\ ApprovedIsShown
  /\ CompletedIsShown
  /\ editor.status = "jobFailed" => JobState = "failed"

\* A locked form is unlocked or goes, and a table that is asked for is shown or
\* gives way to an error, whatever fails.
EditorSettles ==
  /\ editor.loop # "none" ~> editor.loop = "none"
  /\ detail.fetch # "none" ~> detail.fetch = "none"

\* Every job and every editor comes to an end.
EverythingSettles == JobsSettle /\ EditorSettles
=============================================================================
