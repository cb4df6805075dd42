-------------------------------- MODULE Rows --------------------------------
(***************************************************************************)
(* The rows of one dynamic table: DynamicTableRowsPage and DynamicRowForm  *)
(* in the browsers, RowsController and the row half of                     *)
(* DynamicTablesService behind them, and other clients of the same routes. *)
(*                                                                         *)
(* A page shows one page of the rows, read together with a count.  Its     *)
(* forms are filled from what the page shows and send every field; the     *)
(* server keeps the fields the table has and checks them.  An update and a *)
(* delete look the row up before they write; between the two, and between  *)
(* the list and the form, the row can change or go.                        *)
(*                                                                         *)
(* A value is a number: Null; for a "text" field Empty and longer ones;    *)
(* No and Yes for a "bool"; the id of a row of the related table for a     *)
(* "relation".  WrongType stands for a value of another type.              *)
(***************************************************************************)
EXTENDS Naturals, Sequences, FiniteSets, SequencesExt

CONSTANTS
  Users,      \* the users, each with a page of this table
  Fields,     \* the slugs of the table's fields
  Schema,     \* per field: its kind, whether it is required, and its max
  MaxRows,    \* bound on the number of rows ever inserted
  Targets,    \* the ids of the rows of the related table at first
  PageSize,   \* PAGE_SIZE of the page
  MaxTouched, \* bound on the fields a user changes in a form
  Payloads,   \* what other clients send
  Worlds      \* who is there, the rows at first, what may happen, how often

Null == 0
Empty == 1
No == 1
Yes == 2
WrongType == 9

Kinds == {"create", "edit", "delete", "target", "api", "turn", "lose", "read"}
RowIds == 1 .. MaxRows
Values == 0 .. 9
Slots == {"create", "edit"}
Contents == [Fields -> Values]

\* A row without an owner is not there.
Nobody == "nobody"
NoRow == [owner |-> Nobody, rev |-> 0, values |-> [f \in Fields |-> Null]]

ASSUME ConstantsAssumption ==
  /\ Schema \in [Fields -> [kind : {"text", "bool", "relation"},
                            required : BOOLEAN, max : Values]]
  /\ MaxRows \in Nat /\ PageSize \in Nat \ {0} /\ MaxTouched \in Nat
  /\ Targets \subseteq Values \ {Null, WrongType}
  /\ Nobody \notin Users
  /\ \A w \in Worlds :
       /\ w.users \subseteq Users
       /\ w.rows \in Seq(Contents) /\ w.kinds \subseteq Kinds /\ w.left \in Nat
       /\ Len(w.rows) + w.left <= MaxRows

VARIABLES
  rows,      \* the rows of the table
  targets,   \* the ids of the rows of the related table
  next,      \* the next id
  page,      \* per user, the page, with what the user has saved and removed
  form,      \* per user, the form for a new row and the one for a row
  save,      \* per user, the request either form has made
  del,       \* per user, the deletion under way
  world      \* the world, with what may still happen

tableVars == <<rows, targets, next>>
vars == <<tableVars, page, form, save, del, world>>

Rule(f) == Schema[f]
Present == {id \in RowIds : rows[id].owner # Nobody}

NoForm == [open |-> FALSE, id |-> 0, base |-> NoRow, values |-> NoRow.values,
           touched |-> {}, saving |-> FALSE]
Written(id, rev) == [id |-> id, rev |-> rev]
NoSave == [pc |-> "idle", id |-> 0, base |-> NoRow, touched |-> {},
           payload |-> NoRow.values, wrote |-> Written(0, 0)]
NoDelete == [pc |-> "idle", id |-> 0]
Loading == [todo |-> {"rows", "count"}, status |-> "loading", items |-> <<>>, total |-> 0]
NewPage == [number |-> 1, list |-> Loading, saved |-> Written(0, 0), removed |-> 0]
NoPage == [NewPage EXCEPT !.list = [Loading EXCEPT !.todo = {}, !.status = "ready"]]

Init ==
  /\ world \in Worlds
  /\ rows = [id \in RowIds |->
               IF id <= Len(world.rows)
                 THEN [owner |-> CHOOSE u \in Users : TRUE, rev |-> 1, values |-> world.rows[id]]
                 ELSE NoRow]
  /\ targets = Targets
  /\ next = Len(world.rows) + 1
  /\ page = [u \in Users |-> IF u \in world.users THEN NewPage ELSE NoPage]
  /\ form = [u \in Users |-> [s \in Slots |-> NoForm]]
  /\ save = [u \in Users |-> [s \in Slots |-> NoSave]]
  /\ del = [u \in Users |-> NoDelete]

\* Somebody does something of one kind, once more.
Spend(kind) ==
  /\ kind \in world.kinds
  /\ world.left > 0
  /\ world' = [world EXCEPT !.left = @ - 1]

-----------------------------------------------------------------------------
(* The server: pickKnownFields(), validateRowPayload() and the writes *)

\* checkFieldType() and checkFieldConstraints() of a value.
ValueErrs(f, v) ==
  \/ v = WrongType
  \/ Rule(f).kind = "text" /\ v > Rule(f).max
  \/ Rule(f).kind = "bool" /\ v \notin {No, Yes}

\* What is kept of a payload: a function from some of the fields to values.
PickKnownFields(payload) == [f \in Fields \intersect DOMAIN payload |-> payload[f]]

PayloadErrs(data, partial) ==
  \E f \in Fields :
    IF f \notin DOMAIN data THEN Rule(f).required /\ ~partial
    ELSE IF data[f] = Null THEN Rule(f).required
    ELSE ValueErrs(f, data[f])

\* The foreign keys of the relation columns refuse the data.
Dangling(data) ==
  \E f \in Fields \intersect DOMAIN data :
    Rule(f).kind = "relation" /\ data[f] \notin targets \union {Null}

Inserted(u, data) ==
  [owner |-> u, rev |-> 1,
   values |-> [f \in Fields |-> IF f \in DOMAIN data THEN data[f] ELSE Null]]

\* The columns in the data, the owner's among them if it were there.
Updated(row, data) ==
  [owner |-> IF "owner" \in DOMAIN data THEN data["owner"] ELSE row.owner, rev |-> row.rev + 1,
   values |-> [f \in Fields |-> IF f \in DOMAIN data THEN data[f] ELSE row.values[f]]]

\* createRow() and updateRow() once the row was found, id being 0 for a new
\* row.  The row can be gone by now: then no row is updated, which is no error.
WriteFails(id, payload) ==
  LET data == PickKnownFields(payload) IN
  \/ PayloadErrs(data, id # 0)
  \/ id # 0 /\ DOMAIN data = {}
  \/ id \in Present \union {0} /\ Dangling(data)

WriteRow(u, id, payload) ==
  LET data == PickKnownFields(payload) IN
  IF id = 0
    THEN rows' = [rows EXCEPT ![next] = Inserted(u, data)] /\ next' = next + 1
    ELSE /\ rows' = IF id \in Present THEN [rows EXCEPT ![id] = Updated(@, data)] ELSE rows
         /\ next' = next

FindRow(u) ==
  /\ save[u]["edit"].pc = "find"
  /\ save' = [save EXCEPT ![u]["edit"].pc = IF save[u]["edit"].id \in Present THEN "write" ELSE "error"]
  /\ UNCHANGED <<tableVars, page, form, del, world>>

Write(u, s) ==
  LET sv == save[u][s]
      id == IF sv.id = 0 THEN next ELSE sv.id IN
  /\ sv.pc = "write"
  /\ IF WriteFails(sv.id, sv.payload)
       THEN save' = [save EXCEPT ![u][s].pc = "error"] /\ UNCHANGED <<rows, next>>
       ELSE /\ WriteRow(u, sv.id, sv.payload)
            /\ save' = [save EXCEPT ![u][s].pc = "ok", ![u][s].wrote = Written(id, rows'[id].rev)]
  /\ UNCHANGED <<targets, page, form, del, world>>

\* The request or its answer gets lost.
Lose(u, s) ==
  /\ save[u][s].pc \in {"find", "write", "ok"}
  /\ Spend("lose")
  /\ save' = [save EXCEPT ![u][s].pc = "error"]
  /\ UNCHANGED <<tableVars, page, form, del>>

\* Another client of the routes creates or updates a row.
ApiWrite(u, id, payload) ==
  /\ Spend("api")
  /\ id \in Present \union {0}
  /\ ~WriteFails(id, payload)
  /\ WriteRow(u, id, payload)
  /\ UNCHANGED <<targets, page, form, save, del>>

\* A row of the related table is deleted: ON DELETE SET NULL, which a required
\* relation's column, being NOT NULL, refuses.
DeleteTarget(t) ==
  LET relations == {f \in Fields : Rule(f).kind = "relation"}
      Pointing(id) == {f \in relations : rows[id].values[f] = t} IN
  /\ t \in targets
  /\ \A id \in Present : \A f \in Pointing(id) : ~Rule(f).required
  /\ Spend("target")
  /\ targets' = targets \ {t}
  /\ rows' = [id \in RowIds |->
       IF id \in Present /\ Pointing(id) # {}
         THEN Updated(rows[id], [f \in Pointing(id) |-> Null]) ELSE rows[id]]
  /\ UNCHANGED <<next, page, form, save, del>>

-----------------------------------------------------------------------------
(* The list *)

\* A mutant: no LIMIT.
PageOfUnlimited(number) ==
  LET all == SetToSortSeq(Present, <)
      ids == SubSeq(all, (number - 1) * PageSize + 1, Len(all)) IN
  [n \in DOMAIN ids |-> [id |-> ids[n], row |-> rows[ids[n]]]]

\* listRows() for the page: by id, a page at a time.
PageOf(number) ==
  LET all == SetToSortSeq(Present, <)
      last == number * PageSize
      ids == SubSeq(all, (number - 1) * PageSize + 1, IF last < Len(all) THEN last ELSE Len(all)) IN
  [n \in DOMAIN ids |-> [id |-> ids[n], row |-> rows[ids[n]]]]

\* The rows effect: the two queries of listRows(), in either order.
ListRead(u, query) ==
  LET list == page[u].list
      left == list.todo \ {query}
      read == [list EXCEPT !.todo = left, !.status = IF left = {} THEN "ready" ELSE @] IN
  /\ query \in list.todo
  /\ page' = [page EXCEPT ![u].list =
       IF query = "rows" THEN [read EXCEPT !.items = PageOf(page[u].number)]
                         ELSE [read EXCEPT !.total = Cardinality(Present)]]
  /\ UNCHANGED <<tableVars, form, save, del, world>>

ListErr(u) ==
  /\ page[u].list.todo # {}
  /\ Spend("lose")
  /\ page' = [page EXCEPT ![u].list = [Loading EXCEPT !.todo = {}, !.status = "error"]]
  /\ UNCHANGED <<tableVars, form, save, del>>

\* The list is read anew, and an answer still under way ignored.
Refreshed(pg) == [pg EXCEPT !.list = Loading]

Retry(u) ==
  /\ page[u].list.status = "error"
  /\ page' = [page EXCEPT ![u] = Refreshed(@)]
  /\ UNCHANGED <<tableVars, form, save, del, world>>

TotalPages(list) == IF list.total = 0 THEN 1 ELSE (list.total + PageSize - 1) \div PageSize

TurnPage(u, number) ==
  LET list == page[u].list IN
  /\ list.status = "ready" /\ list.total > 0
  /\ \/ number = page[u].number - 1 /\ number >= 1
     \/ number = page[u].number + 1 /\ number <= TotalPages(list)
  /\ Spend("turn")
  /\ page' = [page EXCEPT ![u] = Refreshed([@ EXCEPT !.number = number])]
  /\ UNCHANGED <<tableVars, form, save, del>>

-----------------------------------------------------------------------------
(* The forms: DynamicRowForm *)

\* A mutant: the row a relation arrives as is not reduced to its id.
ShownWhole(f, v) ==
  CASE Rule(f).kind = "bool" /\ v # Yes -> No
    [] Rule(f).kind = "text" /\ v = Empty -> Null
    [] Rule(f).kind = "relation" -> Null
    [] OTHER -> v

\* initialValues(): what a form makes of a value, and sends if it is left
\* alone.  A relation arrives as the row it points at.
Shown(f, v) ==
  CASE Rule(f).kind = "bool" /\ v # Yes -> No
    [] Rule(f).kind = "text" /\ v = Empty -> Null
    [] OTHER -> v

Opened(id, row) ==
  [NoForm EXCEPT !.open = TRUE, !.id = id, !.base = row,
                 !.values = [f \in Fields |-> Shown(f, row.values[f])]]

\* The button for a new row, which also closes the form for a row.
OpenCreate(u) ==
  /\ ~form[u]["create"].open \/ form[u]["edit"].open
  /\ Spend("create")
  /\ form' = [form EXCEPT ![u] =
       [create |-> IF @["create"].open THEN @["create"] ELSE Opened(0, NoRow), edit |-> NoForm]]
  /\ UNCHANGED <<tableVars, page, save, del>>

\* The button in a row of the list.  A form open for another row gives way,
\* also while it saves.
OpenEdit(u, n) ==
  /\ page[u].list.status = "ready"
  /\ n \in DOMAIN page[u].list.items
  /\ LET item == page[u].list.items[n] IN
     /\ form[u]["edit"].id # item.id
     /\ form' = [form EXCEPT ![u]["edit"] = Opened(item.id, item.row)]
  /\ Spend("edit")
  /\ UNCHANGED <<tableVars, page, save, del>>

\* What the form's control offers: a text too long is not held back.
Offered(f) ==
  CASE Rule(f).kind = "text" -> {Null} \union (Empty + 1 .. Rule(f).max + 1)
    [] Rule(f).kind = "bool" -> {No, Yes}
    [] OTHER -> {Null} \union Targets

Change(u, s, f, v) ==
  /\ form[u][s].open /\ ~form[u][s].saving
  /\ f \notin form[u][s].touched /\ Cardinality(form[u][s].touched) < MaxTouched
  /\ form' = [form EXCEPT ![u][s].values[f] = v, ![u][s].touched = @ \union {f}]
  /\ UNCHANGED <<tableVars, page, save, del, world>>

\* buildPayload() sends every field and holds back a required one left empty.
Submit(u, s) ==
  LET fm == form[u][s] IN
  /\ fm.open /\ ~fm.saving
  /\ save[u][s].pc = "idle"
  /\ \A f \in Fields : Rule(f).required => fm.values[f] # Null
  /\ form' = [form EXCEPT ![u][s].saving = TRUE]
  /\ save' = [save EXCEPT ![u][s] =
       [pc |-> IF s = "create" THEN "write" ELSE "find", id |-> fm.id, base |-> fm.base,
        touched |-> fm.touched, payload |-> fm.values, wrote |-> Written(0, 0)]]
  /\ UNCHANGED <<tableVars, page, del, world>>

Cancel(u, s) ==
  /\ form[u][s].open /\ ~form[u][s].saving
  /\ form' = [form EXCEPT ![u][s] = NoForm]
  /\ UNCHANGED <<tableVars, page, save, del, world>>

\* onCompleted: the form in that place goes, whichever it is by now.
Saved(u, s) ==
  /\ save[u][s].pc = "ok"
  /\ form' = [form EXCEPT ![u][s] = NoForm]
  /\ page' = [page EXCEPT ![u] = [Refreshed(@) EXCEPT !.saved = save[u][s].wrote]]
  /\ save' = [save EXCEPT ![u][s] = NoSave]
  /\ UNCHANGED <<tableVars, del, world>>

\* A mutant: no finally, the form goes on saving.
SaveFailedForGood(u, s) ==
  /\ save[u][s].pc = "error"
  /\ save' = [save EXCEPT ![u][s] = NoSave]
  /\ UNCHANGED <<tableVars, page, form, del, world>>

\* The error is shown and the form can be sent again, or another form is in
\* its place, which is not saving.
SaveFailed(u, s) ==
  /\ save[u][s].pc = "error"
  /\ form' = [form EXCEPT ![u][s].saving = FALSE]
  /\ save' = [save EXCEPT ![u][s] = NoSave]
  /\ UNCHANGED <<tableVars, page, del, world>>

-----------------------------------------------------------------------------
(* Deletions: remove() and deleteRow() *)

RemoveRow(u, n) ==
  /\ page[u].list.status = "ready"
  /\ n \in DOMAIN page[u].list.items
  /\ del[u].pc = "idle"
  /\ Spend("delete")
  /\ del' = [del EXCEPT ![u] = [pc |-> "find", id |-> page[u].list.items[n].id]]
  /\ UNCHANGED <<tableVars, page, form, save>>

FindDeleted(u) ==
  /\ del[u].pc = "find"
  /\ del' = [del EXCEPT ![u].pc = IF del[u].id \in Present THEN "delete" ELSE "error"]
  /\ UNCHANGED <<tableVars, page, form, save, world>>

DeleteRow(u) ==
  /\ del[u].pc = "delete"
  /\ rows' = [rows EXCEPT ![del[u].id] = NoRow]
  /\ del' = [del EXCEPT ![u].pc = "ok"]
  /\ UNCHANGED <<targets, next, page, form, save, world>>

LoseDelete(u) ==
  /\ del[u].pc \in {"find", "delete", "ok"}
  /\ Spend("lose")
  /\ del' = [del EXCEPT ![u].pc = "error"]
  /\ UNCHANGED <<tableVars, page, form, save>>

\* After an error the page shows no list, unless one is still being read.
Removed(u) ==
  /\ del[u].pc \in {"ok", "error"}
  /\ page' = [page EXCEPT ![u] =
       IF del[u].pc = "ok" THEN [Refreshed(@) EXCEPT !.removed = del[u].id]
                           ELSE [@ EXCEPT !.list.status = "error"]]
  /\ del' = [del EXCEPT ![u] = NoDelete]
  /\ UNCHANGED <<tableVars, form, save, world>>

-----------------------------------------------------------------------------
(* The specification *)

SaveStep(u, s) == Write(u, s) \/ Saved(u, s) \/ SaveFailed(u, s)
DeleteStep(u) == FindDeleted(u) \/ DeleteRow(u) \/ Removed(u)

UserStep(u) ==
  \/ OpenCreate(u)
  \/ \E n \in 1 .. PageSize : OpenEdit(u, n) \/ RemoveRow(u, n)
  \/ \E s \in Slots : Submit(u, s) \/ Cancel(u, s) \/ Lose(u, s)
  \/ \E s \in Slots, f \in Fields : \E v \in Offered(f) : Change(u, s, f, v)
  \/ \E number \in 1 .. MaxRows : TurnPage(u, number)
  \/ Retry(u) \/ ListErr(u) \/ LoseDelete(u)

Next ==
  \/ \E u \in world.users :
       \/ UserStep(u) \/ FindRow(u) \/ DeleteStep(u)
       \/ \E s \in Slots : SaveStep(u, s)
       \/ \E query \in {"rows", "count"} : ListRead(u, query)
  \/ \E u \in Users, id \in 0 .. MaxRows, payload \in Payloads : ApiWrite(u, id, payload)
  \/ \E t \in Targets : DeleteTarget(t)

\* The server answers what it is sent and a page takes the answers up; users
\* need not do anything.
Fairness ==
  \A u \in Users :
    /\ WF_vars(FindRow(u)) /\ WF_vars(DeleteStep(u))
    /\ \A s \in Slots : WF_vars(SaveStep(u, s))
    /\ \A query \in {"rows", "count"} : WF_vars(ListRead(u, query))

Spec == Init /\ [][Next]_vars /\ Fairness

-----------------------------------------------------------------------------
(* Properties *)

RowType == [owner : Users \union {Nobody}, rev : Nat, values : Contents]
WrittenType == [id : 0 .. MaxRows, rev : Nat]

\* Types: rows, pages, forms and requests are what the code makes of them, a
\* request carries a value for every field, and an id is given out once.
TypeOK ==
  /\ rows \in [RowIds -> RowType]
  /\ targets \subseteq Targets
  /\ next \in 1 .. MaxRows + 1 /\ \A id \in Present : id < next
  /\ \A u \in Users :
       LET list == page[u].list IN
       /\ page[u].number \in Nat \ {0}
       /\ page[u].saved \in WrittenType /\ page[u].removed \in 0 .. MaxRows
       /\ list.todo \subseteq {"rows", "count"} /\ list.total \in Nat
       /\ list.status \in {"loading", "ready", "error"}
       /\ list.items \in Seq([id : RowIds, row : RowType]) /\ Len(list.items) <= PageSize
       /\ del[u] \in [pc : {"idle", "find", "delete", "ok", "error"}, id : 0 .. MaxRows]
       /\ \A s \in Slots :
            /\ form[u][s] \in [open : BOOLEAN, id : 0 .. MaxRows, base : RowType,
                               values : Contents, touched : SUBSET Fields, saving : BOOLEAN]
            /\ save[u][s] \in [pc : {"idle", "find", "write", "ok", "error"},
                               id : 0 .. MaxRows, base : RowType, touched : SUBSET Fields,
                               payload : Contents, wrote : WrittenType]

\* Whatever is sent, in full or in part, and whatever goes in the related
\* table: a row has every required field, values of the right type and size,
\* and relations that point at rows (validateRowPayload(), the foreign keys).
StoredRowsAreValid ==
  \A id \in Present :
    /\ ~PayloadErrs(rows[id].values, FALSE)
    /\ ~Dangling(rows[id].values)

\* No write but its deletion takes a row from the user who created it, not
\* even one that names the owner's column (pickKnownFields()).
OwnersStay ==
  [][\A id \in Present : rows'[id].owner \in {rows[id].owner, Nobody}]_vars

\* A form sends every field, but a field its user did not touch keeps its
\* value unless the row was changed since the form was filled; only an unset
\* bool becomes false and an empty text unset (initialValues()).
UntouchedFieldsAreKept ==
  [][\A u \in Users :
       LET sv == save[u]["edit"]
           old == rows[sv.id]
           new == rows'[sv.id] IN
       sv.pc = "write" /\ save'[u]["edit"].pc = "ok" /\ sv.id \in Present /\ old.rev = sv.base.rev =>
         \A f \in Fields \ sv.touched :
           \/ new.values[f] = old.values[f]
           \/ Rule(f).kind = "bool" /\ old.values[f] = Null /\ new.values[f] = No
           \/ Rule(f).kind = "text" /\ old.values[f] = Empty /\ new.values[f] = Null]_vars

\* The three together: a write changes what its user meant to change, and
\* leaves a row the table accepts.
WritesAreSound ==
  /\ []StoredRowsAreValid
  /\ OwnersStay
  /\ UntouchedFieldsAreKept

\* A list that is shown has the row its user saved last as it was saved or
\* later, and not the row the user deleted, however the answers of saves,
\* deletions and lists interleave (the refresh counter of the page).
PageShowsOwnChanges ==
  \A u \in Users :
    LET list == page[u].list IN
    list.status = "ready" =>
      \A n \in DOMAIN list.items :
        /\ list.items[n].id # page[u].removed
        /\ list.items[n].id = page[u].saved.id => list.items[n].row.rev >= page[u].saved.rev

\* A form that saves is answered and can be used again or goes, and a list
\* being read is shown or gives way to an error.
SavesSettle ==
  \A u \in Users :
    /\ \A s \in Slots : form[u][s].saving ~> ~form[u][s].saving
    /\ page[u].list.status = "loading" ~> page[u].list.status # "loading"

\* The two together: the page comes to show what its user has done.
PageFollowsItsUser == []PageShowsOwnChanges /\ SavesSettle
=============================================================================
