----------------------------- MODULE RowQueries -----------------------------
(***************************************************************************)
(* Reading the rows of a table as a whole: listRows() with its filters,    *)
(* sorting and pages and getRow(), for clients of the routes and for the   *)
(* select of a relation, which offers every row of the table it points at  *)
(* (loadRelationRows() of DynamicRowForm), while the rows of Rows change.  *)
(*                                                                         *)
(* The first page says how many there are; the others are then asked for   *)
(* at once, and each answers in two statements.  "quiet" says that no row  *)
(* has changed since the reader asked.  A query that names no field or a   *)
(* value of the wrong type, or asks for too large a page, is refused; what *)
(* is wrong in the text of a query is left out, and so are json fields.    *)
(***************************************************************************)
EXTENDS Rows

CONSTANTS
  Queries,          \* what the readers ask for
  MaxPageSize,      \* DYNAMIC_TABLES_MAX_PAGE_SIZE
  MaxRelationPages  \* MAX_RELATION_ROW_PAGES

Unsorted == "unsorted"

ASSUME QueriesAssumption ==
  /\ Unsorted \notin Fields
  /\ MaxPageSize \in Nat \ {0} /\ MaxRelationPages \in Nat \ {0}
  /\ \A q \in Queries :
       /\ q.descending \in BOOLEAN /\ q.pageSize \in Nat \ {0}
       /\ \A name \in DOMAIN q.filters : q.filters[name] \in Values

VARIABLE reading  \* what a reader has asked for and got

queryVars == <<vars, reading>>

NoReading == [pc |-> "idle", query |-> <<>>, calls |-> {}, total |-> 0,
              pages |-> <<>>, item |-> <<>>, quiet |-> TRUE]

QueriesInit == Init /\ reading = NoReading

-----------------------------------------------------------------------------
(* The server *)

\* resolveRowListQuery()
QueryErrs(query) ==
  \/ query.pageSize > MaxPageSize
  \/ query.sortBy \notin Fields \union {Unsorted}
  \/ \E name \in DOMAIN query.filters :
       \/ name \notin Fields
       \/ query.filters[name] = WrongType
       \/ query.filters[name] # Null /\ Rule(name).kind = "bool" /\ query.filters[name] \notin {No, Yes}

\* applyRowListFilters(): exact matches, and NULL for a null.
MatchesFilters(query, id) == \A f \in DOMAIN query.filters : rows[id].values[f] = query.filters[f]
Matching(query) == {id \in Present : MatchesFilters(query, id)}

\* Postgres puts NULL behind every other value.
SortKey(query, id) ==
  IF query.sortBy = Unsorted THEN Null
  ELSE IF rows[id].values[query.sortBy] = Null THEN WrongType + 1
  ELSE rows[id].values[query.sortBy]

\* ORDER BY the field and then the id.
ComesBefore(query, a, b) ==
  LET x == SortKey(query, a)
      y == SortKey(query, b) IN
  \/ IF query.descending THEN x > y ELSE x < y
  \/ x = y /\ a < b

\* buildRowQuery() and shapeRelationColumns(): a relation is the row it
\* points at, or null.
Resolved(id) ==
  [id |-> id,
   values |-> [f \in Fields |->
     IF Rule(f).kind = "relation" /\ rows[id].values[f] \notin targets
       THEN Null ELSE rows[id].values[f]]]

Excerpt(query, ids, number) ==
  LET last == number * query.pageSize
      part == SubSeq(ids, (number - 1) * query.pageSize + 1, IF last < Len(ids) THEN last ELSE Len(ids))
  IN  [n \in DOMAIN part |-> Resolved(part[n])]

\* A mutant: no id behind the field, so ties come in any order, and in another
\* one on another page.
FindRowsUntied(query, number) ==
  Excerpt(query,
          SetToSortSeq(Matching(query),
                       LAMBDA a, b :
                         LET x == SortKey(query, a)
                             y == SortKey(query, b) IN
                         \/ IF query.descending THEN x > y ELSE x < y
                         \/ x = y /\ IF number % 2 = 1 THEN a < b ELSE a > b),
          number)

FindRows(query, number) ==
  Excerpt(query, SetToSortSeq(Matching(query), LAMBDA a, b : ComesBefore(query, a, b)), number)

-----------------------------------------------------------------------------
(* The reader: loadRelationRows() *)

Call(number, what) == [number |-> number, what |-> what]
CallsFor(numbers) == [number : numbers, what : {"rows", "count"}]

Ask(query) ==
  /\ Spend("read")
  /\ reading' = [NoReading EXCEPT
                   !.pc = IF QueryErrs(query) THEN "refused" ELSE "first", !.query = query,
                   !.calls = IF QueryErrs(query) THEN {} ELSE CallsFor({1})]
  /\ UNCHANGED <<tableVars, page, form, save, del>>

PagesOf(total) ==
  LET all == (total + reading.query.pageSize - 1) \div reading.query.pageSize IN
  IF all = 0 THEN 1 ELSE all
LastPage(total) == IF PagesOf(total) < MaxRelationPages THEN PagesOf(total) ELSE MaxRelationPages

\* One of the two statements that answer the call for a page.
ReadStatement(call) ==
  LET found == IF call.what = "rows" THEN FindRows(reading.query, call.number) ELSE <<>>
      read == [reading EXCEPT
                 !.calls = @ \ {call},
                 !.pages = IF call.what = "rows" THEN (call.number :> found) @@ @ ELSE @,
                 !.total = IF call = Call(1, "count") THEN Cardinality(Matching(reading.query)) ELSE @]
      others == 2 .. LastPage(read.total) IN
  /\ call \in reading.calls
  /\ reading' =
       CASE read.calls # {} -> read
         [] reading.pc = "first" /\ others # {} -> [read EXCEPT !.pc = "rest", !.calls = CallsFor(others)]
         [] OTHER -> [read EXCEPT !.pc = "done"]
  /\ UNCHANGED vars

\* One of the calls fails, and with it the whole (Promise.all).
LoseReading ==
  /\ reading.calls # {}
  /\ Spend("lose")
  /\ reading' = [reading EXCEPT !.pc = "error", !.calls = {}, !.pages = <<>>]
  /\ UNCHANGED <<tableVars, page, form, save, del>>

\* The reader goes away, or its form is sent: submit() aborts what is read.
GiveUp ==
  /\ reading.pc # "idle"
  /\ reading' = NoReading
  /\ UNCHANGED vars

Truncated == PagesOf(reading.total) > LastPage(reading.total)
Items == FlattenSeq([n \in 1 .. LastPage(reading.total) |-> reading.pages[n]])

\* getRow() of a row that was listed: the row, or a 404.
GetRow(n) ==
  /\ reading.pc = "done" /\ n \in DOMAIN Items
  /\ LET id == Items[n].id IN
     reading' = [reading EXCEPT
       !.pc = IF id \in Present THEN "got" ELSE "missing",
       !.item = <<Items[n], IF id \in Present THEN Resolved(id) ELSE Items[n]>>]
  /\ UNCHANGED vars

-----------------------------------------------------------------------------
(* The specification *)

\* The rows go on as before, and "quiet" ends when one of them changes.
Elsewhere ==
  /\ Next
  /\ reading' = [reading EXCEPT !.quiet = @ /\ (reading.pc = "idle" \/ rows' = rows)]

QueriesNext ==
  \/ Elsewhere
  \/ \E query \in Queries : Ask(query)
  \/ \E call \in reading.calls : ReadStatement(call)
  \/ LoseReading \/ GiveUp
  \/ \E n \in 1 .. MaxRows : GetRow(n)

QueriesSpec == QueriesInit /\ [][QueriesNext]_queryVars /\ Fairness

-----------------------------------------------------------------------------
(* Properties *)

ItemType == [id : RowIds, values : Contents]

\* Types, those of Rows among them: a reading that awaits answers has calls,
\* one that is done has every page up to the last, and none is too large.
QueriesTypeOK ==
  /\ TypeOK
  /\ reading.pc \in {"idle", "first", "rest", "done", "error", "refused", "got", "missing"}
  /\ reading.pc \in {"first", "rest"} <=> reading.calls # {}
  /\ reading.pc \in {"done", "got", "missing"} => DOMAIN reading.pages = 1 .. LastPage(reading.total)
  /\ \A n \in DOMAIN reading.pages :
       reading.pages[n] \in Seq(ItemType) /\ Len(reading.pages[n]) <= MaxPageSize

\* Pages that are asked for at once and answered in any order make up a whole:
\* unless a row has changed meanwhile, they hold every row that the filters
\* ask for, once, up to the last page of a select that says it is truncated,
\* in the order asked for, and getRow() answers with the row that was listed
\* (the id behind the sorted field, MAX_RELATION_ROW_PAGES).
ReadingIsWhole ==
  reading.quiet /\ reading.pc \in {"done", "got", "missing"} =>
    LET ids == [n \in DOMAIN Items |-> Items[n].id]
        wanted == Matching(reading.query) IN
    /\ Len(ids) = Cardinality(ToSet(ids))
    /\ IF Truncated THEN Len(ids) = MaxRelationPages * reading.query.pageSize /\ ToSet(ids) \subseteq wanted
                    ELSE ToSet(ids) = wanted
    /\ \A id \in wanted \ ToSet(ids), n \in DOMAIN ids : ComesBefore(reading.query, ids[n], id)
    /\ \A m, n \in DOMAIN ids : m < n => ComesBefore(reading.query, ids[m], ids[n])
    /\ reading.pc # "missing"
    /\ reading.pc = "got" => reading.item[1] = reading.item[2]
=============================================================================
