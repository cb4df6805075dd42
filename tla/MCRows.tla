------------------------------- MODULE MCRows -------------------------------
(***************************************************************************)
(* Small instances of Rows: a table with a required text, a bool and an    *)
(* optional relation, two users, and in each world some of what may        *)
(* happen.                                                                 *)
(***************************************************************************)
EXTENDS RowQueries

MCUsers == {"ann", "bob"}
MCFields == {"title", "done", "link"}
MCSchema ==
  [f \in MCFields |->
    CASE f = "title" -> [kind |-> "text", required |-> TRUE, max |-> 2]
      [] f = "done" -> [kind |-> "bool", required |-> FALSE, max |-> 2]
      [] f = "link" -> [kind |-> "relation", required |-> FALSE, max |-> 9]]

Row(title, done, link) ==
  [f \in MCFields |-> CASE f = "title" -> title [] f = "done" -> done [] f = "link" -> link]

\* A whole row, parts of one with a value set, cleared or of another type, the
\* owner's column, and nothing the table has.
MCPayloads ==
  {Row(2, Null, 3), [f \in {"title"} |-> Null], [f \in {"title"} |-> Empty],
   [f \in {"done"} |-> WrongType], [f \in {"done"} |-> Null], [f \in {"owner", "link"} |->
     IF f = "owner" THEN "bob" ELSE 3], [f \in {"owner"} |-> "bob"], <<>>}

\* All rows, sorted by a field that does not tell them apart, the other way
\* round, those with no relation; and queries that are refused.
NoFilter == <<>>
Query(sortBy, descending, filters, pageSize) ==
  [sortBy |-> sortBy, descending |-> descending, filters |-> filters, pageSize |-> pageSize]
MCQueries ==
  {Query(Unsorted, FALSE, NoFilter, 1), Query("title", FALSE, NoFilter, 1),
   Query("link", TRUE, NoFilter, 1), Query("done", FALSE, [f \in {"link"} |-> Null], 2),
   Query(Unsorted, FALSE, NoFilter, 3), Query("rev", FALSE, NoFilter, 1),
   Query(Unsorted, FALSE, [f \in {"done"} |-> WrongType], 1)}

World(rs, kinds, left) == [users |-> MCUsers, rows |-> rs, kinds |-> kinds, left |-> left]
ReadWorld(users, rs, kinds, left) == [World(rs, kinds, left) EXCEPT !.users = users]

MCWorlds ==
  { \* edits of one row while other clients write and its relation goes
    World(<<Row(2, Null, 3)>>, {"edit", "api", "target"}, 2),
    \* an edit of a row that is deleted, lost answers
    World(<<Row(2, Null, 3)>>, {"edit", "delete", "lose"}, 2),
    \* new rows
    World(<<Row(2, No, Null)>>, {"create", "edit", "delete", "turn"}, 2),
    \* edits of two rows by one user, on two pages
    World(<<Row(2, No, Null), Row(2, Yes, 3)>>, {"edit", "turn"}, 2),
    \* pages turned while rows come and go
    World(<<Row(2, No, Null), Row(2, No, Null)>>, {"turn", "delete", "api"}, 2),
    \* readers of three and of four rows that have the same title
    ReadWorld({}, <<Row(2, No, Null), Row(2, Yes, 3), Row(2, Null, Null)>>, {"read", "lose", "api", "target"}, 2),
    ReadWorld({}, <<Row(2, No, Null), Row(2, Yes, 3), Row(2, Null, Null), Row(2, No, 3)>>, {"read"}, 1),
    \* a reader of two rows, one of which a user deletes
    ReadWorld({"ann"}, <<Row(2, No, Null), Row(2, Yes, 3)>>, {"read", "delete"}, 2) }
=============================================================================
