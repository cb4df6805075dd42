--------------------------- MODULE MCFieldEdits ---------------------------
(* Small instances of FieldEditor: one or two backend instances, up to      *)
(* three fields, the requests that other clients may send, and what a user  *)
(* of the field editor may do.                                              *)
EXTENDS FieldEditor

Edit1(op, field, type) == [op |-> op, field |-> field, type |-> type]

\* Two instances that edit fields, and one that serves row requests too.
OneInstance == {"a"}
TwoInstances == {"a", "b"}
RowReader == {"reader"}
AllInstances == TwoInstances \union RowReader

AllTypes == {"STRING", "TEXT", "NUMBER", "DATE", "DATETIME", "RELATION"}
\* Every type is assigned to one that is kept as text, and to itself.
AllAssignable == AllTypes \X {"STRING", "TEXT"} \union {<<t, t>> : t \in AllTypes}
                   \union {<<"DATE", "DATETIME">>, <<"DATETIME", "DATE">>}
AllColumns == {"f", "f__shadow", "g", "g__shadow", "h", "h__shadow"}
ThreeFields == {"f", "g", "h"}
ShadowOfThree == [x \in ThreeFields |-> CASE x = "f" -> "f__shadow"
                                           [] x = "g" -> "g__shadow"
                                           [] x = "h" -> "h__shadow"]

With(f, type) == [x \in ThreeFields |-> IF x = f THEN type ELSE "absent"]
Nothing == [x \in ThreeFields |-> "absent"]

\* Changes of type, one of which Postgres rejects once the field is a TEXT,
\* the removal of a field, and the way the code offers to change a field to
\* RELATION: remove it and add it again.
Changes == {<<Edit1("modify", "f", "TEXT")>>,
            <<Edit1("modify", "f", "NUMBER")>>,
            <<Edit1("remove", "f", "NUMBER")>>,
            <<Edit1("remove", "f", "STRING"), Edit1("add", "f", "RELATION")>>}
Removals == {<<Edit1("modify", "f", "TEXT")>>, <<Edit1("remove", "f", "STRING")>>}
Additions == {<<Edit1("add", x, "STRING")>> : x \in ThreeFields}

World(instances, initial, requests, n, limit, kinds, left) ==
  [instances |-> instances, initial |-> initial, requests |-> requests,
   jobs |-> n, maxFields |-> limit, kinds |-> kinds, left |-> left, choices |-> {}, additions |-> {},
   gestures |-> 0]

\* A world with an editor: one instance, the field f at first, and what others
\* may ask for.
EditorWorld(choices, additions, others, n, kinds, left, gestures) ==
  [World(OneInstance, With("f", "NUMBER"), others, n, 2, kinds, left) EXCEPT
     !.choices = choices, !.additions = additions, !.gestures = gestures]

\* Someone removes the field that is retyped in the editor, or replaces it by a
\* relation; an answer is lost, or the process; a relation is added.
Removed == {<<Edit1("remove", "f", "NUMBER")>>}
Replaced == {<<Edit1("remove", "f", "NUMBER"), Edit1("add", "f", "RELATION")>>}
EditorWorlds ==
  {EditorWorld({"TEXT"}, {}, Removed, 2, {}, 0, 4),
   EditorWorld({"TEXT"}, {}, Replaced, 2, {}, 0, 2),
   EditorWorld({"TEXT"}, {}, {}, 2, {"lose", "crash"}, 1, 4),
   EditorWorld({}, {<<"f", "RELATION">>, <<"g", "TEXT">>}, {}, 1, {"lose"}, 1, 4)}

\* One worker changes a field while steps and the process fail, or every
\* attempt at a step; two instances admit additions while the queue fails; one
\* serves row requests while the fields change.
ChangesAndAdmissions ==
  {World(OneInstance, With("f", "NUMBER"), Changes, 2, 2,
         {"ddl", "record", "metadata", "crash"}, 2),
   World(OneInstance, With("f", "NUMBER"), Changes, 2, 2, {"ddl"}, 3),
   World(TwoInstances, Nothing, Additions, 3, 1, {"enqueue"}, 1),
   World(RowReader, With("f", "NUMBER"), Changes, 2, 2, {"ddl", "metadata"}, 1)}
    \union EditorWorlds
OneRemoval == {World(OneInstance, With("f", "STRING"), Removals, 1, 2, {}, 0)}
=============================================================================
