------------------------------ MODULE MCTables ------------------------------
(***************************************************************************)
(* Up to two pages and instances, two names, fields f1 and f2, three jobs. *)
(***************************************************************************)
EXTENDS Tables

CONSTANTS i1, i2, p1, p2, t1, t2, t3, f1, f2

World(is, ps, requests, njobs, max, boot, kinds, left) ==
  [instances |-> is, pages |-> ps, requests |-> requests, jobs |-> njobs, maxTables |-> max,
   bootstrapped |-> boot, kinds |-> kinds, left |-> left]

A == <<t1, {f1, f2}>>
B == <<t1, {f2}>>
C == <<t2, {f1}>>
E == <<t3, {f1}>>

MCWorlds ==
  { \* one job and whatever can go wrong with it
    World({i1}, {p1}, {A}, 1, 1, TRUE, {"ddl", "record", "crash", "edit", "network"}, 4),
    \* two jobs for one name on two workers
    World({i1, i2}, {p1}, {A, B}, 2, 2, TRUE, {"leave"}, 1),
    \* a schema without metadata tables
    World({i1}, {p1}, {A, B}, 2, 2, FALSE, {"leave", "crash"}, 2),
    World({i1, i2}, {p1}, {A}, 2, 2, FALSE, {"leave"}, 1),
    \* the limit
    World({i1}, {p1}, {A, C, E}, 3, 1, TRUE, {}, 0),
    World({i1}, {p1}, {A, C}, 2, 1, TRUE, {"leave"}, 1),
    World({i1}, {p1, p2}, {A, C}, 2, 1, TRUE, {}, 0),
    \* the catalog
    World({i1}, {p1}, {A, C}, 2, 2, TRUE, {"browse", "leave"}, 1) }
=============================================================================
