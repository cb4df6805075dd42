----------------------------- MODULE MCUserPages -----------------------------
(***************************************************************************)
(* Small instances of UserPages: one or two administrators, up to three    *)
(* members on pages of two, and in each world some of what may happen.     *)
(***************************************************************************)
EXTENDS UserPages

World(admins, members, invites, os, kinds, left, keywords, batch) ==
  [admins |-> admins, members |-> members, invites |-> invites, owners |-> os,
   kinds |-> kinds, left |-> left, keywords |-> keywords, batch |-> batch]

MCWorlds ==
  { \* two actions at once, lost answers
    World({"ann"}, <<"pending_approval", "active", "locked">>, <<>>, {}, {"act", "network"}, 3, {}, {}),
    \* filters, keywords and pages
    World({"ann"}, <<"active", "pending_approval", "active">>, <<>>, {}, {"act", "browse"}, 2, {{1}}, {}),
    \* deletions with a transfer of data, dialogs closed too early
    World({"ann"}, <<"active", "active", "locked">>, <<>>, {1}, {"delete"}, 2, {}, {}),
    World({"ann"}, <<"active", "deleted">>, <<>>, {}, {"delete", "browse", "network"}, 2, {}, {}),
    \* invitations sent, replaced, withdrawn, redeemed and expired
    World({"ann"}, <<"active">>, <<>>, {}, {"invite", "panel", "network"}, 2, {}, {1, 2}),
    World({"ann"}, <<"pending_invite">>, <<1, 1>>, {}, {"panel", "others"}, 2, {}, {}),
    World({"ann"}, <<"pending_invite">>, <<1>>, {}, {"panel", "delete", "others"}, 2, {}, {}),
    \* two administrators
    World({"ann", "bob"}, <<"active">>, <<>>, {}, {"act"}, 3, {}, {}),
    World({"ann", "bob"}, <<"pending_invite">>, <<1>>, {}, {"panel"}, 2, {}, {}) }
=============================================================================
