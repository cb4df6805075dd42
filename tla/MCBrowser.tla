----------------------------- MODULE MCBrowser -----------------------------
(***************************************************************************)
(* Two accounts, two tabs, two page requests at a time, pairs 1..N.  Each  *)
(* world bounds what may happen in one behaviour.                          *)
(***************************************************************************)
EXTENDS Browser

World(kinds, left) == [kinds |-> kinds, left |-> left]

MCTokens == 1..7
MCWorlds ==
  { World({"call", "expire"}, 7),                         \* one session, long
    World({"call", "expire", "logout", "login"}, 5),      \* signing out and in
    World({"call", "expire", "change", "typo"}, 4),       \* the password page
    World({"call", "expire", "lose", "reload", "login"}, 4),
    World({"call", "expire", "revoke", "change", "login"}, 4),
    World({"call", "expire", "tab"}, 6),
    World({"call", "logout", "login", "reload", "typo"}, 4),
    World({"call", "tab", "logout", "login"}, 4) }
TypoWorlds == {World({"call", "expire", "typo"}, 3)}
=============================================================================
