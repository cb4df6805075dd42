------------------------------ MODULE MCAccess ------------------------------
(* Small tenants for Access: the support desk, a user whose roles change,   *)
(* and administrators of the settings.                                      *)
EXTENDS Access

\* Two roles with a permission each.
OnePermEach == [x \in Roles |-> IF x = "clerk" THEN {"read"} ELSE {"manage"}]

World(calls, left, outside, roles, signedIn, agreed, named, time) ==
  [calls |-> calls, left |-> left, outside |-> outside, roles |-> roles,
   signedIn |-> signedIn,
   settings |-> IF agreed THEN {[f \in Fields |-> f = Consent \/ DEFAULT_SETTINGS[f]]}
                          ELSE {},
   named |-> named, time |-> time]

AllWorlds ==
  {World({"start", "end", "use"}, 4, Outside, {"clerk"}, FALSE, TRUE, {}, 4),
   World({"start", "use", "patch"}, 3, {}, {"clerk"}, FALSE, TRUE, {Consent}, 4),
   World({"refresh", "use", "updateUser"}, 3, {}, {"clerk"}, TRUE, FALSE, {}, 6),
   World({"login", "refresh", "use"}, 4, Outside, {"clerk"}, FALSE, FALSE, {}, 5),
   World({"patch", "page"}, 4, {}, {}, FALSE, FALSE, {Consent, "requireApproval"}, 0)}
=============================================================================
