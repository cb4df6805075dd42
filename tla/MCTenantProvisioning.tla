----------------------- MODULE MCTenantProvisioning -----------------------
(***************************************************************************)
(* The worlds the runs of TenantProvisioning explore: which disturbances   *)
(* may happen in a behaviour, and how many of them.                        *)
(***************************************************************************)
EXTENDS TenantProvisioning

World(kinds, left) == [kinds |-> kinds, left |-> left]

\* A step of the provisioning, or the creation of the tenant, throws;
\* processes die, and compensation and the audit fail too; the job times out
\* again and again; and anything at all.
AllWorlds ==
  {World({"step", "create"}, 4),
   World({"step", "crash", "compensation", "audit"}, 4),
   World({"timeout"}, 3),
   World(FaultKinds, 2)}

=============================================================================
