------------------------ MODULE MCOnboardingRequests ------------------------
(* One form, a client of the API, a list of tenants, and the failures to     *)
(* consider.                                                                 *)
EXTENDS TenantDirectory

\* Two payloads for one slug, and one for another.
MCSlug(p) == IF p = "other" THEN "b" ELSE "a"

\* By status, and a range of dates that is none.
MCFilters ==
  {[NoFilter EXCEPT !.status = "FAILED"],
   [NoFilter EXCEPT !.from = 2, !.to = 1]}

World(kinds, left, calls, asked, forms, asks) ==
  [kinds |-> kinds, left |-> left, calls |-> calls, asked |-> asked, forms |-> forms, asks |-> asks]

\* What fails in the request, and in the run of a job.
OfRequests == {"restart", "network", "queue", "invisible"}
OfRuns == {"job", "provisioning", "record", "timeout"}

\* A page alone, with failures of its requests and of the runs of its job; the
\* page with another client; two clients that race, without a page, and with
\* runs that overrun their time; a job that fails in many ways; a list of
\* tenants that is filtered, one whose calls fail, and one of two tenants.
AllWorlds ==
  {World(OfRequests \union {"provisioning"}, 2, 0, {}, {"basic"}, 0),
   World(OfRuns, 2, 0, {}, {"basic"}, 0),
   World({"queue", "invisible"}, 1, 1, {"basic", "other"}, {"basic"}, 0),
   World({"restart", "queue", "invisible", "provisioning"}, 1, 2, {"basic", "pro"}, {}, 0),
   World({"restart", "queue", "invisible", "provisioning"}, 3, 2, {"basic"}, {}, 0),
   World({"timeout"}, 1, 2, {"basic"}, {}, 0),
   World(OfRuns \union {"restart"}, 4, 1, {"basic"}, {}, 0),
   World({"provisioning"}, 1, 1, {"basic"}, {}, 2),
   World({"network"}, 1, 1, {"basic"}, {}, 1),
   World({}, 0, 2, {"basic", "other"}, {}, 1)}

=============================================================================
