----------------------------- MODULE Onboarding -----------------------------
(***************************************************************************)
(* What POST /super-admin/tenants promises its clients, whatever fails in  *)
(* between: an idempotency key is reserved for one payload for good; an    *)
(* answer that accepts a request, first or replayed, is given only when    *)
(* that key is reserved for that very payload and its provisioning has     *)
(* been scheduled; a refusal for a conflict only when it is reserved for   *)
(* another payload; a slug is given to one key for good, and its tenant is *)
(* never active again once it has FAILED; and provisioning has an outcome. *)
(*                                                                         *)
(* Success and "failed-needs-manual-cleanup" stand, unless a run of the    *)
(* job has overrun its time: then any of its runs may write anything once  *)
(* more.  A failure may be taken back by a retry that has its tenant; but  *)
(* that tenant has FAILED, so that no retry succeeds, unless a run has     *)
(* overrun its time or the tenant could not be marked.                     *)
(*                                                                         *)
(* OnboardingRequests is the code that keeps the promise.                  *)
(***************************************************************************)
CONSTANTS Keys, Payloads, Requests, Slug(_)

VARIABLES
  reserved,   \* the payload of each idempotency key
  scheduled,  \* the keys whose provisioning has been scheduled
  given,      \* the tenant of each slug: the key it was given to, its status
  outcome,    \* what has become of each key
  trouble,    \* what excuses it
  told        \* the answers on their way to the clients

contractVars == <<reserved, scheduled, given, outcome, trouble, told>>
clientVars == <<reserved, scheduled, told>>

Unreserved == "unreserved"
NotGiven == [of |-> "nothing", status |-> "none"]
Silence == "silence"
Outcomes == {"succeeded", "failed", "failed-needs-manual-cleanup"}
Troubles == {"overran", "unmarked"}
Acceptances == {"created", "replayed"}
Answers == Acceptances \union {"conflict", "refused", "error"}

ContractInit ==
  /\ reserved = [k \in Keys |-> Unreserved]
  /\ scheduled = {}
  /\ given = [s \in {Slug(p) : p \in Payloads} |-> NotGiven]
  /\ outcome = [k \in Keys |-> "none"]
  /\ trouble = [k \in Keys |-> {}]
  /\ told = [r \in Requests |-> Silence]

Reserve(k, p) ==
  /\ reserved[k] = Unreserved
  /\ reserved' = [reserved EXCEPT ![k] = p]
  /\ UNCHANGED <<scheduled, given, outcome, trouble, told>>

Schedule(k) ==
  /\ reserved[k] # Unreserved
  /\ scheduled' = scheduled \union {k}
  /\ UNCHANGED <<reserved, given, outcome, trouble, told>>

-----------------------------------------------------------------------------
(* Provisioning *)

TenantOf(k) == given[Slug(reserved[k])]
Overran(k) == "overran" \in trouble[k]
Pending(k) == outcome[k] = "none"
MayChange(k) == Pending(k) \/ Overran(k)

\* The tenant of k becomes t.
Becomes(k, t) ==
  /\ k \in scheduled
  /\ given' = [given EXCEPT ![Slug(reserved[k])] = [of |-> k, status |-> t]]
  /\ UNCHANGED <<clientVars, outcome, trouble>>

Give(k) ==
  /\ TenantOf(k) = NotGiven /\ MayChange(k)
  /\ Becomes(k, "PROVISIONING")

Activate(k) ==
  /\ TenantOf(k).of = k /\ TenantOf(k).status # "FAILED" /\ Pending(k)
  /\ Becomes(k, "ACTIVE")

Withdraw(k) ==
  /\ TenantOf(k).of = k /\ MayChange(k)
  /\ Becomes(k, "FAILED")

\* The outcome of k is written, by a run that may leave the tenant unmarked.
Settle(k, result) ==
  /\ k \in scheduled /\ MayChange(k)
  /\ result = "succeeded" =>
       /\ TenantOf(k).of = k
       /\ TenantOf(k).status \in {"ACTIVE"} \union (IF Overran(k) THEN {"FAILED"} ELSE {})
  /\ result = "failed" /\ TenantOf(k).of = k =>
       TenantOf(k).status = "FAILED" \/ trouble'[k] # {}
  /\ outcome' = [outcome EXCEPT ![k] = result]
  /\ \E t \in {trouble[k], trouble[k] \union {"unmarked"}} : trouble' = [trouble EXCEPT ![k] = t]
  /\ UNCHANGED <<clientVars, given>>

\* A retry takes a failure back.
Retry(k) ==
  /\ outcome[k] = "failed" /\ TenantOf(k).of = k
  /\ outcome' = [outcome EXCEPT ![k] = "none"]
  /\ UNCHANGED <<clientVars, given, trouble>>

Suffer(k, t) ==
  /\ k \in scheduled
  /\ trouble' = [trouble EXCEPT ![k] = @ \union {t}]
  /\ UNCHANGED <<clientVars, given, outcome>>

-----------------------------------------------------------------------------
(* Answers *)

Tell(r, k, p, answer) ==
  /\ told[r] = Silence
  /\ answer \in Acceptances => reserved[k] = p /\ k \in scheduled
  /\ answer = "conflict" => reserved[k] \notin {Unreserved, p}
  /\ told' = [told EXCEPT ![r] = answer]
  /\ UNCHANGED <<reserved, scheduled, given, outcome, trouble>>

\* Answers arrive or are lost.
Hear(S) ==
  /\ told' = [r \in Requests |-> IF r \in S THEN Silence ELSE told[r]]
  /\ UNCHANGED <<reserved, scheduled, given, outcome, trouble>>

ContractNext ==
  \/ \E k \in Keys, p \in Payloads : Reserve(k, p)
  \/ \E k \in Keys : Schedule(k) \/ Give(k) \/ Activate(k) \/ Withdraw(k) \/ Retry(k)
  \/ \E k \in Keys, result \in Outcomes : Settle(k, result)
  \/ \E k \in Keys, t \in Troubles : Suffer(k, t)
  \/ \E r \in Requests, k \in Keys, p \in Payloads, answer \in Answers : Tell(r, k, p, answer)
  \/ \E S \in SUBSET Requests : Hear(S)

ContractSpec == ContractInit /\ [][ContractNext]_contractVars

=============================================================================
