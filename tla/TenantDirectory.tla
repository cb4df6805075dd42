--------------------------- MODULE TenantDirectory ---------------------------
(***************************************************************************)
(* The list of tenants: TenantsPage of apps/frontend and TenantsService    *)
(* .listTenants() behind it, over the tenants that OnboardingRequests      *)
(* creates, activates and compensates meanwhile.                           *)
(*                                                                         *)
(* The page asks again whenever the filters applied or its number become   *)
(* another value; React compares the filters by identity, so "of" says     *)
(* which edit made the object.  Rows and count are read together.  A call  *)
(* that is no longer the latest is aborted, but its answer may be on its   *)
(* way already.  Plan, actor, name and the attempt's status are left out;  *)
(* a date is the place of a tenant in the order of creation.               *)
(***************************************************************************)
EXTENDS OnboardingRequests, Sequences, SequencesExt

CONSTANTS
  Filters,  \* what the filters can hold: a status, a keyword, a range of dates
  PageSize  \* DEFAULT_PAGE_SIZE

NoChoice == "any"
NoDate == 0
NoFilter == [status |-> NoChoice, keyword |-> NoChoice, from |-> NoDate, to |-> NoDate]

ASSUME DirectoryAssumption ==
  /\ PageSize \in Nat \ {0}
  /\ Filters \subseteq
       [status : {NoChoice, "PROVISIONING", "ACTIVE", "FAILED"}, keyword : {NoChoice} \union Slugs,
        from : Nat, to : Nat]
  /\ \A w \in Worlds : w.asks \in Nat

VARIABLES
  born,   \* the slugs of the tenants in the order of their creation
  dir     \* the page, and its calls under way

directoryVars == <<vars, born, dir>>

-----------------------------------------------------------------------------
(* listTenants() *)

StatusOf(s) == tenant[s].status

CreatedAt(s) == CHOOSE n \in DOMAIN born : born[n] = s

\* The range ends before it begins: 400.
DateRangeInvalid(where) ==
  where.from # NoDate /\ where.to # NoDate /\ where.from > where.to

Matches(s, where) ==
  /\ where.status \in {NoChoice, StatusOf(s)}
  /\ where.keyword \in {NoChoice, s}
  /\ where.from # NoDate => CreatedAt(s) >= where.from
  /\ where.to # NoDate => CreatedAt(s) <= where.to

Matching(where) == {s \in {born[n] : n \in DOMAIN born} : Matches(s, where)}

\* The newest first, a page at a time: the tenants on a page are those after
\* which as many newer ones were created as the pages before it hold.
FindMany(where, number) ==
  LET newer(s) == Cardinality({t \in Matching(where) : CreatedAt(t) > CreatedAt(s)})
      skip == (number - 1) * PageSize
  IN  {[slug |-> s, status |-> StatusOf(s)] :
         s \in {m \in Matching(where) : newer(m) \in skip .. skip + PageSize - 1}}

-----------------------------------------------------------------------------
(* The page *)

NoList == [status |-> "loading", items |-> {}, total |-> 0, number |-> 1]
InitialFilters == [value |-> NoFilter, of |-> 0]

\* The effect: the list is loading, and a new call is the latest.
Asked(d) ==
  [d EXCEPT !.latest = @ + 1, !.list = NoList,
     !.calls = @ \union {[id |-> d.latest + 1, where |-> d.applied.value, number |-> d.number,
                          read |-> FALSE, items |-> {}, total |-> 0]}]

Closed == [filters |-> InitialFilters, applied |-> InitialFilters, number |-> 1,
           list |-> NoList, calls |-> {}, latest |-> 0, edits |-> 0, left |-> 0]

DirectoryInit ==
  /\ Init
  /\ born = <<>>
  /\ dir = IF world.asks = 0 THEN Closed ELSE Asked([Closed EXCEPT !.left = world.asks])

\* A user's action, of those the world allows.
Act(next) ==
  /\ dir.left > 0
  /\ dir' = [next EXCEPT !.left = @ - 1]
  /\ UNCHANGED <<vars, born>>

\* The filters applied and the number of the page become these: the effect
\* runs if one of them is another value.
Look(filters, applied, number) ==
  LET d == [dir EXCEPT !.filters = filters, !.applied = applied, !.number = number]
  IN  Act(IF applied = dir.applied /\ number = dir.number THEN d ELSE Asked(d))

SetFilter ==
  \E f \in Filters :
    Act([dir EXCEPT !.filters = [value |-> f, of |-> dir.edits + 1], !.edits = @ + 1])

ApplyFilters == Look(dir.filters, dir.filters, 1)
ResetFilters == Look(InitialFilters, InitialFilters, 1)

TotalPages == IF dir.list.total = 0 THEN 1 ELSE (dir.list.total + PageSize - 1) \div PageSize

TurnPage ==
  /\ dir.list.status = "ready" /\ dir.list.total > 0
  /\ \/ dir.list.number > 1 /\ Look(dir.filters, dir.applied, dir.number - 1)
     \/ dir.list.number < TotalPages /\ Look(dir.filters, dir.applied, dir.number + 1)

\* The server reads for call c, the rows and their number.
Query(c) ==
  /\ ~c.read /\ ~DateRangeInvalid(c.where)
  /\ dir' = [dir EXCEPT !.calls = (@ \ {c}) \union
       {[c EXCEPT !.read = TRUE, !.items = FindMany(c.where, c.number),
                  !.total = Cardinality(Matching(c.where))]}]
  /\ UNCHANGED <<vars, born>>

\* A mutant: an answer is taken whichever call it is for.
ShownWhenever(c, list) ==
  [dir EXCEPT !.calls = @ \ {c}, !.list = list]

\* What the page makes of an answer: it is shown if it is the latest call's.
Shown(c, list) ==
  [dir EXCEPT !.calls = @ \ {c}, !.list = IF c.id = dir.latest THEN list ELSE @]

\* An aborted call need not be answered.
Abandon(c) ==
  /\ c.id # dir.latest
  /\ dir' = [dir EXCEPT !.calls = @ \ {c}]
  /\ UNCHANGED <<vars, born>>

Receive(c) ==
  /\ c.read
  /\ dir' = Shown(c, [status |-> "ready", items |-> c.items, total |-> c.total,
                      number |-> c.number])
  /\ UNCHANGED <<vars, born>>

\* The filters are refused.
Refuse(c) ==
  /\ DateRangeInvalid(c.where)
  /\ dir' = Shown(c, [NoList EXCEPT !.status = "error"])
  /\ UNCHANGED <<vars, born>>

\* The call fails.
LoseList(c) ==
  /\ Fault("network")
  /\ dir' = Shown(c, [NoList EXCEPT !.status = "error"])
  /\ UNCHANGED <<dataVars, req, page, drawn, born>>

-----------------------------------------------------------------------------
\* The other actions, of which some create a tenant.
Onboard ==
  /\ Next
  /\ born' = born \o SetToSeq({s \in Slugs : tenant[s] = NoTenant /\ tenant'[s] # NoTenant})
  /\ dir' = dir

AnswerCall == \E c \in dir.calls : Query(c) \/ Receive(c) \/ Refuse(c)

DirectoryNext ==
  \/ Onboard
  \/ SetFilter \/ ApplyFilters \/ ResetFilters \/ TurnPage
  \/ AnswerCall
  \/ \E c \in dir.calls : Abandon(c) \/ LoseList(c)

\* The server answers, as for the other calls.
DirectorySpec ==
  /\ DirectoryInit /\ [][DirectoryNext]_directoryVars
  /\ Fairness
  /\ WF_directoryVars(AnswerCall)

-----------------------------------------------------------------------------
\* Types, those of OnboardingRequests among them: a tenant is created once,
\* and the calls of the page are told apart.
DirectoryTypeOK ==
  /\ TypeOK
  /\ {born[n] : n \in DOMAIN born} = {s \in Slugs : tenant[s] # NoTenant}
  /\ Len(born) = Cardinality({born[n] : n \in DOMAIN born})
  /\ dir.list.status \in {"loading", "ready", "error"}
  /\ Cardinality(dir.list.items) <= PageSize
  /\ \A c, d \in dir.calls : c.id = d.id => c = d
  /\ \A c \in dir.calls : c.id <= dir.latest

(* However answers of earlier filters and pages come in between: a list that *)
(* is shown is one of the page and under the filters that are applied, and   *)
(* while no such list is there its call is on its way (requestIdRef).        *)
DirectoryIsOfItsFilters ==
  LET list == dir.list IN
  /\ list.status = "ready" =>
       /\ list.number = dir.number
       /\ \A t \in list.items :
            /\ dir.applied.value.status \in {NoChoice, t.status}
            /\ dir.applied.value.keyword \in {NoChoice, t.slug}
  /\ list.status = "loading" /\ dir.latest > 0 =>
       \E c \in dir.calls : c.id = dir.latest /\ c.where = dir.applied.value /\ c.number = dir.number

=============================================================================
