-------------------------- MODULE MembershipProofs --------------------------
(***************************************************************************)
(* What Membership guarantees for every number of requests, of members,    *)
(* of invitations, tokens and rows, and for every tenant: an invitation    *)
(* brings in one person, once, and only until it is withdrawn, a deletion  *)
(* hands over every row it finds, and what the races for seats and         *)
(* addresses let in stays bounded.                                         *)
(***************************************************************************)
EXTENDS LinkPages, FiniteSetTheorems, TLAPS

-----------------------------------------------------------------------------
(* The inductive invariant *)

Phases == {"idle", "count", "checkEmails", "insertMembers", "findMember",
           "consume", "insertInvite", "touch", "commit", "lockSource",
           "lockTarget", "transfer", "update", "remove"}

RequestTypes ==
  [pc : Phases, call : Calls \union {"none"}, batch : SUBSET Emails,
   status : Statuses, invite : {0} \union InviteIds, token : {0} \union TokenIds,
   member : {Nobody} \union MemberIds, target : {Nobody} \union MemberIds,
   others : SUBSET Nat, todo : SUBSET {"occupied", "invited"}, seats : Nat]

Histories ==
  [withdrawn : SUBSET MemberIds, claims : [MemberIds -> 0 .. 2],
   overlapped : BOOLEAN, signedIn : SUBSET MemberIds, late : SUBSET RowIds]

Types ==
  /\ \E w \in Worlds : world = [w EXCEPT !.left = world.left] /\ world.left \in 0 .. w.left
  /\ member \in [MemberIds -> Members]
  /\ invite \in [InviteIds -> Invites]
  /\ token \in [TokenIds -> Tokens]
  /\ owner \in [RowIds -> {Nobody} \union MemberIds]
  /\ req \in [Requests -> RequestTypes]
  /\ held \in [Requests -> SUBSET Locks]
  /\ history \in Histories

\* The First Admin that the tenant was provisioned with.
Founders == First(world, "pending_setup")

Admitting == {"createInvites", "directCreate", "selfRegister"}
OfInvite == {"resendInvite", "revokeInvite", "redeemInvite"}

\* Which call a request may be making where it stands, and what that call is
\* about.
Fits(q) ==
  /\ q.pc = "idle" => q = Idle
  /\ q.pc = "count" => q.call \in Admitting \union {"resendInvite"}
  /\ q.pc \in {"checkEmails", "insertMembers"} => q.call \in Admitting
  /\ q.pc = "findMember" => q.call = "redeemInvite"
  /\ q.pc = "consume" => q.call \in OfInvite \union {"redeemSetup"}
  /\ q.pc = "insertInvite" => q.call = "resendInvite"
  /\ q.pc = "touch" =>
       /\ q.call \in {"revokeInvite", "redeemInvite", "softDelete", "redeemSetup"}
       /\ q.member # Nobody
  /\ q.pc = "commit" =>
       q.call \in {"revokeInvite", "redeemInvite", "softDelete", "redeemSetup", "generate"}
  /\ q.pc \in {"lockSource", "lockTarget", "transfer", "update", "remove"} =>
       q.call = "hardDelete"
  /\ q.invite # 0 <=> q.call \in OfInvite
  /\ q.token # 0 <=> q.call = "redeemSetup"
  /\ q.call \in {"resendInvite", "redeemInvite", "softDelete", "hardDelete", "redeemSetup"}
       => q.member # Nobody
  /\ q.call \in Admitting => q.status \in {"pending_invite", "active", "pending_approval"}
  /\ q.call = "hardDelete" => q.target # q.member
  /\ q.pc = "lockTarget" => q.target # Nobody

\* The rows a request has locked, and what it has seen of them still holds.
Holds(r) ==
  LET q == req[r]
  IN  /\ q.pc = "idle" => held[r] = {}
      /\ q.invite # 0 /\ q.pc \in {"insertInvite", "touch", "commit"} =>
           InviteRow(q.invite) \in held[r] /\ Pending(q.invite)
      /\ q.token # 0 /\ q.pc \in {"touch", "commit"} =>
           TokenRow(q.token) \in held[r] /\ Redeemable(q.token)
      /\ q.pc = "commit" /\ q.member # Nobody =>
           Row(q.member) \in held[r] /\ Exists(q.member)
      /\ q.pc \in {"lockTarget", "transfer", "update", "remove"} =>
           Row(q.member) \in held[r] /\ Present(q.member)
      /\ q.pc \in {"transfer", "update", "remove"} /\ q.target # Nobody =>
           Row(q.target) \in held[r] /\ member[q.target].status = "active"
      /\ q.pc \in {"update", "remove"} =>
           /\ q.others \subseteq RowsOf(q.member)
           /\ \A x \in RowsOf(q.member) : x \in q.others \/ x \in history.late
           /\ q.target = Nobody => q.others = {}

\* What a request knows of its rows without a lock.
Knows(r) ==
  LET q == req[r]
  IN  /\ q.invite # 0 =>
           /\ invite[q.invite].state # "none"
           /\ invite[q.invite].member \in {Nobody, q.member}
           /\ q.member # Nobody /\ invite[q.invite].member = Nobody =>
                member[q.member].status = "removed"
           /\ q.member \notin Founders
      /\ q.token # 0 => token[q.token].made /\ q.member \in Founders
      /\ q.call = "generate" /\ ~history.overlapped =>
           \A t \in TokenIds : token[t].made /\ ~token[t].revoked => t \in q.others

RequestStands(r) == Fits(req[r]) /\ Holds(r) /\ Knows(r)

LocksApart == \A r, s \in Requests : r # s => held[r] \intersect held[s] = {}

\* Rows refer to rows that are there; the First Admin has no invitation.
RowsStand ==
  /\ \A i \in InviteIds :
       /\ invite[i].state = "none" => invite[i].member = Nobody
       /\ invite[i].member # Nobody =>
            Exists(invite[i].member) /\ invite[i].member \notin Founders
  /\ \A m \in MemberIds :
       /\ member[m].status = "pending_setup" => m \in Founders
       /\ m \in Founders => member[m].status # "none"
       /\ history.claims[m] > 0 => member[m].status # "none"

PendingIsAlone ==
  \A i, j \in InviteIds :
    /\ Pending(i) /\ Pending(j)
    /\ invite[i].member = invite[j].member /\ invite[i].member # Nobody
    => i = j

\* A member withdrawn or claimed has no invitation that could be redeemed.
DoorIsClosed ==
  /\ \A m \in MemberIds, i \in InviteIds :
       /\ m \in history.withdrawn \/ (history.claims[m] > 0 /\ m \notin Founders)
       /\ invite[i].member = m
       => ~Pending(i)
  /\ \A m \in history.withdrawn :
       m \notin Founders /\ member[m].status \in {"deleted", "removed"}

\* Unless two generate() overlap, one setup token works at a time, and none
\* that a request has read works once the First Admin is set up.
OneTokenWorks == \A t, u \in TokenIds : Redeemable(t) /\ Redeemable(u) => t = u

OneGenerates ==
  \A r, s \in Requests : req[r].call = "generate" /\ req[s].call = "generate" => r = s

ClaimedForGood ==
  \A m \in Founders : history.claims[m] > 0 =>
    /\ member[m].status # "pending_setup"
    /\ \A r \in Requests : req[r].token # 0 => ~Redeemable(req[r].token)

SetupIsOnce == ~history.overlapped => OneTokenWorks /\ OneGenerates /\ ClaimedForGood

MembershipInv ==
  /\ Types
  /\ \A r \in Requests : RequestStands(r)
  /\ LocksApart
  /\ RowsStand
  /\ PendingIsAlone
  /\ DoorIsClosed
  /\ SetupIsOnce
  /\ ClaimedOnce
  /\ OwnersExist

-----------------------------------------------------------------------------
(* The tenant *)

\* The First Admin does not change, and there is one.
LEMMA WorldFacts ==
  ASSUME Types
  PROVE  /\ Founders \subseteq MemberIds
         /\ \A m, n \in Founders : m = n
         /\ {"calls", "maxUsers", "members", "owning", "left"} \subseteq DOMAIN world
         /\ world.left \in Nat
<1> PICK w \in Worlds : world = [w EXCEPT !.left = world.left] /\ world.left \in 0 .. w.left
  BY DEF Types
<1>1. DOMAIN world = DOMAIN w /\ "members" \in DOMAIN w /\ "left" \in DOMAIN w
  BY ConstantsAssumption
<1>2. world.members = w.members
  BY <1>1
<1>3. w.left \in Nat
  BY ConstantsAssumption
<1>4. /\ {"calls", "maxUsers", "members", "owning", "left"} \subseteq DOMAIN w
      /\ \A m, n \in MemberIds :
           w.members[m].status = "pending_setup" /\ w.members[n].status = "pending_setup"
             => m = n
  BY ConstantsAssumption
<1>5. world.left \in Nat
  BY <1>3
<1> QED
  BY <1>1, <1>2, <1>4, <1>5 DEF Founders, First

LEMMA ArrivalsKeepTheWorld ==
  ASSUME Types, world.left > 0, world' = [world EXCEPT !.left = @ - 1]
  PROVE  /\ \E w \in Worlds : world' = [w EXCEPT !.left = world'.left] /\ world'.left \in 0 .. w.left
         /\ Founders' = Founders
<1> PICK w \in Worlds : world = [w EXCEPT !.left = world.left] /\ world.left \in 0 .. w.left
  BY DEF Types
<1>1. DOMAIN world = DOMAIN w /\ "members" \in DOMAIN w /\ "left" \in DOMAIN w
  BY ConstantsAssumption
<1>2. w.left \in Nat
  BY ConstantsAssumption
<1>3. world'.left = world.left - 1 /\ world'.members = world.members
  BY <1>1
<1>4. world' = [w EXCEPT !.left = world'.left]
  BY <1>1, <1>3
<1>5. world'.left \in 0 .. w.left
  BY <1>2, <1>3
<1> QED
  BY <1>3, <1>4, <1>5 DEF Founders, First

LEMMA WorldStays ==
  ASSUME UNCHANGED world
  PROVE  Founders' = Founders
BY DEF Founders, First

-----------------------------------------------------------------------------
(* Requests *)

LEMMA IdleType ==
  /\ Idle \in RequestTypes
  /\ Idle.pc = "idle" /\ Idle.call = "none" /\ Idle.invite = 0 /\ Idle.token = 0
  /\ Idle.member = Nobody /\ Idle.target = Nobody
BY DEF Idle, RequestTypes, Phases, Calls, Statuses, Nobody

\* A step of request r leaves the other requests and their locks alone.
Moves(r, next, locks) ==
  /\ req' = [req EXCEPT ![r] = next]
  /\ held' = [held EXCEPT ![r] = locks]

LEMMA MoveType ==
  ASSUME Types, NEW r \in Requests, NEW next \in RequestTypes, NEW locks \in SUBSET Locks,
         Moves(r, next, locks)
  PROVE  /\ req' \in [Requests -> RequestTypes] /\ held' \in [Requests -> SUBSET Locks]
         /\ req'[r] = next /\ held'[r] = locks
         /\ \A s \in Requests : s # r => req'[s] = req[s] /\ held'[s] = held[s]
BY DEF Types, Moves

LEMMA GotoMoves ==
  ASSUME Types, NEW r \in Requests, NEW pc \in Phases, Goto(r, pc)
  PROVE  /\ req' = [req EXCEPT ![r] = [req[r] EXCEPT !.pc = pc]]
         /\ [req[r] EXCEPT !.pc = pc] \in RequestTypes
<1>1. req[r] \in RequestTypes
  BY DEF Types
<1>2. [req[r] EXCEPT !.pc = pc] \in RequestTypes
  BY <1>1 DEF RequestTypes
<1> QED
  BY <1>2 DEF Goto

LEMMA EndMoves ==
  ASSUME NEW r \in Requests, End(r)
  PROVE  Moves(r, Idle, {})
BY DEF End, Moves

LEMMA IdleStands ==
  ASSUME NEW r \in Requests, req'[r] = Idle, held'[r] = {}
  PROVE  RequestStands(r)'
BY DEF RequestStands, Fits, Holds, Knows, Idle, Nobody, OfInvite, Admitting

-----------------------------------------------------------------------------
(* Steps of a request that write no row *)

\* Request r goes on from where it stands, with the locks it has and those
\* it takes, which nobody else has, or ends.
Advances(r, next, locks) ==
  /\ next \in RequestTypes /\ locks \in SUBSET Locks
  /\ Moves(r, next, locks)
  /\ \A s \in Requests : s # r => held[s] \intersect locks = {}
  /\ next.call = "generate" => req[r].call = "generate"
  /\ next.token # 0 =>
       \/ next.token = req[r].token
       \/ \E m \in Founders : member[m].status = "pending_setup"

LEMMA AdvancingKeeps ==
  ASSUME MembershipInv, NEW r \in Requests, NEW next, NEW locks,
         Advances(r, next, locks), RequestStands(r)',
         UNCHANGED <<rows, history>>, Founders' = Founders,
         \E w \in Worlds : world' = [w EXCEPT !.left = world'.left] /\ world'.left \in 0 .. w.left
  PROVE  MembershipInv'
<1>1. /\ req'[r] = next /\ held'[r] = locks
      /\ \A s \in Requests : s # r => req'[s] = req[s] /\ held'[s] = held[s]
  BY MoveType DEF Advances, MembershipInv
<1>2. /\ UNCHANGED <<member, invite, token, owner, history>>
  BY DEF rows
<1>3. Types'
  BY <1>2, MoveType DEF Advances, MembershipInv, Types
<1>4. ASSUME NEW s \in Requests PROVE RequestStands(s)'
  <2>1. CASE s = r
    BY <2>1
  <2>2. CASE s # r
    <3>1. RequestStands(s) /\ req'[s] = req[s] /\ held'[s] = held[s]
      BY <1>1, <2>2 DEF MembershipInv
    <3>2. Holds(s)'
      BY <1>2, <3>1 DEF RequestStands, Holds, Pending, Redeemable, Exists, Present, RowsOf
    <3>3. Knows(s)'
      BY <1>2, <3>1 DEF RequestStands, Knows
    <3> QED
      BY <3>1, <3>2, <3>3 DEF RequestStands
  <2> QED
    BY <2>1, <2>2
<1>5. LocksApart'
  BY <1>1 DEF Advances, MembershipInv, LocksApart
<1>6. RowsStand' /\ PendingIsAlone' /\ DoorIsClosed' /\ ClaimedOnce' /\ OwnersExist'
  BY <1>2 DEF MembershipInv, RowsStand, PendingIsAlone, DoorIsClosed, ClaimedOnce, OwnersExist,
              Exists, Pending
<1>7. SetupIsOnce'
  <2> SUFFICES ASSUME ~history.overlapped PROVE OneTokenWorks' /\ OneGenerates' /\ ClaimedForGood'
    BY <1>2 DEF SetupIsOnce
  <2>1. OneTokenWorks'
    BY <1>2 DEF MembershipInv, SetupIsOnce, OneTokenWorks, Redeemable
  <2>2. OneGenerates'
    BY <1>1 DEF MembershipInv, SetupIsOnce, OneGenerates, Advances
  <2>3. ASSUME NEW m \in Founders, history.claims[m] > 0
        PROVE  /\ member[m].status # "pending_setup"
               /\ \A q \in Requests : req'[q].token # 0 => ~Redeemable(req'[q].token)
    <3>1. /\ member[m].status # "pending_setup"
          /\ \A q \in Requests : req[q].token # 0 => ~Redeemable(req[q].token)
      BY <2>3 DEF MembershipInv, SetupIsOnce, ClaimedForGood
    <3>2. \A n \in Founders : n = m
      BY WorldFacts DEF MembershipInv
    <3>3. next.token # 0 => next.token = req[r].token
      BY <3>1, <3>2 DEF Advances
    <3> QED
      BY <1>1, <3>1, <3>3
  <2> QED
    BY <1>2, <2>1, <2>2, <2>3 DEF ClaimedForGood, Redeemable
<1> QED
  BY <1>3, <1>4, <1>5, <1>6, <1>7 DEF MembershipInv

\* A step that takes no lock and leaves the tenant, the rows and the history.
LEMMA SteppingKeeps ==
  ASSUME MembershipInv, NEW r \in Requests, NEW next \in RequestTypes,
         req' = [req EXCEPT ![r] = next], RequestStands(r)',
         next.call = req[r].call, next.token = req[r].token,
         UNCHANGED <<world, rows, held, history>>
  PROVE  MembershipInv'
<1>1. Moves(r, next, held[r])
  BY DEF Moves, MembershipInv, Types
<1>2. held[r] \in SUBSET Locks
  BY DEF MembershipInv, Types
<1>3. \A s \in Requests : s # r => held[s] \intersect held[r] = {}
  BY DEF MembershipInv, LocksApart
<1>4. Advances(r, next, held[r])
  BY <1>1, <1>2, <1>3 DEF Advances
<1>5. \E w \in Worlds : world' = [w EXCEPT !.left = world'.left] /\ world'.left \in 0 .. w.left
  BY DEF MembershipInv, Types
<1>6. Founders' = Founders
  BY WorldStays
<1> QED
  BY <1>4, <1>5, <1>6, AdvancingKeeps

LEMMA RollbackKeeps ==
  ASSUME MembershipInv, NEW r \in Requests, Rollback(r)
  PROVE  MembershipInv'
<1>1. Moves(r, Idle, {})
  BY EndMoves DEF Rollback
<1>2. Advances(r, Idle, {})
  BY <1>1, IdleType DEF Advances, Idle
<1>3. RequestStands(r)'
  BY <1>1, <1>2, MoveType, IdleStands DEF MembershipInv, Advances
<1>4. \E w \in Worlds : world' = [w EXCEPT !.left = world'.left] /\ world'.left \in 0 .. w.left
  BY DEF MembershipInv, Types, Rollback
<1>5. Founders' = Founders
  BY WorldStays DEF Rollback
<1> QED
  BY <1>2, <1>3, <1>4, <1>5, AdvancingKeeps DEF Rollback

\* A step that locks what its statement needs.
LEMMA LockingKeeps ==
  ASSUME MembershipInv, NEW r \in Requests, NEW next \in RequestTypes,
         req' = [req EXCEPT ![r] = next], RequestStands(r)',
         next.call = req[r].call, next.token = req[r].token,
         NEW locks \in SUBSET Locks, Free(r, locks), Lock(r, locks),
         UNCHANGED <<world, rows, history>>
  PROVE  MembershipInv'
<1>1. Moves(r, next, held[r] \union locks)
  BY DEF Moves, Lock
<1>2. held[r] \union locks \in SUBSET Locks
  BY DEF MembershipInv, Types
<1>3. \A s \in Requests : s # r => held[s] \intersect (held[r] \union locks) = {}
  BY DEF MembershipInv, LocksApart, Free
<1>4. Advances(r, next, held[r] \union locks)
  BY <1>1, <1>2, <1>3 DEF Advances
<1>5. \E w \in Worlds : world' = [w EXCEPT !.left = world'.left] /\ world'.left \in 0 .. w.left
  BY DEF MembershipInv, Types
<1>6. Founders' = Founders
  BY WorldStays
<1> QED
  BY <1>4, <1>5, <1>6, AdvancingKeeps

\* A call arrives: it holds no lock, and knows what it is about.
LEMMA BeginKeeps ==
  ASSUME MembershipInv, NEW r \in Requests, NEW call \in Calls \ {"generate"},
         NEW next \in RequestTypes, Begin(r, call, next),
         next.pc \in {"count", "findMember", "consume", "touch", "lockSource"},
         next.pc = "touch" => call = "softDelete",
         Fits([next EXCEPT !.call = call]),
         next.token # 0 => \E m \in Founders : member[m].status = "pending_setup",
         Knows(r)'
  PROVE  MembershipInv'
<1> DEFINE q == [next EXCEPT !.call = call]
<1>1. q \in RequestTypes /\ q.pc = next.pc /\ q.call = call /\ q.token = next.token
  BY DEF RequestTypes
<1>2. held[r] = {}
  BY DEF Begin, Arrives, MembershipInv, RequestStands, Holds
<1>3. Moves(r, q, {})
  BY <1>2 DEF Moves, Begin, MembershipInv, Types
<1>4. Advances(r, q, {})
  BY <1>1, <1>3 DEF Advances
<1>5. req'[r] = q /\ held'[r] = {}
  BY <1>1, <1>3, MoveType DEF MembershipInv
<1>6. Holds(r)'
  <2>1. next.pc = "touch" => q.invite = 0 /\ q.token = 0
    BY <1>1 DEF Fits, OfInvite
  <2> QED
    BY <1>1, <1>5, <2>1 DEF Holds
<1>7. RequestStands(r)'
  BY <1>5, <1>6 DEF RequestStands
<1>8. /\ \E w \in Worlds : world' = [w EXCEPT !.left = world'.left] /\ world'.left \in 0 .. w.left
      /\ Founders' = Founders
  BY ArrivalsKeepTheWorld DEF Begin, Arrives, MembershipInv
<1> QED
  BY <1>4, <1>7, <1>8, AdvancingKeeps DEF Begin

LEMMA AdmitKeeps ==
  ASSUME MembershipInv, NEW r \in Requests, NEW call \in Admitting,
         NEW batch \in SUBSET Emails,
         NEW status \in {"pending_invite", "active", "pending_approval"},
         Admit(r, call, batch, status)
  PROVE  MembershipInv'
<1> DEFINE q == [Idle EXCEPT !.batch = batch, !.status = status]
<1>0. /\ q \in RequestTypes /\ q.status = status
      /\ q.call = "none" /\ q.invite = 0 /\ q.token = 0 /\ q.member = Nobody
  BY IdleType DEF RequestTypes, Statuses, SeatHolding
<1> HIDE DEF q
<1>1. /\ Counting(q).pc = "count" /\ Counting(q).status = status
      /\ Counting(q).call = "none" /\ Counting(q).invite = 0 /\ Counting(q).token = 0
      /\ Counting(q).member = Nobody
  BY <1>0 DEF Counting, RequestTypes
<1>2. Counting(q) \in RequestTypes
  BY <1>0 DEF Counting, RequestTypes, Phases
<1> DEFINE next == Counting(q)
<1> HIDE DEF next
<1>3. Fits([next EXCEPT !.call = call])
  BY <1>1, <1>2 DEF next, Fits, Admitting, OfInvite, RequestTypes
<1>4. call \in Calls \ {"generate"}
  BY DEF Calls, Admitting
<1>5. Begin(r, call, next)
  BY DEF Admit, next, q
<1>6. req'[r] = [next EXCEPT !.call = call]
  BY <1>5 DEF Begin, MembershipInv, Types
<1>7. Knows(r)'
  BY <1>1, <1>2, <1>6 DEF next, Knows, Admitting, RequestTypes
<1> QED
  BY <1>1, <1>2, <1>3, <1>4, <1>5, <1>7, BeginKeeps DEF next

LEMMA ResendInviteKeeps ==
  ASSUME MembershipInv, NEW r \in Requests, ResendInvite(r)
  PROVE  MembershipInv'
<1> PICK i \in InviteIds :
      /\ Pending(i) /\ invite[i].member # Nobody
      /\ LET q == [Idle EXCEPT !.invite = i, !.member = invite[i].member]
         IN  Begin(r, "resendInvite",
                   IF invite[i].expired THEN Counting(q) ELSE [q EXCEPT !.pc = "consume"])
  BY DEF ResendInvite
<1> DEFINE q == [Idle EXCEPT !.invite = i, !.member = invite[i].member]
           next == IF invite[i].expired THEN Counting(q) ELSE [q EXCEPT !.pc = "consume"]
<1>1. /\ next.pc \in {"count", "consume"} /\ next.invite = i /\ next.member = invite[i].member
      /\ next.token = 0 /\ next.target = Nobody /\ next.call = "none"
      /\ next.todo \in SUBSET {"occupied", "invited"}
      /\ next = [pc |-> next.pc, call |-> "none", batch |-> {}, status |-> "none",
                 invite |-> i, token |-> 0, member |-> invite[i].member, target |-> Nobody,
                 others |-> {}, todo |-> next.todo, seats |-> 0]
  BY DEF Counting, Idle
<1>2. /\ i # 0 /\ i \in Nat
      /\ invite[i].member \in {Nobody} \union MemberIds
      /\ invite[i].state = "pending"
  BY DEF MembershipInv, Types, Invites, InviteIds, Pending
<1> HIDE DEF next
<1>3. next \in RequestTypes
  BY <1>1, <1>2 DEF RequestTypes, Phases, Statuses
<1>4. /\ [next EXCEPT !.call = "resendInvite"].pc = next.pc
      /\ [next EXCEPT !.call = "resendInvite"].call = "resendInvite"
      /\ [next EXCEPT !.call = "resendInvite"].invite = i
      /\ [next EXCEPT !.call = "resendInvite"].token = 0
      /\ [next EXCEPT !.call = "resendInvite"].member = invite[i].member
  BY <1>1, <1>3 DEF RequestTypes
<1>5. Fits([next EXCEPT !.call = "resendInvite"])
  BY <1>1, <1>2, <1>4 DEF Fits, Admitting, OfInvite
<1>6. Begin(r, "resendInvite", next)
  BY DEF next
<1>7. req'[r] = [next EXCEPT !.call = "resendInvite"] /\ UNCHANGED <<member, invite, token>>
  BY <1>6 DEF Begin, MembershipInv, Types, rows
<1>8. Founders' = Founders
  BY <1>6, ArrivalsKeepTheWorld DEF Begin, Arrives, MembershipInv
<1>9. invite[i].member \notin Founders
  BY DEF MembershipInv, RowsStand
<1>10. Knows(r)'
  BY <1>2, <1>4, <1>7, <1>8, <1>9 DEF Knows
<1>11. "resendInvite" \in Calls \ {"generate"}
  BY DEF Calls
<1> QED
  BY <1>1, <1>3, <1>5, <1>6, <1>10, <1>11, BeginKeeps

\* A call about an invitation that is pending.
LEMMA InviteCallKeeps ==
  ASSUME MembershipInv, NEW r \in Requests, NEW i \in InviteIds, Pending(i),
         NEW call \in {"revokeInvite", "redeemInvite"}, NEW pc \in {"consume", "findMember"},
         pc = "findMember" => call = "redeemInvite",
         call = "redeemInvite" => invite[i].member # Nobody,
         Begin(r, call, [Idle EXCEPT !.pc = pc, !.invite = i, !.member = invite[i].member])
  PROVE  MembershipInv'
<1> DEFINE next == [Idle EXCEPT !.pc = pc, !.invite = i, !.member = invite[i].member]
<1>1. /\ i # 0 /\ i \in Nat
      /\ invite[i].member \in {Nobody} \union MemberIds
      /\ invite[i].state = "pending"
  BY DEF MembershipInv, Types, Invites, InviteIds, Pending
<1>2. /\ next \in RequestTypes /\ next.pc = pc /\ next.invite = i
      /\ next.member = invite[i].member /\ next.token = 0 /\ next.target = Nobody
      /\ next.call = "none"
  BY <1>1, IdleType DEF RequestTypes, Phases
<1>3. Begin(r, call, next)
  OBVIOUS
<1> HIDE DEF next
<1> DEFINE q == [next EXCEPT !.call = call]
<1>4. /\ q.pc = pc /\ q.call = call /\ q.invite = i /\ q.token = 0
      /\ q.member = invite[i].member
  BY <1>2 DEF RequestTypes
<1>5. Fits(q)
  BY <1>1, <1>4 DEF Fits, Admitting, OfInvite
<1>6. req'[r] = q /\ UNCHANGED <<member, invite, token>>
  BY <1>3 DEF Begin, MembershipInv, Types, rows
<1>7. Founders' = Founders
  BY <1>3, ArrivalsKeepTheWorld DEF Begin, Arrives, MembershipInv
<1>8. invite[i].member \notin Founders
  <2>1. CASE invite[i].member = Nobody
    BY <2>1, WorldFacts DEF MembershipInv, MemberIds, Nobody
  <2>2. CASE invite[i].member # Nobody
    BY <2>2 DEF MembershipInv, RowsStand
  <2> QED
    BY <2>1, <2>2
<1>9. Knows(r)'
  BY <1>1, <1>4, <1>6, <1>7, <1>8 DEF Knows
<1>10. call \in Calls \ {"generate"}
  BY DEF Calls
<1> QED
  BY <1>2, <1>3, <1>5, <1>9, <1>10, BeginKeeps

\* softDelete() or hardDelete() of a member who is there.
LEMMA DeletionKeeps ==
  ASSUME MembershipInv, NEW r \in Requests,
         NEW call \in {"softDelete", "hardDelete"}, NEW pc \in {"touch", "lockSource"},
         pc = "touch" <=> call = "softDelete",
         NEW m \in MemberIds, NEW n \in {Nobody} \union MemberIds, n # m,
         NEW next \in RequestTypes, next.pc = pc, next.member = m, next.target = n,
         next.call = "none", next.invite = 0, next.token = 0,
         Begin(r, call, next)
  PROVE  MembershipInv'
<1> DEFINE q == [next EXCEPT !.call = call]
<1>3. /\ q.pc = pc /\ q.call = call /\ q.invite = 0 /\ q.token = 0
      /\ q.member = m /\ q.target = n
  BY DEF RequestTypes
<1>4. Fits(q)
  BY <1>3 DEF Fits, Admitting, OfInvite, MemberIds, Nobody
<1>5. req'[r] = q
  BY DEF Begin, MembershipInv, Types
<1>6. Knows(r)'
  BY <1>3, <1>5 DEF Knows
<1>7. call \in Calls \ {"generate"}
  BY DEF Calls
<1> QED
  BY <1>3, <1>4, <1>6, <1>7, BeginKeeps

LEMMA RedeemSetupTokenKeeps ==
  ASSUME MembershipInv, NEW r \in Requests, RedeemSetupToken(r)
  PROVE  MembershipInv'
<1> PICK t \in TokenIds, m \in MemberIds :
      /\ Redeemable(t)
      /\ member[m].status = "pending_setup"
      /\ Begin(r, "redeemSetup", [Idle EXCEPT !.pc = "consume", !.token = t, !.member = m])
  BY DEF RedeemSetupToken
<1> DEFINE next == [Idle EXCEPT !.pc = "consume", !.token = t, !.member = m]
<1>1. /\ next \in RequestTypes /\ next.pc = "consume" /\ next.invite = 0
      /\ next.member = m /\ next.token = t /\ next.target = Nobody
      /\ next.call = "none"
  BY IdleType DEF RequestTypes, Phases
<1>2. Begin(r, "redeemSetup", next)
  OBVIOUS
<1> HIDE DEF next
<1> DEFINE q == [next EXCEPT !.call = "redeemSetup"]
<1>3. /\ q.pc = "consume" /\ q.call = "redeemSetup" /\ q.invite = 0 /\ q.token = t
      /\ q.member = m
  BY <1>1 DEF RequestTypes
<1>4. Fits(q)
  BY <1>3 DEF Fits, Admitting, OfInvite, MemberIds, TokenIds, Nobody
<1>5. req'[r] = q /\ UNCHANGED token
  BY <1>2 DEF Begin, MembershipInv, Types, rows
<1>6. Founders' = Founders
  BY <1>2, ArrivalsKeepTheWorld DEF Begin, Arrives, MembershipInv
<1>7. m \in Founders
  BY DEF MembershipInv, RowsStand
<1>8. Knows(r)'
  BY <1>3, <1>5, <1>6, <1>7 DEF Knows, Redeemable
<1>9. "redeemSetup" \in Calls \ {"generate"}
  BY DEF Calls
<1> QED
  BY <1>1, <1>2, <1>4, <1>7, <1>8, <1>9, BeginKeeps

LEMMA GenerateSetupLinkKeeps ==
  ASSUME MembershipInv, NEW r \in Requests, GenerateSetupLink(r)
  PROVE  MembershipInv'
<1> DEFINE others == {t \in TokenIds : token[t].made /\ ~token[t].revoked}
           next == [Idle EXCEPT !.pc = "commit", !.call = "generate", !.others = others]
<1>1. /\ next \in RequestTypes /\ next.pc = "commit" /\ next.call = "generate"
      /\ next.invite = 0 /\ next.token = 0 /\ next.member = Nobody /\ next.others = others
  <2>1. others \in SUBSET Nat
    BY DEF TokenIds
  <2> HIDE DEF others
  <2> QED
    BY <2>1, IdleType DEF RequestTypes, Phases, Calls
<1>2. /\ req' = [req EXCEPT ![r] = next] /\ UNCHANGED <<member, invite, token, owner, held>>
      /\ held[r] = {}
      /\ history' = [history EXCEPT !.overlapped =
                       @ \/ \E s \in Requests : req[s].call = "generate"]
  BY DEF GenerateSetupLink, Arrives, rows, MembershipInv, RequestStands, Holds
<1> HIDE DEF next
<1>3. Moves(r, next, {})
  BY <1>2 DEF Moves, MembershipInv, Types
<1>4. /\ req' \in [Requests -> RequestTypes] /\ held' \in [Requests -> SUBSET Locks]
      /\ req'[r] = next /\ \A s \in Requests : s # r => req'[s] = req[s]
  BY <1>1, <1>3, MoveType DEF MembershipInv
<1>5. /\ history' \in Histories /\ history'.withdrawn = history.withdrawn
      /\ history'.claims = history.claims
      /\ ~history'.overlapped =>
           ~history.overlapped /\ \A s \in Requests : req[s].call # "generate"
  BY <1>2 DEF MembershipInv, Types, Histories
<1>6. /\ \E w \in Worlds : world' = [w EXCEPT !.left = world'.left] /\ world'.left \in 0 .. w.left
      /\ Founders' = Founders
  BY ArrivalsKeepTheWorld DEF GenerateSetupLink, Arrives, MembershipInv
<1>7. Types'
  BY <1>2, <1>4, <1>5, <1>6 DEF MembershipInv, Types
<1>8. ASSUME NEW s \in Requests PROVE RequestStands(s)'
  <2>1. CASE s = r
    <3>1. Fits(next)
      BY <1>1 DEF Fits, OfInvite, Admitting
    <3>2. Holds(r)'
      BY <1>1, <1>4 DEF Holds
    <3>3. Knows(r)'
      BY <1>1, <1>2, <1>4 DEF Knows
    <3> QED
      BY <1>4, <2>1, <3>1, <3>2, <3>3 DEF RequestStands
  <2>2. CASE s # r
    <3>1. RequestStands(s) /\ req'[s] = req[s] /\ held' = held
      BY <1>2, <1>4, <2>2 DEF MembershipInv
    <3>2. Holds(s)'
      BY <1>2, <3>1 DEF RequestStands, Holds, Pending, Redeemable, Exists, Present, RowsOf
    <3>3. Knows(s)'
      BY <1>2, <1>5, <1>6, <3>1 DEF RequestStands, Knows
    <3> QED
      BY <3>1, <3>2, <3>3 DEF RequestStands
  <2> QED
    BY <2>1, <2>2
<1>9. LocksApart' /\ RowsStand' /\ PendingIsAlone' /\ DoorIsClosed' /\ OwnersExist' /\ ClaimedOnce'
  BY <1>2, <1>5, <1>6 DEF MembershipInv, LocksApart, RowsStand, PendingIsAlone, DoorIsClosed,
       OwnersExist, ClaimedOnce, Exists, Pending
<1>10. SetupIsOnce'
  <2> SUFFICES ASSUME ~history'.overlapped
               PROVE  OneTokenWorks' /\ OneGenerates' /\ ClaimedForGood'
    BY DEF SetupIsOnce
  <2>1. OneTokenWorks /\ ClaimedForGood
    BY <1>5 DEF MembershipInv, SetupIsOnce
  <2>2. OneTokenWorks'
    BY <1>2, <2>1 DEF OneTokenWorks, Redeemable
  <2>3. OneGenerates'
    BY <1>4, <1>5 DEF OneGenerates
  <2>4. ClaimedForGood'
    BY <1>1, <1>2, <1>4, <1>5, <1>6, <2>1 DEF ClaimedForGood, Redeemable
  <2> QED
    BY <2>2, <2>3, <2>4
<1> QED
  BY <1>7, <1>8, <1>9, <1>10 DEF MembershipInv

LEMMA CallKeeps ==
  ASSUME MembershipInv, NEW r \in Requests, Call(r)
  PROVE  MembershipInv'
<1>1. CASE CreateInvites(r)
  BY <1>1, AdmitKeeps DEF CreateInvites, Admitting
<1>2. CASE DirectCreate(r)
  BY <1>2, AdmitKeeps DEF DirectCreate, Admitting
<1>3. CASE Register(r)
  BY <1>3, AdmitKeeps DEF Register, Admitting
<1>4. CASE ResendInvite(r)
  BY <1>4, ResendInviteKeeps
<1>5. CASE RevokeInvite(r)
  BY <1>5, InviteCallKeeps DEF RevokeInvite
<1>6. CASE RedeemInvite(r)
  BY <1>6, InviteCallKeeps DEF RedeemInvite
<1>7. CASE SoftDelete(r)
  <2> PICK m \in MemberIds : Begin(r, "softDelete", [Idle EXCEPT !.pc = "touch", !.member = m])
    BY <1>7 DEF SoftDelete
  <2> DEFINE next == [Idle EXCEPT !.pc = "touch", !.member = m]
  <2>1. /\ next \in RequestTypes /\ next.pc = "touch" /\ next.member = m
        /\ next.target = Nobody /\ next.call = "none" /\ next.invite = 0 /\ next.token = 0
    BY IdleType DEF RequestTypes, Phases
  <2>2. Begin(r, "softDelete", next) /\ m # Nobody
    BY DEF MemberIds, Nobody
  <2> HIDE DEF next
  <2> QED
    BY <2>1, <2>2, DeletionKeeps
<1>8. CASE HardDelete(r)
  <2> PICK m \in MemberIds, n \in MemberIds \union {Nobody} :
        n # m /\ Begin(r, "hardDelete",
                       [Idle EXCEPT !.pc = "lockSource", !.member = m, !.target = n])
    BY <1>8 DEF HardDelete
  <2> DEFINE next == [Idle EXCEPT !.pc = "lockSource", !.member = m, !.target = n]
  <2>1. /\ next \in RequestTypes /\ next.pc = "lockSource" /\ next.member = m
        /\ next.target = n /\ next.call = "none" /\ next.invite = 0 /\ next.token = 0
    BY IdleType DEF RequestTypes, Phases
  <2>2. Begin(r, "hardDelete", next)
    OBVIOUS
  <2> HIDE DEF next
  <2> QED
    BY <2>1, <2>2, DeletionKeeps
<1>9. CASE GenerateSetupLink(r)
  BY <1>9, GenerateSetupLinkKeeps
<1>10. CASE RedeemSetupToken(r)
  BY <1>10, RedeemSetupTokenKeeps
<1> QED
  BY <1>1, <1>2, <1>3, <1>4, <1>5, <1>6, <1>7, <1>8, <1>9, <1>10 DEF Call

-----------------------------------------------------------------------------
(* How a request proceeds without writing *)

\* What a request knows does not depend on where it stands.
LEMMA KnowledgeStays ==
  ASSUME MembershipInv, NEW r \in Requests, NEW next \in RequestTypes, req'[r] = next,
         next.call = req[r].call, next.invite = req[r].invite, next.token = req[r].token,
         next.member = req[r].member,
         next.call = "generate" => next.others = req[r].others,
         UNCHANGED <<world, rows, history>>
  PROVE  Knows(r)'
<1>1. Knows(r) /\ UNCHANGED <<member, invite, token>> /\ Founders' = Founders
  BY WorldStays DEF MembershipInv, RequestStands, rows
<1> QED
  BY <1>1 DEF Knows

LEMMA GotoKeeps ==
  ASSUME MembershipInv, NEW r \in Requests, NEW pc \in Phases, Goto(r, pc),
         Fits([req[r] EXCEPT !.pc = pc]), Holds(r)',
         UNCHANGED <<world, rows, held, history>>
  PROVE  MembershipInv'
<1> DEFINE next == [req[r] EXCEPT !.pc = pc]
<1>1. req' = [req EXCEPT ![r] = next] /\ next \in RequestTypes
  BY GotoMoves DEF MembershipInv
<1>2. /\ next.call = req[r].call /\ next.invite = req[r].invite /\ next.token = req[r].token
      /\ next.member = req[r].member /\ next.others = req[r].others
  BY DEF MembershipInv, Types, RequestTypes
<1>3. req'[r] = next
  BY <1>1 DEF MembershipInv, Types
<1> HIDE DEF next
<1>4. Knows(r)'
  BY <1>1, <1>2, <1>3, KnowledgeStays
<1>5. RequestStands(r)'
  BY <1>3, <1>4 DEF next, RequestStands
<1> QED
  BY <1>1, <1>2, <1>5, SteppingKeeps

\* The same, with locks taken.
LEMMA LockAndGotoKeeps ==
  ASSUME MembershipInv, NEW r \in Requests, NEW pc \in Phases, Goto(r, pc),
         Fits([req[r] EXCEPT !.pc = pc]), Holds(r)',
         NEW locks \in SUBSET Locks, Free(r, locks), Lock(r, locks),
         UNCHANGED <<world, rows, history>>
  PROVE  MembershipInv'
<1> DEFINE next == [req[r] EXCEPT !.pc = pc]
<1>1. req' = [req EXCEPT ![r] = next] /\ next \in RequestTypes
  BY GotoMoves DEF MembershipInv
<1>2. /\ next.call = req[r].call /\ next.invite = req[r].invite /\ next.token = req[r].token
      /\ next.member = req[r].member /\ next.others = req[r].others
  BY DEF MembershipInv, Types, RequestTypes
<1>3. req'[r] = next
  BY <1>1 DEF MembershipInv, Types
<1> HIDE DEF next
<1>4. Knows(r)'
  BY <1>1, <1>2, <1>3, KnowledgeStays
<1>5. RequestStands(r)'
  BY <1>3, <1>4 DEF next, RequestStands
<1> QED
  BY <1>1, <1>2, <1>5, LockingKeeps

\* Where a request is when it has gone on, and what it has locked.
LEMMA GotoFields ==
  ASSUME MembershipInv, NEW r \in Requests, NEW pc \in Phases, Goto(r, pc)
  PROVE  /\ req'[r].pc = pc /\ req'[r].call = req[r].call
         /\ req'[r].invite = req[r].invite /\ req'[r].token = req[r].token
         /\ req'[r].member = req[r].member /\ req'[r].target = req[r].target
         /\ req'[r].status = req[r].status
         /\ req'[r] = [req[r] EXCEPT !.pc = pc]
BY DEF Goto, MembershipInv, Types, RequestTypes

\* A statement locks what it needs.
LEMMA WantsType ==
  ASSUME MembershipInv, NEW r \in Requests
  PROVE  /\ req[r].pc = "consume" /\ req[r].call \in OfInvite =>
              Wants(r) = {InviteRow(req[r].invite)} /\ Wants(r) \in SUBSET Locks
         /\ req[r].pc = "consume" /\ req[r].call = "redeemSetup" =>
              Wants(r) = {TokenRow(req[r].token)} /\ Wants(r) \in SUBSET Locks
         /\ req[r].pc = "touch" =>
              Wants(r) = {Row(req[r].member)} /\ Wants(r) \in SUBSET Locks
         /\ req[r].pc = "lockSource" =>
              Wants(r) = {Row(req[r].member), Key(req[r].member)} /\ Wants(r) \in SUBSET Locks
         /\ req[r].pc = "lockTarget" /\ req[r].target # Nobody =>
              Wants(r) = {Row(req[r].target), Key(req[r].target)} /\ Wants(r) \in SUBSET Locks
<1>1. req[r] \in RequestTypes /\ Fits(req[r])
  BY DEF MembershipInv, Types, RequestStands
<1>2. /\ req[r].invite # 0 => req[r].invite \in InviteIds
      /\ req[r].token # 0 => req[r].token \in TokenIds
      /\ req[r].member # Nobody => req[r].member \in MemberIds
      /\ req[r].target # Nobody => req[r].target \in MemberIds
  BY <1>1 DEF RequestTypes
<1>3. ASSUME req[r].pc = "consume", req[r].call \in OfInvite
      PROVE  Wants(r) = {InviteRow(req[r].invite)} /\ Wants(r) \in SUBSET Locks
  <2>1. Wants(r) = {InviteRow(req[r].invite)}
    BY <1>3 DEF Wants, OfInvite
  <2>2. req[r].invite \in InviteIds
    BY <1>1, <1>2, <1>3 DEF Fits
  <2> QED
    BY <2>1, <2>2 DEF Locks
<1>4. ASSUME req[r].pc = "consume", req[r].call = "redeemSetup"
      PROVE  Wants(r) = {TokenRow(req[r].token)} /\ Wants(r) \in SUBSET Locks
  <2>1. Wants(r) = {TokenRow(req[r].token)}
    BY <1>4 DEF Wants
  <2>2. req[r].token \in TokenIds
    BY <1>1, <1>2, <1>4 DEF Fits
  <2> QED
    BY <2>1, <2>2 DEF Locks
<1>5. ASSUME req[r].pc = "touch"
      PROVE  Wants(r) = {Row(req[r].member)} /\ Wants(r) \in SUBSET Locks
  <2>1. Wants(r) = {Row(req[r].member)}
    BY <1>5 DEF Wants
  <2>2. req[r].member \in MemberIds
    BY <1>1, <1>2, <1>5 DEF Fits
  <2> QED
    BY <2>1, <2>2 DEF Locks
<1>6. ASSUME req[r].pc = "lockSource"
      PROVE  Wants(r) = {Row(req[r].member), Key(req[r].member)} /\ Wants(r) \in SUBSET Locks
  <2>1. Wants(r) = {Row(req[r].member), Key(req[r].member)}
    BY <1>6 DEF Wants
  <2>2. req[r].member \in MemberIds
    BY <1>1, <1>2, <1>6 DEF Fits
  <2> QED
    BY <2>1, <2>2 DEF Locks
<1>7. ASSUME req[r].pc = "lockTarget", req[r].target # Nobody
      PROVE  Wants(r) = {Row(req[r].target), Key(req[r].target)} /\ Wants(r) \in SUBSET Locks
  <2>1. Wants(r) = {Row(req[r].target), Key(req[r].target)}
    BY <1>7 DEF Wants
  <2> QED
    BY <1>2, <1>7, <2>1 DEF Locks
<1> QED
  BY <1>3, <1>4, <1>5, <1>6, <1>7

LEMMA SeatsType ==
  ASSUME NEW what
  PROVE  Seats(what) \in Nat
<1>1. IsFiniteSet(MemberIds)
  <2>1. 1 \in Int /\ MaxMembers \in Int
    BY ConstantsAssumption
  <2>2. IsFiniteSet(1 .. MaxMembers)
    BY <2>1, FS_Interval
  <2> QED
    BY <2>2 DEF MemberIds
<1>2. \A S \in SUBSET MemberIds : Cardinality(S) \in Nat
  BY <1>1, FS_Subset, FS_CardinalityType
<1>3. Occupied \in Nat
  BY <1>2 DEF Occupied
<1>4. Invited \in Nat
  BY <1>2 DEF Invited
<1> QED
  BY <1>3, <1>4 DEF Seats

LEMMA CountSeatsKeeps ==
  ASSUME MembershipInv, NEW r \in Requests, NEW what \in {"occupied", "invited"},
         CountSeats(r, what)
  PROVE  MembershipInv'
<1> DEFINE next == [req[r] EXCEPT !.todo = @ \ {what}, !.seats = @ + Seats(what)]
<1>0. req[r] \in RequestTypes /\ RequestStands(r)
  BY DEF MembershipInv, Types
<1>1. req' = [req EXCEPT ![r] = next]
  BY DEF CountSeats
<1>2. /\ next \in RequestTypes /\ next.pc = "count"
      /\ next.call = req[r].call /\ next.invite = req[r].invite /\ next.token = req[r].token
      /\ next.member = req[r].member /\ next.target = req[r].target
      /\ next.status = req[r].status
  <2>1. /\ req[r].todo \ {what} \in SUBSET {"occupied", "invited"}
        /\ req[r].seats + Seats(what) \in Nat
        /\ req[r].pc = "count"
    BY <1>0, SeatsType DEF RequestTypes, CountSeats
  <2> QED
    BY <1>0, <2>1 DEF RequestTypes
<1>3. req'[r] = next
  BY <1>1 DEF MembershipInv, Types
<1> HIDE DEF next
<1>4. Fits(next)
  BY <1>0, <1>2 DEF RequestStands, Fits, CountSeats
<1>5. Holds(r)'
  BY <1>2, <1>3 DEF Holds
<1>6. req[r].call # "generate"
  BY <1>0 DEF RequestStands, Fits, CountSeats, Admitting
<1>7. Knows(r)'
  BY <1>1, <1>2, <1>3, <1>6, KnowledgeStays DEF CountSeats
<1>8. RequestStands(r)'
  BY <1>3, <1>4, <1>5, <1>7 DEF RequestStands
<1> QED
  BY <1>1, <1>2, <1>8, SteppingKeeps DEF CountSeats

\* The steps that go on or roll back, and lock nothing.
LEMMA ReadingKeeps ==
  ASSUME MembershipInv, NEW r \in Requests,
         \/ AssertSeatsAvailable(r) \/ AssertEmailAvailable(r) \/ RunOutOfRows(r)
         \/ FindInvitedMember(r) \/ AbortDeadlocked(r)
  PROVE  MembershipInv'
<1>1. CASE Rollback(r)
  BY <1>1, RollbackKeeps
<1>2. ASSUME NEW pc \in Phases, Goto(r, pc), UNCHANGED <<world, rows, held, history>>,
             \/ req[r].pc = "count" /\ req[r].call = "resendInvite" /\ pc = "consume"
             \/ req[r].pc = "count" /\ req[r].call # "resendInvite" /\ pc = "checkEmails"
             \/ req[r].pc = "checkEmails" /\ pc = "insertMembers"
             \/ req[r].pc = "findMember" /\ pc = "consume"
      PROVE  MembershipInv'
  <2>1. RequestStands(r)
    BY DEF MembershipInv
  <2>2. Fits([req[r] EXCEPT !.pc = pc])
    <3> DEFINE q == [req[r] EXCEPT !.pc = pc]
    <3>1. q.pc = pc
      BY DEF MembershipInv, Types, RequestTypes
    <3>2. /\ q.call = req[r].call /\ q.invite = req[r].invite /\ q.token = req[r].token
          /\ q.member = req[r].member /\ q.target = req[r].target
          /\ q.status = req[r].status
      BY DEF MembershipInv, Types, RequestTypes
    <3> HIDE DEF q
    <3>3. Fits(req[r])
      BY <2>1 DEF RequestStands
    <3>4. Fits(q)
      BY <1>2, <3>1, <3>2, <3>3 DEF Fits, Admitting, OfInvite
    <3> QED
      BY <3>4 DEF q
  <2>3. Holds(r)'
    <3>1. /\ req'[r].pc = pc /\ req'[r].invite = req[r].invite /\ req'[r].token = req[r].token
          /\ req'[r].member = req[r].member /\ req'[r].target = req[r].target
      BY <1>2, GotoFields
    <3> QED
      BY <1>2, <3>1 DEF Holds
  <2> QED
    BY <1>2, <2>2, <2>3, GotoKeeps
<1>3. CASE AssertSeatsAvailable(r)
  BY <1>1, <1>2, <1>3 DEF AssertSeatsAvailable, Phases
<1>4. CASE AssertEmailAvailable(r)
  BY <1>1, <1>2, <1>4 DEF AssertEmailAvailable, Phases
<1>5. CASE FindInvitedMember(r)
  BY <1>1, <1>2, <1>5 DEF FindInvitedMember, Phases
<1> QED
  BY <1>1, <1>3, <1>4, <1>5 DEF RunOutOfRows, AbortDeadlocked

\* The rows of the member are looked for.
LEMMA TransferKeeps ==
  ASSUME MembershipInv, NEW r \in Requests, TransferRows(r) \/ UpdateRows(r)
  PROVE  MembershipInv'
<1>1. CASE Rollback(r)
  BY <1>1, RollbackKeeps
<1>2. ASSUME NEW pc \in {"update", "remove"}, NEW found \in SUBSET RowsOf(req[r].member),
             req' = [req EXCEPT ![r].pc = pc, ![r].others = found],
             UNCHANGED <<world, rows, held, history>>,
             found = {} \/ req[r].target # Nobody,
             \/ req[r].pc = "transfer" /\ found = RowsOf(req[r].member)
             \/ req[r].pc = "update" /\ req[r].others \subseteq found
      PROVE  MembershipInv'
  <2> DEFINE next == [req[r] EXCEPT !.pc = pc, !.others = found]
  <2>0. req[r] \in RequestTypes /\ RequestStands(r)
    BY DEF MembershipInv, Types
  <2>1. req' = [req EXCEPT ![r] = next]
    BY <1>2
  <2>2. found \in SUBSET Nat
    BY <1>2 DEF RowsOf, RowIds
  <2>3. /\ next \in RequestTypes /\ next.pc = pc /\ next.others = found
        /\ next.call = req[r].call /\ next.invite = req[r].invite /\ next.token = req[r].token
        /\ next.member = req[r].member /\ next.target = req[r].target
        /\ next.status = req[r].status
    BY <2>0, <2>2 DEF RequestTypes, Phases
  <2>4. req'[r] = next
    BY <2>1 DEF MembershipInv, Types
  <2> HIDE DEF next
  <2>5. req[r].call = "hardDelete" /\ req[r].pc \in {"transfer", "update"}
    BY <1>2, <2>0 DEF RequestStands, Fits
  <2>6. Fits(next)
    BY <1>2, <2>0, <2>3, <2>5 DEF RequestStands, Fits
  <2>7. UNCHANGED <<member, invite, token, owner, held, history>>
    BY <1>2 DEF rows
  <2>8. Holds(r)'
    BY <1>2, <2>0, <2>3, <2>4, <2>5, <2>7 DEF RequestStands, Holds, Present, Exists, RowsOf,
       Pending, Redeemable
  <2>9. Knows(r)'
    BY <1>2, <2>3, <2>4, <2>5, KnowledgeStays
  <2>10. RequestStands(r)'
    BY <2>4, <2>6, <2>8, <2>9 DEF RequestStands
  <2> QED
    BY <1>2, <2>1, <2>3, <2>10, SteppingKeeps
<1>3. CASE TransferRows(r)
  BY <1>1, <1>2, <1>3 DEF TransferRows
<1>4. CASE UpdateRows(r)
  BY <1>1, <1>2, <1>4 DEF UpdateRows
<1> QED
  BY <1>3, <1>4

LEMMA ConsumingKeeps ==
  ASSUME MembershipInv, NEW r \in Requests, ConsumeInvite(r) \/ ConsumeSetupToken(r)
  PROVE  MembershipInv'
<1>0. RequestStands(r) /\ req[r] \in RequestTypes
  BY DEF MembershipInv, Types
<1>1. CASE Rollback(r)
  BY <1>1, RollbackKeeps
<1>2. CASE ConsumeInvite(r) /\ ~Rollback(r)
  <2> DEFINE pc == AfterConsuming(req[r])
  <2>1. /\ req[r].pc = "consume" /\ req[r].invite # 0 /\ req[r].call \in OfInvite
        /\ Free(r, Wants(r)) /\ Lock(r, Wants(r)) /\ Pending(req[r].invite)
        /\ Goto(r, pc) /\ UNCHANGED <<world, rows, history>>
    BY <1>0, <1>2 DEF ConsumeInvite, RequestStands, Fits
  <2>2. /\ pc \in Phases
        /\ \/ pc = "insertInvite" /\ req[r].call = "resendInvite"
           \/ pc = "commit" /\ req[r].call # "resendInvite" /\ req[r].member = Nobody
           \/ pc = "touch" /\ req[r].call # "resendInvite" /\ req[r].member # Nobody
    BY DEF AfterConsuming, Phases
  <2> HIDE DEF pc
  <2>3. /\ req'[r].pc = pc /\ req'[r].call = req[r].call
        /\ req'[r].invite = req[r].invite /\ req'[r].token = req[r].token
        /\ req'[r].member = req[r].member /\ req'[r].target = req[r].target
        /\ req'[r].status = req[r].status
        /\ req'[r] = [req[r] EXCEPT !.pc = pc]
    BY <2>1, <2>2, GotoFields
  <2>4. Fits(req'[r])
    BY <1>0, <2>1, <2>2, <2>3 DEF RequestStands, Fits, OfInvite, Admitting
  <2>5. Wants(r) = {InviteRow(req[r].invite)} /\ Wants(r) \in SUBSET Locks
    BY <2>1, WantsType
  <2>6. held'[r] = held[r] \union Wants(r)
    BY <2>1 DEF Lock, MembershipInv, Types
  <2>7. req[r].token = 0
    BY <1>0, <2>1 DEF RequestStands, Fits, OfInvite
  <2>8. UNCHANGED invite
    BY <2>1 DEF rows
  <2>9. Holds(r)'
    BY <2>1, <2>2, <2>3, <2>5, <2>6, <2>7, <2>8 DEF Holds, Pending
  <2> QED
    BY <2>1, <2>2, <2>3, <2>4, <2>5, <2>9, LockAndGotoKeeps
<1>3. CASE ConsumeSetupToken(r) /\ ~Rollback(r)
  <2>1. /\ req[r].pc = "consume" /\ req[r].token # 0 /\ req[r].call = "redeemSetup"
        /\ Free(r, Wants(r)) /\ Lock(r, Wants(r)) /\ Redeemable(req[r].token)
        /\ Goto(r, "touch") /\ UNCHANGED <<world, rows, history>>
    BY <1>0, <1>3 DEF ConsumeSetupToken, RequestStands, Fits
  <2>2. "touch" \in Phases
    BY DEF Phases
  <2>3. /\ req'[r].pc = "touch" /\ req'[r].call = req[r].call
        /\ req'[r].invite = req[r].invite /\ req'[r].token = req[r].token
        /\ req'[r].member = req[r].member /\ req'[r].target = req[r].target
        /\ req'[r].status = req[r].status
        /\ req'[r] = [req[r] EXCEPT !.pc = "touch"]
    BY <2>1, <2>2, GotoFields
  <2>4. Fits(req'[r])
    BY <1>0, <2>1, <2>3 DEF RequestStands, Fits, OfInvite, Admitting
  <2>5. Wants(r) = {TokenRow(req[r].token)} /\ Wants(r) \in SUBSET Locks
    BY <2>1, WantsType
  <2>6. held'[r] = held[r] \union Wants(r)
    BY <2>1 DEF Lock, MembershipInv, Types
  <2>7. req[r].invite = 0
    BY <1>0, <2>1 DEF RequestStands, Fits, OfInvite
  <2>8. UNCHANGED token
    BY <2>1 DEF rows
  <2>9. Holds(r)'
    BY <2>1, <2>3, <2>5, <2>6, <2>7, <2>8 DEF Holds, Redeemable
  <2> QED
    BY <2>1, <2>2, <2>3, <2>4, <2>5, <2>9, LockAndGotoKeeps
<1> QED
  BY <1>1, <1>2, <1>3

LEMMA LockingRowsKeeps ==
  ASSUME MembershipInv, NEW r \in Requests, LockSource(r) \/ LockTarget(r)
  PROVE  MembershipInv'
<1>0. RequestStands(r) /\ req[r] \in RequestTypes
  BY DEF MembershipInv, Types
<1>1. CASE Rollback(r)
  BY <1>1, RollbackKeeps
<1>2. CASE LockSource(r) /\ ~Rollback(r)
  <2> DEFINE pc == IF req[r].target = Nobody THEN "transfer" ELSE "lockTarget"
  <2>1. /\ req[r].pc = "lockSource" /\ req[r].call = "hardDelete"
        /\ Free(r, Wants(r)) /\ Lock(r, Wants(r)) /\ Present(req[r].member)
        /\ Goto(r, pc) /\ UNCHANGED <<world, rows, history>>
    BY <1>0, <1>2 DEF LockSource, RequestStands, Fits
  <2>2. /\ pc \in Phases
        /\ \/ pc = "transfer" /\ req[r].target = Nobody
           \/ pc = "lockTarget" /\ req[r].target # Nobody
    BY DEF Phases
  <2> HIDE DEF pc
  <2>3. /\ req'[r].pc = pc /\ req'[r].call = req[r].call
        /\ req'[r].invite = req[r].invite /\ req'[r].token = req[r].token
        /\ req'[r].member = req[r].member /\ req'[r].target = req[r].target
        /\ req'[r].status = req[r].status
        /\ req'[r] = [req[r] EXCEPT !.pc = pc]
    BY <2>1, <2>2, GotoFields
  <2>4. Fits(req'[r])
    BY <1>0, <2>1, <2>2, <2>3 DEF RequestStands, Fits, OfInvite, Admitting
  <2>5. Wants(r) = {Row(req[r].member), Key(req[r].member)} /\ Wants(r) \in SUBSET Locks
    BY <2>1, WantsType
  <2>6. held'[r] = held[r] \union Wants(r)
    BY <2>1 DEF Lock, MembershipInv, Types
  <2>7. UNCHANGED member
    BY <2>1 DEF rows
  <2>8. Holds(r)'
    BY <2>1, <2>2, <2>3, <2>5, <2>6, <2>7 DEF Holds, Present, Exists
  <2> QED
    BY <2>1, <2>2, <2>3, <2>4, <2>5, <2>8, LockAndGotoKeeps
<1>3. CASE LockTarget(r) /\ ~Rollback(r)
  <2>1. /\ req[r].pc = "lockTarget" /\ req[r].call = "hardDelete" /\ req[r].target # Nobody
        /\ Free(r, Wants(r)) /\ Lock(r, Wants(r)) /\ member[req[r].target].status = "active"
        /\ Goto(r, "transfer") /\ UNCHANGED <<world, rows, history>>
    BY <1>0, <1>3 DEF LockTarget, RequestStands, Fits
  <2>2. "transfer" \in Phases
    BY DEF Phases
  <2>3. /\ req'[r].pc = "transfer" /\ req'[r].call = req[r].call
        /\ req'[r].invite = req[r].invite /\ req'[r].token = req[r].token
        /\ req'[r].member = req[r].member /\ req'[r].target = req[r].target
        /\ req'[r].status = req[r].status
        /\ req'[r] = [req[r] EXCEPT !.pc = "transfer"]
    BY <2>1, <2>2, GotoFields
  <2>4. Fits(req'[r])
    BY <1>0, <2>1, <2>3 DEF RequestStands, Fits, OfInvite, Admitting
  <2>5. Wants(r) = {Row(req[r].target), Key(req[r].target)} /\ Wants(r) \in SUBSET Locks
    BY <2>1, WantsType
  <2>6. held'[r] = held[r] \union Wants(r)
    BY <2>1 DEF Lock, MembershipInv, Types
  <2>7. UNCHANGED member
    BY <2>1 DEF rows
  <2>8. Row(req[r].member) \in held[r] /\ Present(req[r].member)
    BY <1>0, <2>1 DEF RequestStands, Holds
  <2>9. Holds(r)'
    BY <2>1, <2>3, <2>5, <2>6, <2>7, <2>8 DEF Holds, Present, Exists
  <2> QED
    BY <2>1, <2>2, <2>3, <2>4, <2>5, <2>9, LockAndGotoKeeps
<1> QED
  BY <1>1, <1>2, <1>3

LEMMA TouchMemberKeeps ==
  ASSUME MembershipInv, NEW r \in Requests, TouchMember(r)
  PROVE  MembershipInv'
<1>0. RequestStands(r) /\ req[r] \in RequestTypes
  BY DEF MembershipInv, Types
<1>1. CASE Rollback(r)
  BY <1>1, RollbackKeeps
<1>2. CASE ~Rollback(r)
  <2> PICK others \in SUBSET Nat :
        req' = [req EXCEPT ![r].pc = "commit", ![r].others = others]
    <3>1. /\ {t \in TokenIds \ {req[r].token} : Redeemable(t)} \in SUBSET Nat
          /\ {i \in InvitesOf(req[r].member) \ {req[r].invite} : Pending(i)} \in SUBSET Nat
      BY DEF TokenIds, InvitesOf, InviteIds
    <3> QED
      BY <1>2, <3>1 DEF TouchMember
  <2>1. /\ req[r].pc = "touch" /\ Exists(req[r].member)
        /\ Free(r, Wants(r)) /\ Lock(r, Wants(r)) /\ UNCHANGED <<world, rows, history>>
    BY <1>2 DEF TouchMember
  <2> DEFINE next == [req[r] EXCEPT !.pc = "commit", !.others = others]
  <2>2. req' = [req EXCEPT ![r] = next]
    OBVIOUS
  <2>3. /\ next \in RequestTypes /\ next.pc = "commit"
        /\ next.call = req[r].call /\ next.invite = req[r].invite /\ next.token = req[r].token
        /\ next.member = req[r].member /\ next.target = req[r].target
        /\ next.status = req[r].status
    BY <1>0 DEF RequestTypes, Phases
  <2>4. req'[r] = next
    BY DEF MembershipInv, Types
  <2> HIDE DEF next
  <2>5. Fits(next)
    BY <1>0, <2>1, <2>3 DEF RequestStands, Fits, OfInvite, Admitting
  <2>6. Wants(r) = {Row(req[r].member)} /\ Wants(r) \in SUBSET Locks
    BY <2>1, WantsType
  <2>7. held'[r] = held[r] \union Wants(r)
    BY <2>1 DEF Lock, MembershipInv, Types
  <2>8. UNCHANGED <<member, invite, token>>
    BY <2>1 DEF rows
  <2>9. Holds(r)'
    BY <1>0, <2>1, <2>3, <2>4, <2>6, <2>7, <2>8
       DEF RequestStands, Holds, Exists, Pending, Redeemable
  <2>10. Knows(r)'
    <3>1. req[r].call # "generate"
      BY <1>0, <2>1 DEF RequestStands, Fits
    <3> QED
      BY <2>1, <2>3, <2>4, <3>1, KnowledgeStays
  <2>11. RequestStands(r)'
    BY <2>4, <2>5, <2>9, <2>10 DEF RequestStands
  <2> QED
    BY <2>1, <2>2, <2>3, <2>6, <2>11, LockingKeeps
<1> QED
  BY <1>1, <1>2

-----------------------------------------------------------------------------
(* Steps that write rows *)

\* What the rows that request s has locked, and knows of, are left as.
Respected(s) ==
  /\ \A i \in InviteIds : InviteRow(i) \in held[s] /\ Pending(i) => Pending(i)'
  /\ \A t \in TokenIds : TokenRow(t) \in held[s] /\ Redeemable(t) => Redeemable(t)'
  /\ \A m \in MemberIds :
       Row(m) \in held[s] /\ Exists(m) => member'[m].status = member[m].status
  /\ req[s].pc \in {"update", "remove"} =>
       /\ history.late \subseteq history'.late
       /\ \A x \in RowIds :
            /\ owner[x] = req[s].member => owner'[x] = owner[x]
            /\ owner'[x] = req[s].member => owner[x] = req[s].member \/ x \in history'.late

\* No row is forgotten: an invitation loses its member only when that is
\* removed, for good.
RowsPersist ==
  /\ \A i \in InviteIds : invite[i].state # "none" =>
       /\ invite'[i].state # "none"
       /\ \/ invite'[i].member = invite[i].member
          \/ /\ invite'[i].member = Nobody
             /\ invite[i].member # Nobody => member'[invite[i].member].status = "removed"
  /\ \A m \in MemberIds : member[m].status = "removed" => member'[m].status = "removed"
  /\ \A t \in TokenIds : token[t].made => token'[t].made

NoNewTokens ==
  \A t \in TokenIds :
    token'[t].made /\ ~token'[t].revoked => token[t].made /\ ~token[t].revoked

LEMMA OthersStand ==
  ASSUME MembershipInv, NEW s \in Requests, Respected(s), RowsPersist,
         req'[s] = req[s], held'[s] = held[s], Founders' = Founders,
         history'.overlapped = history.overlapped,
         req[s].call = "generate" /\ ~history.overlapped => NoNewTokens
  PROVE  RequestStands(s)'
<1>0. RequestStands(s) /\ req[s] \in RequestTypes
  BY DEF MembershipInv, Types
<1>1. Fits(req'[s])
  BY <1>0 DEF RequestStands
<1>2. /\ req[s].invite # 0 => req[s].invite \in InviteIds
      /\ req[s].token # 0 => req[s].token \in TokenIds
      /\ req[s].member # Nobody => req[s].member \in MemberIds
      /\ req[s].target # Nobody => req[s].target \in MemberIds
  BY <1>0 DEF RequestTypes
<1>3. Holds(s)'
  <2>0. Holds(s) /\ Fits(req[s])
    BY <1>0 DEF RequestStands
  <2>1. ASSUME req[s].invite # 0, req[s].pc \in {"insertInvite", "touch", "commit"}
        PROVE  InviteRow(req[s].invite) \in held'[s] /\ Pending(req[s].invite)'
    BY <1>2, <2>0, <2>1 DEF Holds, Respected
  <2>2. ASSUME req[s].token # 0, req[s].pc \in {"touch", "commit"}
        PROVE  TokenRow(req[s].token) \in held'[s] /\ Redeemable(req[s].token)'
    BY <1>2, <2>0, <2>2 DEF Holds, Respected
  <2>3. ASSUME req[s].pc = "commit", req[s].member # Nobody
        PROVE  Row(req[s].member) \in held'[s] /\ Exists(req[s].member)'
    BY <1>2, <2>0, <2>3 DEF Holds, Respected, Exists
  <2>4. ASSUME req[s].pc \in {"lockTarget", "transfer", "update", "remove"}
        PROVE  Row(req[s].member) \in held'[s] /\ Present(req[s].member)'
    BY <1>2, <2>0, <2>4 DEF Holds, Fits, Respected, Present, Exists
  <2>5. ASSUME req[s].pc \in {"transfer", "update", "remove"}, req[s].target # Nobody
        PROVE  Row(req[s].target) \in held'[s] /\ member'[req[s].target].status = "active"
    BY <1>2, <2>0, <2>5 DEF Holds, Respected, Exists
  <2>6. ASSUME req[s].pc \in {"update", "remove"}
        PROVE  /\ req[s].others \subseteq RowsOf(req[s].member)'
               /\ \A x \in RowsOf(req[s].member)' : x \in req[s].others \/ x \in history'.late
               /\ req[s].target = Nobody => req[s].others = {}
    BY <2>0, <2>6 DEF Holds, Respected, RowsOf
  <2> QED
    BY <2>0, <2>1, <2>2, <2>3, <2>4, <2>5, <2>6 DEF Holds
<1>4. Knows(s)'
  <2>0. Knows(s)
    BY <1>0 DEF RequestStands
  <2>1. ASSUME req[s].invite # 0
        PROVE  /\ invite'[req[s].invite].state # "none"
               /\ invite'[req[s].invite].member \in {Nobody, req[s].member}
               /\ req[s].member # Nobody /\ invite'[req[s].invite].member = Nobody =>
                    member'[req[s].member].status = "removed"
    BY <1>2, <2>0, <2>1 DEF Knows, RowsPersist
  <2>2. ASSUME req[s].token # 0 PROVE token'[req[s].token].made
    BY <1>2, <2>0, <2>2 DEF Knows, RowsPersist
  <2> QED
    BY <2>0, <2>1, <2>2 DEF Knows, NoNewTokens
<1> QED
  BY <1>1, <1>3, <1>4 DEF RequestStands

\* A commit of request r: what it leaves to the others and to itself.
LEMMA CommitLeaves ==
  ASSUME MembershipInv, NEW r \in Requests, End(r), UNCHANGED world,
         member' \in [MemberIds -> Members], invite' \in [InviteIds -> Invites],
         token' \in [TokenIds -> Tokens], owner' \in [RowIds -> {Nobody} \union MemberIds],
         history' \in Histories, history'.overlapped = history.overlapped,
         \A s \in Requests : s # r => Respected(s),
         RowsPersist, NoNewTokens \/ req[r].call = "generate"
  PROVE  /\ Types' /\ LocksApart'
         /\ \A s \in Requests : RequestStands(s)'
         /\ ~history.overlapped => OneGenerates'
         /\ req'[r] = Idle /\ \A s \in Requests : s # r => req'[s] = req[s]
         /\ Founders' = Founders
<1>1. Moves(r, Idle, {}) /\ Founders' = Founders
  BY EndMoves, WorldStays
<1>2. /\ req' \in [Requests -> RequestTypes] /\ held' \in [Requests -> SUBSET Locks]
      /\ req'[r] = Idle /\ held'[r] = {}
      /\ \A s \in Requests : s # r => req'[s] = req[s] /\ held'[s] = held[s]
  BY <1>1, MoveType, IdleType DEF MembershipInv
<1>3. Types'
  BY <1>2 DEF MembershipInv, Types
<1>4. LocksApart'
  BY <1>2 DEF MembershipInv, LocksApart
<1>5. ASSUME NEW s \in Requests PROVE RequestStands(s)'
  <2>1. CASE s = r
    BY <1>2, <2>1, IdleStands
  <2>2. CASE s # r
    <3>1. req[s].call = "generate" /\ ~history.overlapped => NoNewTokens
      BY <2>2 DEF MembershipInv, SetupIsOnce, OneGenerates
    <3> QED
      BY <1>1, <1>2, <2>2, <3>1, OthersStand
  <2> QED
    BY <2>1, <2>2
<1>6. ~history.overlapped => OneGenerates'
  BY <1>2, IdleType DEF MembershipInv, SetupIsOnce, OneGenerates
<1> QED
  BY <1>1, <1>2, <1>3, <1>4, <1>5, <1>6

LEMMA FreshRows ==
  ASSUME NEW n
  PROVE  /\ FreshMembers(n) \subseteq MemberIds
         /\ \A m \in FreshMembers(n) : member[m].status = "none"
         /\ FreshInvites(n) \subseteq InviteIds
         /\ \A i \in FreshInvites(n) : invite[i].state = "none"
BY DEF FreshMembers, FreshInvites, FirstOf

\* There is one first number.
LEMMA FirstIsOne ==
  ASSUME NEW S \in SUBSET Nat, IsFiniteSet(S)
  PROVE  \A x, y \in FirstOf(1, S) : x = y
<1> TAKE x \in FirstOf(1, S), y \in FirstOf(1, S)
<1>1. ASSUME NEW z \in FirstOf(1, S) PROVE {w \in S : w < z} = {}
  <2>1. Cardinality({w \in S : w < z}) < 1
    BY DEF FirstOf
  <2>2. IsFiniteSet({w \in S : w < z})
    BY FS_Subset
  <2>3. Cardinality({w \in S : w < z}) = 0
    BY <2>1, <2>2, FS_CardinalityType
  <2> QED
    BY <2>2, <2>3, FS_EmptySet
<1>2. x \in S /\ y \in S /\ ~(x < y) /\ ~(y < x)
  BY <1>1 DEF FirstOf
<1> QED
  BY <1>2

LEMMA FiniteIds ==
  /\ IsFiniteSet(MemberIds) /\ IsFiniteSet(InviteIds) /\ IsFiniteSet(TokenIds)
  /\ MemberIds \in SUBSET Nat /\ InviteIds \in SUBSET Nat /\ TokenIds \in SUBSET Nat
<1>1. 1 \in Int /\ MaxMembers \in Int /\ MaxInvites \in Int /\ MaxTokens \in Int
  BY ConstantsAssumption
<1>2. IsFiniteSet(1 .. MaxMembers) /\ IsFiniteSet(1 .. MaxInvites) /\ IsFiniteSet(1 .. MaxTokens)
  BY <1>1, FS_Interval
<1> QED
  BY <1>2 DEF MemberIds, InviteIds, TokenIds

\* The invitations of a batch are for different members.
LEMMA InvitedApart ==
  ASSUME NEW n, IsFiniteSet(FreshMembers(n)), IsFiniteSet(FreshInvites(n)),
         Cardinality(FreshInvites(n)) = Cardinality(FreshMembers(n))
  PROVE  LET f == CHOOSE f \in Bijection(FreshInvites(n), FreshMembers(n)) : TRUE
         IN  /\ f \in [FreshInvites(n) -> FreshMembers(n)]
             /\ \A i, j \in FreshInvites(n) : f[i] = f[j] => i = j
<1>1. \E f : f \in Bijection(FreshInvites(n), FreshMembers(n))
  BY FS_SameCardinalityBij DEF ExistsBijection
<1> DEFINE f == CHOOSE f \in Bijection(FreshInvites(n), FreshMembers(n)) : TRUE
<1>2. f \in Bijection(FreshInvites(n), FreshMembers(n))
  BY <1>1
<1> QED
  BY <1>2 DEF Bijection, Injection, IsInjective

LEMMA InsertMembersKeeps ==
  ASSUME MembershipInv, NEW r \in Requests, InsertMembers(r)
  PROVE  MembershipInv'
<1> DEFINE q == req[r]
           n == Cardinality(q.batch)
           M == FreshMembers(n)
           I == FreshInvites(n)
           invited == CHOOSE f \in Bijection(I, M) : TRUE
           Inviting(i) == q.status = "pending_invite" /\ i \in I
<1>0. /\ RequestStands(r) /\ req[r] \in RequestTypes
      /\ req[r].status \in {"pending_invite", "active", "pending_approval"}
  BY DEF MembershipInv, Types, RequestStands, Fits, InsertMembers
<1>1. /\ M \subseteq MemberIds /\ \A m \in M : member[m].status = "none"
      /\ I \subseteq InviteIds /\ \A i \in I : invite[i].state = "none"
  BY FreshRows
<1>2. /\ \A i \in InviteIds : Inviting(i) => invited[i] \in M
      /\ \A i, j \in InviteIds : Inviting(i) /\ Inviting(j) /\ invited[i] = invited[j] => i = j
  <2>1. IsFiniteSet(M) /\ IsFiniteSet(I)
    BY <1>1, FiniteIds, FS_Subset
  <2>2. q.status = "pending_invite" => Cardinality(I) = Cardinality(M)
    BY DEF InsertMembers, Room
  <2> QED
    BY <2>1, <2>2, InvitedApart
<1>3. PICK email \in Bijection(M, q.batch) :
        member' = [m \in MemberIds |-> IF m \in M THEN [status |-> q.status, email |-> email[m]]
                                                  ELSE member[m]]
  BY DEF InsertMembers
<1>4. /\ invite' = [i \in InviteIds |->
            IF Inviting(i) THEN [state |-> "pending", expired |-> FALSE, member |-> invited[i]]
                           ELSE invite[i]]
      /\ End(r) /\ UNCHANGED <<world, token, owner, history>>
  BY DEF InsertMembers
<1>5. \A m \in M : email[m] \in Emails
  BY <1>0, <1>3 DEF Bijection, Injection, RequestTypes
<1> HIDE DEF q, n, M, I, invited
<1>6. member' \in [MemberIds -> Members]
  <2>1. q.status \in Statuses
    BY <1>0 DEF q, Statuses, SeatHolding
  <2> QED
    BY <1>3, <1>5, <2>1 DEF MembershipInv, Types, Members
<1>7. invite' \in [InviteIds -> Invites]
  BY <1>1, <1>2, <1>4 DEF MembershipInv, Types, Invites
<1>8. /\ \A m \in M : member'[m].status = q.status
      /\ \A m \in MemberIds : m \notin M => member'[m] = member[m]
      /\ \A m \in MemberIds : member[m].status # "none" => member'[m] = member[m]
      /\ q.status \in {"pending_invite", "active", "pending_approval"}
  BY <1>0, <1>1, <1>3 DEF q
<1>9. /\ \A i \in InviteIds : Inviting(i) =>
           invite'[i].state = "pending" /\ invite'[i].member = invited[i]
      /\ \A i \in InviteIds : ~Inviting(i) => invite'[i] = invite[i]
      /\ \A i \in InviteIds : invite[i].state # "none" => invite'[i] = invite[i]
  BY <1>1, <1>4
<1>10. ASSUME NEW s \in Requests PROVE Respected(s)
  <2>1. \A i \in InviteIds : Pending(i) => Pending(i)'
    BY <1>9 DEF Pending
  <2>2. \A m \in MemberIds : Exists(m) => member'[m].status = member[m].status
    BY <1>8 DEF Exists
  <2> QED
    BY <1>4, <2>1, <2>2 DEF Respected, Redeemable, RowsOf
<1>11. RowsPersist
  BY <1>4, <1>8, <1>9 DEF RowsPersist
<1>12. NoNewTokens
  BY <1>4 DEF NoNewTokens
<1>13. history' \in Histories /\ history'.overlapped = history.overlapped
       /\ token' \in [TokenIds -> Tokens] /\ owner' \in [RowIds -> {Nobody} \union MemberIds]
  BY <1>4 DEF MembershipInv, Types
<1>14. /\ Types' /\ LocksApart'
       /\ \A s \in Requests : RequestStands(s)'
       /\ ~history.overlapped => OneGenerates'
       /\ req'[r] = Idle /\ \A s \in Requests : s # r => req'[s] = req[s]
       /\ Founders' = Founders
  BY <1>4, <1>6, <1>7, <1>10, <1>11, <1>12, <1>13, CommitLeaves
<1>15. RowsStand'
  <2>1. ASSUME NEW i \in InviteIds
        PROVE  /\ invite'[i].state = "none" => invite'[i].member = Nobody
               /\ invite'[i].member # Nobody =>
                    /\ member'[invite'[i].member].status \notin {"none", "removed"}
                    /\ invite'[i].member \notin Founders
    <3>1. CASE Inviting(i)
      <4>1. invite'[i].state = "pending" /\ invite'[i].member \in M
        BY <1>2, <1>9, <3>1
      <4>2. member'[invite'[i].member].status \notin {"none", "removed"}
        BY <1>8, <4>1
      <4>3. invite'[i].member \notin Founders
        BY <1>1, <4>1 DEF MembershipInv, RowsStand
      <4> QED
        BY <4>1, <4>2, <4>3
    <3>2. CASE ~Inviting(i)
      <4>1. /\ invite[i].state = "none" => invite[i].member = Nobody
            /\ invite[i].member # Nobody =>
                 Exists(invite[i].member) /\ invite[i].member \notin Founders
        BY DEF MembershipInv, RowsStand
      <4>2. invite[i].member \in {Nobody} \union MemberIds
        BY DEF MembershipInv, Types, Invites
      <4>3. invite'[i] = invite[i]
        BY <1>9, <3>2
      <4> QED
        BY <1>8, <4>1, <4>2, <4>3 DEF Exists
    <3> QED
      BY <3>1, <3>2
  <2>2. ASSUME NEW m \in MemberIds
        PROVE  /\ member'[m].status = "pending_setup" => m \in Founders
               /\ m \in Founders => member'[m].status # "none"
               /\ history.claims[m] > 0 => member'[m].status # "none"
    BY <1>8 DEF MembershipInv, RowsStand
  <2> QED
    BY <1>4, <1>14, <2>1, <2>2 DEF RowsStand, Exists
<1>16. ASSUME NEW i \in InviteIds, ~Inviting(i), invite[i].member # Nobody
       PROVE  invite[i].member \notin M
  BY <1>1, <1>16 DEF MembershipInv, RowsStand, Exists
<1>17. PendingIsAlone'
  <2> SUFFICES ASSUME NEW i \in InviteIds, NEW j \in InviteIds, Pending(i)', Pending(j)',
                      invite'[i].member = invite'[j].member, invite'[i].member # Nobody
               PROVE  i = j
    BY DEF PendingIsAlone
  <2>1. CASE Inviting(i) /\ Inviting(j)
    BY <1>2, <1>9, <2>1
  <2>2. CASE Inviting(i) /\ ~Inviting(j)
    BY <1>2, <1>9, <1>16, <2>2
  <2>3. CASE ~Inviting(i) /\ Inviting(j)
    BY <1>2, <1>9, <1>16, <2>3
  <2>4. CASE ~Inviting(i) /\ ~Inviting(j)
    BY <1>9, <2>4 DEF MembershipInv, PendingIsAlone, Pending
  <2> QED
    BY <2>1, <2>2, <2>3, <2>4
<1>18. DoorIsClosed'
  <2>1. ASSUME NEW m \in MemberIds, NEW i \in InviteIds,
               m \in history.withdrawn \/ (history.claims[m] > 0 /\ m \notin Founders),
               invite'[i].member = m
        PROVE  ~Pending(i)'
    <3>1. m \notin M
      BY <1>1, <2>1 DEF MembershipInv, DoorIsClosed, RowsStand
    <3>2. ~Inviting(i)
      BY <1>2, <1>9, <2>1, <3>1
    <3> QED
      BY <1>9, <2>1, <3>2 DEF MembershipInv, DoorIsClosed, Pending
  <2>2. ASSUME NEW m \in history.withdrawn
        PROVE  m \notin Founders /\ member'[m].status \in {"deleted", "removed"}
    BY <1>8 DEF MembershipInv, DoorIsClosed, Types, Histories
  <2> QED
    BY <1>4, <1>14, <2>1, <2>2 DEF DoorIsClosed
<1>19. SetupIsOnce'
  <2> SUFFICES ASSUME ~history.overlapped PROVE OneTokenWorks' /\ ClaimedForGood'
    BY <1>4, <1>14 DEF SetupIsOnce
  <2>1. OneTokenWorks'
    BY <1>4 DEF MembershipInv, SetupIsOnce, OneTokenWorks, Redeemable
  <2>2. ASSUME NEW m \in Founders, history.claims[m] > 0
        PROVE  /\ member'[m].status # "pending_setup"
               /\ \A s \in Requests : req'[s].token # 0 => ~Redeemable(req'[s].token)
    <3>1. /\ member[m].status # "pending_setup" /\ m \in MemberIds
          /\ \A s \in Requests : req[s].token # 0 => ~Redeemable(req[s].token)
      BY <2>2, WorldFacts DEF MembershipInv, SetupIsOnce, ClaimedForGood
    <3> QED
      BY <1>8, <1>14, <3>1, IdleType
  <2> QED
    BY <1>4, <1>14, <2>1, <2>2 DEF ClaimedForGood, Redeemable
<1>20. ClaimedOnce'
  BY <1>4 DEF MembershipInv, ClaimedOnce
<1>21. OwnersExist'
  BY <1>4, <1>8 DEF MembershipInv, OwnersExist, Types, Exists
<1> QED
  BY <1>14, <1>15, <1>17, <1>18, <1>19, <1>20, <1>21 DEF MembershipInv

LEMMA InsertReplacementKeeps ==
  ASSUME MembershipInv, NEW r \in Requests, InsertReplacement(r)
  PROVE  MembershipInv'
<1>0. RequestStands(r) /\ req[r] \in RequestTypes
  BY DEF MembershipInv, Types
<1>1. CASE Rollback(r)
  BY <1>1, RollbackKeeps
<1>2. CASE ~Rollback(r)
  <2> DEFINE i0 == req[r].invite
             m == req[r].member
             Fresh == FreshInvites(1)
  <2>1. /\ req[r].pc = "insertInvite" /\ Exists(m)
        /\ invite' = [i \in InviteIds |->
             IF i = i0 THEN [invite[i] EXCEPT !.state = "revoked"]
             ELSE IF i \in Fresh
               THEN [state |-> "pending", expired |-> FALSE, member |-> m]
               ELSE invite[i]]
        /\ End(r) /\ UNCHANGED <<world, member, token, owner, history>>
    BY <1>2 DEF InsertReplacement
  <2>2. /\ i0 \in InviteIds /\ i0 # 0 /\ m \in MemberIds /\ m # Nobody
        /\ InviteRow(i0) \in held[r] /\ Pending(i0) /\ m \notin Founders
    BY <1>0, <2>1 DEF RequestStands, Fits, Holds, Knows, OfInvite, RequestTypes
  <2>3. invite[i0].member = m
    BY <1>0, <2>1, <2>2 DEF RequestStands, Knows, Exists
  <2>4. /\ Fresh \subseteq InviteIds /\ \A i \in Fresh : invite[i].state = "none"
        /\ \A i, j \in Fresh : i = j
    <3>1. Fresh = FirstOf(1, {i \in InviteIds : invite[i].state = "none"})
      BY DEF FreshInvites
    <3>2. /\ {i \in InviteIds : invite[i].state = "none"} \in SUBSET Nat
          /\ IsFiniteSet({i \in InviteIds : invite[i].state = "none"})
      BY FiniteIds, FS_Subset
    <3>3. \A i, j \in FirstOf(1, {i \in InviteIds : invite[i].state = "none"}) : i = j
      BY <3>2, FirstIsOne
    <3> QED
      BY <3>1, <3>3, FreshRows
  <2> HIDE DEF i0, m, Fresh
  <2>5. invite' \in [InviteIds -> Invites]
    BY <2>1, <2>2, <2>4 DEF MembershipInv, Types, Invites
  <2>6. /\ invite'[i0].state = "revoked" /\ invite'[i0].member = m
        /\ i0 \notin Fresh
        /\ \A i \in Fresh : invite'[i].state = "pending" /\ invite'[i].member = m
        /\ \A i \in InviteIds : i # i0 /\ i \notin Fresh => invite'[i] = invite[i]
    BY <2>1, <2>2, <2>3, <2>4 DEF Pending, MembershipInv, Types, Invites
  <2>7. ASSUME NEW s \in Requests, s # r PROVE Respected(s)
    <3>1. InviteRow(i0) \notin held[s]
      BY <2>2, <2>7 DEF MembershipInv, LocksApart
    <3>2. \A i \in InviteIds : InviteRow(i) \in held[s] /\ Pending(i) => Pending(i)'
      BY <2>4, <2>6, <3>1 DEF Pending
    <3> QED
      BY <2>1, <3>2 DEF Respected, Redeemable, RowsOf
  <2>8. RowsPersist
    BY <2>1, <2>3, <2>4, <2>6 DEF RowsPersist
  <2>9. NoNewTokens
    BY <2>1 DEF NoNewTokens
  <2>10. /\ history' \in Histories /\ history'.overlapped = history.overlapped
         /\ token' \in [TokenIds -> Tokens] /\ owner' \in [RowIds -> {Nobody} \union MemberIds]
         /\ member' \in [MemberIds -> Members]
    BY <2>1 DEF MembershipInv, Types
  <2>11. /\ Types' /\ LocksApart'
         /\ \A s \in Requests : RequestStands(s)'
         /\ ~history.overlapped => OneGenerates'
         /\ req'[r] = Idle /\ \A s \in Requests : s # r => req'[s] = req[s]
         /\ Founders' = Founders
    BY <2>1, <2>5, <2>7, <2>8, <2>9, <2>10, CommitLeaves
  <2>12. RowsStand'
    <3>1. ASSUME NEW i \in InviteIds
          PROVE  /\ invite'[i].state = "none" => invite'[i].member = Nobody
                 /\ invite'[i].member # Nobody =>
                      /\ member[invite'[i].member].status \notin {"none", "removed"}
                      /\ invite'[i].member \notin Founders
      BY <2>1, <2>2, <2>6 DEF MembershipInv, RowsStand, Exists
    <3>2. \A n \in MemberIds :
            /\ member[n].status = "pending_setup" => n \in Founders
            /\ n \in Founders => member[n].status # "none"
            /\ history.claims[n] > 0 => member[n].status # "none"
      BY DEF MembershipInv, RowsStand
    <3> QED
      BY <2>1, <2>11, <3>1, <3>2 DEF RowsStand, Exists
  <2>13. \A i \in InviteIds : Pending(i) /\ invite[i].member = m => i = i0
    BY <2>2, <2>3 DEF MembershipInv, PendingIsAlone
  <2>14. PendingIsAlone'
    <3> SUFFICES ASSUME NEW i \in InviteIds, NEW j \in InviteIds, Pending(i)', Pending(j)',
                        invite'[i].member = invite'[j].member, invite'[i].member # Nobody
                 PROVE  i = j
      BY DEF PendingIsAlone
    <3>1. i # i0 /\ j # i0
      BY <2>6 DEF Pending
    <3>2. CASE i \in Fresh /\ j \in Fresh
      BY <2>4, <3>2
    <3>3. CASE i \in Fresh /\ j \notin Fresh
      BY <2>6, <2>13, <3>1, <3>3 DEF Pending
    <3>4. CASE i \notin Fresh /\ j \in Fresh
      BY <2>6, <2>13, <3>1, <3>4 DEF Pending
    <3>5. CASE i \notin Fresh /\ j \notin Fresh
      BY <2>6, <3>1, <3>5 DEF MembershipInv, PendingIsAlone, Pending
    <3> QED
      BY <3>2, <3>3, <3>4, <3>5
  <2>15. DoorIsClosed'
    <3>1. ~(m \in history.withdrawn \/ (history.claims[m] > 0 /\ m \notin Founders))
      BY <2>2, <2>3 DEF MembershipInv, DoorIsClosed
    <3>2. ASSUME NEW n \in MemberIds, NEW i \in InviteIds,
                 n \in history.withdrawn \/ (history.claims[n] > 0 /\ n \notin Founders),
                 invite'[i].member = n
          PROVE  ~Pending(i)'
      <4>1. n # m
        BY <3>1, <3>2
      <4>2. i # i0 /\ i \notin Fresh
        BY <2>6, <3>2, <4>1
      <4> QED
        BY <2>6, <3>2, <4>2 DEF MembershipInv, DoorIsClosed, Pending
    <3>3. \A n \in history.withdrawn :
            n \notin Founders /\ member[n].status \in {"deleted", "removed"}
      BY DEF MembershipInv, DoorIsClosed
    <3> QED
      BY <2>1, <2>11, <3>2, <3>3 DEF DoorIsClosed
  <2>16. SetupIsOnce'
    <3> SUFFICES ASSUME ~history.overlapped PROVE OneTokenWorks' /\ ClaimedForGood'
      BY <2>1, <2>11 DEF SetupIsOnce
    <3>1. OneTokenWorks'
      BY <2>1 DEF MembershipInv, SetupIsOnce, OneTokenWorks, Redeemable
    <3>2. ASSUME NEW n \in Founders, history.claims[n] > 0
          PROVE  /\ member[n].status # "pending_setup"
                 /\ \A s \in Requests : req'[s].token # 0 => ~Redeemable(req'[s].token)
      <4>1. /\ member[n].status # "pending_setup"
            /\ \A s \in Requests : req[s].token # 0 => ~Redeemable(req[s].token)
        BY <3>2 DEF MembershipInv, SetupIsOnce, ClaimedForGood
      <4> QED
        BY <2>11, <4>1, IdleType
    <3> QED
      BY <2>1, <2>11, <3>1, <3>2 DEF ClaimedForGood, Redeemable
  <2>17. ClaimedOnce' /\ OwnersExist'
    BY <2>1 DEF MembershipInv, ClaimedOnce, OwnersExist, Exists
  <2> QED
    BY <2>11, <2>12, <2>14, <2>15, <2>16, <2>17 DEF MembershipInv
<1> QED
  BY <1>1, <1>2

\* The commit of a revocation or of a redemption, with what it records.
LEMMA CommitInviteKeeps ==
  ASSUME MembershipInv, NEW r \in Requests,
         req[r].pc = "commit", req[r].call \in {"revokeInvite", "redeemInvite"},
         Free(r, Wants(r)), NEW state \in {"revoked", "used"}, WriteInvites(r, state),
         NEW status \in {"deleted", "active"}, SetStatus(req[r].member, status),
         status = "deleted" <=> req[r].call = "revokeInvite",
         End(r), UNCHANGED <<world, token, owner>>,
         history' \in Histories, history'.overlapped = history.overlapped,
         history'.late = history.late,
         history'.withdrawn = IF req[r].call = "revokeInvite"
                                THEN history.withdrawn \union ({req[r].member} \ {Nobody})
                                ELSE history.withdrawn,
         \A n \in MemberIds :
           \/ history'.claims[n] = history.claims[n]
           \/ n = req[r].member /\ history'.claims[n] = history.claims[n] + 1
  PROVE  MembershipInv'
<1> DEFINE i0 == req[r].invite
           m == req[r].member
           others == req[r].others
<1>0. RequestStands(r) /\ req[r] \in RequestTypes
  BY DEF MembershipInv, Types
<1>1. /\ i0 \in InviteIds /\ i0 # 0 /\ m \in {Nobody} \union MemberIds
      /\ InviteRow(i0) \in held[r] /\ Pending(i0) /\ m \notin Founders
      /\ m # Nobody => Row(m) \in held[r] /\ Exists(m)
  BY <1>0 DEF RequestStands, Fits, Holds, Knows, OfInvite, RequestTypes
<1>2. invite[i0].member = m
  BY <1>0, <1>1 DEF RequestStands, Knows, Exists
<1>3. \A s \in Requests : s # r => \A i \in others : InviteRow(i) \notin held[s]
  <2>1. Wants(r) = {InviteRow(i) : i \in others}
    BY DEF Wants, OthersOf
  <2> QED
    BY <2>1 DEF Free
<1>4. /\ \A i \in InviteIds : i # i0 /\ ~(i \in others /\ Pending(i)) => invite'[i] = invite[i]
      /\ \A i \in InviteIds : i # i0 /\ i \in others /\ Pending(i) =>
           invite'[i] = [invite[i] EXCEPT !.state = "revoked"]
      /\ invite'[i0] = [invite[i0] EXCEPT !.state = state]
      /\ invite' = [i \in InviteIds |->
               IF i = i0 THEN [invite[i] EXCEPT !.state = state]
               ELSE IF i \in others /\ Pending(i)
                 THEN [invite[i] EXCEPT !.state = "revoked"]
                 ELSE invite[i]]
  BY <1>1 DEF WriteInvites
<1>5. member' = IF m = Nobody THEN member ELSE [member EXCEPT ![m].status = status]
  BY DEF SetStatus
<1> HIDE DEF i0, m, others
<1>6. /\ invite' \in [InviteIds -> Invites]
      /\ \A i \in InviteIds : invite'[i].member = invite[i].member
      /\ \A i \in InviteIds : invite'[i].state = "none" <=> invite[i].state = "none"
      /\ \A i \in InviteIds : Pending(i)' => Pending(i) /\ i # i0
      /\ \A i \in InviteIds : Pending(i) /\ i # i0 /\ i \notin others => Pending(i)'
  <2>1. ASSUME NEW i \in InviteIds, NEW new \in {"revoked", "used"}
        PROVE  /\ [invite[i] EXCEPT !.state = new] \in Invites
               /\ [invite[i] EXCEPT !.state = new].state = new
               /\ [invite[i] EXCEPT !.state = new].member = invite[i].member
    BY DEF MembershipInv, Types, Invites
  <2>2. \A i \in InviteIds : invite[i] \in Invites
    BY DEF MembershipInv, Types
  <2>3. invite' \in [InviteIds -> Invites]
    BY <1>4, <2>1, <2>2
  <2>4. ASSUME NEW i \in InviteIds
        PROVE  /\ invite'[i].member = invite[i].member
               /\ invite'[i].state = "none" <=> invite[i].state = "none"
               /\ Pending(i)' => Pending(i) /\ i # i0
               /\ Pending(i) /\ i # i0 /\ i \notin others => Pending(i)'
    <3>1. CASE i = i0
      BY <1>1, <1>4, <2>1, <3>1 DEF Pending
    <3>2. CASE i # i0 /\ i \in others /\ Pending(i)
      BY <1>4, <2>1, <3>2 DEF Pending
    <3>3. CASE i # i0 /\ ~(i \in others /\ Pending(i))
      BY <1>4, <3>3 DEF Pending
    <3> QED
      BY <3>1, <3>2, <3>3
  <2> QED
    BY <2>3, <2>4
<1>7. /\ member' \in [MemberIds -> Members]
      /\ \A n \in MemberIds : n # m => member'[n] = member[n]
      /\ m # Nobody => member'[m].status = status
  BY <1>1, <1>5 DEF MembershipInv, Types, Members, Statuses, SeatHolding
<1>8. ASSUME NEW s \in Requests, s # r PROVE Respected(s)
  <2>1. InviteRow(i0) \notin held[s] /\ (m # Nobody => Row(m) \notin held[s])
    BY <1>1, <1>8 DEF MembershipInv, LocksApart
  <2>2. \A i \in InviteIds : InviteRow(i) \in held[s] /\ Pending(i) => Pending(i)'
    BY <1>3, <1>6, <1>8, <2>1
  <2>3. \A n \in MemberIds : Row(n) \in held[s] => member'[n].status = member[n].status
    BY <1>7, <2>1 DEF MemberIds, Nobody
  <2> QED
    BY <2>2, <2>3 DEF Respected, Redeemable, RowsOf
<1>9. RowsPersist
  <2>1. \A n \in MemberIds : member[n].status = "removed" => member'[n].status = "removed"
    BY <1>1, <1>7 DEF Exists, MemberIds, Nobody
  <2>2. \A t \in TokenIds : token[t].made => token'[t].made
    OBVIOUS
  <2> QED
    BY <1>6, <2>1, <2>2 DEF RowsPersist
<1>10. NoNewTokens
  BY DEF NoNewTokens
<1>11. token' \in [TokenIds -> Tokens] /\ owner' \in [RowIds -> {Nobody} \union MemberIds]
  BY DEF MembershipInv, Types
<1>12. /\ Types' /\ LocksApart'
       /\ \A s \in Requests : RequestStands(s)'
       /\ ~history.overlapped => OneGenerates'
       /\ req'[r] = Idle /\ \A s \in Requests : s # r => req'[s] = req[s]
       /\ Founders' = Founders
  BY <1>6, <1>7, <1>8, <1>9, <1>10, <1>11, CommitLeaves
<1>13. /\ history'.withdrawn = IF req[r].call = "revokeInvite"
                                 THEN history.withdrawn \union ({m} \ {Nobody})
                                 ELSE history.withdrawn
       /\ \A n \in MemberIds : \/ history'.claims[n] = history.claims[n]
                               \/ n = m /\ history'.claims[n] = history.claims[n] + 1
       /\ \A n \in MemberIds : history.claims[n] \in 0 .. 2
  BY DEF m, MembershipInv, Types, Histories
<1>14. RowsStand'
  <2>1. ASSUME NEW i \in InviteIds
        PROVE  /\ invite'[i].state = "none" => invite'[i].member = Nobody
               /\ invite'[i].member # Nobody =>
                    /\ member'[invite'[i].member].status \notin {"none", "removed"}
                    /\ invite'[i].member \notin Founders
    <3>1. /\ invite[i].state = "none" => invite[i].member = Nobody
          /\ invite[i].member # Nobody =>
               /\ member[invite[i].member].status \notin {"none", "removed"}
               /\ invite[i].member \notin Founders
      BY DEF MembershipInv, RowsStand, Exists
    <3>2. invite[i].member \in {Nobody} \union MemberIds
      BY DEF MembershipInv, Types, Invites
    <3> QED
      BY <1>6, <1>7, <3>1, <3>2
  <2>2. ASSUME NEW n \in MemberIds
        PROVE  /\ member'[n].status = "pending_setup" => n \in Founders
               /\ n \in Founders => member'[n].status # "none"
               /\ history'.claims[n] > 0 => member'[n].status # "none"
    BY <1>7, <1>13 DEF MembershipInv, RowsStand, MemberIds, Nobody
  <2> QED
    BY <1>12, <2>1, <2>2 DEF RowsStand, Exists
<1>15. \A i \in InviteIds : Pending(i) /\ invite[i].member = m /\ m # Nobody => i = i0
  BY <1>1, <1>2 DEF MembershipInv, PendingIsAlone
<1>16. PendingIsAlone'
  BY <1>6 DEF MembershipInv, PendingIsAlone
<1>17. m # Nobody => m \notin history.withdrawn /\ history.claims[m] = 0
  BY <1>1, <1>2, <1>13 DEF MembershipInv, DoorIsClosed
<1>18. DoorIsClosed'
  <2>1. ASSUME NEW n \in MemberIds, NEW i \in InviteIds,
               n \in history'.withdrawn \/ (history'.claims[n] > 0 /\ n \notin Founders),
               invite'[i].member = n
        PROVE  ~Pending(i)'
    <3>1. CASE n = m
      BY <1>6, <1>15, <2>1, <3>1 DEF MemberIds, Nobody
    <3>2. CASE n # m
      <4>1. n \in history.withdrawn \/ (history.claims[n] > 0 /\ n \notin Founders)
        BY <1>13, <2>1, <3>2
      <4> QED
        BY <1>6, <2>1, <4>1 DEF MembershipInv, DoorIsClosed
    <3> QED
      BY <3>1, <3>2
  <2>2. ASSUME NEW n \in history'.withdrawn
        PROVE  n \notin Founders /\ member'[n].status \in {"deleted", "removed"}
    <3>1. CASE n \in history.withdrawn
      <4>1. n # m /\ n \in MemberIds
        BY <1>17, <3>1 DEF MembershipInv, Types, Histories, MemberIds, Nobody
      <4> QED
        BY <1>7, <3>1, <4>1 DEF MembershipInv, DoorIsClosed
    <3>2. CASE n \notin history.withdrawn
      <4>1. n = m /\ m # Nobody /\ status = "deleted"
        BY <1>13, <2>2, <3>2
      <4> QED
        BY <1>1, <1>7, <4>1
    <3> QED
      BY <3>1, <3>2
  <2> QED
    BY <1>12, <2>1, <2>2 DEF DoorIsClosed
<1>19. SetupIsOnce'
  <2> SUFFICES ASSUME ~history.overlapped PROVE OneTokenWorks' /\ ClaimedForGood'
    BY <1>12 DEF SetupIsOnce
  <2>1. OneTokenWorks'
    BY DEF MembershipInv, SetupIsOnce, OneTokenWorks, Redeemable
  <2>2. ASSUME NEW n \in Founders, history'.claims[n] > 0
        PROVE  /\ member'[n].status # "pending_setup"
               /\ \A s \in Requests : req'[s].token # 0 => ~Redeemable(req'[s].token)
    <3>1. n # m /\ n \in MemberIds
      BY <1>1, WorldFacts DEF MembershipInv
    <3>2. /\ member[n].status # "pending_setup"
          /\ \A s \in Requests : req[s].token # 0 => ~Redeemable(req[s].token)
      BY <1>13, <2>2, <3>1 DEF MembershipInv, SetupIsOnce, ClaimedForGood
    <3> QED
      BY <1>7, <1>12, <3>1, <3>2, IdleType
  <2> QED
    BY <1>12, <2>1, <2>2 DEF ClaimedForGood, Redeemable
<1>20. ClaimedOnce'
  <2>1. \A n \in MemberIds : history.claims[n] <= 1 \/ history.overlapped
    BY DEF MembershipInv, ClaimedOnce
  <2>2. ASSUME NEW n \in MemberIds PROVE history'.claims[n] <= 1 \/ history.overlapped
    BY <1>13, <1>17, <2>1 DEF MemberIds, Nobody
  <2> QED
    BY <2>2 DEF ClaimedOnce
<1>21. OwnersExist'
  <2>1. \A n \in MemberIds : Exists(n) => member'[n].status \notin {"none", "removed"}
    BY <1>7 DEF Exists, MemberIds, Nobody
  <2> QED
    BY <2>1 DEF MembershipInv, OwnersExist, Types, Exists
<1> QED
  BY <1>12, <1>14, <1>16, <1>18, <1>19, <1>20, <1>21 DEF MembershipInv

LEMMA CommitRevocationKeeps ==
  ASSUME MembershipInv, NEW r \in Requests, CommitRevocation(r)
  PROVE  MembershipInv'
<1>0. req[r] \in RequestTypes
  BY DEF MembershipInv, Types
<1>1. /\ history' \in Histories /\ history'.overlapped = history.overlapped
      /\ history'.claims = history.claims /\ history'.late = history.late
      /\ history'.withdrawn = history.withdrawn \union ({req[r].member} \ {Nobody})
  BY <1>0 DEF CommitRevocation, MembershipInv, Types, Histories, RequestTypes
<1> QED
  BY <1>1, CommitInviteKeeps DEF CommitRevocation

LEMMA CommitRedemptionKeeps ==
  ASSUME MembershipInv, NEW r \in Requests, CommitRedemption(r)
  PROVE  MembershipInv'
<1>0. req[r] \in RequestTypes
  BY DEF MembershipInv, Types
<1> DEFINE m == req[r].member
<1>1. /\ history' \in Histories /\ history'.overlapped = history.overlapped
      /\ history'.withdrawn = history.withdrawn /\ history'.late = history.late
      /\ \A n \in MemberIds : \/ history'.claims[n] = history.claims[n]
                              \/ n = m /\ history'.claims[n] = history.claims[n] + 1
  <2>1. m \in {Nobody} \union MemberIds /\ history \in Histories
    BY <1>0 DEF RequestTypes, MembershipInv, Types
  <2>2. CASE m = Nobody \/ history.claims[m] = 2
    BY <2>1, <2>2 DEF CommitRedemption, Claim
  <2>3. CASE ~(m = Nobody \/ history.claims[m] = 2)
    <3>1. history' = [history EXCEPT !.claims[m] = @ + 1] /\ m \in MemberIds
      BY <2>1, <2>3 DEF CommitRedemption, Claim
    <3>2. history.claims[m] + 1 \in 0 .. 2
      BY <2>1, <2>3, <3>1 DEF Histories
    <3> QED
      BY <2>1, <3>1, <3>2 DEF Histories
  <2> QED
    BY <2>2, <2>3
<1> QED
  BY <1>1, CommitInviteKeeps DEF CommitRedemption

LEMMA CommitSoftDeleteKeeps ==
  ASSUME MembershipInv, NEW r \in Requests, CommitSoftDelete(r)
  PROVE  MembershipInv'
<1> DEFINE m == req[r].member
<1>0. RequestStands(r) /\ req[r] \in RequestTypes
  BY DEF MembershipInv, Types
<1>1. /\ m \in MemberIds /\ m # Nobody /\ Row(m) \in held[r] /\ Exists(m)
      /\ End(r) /\ UNCHANGED <<world, invite, token, owner, history>>
  BY <1>0 DEF RequestStands, Fits, Holds, RequestTypes, CommitSoftDelete
<1>2. member' = [member EXCEPT ![m].status = "deleted"]
  BY <1>1 DEF CommitSoftDelete, SetStatus
<1> HIDE DEF m
<1>3. /\ member' \in [MemberIds -> Members]
      /\ \A n \in MemberIds : n # m => member'[n] = member[n]
      /\ member'[m].status = "deleted"
  BY <1>1, <1>2 DEF MembershipInv, Types, Members, Statuses
<1>4. ASSUME NEW s \in Requests, s # r PROVE Respected(s)
  <2>1. Row(m) \notin held[s]
    BY <1>1, <1>4 DEF MembershipInv, LocksApart
  <2>2. \A n \in MemberIds : Row(n) \in held[s] => member'[n].status = member[n].status
    BY <1>3, <2>1
  <2> QED
    BY <1>1, <2>2 DEF Respected, Redeemable, RowsOf, Pending
<1>5. RowsPersist /\ NoNewTokens
  BY <1>1, <1>3 DEF RowsPersist, NoNewTokens, Exists
<1>6. /\ invite' \in [InviteIds -> Invites] /\ token' \in [TokenIds -> Tokens]
      /\ owner' \in [RowIds -> {Nobody} \union MemberIds] /\ history' \in Histories
      /\ history'.overlapped = history.overlapped
  BY <1>1 DEF MembershipInv, Types
<1>7. /\ Types' /\ LocksApart'
      /\ \A s \in Requests : RequestStands(s)'
      /\ ~history.overlapped => OneGenerates'
      /\ req'[r] = Idle /\ \A s \in Requests : s # r => req'[s] = req[s]
      /\ Founders' = Founders
  BY <1>1, <1>3, <1>4, <1>5, <1>6, CommitLeaves
<1>8. \A n \in MemberIds : Exists(n) => member'[n].status \notin {"none", "removed"}
  BY <1>3 DEF Exists
<1>9. RowsStand'
  <2>1. ASSUME NEW n \in MemberIds
        PROVE  /\ member'[n].status = "pending_setup" => n \in Founders
               /\ n \in Founders => member'[n].status # "none"
               /\ history.claims[n] > 0 => member'[n].status # "none"
    BY <1>3 DEF MembershipInv, RowsStand
  <2>2. \A i \in InviteIds : invite[i].member \in {Nobody} \union MemberIds
    BY DEF MembershipInv, Types, Invites
  <2> QED
    BY <1>1, <1>7, <1>8, <2>1, <2>2 DEF MembershipInv, RowsStand, Exists
<1>10. PendingIsAlone'
  BY <1>1 DEF MembershipInv, PendingIsAlone, Pending
<1>11. DoorIsClosed'
  <2>1. \A n \in history.withdrawn :
          n \notin Founders /\ member'[n].status \in {"deleted", "removed"}
    BY <1>3 DEF MembershipInv, DoorIsClosed, Types, Histories
  <2> QED
    BY <1>1, <1>7, <2>1 DEF MembershipInv, DoorIsClosed, Pending
<1>12. SetupIsOnce'
  <2> SUFFICES ASSUME ~history.overlapped PROVE OneTokenWorks' /\ ClaimedForGood'
    BY <1>1, <1>7 DEF SetupIsOnce
  <2>1. OneTokenWorks'
    BY <1>1 DEF MembershipInv, SetupIsOnce, OneTokenWorks, Redeemable
  <2>2. ASSUME NEW n \in Founders, history.claims[n] > 0
        PROVE  /\ member'[n].status # "pending_setup"
               /\ \A s \in Requests : req'[s].token # 0 => ~Redeemable(req'[s].token)
    <3>1. /\ member[n].status # "pending_setup" /\ n \in MemberIds
          /\ \A s \in Requests : req[s].token # 0 => ~Redeemable(req[s].token)
      BY <2>2, WorldFacts DEF MembershipInv, SetupIsOnce, ClaimedForGood
    <3> QED
      BY <1>3, <1>7, <3>1, IdleType
  <2> QED
    BY <1>1, <1>7, <2>1, <2>2 DEF ClaimedForGood, Redeemable
<1>13. ClaimedOnce' /\ OwnersExist'
  <2>1. OwnersExist'
    BY <1>1, <1>8 DEF MembershipInv, OwnersExist, Types, Exists
  <2> QED
    BY <1>1, <2>1 DEF MembershipInv, ClaimedOnce
<1> QED
  BY <1>7, <1>9, <1>10, <1>11, <1>12, <1>13 DEF MembershipInv

LEMMA RemoveMemberKeeps ==
  ASSUME MembershipInv, NEW r \in Requests, RemoveMember(r)
  PROVE  MembershipInv'
<1> DEFINE m == req[r].member
           target == req[r].target
<1>0. RequestStands(r) /\ req[r] \in RequestTypes
  BY DEF MembershipInv, Types
<1>1. /\ m \in MemberIds /\ m # Nobody /\ Row(m) \in held[r] /\ Present(m)
      /\ target # m /\ target \in {Nobody} \union MemberIds
      /\ target # Nobody => Row(target) \in held[r] /\ member[target].status = "active"
      /\ End(r) /\ UNCHANGED <<world, token, history>>
  BY <1>0 DEF RequestStands, Fits, Holds, RequestTypes, RemoveMember
<1>2. /\ member' = [member EXCEPT ![m].status = "removed"]
      /\ invite' = [i \in InviteIds |->
           IF i \in InvitesOf(m) THEN [invite[i] EXCEPT !.member = Nobody] ELSE invite[i]]
      /\ owner' = [x \in RowIds |-> IF x \in req[r].others THEN target ELSE owner[x]]
  BY DEF RemoveMember
<1> HIDE DEF m, target
<1>3. /\ member' \in [MemberIds -> Members]
      /\ \A n \in MemberIds : n # m => member'[n] = member[n]
      /\ member'[m].status = "removed"
  BY <1>1, <1>2 DEF MembershipInv, Types, Members, Statuses
<1>4. /\ invite' \in [InviteIds -> Invites]
      /\ \A i \in InviteIds :
           /\ invite'[i].state = invite[i].state
           /\ invite[i].member # m => invite'[i].member = invite[i].member
           /\ invite[i].member = m => invite'[i].member = Nobody
  <2>1. \A i \in InviteIds : invite[i] \in Invites
    BY DEF MembershipInv, Types
  <2> QED
    BY <1>2, <2>1 DEF Invites, InvitesOf
<1>5. /\ owner' \in [RowIds -> {Nobody} \union MemberIds]
      /\ \A x \in RowIds : owner[x] = m =>
           \/ owner'[x] = target /\ target # Nobody
           \/ owner'[x] = m /\ x \in history.late
      /\ \A x \in RowIds : owner[x] # m => owner'[x] = owner[x]
  <2>1. /\ req[r].others \subseteq RowsOf(m)
        /\ \A x \in RowsOf(m) : x \in req[r].others \/ x \in history.late
        /\ target = Nobody => req[r].others = {}
    BY <1>0 DEF RemoveMember, RequestStands, Holds, m, target
  <2> QED
    BY <1>1, <1>2, <2>1 DEF MembershipInv, Types, RowsOf
<1>6. ASSUME NEW s \in Requests, s # r PROVE Respected(s)
  <2>1. Row(m) \notin held[s] /\ (target # Nobody => Row(target) \notin held[s])
    BY <1>1, <1>6 DEF MembershipInv, LocksApart
  <2>2. \A n \in MemberIds : Row(n) \in held[s] => member'[n].status = member[n].status
    BY <1>3, <2>1
  <2>3. ASSUME req[s].pc \in {"update", "remove"}, NEW x \in RowIds
        PROVE  /\ history.late \subseteq history'.late
               /\ owner[x] = req[s].member => owner'[x] = owner[x]
               /\ owner'[x] = req[s].member => owner[x] = req[s].member
    <3>1. Row(req[s].member) \in held[s] /\ req[s].member # Nobody
      BY <2>3 DEF MembershipInv, RequestStands, Holds, Fits
    <3> QED
      BY <1>1, <1>5, <2>1, <3>1
  <2> QED
    BY <1>1, <1>4, <2>2, <2>3 DEF Respected, Redeemable, Pending
<1>7. RowsPersist /\ NoNewTokens
  BY <1>1, <1>3, <1>4 DEF RowsPersist, NoNewTokens
<1>8. token' \in [TokenIds -> Tokens] /\ history' \in Histories
      /\ history'.overlapped = history.overlapped
  BY <1>1 DEF MembershipInv, Types
<1>9. /\ Types' /\ LocksApart'
      /\ \A s \in Requests : RequestStands(s)'
      /\ ~history.overlapped => OneGenerates'
      /\ req'[r] = Idle /\ \A s \in Requests : s # r => req'[s] = req[s]
      /\ Founders' = Founders
  BY <1>1, <1>3, <1>4, <1>5, <1>6, <1>7, <1>8, CommitLeaves
<1>10. \A n \in MemberIds : Exists(n) /\ n # m => member'[n].status \notin {"none", "removed"}
  BY <1>3 DEF Exists
<1>11. RowsStand'
  <2>1. ASSUME NEW n \in MemberIds
        PROVE  /\ member'[n].status = "pending_setup" => n \in Founders
               /\ n \in Founders => member'[n].status # "none"
               /\ history.claims[n] > 0 => member'[n].status # "none"
    BY <1>3 DEF MembershipInv, RowsStand
  <2>2. \A i \in InviteIds : invite[i].member \in {Nobody} \union MemberIds
    BY DEF MembershipInv, Types, Invites
  <2>3. ASSUME NEW i \in InviteIds
        PROVE  /\ invite'[i].state = "none" => invite'[i].member = Nobody
               /\ invite'[i].member # Nobody =>
                    /\ member'[invite'[i].member].status \notin {"none", "removed"}
                    /\ invite'[i].member \notin Founders
    BY <1>4, <1>10, <2>2 DEF MembershipInv, RowsStand
  <2> QED
    BY <1>1, <1>9, <2>1, <2>3 DEF RowsStand, Exists
<1>12. PendingIsAlone'
  BY <1>4 DEF MembershipInv, PendingIsAlone, Pending
<1>13. DoorIsClosed'
  <2>1. \A n \in history.withdrawn :
          n \notin Founders /\ member'[n].status \in {"deleted", "removed"}
    BY <1>3 DEF MembershipInv, DoorIsClosed, Types, Histories
  <2>2. ASSUME NEW n \in MemberIds, NEW i \in InviteIds,
               n \in history.withdrawn \/ (history.claims[n] > 0 /\ n \notin Founders),
               invite'[i].member = n
        PROVE  ~Pending(i)'
    <3>1. invite[i].member = n
      BY <1>4, <2>2 DEF MemberIds, Nobody
    <3> QED
      BY <1>4, <2>2, <3>1 DEF MembershipInv, DoorIsClosed, Pending
  <2> QED
    BY <1>1, <1>9, <2>1, <2>2 DEF DoorIsClosed
<1>14. SetupIsOnce'
  <2> SUFFICES ASSUME ~history.overlapped PROVE OneTokenWorks' /\ ClaimedForGood'
    BY <1>1, <1>9 DEF SetupIsOnce
  <2>1. OneTokenWorks'
    BY <1>1 DEF MembershipInv, SetupIsOnce, OneTokenWorks, Redeemable
  <2>2. ASSUME NEW n \in Founders, history.claims[n] > 0
        PROVE  /\ member'[n].status # "pending_setup"
               /\ \A s \in Requests : req'[s].token # 0 => ~Redeemable(req'[s].token)
    <3>1. /\ member[n].status # "pending_setup" /\ n \in MemberIds
          /\ \A s \in Requests : req[s].token # 0 => ~Redeemable(req[s].token)
      BY <2>2, WorldFacts DEF MembershipInv, SetupIsOnce, ClaimedForGood
    <3> QED
      BY <1>3, <1>9, <3>1, IdleType
  <2> QED
    BY <1>1, <1>9, <2>1, <2>2 DEF ClaimedForGood, Redeemable
<1>15. ClaimedOnce'
  BY <1>1 DEF MembershipInv, ClaimedOnce
<1>16. OwnersExist'
  <2>1. ASSUME NEW x \in RowIds, owner'[x] # Nobody
        PROVE  member'[owner'[x]].status \notin {"none", "removed"} \/ x \in history.late
    <3>1. CASE owner[x] = m
      BY <1>1, <1>3, <1>5, <2>1, <3>1
    <3>2. CASE owner[x] # m
      <4>1. /\ owner[x] \in MemberIds /\ owner'[x] = owner[x]
            /\ Exists(owner[x]) \/ x \in history.late
        BY <1>5, <2>1, <3>2 DEF MembershipInv, OwnersExist, Types
      <4> QED
        BY <1>10, <3>2, <4>1
    <3> QED
      BY <3>1, <3>2
  <2> QED
    BY <1>1, <2>1 DEF OwnersExist, Exists
<1> QED
  BY <1>9, <1>11, <1>12, <1>13, <1>14, <1>15, <1>16 DEF MembershipInv

LEMMA CommitSetupLinkKeeps ==
  ASSUME MembershipInv, NEW r \in Requests, CommitSetupLink(r)
  PROVE  MembershipInv'
<1> DEFINE others == req[r].others
           unmade == {t \in TokenIds : ~token[t].made}
           Fresh == FirstOf(1, unmade)
<1>0. RequestStands(r) /\ req[r] \in RequestTypes
  BY DEF MembershipInv, Types
<1>1. /\ req[r].call = "generate"
      /\ End(r) /\ UNCHANGED <<world, member, invite, owner, history>>
      /\ ~history.overlapped =>
           \A t \in TokenIds : token[t].made /\ ~token[t].revoked => t \in others
  BY <1>0 DEF CommitSetupLink, RequestStands, Knows
<1>2. token' = [t \in TokenIds |->
         IF t \in others THEN [token[t] EXCEPT !.revoked = TRUE]
         ELSE IF t \in Fresh THEN [NoToken EXCEPT !.made = TRUE]
         ELSE token[t]]
  BY DEF CommitSetupLink
<1>3. \A s \in Requests : s # r => \A t \in others : TokenRow(t) \notin held[s]
  <2>1. req[r].pc = "commit" /\ Free(r, Wants(r))
    BY DEF CommitSetupLink
  <2>2. Wants(r) = {TokenRow(t) : t \in others}
    BY <1>1, <2>1 DEF Wants, OthersOf
  <2> QED
    BY <2>1, <2>2 DEF Free
<1>4. /\ Fresh \subseteq TokenIds /\ \A t \in Fresh : ~token[t].made
      /\ \A t, u \in Fresh : t = u
  <2>1. unmade \in SUBSET Nat /\ IsFiniteSet(unmade)
    BY FiniteIds, FS_Subset
  <2>2. \A t, u \in Fresh : t = u
    BY <2>1, FirstIsOne
  <2> QED
    BY <2>2 DEF FirstOf
<1> HIDE DEF others, unmade, Fresh
<1>5. /\ token' \in [TokenIds -> Tokens]
      /\ \A t \in TokenIds : t \in others => token'[t].revoked /\ token'[t].made = token[t].made
      /\ \A t \in TokenIds : t \notin others /\ t \in Fresh => token'[t].made
      /\ \A t \in TokenIds : t \notin others /\ t \notin Fresh => token'[t] = token[t]
  <2>1. \A t \in TokenIds : token[t] \in Tokens
    BY DEF MembershipInv, Types
  <2> QED
    BY <1>2, <2>1 DEF Tokens, NoToken
<1>6. ASSUME NEW s \in Requests, s # r PROVE Respected(s)
  <2>1. \A t \in TokenIds : TokenRow(t) \in held[s] /\ Redeemable(t) => Redeemable(t)'
    BY <1>3, <1>4, <1>5, <1>6 DEF Redeemable
  <2> QED
    BY <1>1, <2>1 DEF Respected, Pending, RowsOf
<1>7. RowsPersist
  BY <1>1, <1>5 DEF RowsPersist
<1>8. /\ invite' \in [InviteIds -> Invites] /\ member' \in [MemberIds -> Members]
      /\ owner' \in [RowIds -> {Nobody} \union MemberIds] /\ history' \in Histories
      /\ history'.overlapped = history.overlapped
  BY <1>1 DEF MembershipInv, Types
<1>9. /\ Types' /\ LocksApart'
      /\ \A s \in Requests : RequestStands(s)'
      /\ ~history.overlapped => OneGenerates'
      /\ req'[r] = Idle /\ \A s \in Requests : s # r => req'[s] = req[s]
      /\ Founders' = Founders
  BY <1>1, <1>5, <1>6, <1>7, <1>8, CommitLeaves
<1>10. RowsStand' /\ PendingIsAlone' /\ DoorIsClosed' /\ ClaimedOnce' /\ OwnersExist'
  BY <1>1, <1>9 DEF MembershipInv, RowsStand, PendingIsAlone, DoorIsClosed, ClaimedOnce,
                    OwnersExist, Exists, Pending
<1>11. SetupIsOnce'
  <2> SUFFICES ASSUME ~history.overlapped PROVE OneTokenWorks' /\ ClaimedForGood'
    BY <1>1, <1>9 DEF SetupIsOnce
  <2>1. OneTokenWorks'
    <3>1. \A t \in TokenIds : token'[t].made /\ ~token'[t].revoked => t \in Fresh
      BY <1>1, <1>5
    <3> QED
      BY <1>4, <3>1 DEF OneTokenWorks, Redeemable
  <2>2. ASSUME NEW n \in Founders, history.claims[n] > 0
        PROVE  /\ member[n].status # "pending_setup"
               /\ \A s \in Requests : req'[s].token # 0 =>
                    ~(/\ token'[req'[s].token].made /\ ~token'[req'[s].token].used
                      /\ ~token'[req'[s].token].revoked)
    <3>1. /\ member[n].status # "pending_setup"
          /\ \A s \in Requests : req[s].token # 0 => ~Redeemable(req[s].token)
      BY <2>2 DEF MembershipInv, SetupIsOnce, ClaimedForGood
    <3>2. ASSUME NEW s \in Requests, s # r, req[s].token # 0
          PROVE  ~(/\ token'[req[s].token].made /\ ~token'[req[s].token].used
                   /\ ~token'[req[s].token].revoked)
      <4>1. token[req[s].token].made /\ req[s].token \in TokenIds
        BY <3>2 DEF MembershipInv, RequestStands, Knows, Types, RequestTypes
      <4> QED
        BY <1>4, <1>5, <3>1, <3>2, <4>1 DEF Redeemable
    <3> QED
      BY <1>9, <3>1, <3>2, IdleType
  <2> QED
    BY <1>1, <1>9, <2>1, <2>2 DEF ClaimedForGood, Redeemable
<1> QED
  BY <1>9, <1>10, <1>11 DEF MembershipInv

LEMMA CommitSetupKeeps ==
  ASSUME MembershipInv, NEW r \in Requests, CommitSetup(r)
  PROVE  MembershipInv'
<1> DEFINE t0 == req[r].token
           m == req[r].member
           others == req[r].others
<1>0. RequestStands(r) /\ req[r] \in RequestTypes
  BY DEF MembershipInv, Types
<1>1. /\ t0 \in TokenIds /\ t0 # 0 /\ TokenRow(t0) \in held[r] /\ Redeemable(t0)
      /\ m \in MemberIds /\ m # Nobody /\ m \in Founders /\ Row(m) \in held[r] /\ Exists(m)
      /\ End(r) /\ UNCHANGED <<world, invite, owner>>
  BY <1>0 DEF RequestStands, Fits, Holds, Knows, RequestTypes, CommitSetup
<1>2. /\ token' = [t \in TokenIds |->
            IF t = t0 THEN [token[t] EXCEPT !.used = TRUE]
            ELSE IF t \in others /\ Redeemable(t)
              THEN [token[t] EXCEPT !.revoked = TRUE]
            ELSE token[t]]
      /\ member' = [member EXCEPT ![m].status = "active"]
      /\ Claim(m)
  BY <1>1 DEF CommitSetup, SetStatus
<1>3. \A s \in Requests : s # r => \A t \in others : TokenRow(t) \notin held[s]
  <2>1. req[r].pc = "commit" /\ req[r].call = "redeemSetup" /\ Free(r, Wants(r))
    BY DEF CommitSetup
  <2>2. Wants(r) = {TokenRow(t) : t \in others}
    BY <2>1 DEF Wants, OthersOf
  <2> QED
    BY <2>1, <2>2 DEF Free
<1> HIDE DEF t0, m, others
<1>4. /\ token' \in [TokenIds -> Tokens]
      /\ \A t \in TokenIds : token'[t].made = token[t].made
      /\ \A t \in TokenIds : token[t].revoked => token'[t].revoked
      /\ \A t \in TokenIds : Redeemable(t)' => Redeemable(t) /\ t # t0
      /\ \A t \in TokenIds : Redeemable(t) /\ t # t0 /\ t \notin others => Redeemable(t)'
  <2>1. \A t \in TokenIds : token[t] \in Tokens
    BY DEF MembershipInv, Types
  <2>2. \A t \in TokenIds :
          /\ [token[t] EXCEPT !.used = TRUE] \in Tokens
          /\ [token[t] EXCEPT !.used = TRUE].made = token[t].made
          /\ [token[t] EXCEPT !.used = TRUE].revoked = token[t].revoked
          /\ [token[t] EXCEPT !.used = TRUE].used
          /\ [token[t] EXCEPT !.revoked = TRUE] \in Tokens
          /\ [token[t] EXCEPT !.revoked = TRUE].made = token[t].made
          /\ [token[t] EXCEPT !.revoked = TRUE].revoked
    BY <2>1 DEF Tokens
  <2>3. token' \in [TokenIds -> Tokens]
    BY <1>2, <2>1, <2>2
  <2>4. ASSUME NEW t \in TokenIds
        PROVE  /\ token'[t].made = token[t].made
               /\ token[t].revoked => token'[t].revoked
               /\ Redeemable(t)' => Redeemable(t) /\ t # t0
               /\ Redeemable(t) /\ t # t0 /\ t \notin others => Redeemable(t)'
    <3>1. CASE t = t0
      BY <1>1, <1>2, <2>2, <3>1 DEF Redeemable
    <3>2. CASE t # t0 /\ t \in others /\ Redeemable(t)
      BY <1>2, <2>2, <3>2 DEF Redeemable
    <3>3. CASE t # t0 /\ ~(t \in others /\ Redeemable(t))
      BY <1>2, <3>3 DEF Redeemable
    <3> QED
      BY <3>1, <3>2, <3>3
  <2> QED
    BY <2>3, <2>4
<1>5. /\ member' \in [MemberIds -> Members]
      /\ \A n \in MemberIds : n # m => member'[n] = member[n]
      /\ member'[m].status = "active"
  BY <1>1, <1>2 DEF MembershipInv, Types, Members, Statuses, SeatHolding
<1>6. /\ history' \in Histories /\ history'.overlapped = history.overlapped
      /\ history'.withdrawn = history.withdrawn /\ history'.late = history.late
      /\ \A n \in MemberIds : history.claims[n] \in 0 .. 2
      /\ \A n \in MemberIds : \/ history'.claims[n] = history.claims[n]
                              \/ n = m /\ history'.claims[n] = history.claims[n] + 1
  <2>1. history \in Histories
    BY DEF MembershipInv, Types
  <2>2. CASE history.claims[m] = 2
    BY <1>1, <1>2, <2>1, <2>2 DEF Claim, Histories
  <2>3. CASE history.claims[m] # 2
    <3>1. history' = [history EXCEPT !.claims[m] = @ + 1]
      BY <1>1, <1>2, <2>3 DEF Claim
    <3>2. history.claims[m] + 1 \in 0 .. 2
      BY <1>1, <2>1, <2>3 DEF Histories
    <3> QED
      BY <1>1, <2>1, <3>1, <3>2 DEF Histories
  <2> QED
    BY <2>2, <2>3
<1>7. ASSUME NEW s \in Requests, s # r PROVE Respected(s)
  <2>1. TokenRow(t0) \notin held[s] /\ Row(m) \notin held[s]
    BY <1>1, <1>7 DEF MembershipInv, LocksApart
  <2>2. \A t \in TokenIds : TokenRow(t) \in held[s] /\ Redeemable(t) => Redeemable(t)'
    BY <1>3, <1>4, <1>7, <2>1
  <2>3. \A n \in MemberIds : Row(n) \in held[s] => member'[n].status = member[n].status
    BY <1>5, <2>1
  <2> QED
    BY <1>1, <1>6, <2>2, <2>3 DEF Respected, Pending, RowsOf
<1>8. RowsPersist
  BY <1>1, <1>4, <1>5 DEF RowsPersist, Exists
<1>9. NoNewTokens
  BY <1>4 DEF NoNewTokens
<1>10. invite' \in [InviteIds -> Invites] /\ owner' \in [RowIds -> {Nobody} \union MemberIds]
  BY <1>1 DEF MembershipInv, Types
<1>11. /\ Types' /\ LocksApart'
       /\ \A s \in Requests : RequestStands(s)'
       /\ ~history.overlapped => OneGenerates'
       /\ req'[r] = Idle /\ \A s \in Requests : s # r => req'[s] = req[s]
       /\ Founders' = Founders
  BY <1>1, <1>4, <1>5, <1>6, <1>7, <1>8, <1>9, <1>10, CommitLeaves
<1>12. \A n \in MemberIds : Exists(n) => member'[n].status \notin {"none", "removed"}
  BY <1>5 DEF Exists
<1>13. RowsStand'
  <2>1. ASSUME NEW n \in MemberIds
        PROVE  /\ member'[n].status = "pending_setup" => n \in Founders
               /\ n \in Founders => member'[n].status # "none"
               /\ history'.claims[n] > 0 => member'[n].status # "none"
    BY <1>5, <1>6 DEF MembershipInv, RowsStand
  <2>2. \A i \in InviteIds : invite[i].member \in {Nobody} \union MemberIds
    BY DEF MembershipInv, Types, Invites
  <2> QED
    BY <1>1, <1>11, <1>12, <2>1, <2>2 DEF MembershipInv, RowsStand, Exists
<1>14. PendingIsAlone'
  BY <1>1 DEF MembershipInv, PendingIsAlone, Pending
<1>15. DoorIsClosed'
  <2>1. ASSUME NEW n \in history.withdrawn
        PROVE  n \notin Founders /\ member'[n].status \in {"deleted", "removed"}
    <3>1. n \in MemberIds /\ n \notin Founders /\ member[n].status \in {"deleted", "removed"}
      BY DEF MembershipInv, DoorIsClosed, Types, Histories
    <3> QED
      BY <1>1, <1>5, <3>1
  <2>2. \A n \in MemberIds : history'.claims[n] > 0 /\ n \notin Founders => history.claims[n] > 0
    BY <1>1, <1>6
  <2> QED
    BY <1>1, <1>6, <1>11, <2>1, <2>2 DEF MembershipInv, DoorIsClosed, Pending
<1>16. ~history.overlapped => \A t \in TokenIds : ~Redeemable(t)'
  BY <1>1, <1>4 DEF MembershipInv, SetupIsOnce, OneTokenWorks
<1>17. SetupIsOnce'
  <2> SUFFICES ASSUME ~history.overlapped PROVE OneTokenWorks' /\ ClaimedForGood'
    BY <1>6, <1>11 DEF SetupIsOnce
  <2>1. OneTokenWorks'
    BY <1>16 DEF OneTokenWorks
  <2>2. \A n \in Founders : n = m
    BY <1>1, WorldFacts DEF MembershipInv
  <2>3. ASSUME NEW s \in Requests, req'[s].token # 0
        PROVE  ~(/\ token'[req'[s].token].made /\ ~token'[req'[s].token].used
                 /\ ~token'[req'[s].token].revoked)
    <3>1. req'[s].token \in TokenIds
      BY <1>11, <2>3 DEF Types, RequestTypes
    <3> QED
      BY <1>16, <3>1 DEF Redeemable
  <2> QED
    BY <1>5, <1>11, <2>1, <2>2, <2>3 DEF ClaimedForGood, Redeemable
<1>18. ClaimedOnce'
  <2>1. \A n \in MemberIds : history.claims[n] <= 1 \/ history.overlapped
    BY DEF MembershipInv, ClaimedOnce
  <2>2. ~history.overlapped => ~(history.claims[m] > 0)
    BY <1>1 DEF MembershipInv, SetupIsOnce, ClaimedForGood, m, t0
  <2>3. ASSUME NEW n \in MemberIds PROVE history'.claims[n] <= 1 \/ history.overlapped
    BY <1>6, <2>1, <2>2
  <2> QED
    BY <1>6, <2>3 DEF ClaimedOnce
<1>19. OwnersExist'
  BY <1>1, <1>6, <1>12 DEF MembershipInv, OwnersExist, Types, Exists
<1> QED
  BY <1>11, <1>13, <1>14, <1>15, <1>17, <1>18, <1>19 DEF MembershipInv

LEMMA ExpireInviteKeeps ==
  ASSUME MembershipInv, NEW i \in InviteIds, ExpireInvite(i)
  PROVE  MembershipInv'
<1>1. /\ invite' = [invite EXCEPT ![i].expired = TRUE]
      /\ UNCHANGED <<world, member, token, owner, req, held, history>>
  BY DEF ExpireInvite
<1>2. /\ invite' \in [InviteIds -> Invites]
      /\ \A j \in InviteIds :
           invite'[j].state = invite[j].state /\ invite'[j].member = invite[j].member
  BY <1>1 DEF MembershipInv, Types, Invites
<1>3. Founders' = Founders
  BY <1>1, WorldStays
<1>4. ASSUME NEW s \in Requests PROVE RequestStands(s)'
  <2>1. Respected(s)
    BY <1>1, <1>2 DEF Respected, Pending, Redeemable, RowsOf
  <2>2. RowsPersist /\ NoNewTokens
    BY <1>1, <1>2 DEF RowsPersist, NoNewTokens
  <2> QED
    BY <1>1, <1>3, <2>1, <2>2, OthersStand
<1>5. Types' /\ LocksApart'
  BY <1>1, <1>2 DEF MembershipInv, Types, LocksApart
<1>6. RowsStand' /\ PendingIsAlone' /\ DoorIsClosed'
  BY <1>1, <1>2, <1>3 DEF MembershipInv, RowsStand, PendingIsAlone, DoorIsClosed, Exists, Pending
<1>7. SetupIsOnce'
  BY <1>1, <1>3 DEF MembershipInv, SetupIsOnce, OneTokenWorks, OneGenerates, ClaimedForGood,
                    Redeemable
<1>8. ClaimedOnce' /\ OwnersExist'
  BY <1>1 DEF MembershipInv, ClaimedOnce, OwnersExist, Exists
<1> QED
  BY <1>4, <1>5, <1>6, <1>7, <1>8 DEF MembershipInv

\* Neither writes a row that a request has locked: a row inserted for a
\* member whose rows are being looked for is a late one.
LEMMA CreateRowKeeps ==
  ASSUME MembershipInv, NEW m \in MemberIds, SignIn(m) \/ CreateRow(m)
  PROVE  MembershipInv'
<1>1. UNCHANGED <<world, member, invite, token, req, held>>
  BY DEF SignIn, CreateRow, rows
<1>2. /\ history' \in Histories /\ history'.overlapped = history.overlapped
      /\ history'.withdrawn = history.withdrawn /\ history'.claims = history.claims
      /\ history.late \subseteq history'.late
  BY DEF SignIn, CreateRow, MembershipInv, Types, Histories
<1>3. /\ owner' \in [RowIds -> {Nobody} \union MemberIds]
      /\ \A y \in RowIds :
           \/ owner'[y] = owner[y]
           \/ /\ owner[y] = Nobody /\ owner'[y] = m
              /\ Leaving(m) => y \in history'.late
  <2>1. CASE SignIn(m)
    BY <2>1 DEF SignIn, rows, MembershipInv, Types
  <2>2. CASE CreateRow(m)
    <3>1. PICK x \in RowIds :
            /\ owner[x] = Nobody /\ owner' = [owner EXCEPT ![x] = m]
            /\ history' = [history EXCEPT !.late = IF Leaving(m) THEN @ \union {x} ELSE @]
      BY <2>2 DEF CreateRow
    <3>2. Leaving(m) => x \in history'.late
      BY <3>1 DEF MembershipInv, Types, Histories
    <3> QED
      BY <3>1, <3>2 DEF MembershipInv, Types
  <2> QED
    BY <2>1, <2>2
<1>4. Founders' = Founders
  BY <1>1, WorldStays
<1>5. ASSUME NEW s \in Requests PROVE RequestStands(s)'
  <2>1. ASSUME req[s].pc \in {"update", "remove"}, NEW x \in RowIds
        PROVE  /\ owner[x] = req[s].member => owner'[x] = owner[x]
               /\ owner'[x] = req[s].member => owner[x] = req[s].member \/ x \in history'.late
    <3>1. req[s].member # Nobody
      BY <2>1 DEF MembershipInv, RequestStands, Fits
    <3>2. req[s].member = m => Leaving(m)
      BY <2>1 DEF Leaving
    <3> QED
      BY <1>3, <3>1, <3>2
  <2>2. Respected(s)
    BY <1>1, <1>2, <2>1 DEF Respected, Pending, Redeemable
  <2>3. RowsPersist /\ NoNewTokens
    BY <1>1 DEF RowsPersist, NoNewTokens
  <2> QED
    BY <1>1, <1>2, <1>4, <2>2, <2>3, OthersStand
<1>6. Types' /\ LocksApart'
  BY <1>1, <1>2, <1>3 DEF MembershipInv, Types, LocksApart
<1>7. RowsStand' /\ PendingIsAlone' /\ DoorIsClosed' /\ ClaimedOnce'
  BY <1>1, <1>2, <1>4 DEF MembershipInv, RowsStand, PendingIsAlone, DoorIsClosed, ClaimedOnce,
                          Exists, Pending
<1>8. SetupIsOnce'
  BY <1>1, <1>2, <1>4 DEF MembershipInv, SetupIsOnce, OneTokenWorks, OneGenerates,
                          ClaimedForGood, Redeemable
<1>9. OwnersExist'
  BY <1>1, <1>2, <1>3 DEF MembershipInv, OwnersExist, Exists, Leaving
<1> QED
  BY <1>5, <1>6, <1>7, <1>8, <1>9 DEF MembershipInv

LEMMA NothingKeeps ==
  ASSUME MembershipInv, UNCHANGED vars
  PROVE  MembershipInv'
<1>1. UNCHANGED <<world, member, invite, token, owner, req, held, history>>
  BY DEF vars
<1>2. Founders' = Founders
  BY <1>1, WorldStays
<1>3. ASSUME NEW s \in Requests PROVE RequestStands(s)'
  <2>1. Respected(s)
    BY <1>1 DEF Respected, Pending, Redeemable, RowsOf
  <2>2. RowsPersist /\ NoNewTokens
    BY <1>1 DEF RowsPersist, NoNewTokens
  <2> QED
    BY <1>1, <1>2, <2>1, <2>2, OthersStand
<1>4. Types' /\ LocksApart'
  BY <1>1 DEF MembershipInv, Types, LocksApart
<1>5. RowsStand' /\ PendingIsAlone' /\ DoorIsClosed'
  BY <1>1, <1>2 DEF MembershipInv, RowsStand, PendingIsAlone, DoorIsClosed, Exists, Pending
<1>6. SetupIsOnce'
  BY <1>1, <1>2 DEF MembershipInv, SetupIsOnce, OneTokenWorks, OneGenerates, ClaimedForGood,
                    Redeemable
<1>7. ClaimedOnce' /\ OwnersExist'
  BY <1>1 DEF MembershipInv, ClaimedOnce, OwnersExist, Exists
<1> QED
  BY <1>3, <1>4, <1>5, <1>6, <1>7 DEF MembershipInv

-----------------------------------------------------------------------------
(* The invariant *)

LEMMA InitInvariant ==
  ASSUME Init
  PROVE  MembershipInv
<1>1. /\ world \in Worlds /\ member = world.members
      /\ invite = [i \in InviteIds |->
                 IF i \in First(world, "pending_invite")
                   THEN [NoInvite EXCEPT !.state = "pending", !.member = i]
                   ELSE NoInvite]
      /\ token = [t \in TokenIds |->
                [NoToken EXCEPT !.made = t \in First(world, "pending_setup")]]
      /\ owner = [x \in RowIds |->
                IF world.owning /\ x \in First(world, "active") THEN x ELSE Nobody]
      /\ req = [r \in Requests |-> Idle]
      /\ held = [r \in Requests |-> {}]
      /\ history = [withdrawn |-> {}, claims |-> [m \in MemberIds |-> 0],
                    overlapped |-> FALSE, signedIn |-> First(world, "active"), late |-> {}]
  BY DEF Init
<1>2. /\ world.members \in [MemberIds -> Members] /\ world.left \in Nat
      /\ \A m, n \in Founders : m = n
      /\ Founders = {m \in MemberIds : member[m].status = "pending_setup"}
  BY <1>1, ConstantsAssumption DEF Founders, First
<1>3. \E w \in Worlds : world = [w EXCEPT !.left = world.left] /\ world.left \in 0 .. w.left
  <2>1. world = [field \in DOMAIN world |-> world[field]]
    BY <1>1, ConstantsAssumption
  <2>2. world = [world EXCEPT !.left = world.left]
    BY <2>1
  <2>3. world.left \in 0 .. world.left
    BY <1>2
  <2> QED
    BY <1>1, <2>2, <2>3
<1>4. /\ \A m \in MemberIds : m # Nobody
      /\ \A w : First(w, "pending_invite") \subseteq MemberIds
      /\ \A w : First(w, "active") \subseteq MemberIds
  BY DEF First, MemberIds, Nobody
<1>5. invite \in [InviteIds -> Invites]
  BY <1>1, <1>4 DEF Invites, NoInvite
<1>6. token \in [TokenIds -> Tokens]
  <2>1. ASSUME NEW b \in BOOLEAN
        PROVE  [NoToken EXCEPT !.made = b] \in Tokens
    BY DEF Tokens, NoToken
  <2>2. \A t \in TokenIds : (t \in First(world, "pending_setup")) \in BOOLEAN
    OBVIOUS
  <2>3. \A t \in TokenIds : [NoToken EXCEPT !.made = t \in First(world, "pending_setup")] \in Tokens
    BY <2>1, <2>2
  <2> QED
    BY <1>1, <2>3
<1>7. owner \in [RowIds -> {Nobody} \union MemberIds]
  BY <1>1, <1>4
<1>8. /\ history \in Histories /\ history.withdrawn = {} /\ ~history.overlapped
      /\ \A m \in MemberIds : history.claims[m] = 0
  <2>1. [m \in MemberIds |-> 0] \in [MemberIds -> 0 .. 2]
    OBVIOUS
  <2> DEFINE none == [m \in MemberIds |-> 0]
  <2>2. \A m \in MemberIds : none[m] = 0
    OBVIOUS
  <2>3. none \in [MemberIds -> 0 .. 2]
    BY <2>1
  <2>4. history = [withdrawn |-> {}, claims |-> none, overlapped |-> FALSE,
                   signedIn |-> First(world, "active"), late |-> {}]
    BY <1>1
  <2> HIDE DEF none
  <2>5. history \in Histories
    BY <1>4, <2>3, <2>4 DEF Histories
  <2> QED
    BY <2>2, <2>4, <2>5
<1>9. Types
  BY <1>1, <1>2, <1>3, <1>5, <1>6, <1>7, <1>8, IdleType DEF Types
<1>10. ASSUME NEW r \in Requests PROVE RequestStands(r)
  BY <1>1 DEF RequestStands, Fits, Holds, Knows, Idle, Nobody, OfInvite, Admitting
<1>11. LocksApart
  BY <1>1 DEF LocksApart
<1>12. ASSUME NEW i \in InviteIds
       PROVE  /\ i \in First(world, "pending_invite") =>
                   /\ invite[i].member = i /\ invite[i].state = "pending"
                   /\ i \in MemberIds /\ member[i].status = "pending_invite"
              /\ i \notin First(world, "pending_invite") =>
                   invite[i].member = Nobody /\ invite[i].state = "none"
  BY <1>1 DEF NoInvite, First
<1>13. RowsStand
  BY <1>2, <1>4, <1>8, <1>12 DEF RowsStand, Exists
<1>14. PendingIsAlone /\ DoorIsClosed
  BY <1>8, <1>12 DEF PendingIsAlone, DoorIsClosed, Pending
<1>15. SetupIsOnce
  <2>1. \A t \in TokenIds : Redeemable(t) => t \in Founders
    BY <1>1 DEF Redeemable, NoToken, Founders
  <2>2. OneTokenWorks
    BY <1>2, <2>1 DEF OneTokenWorks
  <2>3. OneGenerates
    BY <1>1, IdleType DEF OneGenerates
  <2>4. ClaimedForGood
    BY <1>2, <1>8 DEF ClaimedForGood
  <2> QED
    BY <2>2, <2>3, <2>4 DEF SetupIsOnce
<1>16. ClaimedOnce
  BY <1>8 DEF ClaimedOnce
<1>17. OwnersExist
  BY <1>1, <1>4 DEF OwnersExist, Exists, First
<1> QED
  BY <1>9, <1>10, <1>11, <1>13, <1>14, <1>15, <1>16, <1>17 DEF MembershipInv

LEMMA StepInvariant ==
  ASSUME MembershipInv, [Next]_vars
  PROVE  MembershipInv'
<1>1. ASSUME NEW r \in Requests, Call(r) PROVE MembershipInv'
  BY <1>1, CallKeeps
<1>2. ASSUME NEW r \in Requests, Proceed(r) PROVE MembershipInv'
  <2>1. CASE \E what \in {"occupied", "invited"} : CountSeats(r, what)
    BY <2>1, CountSeatsKeeps
  <2>2. CASE \/ AssertSeatsAvailable(r) \/ AssertEmailAvailable(r) \/ RunOutOfRows(r)
             \/ FindInvitedMember(r) \/ AbortDeadlocked(r)
    BY <2>2, ReadingKeeps
  <2>3. CASE ConsumeInvite(r) \/ ConsumeSetupToken(r)
    BY <2>3, ConsumingKeeps
  <2>4. CASE LockSource(r) \/ LockTarget(r)
    BY <2>4, LockingRowsKeeps
  <2>5. CASE TouchMember(r)
    BY <2>5, TouchMemberKeeps
  <2>6. CASE InsertMembers(r)
    BY <2>6, InsertMembersKeeps
  <2>7. CASE InsertReplacement(r)
    BY <2>7, InsertReplacementKeeps
  <2>8. CASE CommitRevocation(r)
    BY <2>8, CommitRevocationKeeps
  <2>9. CASE CommitRedemption(r)
    BY <2>9, CommitRedemptionKeeps
  <2>10. CASE CommitSoftDelete(r)
    BY <2>10, CommitSoftDeleteKeeps
  <2>11. CASE RemoveMember(r)
    BY <2>11, RemoveMemberKeeps
  <2>12. CASE CommitSetupLink(r)
    BY <2>12, CommitSetupLinkKeeps
  <2>13. CASE CommitSetup(r)
    BY <2>13, CommitSetupKeeps
  <2>14. CASE TransferRows(r) \/ UpdateRows(r)
    BY <2>14, TransferKeeps
  <2> QED
    BY <1>2, <2>1, <2>2, <2>3, <2>4, <2>5, <2>6, <2>7, <2>8, <2>9, <2>10, <2>11, <2>12, <2>13,
       <2>14 DEF Proceed
<1>3. ASSUME NEW i \in InviteIds, ExpireInvite(i) PROVE MembershipInv'
  BY <1>3, ExpireInviteKeeps
<1>4. ASSUME NEW m \in MemberIds, SignIn(m) \/ CreateRow(m) PROVE MembershipInv'
  BY <1>4, CreateRowKeeps
<1>5. ASSUME UNCHANGED vars PROVE MembershipInv'
  BY <1>5, NothingKeeps
<1> QED
  BY <1>1, <1>2, <1>3, <1>4, <1>5 DEF Next, Rest

THEOREM MembershipInvariant == Spec => []MembershipInv
<1>1. Init => MembershipInv
  BY InitInvariant
<1>2. MembershipInv /\ [Next]_vars => MembershipInv'
  BY StepInvariant
<1> QED
  BY <1>1, <1>2, PTL DEF Spec

-----------------------------------------------------------------------------
(* What follows *)

(* Rows, requests and locks are what Membership says they are, and no lock   *)
(* is held twice, or by a request that has ended.                            *)
THEOREM MembershipTypeCorrect == Spec => []TypeOK
<1>1. MembershipInv => TypeOK
  <2> SUFFICES ASSUME MembershipInv PROVE TypeOK
    OBVIOUS
  <2>1. history.withdrawn \subseteq MemberIds /\ history.claims \in [MemberIds -> 0 .. 2]
        /\ history.overlapped \in BOOLEAN
        /\ history.signedIn \subseteq MemberIds /\ history.late \subseteq RowIds
    BY DEF MembershipInv, Types, Histories
  <2>2. \A r \in Requests : held[r] \subseteq Locks /\ (req[r].pc = "idle" => held[r] = {})
    BY DEF MembershipInv, Types, RequestStands, Holds
  <2> QED
    BY <2>1, <2>2 DEF MembershipInv, Types, LocksApart, TypeOK
<1> QED
  BY <1>1, MembershipInvariant, PTL

\* A set whose elements are all the same has one at most.
LEMMA AtMostOne ==
  ASSUME NEW S, IsFiniteSet(S), \A x, y \in S : x = y
  PROVE  Cardinality(S) <= 1
<1>1. CASE S = {}
  BY <1>1, FS_EmptySet
<1>2. CASE S # {}
  <2> PICK x \in S : TRUE
    BY <1>2
  <2>1. S = {x}
    OBVIOUS
  <2> QED
    BY <2>1, FS_Singleton
<1> QED
  BY <1>1, <1>2

LEMMA InvariantHoldsInvitations == MembershipInv => InvitationsHold
<1> SUFFICES ASSUME MembershipInv PROVE InvitationsHold
  OBVIOUS
<1>1. ASSUME NEW m \in MemberIds
      PROVE  Cardinality({i \in InvitesOf(m) : Pending(i)}) <= 1
  <2> DEFINE S == {i \in InvitesOf(m) : Pending(i)}
  <2>1. S \in SUBSET InviteIds
    BY DEF InvitesOf
  <2>2. IsFiniteSet(S)
    BY <2>1, FiniteIds, FS_Subset
  <2>3. m # Nobody
    BY DEF MemberIds, Nobody
  <2>4. \A i, j \in S : i = j
    BY <2>3 DEF MembershipInv, PendingIsAlone, InvitesOf
  <2> HIDE DEF S
  <2>5. Cardinality(S) <= 1
    BY <2>2, <2>4, AtMostOne
  <2> QED
    BY <2>5 DEF S
<1>2. OneLiveInvite
  BY <1>1 DEF OneLiveInvite
<1>3. WithdrawnStaysOut
  BY DEF MembershipInv, DoorIsClosed, WithdrawnStaysOut
<1> QED
  BY <1>2, <1>3 DEF MembershipInv, InvitationsHold

(* An invitation brings in one person, once, and only until it is withdrawn, *)
(* however sends, resends, revocations, redemptions and deletions cross.     *)
THEOREM InvitationsAreHonoured == Spec => []InvitationsHold
BY MembershipInvariant, InvariantHoldsInvitations, PTL

(* Every row of a dynamic table that has an owner has one whose membership   *)
(* is still there, however deletions and transfers cross, unless the row was *)
(* inserted when the owner had gone or its rows were being moved.            *)
THEOREM OwnersAreThere == Spec => []OwnersExist
<1>1. MembershipInv => OwnersExist
  BY DEF MembershipInv
<1> QED
  BY <1>1, MembershipInvariant, PTL

(* hardDelete() hands over the rows of the member, each to somebody active,  *)
(* or deletes nobody; nothing else takes a row from its owner.               *)
THEOREM NoRowIsOrphaned == Spec => RowsChangeHands
<1>1. ASSUME MembershipInv, [Next]_vars
      PROVE  [\A x \in RowIds : HandsOver(x)]_vars
  <2>1. CASE UNCHANGED owner
    BY <2>1 DEF HandsOver
  <2>2. ASSUME NEW r \in Requests, RemoveMember(r), NEW x \in RowIds PROVE HandsOver(x)
    <3> DEFINE m == req[r].member
               target == req[r].target
    <3>1. /\ req[r].pc = "remove"
          /\ member' = [member EXCEPT ![m].status = "removed"]
          /\ owner' = [y \in RowIds |-> IF y \in req[r].others THEN target ELSE owner[y]]
      BY <2>2 DEF RemoveMember
    <3>2. /\ Fits(req[r]) /\ Holds(r) /\ req[r] \in RequestTypes
          /\ member \in [MemberIds -> Members]
      BY <1>1 DEF MembershipInv, RequestStands, Types
    <3>3. /\ req[r].others \subseteq RowsOf(m) /\ (target = Nobody => req[r].others = {})
          /\ m \in MemberIds /\ m # target /\ Exists(m)
          /\ target # Nobody => target \in MemberIds /\ member[target].status = "active"
      BY <3>1, <3>2 DEF Holds, Fits, RequestTypes, Present
    <3> HIDE DEF m, target
    <3>4. CASE x \in req[r].others
      <4>1. owner[x] = m /\ owner'[x] = target /\ target # Nobody
        BY <3>1, <3>3, <3>4 DEF RowsOf
      <4>2. member'[m].status = "removed" /\ member'[target].status = "active"
        BY <3>1, <3>2, <3>3, <4>1 DEF Members
      <4> QED
        BY <3>3, <4>1, <4>2 DEF HandsOver
    <3>5. CASE x \notin req[r].others
      BY <3>1, <3>5 DEF HandsOver
    <3> QED
      BY <3>4, <3>5
  <2>3. ASSUME NEW m \in MemberIds, CreateRow(m), NEW x \in RowIds PROVE HandsOver(x)
    <3>1. PICK y \in RowIds : owner[y] = Nobody /\ owner' = [owner EXCEPT ![y] = m]
      BY <2>3 DEF CreateRow
    <3> QED
      BY <1>1, <2>3, <3>1 DEF MembershipInv, Types, HandsOver
  <2>4. ASSUME NEW r \in Requests, Call(r) PROVE UNCHANGED owner
    BY <2>4 DEF Call, CreateInvites, DirectCreate, Register, Admit, ResendInvite, RevokeInvite,
         RedeemInvite, SoftDelete, HardDelete, GenerateSetupLink, RedeemSetupToken, Begin, rows
  <2>5. ASSUME NEW r \in Requests, Proceed(r), ~RemoveMember(r) PROVE UNCHANGED owner
    <3>1. ASSUME Rollback(r) PROVE UNCHANGED owner
      BY <3>1 DEF Rollback, rows
    <3>2. ASSUME NEW what, CountSeats(r, what) PROVE UNCHANGED owner
      BY <3>2 DEF CountSeats, rows
    <3>3. CASE \/ AssertSeatsAvailable(r) \/ AssertEmailAvailable(r) \/ RunOutOfRows(r)
               \/ FindInvitedMember(r) \/ TransferRows(r) \/ UpdateRows(r) \/ AbortDeadlocked(r)
      BY <3>1, <3>3 DEF AssertSeatsAvailable, AssertEmailAvailable, RunOutOfRows,
           FindInvitedMember, TransferRows, UpdateRows, AbortDeadlocked, rows
    <3>4. CASE \/ ConsumeInvite(r) \/ ConsumeSetupToken(r) \/ LockSource(r) \/ LockTarget(r)
               \/ TouchMember(r)
      BY <3>1, <3>4 DEF ConsumeInvite, ConsumeSetupToken, LockSource, LockTarget, TouchMember, rows
    <3>5. CASE \/ InsertMembers(r) \/ InsertReplacement(r) \/ CommitRevocation(r)
               \/ CommitRedemption(r) \/ CommitSoftDelete(r) \/ CommitSetupLink(r)
               \/ CommitSetup(r)
      BY <3>1, <3>5 DEF InsertMembers, InsertReplacement, CommitRevocation, CommitRedemption,
           CommitSoftDelete, CommitSetupLink, CommitSetup
    <3> QED
      BY <2>5, <3>2, <3>3, <3>4, <3>5 DEF Proceed
  <2>6. ASSUME NEW i \in InviteIds, ExpireInvite(i) PROVE UNCHANGED owner
    BY <2>6 DEF ExpireInvite
  <2>7. ASSUME NEW m \in MemberIds, SignIn(m) PROVE UNCHANGED owner
    BY <2>7 DEF SignIn, rows
  <2> QED
    BY <1>1, <2>1, <2>2, <2>3, <2>4, <2>5, <2>6, <2>7 DEF Next, Rest, vars
<1> QED
  BY <1>1, MembershipInvariant, PTL DEF Spec, RowsChangeHands

\* The two together: whatever overlaps a hardDelete(), the rows it finds go to
\* a member who is active, and no row is left without an owner but those that
\* were inserted during it or after.
THEOREM RowsStayOwned == Spec => RowsKeepTheirOwners
BY OwnersAreThere, NoRowIsOrphaned, PTL DEF RowsKeepTheirOwners

-----------------------------------------------------------------------------
(* The pages *)

(* The pages behind the links call what any client calls: with them, too,    *)
(* the members of the tenant are those Membership allows.                    *)
THEOREM PagesAreClients == LinkSpec => Spec
<1>1. LinkInit => Init
  BY DEF LinkInit
<1>2. [LinkNext]_linkVars => [Next]_vars
  <2> SUFFICES ASSUME [LinkNext]_linkVars PROVE [Next]_vars
    OBVIOUS
  <2>1. CASE Elsewhere
    BY <2>1 DEF Elsewhere, Next
  <2>2. ASSUME NEW r \in Requests, Proceed(r) PROVE Next
    BY <2>2 DEF Next
  <2>3. ASSUME NEW g \in Pages, NEW r \in Requests, SubmitInvite(g, r) \/ SubmitSetup(g, r)
        PROVE  Next
    BY <2>3 DEF SubmitInvite, SubmitSetup, Next, Call
  <2>4. ASSUME NEW g \in Pages, Open(g) \/ SubmitInVain(g) \/ Receive(g) \/ LoseAnswer(g)
        PROVE  UNCHANGED vars
    BY <2>4 DEF Open, SubmitInVain, Receive, LoseAnswer
  <2>5. CASE UNCHANGED linkVars
    BY <2>5 DEF linkVars
  <2> QED
    BY <2>1, <2>2, <2>3, <2>4, <2>5 DEF LinkNext
<1> QED
  BY <1>1, <1>2, PTL DEF LinkSpec, Spec

-----------------------------------------------------------------------------
(* Races for the seats and the addresses of a tenant                         *)

\* Requests on their way to bring a member in without another look at the
\* seats or the address: those that have found the member of an invitation,
\* replace an invitation, or redeem one or a setup token.
Finds(r) == req[r].call = "redeemInvite" /\ req[r].pc = "findMember"
Resends(r) == req[r].call = "resendInvite" /\ req[r].pc \in {"consume", "insertInvite"}
Redeeming(r) ==
  req[r].call \in {"redeemInvite", "redeemSetup"} /\ req[r].pc \in {"consume", "touch", "commit"}
Finders == {r \in Requests : Finds(r)}
Resenders == {r \in Requests : Resends(r)}
Redeemers == {r \in Requests : Redeeming(r)}
About(R) == {req[r].member : r \in R}

\* The members who hold a seat, and those who will without being counted again.
LiveFor(m) == \E i \in InvitesOf(m) : Pending(i) /\ ~invite[i].expired
Promised == {m \in MemberIds : member[m].status = "pending_invite" /\ LiveFor(m)}
Seated == {m \in MemberIds : member[m].status \in SeatHolding}
Awaited ==
  {m \in MemberIds : /\ member[m].status = "pending_invite"
                     /\ LiveFor(m) \/ m \in About(Resenders)}
Coming == {m \in MemberIds : member[m].status = "pending_invite" /\ m \in About(Finders)}
SeatHolders == Seated \union Awaited \union Coming \union (MemberIds \intersect About(Redeemers))
HoldersOf(e) ==
  {m \in MemberIds : member[m].email = e /\ (Present(m) \/ m \in About(Redeemers))}

\* The requests that have counted these seats and found room so far.
Checking == {"count", "checkEmails", "insertMembers"}
Counted(what) ==
  {r \in Requests : /\ req[r].pc \in Checking /\ what \notin req[r].todo
                    /\ req[r].seats + Asked(req[r]) <= world.maxUsers}
Inserters(e) == {r \in Requests : req[r].pc = "insertMembers" /\ e \in req[r].batch}

\* All requests of S but the last to count may still add n seats to the c
\* that are taken; the last one adds what it has asked for.
Asks == [r \in Requests |-> Asked(req[r])]
Within(c, S, asks, n, limit) ==
  \/ c + Cardinality(S) * n <= limit
  \/ \E r \in S : c + asks[r] + (Cardinality(S) - 1) * n <= limit

Limit(n) == world.maxUsers + (Cardinality(Requests) - 1) * n
SeatsStand ==
  \A n \in {MaxBatch, world.maxUsers} :
    /\ Within(Cardinality(Awaited), Counted("invited"), Asks, n, Limit(n))
    /\ Within(Cardinality(SeatHolders), Counted("occupied"), Asks, n, 2 * Limit(n))

AddressesStand ==
  \A e \in Emails :
    Cardinality(HoldersOf(e)) + Cardinality(Inserters(e)) <= Cardinality(Requests)

\* A batch is of its size, and a request that has gone on has found room.
HasRoom(q) == q.todo = {} /\ q.seats + Asked(q) <= world.maxUsers
Fitting(q) ==
  /\ q.pc \in Checking /\ q.call # "resendInvite" => Cardinality(q.batch) \in 1 .. MaxBatch
  /\ q.pc \in {"checkEmails", "insertMembers"} => HasRoom(q)
ChecksStand == \A r \in Requests : Fitting(req[r])

RaceInv == SeatsStand /\ AddressesStand /\ ChecksStand

-----------------------------------------------------------------------------
(* Sums                                                                      *)

LEMMA Shares ==
  ASSUME NEW k \in Nat, NEW l \in Nat, NEW n \in Nat
  PROVE  /\ k * n \in Nat /\ (k + 1) * n = k * n + n /\ (k - 1) * n = k * n - n
         /\ k <= l => k * n <= l * n
<1>1. k * n \in Nat /\ (k + 1) * n = k * n + n /\ (k - 1) * n = k * n - n
  OBVIOUS
<1>2. ASSUME k <= l PROVE k * n <= l * n
  <2>1. (l - k) \in Nat
    BY <1>2
  <2>2. (l - k) * n \in Nat
    BY <2>1
  <2>3. l * n = k * n + (l - k) * n
    OBVIOUS
  <2> QED
    BY <2>2, <2>3
<1> QED
  BY <1>1, <1>2

LEMMA Smaller ==
  ASSUME NEW S, IsFiniteSet(S), NEW T, T \subseteq S
  PROVE  IsFiniteSet(T) /\ Cardinality(T) \in Nat /\ Cardinality(S) \in Nat
         /\ Cardinality(T) <= Cardinality(S)
BY FS_Subset, FS_CardinalityType

\* Nobody else may still add seats, and no more are taken.
LEMMA WithinFalls ==
  ASSUME NEW S, IsFiniteSet(S), NEW T, T \subseteq S, NEW c \in Nat, NEW d \in Nat, d <= c,
         NEW n \in Nat, NEW limit \in Nat, NEW asks, NEW later,
         \A r \in S : asks[r] \in Nat, \A r \in T : later[r] = asks[r],
         Within(c, S, asks, n, limit)
  PROVE  Within(d, T, later, n, limit)
<1> DEFINE s == Cardinality(S)
           t == Cardinality(T)
<1>1. s \in Nat /\ t \in Nat /\ t <= s
  BY Smaller
<1>2. t * n <= s * n /\ t * n \in Nat /\ s * n \in Nat
      /\ (s - 1) * n = s * n - n /\ (t - 1) * n = t * n - n
  BY <1>1, Shares
<1>3. CASE c + s * n <= limit
  BY <1>1, <1>2, <1>3 DEF Within
<1>4. ASSUME NEW r \in S, c + asks[r] + (s - 1) * n <= limit
      PROVE  Within(d, T, later, n, limit)
  <2>1. CASE r \in T
    <3>1. d + later[r] + (t - 1) * n <= limit
      BY <1>1, <1>2, <1>4, <2>1
    <3> QED
      BY <2>1, <3>1 DEF Within
  <2>2. CASE r \notin T
    <3>1. T \subseteq S \ {r} /\ IsFiniteSet(S \ {r}) /\ Cardinality(S \ {r}) = s - 1
      BY <2>2, FS_RemoveElement
    <3>2. t <= s - 1 /\ s - 1 \in Nat
      BY <1>1, <3>1, Smaller, FS_CardinalityType
    <3>3. t * n <= (s - 1) * n
      BY <1>1, <3>2, Shares
    <3>4. d + t * n <= limit
      BY <1>1, <1>2, <1>4, <3>3
    <3> QED
      BY <3>4 DEF Within
  <2> QED
    BY <2>1, <2>2
<1> QED
  BY <1>3, <1>4 DEF Within

\* One of the requests adds what it has asked for.
LEMMA WithinSpends ==
  ASSUME NEW S, IsFiniteSet(S), NEW r \in S, NEW T, T \subseteq S \ {r},
         NEW c \in Nat, NEW d \in Nat, NEW n \in Nat, NEW limit \in Nat, NEW asks, NEW later,
         \A q \in S : asks[q] \in Nat, \A q \in T : later[q] = asks[q],
         d <= c + asks[r], asks[r] <= n,
         Within(c, S, asks, n, limit)
  PROVE  Within(d, T, later, n, limit)
<1> DEFINE s == Cardinality(S)
           t == Cardinality(T)
<1>1. IsFiniteSet(S \ {r}) /\ Cardinality(S \ {r}) = s - 1 /\ s \in Nat
  BY FS_RemoveElement, FS_CardinalityType
<1>2. t \in Nat /\ s - 1 \in Nat /\ t <= s - 1
  BY <1>1, Smaller
<1>3. t * n <= (s - 1) * n /\ t * n \in Nat /\ s * n \in Nat
      /\ (s - 1) * n = s * n - n /\ (t - 1) * n = t * n - n
  BY <1>1, <1>2, Shares
<1>4. CASE c + s * n <= limit
  <2>1. d + t * n <= limit
    BY <1>2, <1>3, <1>4
  <2> QED
    BY <2>1 DEF Within
<1>5. ASSUME NEW q \in S, c + asks[q] + (s - 1) * n <= limit
      PROVE  Within(d, T, later, n, limit)
  <2>1. CASE q = r
    <3>1. d + t * n <= limit
      BY <1>2, <1>3, <1>5, <2>1
    <3> QED
      BY <3>1 DEF Within
  <2>2. CASE q \in T
    <3>1. d + later[q] + (t - 1) * n <= limit
      BY <1>2, <1>3, <1>5, <2>2
    <3> QED
      BY <2>2, <3>1 DEF Within
  <2>3. CASE q # r /\ q \notin T
    <3>1. T \subseteq (S \ {r}) \ {q} /\ Cardinality((S \ {r}) \ {q}) = s - 1 - 1
          /\ IsFiniteSet((S \ {r}) \ {q})
      BY <1>1, <2>3, FS_RemoveElement
    <3>2. t <= s - 2 /\ s - 2 \in Nat
      BY <1>1, <3>1, Smaller, FS_CardinalityType
    <3>3. t * n <= (s - 2) * n /\ (s - 2) * n = s * n - n - n
      <4>1. (s - 1) * n - n = ((s - 1) - 1) * n /\ (s - 1) - 1 = s - 2
        BY <1>1, <1>2, Shares
      <4>2. t * n <= (s - 2) * n
        BY <1>2, <3>2, Shares
      <4> QED
        BY <1>3, <4>1, <4>2
    <3>4. d + t * n <= limit
      BY <1>2, <1>3, <1>5, <3>3
    <3> QED
      BY <3>4 DEF Within
  <2> QED
    BY <2>1, <2>2, <2>3
<1> QED
  BY <1>4, <1>5 DEF Within

LEMMA WithinBounds ==
  ASSUME NEW S, IsFiniteSet(S), NEW c \in Nat, NEW n \in Nat, NEW limit \in Nat, NEW asks,
         \A q \in S : asks[q] \in Nat, Within(c, S, asks, n, limit)
  PROVE  c <= limit
<1> DEFINE s == Cardinality(S)
<1>1. s \in Nat /\ s * n \in Nat
  BY FS_CardinalityType, Shares
<1>2. ASSUME NEW q \in S, c + asks[q] + (s - 1) * n <= limit
      PROVE  c <= limit
  <2>1. s # 0
    BY FS_EmptySet
  <2>2. (s - 1) * n \in Nat
    BY <1>1, <2>1, Shares
  <2> QED
    BY <1>2, <2>2
<1> QED
  BY <1>1, <1>2 DEF Within

-----------------------------------------------------------------------------
(* Steps that add no seat and no address                                     *)

LEMMA SeatsOfTheTenant ==
  ASSUME Types
  PROVE  /\ world.maxUsers \in Nat /\ "maxUsers" \in DOMAIN world
         /\ Cardinality(Requests) \in Nat /\ Cardinality(Requests) >= 1
         /\ \A n \in {MaxBatch, world.maxUsers} : n \in Nat /\ Limit(n) \in Nat
                                                  /\ 2 * Limit(n) \in Nat
<1>1. world.maxUsers \in Nat /\ "maxUsers" \in DOMAIN world
  <2> PICK w \in Worlds : world = [w EXCEPT !.left = world.left] /\ world.left \in 0 .. w.left
    BY DEF Types
  <2>1. world.maxUsers = w.maxUsers /\ DOMAIN world = DOMAIN w
    BY ConstantsAssumption
  <2> QED
    BY <2>1, ConstantsAssumption
<1>2. Cardinality(Requests) \in Nat /\ Cardinality(Requests) # 0
  BY ConstantsAssumption, FS_CardinalityType, FS_EmptySet
<1>3. ASSUME NEW n \in {MaxBatch, world.maxUsers}
      PROVE  n \in Nat /\ Limit(n) \in Nat /\ 2 * Limit(n) \in Nat
  <2>1. n \in Nat
    BY <1>1, <1>3, ConstantsAssumption
  <2>2. (Cardinality(Requests) - 1) * n \in Nat
    BY <1>2, <2>1, Shares
  <2>3. Limit(n) \in Nat
    BY <1>1, <2>2 DEF Limit
  <2> QED
    BY <2>1, <2>3
<1> QED
  BY <1>1, <1>2, <1>3

LEMMA RacersAreFinite ==
  /\ IsFiniteSet(Awaited) /\ Cardinality(Awaited) \in Nat
  /\ IsFiniteSet(SeatHolders) /\ Cardinality(SeatHolders) \in Nat
  /\ \A w : IsFiniteSet(Counted(w)) /\ Counted(w) \subseteq Requests
  /\ \A e : /\ IsFiniteSet(HoldersOf(e)) /\ Cardinality(HoldersOf(e)) \in Nat
            /\ IsFiniteSet(Inserters(e)) /\ Cardinality(Inserters(e)) \in Nat
<1>1. Awaited \subseteq MemberIds /\ SeatHolders \subseteq MemberIds
      /\ \A e : HoldersOf(e) \subseteq MemberIds
  BY DEF SeatHolders, Awaited, Seated, Coming, HoldersOf
<1>2. (\A w : Counted(w) \subseteq Requests) /\ \A e : Inserters(e) \subseteq Requests
  BY DEF Counted, Inserters
<1> QED
  BY <1>1, <1>2, FiniteIds, ConstantsAssumption, Smaller

LEMMA CountedAsk ==
  ASSUME Types, ChecksStand, NEW w
  PROVE  \A r \in Counted(w) :
           /\ Asks[r] = Asked(req[r]) /\ Asks[r] \in Nat /\ Asks[r] >= 1
           /\ \A n \in {MaxBatch, world.maxUsers} : Asks[r] <= n
<1> TAKE r \in Counted(w)
<1>1. r \in Requests /\ req[r].pc \in Checking /\ req[r].seats + Asked(req[r]) <= world.maxUsers
  BY DEF Counted
<1>2. Asks[r] = Asked(req[r])
  BY <1>1 DEF Asks
<1>3. req[r].seats \in Nat
  BY <1>1 DEF Types, RequestTypes
<1>4. Asked(req[r]) \in 1 .. MaxBatch
  BY <1>1, ConstantsAssumption DEF ChecksStand, Fitting, Asked
<1>5. world.maxUsers \in Nat
  BY SeatsOfTheTenant
<1> QED
  BY <1>1, <1>2, <1>3, <1>4, <1>5, ConstantsAssumption

HoldersFall ==
  /\ Awaited' \subseteq Awaited /\ SeatHolders' \subseteq SeatHolders
  /\ \A e \in Emails : HoldersOf(e)' \subseteq HoldersOf(e)

\* A request arrives, or stands where it stood with what it had, or has
\* left the checks.
StaysCounted(s) ==
  req'[s].pc \in Checking =>
    \/ /\ req'[s].pc = "count" /\ req'[s].todo = {"occupied", "invited"}
       /\ Fitting(req'[s])
    \/ /\ req[s].pc \in Checking
       /\ req'[s].call = req[s].call /\ req'[s].batch = req[s].batch
       /\ req'[s].todo = req[s].todo /\ req'[s].seats = req[s].seats
       /\ req'[s].pc = "insertMembers" => req[s].pc = "insertMembers"
       /\ req'[s].pc = "checkEmails" => HasRoom(req[s])

LEMMA CountedFall ==
  ASSUME \A s \in Requests : StaysCounted(s), world'.maxUsers = world.maxUsers, ChecksStand
  PROVE  /\ \A w \in {"occupied", "invited"} : Counted(w)' \subseteq Counted(w)
         /\ \A w \in {"occupied", "invited"} : \A r \in Counted(w)' : Asks'[r] = Asks[r]
         /\ \A e \in Emails : Inserters(e)' \subseteq Inserters(e)
         /\ ChecksStand'
<1>1. ASSUME NEW w \in {"occupied", "invited"}, NEW r \in Counted(w)'
      PROVE  r \in Counted(w) /\ Asks'[r] = Asks[r]
  <2>1. r \in Requests /\ req'[r].pc \in Checking /\ w \notin req'[r].todo
        /\ req'[r].seats + Asked(req'[r]) <= world'.maxUsers
    BY <1>1 DEF Counted
  <2>2. /\ req[r].pc \in Checking
        /\ req'[r].call = req[r].call /\ req'[r].batch = req[r].batch
        /\ req'[r].todo = req[r].todo /\ req'[r].seats = req[r].seats
    BY <2>1 DEF StaysCounted
  <2>3. Asked(req'[r]) = Asked(req[r])
    BY <2>2 DEF Asked
  <2> QED
    BY <2>1, <2>2, <2>3 DEF Counted, Asks
<1>2. ASSUME NEW e \in Emails PROVE Inserters(e)' \subseteq Inserters(e)
  BY DEF Inserters, StaysCounted, Checking
<1>3. ASSUME NEW s \in Requests, req'[s].pc \in Checking PROVE Fitting(req[s])'
  <2>1. CASE Fitting(req'[s])
    BY <2>1 DEF Fitting, HasRoom
  <2>2. CASE /\ req[s].pc \in Checking
             /\ req'[s].call = req[s].call /\ req'[s].batch = req[s].batch
             /\ req'[s].todo = req[s].todo /\ req'[s].seats = req[s].seats
             /\ req'[s].pc = "insertMembers" => req[s].pc = "insertMembers"
             /\ req'[s].pc = "checkEmails" => HasRoom(req[s])
    <3>1. Fitting(req[s])
      BY DEF ChecksStand
    <3>2. Asked(req'[s]) = Asked(req[s])
      BY <2>2 DEF Asked
    <3> QED
      BY <2>2, <3>1, <3>2 DEF Fitting, HasRoom
  <2> QED
    BY <1>3, <2>1, <2>2 DEF StaysCounted
<1>4. ChecksStand'
  BY <1>3 DEF ChecksStand, Fitting, Checking
<1> QED
  BY <1>1, <1>2, <1>4

LEMMA SeatsFall ==
  ASSUME Types, SeatsStand, ChecksStand, world'.maxUsers = world.maxUsers,
         Awaited' \subseteq Awaited, SeatHolders' \subseteq SeatHolders,
         \A w \in {"occupied", "invited"} :
           Counted(w)' \subseteq Counted(w) /\ \A r \in Counted(w)' : Asks'[r] = Asks[r]
  PROVE  SeatsStand'
<1> SUFFICES ASSUME NEW n \in {MaxBatch, world'.maxUsers}
             PROVE  /\ Within(Cardinality(Awaited), Counted("invited"), Asks, n, Limit(n))'
                    /\ Within(Cardinality(SeatHolders), Counted("occupied"), Asks, n, 2 * Limit(n))'
  BY DEF SeatsStand
<1>1. n \in {MaxBatch, world.maxUsers} /\ Limit(n)' = Limit(n)
  BY DEF Limit
<1>2. n \in Nat /\ Limit(n) \in Nat /\ 2 * Limit(n) \in Nat
  BY <1>1, SeatsOfTheTenant
<1>3. /\ Within(Cardinality(Awaited), Counted("invited"), Asks, n, Limit(n))
      /\ Within(Cardinality(SeatHolders), Counted("occupied"), Asks, n, 2 * Limit(n))
  BY <1>1 DEF SeatsStand
<1>4. /\ \A r \in Counted("invited") : Asks[r] \in Nat
      /\ \A r \in Counted("occupied") : Asks[r] \in Nat
  BY CountedAsk
<1>5. /\ Counted("invited")' \subseteq Counted("invited")
      /\ Counted("occupied")' \subseteq Counted("occupied")
      /\ \A r \in Counted("invited")' : Asks'[r] = Asks[r]
      /\ \A r \in Counted("occupied")' : Asks'[r] = Asks[r]
  OBVIOUS
<1>6. /\ Cardinality(Awaited') \in Nat /\ Cardinality(Awaited') <= Cardinality(Awaited)
      /\ Cardinality(SeatHolders') \in Nat /\ Cardinality(SeatHolders') <= Cardinality(SeatHolders)
  BY RacersAreFinite, Smaller
<1>7. Within(Cardinality(Awaited'), Counted("invited")', Asks', n, Limit(n))
  BY <1>2, <1>3, <1>4, <1>5, <1>6, RacersAreFinite, WithinFalls
<1>8. Within(Cardinality(SeatHolders'), Counted("occupied")', Asks', n, 2 * Limit(n))
  BY <1>2, <1>3, <1>4, <1>5, <1>6, RacersAreFinite, WithinFalls
<1> QED
  BY <1>1, <1>7, <1>8 DEF Within

LEMMA AddressesFall ==
  ASSUME Types, NEW e \in Emails,
         Cardinality(HoldersOf(e)) + Cardinality(Inserters(e)) <= Cardinality(Requests),
         HoldersOf(e)' \subseteq HoldersOf(e), Inserters(e)' \subseteq Inserters(e)
  PROVE  Cardinality(HoldersOf(e)') + Cardinality(Inserters(e)') <= Cardinality(Requests)
<1>1. /\ Cardinality(HoldersOf(e)') \in Nat
      /\ Cardinality(HoldersOf(e)') <= Cardinality(HoldersOf(e))
      /\ Cardinality(Inserters(e)') \in Nat
      /\ Cardinality(Inserters(e)') <= Cardinality(Inserters(e))
      /\ Cardinality(HoldersOf(e)) \in Nat /\ Cardinality(Inserters(e)) \in Nat
  BY RacersAreFinite, Smaller
<1> QED
  BY <1>1, SeatsOfTheTenant

LEMMA FallKeeps ==
  ASSUME MembershipInv, RaceInv, world'.maxUsers = world.maxUsers,
         HoldersFall, \A s \in Requests : StaysCounted(s)
  PROVE  RaceInv'
<1>1. Types /\ SeatsStand /\ AddressesStand /\ ChecksStand
  BY DEF MembershipInv, RaceInv
<1>2. /\ \A w \in {"occupied", "invited"} :
           Counted(w)' \subseteq Counted(w) /\ \A r \in Counted(w)' : Asks'[r] = Asks[r]
      /\ \A e \in Emails : Inserters(e)' \subseteq Inserters(e)
      /\ ChecksStand'
  BY <1>1, CountedFall
<1>3. SeatsStand'
  BY <1>1, <1>2, SeatsFall DEF HoldersFall
<1>4. ASSUME NEW e \in Emails
      PROVE  Cardinality(HoldersOf(e)') + Cardinality(Inserters(e)') <= Cardinality(Requests)
  <2>1. Cardinality(HoldersOf(e)) + Cardinality(Inserters(e)) <= Cardinality(Requests)
    BY <1>1 DEF AddressesStand
  <2> QED
    BY <1>1, <1>2, <2>1, AddressesFall DEF HoldersFall
<1>5. AddressesStand'
  BY <1>4 DEF AddressesStand
<1> QED
  BY <1>2, <1>3, <1>5 DEF RaceInv

-----------------------------------------------------------------------------
(* Where the members who hold a seat come from                               *)

StatusesFall ==
  \A m \in MemberIds :
    /\ member'[m].email = member[m].email
    /\ \/ member'[m].status = member[m].status
       \/ member'[m].status \in {"deleted", "removed"}
       \/ member'[m].status = "active" /\ m \in About(Redeemers)
InvitesFall ==
  \A m \in MemberIds :
    member'[m].status = "pending_invite" /\ LiveFor(m)' => LiveFor(m) \/ m \in About(Resenders)
ComesFromHolders(s) ==
  LET m == req'[s].member
  IN  m \in MemberIds =>
        /\ Resends(s)' /\ member'[m].status = "pending_invite" =>
             LiveFor(m) \/ m \in About(Resenders)
        /\ Finds(s)' /\ member'[m].status = "pending_invite" =>
             LiveFor(m) \/ m \in About(Finders)
        /\ Redeeming(s)' =>
             \/ m \in About(Redeemers) \/ member[m].status = "pending_setup"
             \/ member[m].status = "pending_invite" /\ m \in About(Finders)

LEMMA HoldersComeFromHolders ==
  ASSUME StatusesFall, InvitesFall, \A s \in Requests : ComesFromHolders(s)
  PROVE  HoldersFall
<1>1. ASSUME NEW m \in Awaited' PROVE m \in Awaited
  <2>1. /\ m \in MemberIds /\ member'[m].status = "pending_invite"
        /\ LiveFor(m)' \/ m \in About(Resenders)'
    BY <1>1 DEF Awaited
  <2>2. member[m].status = "pending_invite"
    BY <2>1 DEF StatusesFall
  <2>3. LiveFor(m) \/ m \in About(Resenders)
    <3>1. CASE LiveFor(m)'
      BY <2>1, <3>1 DEF InvitesFall
    <3>2. CASE m \in About(Resenders)'
      <4> PICK s \in Requests : Resends(s)' /\ req'[s].member = m
        BY <3>2 DEF About, Resenders
      <4> QED
        BY <2>1 DEF ComesFromHolders
    <3> QED
      BY <2>1, <3>1, <3>2
  <2> QED
    BY <2>1, <2>2, <2>3 DEF Awaited
<1>2. ASSUME NEW m \in About(Redeemers)', m \in MemberIds
      PROVE  m \in About(Redeemers) \/ member[m].status = "pending_setup" \/ m \in Coming
  <2> PICK s \in Requests : Redeeming(s)' /\ req'[s].member = m
    BY <1>2 DEF About, Redeemers
  <2> QED
    BY <1>2 DEF ComesFromHolders, Coming
<1>3. ASSUME NEW m \in Coming' PROVE m \in Coming \/ m \in Awaited
  <2>1. m \in MemberIds /\ member'[m].status = "pending_invite" /\ m \in About(Finders)'
    BY <1>3 DEF Coming
  <2>2. member[m].status = "pending_invite"
    BY <2>1 DEF StatusesFall
  <2> PICK s \in Requests : Finds(s)' /\ req'[s].member = m
    BY <2>1 DEF About, Finders
  <2> QED
    BY <2>1, <2>2 DEF ComesFromHolders, Coming, Awaited
<1>4. ASSUME NEW m \in Seated' PROVE m \in Seated \/ m \in About(Redeemers)
  BY <1>4 DEF Seated, StatusesFall, SeatHolding
<1>5. SeatHolders' \subseteq SeatHolders
  <2> SUFFICES ASSUME NEW m \in SeatHolders' PROVE m \in SeatHolders
    OBVIOUS
  <2>1. m \in Seated' \/ m \in Awaited' \/ m \in Coming' \/ (m \in MemberIds /\ m \in About(Redeemers)')
    BY DEF SeatHolders
  <2>2. m \in MemberIds
    BY <2>1 DEF Seated, Awaited, Coming
  <2>3. member[m].status = "pending_setup" => m \in Seated
    BY <2>2 DEF Seated, SeatHolding
  <2> QED
    BY <1>1, <1>2, <1>3, <1>4, <2>1, <2>2, <2>3 DEF SeatHolders
<1>6. ASSUME NEW e \in Emails, NEW m \in HoldersOf(e)' PROVE m \in HoldersOf(e)
  <2>1. m \in MemberIds /\ member'[m].email = e /\ (Present(m)' \/ m \in About(Redeemers)')
    BY <1>6 DEF HoldersOf
  <2>2. member[m].email = e
    BY <2>1 DEF StatusesFall
  <2>3. Present(m)' => Present(m) \/ m \in About(Redeemers)
    BY <2>1 DEF StatusesFall, Present, Exists
  <2>4. member[m].status \in {"pending_setup", "pending_invite"} => Present(m)
    BY DEF Present, Exists
  <2>5. m \in Coming => member[m].status = "pending_invite"
    BY DEF Coming
  <2> QED
    BY <1>2, <2>1, <2>2, <2>3, <2>4, <2>5 DEF HoldersOf
<1> QED
  BY <1>1, <1>5, <1>6 DEF HoldersFall

\* A request that stays as it is.
LEMMA StandingStill ==
  ASSUME NEW s \in Requests, req'[s] = req[s], StatusesFall, ChecksStand
  PROVE  ComesFromHolders(s) /\ StaysCounted(s)
<1>1. StaysCounted(s)
  BY DEF StaysCounted, ChecksStand, Fitting
<1>2. /\ Resends(s)' => s \in Resenders
      /\ Finds(s)' => s \in Finders
      /\ Redeeming(s)' => s \in Redeemers
  BY DEF Resends, Finds, Redeeming, Resenders, Finders, Redeemers
<1>3. /\ Resends(s)' => req[s].member \in About(Resenders)
      /\ Finds(s)' => req[s].member \in About(Finders)
      /\ Redeeming(s)' => req[s].member \in About(Redeemers)
  BY <1>2 DEF About
<1> QED
  BY <1>1, <1>3 DEF ComesFromHolders

\* A request that ends.
LEMMA Ending ==
  ASSUME NEW s \in Requests, req'[s] = Idle
  PROVE  ComesFromHolders(s) /\ StaysCounted(s)
BY DEF ComesFromHolders, StaysCounted, Resends, Finds, Redeeming, Idle, Checking

\* A step of one request that adds nobody.
LEMMA StepFalls ==
  ASSUME MembershipInv, RaceInv, NEW r \in Requests, NEW next,
         req' = [req EXCEPT ![r] = next], world'.maxUsers = world.maxUsers,
         StatusesFall, InvitesFall, ComesFromHolders(r), StaysCounted(r)
  PROVE  RaceInv'
<1>1. \A s \in Requests : s # r => req'[s] = req[s]
  BY DEF MembershipInv, Types
<1>2. \A s \in Requests : ComesFromHolders(s) /\ StaysCounted(s)
  BY <1>1, StandingStill DEF RaceInv
<1> QED
  BY <1>2, HoldersComeFromHolders, FallKeeps

LEMMA RowsStay ==
  ASSUME UNCHANGED <<member, invite>>
  PROVE  StatusesFall /\ InvitesFall
BY DEF StatusesFall, InvitesFall, LiveFor, InvitesOf, Pending

LEMMA EndFalls ==
  ASSUME MembershipInv, RaceInv, NEW r \in Requests, End(r), UNCHANGED world,
         StatusesFall, InvitesFall
  PROVE  RaceInv'
<1>1. req' = [req EXCEPT ![r] = Idle] /\ req'[r] = Idle
  BY DEF End, MembershipInv, Types
<1> QED
  BY <1>1, Ending, StepFalls

LEMMA RollbackFalls ==
  ASSUME MembershipInv, RaceInv, NEW r \in Requests, Rollback(r)
  PROVE  RaceInv'
BY RowsStay, EndFalls DEF Rollback, rows

-----------------------------------------------------------------------------
(* The steps that add nobody                                                 *)

LEMMA MaxUsersStays ==
  ASSUME Types, world' = [world EXCEPT !.left = @ - 1]
  PROVE  world'.maxUsers = world.maxUsers
BY SeatsOfTheTenant

\* A request that goes on with what it had.
LEMMA GotoFalls ==
  ASSUME MembershipInv, RaceInv, NEW r \in Requests, NEW pc \in Phases, Goto(r, pc),
         UNCHANGED <<world, member, invite>>,
         pc \in {"consume", "insertInvite", "touch", "commit"} =>
           \/ Redeeming(r)
           \/ Resends(r) /\ pc \in {"consume", "insertInvite"}
           \/ Finds(r) /\ member[req[r].member].status = "pending_invite"
           \/ req[r].call \notin {"resendInvite", "redeemInvite", "redeemSetup"},
         pc # "findMember",
         pc \in Checking => /\ req[r].pc \in Checking
                            /\ pc = "insertMembers" => req[r].pc = "insertMembers"
                            /\ pc = "checkEmails" => HasRoom(req[r])
  PROVE  RaceInv'
<1>1. /\ req' = [req EXCEPT ![r] = [req[r] EXCEPT !.pc = pc]]
      /\ req'[r].pc = pc /\ req'[r].call = req[r].call /\ req'[r].member = req[r].member
      /\ req'[r].batch = req[r].batch /\ req'[r].todo = req[r].todo /\ req'[r].seats = req[r].seats
  <2>1. /\ req' = [req EXCEPT ![r] = [req[r] EXCEPT !.pc = pc]]
        /\ req[r] \in RequestTypes
    BY GotoMoves DEF MembershipInv, Types
  <2>2. req'[r] = [req[r] EXCEPT !.pc = pc]
    BY <2>1 DEF MembershipInv, Types
  <2> QED
    BY <2>1, <2>2 DEF RequestTypes
<1>2. StaysCounted(r)
  BY <1>1 DEF StaysCounted
<1>3. /\ Redeeming(r) => req[r].member \in About(Redeemers)
      /\ Resends(r) => req[r].member \in About(Resenders)
      /\ Finds(r) => req[r].member \in About(Finders)
  BY DEF About, Redeemers, Resenders, Finders
<1>4. ComesFromHolders(r)
  <2>1. ~Finds(r)'
    BY <1>1 DEF Finds
  <2>2. Resends(r)' => Resends(r)
    BY <1>1 DEF Resends, Redeeming, Finds
  <2>3. Redeeming(r)' => Redeeming(r) \/ (Finds(r) /\ member[req[r].member].status = "pending_invite")
    BY <1>1 DEF Resends, Redeeming, Finds
  <2> QED
    BY <1>1, <1>3, <2>1, <2>2, <2>3 DEF ComesFromHolders
<1> QED
  BY <1>1, <1>2, <1>4, RowsStay, StepFalls

LEMMA BeginFalls ==
  ASSUME MembershipInv, RaceInv, NEW r \in Requests, NEW call, NEW next, NEW q,
         Begin(r, call, next), q = [next EXCEPT !.call = call],
         req'[r] = q => ComesFromHolders(r) /\ StaysCounted(r)
  PROVE  RaceInv'
<1>1. req' = [req EXCEPT ![r] = q] /\ req'[r] = q
  BY DEF Begin, MembershipInv, Types
<1>2. UNCHANGED <<member, invite>> /\ world'.maxUsers = world.maxUsers
  BY MaxUsersStays DEF Begin, Arrives, rows, MembershipInv
<1> QED
  BY <1>1, <1>2, RowsStay, StepFalls

\* Nobody comes with a request that is about to count seats, or that only
\* takes people away.
LEMMA NobodyComes ==
  ASSUME NEW r \in Requests,
         \/ req'[r].pc \in Checking
         \/ req'[r].call \in {"revokeInvite", "softDelete", "hardDelete", "generate"}
  PROVE  ComesFromHolders(r)
BY DEF ComesFromHolders, Resends, Finds, Redeeming, Checking

LEMMA AdmitFalls ==
  ASSUME MembershipInv, RaceInv, NEW r \in Requests, NEW call \in Calls, NEW batch, NEW status,
         Admit(r, call, batch, status), Cardinality(batch) \in 1 .. MaxBatch
  PROVE  RaceInv'
<1> DEFINE next == Counting([Idle EXCEPT !.batch = batch, !.status = status])
           q == [next EXCEPT !.call = call]
<1>1. q.pc = "count" /\ q.todo = {"occupied", "invited"} /\ q.batch = batch
  BY DEF Counting, Idle
<1>2. Begin(r, call, next)
  BY DEF Admit
<1> HIDE DEF q
<1>3. ASSUME req'[r] = q PROVE ComesFromHolders(r) /\ StaysCounted(r)
  <2>1. ComesFromHolders(r)
    BY <1>1, <1>3, NobodyComes DEF Checking
  <2>2. StaysCounted(r)
    BY <1>1, <1>3 DEF StaysCounted, Fitting
  <2> QED
    BY <2>1, <2>2
<1>4. q = [next EXCEPT !.call = call]
  BY DEF q
<1> HIDE DEF next
<1> QED
  BY <1>2, <1>3, <1>4, BeginFalls

LEMMA ResendInviteFalls ==
  ASSUME MembershipInv, RaceInv, NEW r \in Requests, ResendInvite(r)
  PROVE  RaceInv'
<1> PICK i \in InviteIds :
      /\ Pending(i) /\ invite[i].member # Nobody
      /\ LET q == [Idle EXCEPT !.invite = i, !.member = invite[i].member]
         IN  Begin(r, "resendInvite",
                   IF invite[i].expired THEN Counting(q) ELSE [q EXCEPT !.pc = "consume"])
  BY DEF ResendInvite
<1> DEFINE p == [Idle EXCEPT !.invite = i, !.member = invite[i].member]
           next == IF invite[i].expired THEN Counting(p) ELSE [p EXCEPT !.pc = "consume"]
           q == [next EXCEPT !.call = "resendInvite"]
<1>1. /\ q.call = "resendInvite" /\ q.member = invite[i].member
      /\ invite[i].expired => q.pc = "count" /\ q.todo = {"occupied", "invited"}
      /\ ~invite[i].expired => q.pc = "consume"
  BY DEF Counting, Idle
<1>2. Begin(r, "resendInvite", next) /\ q = [next EXCEPT !.call = "resendInvite"]
  OBVIOUS
<1> HIDE DEF q, next, p
<1>3. ASSUME req'[r] = q PROVE ComesFromHolders(r) /\ StaysCounted(r)
  <2>1. StaysCounted(r)
    BY <1>1, <1>3 DEF StaysCounted, Checking, Fitting
  <2>2. CASE invite[i].expired
    BY <1>1, <1>3, <2>1, <2>2, NobodyComes DEF Checking
  <2>3. CASE ~invite[i].expired
    <3>1. LiveFor(q.member)
      BY <1>1, <2>3 DEF LiveFor, InvitesOf
    <3> QED
      BY <1>1, <1>3, <2>1, <2>3, <3>1 DEF ComesFromHolders, Finds, Redeeming
  <2> QED
    BY <2>2, <2>3
<1> QED
  BY <1>2, <1>3, BeginFalls

LEMMA RedeemInviteFalls ==
  ASSUME MembershipInv, RaceInv, NEW r \in Requests, RedeemInvite(r)
  PROVE  RaceInv'
<1> PICK i \in InviteIds :
      /\ Pending(i) /\ ~invite[i].expired
      /\ Begin(r, "redeemInvite",
               [Idle EXCEPT !.pc = "findMember", !.invite = i, !.member = invite[i].member])
  BY DEF RedeemInvite
<1> DEFINE next == [Idle EXCEPT !.pc = "findMember", !.invite = i, !.member = invite[i].member]
           q == [next EXCEPT !.call = "redeemInvite"]
<1>1. q.call = "redeemInvite" /\ q.member = invite[i].member /\ q.pc = "findMember"
  BY DEF Idle
<1>2. Begin(r, "redeemInvite", next) /\ q = [next EXCEPT !.call = "redeemInvite"]
  OBVIOUS
<1> HIDE DEF q, next
<1>3. ASSUME req'[r] = q PROVE ComesFromHolders(r) /\ StaysCounted(r)
  <2>1. LiveFor(q.member)
    BY <1>1 DEF LiveFor, InvitesOf
  <2> QED
    BY <1>1, <1>3, <2>1 DEF ComesFromHolders, Resends, Redeeming, StaysCounted, Checking
<1> QED
  BY <1>2, <1>3, BeginFalls

LEMMA RedeemSetupTokenFalls ==
  ASSUME MembershipInv, RaceInv, NEW r \in Requests, RedeemSetupToken(r)
  PROVE  RaceInv'
<1> PICK t \in TokenIds, m \in MemberIds :
      /\ member[m].status = "pending_setup"
      /\ Begin(r, "redeemSetup", [Idle EXCEPT !.pc = "consume", !.token = t, !.member = m])
  BY DEF RedeemSetupToken
<1> DEFINE next == [Idle EXCEPT !.pc = "consume", !.token = t, !.member = m]
           q == [next EXCEPT !.call = "redeemSetup"]
<1>1. q.call = "redeemSetup" /\ q.member = m /\ q.pc = "consume"
  BY DEF Idle
<1>2. Begin(r, "redeemSetup", next) /\ q = [next EXCEPT !.call = "redeemSetup"]
  OBVIOUS
<1> HIDE DEF q, next
<1>3. ASSUME req'[r] = q PROVE ComesFromHolders(r) /\ StaysCounted(r)
  BY <1>1, <1>3 DEF ComesFromHolders, Resends, Finds, StaysCounted, Checking
<1> QED
  BY <1>2, <1>3, BeginFalls

\* Calls that only take people away, and the regeneration of a setup link.
LEMMA LeavingCallFalls ==
  ASSUME MembershipInv, RaceInv, NEW r \in Requests, NEW call, NEW next,
         call \in {"revokeInvite", "softDelete", "hardDelete"},
         Begin(r, call, next), next.pc \notin Checking,
         "call" \in DOMAIN next, "pc" \in DOMAIN next
  PROVE  RaceInv'
<1> DEFINE q == [next EXCEPT !.call = call]
<1>1. q.call = call /\ q.pc = next.pc
  OBVIOUS
<1> HIDE DEF q
<1>2. ASSUME req'[r] = q PROVE ComesFromHolders(r) /\ StaysCounted(r)
  BY <1>1, <1>2, NobodyComes DEF StaysCounted
<1> QED
  BY <1>2, BeginFalls DEF q

LEMMA CallFalls ==
  ASSUME MembershipInv, RaceInv, NEW r \in Requests, Call(r)
  PROVE  RaceInv'
<1>1. CASE CreateInvites(r)
  BY <1>1, AdmitFalls DEF CreateInvites, Calls
<1>2. ASSUME NEW e \in Emails PROVE Cardinality({e}) \in 1 .. MaxBatch
  BY FS_Singleton, ConstantsAssumption
<1>3. CASE DirectCreate(r)
  <2>1. PICK e \in Emails : Admit(r, "directCreate", {e}, "active")
    BY <1>3 DEF DirectCreate
  <2>2. "directCreate" \in Calls
    BY DEF Calls
  <2> QED
    BY <1>2, <2>1, <2>2, AdmitFalls
<1>4. CASE Register(r)
  <2>1. PICK e \in Emails, status \in {"active", "pending_approval"} :
          Admit(r, "selfRegister", {e}, status)
    BY <1>4 DEF Register
  <2>2. "selfRegister" \in Calls
    BY DEF Calls
  <2> QED
    BY <1>2, <2>1, <2>2, AdmitFalls
<1>5. CASE RevokeInvite(r)
  <2>1. PICK i \in InviteIds :
          Begin(r, "revokeInvite",
                [Idle EXCEPT !.pc = "consume", !.invite = i, !.member = invite[i].member])
    BY <1>5 DEF RevokeInvite
  <2> DEFINE next == [Idle EXCEPT !.pc = "consume", !.invite = i, !.member = invite[i].member]
  <2>2. next.pc = "consume" /\ "call" \in DOMAIN next /\ "pc" \in DOMAIN next
    BY DEF Idle
  <2>3. Begin(r, "revokeInvite", next)
    BY <2>1
  <2> HIDE DEF next
  <2>4. next.pc \notin Checking
    BY <2>2 DEF Checking
  <2> QED
    BY <2>2, <2>3, <2>4, LeavingCallFalls
<1>6. CASE SoftDelete(r)
  <2>1. PICK m \in MemberIds : Begin(r, "softDelete", [Idle EXCEPT !.pc = "touch", !.member = m])
    BY <1>6 DEF SoftDelete
  <2> DEFINE next == [Idle EXCEPT !.pc = "touch", !.member = m]
  <2>2. next.pc = "touch" /\ "call" \in DOMAIN next /\ "pc" \in DOMAIN next
    BY DEF Idle
  <2>3. Begin(r, "softDelete", next)
    BY <2>1
  <2> HIDE DEF next
  <2>4. next.pc \notin Checking
    BY <2>2 DEF Checking
  <2> QED
    BY <2>2, <2>3, <2>4, LeavingCallFalls
<1>7. CASE HardDelete(r)
  <2>1. PICK m, n : Begin(r, "hardDelete",
                          [Idle EXCEPT !.pc = "lockSource", !.member = m, !.target = n])
    BY <1>7 DEF HardDelete
  <2> DEFINE next == [Idle EXCEPT !.pc = "lockSource", !.member = m, !.target = n]
  <2>2. next.pc = "lockSource" /\ "call" \in DOMAIN next /\ "pc" \in DOMAIN next
    BY DEF Idle
  <2>3. Begin(r, "hardDelete", next)
    BY <2>1
  <2> HIDE DEF next
  <2>4. next.pc \notin Checking
    BY <2>2 DEF Checking
  <2> QED
    BY <2>2, <2>3, <2>4, LeavingCallFalls
<1>8. CASE GenerateSetupLink(r)
  <2> PICK others : req' = [req EXCEPT ![r] =
                       [Idle EXCEPT !.pc = "commit", !.call = "generate", !.others = others]]
    BY <1>8 DEF GenerateSetupLink
  <2> DEFINE q == [Idle EXCEPT !.pc = "commit", !.call = "generate", !.others = others]
  <2>1. q.pc = "commit" /\ q.call = "generate"
    BY DEF Idle
  <2>2. req' = [req EXCEPT ![r] = q] /\ req'[r] = q
    BY DEF MembershipInv, Types
  <2>3. UNCHANGED <<member, invite>> /\ world'.maxUsers = world.maxUsers
    BY <1>8, MaxUsersStays DEF GenerateSetupLink, Arrives, rows, MembershipInv
  <2> HIDE DEF q
  <2>4. ComesFromHolders(r) /\ StaysCounted(r)
    BY <2>1, <2>2, NobodyComes DEF StaysCounted, Checking
  <2> QED
    BY <2>2, <2>3, <2>4, RowsStay, StepFalls
<1>9. CASE ResendInvite(r) \/ RedeemInvite(r) \/ RedeemSetupToken(r)
  BY <1>9, ResendInviteFalls, RedeemInviteFalls, RedeemSetupTokenFalls
<1> QED
  BY <1>1, <1>3, <1>4, <1>5, <1>6, <1>7, <1>8, <1>9 DEF Call

-----------------------------------------------------------------------------
(* The statements of a transaction that add nobody *)

LEMMA FindInvitedMemberFalls ==
  ASSUME MembershipInv, RaceInv, NEW r \in Requests, FindInvitedMember(r)
  PROVE  RaceInv'
<1>1. CASE Rollback(r)
  BY <1>1, RollbackFalls
<1>2. CASE ~Rollback(r)
  <2>1. /\ req[r].pc = "findMember" /\ member[req[r].member].status = "pending_invite"
        /\ Goto(r, "consume") /\ UNCHANGED <<world, member, invite>>
    BY <1>2 DEF FindInvitedMember, rows
  <2>2. Finds(r)
    BY <2>1 DEF MembershipInv, RequestStands, Fits, Finds
  <2>3. "consume" \in Phases /\ "consume" \notin Checking
    BY DEF Phases, Checking
  <2> QED
    BY <2>1, <2>2, <2>3, GotoFalls
<1> QED
  BY <1>1, <1>2

LEMMA ConsumingFalls ==
  ASSUME MembershipInv, RaceInv, NEW r \in Requests, ConsumeInvite(r) \/ ConsumeSetupToken(r)
  PROVE  RaceInv'
<1>1. CASE Rollback(r)
  BY <1>1, RollbackFalls
<1>2. Fits(req[r])
  BY DEF MembershipInv, RequestStands
<1>3. CASE ConsumeInvite(r) /\ ~Rollback(r)
  <2> DEFINE pc == AfterConsuming(req[r])
  <2>1. req[r].pc = "consume" /\ Goto(r, pc) /\ UNCHANGED <<world, member, invite>>
    BY <1>3 DEF ConsumeInvite, rows
  <2>2. req[r].call \in OfInvite
    BY <1>2, <1>3 DEF ConsumeInvite, Fits
  <2>3. pc \in Phases /\ pc \notin Checking /\ pc # "findMember"
    BY DEF AfterConsuming, Phases, Checking
  <2>4. \/ Redeeming(r)
        \/ Resends(r) /\ pc \in {"consume", "insertInvite"}
        \/ req[r].call \notin {"resendInvite", "redeemInvite", "redeemSetup"}
    BY <2>1, <2>2 DEF OfInvite, AfterConsuming, Redeeming, Resends
  <2> HIDE DEF pc
  <2> QED
    BY <2>1, <2>3, <2>4, GotoFalls
<1>4. CASE ConsumeSetupToken(r) /\ ~Rollback(r)
  <2>1. req[r].pc = "consume" /\ Goto(r, "touch") /\ UNCHANGED <<world, member, invite>>
    BY <1>4 DEF ConsumeSetupToken, rows
  <2>2. Redeeming(r)
    BY <1>2, <1>4 DEF ConsumeSetupToken, Fits, Redeeming
  <2>3. "touch" \in Phases /\ "touch" \notin Checking
    BY DEF Phases, Checking
  <2> QED
    BY <2>1, <2>2, <2>3, GotoFalls
<1> QED
  BY <1>1, <1>3, <1>4

LEMMA HardDeleteFalls ==
  ASSUME MembershipInv, RaceInv, NEW r \in Requests,
         LockSource(r) \/ LockTarget(r) \/ TransferRows(r) \/ UpdateRows(r)
  PROVE  RaceInv'
<1>1. CASE Rollback(r)
  BY <1>1, RollbackFalls
<1>2. CASE ~Rollback(r) /\ (LockSource(r) \/ LockTarget(r))
  <2> PICK pc \in {"transfer", "lockTarget"} :
        Goto(r, pc) /\ UNCHANGED <<world, member, invite>>
    BY <1>2 DEF LockSource, LockTarget, rows
  <2>1. /\ pc \in Phases /\ pc \notin Checking /\ pc # "findMember"
        /\ pc \notin {"consume", "insertInvite", "touch", "commit"}
    BY DEF Phases, Checking
  <2> QED
    BY <2>1, GotoFalls
<1>3. CASE ~Rollback(r) /\ (TransferRows(r) \/ UpdateRows(r))
  <2> PICK pc \in {"update", "remove"} :
        /\ \E others : req' = [req EXCEPT ![r].pc = pc, ![r].others = others]
        /\ UNCHANGED <<world, member, invite>>
    BY <1>3 DEF TransferRows, UpdateRows, rows
  <2> PICK others : req' = [req EXCEPT ![r].pc = pc, ![r].others = others]
    OBVIOUS
  <2> DEFINE next == [req[r] EXCEPT !.pc = pc, !.others = others]
  <2>1. req' = [req EXCEPT ![r] = next] /\ req[r] \in RequestTypes /\ req'[r] = next
    BY DEF MembershipInv, Types
  <2>2. req'[r].pc = pc
    BY <2>1 DEF RequestTypes
  <2> HIDE DEF next
  <2>3. ComesFromHolders(r) /\ StaysCounted(r)
    BY <2>2 DEF ComesFromHolders, StaysCounted, Redeeming, Resends, Finds, Checking
  <2> QED
    BY <2>1, <2>3, RowsStay, StepFalls
<1> QED
  BY <1>1, <1>2, <1>3

LEMMA TouchMemberFalls ==
  ASSUME MembershipInv, RaceInv, NEW r \in Requests, TouchMember(r)
  PROVE  RaceInv'
<1>1. CASE Rollback(r)
  BY <1>1, RollbackFalls
<1>2. CASE ~Rollback(r)
  <2>1. req[r].pc = "touch" /\ UNCHANGED <<world, member, invite>>
    BY <1>2 DEF TouchMember, rows
  <2> PICK others : req' = [req EXCEPT ![r].pc = "commit", ![r].others = others]
    BY <1>2 DEF TouchMember
  <2> DEFINE next == [req[r] EXCEPT !.pc = "commit", !.others = others]
  <2>2. req' = [req EXCEPT ![r] = next] /\ req[r] \in RequestTypes /\ req'[r] = next
    BY DEF MembershipInv, Types
  <2>3. req'[r].pc = "commit" /\ req'[r].call = req[r].call /\ req'[r].member = req[r].member
    BY <2>2 DEF RequestTypes
  <2> HIDE DEF next
  <2>4. Redeeming(r)' => req[r].member \in About(Redeemers)
    BY <2>1, <2>3 DEF Redeeming, Redeemers, About
  <2>5. ComesFromHolders(r) /\ StaysCounted(r)
    BY <2>3, <2>4 DEF ComesFromHolders, StaysCounted, Resends, Finds, Checking
  <2> QED
    BY <2>1, <2>2, <2>5, RowsStay, StepFalls
<1> QED
  BY <1>1, <1>2

-----------------------------------------------------------------------------
(* The commits that add nobody *)

LEMMA StatusesFallTo ==
  ASSUME Types, NEW m \in {Nobody} \union MemberIds, NEW status, SetStatus(m, status),
         \/ status \in {"deleted", "removed"}
         \/ status = "active" /\ m \in About(Redeemers)
  PROVE  StatusesFall
<1>1. CASE m = Nobody
  BY <1>1 DEF SetStatus, StatusesFall
<1>2. CASE m # Nobody
  <2>1. ASSUME NEW n \in MemberIds
        PROVE  /\ member'[n].email = member[n].email
               /\ n # m => member'[n].status = member[n].status
               /\ n = m => member'[n].status = status
    BY <1>2 DEF SetStatus, Types, Members
  <2> QED
    BY <2>1 DEF StatusesFall
<1> QED
  BY <1>1, <1>2

\* An invitation is pending when it was and is the member's, if at all.
LEMMA InvitesFallTo ==
  ASSUME \A i \in InviteIds, m \in MemberIds :
           invite'[i].member = m /\ invite'[i].state = "pending" /\ ~invite'[i].expired =>
             /\ invite[i].member = m /\ invite[i].state = "pending" /\ ~invite[i].expired,
         StatusesFall
  PROVE  InvitesFall
BY DEF InvitesFall, LiveFor, InvitesOf, Pending

LEMMA WrittenInvitesFall ==
  ASSUME Types, StatusesFall, NEW r \in Requests, NEW state \in {"used", "revoked"},
         WriteInvites(r, state)
  PROVE  InvitesFall
<1>1. \A i \in InviteIds : invite[i] \in Invites
  BY DEF Types
<1>2. \A i \in InviteIds : invite'[i] = invite[i] \/ invite'[i].state \in {"used", "revoked"}
  BY <1>1 DEF WriteInvites, Invites
<1> QED
  BY <1>2, InvitesFallTo

LEMMA CommitInviteFalls ==
  ASSUME MembershipInv, RaceInv, NEW r \in Requests, CommitRevocation(r) \/ CommitRedemption(r)
  PROVE  RaceInv'
<1>1. Types /\ req[r].member \in {Nobody} \union MemberIds
  BY DEF MembershipInv, Types, RequestTypes
<1>2. CASE CommitRevocation(r)
  <2>1. SetStatus(req[r].member, "deleted") /\ WriteInvites(r, "revoked") /\ End(r) /\ UNCHANGED world
    BY <1>2 DEF CommitRevocation
  <2>2. StatusesFall
    BY <1>1, <2>1, StatusesFallTo
  <2> QED
    BY <1>1, <2>1, <2>2, WrittenInvitesFall, EndFalls
<1>3. CASE CommitRedemption(r)
  <2>1. SetStatus(req[r].member, "active") /\ WriteInvites(r, "used") /\ End(r) /\ UNCHANGED world
    BY <1>3 DEF CommitRedemption
  <2>2. req[r].member \in About(Redeemers)
    BY <1>3 DEF CommitRedemption, Redeeming, Redeemers, About
  <2>3. StatusesFall
    BY <1>1, <2>1, <2>2, StatusesFallTo
  <2> QED
    BY <1>1, <2>1, <2>3, WrittenInvitesFall, EndFalls
<1> QED
  BY <1>2, <1>3

LEMMA CommitRowsFalls ==
  ASSUME MembershipInv, RaceInv, NEW r \in Requests,
         CommitSoftDelete(r) \/ CommitSetupLink(r) \/ CommitSetup(r)
  PROVE  RaceInv'
<1>1. Types /\ req[r].member \in {Nobody} \union MemberIds
  BY DEF MembershipInv, Types, RequestTypes
<1>2. CASE CommitSoftDelete(r)
  <2>1. SetStatus(req[r].member, "deleted") /\ End(r) /\ UNCHANGED <<world, invite>>
    BY <1>2 DEF CommitSoftDelete
  <2>2. StatusesFall
    BY <1>1, <2>1, StatusesFallTo
  <2>3. InvitesFall
    BY <2>1, <2>2, InvitesFallTo
  <2> QED
    BY <2>1, <2>2, <2>3, EndFalls
<1>3. CASE CommitSetupLink(r)
  BY <1>3, RowsStay, EndFalls DEF CommitSetupLink
<1>4. CASE CommitSetup(r)
  <2>1. SetStatus(req[r].member, "active") /\ End(r) /\ UNCHANGED <<world, invite>>
    BY <1>4 DEF CommitSetup
  <2>2. req[r].member \in About(Redeemers)
    BY <1>4 DEF CommitSetup, Redeeming, Redeemers, About
  <2>3. StatusesFall
    BY <1>1, <2>1, <2>2, StatusesFallTo
  <2>4. InvitesFall
    BY <2>1, <2>3, InvitesFallTo
  <2> QED
    BY <2>1, <2>3, <2>4, EndFalls
<1> QED
  BY <1>2, <1>3, <1>4

LEMMA RemoveMemberFalls ==
  ASSUME MembershipInv, RaceInv, NEW r \in Requests, RemoveMember(r)
  PROVE  RaceInv'
<1> DEFINE m == req[r].member
<1>1. /\ member' = [member EXCEPT ![m].status = "removed"]
      /\ invite' = [i \in InviteIds |->
                     IF i \in InvitesOf(m) THEN [invite[i] EXCEPT !.member = Nobody]
                                           ELSE invite[i]]
      /\ End(r) /\ UNCHANGED world
  BY DEF RemoveMember
<1>2. ASSUME NEW n \in MemberIds
      PROVE  /\ member'[n].email = member[n].email
             /\ member'[n].status \in {member[n].status, "removed"}
  BY <1>1 DEF MembershipInv, Types, Members
<1>3. StatusesFall
  BY <1>2 DEF StatusesFall
<1>4. ASSUME NEW i \in InviteIds PROVE invite'[i] = invite[i] \/ invite'[i].member = Nobody
  BY <1>1 DEF MembershipInv, Types, Invites
<1>5. InvitesFall
  BY <1>3, <1>4, InvitesFallTo DEF Nobody, MemberIds
<1> QED
  BY <1>1, <1>3, <1>5, EndFalls

LEMMA InsertReplacementFalls ==
  ASSUME MembershipInv, RaceInv, NEW r \in Requests, InsertReplacement(r)
  PROVE  RaceInv'
<1>1. CASE Rollback(r)
  BY <1>1, RollbackFalls
<1>2. CASE ~Rollback(r)
  <2>1. /\ invite' = [i \in InviteIds |->
              IF i = req[r].invite THEN [invite[i] EXCEPT !.state = "revoked"]
              ELSE IF i \in FreshInvites(1)
                THEN [state |-> "pending", expired |-> FALSE, member |-> req[r].member]
                ELSE invite[i]]
        /\ End(r) /\ UNCHANGED <<world, member>>
    BY <1>2 DEF InsertReplacement
  <2>2. req[r].member \in About(Resenders)
    BY DEF InsertReplacement, MembershipInv, RequestStands, Fits, Resends, Resenders, About
  <2>3. ASSUME NEW i \in InviteIds
        PROVE  \/ invite'[i] = invite[i] \/ invite'[i].state = "revoked"
               \/ invite'[i].member = req[r].member
    BY <2>1 DEF MembershipInv, Types, Invites
  <2>4. StatusesFall
    BY <2>1 DEF StatusesFall
  <2>5. InvitesFall
    BY <2>2, <2>3 DEF InvitesFall, LiveFor, InvitesOf, Pending
  <2> QED
    BY <2>1, <2>4, <2>5, EndFalls
<1> QED
  BY <1>1, <1>2

LEMMA OthersFall ==
  ASSUME MembershipInv, RaceInv,
         \/ \E i \in InviteIds : ExpireInvite(i)
         \/ \E m \in MemberIds : SignIn(m) \/ CreateRow(m)
         \/ UNCHANGED vars
  PROVE  RaceInv'
<1>1. UNCHANGED <<world, member, req>>
  BY DEF ExpireInvite, SignIn, CreateRow, vars, rows
<1>2. StatusesFall
  BY <1>1 DEF StatusesFall
<1>3. ASSUME NEW i \in InviteIds
      PROVE  invite'[i] = invite[i] \/ invite'[i].expired = TRUE
  BY DEF ExpireInvite, SignIn, CreateRow, vars, rows, MembershipInv, Types, Invites
<1>4. InvitesFall
  BY <1>2, <1>3, InvitesFallTo
<1>5. \A s \in Requests : ComesFromHolders(s) /\ StaysCounted(s)
  BY <1>1, <1>2, StandingStill DEF RaceInv
<1> QED
  BY <1>1, <1>2, <1>4, <1>5, HoldersComeFromHolders, FallKeeps

-----------------------------------------------------------------------------
(* The counts *)

\* No more members than requests about them.
LEMMA NoMoreThanRequests ==
  ASSUME NEW R \in SUBSET Requests
  PROVE  IsFiniteSet(About(R)) /\ Cardinality(About(R)) <= Cardinality(R)
         /\ Cardinality(About(R)) \in Nat /\ IsFiniteSet(R) /\ Cardinality(R) \in Nat
<1> DEFINE f == [r \in R |-> req[r].member]
<1>1. f \in Surjection(R, About(R))
  BY DEF Surjection, About
<1>2. IsFiniteSet(R)
  BY ConstantsAssumption, FS_Subset
<1> QED
  BY <1>1, <1>2, FS_Surjection, FS_CardinalityType

LEMMA Together ==
  ASSUME NEW A, IsFiniteSet(A), NEW B, IsFiniteSet(B)
  PROVE  /\ IsFiniteSet(A \union B) /\ Cardinality(A \union B) \in Nat
         /\ Cardinality(A \union B) <= Cardinality(A) + Cardinality(B)
         /\ A \intersect B = {} => Cardinality(A \union B) = Cardinality(A) + Cardinality(B)
<1>1. IsFiniteSet(A \intersect B)
  BY FS_Subset
<1>2. /\ IsFiniteSet(A \union B)
      /\ Cardinality(A \union B) = Cardinality(A) + Cardinality(B) - Cardinality(A \intersect B)
  BY FS_Union
<1>3. /\ Cardinality(A \union B) \in Nat /\ Cardinality(A \intersect B) \in Nat
      /\ Cardinality(A) \in Nat /\ Cardinality(B) \in Nat
  BY <1>1, <1>2, FS_CardinalityType
<1>4. A \intersect B = {} => Cardinality(A \intersect B) = 0
  BY FS_EmptySet
<1> QED
  BY <1>2, <1>3, <1>4

\* Who holds or awaits a seat is counted, or has a request about to bring
\* them in.
LEMMA AwaitedAreCounted ==
  Cardinality(Awaited) <= Invited + Cardinality(Resenders)
<1>1. Invited = Cardinality(Promised)
  BY DEF Invited, Promised, LiveFor
<1>2. Awaited \subseteq Promised \union About(Resenders)
  BY DEF Awaited, Promised
<1>3. Promised \subseteq MemberIds /\ IsFiniteSet(Promised) /\ Cardinality(Promised) \in Nat
  BY FiniteIds, Smaller DEF Promised
<1>4. Resenders \subseteq Requests
  BY DEF Resenders
<1>5. /\ IsFiniteSet(About(Resenders)) /\ Cardinality(About(Resenders)) <= Cardinality(Resenders)
      /\ Cardinality(About(Resenders)) \in Nat /\ Cardinality(Resenders) \in Nat
  BY <1>4, NoMoreThanRequests
<1>6. /\ IsFiniteSet(Promised \union About(Resenders))
      /\ Cardinality(Promised \union About(Resenders))
           <= Cardinality(Promised) + Cardinality(About(Resenders))
  BY <1>3, <1>5, Together
<1>7. /\ Cardinality(Awaited) <= Cardinality(Promised \union About(Resenders))
      /\ Cardinality(Awaited) \in Nat /\ Cardinality(Promised \union About(Resenders)) \in Nat
  BY <1>2, <1>6, Smaller
<1> QED
  BY <1>1, <1>3, <1>5, <1>6, <1>7

LEMMA HoldersAreCounted ==
  Cardinality(SeatHolders) <=
    Occupied + Cardinality(Awaited) + Cardinality(Finders \union Redeemers)
<1> DEFINE R == Finders \union Redeemers
           A == Seated \union Awaited
<1>1. Occupied = Cardinality(Seated)
  BY DEF Occupied, Seated
<1>2. SeatHolders \subseteq A \union About(R)
  BY DEF SeatHolders, Coming, About
<1>3. Seated \subseteq MemberIds /\ IsFiniteSet(Seated) /\ Cardinality(Seated) \in Nat
  BY FiniteIds, Smaller DEF Seated
<1>4. R \subseteq Requests
  BY DEF Finders, Redeemers
<1>5. /\ IsFiniteSet(About(R)) /\ Cardinality(About(R)) <= Cardinality(R)
      /\ Cardinality(About(R)) \in Nat /\ Cardinality(R) \in Nat
  BY <1>4, NoMoreThanRequests
<1>6. /\ IsFiniteSet(Awaited) /\ Cardinality(Awaited) \in Nat
  BY RacersAreFinite
<1>7. /\ IsFiniteSet(A) /\ Cardinality(A) \in Nat
      /\ Cardinality(A) <= Cardinality(Seated) + Cardinality(Awaited)
  BY <1>3, <1>6, Together
<1> HIDE DEF A
<1>8. /\ IsFiniteSet(A \union About(R)) /\ Cardinality(A \union About(R)) \in Nat
      /\ Cardinality(A \union About(R)) <= Cardinality(A) + Cardinality(About(R))
  BY <1>5, <1>7, Together
<1>9. Cardinality(SeatHolders) <= Cardinality(A \union About(R))
      /\ Cardinality(SeatHolders) \in Nat
  BY <1>2, <1>8, Smaller
<1> QED
  BY <1>1, <1>3, <1>5, <1>6, <1>7, <1>8, <1>9

\* A count that finds room, with the requests on their way past it.
LEMMA CountFindsRoom ==
  ASSUME NEW c \in Nat, NEW a \in Nat, NEW k \in Nat, NEW t \in Nat, NEW N \in Nat,
         NEW n \in Nat, NEW max \in Nat, n >= 1, t >= 1, c + a <= max, k + t <= N
  PROVE  c + k + a + (t - 1) * n <= max + (N - 1) * n
<1>1. (k + (t - 1)) \in Nat /\ N - 1 \in Nat /\ k + (t - 1) <= N - 1 /\ t - 1 \in Nat
  OBVIOUS
<1>2. (k + (t - 1)) * n <= (N - 1) * n
  BY <1>1, Shares
<1>3. (k + (t - 1)) * n = k * n + (t - 1) * n
  BY <1>1
<1>4. k <= k * n /\ k * n \in Nat /\ (t - 1) * n \in Nat /\ (N - 1) * n \in Nat
  <2>1. k * 1 <= k * n
    <3>1. 1 * k <= n * k
      BY Shares
    <3> QED
      BY <3>1
  <2> QED
    BY <1>1, <2>1, Shares
<1> QED
  BY <1>2, <1>3, <1>4

LEMMA CountStands ==
  ASSUME Types, NEW S \in SUBSET Requests, NEW R \in SUBSET Requests, S \intersect R = {},
         NEW r \in S, NEW c \in Nat, NEW a \in Nat, c + a <= world.maxUsers,
         NEW n \in {MaxBatch, world.maxUsers}, n >= 1
  PROVE  c + Cardinality(R) + a + (Cardinality(S) - 1) * n <= Limit(n)
<1>1. /\ IsFiniteSet(S) /\ IsFiniteSet(R)
      /\ Cardinality(S) \in Nat /\ Cardinality(R) \in Nat
  BY ConstantsAssumption, Smaller
<1>2. Cardinality(S) # 0
  BY <1>1, FS_EmptySet
<1>3. Cardinality(S \union R) = Cardinality(S) + Cardinality(R)
      /\ Cardinality(S \union R) <= Cardinality(Requests)
  BY <1>1, ConstantsAssumption, Together, Smaller
<1>4. /\ world.maxUsers \in Nat /\ Cardinality(Requests) \in Nat /\ n \in Nat
  BY SeatsOfTheTenant
<1>5. Cardinality(R) + Cardinality(S) <= Cardinality(Requests) /\ Cardinality(S) >= 1
  BY <1>1, <1>2, <1>3
<1> QED
  BY <1>1, <1>4, <1>5, CountFindsRoom DEF Limit

LEMMA Recounting ==
  ASSUME NEW q \in RequestTypes, NEW todo, NEW seats
  PROVE  LET next == [q EXCEPT !.todo = todo, !.seats = seats]
         IN  /\ next.pc = q.pc /\ next.call = q.call /\ next.batch = q.batch
             /\ next.member = q.member /\ next.todo = todo /\ next.seats = seats
BY DEF RequestTypes

LEMMA CountSeatsRaces ==
  ASSUME MembershipInv, RaceInv, NEW r \in Requests, NEW what \in {"occupied", "invited"},
         CountSeats(r, what)
  PROVE  RaceInv'
<1> DEFINE next == [req[r] EXCEPT !.todo = @ \ {what}, !.seats = @ + Seats(what)]
<1>1. /\ Types /\ SeatsStand /\ AddressesStand /\ ChecksStand
      /\ UNCHANGED <<world, member, invite>> /\ req[r].pc = "count"
  BY DEF MembershipInv, RaceInv, CountSeats, rows
<1>2. /\ req[r] \in RequestTypes /\ req' = [req EXCEPT ![r] = next] /\ req'[r] = next
      /\ \A s \in Requests : s # r => req'[s] = req[s]
  BY <1>1 DEF CountSeats, Types
<1>3. /\ req'[r].pc = "count" /\ req'[r].call = req[r].call /\ req'[r].batch = req[r].batch
      /\ req'[r].todo = req[r].todo \ {what} /\ req'[r].seats = req[r].seats + Seats(what)
      /\ req[r].seats \in Nat /\ Seats(what) \in Nat
  <2>1. Seats(what) \in Nat
    BY SeatsType
  <2>2. req[r].seats \in Nat
    BY <1>2 DEF RequestTypes
  <2>3. /\ next.pc = req[r].pc /\ next.call = req[r].call /\ next.batch = req[r].batch
        /\ next.todo = req[r].todo \ {what} /\ next.seats = req[r].seats + Seats(what)
    BY <1>2, Recounting
  <2> HIDE DEF next
  <2> QED
    BY <1>1, <1>2, <2>1, <2>2, <2>3
<1> HIDE DEF next
<1>4. Asked(req'[r]) = Asked(req[r])
  BY <1>3 DEF Asked
<1>5. ChecksStand'
  <2>1. Fitting(req[r])'
    BY <1>1, <1>3 DEF ChecksStand, Fitting, Checking
  <2>2. ASSUME NEW s \in Requests, s # r PROVE Fitting(req[s])'
    BY <1>1, <1>2, <2>2 DEF ChecksStand, Fitting, HasRoom
  <2> QED
    BY <2>1, <2>2 DEF ChecksStand
<1>6. HoldersFall
  <2>1. ComesFromHolders(r)
    BY <1>3, NobodyComes DEF Checking
  <2>2. StatusesFall /\ InvitesFall
    BY <1>1, RowsStay
  <2>3. \A s \in Requests : ComesFromHolders(s)
    BY <1>1, <1>2, <2>1, <2>2, StandingStill
  <2> QED
    BY <2>2, <2>3, HoldersComeFromHolders
<1>7. \A e \in Emails : Inserters(e)' \subseteq Inserters(e)
  BY <1>2, <1>3 DEF Inserters
<1>8. AddressesStand'
  <2> SUFFICES ASSUME NEW e \in Emails
               PROVE  Cardinality(HoldersOf(e)') + Cardinality(Inserters(e)') <= Cardinality(Requests)
    BY DEF AddressesStand
  <2>1. Cardinality(HoldersOf(e)) + Cardinality(Inserters(e)) <= Cardinality(Requests)
    BY <1>1 DEF AddressesStand
  <2> QED
    BY <1>1, <1>6, <1>7, <2>1, AddressesFall DEF HoldersFall
<1>9. \A s \in Requests : Asks'[s] = Asks[s]
  BY <1>2, <1>4 DEF Asks
<1>10. \A w \in {"occupied", "invited"} : Counted(w)' \ {r} \subseteq Counted(w)
  BY <1>1, <1>2 DEF Counted
<1>11. \A w \in {"occupied", "invited"} : w # what => Counted(w)' \subseteq Counted(w)
  <2> SUFFICES ASSUME NEW w \in {"occupied", "invited"}, w # what, r \in Counted(w)'
               PROVE  r \in Counted(w)
    BY <1>10
  <2>1. /\ w \notin req[r].todo /\ req[r].seats + Seats(what) + Asked(req[r]) <= world.maxUsers
    BY <1>1, <1>3, <1>4 DEF Counted
  <2>2. Asked(req[r]) \in Nat /\ world.maxUsers \in Nat
    BY <1>1, ConstantsAssumption, SeatsOfTheTenant DEF ChecksStand, Fitting, Asked, Checking
  <2> QED
    BY <1>1, <1>3, <2>1, <2>2 DEF Counted, Checking
<1>12. ASSUME r \in Counted(what)'
       PROVE  /\ Asks'[r] \in Nat /\ Asks'[r] >= 1 /\ Asks'[r] <= world.maxUsers
              /\ Seats(what) + Asks'[r] <= world.maxUsers
  <2>1. Asked(req[r]) \in Nat /\ Asked(req[r]) >= 1
    BY <1>1, ConstantsAssumption DEF ChecksStand, Fitting, Asked, Checking
  <2>2. req[r].seats + Seats(what) + Asked(req[r]) <= world.maxUsers
    BY <1>1, <1>3, <1>4, <1>12 DEF Counted
  <2>3. Asks'[r] = Asked(req[r])
    BY <1>9 DEF Asks
  <2> QED
    BY <1>1, <1>3, <2>1, <2>2, <2>3, SeatsOfTheTenant
<1>13. /\ \A w : Counted(w)' \intersect Resenders = {}
       /\ \A w : Counted(w)' \intersect (Finders \union Redeemers) = {}
       /\ \A w : Counted(w)' \in SUBSET Requests
       /\ Resenders \in SUBSET Requests /\ Finders \union Redeemers \in SUBSET Requests
  BY <1>1, <1>2 DEF Counted, Checking, Resenders, Resends, Finders, Finds, Redeemers, Redeeming
<1>14. /\ Cardinality(Awaited') \in Nat /\ Cardinality(Awaited') <= Cardinality(Awaited)
       /\ Cardinality(SeatHolders') \in Nat /\ Cardinality(SeatHolders') <= Cardinality(SeatHolders)
       /\ Cardinality(Awaited) \in Nat /\ Cardinality(SeatHolders) \in Nat
  BY <1>6, RacersAreFinite, Smaller DEF HoldersFall
<1>15. SeatsStand'
  <2> SUFFICES ASSUME NEW n \in {MaxBatch, world'.maxUsers}
               PROVE  /\ Within(Cardinality(Awaited), Counted("invited"), Asks, n, Limit(n))'
                      /\ Within(Cardinality(SeatHolders), Counted("occupied"), Asks, n, 2 * Limit(n))'
    BY DEF SeatsStand
  <2>1. n \in {MaxBatch, world.maxUsers} /\ Limit(n)' = Limit(n)
    BY <1>1 DEF Limit
  <2>2. n \in Nat /\ Limit(n) \in Nat /\ 2 * Limit(n) \in Nat /\ world.maxUsers \in Nat
    BY <1>1, <2>1, SeatsOfTheTenant
  <2>3. /\ Within(Cardinality(Awaited), Counted("invited"), Asks, n, Limit(n))
        /\ Within(Cardinality(SeatHolders), Counted("occupied"), Asks, n, 2 * Limit(n))
    BY <1>1, <2>1 DEF SeatsStand
  <2>4. /\ \A s \in Counted("invited") : Asks[s] \in Nat
        /\ \A s \in Counted("occupied") : Asks[s] \in Nat
    BY <1>1, CountedAsk
  <2>5. Cardinality(Awaited) <= Limit(n)
    BY <1>14, <2>2, <2>3, <2>4, RacersAreFinite, WithinBounds
  <2>6. r \in Counted(what)' => n >= 1
    BY <1>12, <2>1, <2>2, ConstantsAssumption
  <2>7. Within(Cardinality(Awaited'), Counted("invited")', Asks', n, Limit(n))
    <3>1. CASE what = "invited" /\ r \in Counted("invited")'
      <4> DEFINE t == Cardinality(Counted("invited")')
                 k == Cardinality(Resenders)
      <4>1. /\ Invited \in Nat /\ Invited + Asks'[r] <= world.maxUsers
            /\ Asks'[r] \in Nat /\ n >= 1
        BY <1>3, <1>12, <2>6, <3>1 DEF Seats
      <4>2. Invited + k + Asks'[r] + (t - 1) * n <= Limit(n)
        BY <1>1, <1>13, <2>1, <3>1, <4>1, CountStands
      <4>3. k \in Nat /\ t \in Nat /\ t # 0
        BY <1>13, <3>1, ConstantsAssumption, Smaller, FS_EmptySet
      <4>4. Cardinality(Awaited') <= Invited + k
        BY <1>14, <4>1, <4>3, AwaitedAreCounted
      <4>5. (t - 1) * n \in Nat
        BY <2>2, <4>3, Shares
      <4>6. Cardinality(Awaited') + Asks'[r] + (t - 1) * n <= Limit(n)
        BY <1>14, <2>2, <4>1, <4>2, <4>3, <4>4, <4>5
      <4> QED
        BY <3>1, <4>6 DEF Within
    <3>2. CASE what # "invited" \/ r \notin Counted("invited")'
      <4>1. Counted("invited")' \subseteq Counted("invited")
        BY <1>10, <1>11, <3>2
      <4>2. \A s \in Counted("invited")' : Asks'[s] = Asks[s]
        BY <1>9, <1>13
      <4> QED
        BY <1>14, <2>2, <2>3, <2>4, <4>1, <4>2, RacersAreFinite, WithinFalls
    <3> QED
      BY <3>1, <3>2
  <2>8. Within(Cardinality(SeatHolders'), Counted("occupied")', Asks', n, 2 * Limit(n))
    <3>1. CASE what = "occupied" /\ r \in Counted("occupied")'
      <4> DEFINE t == Cardinality(Counted("occupied")')
                 k == Cardinality(Finders \union Redeemers)
      <4>1. /\ Occupied \in Nat /\ Occupied + Asks'[r] <= world.maxUsers
            /\ Asks'[r] \in Nat /\ n >= 1
        BY <1>3, <1>12, <2>6, <3>1 DEF Seats
      <4>2. Occupied + k + Asks'[r] + (t - 1) * n <= Limit(n)
        BY <1>1, <1>13, <2>1, <3>1, <4>1, CountStands
      <4>3. k \in Nat /\ t \in Nat /\ t # 0
        BY <1>13, <3>1, ConstantsAssumption, Smaller, FS_EmptySet
      <4>4. Cardinality(SeatHolders') <= Occupied + Cardinality(Awaited) + k
        BY <1>14, <4>1, <4>3, HoldersAreCounted
      <4>5. (t - 1) * n \in Nat
        BY <2>2, <4>3, Shares
      <4>6. Cardinality(SeatHolders') + Asks'[r] + (t - 1) * n <= 2 * Limit(n)
        BY <1>14, <2>2, <2>5, <4>1, <4>2, <4>3, <4>4, <4>5
      <4> QED
        BY <3>1, <4>6 DEF Within
    <3>2. CASE what # "occupied" \/ r \notin Counted("occupied")'
      <4>1. Counted("occupied")' \subseteq Counted("occupied")
        BY <1>10, <1>11, <3>2
      <4>2. \A s \in Counted("occupied")' : Asks'[s] = Asks[s]
        BY <1>9, <1>13
      <4> QED
        BY <1>14, <2>2, <2>3, <2>4, <4>1, <4>2, RacersAreFinite, WithinFalls
    <3> QED
      BY <3>1, <3>2
  <2> QED
    BY <2>1, <2>7, <2>8 DEF Within
<1> QED
  BY <1>5, <1>8, <1>15 DEF RaceInv

\* A step that leaves the rows and the tenant, and from which a request
\* leaves the seats it has counted to those it brings in.
LEMMA Spending ==
  ASSUME Types, SeatsStand, ChecksStand, world'.maxUsers = world.maxUsers, NEW r \in Requests,
         NEW M, IsFiniteSet(M), Cardinality(M) <= Asks[r],
         Awaited' \subseteq Awaited \union M, SeatHolders' \subseteq SeatHolders \union M,
         \A w \in {"occupied", "invited"} :
           /\ r \in Counted(w) /\ Counted(w)' \subseteq Counted(w) \ {r}
           /\ \A s \in Counted(w)' : Asks'[s] = Asks[s]
  PROVE  SeatsStand'
<1> SUFFICES ASSUME NEW n \in {MaxBatch, world'.maxUsers}
             PROVE  /\ Within(Cardinality(Awaited), Counted("invited"), Asks, n, Limit(n))'
                    /\ Within(Cardinality(SeatHolders), Counted("occupied"), Asks, n, 2 * Limit(n))'
  BY DEF SeatsStand
<1>1. n \in {MaxBatch, world.maxUsers} /\ Limit(n)' = Limit(n)
  BY DEF Limit
<1>2. n \in Nat /\ Limit(n) \in Nat /\ 2 * Limit(n) \in Nat
  BY <1>1, SeatsOfTheTenant
<1>3. /\ Within(Cardinality(Awaited), Counted("invited"), Asks, n, Limit(n))
      /\ Within(Cardinality(SeatHolders), Counted("occupied"), Asks, n, 2 * Limit(n))
  BY <1>1 DEF SeatsStand
<1>4. /\ \A s \in Counted("invited") : Asks[s] \in Nat
      /\ \A s \in Counted("occupied") : Asks[s] \in Nat
      /\ Asks[r] \in Nat /\ Asks[r] <= n
  BY <1>1, CountedAsk
<1>5. /\ Counted("invited")' \subseteq Counted("invited") \ {r} /\ r \in Counted("invited")
      /\ Counted("occupied")' \subseteq Counted("occupied") \ {r} /\ r \in Counted("occupied")
      /\ \A s \in Counted("invited")' : Asks'[s] = Asks[s]
      /\ \A s \in Counted("occupied")' : Asks'[s] = Asks[s]
  OBVIOUS
<1>6. /\ Cardinality(Awaited') \in Nat /\ Cardinality(Awaited) \in Nat
      /\ Cardinality(Awaited') <= Cardinality(Awaited) + Asks[r]
  <2>1. IsFiniteSet(Awaited) /\ Cardinality(Awaited) \in Nat /\ Cardinality(M) \in Nat
    BY RacersAreFinite, FS_CardinalityType
  <2>2. /\ IsFiniteSet(Awaited \union M) /\ Cardinality(Awaited \union M) \in Nat
        /\ Cardinality(Awaited \union M) <= Cardinality(Awaited) + Cardinality(M)
    BY <2>1, Together
  <2>3. Cardinality(Awaited') \in Nat /\ Cardinality(Awaited') <= Cardinality(Awaited \union M)
    BY <2>2, Smaller
  <2> QED
    BY <1>4, <2>1, <2>2, <2>3
<1>7. /\ Cardinality(SeatHolders') \in Nat /\ Cardinality(SeatHolders) \in Nat
      /\ Cardinality(SeatHolders') <= Cardinality(SeatHolders) + Asks[r]
  <2>1. IsFiniteSet(SeatHolders) /\ Cardinality(SeatHolders) \in Nat /\ Cardinality(M) \in Nat
    BY RacersAreFinite, FS_CardinalityType
  <2>2. /\ IsFiniteSet(SeatHolders \union M) /\ Cardinality(SeatHolders \union M) \in Nat
        /\ Cardinality(SeatHolders \union M) <= Cardinality(SeatHolders) + Cardinality(M)
    BY <2>1, Together
  <2>3. Cardinality(SeatHolders') \in Nat
        /\ Cardinality(SeatHolders') <= Cardinality(SeatHolders \union M)
    BY <2>2, Smaller
  <2> QED
    BY <1>4, <2>1, <2>2, <2>3
<1>8. Within(Cardinality(Awaited'), Counted("invited")', Asks', n, Limit(n))
  BY <1>2, <1>3, <1>4, <1>5, <1>6, RacersAreFinite, WithinSpends
<1>9. Within(Cardinality(SeatHolders'), Counted("occupied")', Asks', n, 2 * Limit(n))
  BY <1>2, <1>3, <1>4, <1>5, <1>7, RacersAreFinite, WithinSpends
<1> QED
  BY <1>1, <1>8, <1>9 DEF Within

\* A request found room: it goes on to the addresses, or replaces the
\* invitation.
LEMMA AssertSeatsRaces ==
  ASSUME MembershipInv, RaceInv, NEW r \in Requests, AssertSeatsAvailable(r)
  PROVE  RaceInv'
<1>1. CASE Rollback(r)
  BY <1>1, RollbackFalls
<1>2. CASE ~Rollback(r) /\ req[r].call # "resendInvite"
  <2>1. /\ req[r].pc = "count" /\ HasRoom(req[r]) /\ Goto(r, "checkEmails")
        /\ UNCHANGED <<world, member, invite>>
    BY <1>2 DEF AssertSeatsAvailable, HasRoom, rows
  <2>2. /\ "checkEmails" \in Phases /\ req[r].pc \in Checking
        /\ "checkEmails" \notin {"consume", "insertInvite", "touch", "commit"}
    BY <2>1 DEF Phases, Checking
  <2> QED
    BY <2>1, <2>2, GotoFalls
<1>3. CASE ~Rollback(r) /\ req[r].call = "resendInvite"
  <2> DEFINE m == req[r].member
             next == [req[r] EXCEPT !.pc = "consume"]
  <2>1. /\ Types /\ SeatsStand /\ AddressesStand /\ ChecksStand
        /\ req[r].pc = "count" /\ HasRoom(req[r]) /\ Goto(r, "consume")
        /\ UNCHANGED <<world, member, invite>>
    BY <1>3 DEF AssertSeatsAvailable, HasRoom, MembershipInv, RaceInv, rows
  <2>2. /\ req[r] \in RequestTypes /\ req' = [req EXCEPT ![r] = next] /\ req'[r] = next
        /\ \A s \in Requests : s # r => req'[s] = req[s]
    <3>1. "consume" \in Phases
      BY DEF Phases
    <3>2. req' = [req EXCEPT ![r] = next]
      BY <2>1, <3>1, GotoMoves
    <3> QED
      BY <2>1, <3>2 DEF Types
  <2>3. req'[r].pc = "consume" /\ req'[r].call = req[r].call /\ req'[r].member = m
    BY <2>2 DEF RequestTypes
  <2> HIDE DEF next
  <2>4. /\ Resenders' \subseteq Resenders \union {r}
        /\ Finders' \subseteq Finders /\ Redeemers' \subseteq Redeemers
    BY <1>3, <2>2, <2>3 DEF Resenders, Resends, Finders, Finds, Redeemers, Redeeming
  <2>5. /\ About(Resenders)' \subseteq About(Resenders) \union {m}
        /\ About(Finders)' \subseteq About(Finders)
        /\ About(Redeemers)' \subseteq About(Redeemers)
    <3>1. ASSUME NEW s \in Resenders', s # r PROVE req'[s].member \in About(Resenders)
      <4>1. s \in Resenders /\ req'[s] = req[s]
        BY <2>2, <2>4, <3>1 DEF Resenders
      <4> QED
        BY <4>1 DEF About
    <3>2. ASSUME NEW s \in Finders' PROVE req'[s].member \in About(Finders)
      <4>1. s \in Finders /\ s # r
        BY <2>3, <2>4, <3>2 DEF Finders, Finds
      <4> QED
        BY <2>2, <4>1 DEF About, Finders
    <3>3. ASSUME NEW s \in Redeemers' PROVE req'[s].member \in About(Redeemers)
      <4>1. s \in Redeemers /\ s # r
        BY <1>3, <2>3, <2>4, <3>3 DEF Redeemers, Redeeming
      <4> QED
        BY <2>2, <4>1 DEF About, Redeemers
    <3> QED
      BY <2>3, <3>1, <3>2, <3>3 DEF About
  <2>6. Awaited' \subseteq Awaited \union {m}
    BY <2>1, <2>5 DEF Awaited, LiveFor, InvitesOf, Pending
  <2>7. SeatHolders' \subseteq SeatHolders \union {m}
    BY <2>1, <2>5, <2>6 DEF SeatHolders, Seated, Coming
  <2>8. \A e \in Emails : HoldersOf(e)' \subseteq HoldersOf(e)
    BY <2>1, <2>5 DEF HoldersOf, Present, Exists
  <2>9. \A e \in Emails : Inserters(e)' \subseteq Inserters(e)
    BY <2>2, <2>3 DEF Inserters
  <2>10. ASSUME NEW w \in {"occupied", "invited"}
         PROVE  /\ r \in Counted(w) /\ Counted(w)' \subseteq Counted(w) \ {r}
                /\ \A s \in Counted(w)' : Asks'[s] = Asks[s]
    <3>1. r \in Counted(w)
      BY <2>1 DEF HasRoom, Counted, Checking
    <3>2. ASSUME NEW s \in Counted(w)' PROVE s \in Counted(w) \ {r} /\ Asks'[s] = Asks[s]
      <4>1. s \in Requests /\ s # r
        BY <2>3, <3>2 DEF Counted, Checking
      <4> QED
        BY <2>1, <2>2, <3>2, <4>1 DEF Counted, Asks
    <3> QED
      BY <3>1, <3>2
  <2>11. SeatsStand'
    <3>1. IsFiniteSet({m}) /\ Cardinality({m}) = 1
      BY FS_Singleton
    <3>2. Asks[r] = 1
      BY <1>3 DEF Asks, Asked
    <3> QED
      BY <2>1, <2>6, <2>7, <2>10, <3>1, <3>2, Spending
  <2>12. AddressesStand'
    <3> SUFFICES ASSUME NEW e \in Emails
                 PROVE  Cardinality(HoldersOf(e)') + Cardinality(Inserters(e)')
                          <= Cardinality(Requests)
      BY DEF AddressesStand
    <3>1. Cardinality(HoldersOf(e)) + Cardinality(Inserters(e)) <= Cardinality(Requests)
      BY <2>1 DEF AddressesStand
    <3> QED
      BY <2>1, <2>8, <2>9, <3>1, AddressesFall
  <2>13. ChecksStand'
    <3>1. Fitting(req[r])'
      BY <2>3 DEF Fitting, Checking
    <3>2. ASSUME NEW s \in Requests, s # r PROVE Fitting(req[s])'
      BY <2>1, <2>2, <3>2 DEF ChecksStand, Fitting, HasRoom
    <3> QED
      BY <3>1, <3>2 DEF ChecksStand
  <2> QED
    BY <2>11, <2>12, <2>13 DEF RaceInv
<1> QED
  BY <1>1, <1>2, <1>3

\* A request found its addresses free: whoever holds one is being brought in.
LEMMA AssertEmailRaces ==
  ASSUME MembershipInv, RaceInv, NEW r \in Requests, AssertEmailAvailable(r)
  PROVE  RaceInv'
<1>1. CASE Rollback(r)
  BY <1>1, RollbackFalls
<1>2. CASE ~Rollback(r)
  <2> DEFINE next == [req[r] EXCEPT !.pc = "insertMembers"]
  <2>1. /\ Types /\ SeatsStand /\ AddressesStand /\ ChecksStand
        /\ req[r].pc = "checkEmails" /\ Goto(r, "insertMembers")
        /\ \A e \in req[r].batch : ~Taken(e)
        /\ UNCHANGED <<world, member, invite>>
    BY <1>2 DEF AssertEmailAvailable, MembershipInv, RaceInv, rows
  <2>2. /\ req[r] \in RequestTypes /\ req' = [req EXCEPT ![r] = next] /\ req'[r] = next
        /\ \A s \in Requests : s # r => req'[s] = req[s]
    <3>1. "insertMembers" \in Phases
      BY DEF Phases
    <3>2. req' = [req EXCEPT ![r] = next]
      BY <2>1, <3>1, GotoMoves
    <3> QED
      BY <2>1, <3>2 DEF Types
  <2>3. /\ req'[r].pc = "insertMembers" /\ req'[r].call = req[r].call
        /\ req'[r].batch = req[r].batch /\ req'[r].todo = req[r].todo
        /\ req'[r].seats = req[r].seats
    BY <2>2 DEF RequestTypes
  <2> HIDE DEF next
  <2>4. Asked(req'[r]) = Asked(req[r])
    BY <2>3 DEF Asked
  <2>5. HoldersFall
    <3>1. ComesFromHolders(r)
      BY <2>3, NobodyComes DEF Checking
    <3>2. StatusesFall /\ InvitesFall
      BY <2>1, RowsStay
    <3>3. \A s \in Requests : ComesFromHolders(s)
      BY <2>1, <2>2, <3>1, <3>2, StandingStill
    <3> QED
      BY <3>2, <3>3, HoldersComeFromHolders
  <2>6. ASSUME NEW w \in {"occupied", "invited"}
        PROVE  Counted(w)' \subseteq Counted(w) /\ \A s \in Counted(w)' : Asks'[s] = Asks[s]
    BY <2>1, <2>2, <2>3, <2>4 DEF Counted, Asks, Checking
  <2>7. SeatsStand'
    BY <2>1, <2>5, <2>6, SeatsFall DEF HoldersFall
  <2>8. ASSUME NEW e \in Emails
        PROVE  Cardinality(HoldersOf(e)') + Cardinality(Inserters(e)') <= Cardinality(Requests)
    <3>1. CASE e \in req[r].batch
      <4>1. HoldersOf(e)' \subseteq About(Redeemers)
        BY <2>1, <2>5, <3>1 DEF HoldersFall, HoldersOf, Present, Taken
      <4>2. Redeemers \intersect Inserters(e)' = {}
            /\ Redeemers \in SUBSET Requests /\ Inserters(e)' \in SUBSET Requests
        BY <2>1, <2>2 DEF Inserters, Redeemers, Redeeming
      <4>3. /\ IsFiniteSet(About(Redeemers)) /\ IsFiniteSet(Redeemers)
            /\ Cardinality(About(Redeemers)) <= Cardinality(Redeemers)
            /\ Cardinality(About(Redeemers)) \in Nat /\ Cardinality(Redeemers) \in Nat
        BY <4>2, NoMoreThanRequests
      <4>4. Cardinality(HoldersOf(e)') \in Nat
            /\ Cardinality(HoldersOf(e)') <= Cardinality(About(Redeemers))
        BY <4>1, <4>3, Smaller
      <4>5. IsFiniteSet(Inserters(e)') /\ Cardinality(Inserters(e)') \in Nat
        BY <4>2, ConstantsAssumption, Smaller
      <4>6. Cardinality(Redeemers \union Inserters(e)')
              = Cardinality(Redeemers) + Cardinality(Inserters(e)')
        BY <4>2, <4>3, <4>5, Together
      <4>7. Cardinality(Redeemers \union Inserters(e)') <= Cardinality(Requests)
            /\ Cardinality(Requests) \in Nat
        BY <4>2, ConstantsAssumption, Smaller
      <4> QED
        BY <4>3, <4>4, <4>5, <4>6, <4>7
    <3>2. CASE e \notin req[r].batch
      <4>1. Inserters(e)' \subseteq Inserters(e)
        BY <2>2, <2>3, <3>2 DEF Inserters
      <4>2. Cardinality(HoldersOf(e)) + Cardinality(Inserters(e)) <= Cardinality(Requests)
        BY <2>1 DEF AddressesStand
      <4> QED
        BY <2>1, <2>5, <4>1, <4>2, AddressesFall DEF HoldersFall
    <3> QED
      BY <3>1, <3>2
  <2>9. AddressesStand'
    BY <2>8 DEF AddressesStand
  <2>10. ChecksStand'
    <3>1. Fitting(req[r])
      BY <2>1 DEF ChecksStand
    <3>2. Fitting(req[r])'
      BY <2>1, <2>3, <2>4, <3>1 DEF Fitting, HasRoom, Checking
    <3>3. ASSUME NEW s \in Requests, s # r PROVE Fitting(req[s])'
      BY <2>1, <2>2, <3>3 DEF ChecksStand, Fitting, HasRoom
    <3> QED
      BY <3>2, <3>3 DEF ChecksStand
  <2> QED
    BY <2>7, <2>9, <2>10 DEF RaceInv
<1> QED
  BY <1>1, <1>2

\* A batch is brought in: it was counted, and its addresses were free.
LEMMA InsertMembersRaces ==
  ASSUME MembershipInv, RaceInv, NEW r \in Requests, InsertMembers(r)
  PROVE  RaceInv'
<1> DEFINE q == req[r]
           n == Cardinality(q.batch)
           M == FreshMembers(n)
           I == FreshInvites(n)
           invited == CHOOSE f \in Bijection(I, M) : TRUE
           Inviting(i) == q.status = "pending_invite" /\ i \in I
<1>0. /\ Types /\ SeatsStand /\ AddressesStand /\ ChecksStand
      /\ Fits(req[r]) /\ req[r].pc = "insertMembers"
  BY DEF MembershipInv, RaceInv, RequestStands, InsertMembers
<1>1. /\ M \subseteq MemberIds /\ \A m \in M : member[m].status = "none"
      /\ I \subseteq InviteIds /\ IsFiniteSet(M) /\ Cardinality(M) = n
  BY FreshRows, FiniteIds, FS_Subset DEF InsertMembers, Room
<1>2. \A i \in InviteIds : Inviting(i) => invited[i] \in M
  <2>1. IsFiniteSet(M) /\ IsFiniteSet(I)
    BY <1>1, FiniteIds, FS_Subset
  <2>2. q.status = "pending_invite" => Cardinality(I) = Cardinality(M)
    BY DEF InsertMembers, Room
  <2> QED
    BY <2>1, <2>2, InvitedApart
<1>3. PICK email \in Bijection(M, q.batch) :
        member' = [m \in MemberIds |-> IF m \in M THEN [status |-> q.status, email |-> email[m]]
                                                  ELSE member[m]]
  BY DEF InsertMembers
<1>4. /\ invite' = [i \in InviteIds |->
            IF Inviting(i) THEN [state |-> "pending", expired |-> FALSE, member |-> invited[i]]
                           ELSE invite[i]]
      /\ End(r) /\ UNCHANGED world
  BY DEF InsertMembers
<1> HIDE DEF M, I, n, invited, Inviting
<1>5. /\ req'[r] = Idle /\ \A s \in Requests : s # r => req'[s] = req[s]
  BY <1>0, <1>4 DEF End, Types
<1>6. /\ Resenders' \subseteq Resenders /\ Finders' \subseteq Finders
      /\ Redeemers' \subseteq Redeemers
      /\ \A s \in Requests : s = r => s \notin Resenders' /\ s \notin Finders' /\ s \notin Redeemers'
  BY <1>5 DEF Resenders, Resends, Finders, Finds, Redeemers, Redeeming, Idle
<1>7. /\ About(Resenders)' \subseteq About(Resenders)
      /\ About(Finders)' \subseteq About(Finders)
      /\ About(Redeemers)' \subseteq About(Redeemers)
  <2>1. Resenders \subseteq Requests /\ Finders \subseteq Requests /\ Redeemers \subseteq Requests
    BY DEF Resenders, Finders, Redeemers
  <2> QED
    BY <1>5, <1>6, <2>1 DEF About
<1>8. ASSUME NEW m \in MemberIds \ M
      PROVE  /\ member'[m] = member[m]
             /\ LiveFor(m)' => LiveFor(m)
  <2>1. member'[m] = member[m]
    BY <1>3
  <2>2. ASSUME NEW i \in InviteIds, invite'[i].member = m PROVE invite'[i] = invite[i]
    <3>1. ~Inviting(i)
      BY <1>2, <1>4, <1>8, <2>2
    <3> QED
      BY <1>4, <3>1
  <2> QED
    BY <2>1, <2>2 DEF LiveFor, InvitesOf, Pending
<1>9. Awaited' \subseteq Awaited \union M
  BY <1>7, <1>8 DEF Awaited
<1>10. SeatHolders' \subseteq SeatHolders \union M
  BY <1>7, <1>8, <1>9 DEF SeatHolders, Seated, Coming
<1>11. HasRoom(req[r])
  BY <1>0 DEF ChecksStand, Fitting
<1>12. ASSUME NEW w \in {"occupied", "invited"}
       PROVE  /\ r \in Counted(w) /\ Counted(w)' \subseteq Counted(w) \ {r}
              /\ \A s \in Counted(w)' : Asks'[s] = Asks[s]
  <2>1. r \in Counted(w)
    BY <1>0, <1>11 DEF HasRoom, Counted, Checking
  <2>2. ASSUME NEW s \in Counted(w)' PROVE s \in Counted(w) \ {r} /\ Asks'[s] = Asks[s]
    <3>1. s \in Requests /\ s # r
      BY <1>5, <2>2 DEF Counted, Checking, Idle
    <3> QED
      BY <1>4, <1>5, <2>2, <3>1 DEF Counted, Asks
  <2> QED
    BY <2>1, <2>2
<1>13. SeatsStand'
  <2>1. Asks[r] = n
    BY <1>0 DEF Asks, Asked, n, Fits, Admitting
  <2>2. n \in Nat
    BY <1>1, FS_CardinalityType
  <2>3. world'.maxUsers = world.maxUsers
    BY <1>4
  <2> QED
    BY <1>0, <1>1, <1>9, <1>10, <1>12, <2>1, <2>2, <2>3, Spending
<1>14. ASSUME NEW e \in Emails
       PROVE  Cardinality(HoldersOf(e)') + Cardinality(Inserters(e)') <= Cardinality(Requests)
  <2>1. Cardinality(HoldersOf(e)) + Cardinality(Inserters(e)) <= Cardinality(Requests)
    BY <1>0 DEF AddressesStand
  <2>2. \A m \in MemberIds \ M : m \in HoldersOf(e)' => m \in HoldersOf(e)
    BY <1>7, <1>8 DEF HoldersOf, Present, Exists
  <2>3. Inserters(e)' \subseteq Inserters(e) \ {r}
    BY <1>5 DEF Inserters, Idle
  <2>4. HoldersOf(e)' \subseteq MemberIds
    BY DEF HoldersOf
  <2>5. ASSUME NEW m \in M, m \in HoldersOf(e)' PROVE email[m] = e /\ e \in q.batch
    <3>1. member'[m].email = email[m]
      BY <1>1, <1>3
    <3>2. email[m] = e
      BY <2>5, <3>1 DEF HoldersOf
    <3> QED
      BY <1>3, <3>2 DEF Bijection, Injection
  <2>6. CASE M \intersect HoldersOf(e)' = {}
    <3>1. HoldersOf(e)' \subseteq HoldersOf(e)
      BY <2>2, <2>4, <2>6
    <3> QED
      BY <1>0, <2>1, <2>3, <3>1, AddressesFall
  <2>7. CASE M \intersect HoldersOf(e)' # {}
    <3> PICK m \in M : m \in HoldersOf(e)'
      BY <2>7
    <3>1. HoldersOf(e)' \subseteq HoldersOf(e) \union {m}
      <4>1. \A o \in M : o \in HoldersOf(e)' => o = m
        BY <1>3, <2>5 DEF Bijection, Injection, IsInjective
      <4> QED
        BY <2>2, <2>4, <4>1
    <3>2. r \in Inserters(e)
      BY <1>0, <2>5 DEF Inserters
    <3>3. /\ IsFiniteSet(HoldersOf(e)) /\ Cardinality(HoldersOf(e)) \in Nat
          /\ IsFiniteSet(Inserters(e)) /\ Cardinality(Inserters(e)) \in Nat
      BY RacersAreFinite
    <3>4. /\ IsFiniteSet({m}) /\ Cardinality({m}) = 1
      BY FS_Singleton
    <3>5. /\ IsFiniteSet(HoldersOf(e) \union {m}) /\ Cardinality(HoldersOf(e) \union {m}) \in Nat
          /\ Cardinality(HoldersOf(e) \union {m}) <= Cardinality(HoldersOf(e)) + 1
      BY <3>3, <3>4, Together
    <3>6. /\ IsFiniteSet(Inserters(e) \ {r})
          /\ Cardinality(Inserters(e) \ {r}) = Cardinality(Inserters(e)) - 1
      BY <3>2, <3>3, FS_RemoveElement
    <3>7. /\ Cardinality(HoldersOf(e)') \in Nat
          /\ Cardinality(HoldersOf(e)') <= Cardinality(HoldersOf(e) \union {m})
      BY <3>1, <3>5, Smaller
    <3>8. /\ Cardinality(Inserters(e)') \in Nat
          /\ Cardinality(Inserters(e)') <= Cardinality(Inserters(e) \ {r})
      BY <2>3, <3>6, Smaller
    <3> QED
      BY <1>0, <2>1, <3>3, <3>5, <3>6, <3>7, <3>8, SeatsOfTheTenant
  <2> QED
    BY <2>6, <2>7
<1>15. AddressesStand'
  BY <1>14 DEF AddressesStand
<1>16. ChecksStand'
  <2>1. Fitting(req[r])'
    BY <1>5 DEF Fitting, Checking, Idle
  <2>2. ASSUME NEW s \in Requests, s # r PROVE Fitting(req[s])'
    BY <1>0, <1>4, <1>5, <2>2 DEF ChecksStand, Fitting, HasRoom
  <2> QED
    BY <2>1, <2>2 DEF ChecksStand
<1> QED
  BY <1>13, <1>15, <1>16 DEF RaceInv

-----------------------------------------------------------------------------
(* The races of a tenant stay bounded *)

LEMMA RaceInit ==
  ASSUME Init
  PROVE  RaceInv
<1> DEFINE Founding == {m \in MemberIds :
                       world.members[m].status \in SeatHolding \union {"pending_invite"}}
<1>1. /\ world \in Worlds /\ member = world.members /\ \A r \in Requests : req[r] = Idle
      /\ MembershipInv
  BY InitInvariant DEF Init
<1>2. Types
  BY <1>1 DEF MembershipInv
<1>3. /\ Cardinality(Founding) <= world.maxUsers
      /\ \A m, n \in {o \in MemberIds :
                      world.members[o].status \notin {"none", "deleted", "removed"}} :
           world.members[m].email = world.members[n].email
             /\ world.members[m].email # NoEmail => m = n
  BY <1>1, ConstantsAssumption
<1>4. /\ Finders = {} /\ Resenders = {} /\ Redeemers = {}
      /\ \A w : Counted(w) = {}
      /\ \A e : Inserters(e) = {}
  BY <1>1 DEF Finders, Finds, Resenders, Resends, Redeemers, Redeeming, Counted, Inserters,
              Checking, Idle
<1>5. About(Resenders) = {} /\ About(Finders) = {} /\ About(Redeemers) = {}
  BY <1>4 DEF About
<1>6. Awaited \subseteq Founding /\ SeatHolders \subseteq Founding
  BY <1>1, <1>5 DEF Awaited, SeatHolders, Seated, Coming
<1>7. IsFiniteSet(Founding)
  <2>1. Founding \subseteq MemberIds
    OBVIOUS
  <2> QED
    BY <2>1, FiniteIds, Smaller
<1> HIDE DEF Founding
<1>8. /\ Cardinality(Awaited) \in Nat /\ Cardinality(SeatHolders) \in Nat
      /\ Cardinality(Founding) \in Nat
      /\ Cardinality(Awaited) <= Cardinality(Founding)
      /\ Cardinality(SeatHolders) <= Cardinality(Founding)
  BY <1>6, <1>7, Smaller
<1>9. SeatsStand
  <2> SUFFICES ASSUME NEW n \in {MaxBatch, world.maxUsers}
               PROVE  /\ Within(Cardinality(Awaited), Counted("invited"), Asks, n, Limit(n))
                      /\ Within(Cardinality(SeatHolders), Counted("occupied"), Asks, n, 2 * Limit(n))
    BY DEF SeatsStand
  <2>1. /\ world.maxUsers \in Nat /\ n \in Nat /\ Limit(n) \in Nat
        /\ Cardinality(Requests) \in Nat /\ Cardinality(Requests) >= 1
    BY <1>2, SeatsOfTheTenant
  <2>2. (Cardinality(Requests) - 1) * n \in Nat
    BY <2>1, Shares
  <2>3. world.maxUsers <= Limit(n)
    BY <2>1, <2>2 DEF Limit
  <2>4. Cardinality({}) * n = 0
    <3>1. Cardinality({}) = 0
      BY FS_EmptySet
    <3> QED
      BY <2>1, <3>1
  <2>5. /\ Cardinality(Awaited) + Cardinality({}) * n <= Limit(n)
        /\ Cardinality(SeatHolders) + Cardinality({}) * n <= 2 * Limit(n)
    BY <1>3, <1>8, <2>1, <2>3, <2>4 DEF Founding
  <2> QED
    BY <1>4, <2>5 DEF Within
<1>10. AddressesStand
  <2> SUFFICES ASSUME NEW e \in Emails
               PROVE  Cardinality(HoldersOf(e)) + Cardinality(Inserters(e)) <= Cardinality(Requests)
    BY DEF AddressesStand
  <2>1. \A m, n \in HoldersOf(e) : m = n
    BY <1>1, <1>3, <1>5, ConstantsAssumption DEF HoldersOf, Present, Exists
  <2>2. Cardinality(HoldersOf(e)) <= 1 /\ Cardinality(HoldersOf(e)) \in Nat
    BY <2>1, RacersAreFinite, AtMostOne
  <2>3. Cardinality(Inserters(e)) = 0
    BY <1>4, FS_EmptySet
  <2> QED
    BY <1>2, <2>2, <2>3, SeatsOfTheTenant
<1>11. ChecksStand
  BY <1>1 DEF ChecksStand, Fitting, Checking, Idle
<1> QED
  BY <1>9, <1>10, <1>11 DEF RaceInv

LEMMA RaceStep ==
  ASSUME MembershipInv, RaceInv, [Next]_vars
  PROVE  RaceInv'
<1>1. ASSUME NEW r \in Requests, Call(r) PROVE RaceInv'
  BY <1>1, CallFalls
<1>2. ASSUME NEW r \in Requests, Proceed(r) PROVE RaceInv'
  <2>1. CASE \E what \in {"occupied", "invited"} : CountSeats(r, what)
    BY <2>1, CountSeatsRaces
  <2>2. CASE AssertSeatsAvailable(r) \/ AssertEmailAvailable(r) \/ InsertMembers(r)
    BY <2>2, AssertSeatsRaces, AssertEmailRaces, InsertMembersRaces
  <2>3. CASE RunOutOfRows(r) \/ AbortDeadlocked(r)
    BY <2>3, RollbackFalls DEF RunOutOfRows, AbortDeadlocked
  <2>4. CASE \/ FindInvitedMember(r) \/ ConsumeInvite(r) \/ ConsumeSetupToken(r)
             \/ LockSource(r) \/ LockTarget(r) \/ TransferRows(r) \/ UpdateRows(r)
             \/ TouchMember(r)
    BY <2>4, FindInvitedMemberFalls, ConsumingFalls, HardDeleteFalls, TouchMemberFalls
  <2>5. CASE \/ CommitRevocation(r) \/ CommitRedemption(r) \/ CommitSoftDelete(r)
             \/ CommitSetupLink(r) \/ CommitSetup(r)
    BY <2>5, CommitInviteFalls, CommitRowsFalls
  <2>6. CASE RemoveMember(r) \/ InsertReplacement(r)
    BY <2>6, RemoveMemberFalls, InsertReplacementFalls
  <2> QED
    BY <1>2, <2>1, <2>2, <2>3, <2>4, <2>5, <2>6 DEF Proceed
<1>3. CASE \/ \E i \in InviteIds : ExpireInvite(i)
           \/ \E m \in MemberIds : SignIn(m) \/ CreateRow(m)
           \/ UNCHANGED vars
  BY <1>3, OthersFall
<1> QED
  BY <1>1, <1>2, <1>3 DEF Next, Rest

LEMMA RaceBounds ==
  ASSUME MembershipInv, RaceInv
  PROVE  RacesAreBounded
<1>1. Types /\ SeatsStand /\ AddressesStand /\ ChecksStand
  BY DEF MembershipInv, RaceInv
<1>2. SeatOvershootIsBounded
  <2> SUFFICES ASSUME NEW n \in {MaxBatch, world.maxUsers}
               PROVE  Invited <= Limit(n) /\ Occupied + Invited <= 2 * Limit(n)
    BY DEF SeatOvershootIsBounded, Limit
  <2>1. n \in Nat /\ Limit(n) \in Nat /\ 2 * Limit(n) \in Nat
    BY <1>1, SeatsOfTheTenant
  <2>2. /\ Within(Cardinality(Awaited), Counted("invited"), Asks, n, Limit(n))
        /\ Within(Cardinality(SeatHolders), Counted("occupied"), Asks, n, 2 * Limit(n))
        /\ \A s \in Counted("invited") : Asks[s] \in Nat
        /\ \A s \in Counted("occupied") : Asks[s] \in Nat
    BY <1>1, CountedAsk DEF SeatsStand
  <2>3. Cardinality(Awaited) <= Limit(n) /\ Cardinality(SeatHolders) <= 2 * Limit(n)
    BY <2>1, <2>2, RacersAreFinite, WithinBounds
  <2>4. Invited = Cardinality(Promised) /\ Occupied = Cardinality(Seated)
    BY DEF Invited, Promised, LiveFor, Occupied, Seated
  <2>5. /\ Promised \subseteq Awaited /\ Seated \union Promised \subseteq SeatHolders
        /\ Seated \intersect Promised = {}
    BY DEF Promised, Awaited, Seated, SeatHolders, SeatHolding
  <2>6. /\ IsFiniteSet(Awaited) /\ IsFiniteSet(SeatHolders)
        /\ Cardinality(Awaited) \in Nat /\ Cardinality(SeatHolders) \in Nat
    BY RacersAreFinite
  <2>7. /\ IsFiniteSet(Promised) /\ IsFiniteSet(Seated)
        /\ Cardinality(Promised) \in Nat /\ Cardinality(Seated) \in Nat
        /\ Cardinality(Promised) <= Cardinality(Awaited)
        /\ Cardinality(Seated \union Promised) <= Cardinality(SeatHolders)
    BY <2>5, <2>6, Smaller
  <2>8. Cardinality(Seated \union Promised) = Cardinality(Seated) + Cardinality(Promised)
    BY <2>5, <2>7, Together
  <2> QED
    BY <2>1, <2>3, <2>4, <2>6, <2>7, <2>8
<1>3. AddressHeldByRacersOnly
  <2> SUFFICES ASSUME NEW e \in Emails
               PROVE  Cardinality({m \in MemberIds : Present(m) /\ member[m].email = e})
                        <= Cardinality(Requests)
    BY DEF AddressHeldByRacersOnly
  <2> DEFINE S == {m \in MemberIds : Present(m) /\ member[m].email = e}
  <2>1. S \subseteq HoldersOf(e)
    BY DEF HoldersOf
  <2> HIDE DEF S
  <2>2. /\ Cardinality(S) \in Nat /\ Cardinality(S) <= Cardinality(HoldersOf(e))
        /\ Cardinality(HoldersOf(e)) \in Nat /\ Cardinality(Inserters(e)) \in Nat
    BY <2>1, RacersAreFinite, Smaller
  <2>3. Cardinality(HoldersOf(e)) + Cardinality(Inserters(e)) <= Cardinality(Requests)
    BY <1>1 DEF AddressesStand
  <2>4. Cardinality(S) <= Cardinality(Requests)
    BY <1>1, <2>2, <2>3, SeatsOfTheTenant
  <2> QED
    BY <2>4 DEF S
<1> QED
  BY <1>2, <1>3 DEF RacesAreBounded

(* However many requests count seats and look for addresses at the same time *)
(* as others bring people in, neither kind of seats is exceeded by more than *)
(* all requests but one can ask for, and no more members hold an address     *)
(* than there are requests.                                                  *)
THEOREM SeatsAndAddressesStayBounded == Spec => []RacesAreBounded
<1>1. Init => MembershipInv /\ RaceInv
  BY InitInvariant, RaceInit
<1>2. MembershipInv /\ RaceInv /\ [Next]_vars => MembershipInv' /\ RaceInv'
  BY StepInvariant, RaceStep
<1>3. MembershipInv /\ RaceInv => RacesAreBounded
  BY RaceBounds
<1> QED
  BY <1>1, <1>2, <1>3, PTL DEF Spec

-----------------------------------------------------------------------------
(* What the pages behind the links say of them, for every number of pages,   *)
(* links and requests: a link called expired never works again, an account   *)
(* called ready was made with that link, and unless two generate() overlap    *)
(* one page only says so of a person.                                         *)

-----------------------------------------------------------------------------
(* The inductive invariant *)

Links ==
  {NoLink} \union [kind : {"invite"}, of : InviteIds] \union [kind : {"setup"}, of : TokenIds]

Views == {"closed", "idle", "submitting", "completed", "expired", "error"}

PageTypes ==
  [view : Views, link : Links, request : SUBSET Requests,
   answer : {"none", "done", "refused", "failed"}]

\* Request r redeems this link.
Redeems(r, link) ==
  IF link.kind = "invite"
    THEN req[r].call = "redeemInvite" /\ req[r].invite = link.of
    ELSE req[r].call = "redeemSetup" /\ req[r].token = link.of

\* The link has been redeemed.
Spent(link) ==
  IF link.kind = "invite" THEN invite[link.of].state = "used" ELSE token[link.of].used

IsDone(g) == page[g].view = "completed" \/ page[g].answer = "done"

\* A page that is open has a link that was delivered, and waits for at most one
\* request, which redeems it, or for an answer; what it has been answered, or
\* shows, is so.
PageStands(g) ==
  /\ page[g].view = "closed" => page[g] = Blank
  /\ page[g].view # "closed" => page[g].link \in Delivered
  /\ page[g].view = "submitting" <=> (page[g].request # {} \/ page[g].answer # "none")
  /\ page[g].request # {} => page[g].answer = "none"
  /\ \A r, s \in page[g].request : r = s
  /\ \A r \in page[g].request : Redeems(r, page[g].link)
  /\ page[g].view = "expired" \/ page[g].answer = "refused" => ~WorksNow(page[g].link)
  /\ IsDone(g) => Spent(page[g].link)

PagesApart ==
  \A g, h \in Pages : g # h => page[g].request \intersect page[h].request = {}

\* A link that was spent brought somebody in.
SpentIsClaimed ==
  /\ \A i \in InviteIds :
       invite[i].state = "used" /\ invite[i].member # Nobody
         => history.claims[invite[i].member] > 0
  /\ \A t \in TokenIds : token[t].used => \A m \in Founders : history.claims[m] > 0

\* Links that bring the same person in.
SamePerson(g, h) ==
  /\ page[g].link.kind = page[h].link.kind
  /\ page[g].link.kind = "invite" => MemberOf(g) = MemberOf(h) /\ MemberOf(g) # Nobody

OneIsDone ==
  \A g, h \in Pages :
    g # h /\ IsDone(g) /\ IsDone(h) /\ SamePerson(g, h) => history.overlapped

LinkInv ==
  /\ MembershipInv
  /\ page \in [Pages -> PageTypes]
  /\ \A g \in Pages : PageStands(g)
  /\ PagesApart
  /\ SpentIsClaimed
  /\ OneIsDone

-----------------------------------------------------------------------------
(* What becomes of rows *)

\* No step takes back what a page has been told: an invitation or a token that
\* does not work stays so, and one that is spent has brought somebody in.
RowsGoOn ==
  /\ \A i \in InviteIds : invite[i].state # "none" =>
       /\ invite'[i].state # "none"
       /\ invite'[i].state = "pending" => invite[i].state = "pending"
       /\ invite[i].state = "used" => invite'[i].state = "used"
       /\ invite[i].expired => invite'[i].expired
       /\ invite'[i].member \in {Nobody, invite[i].member}
  /\ \A m \in MemberIds :
       /\ member'[m].status = "pending_invite" => member[m].status \in {"pending_invite", "none"}
       /\ member'[m].status = "pending_setup" => member[m].status = "pending_setup"
  /\ \A t \in TokenIds : token[t].made =>
       /\ token'[t].made
       /\ token[t].used => token'[t].used
       /\ token[t].revoked => token'[t].revoked

ClaimsGoOn ==
  /\ history.overlapped => history'.overlapped
  /\ \A m \in MemberIds : history.claims[m] > 0 => history'.claims[m] > 0

\* What was not spent before is spent for a claim.
SpentForAClaim ==
  /\ \A i \in InviteIds :
       invite'[i].state = "used" /\ invite'[i].member # Nobody =>
         \/ invite[i].state = "used"
         \/ history'.claims[invite'[i].member] > 0
  /\ \A t \in TokenIds :
       token'[t].used => token[t].used \/ (\A m \in Founders : history'.claims[m] > 0)

GoesOn == RowsGoOn /\ ClaimsGoOn /\ SpentForAClaim

LEMMA StillGoesOn ==
  ASSUME UNCHANGED <<member, invite, token>>, ClaimsGoOn
  PROVE  GoesOn
BY DEF GoesOn, RowsGoOn, SpentForAClaim

LEMMA RollbackGoesOn ==
  ASSUME NEW r, Rollback(r)
  PROVE  GoesOn
<1>1. UNCHANGED <<member, invite, token, history>>
  BY DEF Rollback, rows
<1> QED
  BY <1>1, StillGoesOn DEF ClaimsGoOn

LEMMA CallGoesOn ==
  ASSUME MembershipInv, NEW r \in Requests, Call(r)
  PROVE  GoesOn
<1>1. ASSUME NEW call, NEW next, Begin(r, call, next) PROVE GoesOn
  BY <1>1, StillGoesOn DEF Begin, rows, ClaimsGoOn
<1>2. CASE CreateInvites(r) \/ DirectCreate(r) \/ Register(r)
  BY <1>1, <1>2 DEF CreateInvites, DirectCreate, Register, Admit
<1>3. CASE ResendInvite(r) \/ RevokeInvite(r) \/ RedeemInvite(r)
  BY <1>1, <1>3 DEF ResendInvite, RevokeInvite, RedeemInvite
<1>4. CASE SoftDelete(r) \/ HardDelete(r) \/ RedeemSetupToken(r)
  BY <1>1, <1>4 DEF SoftDelete, HardDelete, RedeemSetupToken
<1>5. CASE GenerateSetupLink(r)
  <2>1. UNCHANGED <<member, invite, token>>
    BY <1>5 DEF GenerateSetupLink, rows
  <2>2. history' = [history EXCEPT !.overlapped =
                      @ \/ \E s \in Requests : req[s].call = "generate"]
    BY <1>5 DEF GenerateSetupLink
  <2>3. history \in Histories
    BY DEF MembershipInv, Types
  <2>4. history'.claims = history.claims /\ (history.overlapped => history'.overlapped)
    BY <2>2, <2>3 DEF Histories
  <2> QED
    BY <2>1, <2>4, StillGoesOn DEF ClaimsGoOn
<1> QED
  BY <1>2, <1>3, <1>4, <1>5 DEF Call

LEMMA InsertMembersGoesOn ==
  ASSUME MembershipInv, NEW r \in Requests, InsertMembers(r)
  PROVE  GoesOn
<1> DEFINE n == Cardinality(req[r].batch)
<1>1. /\ req[r].pc = "insertMembers" /\ UNCHANGED <<token, history>>
      /\ \A m \in MemberIds :
           member'[m] = member[m] \/ (member[m].status = "none" /\ member'[m].status = req[r].status)
      /\ \A i \in InviteIds :
           invite'[i] = invite[i] \/ (invite[i].state = "none" /\ invite'[i].state = "pending")
  BY DEF InsertMembers, FreshMembers, FreshInvites, FirstOf
<1>2. req[r].status \in {"pending_invite", "active", "pending_approval"}
  BY <1>1 DEF MembershipInv, RequestStands, Fits
<1>3. RowsGoOn
  BY <1>1, <1>2 DEF RowsGoOn
<1>4. ClaimsGoOn /\ SpentForAClaim
  BY <1>1 DEF ClaimsGoOn, SpentForAClaim
<1> QED
  BY <1>3, <1>4 DEF GoesOn

LEMMA InsertReplacementGoesOn ==
  ASSUME MembershipInv, NEW r \in Requests, InsertReplacement(r), ~Rollback(r)
  PROVE  GoesOn
<1>1. /\ UNCHANGED <<member, token, history>>
      /\ req[r].pc = "insertInvite"
      /\ invite' = [i \in InviteIds |->
                 IF i = req[r].invite THEN [invite[i] EXCEPT !.state = "revoked"]
                 ELSE IF i \in FreshInvites(1)
                   THEN [state |-> "pending", expired |-> FALSE, member |-> req[r].member]
                   ELSE invite[i]]
  BY DEF InsertReplacement
<1>2. req[r].invite # 0 /\ Pending(req[r].invite)
  BY <1>1 DEF MembershipInv, RequestStands, Fits, Holds, OfInvite
<1>3. invite \in [InviteIds -> Invites]
  BY DEF MembershipInv, Types
<1>4. \A i \in FreshInvites(1) : invite[i].state = "none"
  BY DEF FreshInvites, FirstOf
<1>5. \A i \in InviteIds :
        \/ invite'[i] = invite[i]
        \/ invite[i].state = "none" /\ invite'[i].state = "pending"
        \/ invite[i].state = "pending" /\ invite'[i] = [invite[i] EXCEPT !.state = "revoked"]
  BY <1>1, <1>2, <1>4 DEF Pending
<1>6. ASSUME NEW i \in InviteIds
      PROVE  /\ invite[i].state # "none" =>
                  /\ invite'[i].state # "none"
                  /\ invite'[i].state = "pending" => invite[i].state = "pending"
                  /\ invite[i].state = "used" => invite'[i].state = "used"
                  /\ invite[i].expired => invite'[i].expired
                  /\ invite'[i].member \in {Nobody, invite[i].member}
             /\ invite'[i].state = "used" => invite[i].state = "used"
  <2>1. invite[i] \in Invites
    BY <1>3
  <2>2. LET j == [invite[i] EXCEPT !.state = "revoked"]
        IN  j.state = "revoked" /\ j.expired = invite[i].expired /\ j.member = invite[i].member
    BY <2>1 DEF Invites
  <2> QED
    BY <1>5, <2>2
<1>7. RowsGoOn
  BY <1>1, <1>6 DEF RowsGoOn
<1>8. ClaimsGoOn /\ SpentForAClaim
  BY <1>1, <1>6 DEF ClaimsGoOn, SpentForAClaim
<1> QED
  BY <1>7, <1>8 DEF GoesOn

\* What a commit of WriteInvites() has made of an invitation.
LEMMA WrittenInvites ==
  ASSUME Types, NEW r \in Requests, NEW state, WriteInvites(r, state),
         req[r].invite # 0 => Pending(req[r].invite)
  PROVE  \A i \in InviteIds :
           \/ invite'[i] = invite[i]
           \/ /\ invite[i].state = "pending"
              /\ \/ i = req[r].invite /\ invite'[i].state = state
                 \/ invite'[i].state = "revoked"
              /\ invite'[i].expired = invite[i].expired
              /\ invite'[i].member = invite[i].member
<1> SUFFICES ASSUME NEW i \in InviteIds
             PROVE  \/ invite'[i] = invite[i]
                    \/ /\ invite[i].state = "pending"
                       /\ \/ i = req[r].invite /\ invite'[i].state = state
                          \/ invite'[i].state = "revoked"
                       /\ invite'[i].expired = invite[i].expired
                       /\ invite'[i].member = invite[i].member
  OBVIOUS
<1>1. invite[i] \in Invites
  BY DEF Types
<1>2. ASSUME NEW x
      PROVE  LET j == [invite[i] EXCEPT !.state = x]
             IN  j.state = x /\ j.expired = invite[i].expired /\ j.member = invite[i].member
  BY <1>1 DEF Invites
<1>3. CASE i = req[r].invite
  <2>1. invite'[i] = [invite[i] EXCEPT !.state = state]
    BY <1>3 DEF WriteInvites
  <2>2. i # 0
    BY DEF InviteIds
  <2> QED
    BY <1>2, <1>3, <2>1, <2>2 DEF Pending
<1>4. CASE i # req[r].invite /\ i \in req[r].others /\ Pending(i)
  <2>1. invite'[i] = [invite[i] EXCEPT !.state = "revoked"]
    BY <1>4 DEF WriteInvites
  <2> QED
    BY <1>2, <1>4, <2>1 DEF Pending
<1>5. CASE i # req[r].invite /\ ~(i \in req[r].others /\ Pending(i))
  BY <1>5 DEF WriteInvites
<1> QED
  BY <1>3, <1>4, <1>5

LEMMA SetStatuses ==
  ASSUME Types, NEW m \in {Nobody} \union MemberIds, NEW status, SetStatus(m, status)
  PROVE  \A n \in MemberIds : member'[n] = member[n] \/ member'[n].status = status
<1>1. \A n \in MemberIds : member[n] \in Members
  BY DEF Types
<1> QED
  BY <1>1 DEF SetStatus, Types, Members

LEMMA ClaimCounts ==
  ASSUME Types, NEW m \in {Nobody} \union MemberIds, Claim(m)
  PROVE  /\ ClaimsGoOn
         /\ m # Nobody => history'.claims[m] > 0 /\ (history.claims[m] > 0 => history'.claims[m] = 2)
<1>1. /\ history \in Histories /\ history.claims \in [MemberIds -> 0 .. 2]
  BY DEF Types, Histories
<1>2. CASE m = Nobody \/ history.claims[m] = 2
  BY <1>1, <1>2 DEF Claim, ClaimsGoOn
<1>3. CASE ~(m = Nobody \/ history.claims[m] = 2)
  <2>1. m \in MemberIds /\ history.claims[m] \in {0, 1}
    BY <1>1, <1>3
  <2>2. history' = [history EXCEPT !.claims[m] = @ + 1]
    BY <1>3 DEF Claim
  <2>3. /\ history'.overlapped = history.overlapped
        /\ history'.claims = [history.claims EXCEPT ![m] = @ + 1]
    BY <1>1, <2>2 DEF Histories
  <2>4. /\ history'.claims[m] = history.claims[m] + 1
        /\ \A n \in MemberIds : n # m => history'.claims[n] = history.claims[n]
    BY <1>1, <2>1, <2>3
  <2> QED
    BY <1>1, <2>1, <2>3, <2>4 DEF ClaimsGoOn
<1> QED
  BY <1>2, <1>3

LEMMA CommitInviteGoesOn ==
  ASSUME MembershipInv, NEW r \in Requests, NEW state \in {"used", "revoked"}, NEW status,
         req[r].pc = "commit", req[r].invite # 0,
         WriteInvites(r, state), SetStatus(req[r].member, status), UNCHANGED token,
         status \notin {"pending_invite", "pending_setup"}, ClaimsGoOn,
         state = "used" /\ req[r].member # Nobody => history'.claims[req[r].member] > 0
  PROVE  GoesOn
<1>1. Types /\ Pending(req[r].invite) /\ req[r].member \in {Nobody} \union MemberIds
      /\ req[r].invite \in InviteIds
      /\ invite[req[r].invite].member \in {Nobody, req[r].member}
  BY DEF MembershipInv, RequestStands, Holds, Knows, Types, RequestTypes
<1>2. \A i \in InviteIds :
        \/ invite'[i] = invite[i]
        \/ /\ invite[i].state = "pending"
           /\ \/ i = req[r].invite /\ invite'[i].state = state
              \/ invite'[i].state = "revoked"
           /\ invite'[i].expired = invite[i].expired
           /\ invite'[i].member = invite[i].member
  BY <1>1, WrittenInvites
<1>3. \A n \in MemberIds : member'[n] = member[n] \/ member'[n].status = status
  BY <1>1, SetStatuses
<1>4. RowsGoOn
  BY <1>2, <1>3 DEF RowsGoOn
<1>5. SpentForAClaim
  BY <1>1, <1>2 DEF SpentForAClaim
<1> QED
  BY <1>4, <1>5 DEF GoesOn

LEMMA CommitsGoOn ==
  ASSUME MembershipInv, NEW r \in Requests, CommitRevocation(r) \/ CommitRedemption(r)
  PROVE  GoesOn
<1>1. req[r].pc = "commit" /\ req[r].call \in {"revokeInvite", "redeemInvite"}
  BY DEF CommitRevocation, CommitRedemption
<1>2. req[r].invite # 0
  BY <1>1 DEF MembershipInv, RequestStands, Fits, OfInvite
<1>3. CASE CommitRevocation(r)
  <2>1. /\ WriteInvites(r, "revoked") /\ SetStatus(req[r].member, "deleted") /\ UNCHANGED token
        /\ history' = [history EXCEPT !.withdrawn = @ \union ({req[r].member} \ {Nobody})]
    BY <1>3 DEF CommitRevocation
  <2>2. history \in Histories
    BY DEF MembershipInv, Types
  <2>3. history'.claims = history.claims /\ history'.overlapped = history.overlapped
    BY <2>1, <2>2 DEF Histories
  <2>4. ClaimsGoOn
    BY <2>3 DEF ClaimsGoOn
  <2>5. ASSUME NEW state \in {"used", "revoked"}, state = "revoked" PROVE GoesOn
    BY <1>1, <1>2, <2>1, <2>4, <2>5, CommitInviteGoesOn
  <2> QED
    BY <2>5
<1>4. CASE CommitRedemption(r)
  <2>1. /\ WriteInvites(r, "used") /\ SetStatus(req[r].member, "active") /\ UNCHANGED token
        /\ Claim(req[r].member)
    BY <1>4 DEF CommitRedemption
  <2>2. Types /\ req[r].member \in {Nobody} \union MemberIds
    BY DEF MembershipInv, Types, RequestTypes
  <2>3. ClaimsGoOn /\ (req[r].member # Nobody => history'.claims[req[r].member] > 0)
    BY <2>1, <2>2, ClaimCounts
  <2> QED
    BY <1>1, <1>2, <2>1, <2>3, CommitInviteGoesOn
<1> QED
  BY <1>3, <1>4

LEMMA DeletingGoesOn ==
  ASSUME MembershipInv, NEW r \in Requests, CommitSoftDelete(r) \/ RemoveMember(r)
  PROVE  GoesOn
<1>1. Types /\ req[r].member \in {Nobody} \union MemberIds
  BY DEF MembershipInv, Types, RequestTypes
<1>2. CASE CommitSoftDelete(r)
  <2>1. SetStatus(req[r].member, "deleted") /\ UNCHANGED <<invite, token, history>>
    BY <1>2 DEF CommitSoftDelete
  <2>2. \A n \in MemberIds : member'[n] = member[n] \/ member'[n].status = "deleted"
    BY <1>1, <2>1, SetStatuses
  <2> QED
    BY <2>1, <2>2 DEF GoesOn, RowsGoOn, ClaimsGoOn, SpentForAClaim
<1>3. CASE RemoveMember(r)
  <2>1. /\ member' = [member EXCEPT ![req[r].member].status = "removed"]
        /\ invite' = [i \in InviteIds |->
                     IF i \in InvitesOf(req[r].member) THEN [invite[i] EXCEPT !.member = Nobody]
                                           ELSE invite[i]]
        /\ UNCHANGED <<token, history>>
    BY <1>3 DEF RemoveMember
  <2>2. \A n \in MemberIds : member'[n] = member[n] \/ member'[n].status = "removed"
    <3>1. \A n \in MemberIds : member[n] \in Members
      BY <1>1 DEF Types
    <3> QED
      BY <1>1, <2>1, <3>1 DEF Types, Members
  <2>3. ASSUME NEW i \in InviteIds
        PROVE  /\ invite'[i].state = invite[i].state /\ invite'[i].expired = invite[i].expired
               /\ invite'[i].member \in {Nobody, invite[i].member}
    <3>1. invite[i] \in Invites
      BY <1>1 DEF Types
    <3> QED
      BY <2>1, <3>1 DEF Invites
  <2>4. RowsGoOn
    BY <2>1, <2>2, <2>3 DEF RowsGoOn
  <2> QED
    BY <2>1, <2>3, <2>4 DEF GoesOn, ClaimsGoOn, SpentForAClaim
<1> QED
  BY <1>2, <1>3

LEMMA SetupLinkGoesOn ==
  ASSUME MembershipInv, NEW r \in Requests, CommitSetupLink(r)
  PROVE  GoesOn
<1> DEFINE unmade == {t \in TokenIds : ~token[t].made}
<1>1. /\ UNCHANGED <<member, invite, history>>
      /\ token' = [t \in TokenIds |->
                    IF t \in req[r].others THEN [token[t] EXCEPT !.revoked = TRUE]
                    ELSE IF t \in FirstOf(1, unmade) THEN [NoToken EXCEPT !.made = TRUE]
                    ELSE token[t]]
  BY DEF CommitSetupLink
<1>2. ASSUME NEW t \in TokenIds
      PROVE  /\ token[t].made => /\ token'[t].made
                                 /\ token[t].used => token'[t].used
                                 /\ token[t].revoked => token'[t].revoked
             /\ token'[t].used => token[t].used
  <2>1. token[t] \in Tokens
    BY DEF MembershipInv, Types
  <2>2. CASE t \in req[r].others
    <3>1. token'[t] = [token[t] EXCEPT !.revoked = TRUE]
      BY <1>1, <2>2
    <3> QED
      BY <2>1, <3>1 DEF Tokens
  <2>3. CASE t \notin req[r].others /\ t \in FirstOf(1, unmade)
    <3>1. token'[t] = [NoToken EXCEPT !.made = TRUE] /\ ~token[t].made
      BY <1>1, <2>3 DEF FirstOf
    <3> QED
      BY <3>1 DEF NoToken
  <2>4. CASE t \notin req[r].others /\ t \notin FirstOf(1, unmade)
    BY <1>1, <2>4
  <2> QED
    BY <2>2, <2>3, <2>4
<1>3. RowsGoOn
  BY <1>1, <1>2 DEF RowsGoOn
<1>4. ClaimsGoOn /\ SpentForAClaim
  BY <1>1, <1>2 DEF ClaimsGoOn, SpentForAClaim
<1> QED
  BY <1>3, <1>4 DEF GoesOn

LEMMA SetupGoesOn ==
  ASSUME MembershipInv, NEW r \in Requests, CommitSetup(r)
  PROVE  GoesOn
<1>1. /\ req[r].pc = "commit" /\ req[r].call = "redeemSetup" /\ UNCHANGED invite
      /\ SetStatus(req[r].member, "active") /\ Claim(req[r].member)
      /\ token' = [t \in TokenIds |->
                IF t = req[r].token THEN [token[t] EXCEPT !.used = TRUE]
                ELSE IF t \in req[r].others /\ Redeemable(t)
                  THEN [token[t] EXCEPT !.revoked = TRUE]
                ELSE token[t]]
  BY DEF CommitSetup
<1>2. Types /\ req[r].member \in {Nobody} \union MemberIds
  BY DEF MembershipInv, Types, RequestTypes
<1>3. req[r].member \in Founders /\ Founders \subseteq MemberIds
      /\ \A m, n \in Founders : m = n
  BY <1>1, <1>2, WorldFacts DEF MembershipInv, RequestStands, Fits, Knows
<1>4. ClaimsGoOn /\ history'.claims[req[r].member] > 0
  BY <1>1, <1>2, <1>3, ClaimCounts DEF MemberIds, Nobody
<1>5. \A n \in MemberIds : member'[n] = member[n] \/ member'[n].status = "active"
  BY <1>1, <1>2, SetStatuses
<1>6. ASSUME NEW t \in TokenIds
      PROVE  token[t].made => /\ token'[t].made
                              /\ token[t].used => token'[t].used
                              /\ token[t].revoked => token'[t].revoked
  <2>1. token[t] \in Tokens
    BY <1>2 DEF Types
  <2> QED
    BY <1>1, <2>1 DEF Tokens
<1>7. RowsGoOn
  BY <1>1, <1>5, <1>6 DEF RowsGoOn
<1>8. SpentForAClaim
  BY <1>1, <1>3, <1>4 DEF SpentForAClaim
<1> QED
  BY <1>4, <1>7, <1>8 DEF GoesOn

LEMMA NextGoesOn ==
  ASSUME MembershipInv, [Next]_vars
  PROVE  GoesOn
<1>1. ASSUME UNCHANGED <<rows, history>> PROVE GoesOn
  BY <1>1, StillGoesOn DEF rows, ClaimsGoOn
<1>2. ASSUME NEW r \in Requests, Proceed(r) PROVE GoesOn
  <2>1. CASE Rollback(r)
    BY <2>1, RollbackGoesOn
  <2>2. CASE ~Rollback(r)
    <3>1. CASE \E what \in {"occupied", "invited"} : CountSeats(r, what)
      BY <1>1, <3>1 DEF CountSeats
    <3>2. CASE \/ AssertSeatsAvailable(r) \/ AssertEmailAvailable(r) \/ RunOutOfRows(r)
               \/ FindInvitedMember(r) \/ TransferRows(r) \/ UpdateRows(r) \/ AbortDeadlocked(r)
      BY <1>1, <2>2, <3>2 DEF AssertSeatsAvailable, AssertEmailAvailable, RunOutOfRows,
           FindInvitedMember, TransferRows, UpdateRows, AbortDeadlocked
    <3>3. CASE \/ ConsumeInvite(r) \/ ConsumeSetupToken(r) \/ LockSource(r) \/ LockTarget(r)
               \/ TouchMember(r)
      BY <1>1, <2>2, <3>3 DEF ConsumeInvite, ConsumeSetupToken, LockSource, LockTarget, TouchMember
    <3>4. CASE InsertMembers(r) \/ InsertReplacement(r)
      BY <2>2, <3>4, InsertMembersGoesOn, InsertReplacementGoesOn
    <3>5. CASE CommitRevocation(r) \/ CommitRedemption(r) \/ CommitSoftDelete(r) \/ RemoveMember(r)
      BY <3>5, CommitsGoOn, DeletingGoesOn
    <3>6. CASE CommitSetupLink(r) \/ CommitSetup(r)
      BY <3>6, SetupLinkGoesOn, SetupGoesOn
    <3> QED
      BY <1>2, <3>1, <3>2, <3>3, <3>4, <3>5, <3>6 DEF Proceed
  <2> QED
    BY <2>1, <2>2
<1>3. ASSUME NEW i \in InviteIds, ExpireInvite(i) PROVE GoesOn
  <2>1. /\ invite' = [invite EXCEPT ![i].expired = TRUE]
        /\ UNCHANGED <<member, token, history>>
    BY <1>3 DEF ExpireInvite
  <2>2. \A j \in InviteIds : invite[j] \in Invites
    BY DEF MembershipInv, Types
  <2>3. \A j \in InviteIds :
          /\ invite'[j].state = invite[j].state /\ invite'[j].member = invite[j].member
          /\ invite[j].expired => invite'[j].expired
    BY <2>1, <2>2 DEF MembershipInv, Types, Invites
  <2>4. RowsGoOn
    BY <2>1, <2>3 DEF RowsGoOn
  <2> QED
    BY <2>1, <2>3, <2>4 DEF GoesOn, ClaimsGoOn, SpentForAClaim
<1>4. ASSUME NEW m \in MemberIds, SignIn(m) \/ CreateRow(m) PROVE GoesOn
  <2>1. history'.claims = history.claims /\ history'.overlapped = history.overlapped
    BY <1>4 DEF SignIn, CreateRow, MembershipInv, Types, Histories
  <2>2. ClaimsGoOn
    BY <2>1 DEF ClaimsGoOn
  <2> QED
    BY <1>4, <2>2, StillGoesOn DEF SignIn, CreateRow, rows
<1>5. CASE UNCHANGED vars
  BY <1>1, <1>5 DEF vars, rows
<1> QED
  BY <1>2, <1>3, <1>4, <1>5, CallGoesOn DEF Next, Rest

\* A link that was delivered stays so, never works again once it does not, and
\* is spent for good.
LEMMA LinksGoOn ==
  ASSUME MembershipInv, [Next]_vars, NEW link \in Delivered
  PROVE  /\ link \in Delivered'
         /\ ~WorksNow(link) => ~WorksNow(link)'
         /\ Spent(link) => Spent(link)'
<1>1. RowsGoOn /\ Types
  BY NextGoesOn DEF GoesOn, MembershipInv
<1>2. CASE link.kind = "invite"
  <2>1. link.of \in InviteIds /\ invite[link.of].state # "none"
        /\ link \in [kind : {"invite"}, of : {i \in InviteIds : invite[i].state # "none"}]
    BY <1>2 DEF Delivered
  <2>2. link \in Delivered'
    BY <1>1, <2>1 DEF Delivered, RowsGoOn
  <2>3. invite[link.of].member # Nobody =>
          invite[link.of].member \in MemberIds /\ Exists(invite[link.of].member)
    BY <1>1, <2>1 DEF MembershipInv, RowsStand, Types, Invites
  <2>4. ASSUME WorksNow(link)' PROVE WorksNow(link)
    <3>1. /\ invite'[link.of].state = "pending" /\ ~invite'[link.of].expired
          /\ invite'[link.of].member # Nobody
          /\ member'[invite'[link.of].member].status = "pending_invite"
      BY <1>2, <2>4 DEF WorksNow, Pending
    <3>2. /\ invite[link.of].state = "pending" /\ ~invite[link.of].expired
          /\ invite'[link.of].member = invite[link.of].member
      BY <1>1, <2>1, <3>1 DEF RowsGoOn
    <3>3. member[invite[link.of].member].status = "pending_invite"
      BY <1>1, <2>3, <3>1, <3>2 DEF RowsGoOn, Exists
    <3> QED
      BY <1>2, <3>1, <3>2, <3>3 DEF WorksNow, Pending
  <2>5. Spent(link) => Spent(link)'
    BY <1>1, <1>2, <2>1 DEF RowsGoOn, Spent
  <2> QED
    BY <2>2, <2>4, <2>5
<1>3. CASE link.kind # "invite"
  <2>1. link.of \in TokenIds /\ token[link.of].made
        /\ link \in [kind : {"setup"}, of : {t \in TokenIds : token[t].made}]
    BY <1>3 DEF Delivered
  <2>2. link \in Delivered'
    BY <1>1, <2>1 DEF Delivered, RowsGoOn
  <2>3. ASSUME WorksNow(link)' PROVE WorksNow(link)
    BY <1>1, <1>3, <2>1, <2>3 DEF WorksNow, Redeemable, RowsGoOn
  <2>4. Spent(link) => Spent(link)'
    BY <1>1, <1>3, <2>1 DEF RowsGoOn, Spent
  <2> QED
    BY <2>2, <2>3, <2>4
<1> QED
  BY <1>2, <1>3

LEMMA SpentIsClaimedKeeps ==
  ASSUME MembershipInv, SpentIsClaimed, [Next]_vars, Founders' = Founders
  PROVE  SpentIsClaimed'
<1>1. RowsGoOn /\ ClaimsGoOn /\ SpentForAClaim /\ Types
  BY NextGoesOn DEF GoesOn, MembershipInv
<1>2. ASSUME NEW i \in InviteIds, invite'[i].state = "used", invite'[i].member # Nobody
      PROVE  history'.claims[invite'[i].member] > 0
  <2>1. CASE invite[i].state = "used"
    <3>1. invite'[i].member = invite[i].member /\ invite[i].member \in MemberIds
      BY <1>1, <1>2, <2>1 DEF RowsGoOn, Types, Invites
    <3> QED
      BY <1>1, <1>2, <2>1, <3>1 DEF SpentIsClaimed, ClaimsGoOn
  <2> QED
    BY <1>1, <1>2, <2>1 DEF SpentForAClaim
<1>3. Founders \subseteq MemberIds
  BY <1>1, WorldFacts
<1>4. ASSUME NEW t \in TokenIds, token'[t].used, NEW m \in Founders
      PROVE  history'.claims[m] > 0
  BY <1>1, <1>3, <1>4 DEF SpentIsClaimed, SpentForAClaim, ClaimsGoOn
<1> QED
  BY <1>2, <1>4 DEF SpentIsClaimed

-----------------------------------------------------------------------------
(* Requests and their verdicts *)

\* What a request is about stays the same until it ends.
Continues(r) ==
  /\ \A s \in Requests : s # r => req'[s] = req[s]
  /\ \/ req'[r] = Idle
     \/ /\ req'[r].call = req[r].call
        /\ req'[r].invite = req[r].invite
        /\ req'[r].token = req[r].token

LEMMA ProceedKeepsTheCall ==
  ASSUME MembershipInv, NEW r \in Requests, Proceed(r)
  PROVE  Continues(r)
<1>1. req \in [Requests -> RequestTypes]
  BY DEF MembershipInv, Types
<1>2. ASSUME End(r) PROVE Continues(r)
  BY <1>1, <1>2 DEF End, Continues
<1>3. ASSUME Rollback(r) PROVE Continues(r)
  BY <1>2, <1>3 DEF Rollback
<1>4. ASSUME NEW pc, Goto(r, pc) PROVE Continues(r)
  BY <1>1, <1>4 DEF Goto, RequestTypes, Continues
<1>5. CASE \E what \in {"occupied", "invited"} : CountSeats(r, what)
  BY <1>1, <1>5 DEF CountSeats, RequestTypes, Continues
<1>11. ASSUME NEW pc, NEW others, req' = [req EXCEPT ![r].pc = pc, ![r].others = others]
       PROVE  Continues(r)
  BY <1>1, <1>11 DEF RequestTypes, Continues
<1>6. CASE \/ AssertSeatsAvailable(r) \/ AssertEmailAvailable(r) \/ RunOutOfRows(r)
           \/ FindInvitedMember(r) \/ TransferRows(r) \/ UpdateRows(r) \/ AbortDeadlocked(r)
  BY <1>3, <1>4, <1>6, <1>11 DEF AssertSeatsAvailable, AssertEmailAvailable, RunOutOfRows,
       FindInvitedMember, TransferRows, UpdateRows, AbortDeadlocked
<1>7. CASE ConsumeInvite(r) \/ ConsumeSetupToken(r) \/ LockSource(r) \/ LockTarget(r)
  BY <1>3, <1>4, <1>7 DEF ConsumeInvite, ConsumeSetupToken, LockSource, LockTarget
<1>8. CASE TouchMember(r)
  <2>1. CASE ~Rollback(r)
    <3>1. PICK others : req' = [req EXCEPT ![r].pc = "commit", ![r].others = others]
      BY <1>8, <2>1 DEF TouchMember
    <3> QED
      BY <1>11, <3>1
  <2> QED
    BY <1>3, <2>1
<1>9. CASE InsertMembers(r) \/ InsertReplacement(r) \/ CommitSoftDelete(r) \/ RemoveMember(r)
  BY <1>2, <1>3, <1>9 DEF InsertMembers, InsertReplacement, CommitSoftDelete, RemoveMember
<1>10. CASE \/ CommitRevocation(r) \/ CommitRedemption(r)
            \/ CommitSetupLink(r) \/ CommitSetup(r)
  BY <1>2, <1>10 DEF CommitRevocation, CommitRedemption, CommitSetupLink, CommitSetup
<1> QED
  BY <1>5, <1>6, <1>7, <1>8, <1>9, <1>10 DEF Proceed

\* A redemption writes rows with its commit only.
LEMMA RedemptionWrites ==
  ASSUME MembershipInv, NEW r \in Requests, Proceed(r), ~UNCHANGED rows
  PROVE  /\ req[r].call = "redeemInvite" => CommitRedemption(r)
         /\ req[r].call = "redeemSetup" => CommitSetup(r)
<1>1. RequestStands(r) /\ Fits(req[r])
  BY DEF MembershipInv, RequestStands
<1>2. ~Rollback(r)
  BY DEF Rollback
<1>3. ~(\E what \in {"occupied", "invited"} : CountSeats(r, what))
  BY DEF CountSeats
<1>4. ~(\/ AssertSeatsAvailable(r) \/ AssertEmailAvailable(r) \/ RunOutOfRows(r)
        \/ FindInvitedMember(r) \/ TransferRows(r) \/ UpdateRows(r) \/ AbortDeadlocked(r))
  BY <1>2 DEF AssertSeatsAvailable, AssertEmailAvailable, RunOutOfRows,
       FindInvitedMember, TransferRows, UpdateRows, AbortDeadlocked
<1>5. ~(\/ ConsumeInvite(r) \/ ConsumeSetupToken(r) \/ LockSource(r) \/ LockTarget(r)
        \/ TouchMember(r))
  BY <1>2 DEF ConsumeInvite, ConsumeSetupToken, LockSource, LockTarget, TouchMember
<1>6. InsertMembers(r) => req[r].call \in Admitting
  BY <1>1 DEF InsertMembers, Fits
<1>7. InsertReplacement(r) => req[r].call = "resendInvite"
  BY <1>1 DEF InsertReplacement, Fits
<1>8. RemoveMember(r) => req[r].call = "hardDelete"
  BY <1>1 DEF RemoveMember, Fits
<1>9. /\ CommitRevocation(r) => req[r].call = "revokeInvite"
      /\ CommitRedemption(r) => req[r].call = "redeemInvite"
      /\ CommitSoftDelete(r) => req[r].call = "softDelete"
      /\ CommitSetupLink(r) => req[r].call = "generate"
      /\ CommitSetup(r) => req[r].call = "redeemSetup"
  BY DEF CommitRevocation, CommitRedemption, CommitSoftDelete, CommitSetupLink, CommitSetup
<1> QED
  BY <1>3, <1>4, <1>5, <1>6, <1>7, <1>8, <1>9 DEF Proceed, Admitting

\* A redemption that is done has spent its link, and what was claimed before
\* has been claimed twice.
LEMMA DoneIsSpent ==
  ASSUME MembershipInv, NEW r \in Requests, Proceed(r), ~UNCHANGED rows,
         NEW link \in Delivered, Redeems(r, link)
  PROVE  /\ Spent(link)'
         /\ link.kind = "invite" /\ invite'[link.of].member # Nobody =>
              LET m == invite'[link.of].member
              IN  m \in MemberIds /\ (history.claims[m] > 0 => history'.claims[m] = 2)
         /\ link.kind # "invite" =>
              \A m \in Founders : history.claims[m] > 0 => history'.claims[m] = 2
<1>1. Types /\ req[r] \in RequestTypes
  BY DEF MembershipInv, Types
<1>2. CASE link.kind = "invite"
  <2>1. req[r].call = "redeemInvite" /\ req[r].invite = link.of
    BY <1>2 DEF Redeems
  <2>2. CommitRedemption(r)
    BY <2>1, RedemptionWrites
  <2>3. link.of \in InviteIds
    BY <1>2 DEF Delivered
  <2>4. /\ invite'[link.of] = [invite[link.of] EXCEPT !.state = "used"] /\ Claim(req[r].member)
    BY <2>1, <2>2, <2>3 DEF CommitRedemption, WriteInvites
  <2>5. invite[link.of] \in Invites
    BY <1>1, <2>3 DEF Types
  <2>6. invite'[link.of].state = "used" /\ invite'[link.of].member = invite[link.of].member
    BY <2>4, <2>5 DEF Invites
  <2>7. invite[link.of].member \in {Nobody, req[r].member}
    <3>1. req[r].invite # 0
      BY <2>1, <2>3 DEF InviteIds
    <3> QED
      BY <2>1, <3>1 DEF MembershipInv, RequestStands, Knows
  <2>8. req[r].member \in {Nobody} \union MemberIds
    BY <1>1 DEF RequestTypes
  <2>9. invite'[link.of].member # Nobody =>
          /\ invite'[link.of].member = req[r].member
          /\ req[r].member \in MemberIds
          /\ history.claims[req[r].member] > 0 => history'.claims[req[r].member] = 2
    BY <1>1, <2>4, <2>6, <2>7, <2>8, ClaimCounts
  <2> QED
    BY <1>2, <2>6, <2>9 DEF Spent
<1>3. CASE link.kind # "invite"
  <2>1. req[r].call = "redeemSetup" /\ req[r].token = link.of
    BY <1>3 DEF Redeems
  <2>2. CommitSetup(r)
    BY <2>1, RedemptionWrites
  <2>3. link.of \in TokenIds
    BY <1>3 DEF Delivered
  <2>4. token'[link.of] = [token[link.of] EXCEPT !.used = TRUE] /\ Claim(req[r].member)
    BY <2>1, <2>2, <2>3 DEF CommitSetup
  <2>5. token[link.of] \in Tokens
    BY <1>1, <2>3 DEF Types
  <2>6. token'[link.of].used
    BY <2>4, <2>5 DEF Tokens
  <2>7. req[r].token # 0
    BY <2>1, <2>3 DEF TokenIds
  <2>8. req[r].member \in Founders
    BY <2>7 DEF MembershipInv, RequestStands, Knows
  <2>9. Founders \subseteq MemberIds /\ \A m, n \in Founders : m = n
    BY <1>1, WorldFacts
  <2>10. history.claims[req[r].member] > 0 => history'.claims[req[r].member] = 2
    BY <1>1, <2>4, <2>8, <2>9, ClaimCounts DEF MemberIds, Nobody
  <2> QED
    BY <1>3, <2>6, <2>8, <2>9, <2>10 DEF Spent
<1> QED
  BY <1>2, <1>3

\* A redemption that found its link not live: it is not.
LEMMA RefusedDoesNotWork ==
  ASSUME MembershipInv, NEW r \in Requests, Proceed(r), req'[r].pc = "idle", UNCHANGED rows,
         req[r].pc \in {"findMember", "consume"}, ~Deadlocked(r),
         NEW link \in Delivered, Redeems(r, link)
  PROVE  ~WorksNow(link)'
<1>1. UNCHANGED <<member, invite, token>>
  BY DEF rows
<1>2. req \in [Requests -> RequestTypes] /\ Types /\ Fits(req[r]) /\ Knows(r)
  BY DEF MembershipInv, Types, RequestStands
<1>3. CASE link.kind = "invite"
  <2>1. req[r].call = "redeemInvite" /\ req[r].invite = link.of /\ link.of \in InviteIds
    BY <1>3 DEF Redeems, Delivered
  <2>2. req[r].invite # 0 /\ req[r].token = 0
    BY <1>2, <2>1 DEF InviteIds, Fits
  <2>3. invite[link.of].member \in {Nobody, req[r].member}
    BY <1>2, <2>1, <2>2 DEF Knows
  <2>4. FindInvitedMember(r) \/ ConsumeInvite(r)
    BY <2>2 DEF Proceed, CountSeats, AssertSeatsAvailable, AssertEmailAvailable, InsertMembers,
       RunOutOfRows, InsertReplacement, TouchMember, CommitRevocation, CommitRedemption,
       CommitSoftDelete, LockSource, LockTarget, TransferRows, UpdateRows, RemoveMember, CommitSetupLink,
       ConsumeSetupToken, CommitSetup, AbortDeadlocked
  <2>5. CASE FindInvitedMember(r)
    <3>1. ~Goto(r, "consume")
      BY <1>2 DEF Goto, RequestTypes
    <3>2. member[req[r].member].status # "pending_invite"
      BY <2>5, <3>1 DEF FindInvitedMember
    <3> QED
      BY <1>1, <1>3, <2>3, <3>2 DEF WorksNow
  <2>6. CASE ConsumeInvite(r)
    <3>1. AfterConsuming(req[r]) # "idle"
      BY DEF AfterConsuming
    <3>2. ~Goto(r, AfterConsuming(req[r]))
      BY <1>2, <3>1 DEF Goto, RequestTypes
    <3>3. ~Pending(link.of)
      BY <2>1, <2>6, <3>2 DEF ConsumeInvite
    <3> QED
      BY <1>1, <1>3, <3>3 DEF WorksNow, Pending
  <2> QED
    BY <2>4, <2>5, <2>6
<1>4. CASE link.kind # "invite"
  <2>1. req[r].call = "redeemSetup" /\ req[r].token = link.of
    BY <1>4 DEF Redeems
  <2>2. req[r].pc # "findMember" /\ req[r].invite = 0
    BY <1>2, <2>1 DEF Fits, OfInvite
  <2>3. ConsumeSetupToken(r)
    BY <2>2 DEF Proceed, CountSeats, AssertSeatsAvailable, AssertEmailAvailable, InsertMembers,
       RunOutOfRows, InsertReplacement, TouchMember, CommitRevocation, CommitRedemption,
       CommitSoftDelete, LockSource, LockTarget, TransferRows, UpdateRows, RemoveMember, CommitSetupLink,
       ConsumeInvite, FindInvitedMember, CommitSetup, AbortDeadlocked
  <2>4. ~Goto(r, "touch")
    BY <1>2 DEF Goto, RequestTypes
  <2>5. ~Redeemable(link.of)
    BY <2>1, <2>3, <2>4 DEF ConsumeSetupToken
  <2> QED
    BY <1>1, <1>4, <2>5 DEF WorksNow, Redeemable
<1> QED
  BY <1>3, <1>4

-----------------------------------------------------------------------------
(* The steps of the pages *)

LEMMA OpenHasALink ==
  ASSUME NEW g \in Pages, PageStands(g), page[g].view # "closed"
  PROVE  /\ page[g].link \in Delivered
         /\ page[g].link.kind = "invite" => page[g].link.of \in InviteIds
         /\ page[g].link.kind # "invite" => page[g].link.of \in TokenIds
<1>1. page[g].link \in Delivered
  BY DEF PageStands
<1> QED
  BY <1>1 DEF Delivered

\* The members of a page's invitation are those it had.
LEMMA SamePersonBefore ==
  ASSUME LinkInv, GoesOn, NEW g \in Pages, NEW h \in Pages,
         page[g].view # "closed", page[h].view # "closed",
         page'[g].link = page[g].link, page'[h].link = page[h].link,
         SamePerson(g, h)'
  PROVE  SamePerson(g, h)
<1>1. PageStands(g) /\ PageStands(h)
  BY DEF LinkInv
<1>2. CASE page[g].link.kind = "invite"
  <2>1. page[h].link.kind = "invite"
    BY <1>2 DEF SamePerson
  <2>2. /\ invite'[page[g].link.of].member = invite'[page[h].link.of].member
        /\ invite'[page[g].link.of].member # Nobody
    BY <1>2 DEF SamePerson, MemberOf
  <2>3. /\ page[g].link.of \in InviteIds /\ invite[page[g].link.of].state # "none"
        /\ page[h].link.of \in InviteIds /\ invite[page[h].link.of].state # "none"
    BY <1>1, <1>2, <2>1, OpenHasALink DEF Delivered
  <2>4. /\ invite'[page[g].link.of].member = invite[page[g].link.of].member
        /\ invite'[page[h].link.of].member = invite[page[h].link.of].member
    BY <2>2, <2>3 DEF GoesOn, RowsGoOn
  <2> QED
    BY <1>2, <2>1, <2>2, <2>4 DEF SamePerson, MemberOf
<1>3. CASE page[g].link.kind # "invite"
  BY <1>3 DEF SamePerson
<1> QED
  BY <1>2, <1>3

\* A page that goes on as it is.
LEMMA PageGoesOn ==
  ASSUME LinkInv, [Next]_vars, NEW g \in Pages, page'[g] = page[g],
         \A r \in page[g].request : Redeems(r, page[g].link)'
  PROVE  PageStands(g)'
<1>1. PageStands(g) /\ MembershipInv
  BY DEF LinkInv
<1>2. CASE page[g].view = "closed"
  <2>1. page[g] = Blank
    BY <1>1, <1>2 DEF PageStands
  <2>2. Blank.view = "closed" /\ Blank.request = {} /\ Blank.answer = "none"
    BY DEF Blank
  <2> QED
    BY <2>1, <2>2 DEF PageStands, IsDone
<1>3. CASE page[g].view # "closed"
  <2>1. PICK link \in Delivered : link = page[g].link
    BY <1>1, <1>3 DEF PageStands
  <2>2. /\ link \in Delivered'
        /\ ~WorksNow(link) => ~WorksNow(link)'
        /\ Spent(link) => Spent(link)'
    BY <1>1, LinksGoOn
  <2>3. page'[g].link = link
    BY <2>1
  <2> QED
    BY <1>1, <1>3, <2>1, <2>2, <2>3 DEF PageStands, IsDone
<1> QED
  BY <1>2, <1>3

\* Pages that say no more than they did.
LEMMA OneIsDoneStill ==
  ASSUME LinkInv, [Next]_vars,
         \A g \in Pages :
           IsDone(g)' => IsDone(g) /\ page'[g].link = page[g].link
  PROVE  OneIsDone'
<1>1. GoesOn
  BY NextGoesOn DEF LinkInv
<1>2. ASSUME NEW g \in Pages, NEW h \in Pages, g # h, IsDone(g)', IsDone(h)', SamePerson(g, h)'
      PROVE  history'.overlapped
  <2>1. IsDone(g) /\ IsDone(h) /\ page'[g].link = page[g].link /\ page'[h].link = page[h].link
    BY <1>2
  <2>2. page[g].view # "closed" /\ page[h].view # "closed"
    BY <2>1 DEF LinkInv, PageStands, IsDone
  <2>3. SamePerson(g, h)
    BY <1>1, <1>2, <2>1, <2>2, SamePersonBefore
  <2>4. history.overlapped
    BY <1>2, <2>1, <2>3 DEF LinkInv, OneIsDone
  <2> QED
    BY <1>1, <2>4 DEF GoesOn, ClaimsGoOn
<1> QED
  BY <1>2 DEF OneIsDone

\* The tenant and its First Admin, whatever the step.
LEMMA FoundersStay ==
  ASSUME MembershipInv, [Next]_vars
  PROVE  Founders' = Founders
<1>1. ASSUME UNCHANGED world PROVE Founders' = Founders
  BY <1>1, WorldStays
<1>2. ASSUME NEW r \in Requests, NEW call, Arrives(r, call) PROVE Founders' = Founders
  BY <1>2, ArrivalsKeepTheWorld DEF Arrives, MembershipInv
<1>3. ASSUME NEW r \in Requests, Call(r) PROVE Founders' = Founders
  BY <1>2, <1>3 DEF Call, CreateInvites, DirectCreate, Register, Admit, ResendInvite,
     RevokeInvite, RedeemInvite, SoftDelete, HardDelete, RedeemSetupToken, Begin,
     GenerateSetupLink
<1>4. ASSUME NEW r \in Requests, Proceed(r) PROVE UNCHANGED world
  <2>1. Rollback(r) => UNCHANGED world
    BY DEF Rollback
  <2>2. CASE \E what \in {"occupied", "invited"} : CountSeats(r, what)
    BY <2>2 DEF CountSeats
  <2>3. CASE \/ AssertSeatsAvailable(r) \/ AssertEmailAvailable(r) \/ RunOutOfRows(r)
             \/ FindInvitedMember(r) \/ TransferRows(r) \/ UpdateRows(r) \/ AbortDeadlocked(r)
    BY <2>1, <2>3 DEF AssertSeatsAvailable, AssertEmailAvailable, RunOutOfRows,
       FindInvitedMember, TransferRows, UpdateRows, AbortDeadlocked
  <2>4. CASE \/ ConsumeInvite(r) \/ ConsumeSetupToken(r) \/ LockSource(r) \/ LockTarget(r)
             \/ TouchMember(r)
    BY <2>1, <2>4 DEF ConsumeInvite, ConsumeSetupToken, LockSource, LockTarget, TouchMember
  <2>5. CASE \/ InsertMembers(r) \/ InsertReplacement(r) \/ CommitRevocation(r)
             \/ CommitRedemption(r) \/ CommitSoftDelete(r) \/ RemoveMember(r)
             \/ CommitSetupLink(r) \/ CommitSetup(r)
    BY <2>1, <2>5 DEF InsertMembers, InsertReplacement, CommitRevocation, CommitRedemption,
       CommitSoftDelete, RemoveMember, CommitSetupLink, CommitSetup
  <2> QED
    BY <1>4, <2>2, <2>3, <2>4, <2>5 DEF Proceed
<1>5. ASSUME NEW i \in InviteIds, ExpireInvite(i) PROVE UNCHANGED world
  BY <1>5 DEF ExpireInvite
<1>6. ASSUME NEW m \in MemberIds, SignIn(m) \/ CreateRow(m) PROVE UNCHANGED world
  BY <1>6 DEF SignIn, CreateRow
<1>7. CASE UNCHANGED vars
  BY <1>1, <1>7 DEF vars
<1> QED
  BY <1>1, <1>3, <1>4, <1>5, <1>6, <1>7 DEF Next, Rest

\* The rows keep their part of the invariant whatever the pages do.
LEMMA RowsKeepTheirPart ==
  ASSUME LinkInv, [Next]_vars
  PROVE  MembershipInv' /\ SpentIsClaimed'
BY StepInvariant, FoundersStay, SpentIsClaimedKeeps DEF LinkInv

\* A step elsewhere: a request that a page has made is not disturbed.
LEMMA ElsewhereKeeps ==
  ASSUME LinkInv, Elsewhere
  PROVE  LinkInv'
<1>1. [Next]_vars
  BY DEF Elsewhere, Next
<1>2. MembershipInv' /\ SpentIsClaimed'
  BY <1>1, RowsKeepTheirPart
<1>3. page' = page
  BY DEF Elsewhere
<1>4. \A r \in Requests : req'[r] = req[r] \/ req[r].pc = "idle"
  <2>1. ASSUME NEW r \in Requests, Call(r)
        PROVE  \A s \in Requests : req'[s] = req[s] \/ req[s].pc = "idle"
    <3>1. req[r].pc = "idle" /\ \E next : req' = [req EXCEPT ![r] = next]
      BY <2>1 DEF Call, CreateInvites, DirectCreate, Register, Admit, ResendInvite,
         RevokeInvite, RedeemInvite, SoftDelete, HardDelete, RedeemSetupToken, Begin,
         GenerateSetupLink, Arrives
    <3>2. req \in [Requests -> RequestTypes]
      BY DEF LinkInv, MembershipInv, Types
    <3> QED
      BY <3>1, <3>2
  <2>2. ASSUME NEW i \in InviteIds, ExpireInvite(i) PROVE req' = req
    BY <2>2 DEF ExpireInvite
  <2>3. ASSUME NEW m \in MemberIds, SignIn(m) \/ CreateRow(m) PROVE req' = req
    BY <2>3 DEF SignIn, CreateRow
  <2>4. Rest => req' = req
    BY DEF Rest, vars
  <2> QED
    BY <2>1, <2>2, <2>3, <2>4 DEF Elsewhere
<1>5. ASSUME NEW g \in Pages PROVE PageStands(g)'
  <2>1. PageStands(g) /\ page[g].request \subseteq Requests
    BY DEF LinkInv, PageTypes
  <2>2. ASSUME NEW r \in page[g].request PROVE Redeems(r, page[g].link)'
    <3>1. Redeems(r, page[g].link) /\ r \in Requests
      BY <2>1, <2>2 DEF PageStands
    <3>2. req[r].pc # "idle"
      BY <3>1, IdleType DEF LinkInv, MembershipInv, RequestStands, Fits, Redeems
    <3> QED
      BY <1>3, <1>4, <3>1, <3>2 DEF Redeems
  <2> QED
    BY <1>1, <1>3, <2>2, PageGoesOn
<1>6. page' \in [Pages -> PageTypes] /\ PagesApart'
  BY <1>3 DEF LinkInv, PagesApart
<1>7. OneIsDone'
  BY <1>1, <1>3, OneIsDoneStill DEF IsDone
<1> QED
  BY <1>2, <1>5, <1>6, <1>7 DEF LinkInv

\* Of two pages with links of one person, the second to be done claims it again.
LEMMA SecondClaims ==
  ASSUME LinkInv, NEW r \in Requests, Proceed(r), ~UNCHANGED rows, MembershipInv',
         NEW g \in Pages, NEW h \in Pages, page[g].request = {r}, IsDone(h),
         page'[g].link = page[g].link, page'[h].link = page[h].link,
         SamePerson(g, h)'
  PROVE  history'.overlapped
<1>1. MembershipInv /\ PageStands(g) /\ PageStands(h) /\ SpentIsClaimed /\ Types
  BY DEF LinkInv, MembershipInv
<1>2. GoesOn
  BY <1>1, NextGoesOn DEF Next
<1>3. page[g].view # "closed" /\ page[h].view # "closed" /\ Spent(page[h].link)
  BY <1>1 DEF PageStands, IsDone
<1>4. PICK link \in Delivered : link = page[g].link
  BY <1>1, <1>3 DEF PageStands
<1>5. Redeems(r, link)
  BY <1>1, <1>4 DEF PageStands
<1>6. \A m \in MemberIds : history'.claims[m] = 2 => history'.overlapped
  BY DEF MembershipInv, ClaimedOnce
<1>7. CASE link.kind = "invite"
  <2>1. /\ page[h].link.kind = "invite"
        /\ invite'[link.of].member = invite'[page[h].link.of].member
        /\ invite'[link.of].member # Nobody
    BY <1>4, <1>7 DEF SamePerson, MemberOf
  <2>2. page[h].link.of \in InviteIds /\ invite[page[h].link.of].state = "used"
    BY <1>1, <1>3, <2>1, OpenHasALink DEF Spent
  <2>3. invite'[page[h].link.of].member = invite[page[h].link.of].member
    BY <1>2, <2>1, <2>2 DEF GoesOn, RowsGoOn
  <2>4. history.claims[invite'[link.of].member] > 0
    BY <1>1, <2>1, <2>2, <2>3 DEF SpentIsClaimed
  <2>5. invite'[link.of].member \in MemberIds /\ history'.claims[invite'[link.of].member] = 2
    BY <1>1, <1>5, <1>7, <2>1, <2>4, DoneIsSpent
  <2> QED
    BY <1>6, <2>5
<1>8. CASE link.kind # "invite"
  <2>1. page[h].link.kind # "invite"
    BY <1>4, <1>8 DEF SamePerson
  <2>2. page[h].link.of \in TokenIds /\ token[page[h].link.of].used
    BY <1>1, <1>3, <2>1, OpenHasALink DEF Spent
  <2>3. \A m \in Founders : history.claims[m] > 0
    BY <1>1, <2>2 DEF SpentIsClaimed
  <2>4. link.of \in TokenIds /\ req[r].token = link.of
    BY <1>5, <1>8 DEF Redeems, Delivered
  <2>5. req[r].member \in Founders
    BY <1>1, <2>4 DEF MembershipInv, RequestStands, Knows, TokenIds
  <2>6. history'.claims[req[r].member] = 2 /\ req[r].member \in MemberIds
    BY <1>1, <1>5, <1>8, <2>3, <2>5, DoneIsSpent, WorldFacts
  <2> QED
    BY <1>6, <2>6
<1> QED
  BY <1>7, <1>8

LEMMA ProceedKeeps ==
  ASSUME LinkInv, NEW r \in Requests, Proceed(r), Answer(r)
  PROVE  LinkInv'
<1>1. [Next]_vars
  BY DEF Next
<1>2. MembershipInv' /\ SpentIsClaimed'
  BY <1>1, RowsKeepTheirPart
<1>3. MembershipInv /\ page \in [Pages -> PageTypes] /\ PagesApart
      /\ \A g \in Pages : PageStands(g)
  BY DEF LinkInv
<1>4. Continues(r)
  BY <1>3, ProceedKeepsTheCall
<1> DEFINE Answered(g) == page[g].request = {r} /\ req'[r].pc = "idle"
<1>5. ASSUME NEW g \in Pages
      PROVE  /\ Answered(g) =>
                  /\ page'[g].view = page[g].view /\ page'[g].link = page[g].link
                  /\ page'[g].request = {} /\ page'[g].answer = Verdict(r)
             /\ ~Answered(g) => page'[g] = page[g]
             /\ page'[g] \in PageTypes
  <2>1. page[g] \in PageTypes
    BY <1>3
  <2>2. CASE Answered(g)
    <3>1. page'[g] = [page[g] EXCEPT !.request = {}, !.answer = Verdict(r)]
      BY <2>2 DEF Answer
    <3>2. Verdict(r) \in {"done", "refused", "failed"}
      BY DEF Verdict
    <3> QED
      BY <2>1, <2>2, <3>1, <3>2 DEF PageTypes
  <2>3. CASE ~Answered(g)
    BY <2>1, <2>3 DEF Answer
  <2> QED
    BY <2>2, <2>3
<1>6. page' \in [Pages -> PageTypes]
  BY <1>5 DEF Answer
<1>7. \A g \in Pages : page'[g].link = page[g].link /\ page'[g].request \subseteq page[g].request
  BY <1>5
<1>8. PagesApart'
  BY <1>3, <1>7 DEF PagesApart
<1>9. Verdict(r) \in {"done", "refused", "failed"}
      /\ (Verdict(r) = "done" => ~UNCHANGED rows)
      /\ (Verdict(r) = "refused" =>
            UNCHANGED rows /\ req[r].pc \in {"findMember", "consume"} /\ ~Deadlocked(r))
  BY DEF Verdict
<1> HIDE DEF Answered
<1>10. ASSUME NEW g \in Pages, Answered(g) PROVE PageStands(g)'
  <2>1. page[g].request = {r} /\ req'[r].pc = "idle"
    BY <1>10 DEF Answered
  <2>2. page[g].view = "submitting" /\ page[g].answer = "none"
    BY <1>3, <2>1 DEF PageStands
  <2>3. PICK link \in Delivered : link = page[g].link
    BY <1>3, <2>2 DEF PageStands
  <2>4. Redeems(r, link)
    BY <1>3, <2>1, <2>3 DEF PageStands
  <2>5. link \in Delivered'
    BY <1>1, <1>3, LinksGoOn
  <2>6. Verdict(r) = "done" => Spent(link)'
    BY <1>3, <1>9, <2>4, DoneIsSpent
  <2>7. Verdict(r) = "refused" => ~WorksNow(link)'
    BY <1>3, <1>9, <2>1, <2>4, RefusedDoesNotWork
  <2>8. /\ page'[g].view = "submitting" /\ page'[g].link = link
        /\ page'[g].request = {} /\ page'[g].answer = Verdict(r)
    BY <1>5, <1>10, <2>2, <2>3
  <2> QED
    BY <1>9, <2>5, <2>6, <2>7, <2>8 DEF PageStands, IsDone
<1>11. ASSUME NEW g \in Pages, ~Answered(g) PROVE PageStands(g)'
  <2>1. page'[g] = page[g]
    BY <1>5, <1>11
  <2>2. ASSUME NEW s \in page[g].request PROVE Redeems(s, page[g].link)'
    <3>1. Redeems(s, page[g].link) /\ page[g].request = {s} /\ s \in Requests
      BY <1>3, <2>2 DEF PageStands, PageTypes
    <3>2. CASE s # r
      BY <1>4, <2>1, <3>1, <3>2 DEF Continues, Redeems
    <3>3. CASE s = r
      <4>1. req'[r].pc # "idle"
        BY <1>11, <3>1, <3>3 DEF Answered
      <4>2. req'[r] # Idle
        BY <4>1, IdleType
      <4> QED
        BY <1>4, <2>1, <3>1, <3>3, <4>2 DEF Continues, Redeems
    <3> QED
      BY <3>2, <3>3
  <2> QED
    BY <1>1, <2>1, <2>2, PageGoesOn
<1>12. ASSUME NEW g \in Pages, IsDone(g)', ~IsDone(g)
       PROVE  page[g].request = {r} /\ Answered(g) /\ ~UNCHANGED rows
  BY <1>5, <1>9, <1>12 DEF Answered, IsDone
<1>13. ASSUME NEW g \in Pages, NEW h \in Pages, g # h, IsDone(g)', IsDone(h)', SamePerson(g, h)'
       PROVE  history'.overlapped
  <2>1. CASE ~IsDone(g)
    <3>1. page[g].request = {r} /\ ~UNCHANGED rows
      BY <1>12, <1>13, <2>1
    <3>2. IsDone(h)
      <4> SUFFICES ASSUME ~IsDone(h) PROVE FALSE
        OBVIOUS
      <4>1. page[h].request = {r}
        BY <1>12, <1>13
      <4> QED
        BY <1>3, <1>13, <3>1, <4>1 DEF PagesApart
    <3> QED
      BY <1>2, <1>7, <1>13, <3>1, <3>2, SecondClaims
  <2>2. CASE IsDone(g) /\ ~IsDone(h)
    <3>1. page[h].request = {r} /\ ~UNCHANGED rows
      BY <1>12, <1>13, <2>2
    <3>2. SamePerson(h, g)'
      BY <1>13 DEF SamePerson
    <3> QED
      BY <1>2, <1>7, <1>13, <2>2, <3>1, <3>2, SecondClaims
  <2>3. CASE IsDone(g) /\ IsDone(h)
    <3>1. GoesOn
      BY <1>1, <1>3, NextGoesOn
    <3>2. page[g].view # "closed" /\ page[h].view # "closed"
      BY <1>3, <2>3 DEF PageStands, IsDone
    <3>3. SamePerson(g, h)
      BY <1>7, <1>13, <3>1, <3>2, SamePersonBefore
    <3> QED
      BY <1>13, <2>3, <3>1, <3>3 DEF LinkInv, OneIsDone, GoesOn, ClaimsGoOn
  <2> QED
    BY <2>1, <2>2, <2>3
<1>14. OneIsDone'
  BY <1>13 DEF OneIsDone
<1> QED
  BY <1>2, <1>6, <1>8, <1>10, <1>11, <1>14 DEF LinkInv

\* A step of one page, with a request that was idle or none.
LEMMA SettingKeeps ==
  ASSUME LinkInv, [Next]_vars, NEW g \in Pages, NEW next \in PageTypes, Set(g, next),
         PageStands(g)',
         \A r \in Requests : req'[r] = req[r] \/ req[r].pc = "idle",
         \A r \in next.request : r \in page[g].request \/ req[r].pc = "idle",
         next.view = "completed" \/ next.answer = "done" =>
           IsDone(g) /\ next.link = page[g].link
  PROVE  LinkInv'
<1>1. MembershipInv' /\ SpentIsClaimed'
  BY RowsKeepTheirPart
<1>2. /\ page \in [Pages -> PageTypes] /\ PagesApart
      /\ \A h \in Pages : PageStands(h)
      /\ \A r \in Requests : Fits(req[r])
  BY DEF LinkInv, MembershipInv, RequestStands
<1>3. /\ page' \in [Pages -> PageTypes]
      /\ page'[g] = next
      /\ \A h \in Pages : h # g => page'[h] = page[h]
  BY <1>2 DEF Set
<1>4. ASSUME NEW h \in Pages, NEW r \in page[h].request
      PROVE  r \in Requests /\ Redeems(r, page[h].link) /\ req[r].pc # "idle"
  <2>1. r \in Requests /\ Redeems(r, page[h].link)
    BY <1>2 DEF PageStands, PageTypes
  <2>2. req[r].call # "none"
    BY <2>1 DEF Redeems
  <2> QED
    BY <1>2, <2>1, <2>2, IdleType DEF Fits
<1>5. ASSUME NEW h \in Pages PROVE PageStands(h)'
  <2>1. CASE h # g
    <3>1. page'[h] = page[h]
      BY <1>3, <2>1
    <3>2. \A r \in page[h].request : Redeems(r, page[h].link)'
      BY <1>4, <3>1 DEF Redeems
    <3> QED
      BY <3>1, <3>2, PageGoesOn
  <2> QED
    BY <2>1
<1>6. PagesApart'
  <2>1. ASSUME NEW h \in Pages, h # g
        PROVE  page'[g].request \intersect page'[h].request = {}
    <3>1. page'[h] = page[h] /\ page'[g] = next
      BY <1>3, <2>1
    <3>2. \A r \in next.request : r \notin page[h].request
      BY <1>2, <1>4, <2>1 DEF PagesApart
    <3> QED
      BY <3>1, <3>2
  <2> QED
    BY <1>2, <1>3, <2>1 DEF PagesApart
<1>7. OneIsDone'
  <2>1. ASSUME NEW h \in Pages, IsDone(h)' PROVE IsDone(h) /\ page'[h].link = page[h].link
    BY <1>3, <2>1 DEF IsDone
  <2> QED
    BY <2>1, OneIsDoneStill
<1> QED
  BY <1>1, <1>3, <1>5, <1>6, <1>7 DEF LinkInv

LEMMA SubmitKeeps ==
  ASSUME LinkInv, NEW g \in Pages, NEW r \in Requests, SubmitInvite(g, r) \/ SubmitSetup(g, r)
  PROVE  LinkInv'
<1> DEFINE next == [page[g] EXCEPT !.view = "submitting", !.request = {r}]
<1>1. CanSubmit(g) /\ Set(g, next) /\ (RedeemInvite(r) \/ RedeemSetupToken(r))
  BY DEF SubmitInvite, SubmitSetup
<1>2. [Next]_vars
  BY <1>1 DEF Next, Call
<1>3. /\ PageStands(g) /\ page[g] \in PageTypes /\ MembershipInv
      /\ req \in [Requests -> RequestTypes]
  BY DEF LinkInv, MembershipInv, Types
<1>4. /\ next \in PageTypes /\ next.view = "submitting" /\ next.request = {r}
      /\ next.link = page[g].link /\ next.answer = page[g].answer
  BY <1>3 DEF PageTypes, Views
<1>5. page[g].answer = "none" /\ page[g].request = {} /\ page[g].view # "closed"
  BY <1>1, <1>3 DEF CanSubmit, PageStands
<1>6. page'[g] = next
  BY <1>1 DEF Set, LinkInv
<1> HIDE DEF next
<1>7. req[r].pc = "idle" /\ \A s \in Requests : s # r => req'[s] = req[s]
  <2>1. PICK q : req[r].pc = "idle" /\ req' = [req EXCEPT ![r] = q]
    BY <1>1 DEF RedeemInvite, RedeemSetupToken, Begin, Arrives
  <2> QED
    BY <1>3, <2>1
<1>8. PICK link \in Delivered : link = page[g].link
  BY <1>3, <1>5 DEF PageStands
<1>9. link \in Delivered'
  BY <1>2, <1>3, LinksGoOn
<1>10. Redeems(r, link)'
  <2>1. CASE SubmitInvite(g, r)
    <3>1. link.kind = "invite" /\ req'[r].invite = link.of /\ RedeemInvite(r)
      BY <1>8, <2>1 DEF SubmitInvite
    <3>2. PICK i \in InviteIds :
            req' = [req EXCEPT ![r] =
                     [[Idle EXCEPT !.pc = "findMember", !.invite = i, !.member = invite[i].member]
                        EXCEPT !.call = "redeemInvite"]]
      BY <3>1 DEF RedeemInvite, Begin
    <3>3. [[Idle EXCEPT !.pc = "findMember", !.invite = i, !.member = invite[i].member]
             EXCEPT !.call = "redeemInvite"].call = "redeemInvite"
      BY DEF Idle
    <3>4. req'[r].call = "redeemInvite"
      BY <1>3, <3>2, <3>3
    <3> QED
      BY <3>1, <3>4 DEF Redeems
  <2>2. CASE SubmitSetup(g, r)
    <3>1. link.kind = "setup" /\ req'[r].token = link.of /\ RedeemSetupToken(r)
      BY <1>8, <2>2 DEF SubmitSetup
    <3>2. PICK t \in TokenIds, m \in MemberIds :
            req' = [req EXCEPT ![r] =
                     [[Idle EXCEPT !.pc = "consume", !.token = t, !.member = m]
                        EXCEPT !.call = "redeemSetup"]]
      BY <3>1 DEF RedeemSetupToken, Begin
    <3>3. [[Idle EXCEPT !.pc = "consume", !.token = t, !.member = m]
             EXCEPT !.call = "redeemSetup"].call = "redeemSetup"
      BY DEF Idle
    <3>4. req'[r].call = "redeemSetup"
      BY <1>3, <3>2, <3>3
    <3> QED
      BY <3>1, <3>4 DEF Redeems
  <2> QED
    BY <2>1, <2>2
<1>11. PageStands(g)'
  BY <1>4, <1>5, <1>6, <1>8, <1>9, <1>10 DEF PageStands, IsDone
<1> QED
  BY <1>1, <1>2, <1>4, <1>5, <1>7, <1>11, SettingKeeps

LEMMA PageStepKeeps ==
  ASSUME LinkInv, NEW g \in Pages, Open(g) \/ SubmitInVain(g) \/ Receive(g) \/ LoseAnswer(g)
  PROVE  LinkInv'
<1>1. UNCHANGED vars /\ [Next]_vars /\ req' = req
  BY DEF Open, SubmitInVain, Receive, LoseAnswer, vars
<1>2. PageStands(g) /\ page[g] \in PageTypes /\ MembershipInv /\ page \in [Pages -> PageTypes]
  BY DEF LinkInv
<1>3. \A link \in Delivered :
        /\ link \in Delivered'
        /\ ~WorksNow(link) => ~WorksNow(link)'
        /\ Spent(link) => Spent(link)'
  BY <1>1, <1>2, LinksGoOn
<1>4. CASE Open(g)
  <2>1. PICK link \in Delivered : Set(g, [Blank EXCEPT !.view = "idle", !.link = link])
    BY <1>4 DEF Open
  <2>2. PICK next : next = [Blank EXCEPT !.view = "idle", !.link = link]
    OBVIOUS
  <2>3. link \in Links
    BY DEF Delivered, Links
  <2>4. /\ next \in PageTypes /\ next.view = "idle" /\ next.link = link
        /\ next.request = {} /\ next.answer = "none"
    BY <2>2, <2>3 DEF Blank, PageTypes, Views
  <2>5. page'[g] = next
    BY <1>2, <2>1, <2>2 DEF Set
  <2>6. PageStands(g)'
    BY <1>3, <2>4, <2>5 DEF PageStands, IsDone
  <2> QED
    BY <1>1, <2>1, <2>2, <2>4, <2>6, SettingKeeps
<1>5. CASE SubmitInVain(g)
  <2>1. PICK next : next = [page[g] EXCEPT !.view = "submitting", !.answer = "refused"]
    OBVIOUS
  <2>2. /\ page[g].view \in {"idle", "error"} /\ ~WorksNow(page[g].link) /\ Set(g, next)
    BY <1>5, <2>1 DEF SubmitInVain, CanSubmit
  <2>3. /\ next \in PageTypes /\ next.view = "submitting" /\ next.link = page[g].link
        /\ next.request = page[g].request /\ next.answer = "refused"
    BY <1>2, <2>1 DEF PageTypes, Views
  <2>4. page[g].request = {} /\ page[g].answer = "none"
    BY <1>2, <2>2 DEF PageStands
  <2>5. PICK link \in Delivered : link = page[g].link
    BY <1>2, <2>2 DEF PageStands
  <2>6. link \in Delivered' /\ ~WorksNow(link)'
    BY <1>3, <2>2, <2>5
  <2>7. page'[g] = next
    BY <1>2, <2>2 DEF Set
  <2>8. PageStands(g)'
    BY <2>3, <2>4, <2>5, <2>6, <2>7 DEF PageStands, IsDone
  <2> QED
    BY <1>1, <2>2, <2>3, <2>4, <2>8, SettingKeeps
<1>6. CASE Receive(g)
  <2>1. PICK next : next = [page[g] EXCEPT !.view = Shown(page[g].answer), !.answer = "none"]
    OBVIOUS
  <2>2. page[g].answer \in {"done", "refused", "failed"} /\ Set(g, next)
    BY <1>2, <1>6, <2>1 DEF Receive, PageTypes
  <2>3. /\ Shown("done") = "completed" /\ Shown("refused") = "expired"
        /\ Shown("failed") = "error"
    BY DEF Shown
  <2>4. Shown(page[g].answer) \in {"completed", "expired", "error"}
    BY <2>2, <2>3
  <2>5. /\ next \in PageTypes /\ next.view = Shown(page[g].answer) /\ next.link = page[g].link
        /\ next.request = page[g].request /\ next.answer = "none"
    BY <1>2, <2>1, <2>4 DEF PageTypes, Views
  <2>6. page[g].request = {} /\ page[g].view = "submitting"
    BY <1>2, <2>2 DEF PageStands
  <2>7. PICK link \in Delivered : link = page[g].link
    BY <1>2, <2>6 DEF PageStands
  <2>8. /\ link \in Delivered'
        /\ page[g].answer = "refused" => ~WorksNow(link)'
        /\ page[g].answer = "done" => Spent(link)'
    BY <1>2, <1>3, <2>7 DEF PageStands, IsDone
  <2>9. page'[g] = next
    BY <1>2, <2>2 DEF Set
  <2>10. next.view = "completed" => page[g].answer = "done"
    BY <2>2, <2>3, <2>5
  <2>11. next.view = "expired" => page[g].answer = "refused"
    BY <2>2, <2>3, <2>5
  <2>12. PageStands(g)'
    BY <2>4, <2>5, <2>6, <2>7, <2>8, <2>9, <2>10, <2>11 DEF PageStands, IsDone
  <2> QED
    BY <1>1, <2>2, <2>5, <2>6, <2>10, <2>12, SettingKeeps DEF IsDone
<1>7. CASE LoseAnswer(g)
  <2>1. PICK next : next = [page[g] EXCEPT !.view = "error", !.request = {}, !.answer = "none"]
    OBVIOUS
  <2>2. page[g].view = "submitting" /\ Set(g, next)
    BY <1>7, <2>1 DEF LoseAnswer, Shown
  <2>3. /\ next \in PageTypes /\ next.view = "error" /\ next.link = page[g].link
        /\ next.request = {} /\ next.answer = "none"
    BY <1>2, <2>1 DEF PageTypes, Views
  <2>4. PICK link \in Delivered : link = page[g].link
    BY <1>2, <2>2 DEF PageStands
  <2>5. link \in Delivered'
    BY <1>3
  <2>6. page'[g] = next
    BY <1>2, <2>2 DEF Set
  <2>7. PageStands(g)'
    BY <2>3, <2>4, <2>5, <2>6 DEF PageStands, IsDone
  <2> QED
    BY <1>1, <2>2, <2>3, <2>7, SettingKeeps
<1> QED
  BY <1>4, <1>5, <1>6, <1>7

LEMMA NoStepKeeps ==
  ASSUME LinkInv, UNCHANGED linkVars
  PROVE  LinkInv'
<1>1. UNCHANGED vars /\ page' = page
  BY DEF linkVars
<1>2. req' = req /\ [Next]_vars
  BY <1>1 DEF vars
<1>3. MembershipInv' /\ SpentIsClaimed'
  BY <1>2, RowsKeepTheirPart
<1>4. ASSUME NEW g \in Pages PROVE PageStands(g)'
  <2>1. \A r \in page[g].request : Redeems(r, page[g].link)'
    BY <1>1, <1>2 DEF LinkInv, PageStands, Redeems
  <2> QED
    BY <1>1, <1>2, <2>1, PageGoesOn
<1>5. OneIsDone'
  BY <1>1, <1>2, OneIsDoneStill DEF IsDone
<1> QED
  BY <1>1, <1>3, <1>4, <1>5 DEF LinkInv, PagesApart

-----------------------------------------------------------------------------
(* The theorems *)

LEMMA InitLinkInvariant == LinkInit => LinkInv
<1> SUFFICES ASSUME LinkInit PROVE LinkInv
  OBVIOUS
<1>1. MembershipInv /\ Types
  BY InitInvariant DEF LinkInit, MembershipInv
<1>2. \A g \in Pages : page[g] = Blank
  BY DEF LinkInit
<1>3. /\ Blank \in PageTypes /\ Blank.view = "closed" /\ Blank.request = {}
      /\ Blank.answer = "none"
  BY DEF Blank, PageTypes, Views, Links
<1>4. page \in [Pages -> PageTypes]
  BY <1>3 DEF LinkInit
<1>5. (\A g \in Pages : PageStands(g) /\ ~IsDone(g)) /\ PagesApart
  BY <1>2, <1>3 DEF PageStands, IsDone, PagesApart
<1>6. SpentIsClaimed
  <2>1. \A i \in InviteIds : invite[i].state # "used"
    BY DEF LinkInit, Init, NoInvite
  <2>2. \A t \in TokenIds : ~token[t].used
    BY DEF LinkInit, Init, NoToken
  <2> QED
    BY <2>1, <2>2 DEF SpentIsClaimed
<1> QED
  BY <1>1, <1>4, <1>5, <1>6 DEF LinkInv, OneIsDone

LEMMA LinkStepInvariant ==
  ASSUME LinkInv, [LinkNext]_linkVars
  PROVE  LinkInv'
BY ElsewhereKeeps, ProceedKeeps, SubmitKeeps, PageStepKeeps, NoStepKeeps DEF LinkNext

THEOREM LinkInvariant == LinkSpec => []LinkInv
<1>1. LinkInit => LinkInv
  BY InitLinkInvariant
<1>2. LinkInv /\ [LinkNext]_linkVars => LinkInv'
  BY LinkStepInvariant
<1> QED
  BY <1>1, <1>2, PTL DEF LinkSpec

(* Types: a page that waits has one request under way, which redeems its     *)
(* link and is no other page's, or an answer (AcceptInvitePage and           *)
(* SetupAccountPage, useState of their state).                               *)
THEOREM LinksTypeCorrect == LinkSpec => []LinksTypeOK
<1>1. Spec => []TypeOK
  BY MembershipTypeCorrect
<1>2. LinkSpec => Spec
  BY PagesAreClients
<1>3. LinkInv /\ TypeOK => LinksTypeOK
  <2> SUFFICES ASSUME LinkInv, TypeOK PROVE LinksTypeOK
    OBVIOUS
  <2>1. ASSUME NEW g \in Pages
        PROVE  /\ page[g].view \in {"closed", "idle", "submitting", "completed", "expired", "error"}
               /\ (page[g].view = "submitting") <=> (page[g].request # {} \/ page[g].answer # "none")
               /\ \A r \in page[g].request : req[r].call \in {"redeemInvite", "redeemSetup"}
               /\ \A h \in Pages \ {g} : page[g].request \intersect page[h].request = {}
    BY DEF LinkInv, PageTypes, Views, PageStands, Redeems, PagesApart
  <2> QED
    BY <2>1 DEF LinksTypeOK
<1> QED
  BY <1>1, <1>2, <1>3, LinkInvariant, PTL

(* What a page says of its link stays true, however redemptions,             *)
(* revocations, resends, deletions and lost answers cross, and of two pages  *)
(* with links of one person only one says that the account is ready, unless  *)
(* two generate() overlap.                                                   *)
THEOREM LinkAnswersAreTrue == LinkSpec => []LinkAnswersHold
<1>1. LinkInv => LinkAnswersHold
  <2> SUFFICES ASSUME LinkInv PROVE LinkAnswersHold
    OBVIOUS
  <2>1. ASSUME NEW g \in Pages
        PROVE  /\ page[g].view = "expired" => ~WorksNow(page[g].link)
               /\ page[g].view = "completed" =>
                    IF page[g].link.kind = "invite" THEN invite[page[g].link.of].state = "used"
                                                    ELSE token[page[g].link.of].used
    BY DEF LinkInv, PageStands, IsDone, Spent
  <2>2. ASSUME NEW g \in Pages, NEW h \in Pages,
               g # h, page[g].view = "completed", page[h].view = "completed",
               page[g].link.kind = page[h].link.kind,
               page[g].link.kind = "invite" => MemberOf(g) = MemberOf(h) /\ MemberOf(g) # Nobody
        PROVE  history.overlapped
    BY <2>2 DEF LinkInv, OneIsDone, IsDone, SamePerson
  <2> QED
    BY <2>1, <2>2 DEF LinkAnswersHold
<1> QED
  BY <1>1, LinkInvariant, PTL

=============================================================================
