---------------------------- MODULE MCMembership ----------------------------
(* Small tenants for Membership, and what their clients call. *)
EXTENDS LinkPages, TLC, Sequences

Symmetry == Permutations(Requests) \union Permutations(Pages)

\* A tenant whose first members have these statuses, and an address each.
World(calls, left, maxUsers, statuses, owning, pages) ==
  [calls |-> calls, left |-> left, maxUsers |-> maxUsers, owning |-> owning, pages |-> pages,
   members |-> [m \in MemberIds |->
                  IF m <= Len(statuses)
                    THEN [status |-> statuses[m], email |-> <<"a", "b", "c">>[m]]
                    ELSE NoMember]]

Entering == {"createInvites", "directCreate", "selfRegister"}
Inviting == {"resendInvite", "revokeInvite", "redeemInvite"}
Deleting == {"softDelete", "hardDelete"}

\* A tenant with a seat left, and one with none; one whose invited member is
\* being deleted; three members who own rows, and one whom another joins; a
\* First Admin to be set up; and the last one and the third with two pages
\* behind the links.
AllWorlds ==
  {World(Entering \union {"redeemInvite", "resendInvite"}, 3, 2, <<"pending_invite">>, FALSE, {}),
   World(Entering \union {"softDelete"}, 3, 1, <<>>, FALSE, {}),
   World(Inviting \union Deleting, 6, 3, <<"pending_invite">>, FALSE, {}),
   World(Deleting \union {"createRow"}, 6, 3, <<"active", "active", "active">>, TRUE, {}),
   World({"directCreate", "hardDelete", "createRow"}, 3, 2, <<"active">>, TRUE, {}),
   World({"generate", "redeemSetup", "softDelete"}, 6, 3, <<"pending_setup">>, FALSE, {}),
   World(Inviting \union Deleting, 3, 3, <<"pending_invite">>, FALSE, Pages),
   World({"generate", "redeemSetup", "softDelete"}, 4, 3, <<"pending_setup">>, FALSE, Pages)}

=============================================================================
