----------------------------- MODULE MCAccounts -----------------------------
(***************************************************************************)
(* What the clients of the runs of Accounts do.                            *)
(***************************************************************************)
EXTENDS ResetPages, TLC

\* A user at several devices, and administrators.
SessionWork == {"login", "refresh", "logout", "revokeSession", "revokeAllSessions",
                "changePassword", "approve", "lock", "unlock", "softDelete",
                "deactivate", "activate"}

\* Forgotten passwords.
ResetWork == {"requestReset", "resetPassword", "forceResetPassword"}

\* The same on pages.
ForgottenWork == {"requestReset", "resetPassword"}

AllWorkloads == {SessionWork, ResetWork, ForgottenWork}
MCPageWork == {ForgottenWork}

Symmetry == Permutations(Requests) \union Permutations(Pages)

=============================================================================
