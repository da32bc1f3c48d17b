---------------------------- MODULE MCMemberships ----------------------------
(* Instances of Memberships for TLC. *)
EXTENDS Memberships, TLC

CONSTANTS v1, v2, v3, u1, u2, u3

\* Identities are alike, and so are the users who may not share.
Renaming == Permutations(VaultId) \cup Permutations(User \ Sharing)
=============================================================================
