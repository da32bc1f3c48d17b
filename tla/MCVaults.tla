------------------------------- MODULE MCVaults -------------------------------
(* Instance of Vaults for TLC. *)
EXTENDS Vaults, TLC

\* Keys, names and requests are interchangeable; identities are ordered.
Renaming == Permutations(Key) \cup Permutations(Name) \cup Permutations(Req)
=============================================================================
