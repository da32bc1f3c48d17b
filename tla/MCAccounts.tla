------------------------------ MODULE MCAccounts ------------------------------
(* Instances of Accounts for TLC. *)
EXTENDS Accounts, TLC

\* Addresses, passwords and requests are interchangeable.
Renaming == Permutations(Email) \cup Permutations(Password) \cup Permutations(Req)
=============================================================================
