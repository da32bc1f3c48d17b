------------------------------ MODULE MCSessions ------------------------------
(* Instances of Sessions for TLC. *)
EXTENDS Sessions, TLC

\* Users, tokens and requests are interchangeable.
Renaming == Permutations(User) \cup Permutations(Token) \cup Permutations(Req)
=============================================================================
