----------------------------- MODULE MCRevocation -----------------------------
(* Instances of Revocation for TLC. *)
EXTENDS Revocation, TLC

CONSTANTS alice, bob, v1, ta, tb, c1, c2, r1

OneOwner     == [v \in Vault |-> alice]
OneTokenEach == [t \in Token |-> IF t = ta THEN alice ELSE bob]
=============================================================================
