------------------------------ MODULE SharingACL ------------------------------
(***************************************************************************)
(* What vault sharing promises: each vault has one owner and a bounded set *)
(* of collaborators.  The owner adds collaborators; the owner, or the      *)
(* collaborator, ends the collaboration; re-encrypting a vault moves it,   *)
(* with its collaborators, to an identity never used before.               *)
(***************************************************************************)
EXTENDS FiniteSets, Naturals

CONSTANTS VaultId, User, MaxActive, None

VARIABLES owner,   \* the owner of each vault, None where there is no vault
          collab   \* the collaborators of each vault

vars == <<owner, collab>>

Vaults == {v \in VaultId : owner[v] # None}

Init == owner = [v \in VaultId |-> None] /\ collab = [v \in VaultId |-> {}]

Create(v, u) ==
  /\ owner[v] = None
  /\ owner' = [owner EXCEPT ![v] = u]
  /\ UNCHANGED collab

Grant(v, u) ==
  /\ v \in Vaults /\ u # owner[v] /\ u \notin collab[v]
  /\ Cardinality(collab[v]) < MaxActive
  /\ collab' = [collab EXCEPT ![v] = @ \cup {u}]
  /\ UNCHANGED owner

Revoke(v, u) ==
  /\ u \in collab[v]
  /\ collab' = [collab EXCEPT ![v] = @ \ {u}]
  /\ UNCHANGED owner

Delete(v) ==
  /\ v \in Vaults
  /\ owner'  = [owner EXCEPT ![v] = None]
  /\ collab' = [collab EXCEPT ![v] = {}]

Move(v, w) ==
  /\ v \in Vaults /\ owner[w] = None
  /\ owner'  = [owner EXCEPT ![w] = owner[v], ![v] = None]
  /\ collab' = [collab EXCEPT ![w] = collab[v], ![v] = {}]

Next == \E v \in VaultId :
  \/ \E u \in User : Create(v, u) \/ Grant(v, u) \/ Revoke(v, u)
  \/ Delete(v)
  \/ \E w \in VaultId : Move(v, w)

Spec == Init /\ [][Next]_vars
=============================================================================
