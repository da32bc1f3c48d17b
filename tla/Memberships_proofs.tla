-------------------------- MODULE Memberships_proofs --------------------------
(***************************************************************************)
(* Proofs about Memberships, for any vaults, users, limits and readings of *)
(* the clock: the table's invariants, the bound that pruning keeps, that a *)
(* share UID names one grant, and that the rows implement SharingACL.      *)
(***************************************************************************)
EXTENDS Memberships, FiniteSetTheorems, TLAPS

(* Counting.                                                               *)

LEMMA NatMin ==
  ASSUME NEW S, S \subseteq Nat, S # {}
  PROVE  \E x \in S : \A y \in S : x <= y
<1> DEFINE R == {ss \in Nat \X Nat : ss[1] < ss[2]}
<1>1. IsWellFoundedOn(R, Nat)
  BY NatLessThanWellFounded, Zenon DEF OpToRel
<1>2. PICK x \in S : \A y \in S : ~(<<y, x>> \in R)
  BY <1>1, WFMin, Zenon
<1>3. ASSUME NEW y \in S PROVE x <= y
  <2>1. <<y, x>> \in Nat \X Nat /\ <<y, x>> \notin R
    BY <1>2, Zenon
  <2>2. ~(y < x)
    BY <2>1, Zenon
  <2> QED
    BY <2>2
<1> QED
  BY <1>3, Zenon

\* A subset is finite and no larger.
LEMMA Smaller ==
  ASSUME NEW S, IsFiniteSet(S), NEW T, T \subseteq S
  PROVE  /\ IsFiniteSet(T) /\ Cardinality(T) \in Nat /\ Cardinality(S) \in Nat
         /\ Cardinality(T) <= Cardinality(S)
         /\ Cardinality(S \ T) = Cardinality(S) - Cardinality(T)
<1>1. IsFiniteSet(T) /\ Cardinality(T) <= Cardinality(S)
  BY FS_Subset, Zenon
<1>2. Cardinality(T) \in Nat /\ Cardinality(S) \in Nat
  BY <1>1, FS_CardinalityType, Zenon
<1>3. S \cap T = T
  OBVIOUS
<1>4. Cardinality(S \ T) = Cardinality(S) - Cardinality(S \cap T)
  BY FS_Difference, Zenon
<1> QED
  BY <1>1, <1>2, <1>3, <1>4, Zenon

\* One element more.
LEMMA OneMore ==
  ASSUME NEW S, IsFiniteSet(S), NEW x
  PROVE  /\ IsFiniteSet(S \cup {x}) /\ Cardinality(S) \in Nat /\ Cardinality(S \cup {x}) \in Nat
         /\ Cardinality(S \cup {x}) <= Cardinality(S) + 1
         /\ x \notin S => Cardinality(S \cup {x}) = Cardinality(S) + 1
<1>1. /\ IsFiniteSet(S \cup {x})
      /\ Cardinality(S \cup {x}) = IF x \in S THEN Cardinality(S) ELSE Cardinality(S) + 1
  BY FS_AddElement, Zenon
<1>2. Cardinality(S) \in Nat /\ Cardinality(S \cup {x}) \in Nat
  BY <1>1, FS_CardinalityType, Zenon
<1> QED
  BY <1>1, <1>2

\* Rows with a revocation time have one that no other precedes.
LEMMA OldestExists ==
  ASSUME NEW K, K # {}, \A m \in K : m.revoked \in Nat /\ m.id \in Nat
  PROVE  \E m \in K : \A x \in K : ~Older(x, m)
<1> DEFINE T == {m.revoked : m \in K}
<1>1. PICK t \in T : \A y \in T : t <= y
  <2>1. T \subseteq Nat /\ T # {}
    OBVIOUS
  <2> HIDE DEF T
  <2> QED
    BY <2>1, NatMin, Zenon
<1> DEFINE I == {m.id : m \in {n \in K : n.revoked = t}}
<1>2. PICK i \in I : \A y \in I : i <= y
  <2>1. I \subseteq Nat /\ I # {}
    BY <1>1, Zenon
  <2> HIDE DEF I
  <2> QED
    BY <2>1, NatMin, Zenon
<1>3. PICK m \in K : m.revoked = t /\ m.id = i
  BY <1>2, Zenon
<1>4. ASSUME NEW x \in K PROVE ~Older(x, m)
  <2>1. x.revoked \in T /\ (x.revoked = t => x.id \in I)
    OBVIOUS
  <2>2. t <= x.revoked /\ (x.revoked = t => i <= x.id)
    BY <1>1, <1>2, <2>1, Zenon
  <2> QED
    BY <1>3, <2>2 DEF Older
<1> QED
  BY <1>4, Zenon

\* Removing the rows that fewer than Cardinality(R) + 1 - k others precede leaves at
\* most k - 1.
LEMMA PruningLeaves ==
  ASSUME NEW R, IsFiniteSet(R), \A m \in R : m.revoked \in Nat /\ m.id \in Nat,
         NEW k \in Nat \ {0},
         NEW P, P = {m \in R : Cardinality({x \in R : Older(x, m)}) + k < Cardinality(R) + 1}
  PROVE  Cardinality(R \ P) <= k - 1
<1> DEFINE K == R \ P
<1>1. CASE K = {}
  <2>1. Cardinality(K) = 0
    BY <1>1, FS_EmptySet, Zenon
  <2> QED
    BY <2>1
<1>2. CASE K # {}
  <2>1. PICK m \in K : \A x \in K : ~Older(x, m)
    BY <1>2, OldestExists, Zenon
  <2> DEFINE O == {x \in R : Older(x, m)}
  <2>2. O \subseteq R \ K
    BY <2>1, Zenon
  <2>3. K \subseteq R
    OBVIOUS
  <2>4. /\ Cardinality(R \ K) = Cardinality(R) - Cardinality(K)
        /\ Cardinality(R) \in Nat /\ Cardinality(K) \in Nat /\ IsFiniteSet(R \ K)
    <3> HIDE DEF K
    <3>1. IsFiniteSet(R \ K)
      BY FS_Difference, Zenon
    <3> QED
      BY <2>3, <3>1, Smaller, Zenon
  <2>5. Cardinality(O) \in Nat /\ Cardinality(O) <= Cardinality(R \ K)
    <3> HIDE DEF O, K
    <3> QED
      BY <2>2, <2>4, Smaller, Zenon
  <2>6. ~(Cardinality(O) + k < Cardinality(R) + 1)
    BY <2>1, Zenon
  <2> HIDE DEF O, K
  <2>7. Cardinality(K) <= k - 1
    BY <2>4, <2>5, <2>6
  <2> QED
    BY <2>7, Zenon DEF K
<1> QED
  BY <1>1, <1>2, Zenon

-----------------------------------------------------------------------------
(* The inductive invariant.                                                *)

\* No UID was issued beyond the sequence, and the table is finite.
Inv ==
  /\ TypeOK /\ IsFiniteSet(members)
  /\ TableVerifies /\ RowsBounded /\ UidNamesOneGrant
  /\ \A g \in granted : g[1] <= seq

\* What a step must leave, once the rows of every vault are known.
LEMMA RowsFinite ==
  ASSUME Inv, NEW v \in VaultId
  PROVE  /\ IsFiniteSet(Rows(v)) /\ IsFiniteSet(Active(v)) /\ IsFiniteSet(Revoked(v))
         /\ Rows(v) \subseteq members /\ Active(v) \subseteq Rows(v)
         /\ Cardinality(Rows(v)) \in Nat /\ Cardinality(Active(v)) \in Nat
         /\ Cardinality(members) \in Nat
         /\ Cardinality(Active(v)) <= Cardinality(Rows(v))
         /\ Cardinality(Revoked(v)) = Cardinality(Rows(v)) - Cardinality(Active(v))
<1>1. Rows(v) \subseteq members /\ Active(v) \subseteq Rows(v)
  BY Zenon DEF Rows, Active
<1>2. IsFiniteSet(Rows(v)) /\ Cardinality(members) \in Nat /\ Cardinality(Rows(v)) \in Nat
  BY <1>1, Smaller, Zenon DEF Inv
<1>3. /\ IsFiniteSet(Active(v)) /\ Cardinality(Active(v)) \in Nat
      /\ Cardinality(Active(v)) <= Cardinality(Rows(v))
      /\ Cardinality(Revoked(v)) = Cardinality(Rows(v)) - Cardinality(Active(v))
  BY <1>1, <1>2, Smaller, Zenon DEF Revoked
<1>4. IsFiniteSet(Revoked(v))
  BY <1>2, FS_Difference, Zenon DEF Revoked
<1> QED
  BY <1>1, <1>2, <1>3, <1>4, Zenon

LEMMA InitInv == Init => Inv
<1> SUFFICES ASSUME Init PROVE Inv
  OBVIOUS
<1>1. TypeOK
  BY MembershipAssumption DEF Init, TypeOK, Vaults
<1>2. IsFiniteSet(members) /\ Cardinality(members) = 0
  BY FS_EmptySet, Zenon DEF Init
<1>3. Vaults = {} /\ \A v \in VaultId : Rows(v) = {} /\ Active(v) = {}
  BY Zenon DEF Init, Vaults, Rows, Active
<1>4. TableVerifies
  <2>1. Cardinality(members) <= MaxMemberships
    BY <1>2, MembershipAssumption
  <2>2. Cardinality(Vaults) <= MaxVaults
    BY <1>3, FS_EmptySet, MembershipAssumption
  <2>3. \A v \in VaultId : Cardinality(Active(v)) <= MaxActive
    BY <1>3, FS_EmptySet, MembershipAssumption
  <2> QED
    BY <1>3, <2>1, <2>2, <2>3, Zenon DEF TableVerifies, Init
<1>5. RowsBounded
  <2>1. 0 < MaxActive + MaxRevoked /\ Cardinality({}) = 0
    BY FS_EmptySet, MembershipAssumption
  <2> QED
    BY <1>3, <2>1, Zenon DEF RowsBounded
<1> QED
  BY <1>1, <1>2, <1>4, <1>5, Zenon DEF Inv, UidNamesOneGrant, Init

\* Steps that leave the rows, the sequence and the UIDs alone.
LEMMA SameRows ==
  ASSUME Inv, TypeOK', UNCHANGED <<members, seq, granted>>,
         \A v \in Vaults : owner'[v] = owner[v], Cardinality(Vaults') <= MaxVaults
  PROVE  Inv'
<1>1. \A v \in VaultId : Rows(v)' = Rows(v) /\ Active(v)' = Active(v)
  BY Zenon DEF Rows, Active
<1>2. TableVerifies'
  BY <1>1 DEF Inv, TableVerifies, TypeOK, Vaults, Row
<1> QED
  BY <1>1, <1>2, Zenon DEF Inv, RowsBounded, UidNamesOneGrant

LEMMA StatusInv ==
  ASSUME Inv, NEW u \in User, SetStatus(u)
  PROVE  Inv'
<1>1. TypeOK' /\ Vaults' = Vaults
  BY Zenon DEF Inv, TypeOK, SetStatus, vaultRows, Vaults
<1> QED
  BY <1>1, SameRows, Zenon DEF SetStatus, vaultRows, Inv, TableVerifies, Vaults

LEMMA CreateInv ==
  ASSUME Inv, NEW u \in User, NEW v \in VaultId, NEW new \in BOOLEAN, CreateVault(u, v, new)
  PROVE  Inv'
<1>1. Vaults' = Vaults \cup {v} /\ v \notin Vaults /\ Vaults \subseteq VaultId
  BY MembershipAssumption, Zenon DEF Inv, TypeOK, CreateVault, Vaults
<1>2. IsFiniteSet(Vaults) /\ Cardinality(Vaults) \in Nat
  BY <1>1, Smaller, MembershipAssumption, Zenon
<1>3. Cardinality(Vaults') <= MaxVaults
  <2>1. Cardinality(Vaults \cup {v}) = Cardinality(Vaults) + 1
    BY <1>1, <1>2, FS_AddElement, Zenon
  <2> QED
    BY <1>1, <1>2, <2>1, MembershipAssumption DEF CreateVault
<1>4. TypeOK'
  <2>1. owner' \in [VaultId -> User \cup {None}]
    BY Zenon DEF Inv, TypeOK, CreateVault
  <2>2. version3' \subseteq spent' /\ spent' \subseteq VaultId /\ Vaults' \subseteq spent'
    BY <1>1, Zenon DEF Inv, TypeOK, CreateVault
  <2> QED
    BY <2>1, <2>2, Zenon DEF Inv, TypeOK, CreateVault
<1>5. \A x \in Vaults : owner'[x] = owner[x]
  BY <1>1, Zenon DEF CreateVault, Inv, TypeOK
<1> QED
  BY <1>3, <1>4, <1>5, SameRows, Zenon DEF CreateVault

-----------------------------------------------------------------------------
(* An invitation.                                                          *)

NewRow(v, t) == [id |-> NextId, vault |-> v, user |-> t, revoked |-> Never]

\* What invite_collaborator_for_session does to the rows of every vault.
LEMMA InviteRows ==
  ASSUME Inv, NEW u \in User, NEW v \in VaultId, NEW t \in User, Invite(u, v, t)
  PROVE  /\ NewRow(v, t) \in Row /\ NewRow(v, t).id = seq + 1 /\ seq' = seq + 1
         /\ members' = (members \ Pruned(v)) \cup {NewRow(v, t)}
         /\ NewRow(v, t) \notin members
         /\ Pruned(v) \subseteq Revoked(v)
         /\ Rows(v)' = (Rows(v) \ Pruned(v)) \cup {NewRow(v, t)}
         /\ Active(v)' = Active(v) \cup {NewRow(v, t)}
         /\ \A w \in VaultId : w # v => Rows(w)' = Rows(w) /\ Active(w)' = Active(w)
<1> DEFINE new == NewRow(v, t)
<1>1. seq \in Nat /\ seq < MaxSeq /\ NextId = seq + 1 /\ seq' = seq + 1
  BY MembershipAssumption DEF Invite, SeqLeft, NextId, Inv, TypeOK
<1>2. new \in Row /\ new.id = seq + 1 /\ new.vault = v /\ new.revoked = Never
  BY <1>1, MembershipAssumption DEF NewRow, Row
<1>3. members' = (members \ Pruned(v)) \cup {new}
  BY Zenon DEF Invite, NewRow
<1>4. new \notin members
  BY <1>1, <1>2 DEF Inv, TableVerifies
<1>5. Pruned(v) \subseteq Revoked(v) /\ Revoked(v) \subseteq Rows(v)
  BY Zenon DEF Pruned, Revoked
<1> HIDE DEF new
<1>6. Rows(v)' = (Rows(v) \ Pruned(v)) \cup {new}
  BY <1>2, <1>3, Zenon DEF Rows
<1>7. Active(v)' = Active(v) \cup {new}
  BY <1>2, <1>5, <1>6, Zenon DEF Active, Revoked
<1>8. ASSUME NEW w \in VaultId, w # v PROVE Rows(w)' = Rows(w) /\ Active(w)' = Active(w)
  <2>1. Rows(w)' = Rows(w)
    BY <1>2, <1>3, <1>5, <1>8, Zenon DEF Rows
  <2> QED
    BY <2>1, Zenon DEF Active
<1> QED
  BY <1>1, <1>2, <1>3, <1>4, <1>5, <1>6, <1>7, <1>8, Zenon DEF new

\* Pruning leaves fewer than MaxRevoked revoked rows of the vault.
LEMMA InvitePrunes ==
  ASSUME Inv, NEW v \in VaultId
  PROVE  Cardinality(Revoked(v) \ Pruned(v)) <= MaxRevoked - 1
<1>1. \A m \in Revoked(v) : m.revoked \in Nat /\ m.id \in Nat
  <2> SUFFICES ASSUME NEW m \in Revoked(v) PROVE m.revoked \in Nat /\ m.id \in Nat
    OBVIOUS
  <2>1. m \in Row /\ m.revoked # Never
    <3>1. m \in Rows(v) /\ m \notin Active(v)
      BY Zenon DEF Revoked
    <3>2. m \in members /\ m.revoked # Never
      BY <3>1, Zenon DEF Rows, Active
    <3> QED
      BY <3>2, Zenon DEF Inv, TypeOK
  <2>2. m.revoked \in Times /\ m.id \in 1..MaxSeq
    BY <2>1, Zenon DEF Row
  <2>3. Times \subseteq Nat /\ MaxSeq \in Nat
    BY MembershipAssumption, Zenon
  <2>4. m.revoked \in Nat
    BY <2>2, <2>3, Zenon
  <2> QED
    BY <2>2, <2>3, <2>4
<1>2. Pruned(v) = {m \in Revoked(v) :
        Cardinality({x \in Revoked(v) : Older(x, m)}) + MaxRevoked < Cardinality(Revoked(v)) + 1}
  BY Zenon DEF Pruned
<1>3. IsFiniteSet(Revoked(v)) /\ MaxRevoked \in Nat \ {0}
  BY RowsFinite, MembershipAssumption, Zenon
<1> QED
  BY <1>1, <1>2, <1>3, PruningLeaves, Zenon

LEMMA InviteInv ==
  ASSUME Inv, NEW u \in User, NEW v \in VaultId, NEW t \in User, Invite(u, v, t)
  PROVE  Inv'
<1> DEFINE new  == NewRow(v, t)
           kept == members \ Pruned(v)
<1>1. /\ new \in Row /\ new.id = seq + 1 /\ seq' = seq + 1 /\ members' = kept \cup {new}
      /\ new \notin members /\ Pruned(v) \subseteq Revoked(v)
      /\ Rows(v)' = (Rows(v) \ Pruned(v)) \cup {new} /\ Active(v)' = Active(v) \cup {new}
      /\ \A w \in VaultId : w # v => Rows(w)' = Rows(w) /\ Active(w)' = Active(w)
  BY InviteRows
<1>2. new.vault = v /\ new.user = t /\ new.revoked = Never
  BY Zenon DEF NewRow
<1>3. UNCHANGED <<owner, version3, spent, active>> /\ Vaults' = Vaults
  BY Zenon DEF Invite, vaultRows, Vaults
<1>4. granted' = granted \cup {<<seq + 1, v, t>>} /\ seq \in Nat /\ seq + 1 \in 1..MaxSeq
  BY <1>1, MembershipAssumption DEF Invite, NextId, Inv, TypeOK, Row
<1>5. owner[v] = u /\ t # u /\ u # None /\ \A m \in Active(v) : m.user # t
  BY MembershipAssumption, Zenon DEF Invite, CanInvite
<1> HIDE DEF new, kept
<1>6. TypeOK'
  BY <1>1, <1>3, <1>4, SMTT(40) DEF Inv, TypeOK, kept
<1>7. IsFiniteSet(kept) /\ Cardinality(kept) \in Nat /\ Cardinality(kept) < MaxMemberships
  BY Smaller, Zenon DEF kept, Inv, Invite
<1>8. IsFiniteSet(members') /\ Cardinality(members') <= MaxMemberships
  <2>1. IsFiniteSet(kept \cup {new}) /\ Cardinality(kept \cup {new}) <= Cardinality(kept) + 1
    BY <1>7, OneMore, Zenon
  <2>2. Cardinality(kept \cup {new}) \in Nat
    BY <2>1, FS_CardinalityType, Zenon
  <2> QED
    BY <1>1, <1>7, <2>1, <2>2, MembershipAssumption
<1>9. Cardinality(Active(v)') <= MaxActive
  <2>1. Cardinality(Active(v) \cup {new}) <= Cardinality(Active(v)) + 1
    BY RowsFinite, OneMore, Zenon
  <2>2. Cardinality(Active(v)) \in Nat /\ Cardinality(Active(v)) < MaxActive
    BY RowsFinite, Zenon DEF Invite
  <2>3. Cardinality(Active(v) \cup {new}) \in Nat
    BY RowsFinite, OneMore, Zenon
  <2> QED
    BY <1>1, <2>1, <2>2, <2>3, MembershipAssumption
<1>10. Cardinality(Rows(v)') < MaxActive + MaxRevoked
  <2> DEFINE left == Rows(v) \ Pruned(v)
  <2>1. left = Active(v) \cup (Revoked(v) \ Pruned(v))
    BY <1>1, RowsFinite, Zenon DEF Revoked
  <2>2. IsFiniteSet(Active(v)) /\ IsFiniteSet(Revoked(v) \ Pruned(v)) /\ IsFiniteSet(left)
    BY RowsFinite, FS_Difference, Zenon
  <2>3. Active(v) \cap (Revoked(v) \ Pruned(v)) = {}
    BY Zenon DEF Revoked
  <2>4. Cardinality(left) = Cardinality(Active(v)) + Cardinality(Revoked(v) \ Pruned(v)) - 0
    BY <2>1, <2>2, <2>3, FS_Union, FS_EmptySet
  <2>5. /\ Cardinality(Active(v)) \in Nat /\ Cardinality(Revoked(v) \ Pruned(v)) \in Nat
        /\ Cardinality(left) \in Nat
    BY <2>2, FS_CardinalityType, Zenon
  <2>6. Cardinality(Active(v)) < MaxActive /\ Cardinality(Revoked(v) \ Pruned(v)) <= MaxRevoked - 1
    BY InvitePrunes, Zenon DEF Invite
  <2> HIDE DEF left
  <2>7. Cardinality(left \cup {new}) <= Cardinality(left) + 1 /\ Cardinality(left \cup {new}) \in Nat
    BY <2>2, OneMore, Zenon
  <2>8. Rows(v)' = left \cup {new}
    BY <1>1, Zenon DEF left
  <2> QED
    BY <2>4, <2>5, <2>6, <2>7, <2>8, MembershipAssumption
<1>11. TableVerifies'
  <2>1. \A m \in members' : owner'[m.vault] # None /\ m.user # owner'[m.vault] /\ m.id <= seq'
    BY <1>1, <1>2, <1>3, <1>4, <1>5 DEF Inv, TableVerifies, TypeOK, Row, kept
  <2>2. \A m, n \in members' : m.id = n.id => m = n
    BY <1>1, <1>4 DEF Inv, TableVerifies, TypeOK, Row, kept
  <2>3. \A w \in VaultId : \A m, n \in Active(w)' : m.user = n.user => m = n
    BY <1>1, <1>2, <1>5 DEF Inv, TableVerifies
  <2>4. \A w \in VaultId : Cardinality(Active(w)') <= MaxActive
    BY <1>1, <1>9, Zenon DEF Inv, TableVerifies
  <2> QED
    BY <1>3, <1>8, <2>1, <2>2, <2>3, <2>4 DEF Inv, TableVerifies
<1>12. RowsBounded'
  BY <1>1, <1>10, Zenon DEF Inv, RowsBounded
<1>13. UidNamesOneGrant' /\ \A g \in granted' : g[1] <= seq'
  <2>1. \A g \in granted : g[1] <= seq /\ g[1] \in Nat
    BY DEF Inv, TypeOK
  <2>2. \A g \in granted' : g[1] <= seq'
    BY <1>1, <1>4, <2>1
  <2>3. \A g, h \in granted' : g[1] = h[1] => g = h
    BY <1>4, <2>1 DEF Inv, UidNamesOneGrant
  <2>4. \A m \in members' : \E g \in granted' : g[1] = m.id /\ g[3] = m.user
    <3> TAKE m \in members'
    <3>1. CASE m = new
      <4>1. <<seq + 1, v, t>> \in granted' /\ <<seq + 1, v, t>>[1] = new.id /\ <<seq + 1, v, t>>[3] = new.user
        BY <1>1, <1>2, <1>4, Zenon
      <4> QED
        BY <3>1, <4>1, Zenon
    <3>2. CASE m \in members
      BY <1>4, <3>2, Zenon DEF Inv, UidNamesOneGrant
    <3> QED
      BY <1>1, <3>1, <3>2, Zenon DEF kept
  <2> QED
    BY <2>2, <2>3, <2>4, Zenon DEF UidNamesOneGrant
<1> QED
  BY <1>6, <1>8, <1>11, <1>12, <1>13, Zenon DEF Inv

-----------------------------------------------------------------------------
(* The end of a collaboration, of a vault, and re-encryption.              *)

\* What remove_collaborator_for_session does to the rows of every vault.
LEMMA RemoveRows ==
  ASSUME Inv, NEW u \in User, NEW m \in members, NEW now \in Times, Remove(u, m, now),
         NEW old, old = [m EXCEPT !.revoked = now]
  PROVE  /\ m.vault \in VaultId /\ m \in Active(m.vault)
         /\ old \in Row /\ old.id = m.id /\ old.vault = m.vault /\ old.user = m.user
         /\ members' = (members \ {m}) \cup {old}
         /\ Rows(m.vault)' = (Rows(m.vault) \ {m}) \cup {old}
         /\ Active(m.vault)' = Active(m.vault) \ {m}
         /\ \A w \in VaultId : w # m.vault => Rows(w)' = Rows(w) /\ Active(w)' = Active(w)
<1>1. m \in Row /\ m \in Active(m.vault)
  BY Zenon DEF Inv, TypeOK, Remove
<1>2. /\ old \in Row /\ old.id = m.id /\ old.vault = m.vault /\ old.user = m.user
      /\ old.revoked = now /\ m.vault \in VaultId
  BY <1>1, Zenon DEF Row
<1>3. members' = (members \ {m}) \cup {old}
  BY Zenon DEF Remove
<1>4. now # Never
  BY MembershipAssumption, Zenon
<1>5. Rows(m.vault)' = (Rows(m.vault) \ {m}) \cup {old}
  BY <1>2, <1>3, Zenon DEF Rows
<1>6. Active(m.vault)' = Active(m.vault) \ {m}
  BY <1>2, <1>4, <1>5, Zenon DEF Active
<1>7. ASSUME NEW w \in VaultId, w # m.vault PROVE Rows(w)' = Rows(w) /\ Active(w)' = Active(w)
  <2>1. Rows(w)' = Rows(w)
    BY <1>2, <1>3, <1>7, Zenon DEF Rows
  <2> QED
    BY <2>1, Zenon DEF Active
<1> QED
  BY <1>1, <1>2, <1>3, <1>5, <1>6, <1>7, Zenon

\* Replacing one element does not make a set larger.
LEMMA Replaced ==
  ASSUME NEW S, IsFiniteSet(S), NEW x \in S, NEW y
  PROVE  /\ IsFiniteSet((S \ {x}) \cup {y}) /\ Cardinality((S \ {x}) \cup {y}) \in Nat
         /\ Cardinality((S \ {x}) \cup {y}) <= Cardinality(S) /\ Cardinality(S) \in Nat
<1>1. IsFiniteSet(S \ {x}) /\ Cardinality(S \ {x}) = Cardinality(S) - 1
  BY FS_RemoveElement, Zenon
<1>2. Cardinality(S) \in Nat
  BY FS_CardinalityType, Zenon
<1> QED
  BY <1>1, <1>2, OneMore

LEMMA RemoveInv ==
  ASSUME Inv, NEW u \in User, NEW m \in members, NEW now \in Times, Remove(u, m, now)
  PROVE  Inv'
<1> DEFINE old == [m EXCEPT !.revoked = now]
           v   == m.vault
<1>1. /\ v \in VaultId /\ m \in Active(v)
      /\ old \in Row /\ old.id = m.id /\ old.vault = v /\ old.user = m.user
      /\ members' = (members \ {m}) \cup {old}
      /\ Rows(v)' = (Rows(v) \ {m}) \cup {old} /\ Active(v)' = Active(v) \ {m}
      /\ \A w \in VaultId : w # v => Rows(w)' = Rows(w) /\ Active(w)' = Active(w)
  BY RemoveRows
<1>2. UNCHANGED <<owner, version3, spent, active, seq, granted>> /\ Vaults' = Vaults
  BY Zenon DEF Remove, vaultRows, Vaults
<1> HIDE DEF old, v
<1>3. TypeOK'
  BY <1>1, <1>2, Zenon DEF Inv, TypeOK
<1>4. /\ IsFiniteSet(members') /\ Cardinality(members') \in Nat
      /\ Cardinality(members') <= Cardinality(members) /\ Cardinality(members) \in Nat
  BY <1>1, Replaced, Zenon DEF Inv
<1>5. /\ Cardinality(Rows(v)') \in Nat
      /\ Cardinality(Rows(v)') <= Cardinality(Rows(v)) /\ Cardinality(Rows(v)) \in Nat
  <2>1. m \in Rows(v) /\ IsFiniteSet(Rows(v))
    BY <1>1, RowsFinite, Zenon
  <2> QED
    BY <1>1, <2>1, Replaced, Zenon
<1>6. Cardinality(Active(v)') \in Nat /\ Cardinality(Active(v)') <= Cardinality(Active(v))
      /\ Cardinality(Active(v)) \in Nat
  BY <1>1, RowsFinite, Smaller, Zenon
<1>7. TableVerifies'
  <2>1. m \in members /\ owner[v] # None /\ m.user # owner[v] /\ m.id <= seq
    BY Zenon DEF Inv, TableVerifies, v
  <2>2. \A x \in members' : owner'[x.vault] # None /\ x.user # owner'[x.vault] /\ x.id <= seq'
    BY <1>1, <1>2, <2>1, Zenon DEF Inv, TableVerifies
  <2>3. \A x, y \in members' : x.id = y.id => x = y
    BY <1>1, <2>1 DEF Inv, TableVerifies
  <2>4. \A w \in VaultId : \A x, y \in Active(w)' : x.user = y.user => x = y
    BY <1>1 DEF Inv, TableVerifies
  <2>5. \A w \in VaultId : Cardinality(Active(w)') <= MaxActive
    <3> TAKE w \in VaultId
    <3>1. CASE w = v
      <4>1. Cardinality(Active(v)) <= MaxActive
        BY <1>1, Zenon DEF Inv, TableVerifies
      <4> QED
        BY <1>6, <3>1, <4>1, MembershipAssumption
    <3>2. CASE w # v
      BY <1>1, <3>2, Zenon DEF Inv, TableVerifies
    <3> QED
      BY <3>1, <3>2, Zenon
  <2>6. Cardinality(members') <= MaxMemberships
    BY <1>4, MembershipAssumption DEF Inv, TableVerifies
  <2> QED
    BY <1>2, <2>2, <2>3, <2>4, <2>5, <2>6 DEF Inv, TableVerifies
<1>8. RowsBounded'
  <2> SUFFICES ASSUME NEW w \in VaultId PROVE Cardinality(Rows(w)') < MaxActive + MaxRevoked
    BY Zenon DEF RowsBounded
  <2>1. CASE w = v
    BY <1>1, <1>5, <2>1, MembershipAssumption DEF Inv, RowsBounded
  <2>2. CASE w # v
    BY <1>1, <2>2, Zenon DEF Inv, RowsBounded
  <2> QED
    BY <2>1, <2>2, Zenon
<1>9. UidNamesOneGrant' /\ \A g \in granted' : g[1] <= seq'
  BY <1>1, <1>2 DEF Inv, UidNamesOneGrant
<1> QED
  BY <1>3, <1>4, <1>7, <1>8, <1>9, Zenon DEF Inv

LEMMA DeleteRows ==
  ASSUME Inv, NEW u \in User, NEW v \in VaultId, DeleteVault(u, v)
  PROVE  /\ owner' \in [VaultId -> User \cup {None}] /\ owner'[v] = None
         /\ \A w \in VaultId : w # v => owner'[w] = owner[w]
         /\ Vaults' = Vaults \ {v} /\ v \in Vaults
         /\ members' = members \ Rows(v)
         /\ Rows(v)' = {} /\ Active(v)' = {}
         /\ \A w \in VaultId : w # v => Rows(w)' = Rows(w) /\ Active(w)' = Active(w)
<1>1. /\ owner' \in [VaultId -> User \cup {None}] /\ owner'[v] = None
      /\ \A w \in VaultId : w # v => owner'[w] = owner[w]
  BY Zenon DEF DeleteVault, Inv, TypeOK
<1>2. Vaults' = Vaults \ {v} /\ v \in Vaults
  BY <1>1, MembershipAssumption, Zenon DEF Vaults, DeleteVault
<1>3. members' = members \ Rows(v)
  BY Zenon DEF DeleteVault
<1>4. Rows(v)' = {} /\ Active(v)' = {}
  BY <1>3, Zenon DEF Rows, Active
<1>5. ASSUME NEW w \in VaultId, w # v PROVE Rows(w)' = Rows(w) /\ Active(w)' = Active(w)
  <2>1. Rows(w)' = Rows(w)
    BY <1>3, <1>5, Zenon DEF Rows
  <2> QED
    BY <2>1, Zenon DEF Active
<1> QED
  BY <1>1, <1>2, <1>3, <1>4, <1>5, Zenon

LEMMA DeleteInv ==
  ASSUME Inv, NEW u \in User, NEW v \in VaultId, DeleteVault(u, v)
  PROVE  Inv'
<1>1. /\ owner' \in [VaultId -> User \cup {None}] /\ owner'[v] = None
      /\ \A w \in VaultId : w # v => owner'[w] = owner[w]
      /\ Vaults' = Vaults \ {v} /\ v \in Vaults
      /\ members' = members \ Rows(v)
      /\ Rows(v)' = {} /\ Active(v)' = {}
      /\ \A w \in VaultId : w # v => Rows(w)' = Rows(w) /\ Active(w)' = Active(w)
  BY DeleteRows, Zenon
<1>2. UNCHANGED <<version3, spent, seq, active, granted>>
  BY Zenon DEF DeleteVault
<1>3. TypeOK'
  BY <1>1, <1>2, Zenon DEF Inv, TypeOK
<1>4. /\ IsFiniteSet(members') /\ Cardinality(members') \in Nat
      /\ Cardinality(members') <= Cardinality(members) /\ Cardinality(members) \in Nat
  <2>1. members' \subseteq members
    BY <1>1, Zenon
  <2> QED
    BY <2>1, Smaller, Zenon DEF Inv
<1>5. Cardinality(Vaults') <= MaxVaults
  <2>1. IsFiniteSet(Vaults) /\ Vaults' \subseteq Vaults
    BY <1>1, MembershipAssumption, Smaller, Zenon DEF Vaults
  <2>2. Cardinality(Vaults') \in Nat /\ Cardinality(Vaults') <= Cardinality(Vaults) /\ Cardinality(Vaults) \in Nat
    BY <2>1, Smaller, Zenon
  <2> QED
    BY <2>2, MembershipAssumption DEF Inv, TableVerifies
<1>6. TableVerifies'
  <2>1. \A m \in members' : m \in members /\ m.vault \in VaultId /\ m.vault # v
    BY <1>1, Zenon DEF Inv, TypeOK, Row, Rows
  <2>2. \A m \in members' : owner'[m.vault] # None /\ m.user # owner'[m.vault] /\ m.id <= seq'
    BY <1>1, <1>2, <2>1, Zenon DEF Inv, TableVerifies
  <2>3. \A m, n \in members' : m.id = n.id => m = n
    BY <2>1, Zenon DEF Inv, TableVerifies
  <2>4. \A w \in VaultId : \A m, n \in Active(w)' : m.user = n.user => m = n
    BY <1>1 DEF Inv, TableVerifies
  <2>5. \A w \in VaultId : Cardinality(Active(w)') <= MaxActive
    <3>1. Cardinality({}) <= MaxActive
      BY FS_EmptySet, MembershipAssumption
    <3> QED
      BY <1>1, <3>1, Zenon DEF Inv, TableVerifies
  <2>6. Cardinality(members') <= MaxMemberships
    BY <1>4, MembershipAssumption DEF Inv, TableVerifies
  <2> QED
    BY <1>5, <2>2, <2>3, <2>4, <2>5, <2>6, Zenon DEF TableVerifies
<1>7. RowsBounded'
  <2>1. 0 < MaxActive + MaxRevoked /\ Cardinality({}) = 0
    BY FS_EmptySet, MembershipAssumption
  <2> QED
    BY <1>1, <2>1, Zenon DEF Inv, RowsBounded
<1>8. UidNamesOneGrant' /\ \A g \in granted' : g[1] <= seq'
  BY <1>1, <1>2, Zenon DEF Inv, UidNamesOneGrant
<1> QED
  BY <1>3, <1>4, <1>6, <1>7, <1>8, Zenon DEF Inv

\* What migrate_vault does to the rows of every vault.
MovedRow(m, w) == [m EXCEPT !.vault = w]
MovedTo(v, w)  == {MovedRow(m, w) : m \in Active(v)}

LEMMA MigrateRows ==
  ASSUME Inv, NEW u \in User, NEW v \in VaultId, NEW w \in VaultId, MigrateVault(u, v, w)
  PROVE  /\ v # w /\ owner[w] = None /\ owner' \in [VaultId -> User \cup {None}]
         /\ owner'[v] = None /\ owner'[w] = owner[v] /\ owner[v] = u /\ u # None
         /\ \A x \in VaultId : x \notin {v, w} => owner'[x] = owner[x]
         /\ Vaults' = (Vaults \ {v}) \cup {w} /\ v \in Vaults
         /\ \A m \in Active(v) : /\ MovedRow(m, w) \in Row /\ MovedRow(m, w).vault = w
                                 /\ MovedRow(m, w).id = m.id /\ MovedRow(m, w).user = m.user
                                 /\ MovedRow(m, w).revoked = Never
         /\ members' = (members \ Rows(v)) \cup MovedTo(v, w)
         /\ Rows(v)' = {} /\ Active(v)' = {}
         /\ Rows(w)' = MovedTo(v, w) /\ Active(w)' = MovedTo(v, w)
         /\ \A x \in VaultId : x \notin {v, w} => Rows(x)' = Rows(x) /\ Active(x)' = Active(x)
<1>1. owner[v] = u /\ u # None /\ w \notin spent /\ Vaults \subseteq spent /\ owner \in [VaultId -> User \cup {None}]
  BY MembershipAssumption, Zenon DEF MigrateVault, Inv, TypeOK
<1>2. v \in Vaults /\ w \notin Vaults /\ v # w /\ owner[w] = None
  BY <1>1, Zenon DEF Vaults
<1>3. /\ owner' \in [VaultId -> User \cup {None}] /\ owner'[v] = None /\ owner'[w] = u
      /\ \A x \in VaultId : x \notin {v, w} => owner'[x] = owner[x]
  BY <1>1, <1>2, Zenon DEF MigrateVault
<1>4. Vaults' = (Vaults \ {v}) \cup {w}
  BY <1>1, <1>3, Zenon DEF Vaults
<1>5. ASSUME NEW m \in Active(v)
      PROVE  /\ MovedRow(m, w) \in Row /\ MovedRow(m, w).vault = w
             /\ MovedRow(m, w).id = m.id /\ MovedRow(m, w).user = m.user
             /\ MovedRow(m, w).revoked = Never
  <2>1. m \in Row /\ m.revoked = Never
    BY Zenon DEF Active, Rows, Inv, TypeOK
  <2> QED
    BY <2>1, Zenon DEF MovedRow, Row
<1>6. members' = (members \ Rows(v)) \cup MovedTo(v, w)
  BY Zenon DEF MigrateVault, Moved, MovedTo, MovedRow
<1>7. Rows(w) = {}
  BY <1>2, Zenon DEF Rows, Inv, TableVerifies
<1>8. \A n \in MovedTo(v, w) : n.vault = w /\ n.revoked = Never
  BY <1>5, Zenon DEF MovedTo
<1>9. Rows(v)' = {} /\ Rows(w)' = MovedTo(v, w)
  BY <1>2, <1>6, <1>7, <1>8 DEF Rows
<1>10. Active(v)' = {} /\ Active(w)' = MovedTo(v, w)
  BY <1>8, <1>9, Zenon DEF Active
<1>11. ASSUME NEW x \in VaultId, x \notin {v, w} PROVE Rows(x)' = Rows(x) /\ Active(x)' = Active(x)
  <2>1. Rows(x)' = Rows(x)
    BY <1>6, <1>8, <1>11, Zenon DEF Rows
  <2> QED
    BY <2>1, Zenon DEF Active
<1> QED
  BY <1>1, <1>2, <1>3, <1>4, <1>5, <1>6, <1>9, <1>10, <1>11, Zenon

\* The rows that move are as many as they were, or fewer.
LEMMA MovedCount ==
  ASSUME Inv, NEW v \in VaultId, NEW w \in VaultId
  PROVE  /\ IsFiniteSet(MovedTo(v, w)) /\ Cardinality(MovedTo(v, w)) \in Nat
         /\ Cardinality(MovedTo(v, w)) <= Cardinality(Active(v))
<1> DEFINE f == [m \in Active(v) |-> MovedRow(m, w)]
<1>1. f \in Surjection(Active(v), MovedTo(v, w))
  BY Zenon DEF Surjection, MovedTo
<1>2. IsFiniteSet(Active(v))
  BY RowsFinite, Zenon
<1> HIDE DEF f
<1>3. IsFiniteSet(MovedTo(v, w)) /\ Cardinality(MovedTo(v, w)) <= Cardinality(Active(v))
  BY <1>1, <1>2, FS_Surjection, Zenon
<1> QED
  BY <1>3, FS_CardinalityType, Zenon

LEMMA MigrateInv ==
  ASSUME Inv, NEW u \in User, NEW v \in VaultId, NEW w \in VaultId, MigrateVault(u, v, w)
  PROVE  Inv'
<1> DEFINE moved == MovedTo(v, w)
           kept  == members \ Rows(v)
<1>1. /\ v # w /\ owner[w] = None /\ owner' \in [VaultId -> User \cup {None}]
      /\ owner'[v] = None /\ owner'[w] = owner[v] /\ owner[v] # None
      /\ \A x \in VaultId : x \notin {v, w} => owner'[x] = owner[x]
      /\ Vaults' = (Vaults \ {v}) \cup {w} /\ v \in Vaults
      /\ members' = kept \cup moved
      /\ Rows(v)' = {} /\ Active(v)' = {} /\ Rows(w)' = moved /\ Active(w)' = moved
      /\ \A x \in VaultId : x \notin {v, w} => Rows(x)' = Rows(x) /\ Active(x)' = Active(x)
  BY MigrateRows
<1>2. UNCHANGED <<seq, active, granted>> /\ version3' = version3 \cup {w} /\ spent' = spent \cup {w}
  BY Zenon DEF MigrateVault
<1>3. \A n \in moved : \E m \in Active(v) :
        n = MovedRow(m, w) /\ n \in Row /\ n.vault = w /\ n.id = m.id /\ n.user = m.user
  BY MigrateRows DEF MovedTo
<1>4. /\ IsFiniteSet(moved) /\ Cardinality(moved) \in Nat
      /\ Cardinality(moved) <= Cardinality(Active(v))
  BY MovedCount, Zenon
<1>5. /\ IsFiniteSet(kept) /\ Cardinality(kept) = Cardinality(members) - Cardinality(Rows(v))
      /\ Cardinality(Rows(v)) \in Nat /\ Cardinality(members) \in Nat /\ Cardinality(kept) \in Nat
      /\ Cardinality(Active(v)) \in Nat /\ Cardinality(Active(v)) <= Cardinality(Rows(v))
  <2>1. Rows(v) \subseteq members
    BY RowsFinite, Zenon
  <2>2. IsFiniteSet(kept)
    BY FS_Difference, Zenon DEF Inv
  <2> QED
    BY <2>1, <2>2, RowsFinite, Smaller, FS_CardinalityType, Zenon DEF Inv
<1>6. \A m \in Active(v) : m \in members /\ m.vault = v
  BY Zenon DEF Active, Rows
<1>7. \A m \in kept : m \in members /\ m.vault \in VaultId \ {v, w}
  BY <1>1 DEF Rows, Inv, TypeOK, TableVerifies, Row
<1> HIDE DEF moved, kept
<1>8. TypeOK'
  <2>1. members' \subseteq Row
    BY <1>1, <1>3, <1>7, Zenon DEF Inv, TypeOK
  <2>2. version3' \subseteq spent' /\ spent' \subseteq VaultId /\ Vaults' \subseteq spent'
    BY <1>1, <1>2, Zenon DEF Inv, TypeOK
  <2> QED
    BY <1>1, <1>2, <2>1, <2>2, Zenon DEF Inv, TypeOK
<1>9. IsFiniteSet(members') /\ Cardinality(members') <= MaxMemberships
  <2>1. /\ IsFiniteSet(kept \cup moved)
        /\ Cardinality(kept \cup moved) = Cardinality(kept) + Cardinality(moved) - Cardinality(kept \cap moved)
    BY <1>4, <1>5, FS_Union, Zenon
  <2>2. Cardinality(kept \cap moved) \in Nat
    BY <1>4, FS_Intersection, FS_CardinalityType, Zenon
  <2>3. Cardinality(members) <= MaxMemberships
    BY Zenon DEF Inv, TableVerifies
  <2> QED
    BY <1>1, <1>4, <1>5, <2>1, <2>2, <2>3, MembershipAssumption
<1>10. Cardinality(Vaults') <= MaxVaults
  <2>1. IsFiniteSet(Vaults)
    BY MembershipAssumption, Smaller, Zenon DEF Vaults
  <2>2. /\ Cardinality((Vaults \ {v}) \cup {w}) <= Cardinality(Vaults) /\ Cardinality(Vaults) \in Nat
        /\ Cardinality((Vaults \ {v}) \cup {w}) \in Nat
    BY <1>1, <2>1, Replaced, Zenon
  <2>3. Cardinality(Vaults) <= MaxVaults
    BY Zenon DEF Inv, TableVerifies
  <2> QED
    BY <1>1, <2>2, <2>3, MembershipAssumption, SMTT(40)
<1>11. \A m \in members' : \E n \in members :
         m.id = n.id /\ m.user = n.user
  BY <1>1, <1>3, <1>6, <1>7, SMTT(40)
<1>12. TableVerifies'
  <2>1. \A m \in members' : owner'[m.vault] # None /\ m.user # owner'[m.vault] /\ m.id <= seq'
    <3> TAKE m \in members'
    <3>1. CASE m \in kept
      BY <1>1, <1>2, <1>7, <3>1, SMTT(40) DEF Inv, TableVerifies
    <3>2. CASE m \in moved
      BY <1>1, <1>2, <1>3, <1>6, <3>2 DEF Inv, TableVerifies
    <3> QED
      BY <1>1, <3>1, <3>2, Zenon
  <2>2. \A m, n \in members' : m.id = n.id => m = n
    <3> TAKE m, n \in members'
    <3> HAVE m.id = n.id
    <3>1. PICK a \in members : /\ m.id = a.id
                                  /\ \/ m \in kept /\ a = m
                                     \/ m = MovedRow(a, w) /\ a.vault = v
      BY <1>1, <1>3, <1>6, <1>7, SMTT(40)
    <3>2. PICK b \in members : /\ n.id = b.id
                                  /\ \/ n \in kept /\ b = n
                                     \/ n = MovedRow(b, w) /\ b.vault = v
      BY <1>1, <1>3, <1>6, <1>7, SMTT(40)
    <3>3. a = b
      BY <3>1, <3>2, Zenon DEF Inv, TableVerifies
    <3> QED
      BY <1>7, <3>1, <3>2, <3>3, Zenon
  <2>3. \A x \in VaultId : \A m, n \in Active(x)' : m.user = n.user => m = n
    <3> TAKE x \in VaultId
    <3>1. CASE x = w
      BY <1>1, <1>3, <3>1 DEF Inv, TableVerifies
    <3>2. CASE x # w
      BY <1>1, <3>2 DEF Inv, TableVerifies
    <3> QED
      BY <3>1, <3>2, Zenon
  <2>4. \A x \in VaultId : Cardinality(Active(x)') <= MaxActive
    <3> TAKE x \in VaultId
    <3>1. Cardinality({}) <= MaxActive /\ \A y \in VaultId : Cardinality(Active(y)) <= MaxActive
      BY FS_EmptySet, MembershipAssumption, SMTT(40) DEF Inv, TableVerifies
    <3>2. CASE x = w
      BY <1>1, <1>4, <1>5, <3>1, <3>2, MembershipAssumption
    <3>3. CASE x # w
      BY <1>1, <3>1, <3>3, Zenon
    <3> QED
      BY <3>2, <3>3, Zenon
  <2> QED
    BY <1>9, <1>10, <2>1, <2>2, <2>3, <2>4, Zenon DEF TableVerifies
<1>13. RowsBounded'
  <2> SUFFICES ASSUME NEW x \in VaultId PROVE Cardinality(Rows(x)') < MaxActive + MaxRevoked
    BY Zenon DEF RowsBounded
  <2>1. /\ Cardinality({}) < MaxActive + MaxRevoked
        /\ \A y \in VaultId : Cardinality(Rows(y)) < MaxActive + MaxRevoked
    BY FS_EmptySet, MembershipAssumption, SMTT(40) DEF Inv, RowsBounded
  <2>2. CASE x = w
    BY <1>1, <1>4, <1>5, <2>1, <2>2, MembershipAssumption
  <2>3. CASE x # w
    BY <1>1, <2>1, <2>3, Zenon
  <2> QED
    BY <2>2, <2>3, Zenon
<1>14. UidNamesOneGrant' /\ \A g \in granted' : g[1] <= seq'
  <2>1. \A m \in members' : \E g \in granted : g[1] = m.id /\ g[3] = m.user
    BY <1>11 DEF Inv, UidNamesOneGrant
  <2> QED
    BY <1>2, <2>1, Zenon DEF Inv, UidNamesOneGrant
<1> QED
  BY <1>8, <1>9, <1>12, <1>13, <1>14, SMTT(40) DEF Inv

-----------------------------------------------------------------------------
LEMMA NextInv == Inv /\ [Next]_vars => Inv'
<1> SUFFICES ASSUME Inv, [Next]_vars PROVE Inv'
  OBVIOUS
<1>1. CASE Next
  BY <1>1, StatusInv, CreateInv, InviteInv, RemoveInv, DeleteInv, MigrateInv, Zenon DEF Next
<1>2. CASE UNCHANGED vars
  <2>1. TypeOK' /\ Vaults' = Vaults
    BY <1>2, Zenon DEF vars, vaultRows, Inv, TypeOK, Vaults
  <2> QED
    BY <1>2, <2>1, SameRows, Zenon DEF vars, vaultRows, Inv, TableVerifies, Vaults
<1> QED
  BY <1>1, <1>2, Zenon

\* No handler breaks the inductive invariant of the table.
THEOREM Safe == Spec => []Inv
BY InitInv, NextInv, PTL DEF Spec

\* The rows, the sequence and the vaults have the types of their tables.
THEOREM TypeCorrect == Spec => []TypeOK
BY Safe, PTL DEF Inv

\* What verify_membership_invariants and the schema require of the table holds after
\* any invitations, removals, deletions and re-encryptions: the database is accepted at
\* the next start (but for the number of revoked rows of one vault, which the code does
\* not bound by the number it verifies).
THEOREM TableAlwaysVerifies == Spec => []TableVerifies
BY Safe, PTL DEF Inv

\* invite_collaborator_for_session prunes enough: active and revoked rows of a vault
\* together stay below the sum of the two limits, in whatever order rows are revoked and
\* however the clock runs.
THEOREM PruningIsEnough == Spec => []RowsBounded
BY Safe, PTL DEF Inv

\* A share UID names one grant for ever, although rows are pruned, cascade away and move.
THEOREM UidsAreUnique == Spec => []UidNamesOneGrant
BY Safe, PTL DEF Inv

-----------------------------------------------------------------------------
(* Rows that disappear.                                                    *)

Disappears(m) == \A n \in members' : n.id # m.id

\* An invitation never prunes an active row, nor the history of another vault; every
\* other row that disappears goes with its vault.
THEOREM PruningStaysLocal == Spec => PruningIsLocal
<1> DEFINE Local == \A m \in members : (\A n \in members' : n.id # m.id) =>
              \/ owner'[m.vault] = None
              \/ m.revoked # Never /\ \E n \in members' \ members : n.vault = m.vault /\ n.revoked = Never
<1>1. ASSUME Inv, [Next]_vars PROVE [Local]_vars
  <2> SUFFICES ASSUME Next PROVE Local
    BY <1>1, Zenon
  <2> SUFFICES ASSUME NEW m \in members, Disappears(m)
               PROVE  \/ owner'[m.vault] = None
                      \/ m.revoked # Never /\ \E n \in members' \ members : n.vault = m.vault /\ n.revoked = Never
    BY Zenon DEF Disappears
  <2>1. m \in Row /\ m.vault \in VaultId /\ m \notin members'
    BY <1>1, Zenon DEF Inv, TypeOK, Row, Disappears
  <2> USE <1>1
  <2>2. ASSUME NEW u \in User, NEW v \in VaultId, NEW t \in User, Invite(u, v, t)
        PROVE  m.revoked # Never /\ \E n \in members' \ members : n.vault = m.vault /\ n.revoked = Never
    <3>1. /\ members' = (members \ Pruned(v)) \cup {NewRow(v, t)} /\ NewRow(v, t) \notin members
          /\ Pruned(v) \subseteq Revoked(v)
      BY <2>2, InviteRows
    <3>2. m \in Revoked(v)
      BY <2>1, <3>1, Zenon
    <3>3. m.vault = v /\ m.revoked # Never
      BY <3>2, Zenon DEF Revoked, Active, Rows
    <3>4. NewRow(v, t).vault = v /\ NewRow(v, t).revoked = Never
      BY Zenon DEF NewRow
    <3> QED
      BY <3>1, <3>3, <3>4, Zenon
  <2>3. ASSUME NEW u \in User, NEW n \in members, NEW now \in Times, Remove(u, n, now) PROVE FALSE
    <3> DEFINE old == [n EXCEPT !.revoked = now]
    <3>1. members' = (members \ {n}) \cup {old} /\ old.id = n.id
      BY <2>3, RemoveRows, ZenonT(40)
    <3> HIDE DEF old
    <3> QED
      BY <2>1, <3>1, Zenon DEF Disappears
  <2>4. ASSUME NEW u \in User, NEW v \in VaultId, DeleteVault(u, v) PROVE owner'[m.vault] = None
    <3>1. members' = members \ Rows(v) /\ owner'[v] = None
      BY <2>4, DeleteRows, Zenon
    <3>2. m.vault = v
      BY <2>1, <3>1, Zenon DEF Rows
    <3> QED
      BY <3>1, <3>2, Zenon
  <2>5. ASSUME NEW u \in User, NEW v \in VaultId, NEW w \in VaultId, MigrateVault(u, v, w)
        PROVE  owner'[m.vault] = None
    <3>1. members' = (members \ Rows(v)) \cup MovedTo(v, w) /\ owner'[v] = None
      BY <2>5, MigrateRows
    <3>2. m.vault = v
      BY <2>1, <3>1, Zenon DEF Rows
    <3> QED
      BY <3>1, <3>2, Zenon
  <2>6. ASSUME UNCHANGED members PROVE FALSE
    BY <2>1, <2>6, Zenon
  <2> QED
    BY <2>2, <2>3, <2>4, <2>5, <2>6, ZenonT(40) DEF Next, SetStatus, CreateVault
<1> QED
  BY <1>1, Safe, PTL DEF Spec, PruningIsLocal

-----------------------------------------------------------------------------
(* The rows implement one access list per vault.                           *)

LEMMA CollabOf ==
  ASSUME NEW v \in VaultId
  PROVE  Collaborators[v] = {m.user : m \in Active(v)} /\ Collaborators'[v] = {m.user : m \in Active(v)'}
BY Zenon DEF Collaborators

\* There are no more collaborators than active rows.
LEMMA CollabCount ==
  ASSUME Inv, NEW v \in VaultId
  PROVE  Cardinality(Collaborators[v]) \in Nat /\ Cardinality(Collaborators[v]) <= Cardinality(Active(v))
<1> DEFINE C == {m.user : m \in Active(v)}
           f == [m \in Active(v) |-> m.user]
<1>1. f \in Surjection(Active(v), C)
  BY Zenon DEF Surjection
<1>2. IsFiniteSet(Active(v))
  BY RowsFinite, Zenon
<1>3. Collaborators[v] = C
  BY CollabOf, Zenon
<1> HIDE DEF f, C
<1>4. IsFiniteSet(C) /\ Cardinality(C) <= Cardinality(Active(v))
  BY <1>1, <1>2, FS_Surjection, Zenon
<1> QED
  BY <1>3, <1>4, FS_CardinalityType, Zenon

\* Rows that stay active for the same users leave the list as it is.
LEMMA SameCollab ==
  ASSUME NEW v \in VaultId, Active(v)' = Active(v)
  PROVE  Collaborators'[v] = Collaborators[v]
BY CollabOf, Zenon

LEMMA InitACL == Init => ACL!Init
<1> SUFFICES ASSUME Init PROVE ACL!Init
  OBVIOUS
<1>1. \A v \in VaultId : Active(v) = {}
  BY Zenon DEF Init, Active, Rows
<1> QED
  BY <1>1, Zenon DEF Init, ACL!Init, Collaborators

LEMMA InviteGrants ==
  ASSUME Inv, NEW u \in User, NEW v \in VaultId, NEW t \in User, Invite(u, v, t)
  PROVE  ACL!Grant(v, t)
<1>1. /\ Active(v)' = Active(v) \cup {NewRow(v, t)}
      /\ \A w \in VaultId : w # v => Active(w)' = Active(w)
  BY InviteRows
<1>2. NewRow(v, t).user = t
  BY Zenon DEF NewRow
<1>3. /\ owner[v] = u /\ u # None /\ t # u /\ UNCHANGED owner /\ Cardinality(Active(v)) < MaxActive
      /\ \A m \in Active(v) : m.user # t
  BY MembershipAssumption, Zenon DEF Invite, CanInvite, vaultRows
<1>4. t \notin Collaborators[v] /\ v \in ACL!Vaults
  BY <1>3, CollabOf, SMTT(40) DEF ACL!Vaults
<1>5. Cardinality(Collaborators[v]) < MaxActive
  BY <1>3, CollabCount, RowsFinite, MembershipAssumption, SMTT(40)
<1>6. Collaborators'[v] = Collaborators[v] \cup {t}
  BY <1>1, <1>2, CollabOf
<1>7. \A w \in VaultId : w # v => Collaborators'[w] = Collaborators[w]
  BY <1>1, SameCollab, Zenon
<1>8. Collaborators' = [Collaborators EXCEPT ![v] = @ \cup {t}]
  BY <1>6, <1>7, Zenon DEF Collaborators
<1>9. ACL!Cardinality(Collaborators[v]) = Cardinality(Collaborators[v])
  BY Zenon DEF ACL!Cardinality, Cardinality
<1> QED
  BY <1>3, <1>4, <1>5, <1>8, <1>9 DEF ACL!Grant

LEMMA RemoveRevokes ==
  ASSUME Inv, NEW u \in User, NEW m \in members, NEW now \in Times, Remove(u, m, now)
  PROVE  m.vault \in VaultId /\ m.user \in User /\ ACL!Revoke(m.vault, m.user)
<1> DEFINE v == m.vault
<1>1. /\ v \in VaultId /\ m \in Active(v) /\ Active(v)' = Active(v) \ {m}
      /\ \A w \in VaultId : w # v => Active(w)' = Active(w)
  BY RemoveRows, Zenon
<1>2. m.user \in User /\ UNCHANGED owner
  BY Zenon DEF Inv, TypeOK, Row, Remove, vaultRows
<1> HIDE DEF v
<1>3. \A n \in Active(v) : n.user = m.user => n = m
  BY <1>1, Zenon DEF Inv, TableVerifies
<1>4. m.user \in Collaborators[v] /\ Collaborators'[v] = Collaborators[v] \ {m.user}
  BY <1>1, <1>3, CollabOf
<1>5. \A w \in VaultId : w # v => Collaborators'[w] = Collaborators[w]
  BY <1>1, SameCollab, Zenon
<1>6. Collaborators' = [Collaborators EXCEPT ![v] = @ \ {m.user}]
  BY <1>4, <1>5, Zenon DEF Collaborators
<1> QED
  BY <1>1, <1>2, <1>4, <1>6 DEF ACL!Revoke, v

LEMMA DeleteDeletes ==
  ASSUME Inv, NEW u \in User, NEW v \in VaultId, DeleteVault(u, v)
  PROVE  ACL!Delete(v)
<1>1. Active(v)' = {} /\ \A w \in VaultId : w # v => Active(w)' = Active(w)
  BY DeleteRows, Zenon
<1>2. Collaborators'[v] = {} /\ \A w \in VaultId : w # v => Collaborators'[w] = Collaborators[w]
  BY <1>1, CollabOf, SameCollab, Zenon
<1>3. Collaborators' = [Collaborators EXCEPT ![v] = {}]
  BY <1>2, Zenon DEF Collaborators
<1>4. v \in ACL!Vaults /\ owner' = [owner EXCEPT ![v] = None]
  BY MembershipAssumption, Zenon DEF ACL!Vaults, DeleteVault
<1> QED
  BY <1>3, <1>4, Zenon DEF ACL!Delete

LEMMA MigrateMoves ==
  ASSUME Inv, NEW u \in User, NEW v \in VaultId, NEW w \in VaultId, MigrateVault(u, v, w)
  PROVE  ACL!Move(v, w)
<1>1. /\ v # w /\ owner[w] = None /\ owner[v] = u /\ u # None
      /\ Active(v)' = {} /\ Active(w)' = MovedTo(v, w)
      /\ \A x \in VaultId : x \notin {v, w} => Active(x)' = Active(x)
      /\ \A m \in Active(v) : MovedRow(m, w).user = m.user
  BY MigrateRows
<1>2. Collaborators'[w] = Collaborators[v]
  <2>1. {n.user : n \in MovedTo(v, w)} = {MovedRow(m, w).user : m \in Active(v)}
    BY Zenon DEF MovedTo
  <2>2. {MovedRow(m, w).user : m \in Active(v)} = {m.user : m \in Active(v)}
    BY <1>1, Zenon
  <2> QED
    BY <1>1, <2>1, <2>2, CollabOf, ZenonT(40)
<1>3. Collaborators'[v] = {} /\ \A x \in VaultId : x \notin {v, w} => Collaborators'[x] = Collaborators[x]
  BY <1>1, CollabOf, SameCollab, Zenon
<1>4. Collaborators' = [Collaborators EXCEPT ![w] = Collaborators[v], ![v] = {}]
  BY <1>1, <1>2, <1>3, Zenon DEF Collaborators
<1>5. owner' = [owner EXCEPT ![w] = owner[v], ![v] = None] /\ v \in ACL!Vaults
  BY <1>1, Zenon DEF MigrateVault, ACL!Vaults
<1> QED
  BY <1>1, <1>4, <1>5, Zenon DEF ACL!Move

LEMMA CreateCreates ==
  ASSUME Inv, NEW u \in User, NEW v \in VaultId, NEW new \in BOOLEAN, CreateVault(u, v, new)
  PROVE  ACL!Create(v, u)
<1>1. owner[v] = None /\ owner' = [owner EXCEPT ![v] = u] /\ UNCHANGED members
  BY Zenon DEF CreateVault, Inv, TypeOK, Vaults
<1>2. Collaborators' = Collaborators
  BY <1>1, Zenon DEF Collaborators, Active, Rows
<1> QED
  BY <1>1, <1>2, Zenon DEF ACL!Create

\* Whatever rows come, go, age and move, the users of a vault see one access list:
\* collaborators are added by an invitation, leave by a removal, disappear with the
\* vault, and all follow a vault that is re-encrypted.
THEOREM RowsImplementACL == Spec => ImplementsACL
<1>1. ASSUME Inv, [Next]_vars PROVE [ACL!Next]_(ACL!vars)
  <2> USE <1>1
  <2>1. ASSUME UNCHANGED <<owner, members>> PROVE UNCHANGED ACL!vars
    BY <2>1, Zenon DEF ACL!vars, Collaborators, Active, Rows
  <2>2. CASE UNCHANGED vars
    BY <2>1, <2>2, Zenon DEF vars, vaultRows
  <2>3. ASSUME NEW u \in User, SetStatus(u) PROVE UNCHANGED ACL!vars
    BY <2>1, <2>3, Zenon DEF SetStatus, vaultRows
  <2>4. ASSUME NEW u \in User, NEW v \in VaultId,
               \/ \E new \in BOOLEAN : CreateVault(u, v, new)
               \/ \E t \in User : Invite(u, v, t)
               \/ DeleteVault(u, v)
               \/ \E w \in VaultId : MigrateVault(u, v, w)
        PROVE  ACL!Next
    BY <2>4, CreateCreates, InviteGrants, DeleteDeletes, MigrateMoves, Zenon DEF ACL!Next
  <2>5. ASSUME NEW u \in User, NEW m \in members, NEW now \in Times, Remove(u, m, now)
        PROVE  ACL!Next
    BY <2>5, RemoveRevokes, Zenon DEF ACL!Next
  <2>6. CASE Next
    BY <2>3, <2>4, <2>5, <2>6, Zenon DEF Next
  <2> QED
    BY <2>2, <2>6, Zenon
<1> QED
  BY <1>1, InitACL, Safe, PTL DEF Spec, ImplementsACL, ACL!Spec
=============================================================================
