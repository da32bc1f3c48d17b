----------------------------- MODULE Memberships -----------------------------
(***************************************************************************)
(* Vault sharing (apps/server-rust/src/db.rs, src/server.rs): the          *)
(* memberships table, its share UIDs and row limits, under invitation,     *)
(* removal, vault deletion and re-encryption.  Each handler ends in one    *)
(* IMMEDIATE transaction that authorises the acting user again; that       *)
(* transaction is the action.  The owner share_remove looks up beforehand  *)
(* never changes for a vault identity, so the lookup is part of it.        *)
(***************************************************************************)
EXTENDS Naturals, FiniteSets

CONSTANTS
  VaultId,         \* vault identities, issued once each
  User,            \* accounts
  Sharing,         \* owners for whom sharing_allowed_for_owner
  MaxVaults,       \* MAX_VAULTS
  MaxActive,       \* MAX_ACTIVE_COLLABORATORS_PER_VAULT
  MaxRevoked,      \* MAX_REVOKED_MEMBERSHIPS_PER_VAULT
  MaxMemberships,  \* MAX_MEMBERSHIPS
  MaxSeq,          \* MAX_JS_SAFE_INTEGER, the last share UID
  Times,           \* readings of the clock, in any order
  None,            \* no vault under this identity
  Never            \* revoked_at IS NULL

ASSUME MembershipAssumption ==
  /\ IsFiniteSet(VaultId) /\ IsFiniteSet(User) /\ None \notin User
  /\ Times \subseteq Nat /\ Never \notin Nat
  /\ MaxActive \in Nat /\ MaxRevoked \in Nat \ {0}
  /\ MaxMemberships \in Nat /\ MaxSeq \in Nat /\ MaxVaults \in Nat

VARIABLES
  owner,    \* vaults.owner_user_id, None where there is no row
  version3, \* the vaults whose encryption_version is 3
  spent,    \* identities issued so far
  members,  \* the rows of memberships
  seq,      \* sqlite_sequence of memberships
  active,   \* users whose account is active and whose session authorises them
  granted   \* history: every (share UID, vault of the invitation, user) issued

vaultRows == <<owner, version3, spent>>
vars == <<vaultRows, members, seq, active, granted>>

Row == [id : 1..MaxSeq, vault : VaultId, user : User, revoked : Times \cup {Never}]

Vaults      == {v \in VaultId : owner[v] # None}
Rows(v)     == {m \in members : m.vault = v}
Active(v)   == {m \in Rows(v) : m.revoked = Never}
Revoked(v)  == Rows(v) \ Active(v)

-----------------------------------------------------------------------------
Init ==
  /\ owner = [v \in VaultId |-> None] /\ version3 = {} /\ spent = {}
  /\ members = {} /\ seq = 0 /\ granted = {}
  /\ active = User

\* An account is disabled or its sessions end; it is activated, and signs in.
SetStatus(u) ==
  /\ active' = IF u \in active THEN active \ {u} ELSE active \cup {u}
  /\ UNCHANGED <<vaultRows, members, seq, granted>>

\* create_vault_internal.  The owner's count never exceeds the count of all
\* vaults, so the second limit of the code follows from the first.
CreateVault(u, v, new) ==
  /\ u \in active /\ v \notin spent
  /\ Cardinality(Vaults) < MaxVaults
  /\ owner' = [owner EXCEPT ![v] = u]
  /\ version3' = IF new THEN version3 \cup {v} ELSE version3
  /\ spent' = spent \cup {v}
  /\ UNCHANGED <<members, seq, active, granted>>

\* ORDER BY revoked_at, id
Older(x, y) == x.revoked < y.revoked \/ (x.revoked = y.revoked /\ x.id < y.id)

\* Faulty: one row too many is kept.
Pruned_OneMore(v) ==
  {m \in Revoked(v) :
     Cardinality({x \in Revoked(v) : Older(x, m)}) + MaxRevoked < Cardinality(Revoked(v))}

\* The rows the DELETE of an invitation selects: the oldest revoked rows of the
\* vault, so that MaxRevoked - 1 are left.
Pruned(v) ==
  {m \in Revoked(v) :
     Cardinality({x \in Revoked(v) : Older(x, m)}) + MaxRevoked < Cardinality(Revoked(v)) + 1}

\* Faulty: a plain rowid, one more than the largest in the table.
NextId_Rowid == CHOOSE i \in 1..(MaxSeq + 1) :
  /\ \A m \in members : m.id < i
  /\ i = 1 \/ \E m \in members : m.id = i - 1

\* AUTOINCREMENT
NextId == seq + 1

\* The sequence has a UID left that JavaScript represents exactly.
SeqLeft == seq < MaxSeq

\* Faulty: the owner may invite themselves.
CanInvite_Self(u, v, t) == u \in active /\ owner[v] = u /\ u \in Sharing /\ t \in active

\* Who may be invited to which vault by whom.
CanInvite(u, v, t) ==
  /\ u \in active /\ owner[v] = u /\ u \in Sharing
  /\ t \in active /\ t # u

\* invite_collaborator_for_session inserts a row; every refusal rolls the
\* pruning back.  Inviting an active collaborator again changes nothing.
Invite(u, v, t) ==
  /\ CanInvite(u, v, t)
  /\ \A m \in Active(v) : m.user # t
  /\ Cardinality(Active(v)) < MaxActive
  /\ Cardinality(members \ Pruned(v)) < MaxMemberships
  /\ SeqLeft
  /\ members' = (members \ Pruned(v)) \cup
                  {[id |-> NextId, vault |-> v, user |-> t, revoked |-> Never]}
  /\ seq' = IF NextId > seq THEN NextId ELSE seq
  /\ granted' = granted \cup {<<NextId, v, t>>}
  /\ UNCHANGED <<vaultRows, active>>

\* remove_collaborator_for_session: by the owner, or by the collaborator.
Remove(u, m, now) ==
  /\ u \in active /\ m \in Active(m.vault)
  /\ owner[m.vault] \in Sharing /\ u \in {owner[m.vault], m.user}
  /\ members' = (members \ {m}) \cup {[m EXCEPT !.revoked = now]}
  /\ UNCHANGED <<vaultRows, seq, active, granted>>

\* delete_vault_internal: the rows of the vault cascade.
DeleteVault(u, v) ==
  /\ u \in active /\ owner[v] = u
  /\ owner' = [owner EXCEPT ![v] = None]
  /\ members' = members \ Rows(v)
  /\ UNCHANGED <<version3, spent, seq, active, granted>>

\* Faulty: the rows stay with the source and cascade away with it.
Moved_None(v, w) == members \ Rows(v)

\* UPDATE memberships SET vault_id, then the deletion of the source.
Moved(v, w) == (members \ Rows(v)) \cup {[m EXCEPT !.vault = w] : m \in Active(v)}

\* migrate_vault: the source is replaced by a vault of version 3.
MigrateVault(u, v, w) ==
  /\ u \in active /\ owner[v] = u /\ v \notin version3 /\ w \notin spent
  /\ owner' = [owner EXCEPT ![w] = u, ![v] = None]
  /\ version3' = version3 \cup {w} /\ spent' = spent \cup {w}
  /\ members' = Moved(v, w)
  /\ UNCHANGED <<seq, active, granted>>

Next ==
  \E u \in User :
    \/ SetStatus(u)
    \/ \E v \in VaultId :
         \/ \E new \in BOOLEAN : CreateVault(u, v, new)
         \/ \E t \in User : Invite(u, v, t)
         \/ DeleteVault(u, v)
         \/ \E w \in VaultId : MigrateVault(u, v, w)
    \/ \E m \in members, now \in Times : Remove(u, m, now)

Spec == Init /\ [][Next]_vars

-----------------------------------------------------------------------------
TypeOK ==
  /\ owner \in [VaultId -> User \cup {None}]
  /\ version3 \subseteq spent /\ spent \subseteq VaultId /\ Vaults \subseteq spent
  /\ members \subseteq Row
  /\ seq \in 0..MaxSeq /\ active \subseteq User
  /\ granted \subseteq (1..MaxSeq) \X VaultId \X User

\* What verify_membership_invariants and the schema require of the table,
\* except the number of revoked rows: no owner is their own collaborator, one
\* active row for a vault and a user, no row without its vault, no more rows
\* than the limits, and no share UID beyond the sequence.  A database that
\* breaks one of these is refused at the next start.
TableVerifies ==
  /\ \A m \in members : owner[m.vault] # None /\ m.user # owner[m.vault] /\ m.id <= seq
  /\ \A m, n \in members : m.id = n.id => m = n
  /\ \A v \in VaultId : \A m, n \in Active(v) : m.user = n.user => m = n
  /\ Cardinality(members) <= MaxMemberships
  /\ \A v \in VaultId : Cardinality(Active(v)) <= MaxActive
  /\ Cardinality(Vaults) <= MaxVaults

\* verify_membership_invariants also requires at most MaxRevoked revoked rows
\* in a vault.
RevokedVerifies == \A v \in VaultId : Cardinality(Revoked(v)) <= MaxRevoked

\* Pruning happens at invitations only.  It keeps the rows of a vault, active
\* and revoked together, below the sum of the two limits, whatever order
\* removals, invitations, re-encryption and clock changes come in.
RowsBounded == \A v \in VaultId : Cardinality(Rows(v)) < MaxActive + MaxRevoked

\* A share UID names one grant for ever: no later invitation, to whatever vault
\* or user, gets a UID issued before, even when its row was pruned or cascaded
\* away; and the row of a UID keeps its user.  A late removal cannot hit
\* somebody else's grant.
UidNamesOneGrant ==
  /\ \A g, h \in granted : g[1] = h[1] => g = h
  /\ \A m \in members : \E g \in granted : g[1] = m.id /\ g[3] = m.user

\* Rows disappear with their vault, or as the revoked rows of a vault whose
\* owner is inviting someone: an invitation never prunes an active row, nor the
\* history of another vault.
PruningIsLocal ==
  [][\A m \in members : (\A n \in members' : n.id # m.id) =>
       \/ owner'[m.vault] = None
       \/ m.revoked # Never /\ \E n \in members' \ members : n.vault = m.vault /\ n.revoked = Never]_vars

\* The rows implement one access list per vault.
Collaborators == [v \in VaultId |-> {m.user : m \in Active(v)}]
ACL == INSTANCE SharingACL WITH collab <- Collaborators
ImplementsACL == ACL!Spec
=============================================================================
