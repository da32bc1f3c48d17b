-------------------------------- MODULE Vaults --------------------------------
(***************************************************************************)
(* The life of a vault (apps/server-rust/src/server.rs, db.rs): creation,  *)
(* access with the binding of a managed vault's key, rename, re-encryption *)
(* into a new vault, deletion, and the markers of retired identities.      *)
(* Access and re-encryption take several steps.  A request whose client    *)
(* goes away gives commit_order back at once, while its transaction, which *)
(* runs on a blocking thread, still commits.                               *)
(***************************************************************************)
EXTENDS Naturals, FiniteSets, Functions

CONSTANTS
  User,
  Collaborator,        \* users who are members of every vault
  VaultId,             \* identities, ordered
  Key, Name, Req,
  MaxVaults,           \* MAX_VAULTS
  MaxRetired,          \* MAX_RETIRED_VAULTS
  MaxRetiredPerOwner,  \* MAX_RETIRED_VAULTS_PER_OWNER
  Times                \* readings of the clock, in any order

NoKey == "none"

ASSUME VaultAssumption ==
  /\ Collaborator \subseteq User /\ VaultId \subseteq Nat /\ IsFiniteSet(VaultId)
  /\ NoKey \notin Key /\ Times \subseteq Nat
  /\ MaxVaults \in Nat /\ MaxRetired \in Nat /\ MaxRetiredPerOwner \in Nat \ {0}

VARIABLES
  vaults,     \* the rows of vaults by identity, with the history of each:
              \* the keys it was accessed with, the names a client may expect
              \* it to have, and whether a dropped request created it
  retired,    \* the rows of retired_vaults
  order,      \* the requests that hold commit_order
  req         \* where each request stands

vars == <<vaults, retired, order, req>>

None == [owner |-> "none"]
Idle == [kind |-> "idle"]

Existing  == {v \in VaultId : vaults[v] # None}
Owned(u)  == {v \in Existing : vaults[v].owner = u}
Markers(u) == {m \in retired : m.owner = u}

\* A new UUID is none that anything still refers to.
Fresh == VaultId \ (Existing \cup {m.id : m \in retired}
                     \cup {req[r].vault : r \in {q \in Req : req[q] # Idle}})

\* vault_access
MayAccess(u, v) == v \in Existing /\ (vaults[v].owner = u \/ u \in Collaborator)

Init ==
  /\ vaults = [v \in VaultId |-> None] /\ retired = {} /\ order = {}
  /\ req = [r \in Req |-> Idle]

\* vault_credentials: the client's key, or none yet for a managed vault.
Credentials == {[managed |-> FALSE, keyhash |-> k] : k \in Key}
                 \cup {[managed |-> TRUE, keyhash |-> NoKey]}

Row(u, c, encryption, n, said, orphan) ==
  [owner |-> u, managed |-> c.managed, keyhash |-> c.keyhash, version |-> encryption, name |-> n,
   presented |-> {}, said |-> said, orphan |-> orphan]

\* create_vault
CreateVault(u, v, c, encryption, n) ==
  /\ v \in Fresh /\ Cardinality(Existing) < MaxVaults
  /\ vaults' = [vaults EXCEPT ![v] = Row(u, c, encryption, n, {n}, FALSE)]
  /\ UNCHANGED <<retired, order, req>>

-----------------------------------------------------------------------------
(* Access.                                                                 *)

\* access_vault reads the row; an unbound managed vault needs another step.
AccessVault(r, u, v, k) ==
  /\ req[r] = Idle /\ MayAccess(u, v)
  /\ IF vaults[v].managed /\ vaults[v].keyhash = NoKey
     THEN /\ req' = [req EXCEPT ![r] = [kind |-> "bind", user |-> u, vault |-> v, key |-> k]]
          /\ UNCHANGED vaults
     ELSE /\ vaults[v].keyhash = k /\ vaults' = [vaults EXCEPT ![v].presented = @ \cup {k}]
          /\ UNCHANGED req
  /\ UNCHANGED <<retired, order>>

\* Faulty: the last of two devices decides.
Bound_Last(u, v, k) == IF v \in Owned(u) THEN k ELSE NoKey

\* The UPDATE and the SELECT of bind_managed_keyhash_for_session.
Bound(u, v, k) ==
  IF v \notin Owned(u) THEN NoKey
  ELSE IF vaults[v].managed /\ vaults[v].keyhash = NoKey THEN k ELSE vaults[v].keyhash

\* bind_managed_keyhash_for_session, and the comparison with its result.
BindKey(r) ==
  /\ req[r].kind = "bind"
  /\ LET q == req[r]  stored == Bound(q.user, q.vault, q.key) IN
       /\ vaults' = IF stored = NoKey THEN vaults
                    ELSE [vaults EXCEPT ![q.vault].keyhash = stored,
                                        ![q.vault].presented = @ \cup ({stored} \cap {q.key})]
  /\ req' = [req EXCEPT ![r] = Idle] /\ UNCHANGED <<retired, order>>

-----------------------------------------------------------------------------
(* Retirement.                                                             *)

Newer(a, b) == a.at > b.at \/ (a.at = b.at /\ a.id > b.id)

\* The n newest of the markers M.
Newest(M, n) == {m \in M : Cardinality({o \in M : Newer(o, m)}) < n}

\* Faulty: one marker too many is kept.
Kept_Full(u) == (retired \ Markers(u)) \cup Newest(Markers(u), MaxRetiredPerOwner)

\* What the DELETE of retire_vault_identity leaves.
Kept(u) == (retired \ Markers(u)) \cup Newest(Markers(u), MaxRetiredPerOwner - 1)

HasRoom(u) == Cardinality(Kept(u)) < MaxRetired

\* Faulty: the markers are trimmed after the new one is there.
Retire_Trimmed(v, now) ==
  LET u == vaults[v].owner IN
    /\ HasRoom(u)
    /\ retired' = (retired \ Markers(u))
                    \cup Newest(Markers(u) \cup {[id |-> v, owner |-> u, at |-> now]}, MaxRetiredPerOwner)

\* retire_vault_identity; without room the whole transaction fails.
Retire(v, now) ==
  LET u == vaults[v].owner IN
    /\ HasRoom(u)
    /\ retired' = Kept(u) \cup {[id |-> v, owner |-> u, at |-> now]}

\* delete_vault.  It waits for commit_order, but a dropped request commits
\* whoever holds it.
DeleteVault(u, v, now) ==
  /\ v \in Owned(u) /\ Retire(v, now)
  /\ vaults' = [vaults EXCEPT ![v] = None]
  /\ UNCHANGED <<order, req>>

\* rotate_recovery_epoch, run on a copy while no server does: every vault is
\* copied under a new identity and its old one retired, in one transaction.
RotateEpoch(new, now) ==
  LET gone(u) == Cardinality(Owned(u))
      kept    == UNION {IF gone(u) = 0 THEN Markers(u)
                        ELSE Newest(Markers(u), MaxRetiredPerOwner - gone(u)) : u \in User}
  IN  /\ \A r \in Req : req[r] = Idle
      /\ \A u \in User : gone(u) <= MaxRetiredPerOwner
      /\ Cardinality(kept) + Cardinality(Existing) <= MaxRetired
      /\ retired' = kept \cup {[id |-> v, owner |-> vaults[v].owner, at |-> now] : v \in Existing}
      /\ vaults' = [w \in VaultId |->
                      LET old == {v \in Existing : new[v] = w} IN
                        IF old = {} THEN None ELSE vaults[CHOOSE v \in old : TRUE]]
      /\ UNCHANGED <<order, req>>

-----------------------------------------------------------------------------
(* Rename and re-encryption.                                               *)

\* Faulty: the rename does not wait for commit_order.
RenameVault_Unordered(u, v, n, answered) ==
  /\ v \in Owned(u) /\ vaults' = [vaults EXCEPT ![v].name = n,
                             ![v].said = IF answered THEN {n} ELSE @ \cup {n}]
  /\ UNCHANGED <<retired, order, req>>

\* rename_vault, answered within commit_order or dropped.
RenameVault(u, v, n, answered) ==
  /\ v \in Owned(u) /\ (answered => order = {})
  /\ vaults' = [vaults EXCEPT ![v].name = n,
                             ![v].said = IF answered THEN {n} ELSE @ \cup {n}]
  /\ UNCHANGED <<retired, order, req>>

\* migrate_vault takes commit_order and reads the source ...
MigrateVault(r, u, v) ==
  /\ req[r] = Idle /\ order = {} /\ v \in Owned(u) /\ vaults[v].version < 3
  /\ order' = order \cup {r}
  /\ req' = [req EXCEPT ![r] =
       [kind |-> "migrate", user |-> u, vault |-> v, name |-> vaults[v].name]]
  /\ UNCHANGED <<vaults, retired>>

\* ... the client goes, and commit_order is free ...
DropRequest(r) ==
  /\ r \in order /\ order' = {}
  /\ UNCHANGED <<vaults, retired, req>>

Said(v) == IF v \in Existing THEN vaults[v].said ELSE Name

\* The source still exists when the transaction runs.
Source(q) == q.vault \in Owned(q.user)

\* ... and the transaction replaces the source by a new, empty vault.
CommitMigration(r, w, c, now) ==
  /\ req[r].kind = "migrate"
  /\ LET q == req[r] IN
       IF Source(q)
       THEN /\ w \in Fresh
            /\ IF q.vault \in Existing THEN Retire(q.vault, now) ELSE UNCHANGED retired
            /\ vaults' = [vaults EXCEPT ![w] = Row(q.user, c, 3, q.name, Said(q.vault), r \notin order),
                                        ![q.vault] = None]
       ELSE UNCHANGED <<vaults, retired>>
  /\ order' = order \ {r} /\ req' = [req EXCEPT ![r] = Idle]

\* A transaction that fails (a withdrawn session, no room for a marker, an
\* error of the database) or never began.
FailRequest(r) ==
  /\ req[r] # Idle
  /\ order' = order \ {r} /\ req' = [req EXCEPT ![r] = Idle]
  /\ UNCHANGED <<vaults, retired>>

Next ==
  \/ \E u \in User, v \in VaultId, c \in Credentials, encryption \in {2, 3}, n \in Name :
       CreateVault(u, v, c, encryption, n)
  \/ \E u \in User, v \in VaultId, now \in Times : DeleteVault(u, v, now)
  \/ \E u \in User, v \in VaultId, n \in Name, answered \in BOOLEAN :
       RenameVault(u, v, n, answered)
  \/ \E new \in Injection(Existing, Fresh), now \in Times : RotateEpoch(new, now)
  \/ \E r \in Req :
       \/ \E u \in User, v \in VaultId :
            MigrateVault(r, u, v) \/ \E k \in Key : AccessVault(r, u, v, k)
       \/ BindKey(r) \/ DropRequest(r) \/ FailRequest(r)
       \/ \E w \in VaultId, c \in Credentials, now \in Times : CommitMigration(r, w, c, now)

Spec == Init /\ [][Next]_vars

-----------------------------------------------------------------------------
Vault ==
  [owner : User, managed : BOOLEAN, keyhash : Key \cup {NoKey}, version : 2..3, name : Name,
   presented : SUBSET Key, said : SUBSET Name, orphan : BOOLEAN]

Request ==
  {Idle} \cup [kind : {"bind"}, user : User, vault : VaultId, key : Key]
         \cup [kind : {"migrate"}, user : User, vault : VaultId, name : Name]

TypeOK ==
  /\ vaults \in [VaultId -> {None} \cup Vault]
  /\ retired \subseteq [id : VaultId, owner : User, at : Times]
  /\ req \in [Req -> Request]
  /\ order \subseteq Req /\ (\A r, s \in order : r = s)
  /\ \A r \in order : req[r].kind = "migrate"

\* All devices that were ever let into a vault presented one and the same key,
\* the stored one, also when two of them race to bind a managed vault.
KeyAgreement ==
  \A v \in Existing : vaults[v].presented \subseteq {vaults[v].keyhash}

\* A re-encryption keeps the name that was last confirmed, since it reads the
\* name and commits within commit_order; only one whose client went away in
\* between can bring an older name back.
NameKept == \A v \in Existing : vaults[v].orphan \/ vaults[v].name \in vaults[v].said

\* verify_logical_invariants on retired_vaults: the markers keep both limits
\* whatever the clock says, and no identity is both active and retired.
RetiredVerifies ==
  /\ Cardinality(retired) <= MaxRetired
  /\ \A u \in User : Cardinality(Markers(u)) <= MaxRetiredPerOwner
  /\ \A m \in retired : m.id \notin Existing

\* The identity of a vault that goes is remembered although the clock was set
\* back and its marker is the oldest, and no marker of another owner pays for it.
GoneIsRemembered ==
  [][\A v \in Existing \ Existing' :
       /\ \E m \in retired' : m.id = v
       /\ \A m \in retired \ retired' :
            \E w \in Existing \ Existing' : m.owner = vaults[w].owner]_vars
=============================================================================
