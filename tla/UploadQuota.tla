------------------------------ MODULE UploadQuota ------------------------------
(***************************************************************************)
(* Admission, staging and commit of file uploads against the server's and  *)
(* the vault owner's storage quota (apps/server-rust/src/server.rs,        *)
(* src/db.rs).  An upload reserves its declared size under commit_order    *)
(* before its first piece, and gives the reservation back under the same   *)
(* lock once its revision counts as stored; restore, purge and vault       *)
(* deletion compete for the same bytes.  A restart may change the quotas.  *)
(***************************************************************************)
EXTENDS Integers, FiniteSets

CONSTANTS
  Conn,            \* data-plane connections
  User,            \* accounts, as uploaders and as vault owners
  ActingUser,      \* the user of each connection
  VaultOwner,      \* Session.vault_owner_user_id of each connection
  MaxUploads,      \* max_concurrent_uploads
  MaxUserUploads,  \* max_concurrent_uploads_per_user
  PieceSize,       \* PIECE_SIZE
  Sizes,           \* bound of the model: declared sizes
  GlobalQuotas,    \* bound of the model: values of storage_quota_bytes
  OwnerQuotas,     \* bound of the model: values of storage_quota_bytes_per_owner
  None             \* no lock holder

ASSUME QuotaAssumption ==
  /\ IsFiniteSet(Conn) /\ IsFiniteSet(User) /\ None \notin Conn
  /\ ActingUser \in [Conn -> User] /\ VaultOwner \in [Conn -> User]
  /\ MaxUploads \in Nat \ {0} /\ MaxUserUploads \in Nat \ {0}
  /\ PieceSize \in Nat \ {0}
  /\ Sizes \subseteq Nat \ {0}
  /\ GlobalQuotas \subseteq Nat \ {0} /\ OwnerQuotas \subseteq Nat \ {0}

VARIABLES
  total,       \* temp.blackglass_runtime_storage_usage.ciphertext_bytes
  used,        \* bytes of the revisions stored in each owner's vaults
  globalQuota, ownerQuota,   \* the running configuration
  globalBytes, ownerBytes,   \* StorageReservationState
  commitOrder, \* holder of AppState.commit_order, or None
  pc,          \* where the connection's task stands
  size,        \* declared size of the upload
  pieces, bytes,  \* Pending.pieces, Pending.bytes
  held,        \* bytes of the connection's StorageReservation
  read,        \* what was read before acting: committed bytes, or quotas left
  outcome,     \* what the transaction of the upload came to
  copying      \* size of the revision the connection restores, or 0

stored  == <<total, used>>
quotas  == <<globalQuota, ownerQuota>>
reserve == <<globalBytes, ownerBytes, held>>
upload  == <<size, pieces, bytes>>
vars == <<stored, quotas, reserve, commitOrder, pc, upload, read, outcome, copying>>

-----------------------------------------------------------------------------
\* The sum of f over its domain: its bytes, counted one by one.
SumOf(f) == Cardinality(UNION {{x} \X (1..f[x]) : x \in DOMAIN f})

\* Phases in which a task owns an upload permit, its user's upload permit, a
\* staged file.
SlotPhases == {"admit", "reserve", "upload", "commit", "stored", "remove", "reply"}
UserPhases == SlotPhases \cup {"discard"}
FilePhases == {"upload", "commit", "stored", "remove", "discard"}
Phase      == UserPhases \cup {"idle"}

Uploads        == {c \in Conn : pc[c] \in SlotPhases}
UserUploads(u) == {c \in Conn : pc[c] \in UserPhases /\ ActingUser[c] = u}
StagedFiles    == {c \in Conn : pc[c] \in FilePhases}

Pieces(s) == (s + PieceSize - 1) \div PieceSize

\* StorageReservations::try_reserve, its guards only.  committed is the pair
\* read from the database: all bytes, the owner's bytes.
CanReserve(committed, o, additional) ==
  /\ additional > 0
  /\ committed[1] + globalBytes + additional <= globalQuota
  /\ committed[2] + ownerBytes[o] + additional <= ownerQuota

\* Faulty: reservations count as stored, the upload's own among them.
WithinQuotas_Reserved(o, additional, globalLimit, ownerLimit) ==
  /\ globalLimit > 0 /\ ownerLimit > 0
  /\ total + globalBytes + additional <= globalLimit
  /\ used[o] + ownerBytes[o] + additional <= ownerLimit

\* enforce_storage_quotas of a revision of additional > 0 bytes.
WithinQuotas(o, additional, globalLimit, ownerLimit) ==
  /\ globalLimit > 0 /\ ownerLimit > 0
  /\ total + additional <= globalLimit
  /\ used[o] + additional <= ownerLimit

Larger(x, y)  == IF x > y THEN x ELSE y
Smaller(x, y) == IF x < y THEN x ELSE y

effective_storage_limit(o) ==
  LET globalFree == Larger(globalQuota - total - globalBytes, 0)
  IN Smaller(Larger(ownerQuota - ownerBytes[o], 0), used[o] + globalFree)

\* The triggers on revisions keep the runtime counter beside the rows.
Add(o, n) ==
  /\ total' = total + n
  /\ used'  = [used EXCEPT ![o] = @ + n]

\* Faulty: the owner's bytes are left reserved.
Drop_OwnerKept(c) ==
  /\ globalBytes' = Larger(globalBytes - held[c], 0)
  /\ held' = [held EXCEPT ![c] = 0]
  /\ UNCHANGED ownerBytes

\* StorageReservation::drop
Drop(c) ==
  /\ globalBytes' = Larger(globalBytes - held[c], 0)
  /\ ownerBytes'  = [ownerBytes EXCEPT ![VaultOwner[c]] = Larger(@ - held[c], 0)]
  /\ held' = [held EXCEPT ![c] = 0]

Goto(c, phase) == pc' = [pc EXCEPT ![c] = phase]

\* The handler's locals go with it.
Forget(c) ==
  /\ size'    = [size EXCEPT ![c] = 0]
  /\ pieces'  = [pieces EXCEPT ![c] = 0]
  /\ bytes'   = [bytes EXCEPT ![c] = 0]
  /\ read'    = [read EXCEPT ![c] = <<0, 0>>]
  /\ outcome' = [outcome EXCEPT ![c] = "none"]

-----------------------------------------------------------------------------
Init ==
  /\ total = 0 /\ used = [u \in User |-> 0]
  /\ globalQuota \in GlobalQuotas /\ ownerQuota \in OwnerQuotas
  /\ globalBytes = 0 /\ ownerBytes = [u \in User |-> 0]
  /\ commitOrder = None
  /\ pc      = [c \in Conn |-> "idle"]
  /\ size    = [c \in Conn |-> 0]
  /\ pieces  = [c \in Conn |-> 0]
  /\ bytes   = [c \in Conn |-> 0]
  /\ held    = [c \in Conn |-> 0]
  /\ read    = [c \in Conn |-> <<0, 0>>]
  /\ outcome = [c \in Conn |-> "none"]
  /\ copying = [c \in Conn |-> 0]

\* The task waits for its device, with or without an upload in progress.
Ready(c) == pc[c] \in {"idle", "upload"} /\ commitOrder # c

\* begin_push of a file: both permits are taken, or the push is refused at once.
BeginPush(c, s) ==
  /\ Ready(c) /\ pc[c] = "idle"
  /\ Cardinality(Uploads) < MaxUploads
  /\ Cardinality(UserUploads(ActingUser[c])) < MaxUserUploads
  /\ size' = [size EXCEPT ![c] = s]
  /\ Goto(c, "admit")
  /\ UNCHANGED <<stored, quotas, reserve, commitOrder, pieces, bytes, read, outcome, copying>>

\* The committed bytes cannot be queried: the error ends the connection.
FailAdmission(c) ==
  /\ pc[c] = "admit" /\ commitOrder = None
  /\ Goto(c, "idle")
  /\ Forget(c)
  /\ UNCHANGED <<stored, quotas, reserve, commitOrder, copying>>

\* Faulty: commit_order is not held between the query and the reservation.
ReadUsage_NoGuard(c) ==
  /\ pc[c] = "admit" /\ commitOrder = None
  /\ read' = [read EXCEPT ![c] = <<total, used[VaultOwner[c]]>>]
  /\ Goto(c, "reserve")
  /\ UNCHANGED <<stored, quotas, reserve, commitOrder, upload, outcome, copying>>

\* Admission takes commit_order and queries the committed bytes.
ReadUsage(c) ==
  /\ pc[c] = "admit" /\ commitOrder = None
  /\ commitOrder' = c
  /\ read' = [read EXCEPT ![c] = <<total, used[VaultOwner[c]]>>]
  /\ Goto(c, "reserve")
  /\ UNCHANGED <<stored, quotas, reserve, upload, outcome, copying>>

\* try_reserve succeeds, the guard is dropped, the file is staged: "next".
Reserve(c) ==
  /\ pc[c] = "reserve"
  /\ CanReserve(read[c], VaultOwner[c], size[c])
  /\ globalBytes' = globalBytes + size[c]
  /\ ownerBytes'  = [ownerBytes EXCEPT ![VaultOwner[c]] = @ + size[c]]
  /\ held' = [held EXCEPT ![c] = size[c]]
  /\ commitOrder' = None
  /\ Goto(c, "upload")
  /\ UNCHANGED <<stored, quotas, upload, read, outcome, copying>>

\* reject_storage_quota: the permits and the guard are dropped.
RefuseReserve(c) ==
  /\ pc[c] = "reserve"
  /\ ~CanReserve(read[c], VaultOwner[c], size[c])
  /\ commitOrder' = None
  /\ Goto(c, "idle")
  /\ Forget(c)
  /\ UNCHANGED <<stored, quotas, reserve, copying>>

\* The piece is written: neither count exceeds what was declared.
Fits(c, n) == pieces[c] + 1 <= Pieces(size[c]) /\ bytes[c] + n <= size[c]

\* upload_chunk: a piece of n bytes is written.  After the last one the
\* revision is committed, or discarded if its size is not the declared one.
UploadChunk(c, n) ==
  /\ Ready(c) /\ pc[c] = "upload"
  /\ Fits(c, n)
  /\ pieces' = [pieces EXCEPT ![c] = @ + 1]
  /\ bytes'  = [bytes EXCEPT ![c] = @ + n]
  /\ Goto(c, IF pieces[c] + 1 < Pieces(size[c]) THEN "upload"
             ELSE IF bytes[c] + n = size[c] THEN "commit" ELSE "discard")
  /\ UNCHANGED <<stored, quotas, reserve, commitOrder, size, read, outcome, copying>>

\* Faulty: the idle deadline is armed by the first piece.
Discard_Started(c) ==
  /\ Ready(c) /\ pc[c] = "upload" /\ pieces[c] > 0
  /\ Goto(c, "discard")
  /\ UNCHANGED <<stored, quotas, reserve, commitOrder, upload, read, outcome, copying>>

\* discard_pending_upload: a peer close, the idle deadline, a piece that does
\* not fit, an error while staging it, a file that cannot be created.  The
\* upload permit is dropped before the file is removed, the reservation and
\* the user's permit after.
Discard(c) ==
  /\ Ready(c) /\ pc[c] = "upload"
  /\ Goto(c, "discard")
  /\ UNCHANGED <<stored, quotas, reserve, commitOrder, upload, read, outcome, copying>>

FinishDiscard(c) ==
  /\ pc[c] = "discard"
  /\ Drop(c)
  /\ Goto(c, "idle")
  /\ Forget(c)
  /\ UNCHANGED <<stored, quotas, commitOrder, copying>>

\* add_file_revision_for_session under commit_order: the quotas are enforced
\* once more and the row is inserted.
CommitUpload(c) ==
  LET o  == VaultOwner[c]
      ok == WithinQuotas(o, size[c], globalQuota, ownerQuota)
  IN /\ pc[c] = "commit" /\ commitOrder = None
     /\ commitOrder' = c
     /\ outcome' = [outcome EXCEPT ![c] = IF ok THEN "stored" ELSE "quota"]
     /\ IF ok THEN Add(o, size[c]) ELSE UNCHANGED stored
     /\ Goto(c, "stored")
     /\ UNCHANGED <<quotas, reserve, upload, read, copying>>

\* A conditional conflict, a lost authorization or a database error.
FailUpload(c) ==
  /\ pc[c] = "commit" /\ commitOrder = None
  /\ commitOrder' = c
  /\ outcome' = [outcome EXCEPT ![c] = "failed"]
  /\ Goto(c, "stored")
  /\ UNCHANGED <<stored, quotas, reserve, upload, read, copying>>

\* The reservation is dropped while the guard still excludes admission.
ReleaseReservation(c) ==
  /\ pc[c] = "stored"
  /\ Drop(c)
  /\ commitOrder' = None
  /\ Goto(c, "remove")
  /\ UNCHANGED <<stored, quotas, upload, read, outcome, copying>>

\* The staged file is removed.
RemoveStaged(c) ==
  /\ pc[c] = "remove"
  /\ Goto(c, "reply")
  /\ UNCHANGED <<stored, quotas, reserve, commitOrder, upload, read, outcome, copying>>

\* upload_chunk returns after the reply, and Pending's permits go with it.
EndUpload(c) ==
  /\ pc[c] = "reply"
  /\ Goto(c, "idle")
  /\ Forget(c)
  /\ UNCHANGED <<stored, quotas, reserve, commitOrder, copying>>

-----------------------------------------------------------------------------
BeginCopy(c, s, limits) ==
  /\ Ready(c) /\ commitOrder = None
  /\ s <= used[VaultOwner[c]]
  /\ commitOrder' = c
  /\ copying' = [copying EXCEPT ![c] = s]
  /\ read' = [read EXCEPT ![c] = limits]
  /\ UNCHANGED <<stored, quotas, reserve, pc, upload, outcome>>

\* restore of a stored revision of s bytes: the quotas less what is reserved.
ReadReserved(c, s) ==
  BeginCopy(c, s, <<globalQuota - globalBytes, ownerQuota - ownerBytes[VaultOwner[c]]>>)

\* restore_internal: enforce_storage_quotas with those limits, then the copy.
CommitRestore(c) ==
  LET o  == VaultOwner[c]
      ok == WithinQuotas(o, copying[c], read[c][1], read[c][2])
  IN /\ copying[c] > 0
     /\ IF ok THEN Add(o, copying[c]) ELSE UNCHANGED stored
     /\ commitOrder' = None
     /\ copying' = [copying EXCEPT ![c] = 0]
     /\ read' = [read EXCEPT ![c] = <<0, 0>>]
     /\ UNCHANGED <<quotas, reserve, pc, upload, outcome>>

\* Rows are deleted, n bytes of them.
Remove(o, n) ==
  /\ commitOrder = None
  /\ n <= used[o]
  /\ Add(o, -n)
  /\ UNCHANGED <<quotas, reserve, commitOrder, pc, upload, read, outcome, copying>>

\* purge of the connection's vault: some of the owner's bytes are superseded.
Purge(c, n) == Ready(c) /\ Remove(VaultOwner[c], n)

\* vault/delete and vault/migrate: the owner's vault goes, its rows with it.
DeleteVault(o, n) == Remove(o, n)

\* The process starts again: reservations and staged files are gone, the
\* counter is summed anew, the configuration may have changed.
Restart ==
  /\ total' = SumOf(used)
  /\ UNCHANGED used
  /\ globalQuota' \in GlobalQuotas /\ ownerQuota' \in OwnerQuotas
  /\ globalBytes' = 0 /\ ownerBytes' = [u \in User |-> 0]
  /\ commitOrder' = None
  /\ pc'      = [c \in Conn |-> "idle"]
  /\ size'    = [c \in Conn |-> 0]
  /\ pieces'  = [c \in Conn |-> 0]
  /\ bytes'   = [c \in Conn |-> 0]
  /\ held'    = [c \in Conn |-> 0]
  /\ read'    = [c \in Conn |-> <<0, 0>>]
  /\ outcome' = [c \in Conn |-> "none"]
  /\ copying' = [c \in Conn |-> 0]

-----------------------------------------------------------------------------
Task(c) ==
  \/ ReadUsage(c) \/ FailAdmission(c) \/ Reserve(c) \/ RefuseReserve(c)
  \/ FinishDiscard(c)
  \/ CommitUpload(c) \/ FailUpload(c) \/ ReleaseReservation(c) \/ RemoveStaged(c) \/ EndUpload(c)
  \/ CommitRestore(c)

Device(c) ==
  \/ \E s \in Sizes : BeginPush(c, s) \/ ReadReserved(c, s) \/ Purge(c, s)
  \/ \E n \in 0..PieceSize : UploadChunk(c, n)

Next ==
  \/ \E c \in Conn : Task(c) \/ Device(c) \/ Discard(c)
  \/ \E o \in User, n \in Sizes : DeleteVault(o, n)
  \/ Restart

Spec == Init /\ [][Next]_vars

\* One task's share of progress: its own steps (WF), and (SF) the FIFO
\* commit_order where it admits or commits, and the idle deadline of a pending
\* upload, which the biased select of socket_loop polls before messages: it
\* fires once the task is back in the loop, whatever else the device sends.
Fairness ==
  \A c \in Conn :
    /\ WF_vars(Task(c)) /\ SF_vars(Discard(c))
    /\ SF_vars(ReadUsage(c) \/ FailAdmission(c))
    /\ SF_vars(CommitUpload(c) \/ FailUpload(c))

FairSpec == Spec /\ Fairness

-----------------------------------------------------------------------------
(* Properties.                                                             *)

TypeOK ==
  /\ total \in Nat /\ used \in [User -> Nat]
  /\ globalQuota \in GlobalQuotas /\ ownerQuota \in OwnerQuotas
  /\ globalBytes \in Nat /\ ownerBytes \in [User -> Nat]
  /\ commitOrder \in Conn \cup {None}
  /\ pc \in [Conn -> Phase]
  /\ size \in [Conn -> Sizes \cup {0}] /\ copying \in [Conn -> Sizes \cup {0}]
  /\ pieces \in [Conn -> Nat] /\ bytes \in [Conn -> Nat] /\ held \in [Conn -> Nat]
  /\ read \in [Conn -> Int \X Int]
  /\ outcome \in [Conn -> {"none", "stored", "quota", "failed"}]

\* An upload the server admitted is never refused for quota when it commits,
\* whatever other uploads, restores, purges and deletions happen meanwhile.
AdmittedNeverRefused == \A c \in Conn : outcome[c] # "quota"

\* The reservations of uploads whose revision is not stored yet, all of them
\* and those against the vaults of u.
Owed == [c \in Conn |-> IF outcome[c] = "stored" THEN 0 ELSE held[c]]
OwedBy(u) == [c \in Conn |-> IF VaultOwner[c] = u THEN Owed[c] ELSE 0]

\* The quotas are hard limits (enforce_storage_quotas): a step that stores
\* bytes leaves room for every upload still pending, in both quotas; after a
\* quota was lowered nothing is added until there is room again.
QuotaHard ==
  [][\A u \in User : used'[u] > used[u] =>
       /\ total' + SumOf(Owed') <= globalQuota'
       /\ used'[u] + SumOf(OwedBy(u)') <= ownerQuota']_vars

\* The counters of StorageReservations are exactly the reservations that
\* exist: none leaks, none is given back twice, so the saturating
\* subtractions and debug assertions of StorageReservation::drop never bite.
HeldFor(u) == [c \in Conn |-> IF VaultOwner[c] = u THEN held[c] ELSE 0]
ReservationsExact ==
  /\ globalBytes = SumOf(held)
  /\ \A u \in User : ownerBytes[u] = SumOf(HeldFor(u))

\* The trigger-maintained counter is the sum of the stored sizes.
RuntimeCounterExact == total = SumOf(used)

\* The "size" reply is honest: while no admission or commit is under way, a
\* file fits under the advertised limit exactly when it would be admitted.
AdvertisedIsAdmitted ==
  commitOrder = None =>
    \A u \in User, n \in Sizes :
      used[u] + n <= effective_storage_limit(u) <=> CanReserve(<<total, used[u]>>, u, n)

\* What is staged on disk was reserved first: the bytes of a pending upload
\* never exceed its reservation, and a commit has all the declared bytes.
StagedWithinReservation ==
  \A c \in Conn :
    /\ pc[c] \in {"upload", "commit", "discard"} => bytes[c] <= held[c]
    /\ pc[c] = "commit" => bytes[c] = size[c] /\ held[c] = size[c]

\* production.md: space is needed for up to max_concurrent_uploads staging files.
StagedFilesBounded == Cardinality(StagedFiles) <= MaxUploads

\* Every reservation is given back: an upload commits, fails, or is discarded
\* at the latest by its idle deadline.
ReservationReleased == \A c \in Conn : held[c] > 0 ~> held[c] = 0
=============================================================================
