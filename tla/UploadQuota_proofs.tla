------------------------- MODULE UploadQuota_proofs -------------------------
(***************************************************************************)
(* Theorems about UploadQuota, for any connections, users, permits, sizes  *)
(* and quotas.  First what the steps do to one task and to the lock: the   *)
(* phases of a task, who holds commit_order, and what a value read under   *)
(* it is worth; the types and the stored bytes.  Then the sums.            *)
(***************************************************************************)
EXTENDS UploadQuota, FiniteSetTheorems, TLAPS

\* Phases in which a task has a reservation.
Reserving == {"upload", "commit", "stored", "discard"}

\* The phase of a task decides what its locals hold.
Local(c) ==
  /\ pc[c] \in Reserving => held[c] = size[c] /\ size[c] > 0
  /\ pc[c] \notin Reserving => held[c] = 0
  /\ pc[c] \in {"admit", "reserve"} => size[c] > 0
  /\ outcome[c] # "none" => pc[c] \in {"stored", "remove", "reply"}
  /\ pc[c] \in {"idle", "admit", "reserve"} => bytes[c] = 0
  /\ pc[c] \in {"upload", "commit", "discard"} => bytes[c] <= size[c]
  /\ pc[c] = "commit" => bytes[c] = size[c]
  /\ copying[c] > 0 => pc[c] \in {"idle", "upload"}
LocalInv == \A c \in Conn : Local(c)

\* commit_order is held between reading and reserving, between storing a
\* revision and dropping its reservation, and during a restore.
Locked(c) == pc[c] \in {"reserve", "stored"} \/ copying[c] > 0
LockInv == \A c \in Conn : Locked(c) => commitOrder = c

\* What was read under commit_order is still true, or errs on the safe side.
GoodRead(c) ==
  /\ pc[c] = "reserve" => read[c] = <<total, used[VaultOwner[c]]>>
  /\ copying[c] > 0 => /\ read[c][1] <= globalQuota - globalBytes
                       /\ read[c][2] <= ownerQuota - ownerBytes[VaultOwner[c]]
ReadInv == \A c \in Conn : GoodRead(c)

TaskInv == LocalInv /\ LockInv /\ ReadInv

-----------------------------------------------------------------------------
\* Everything one connection can do.
Step(c) ==
  \/ Task(c) \/ Discard(c)
  \/ \E s \in Sizes : BeginPush(c, s) \/ ReadReserved(c, s) \/ Purge(c, s)
  \/ \E n \in 0..PieceSize : UploadChunk(c, n)

LEMMA Steps ==
  [Next]_vars =>
    \/ \E c \in Conn : Step(c)
    \/ \E o \in User, n \in Sizes : Remove(o, n)
    \/ Restart
    \/ UNCHANGED vars
BY Zenon DEF Next, Device, Step, DeleteVault

\* Fewer reserved bytes leave no less room.
LEMMA MoreRoom ==
  ASSUME NEW r \in Int, NEW q \in Nat, NEW b \in Nat, NEW lower \in Nat, lower <= b, r <= q - b
  PROVE  r <= q - lower
OBVIOUS

LEMMA SizesNat == \A s \in Sizes : s \in Nat /\ s > 0 /\ -s \in Int
<1>1. Sizes \subseteq Nat \ {0}
  BY QuotaAssumption, Zenon
<1> QED BY <1>1

\* Every number of a task is a natural.
LEMMA Numbers ==
  ASSUME TypeOK, NEW c \in Conn
  PROVE  /\ VaultOwner[c] \in User /\ used[VaultOwner[c]] \in Nat /\ ownerBytes[VaultOwner[c]] \in Nat
         /\ size[c] \in Nat /\ copying[c] \in Nat /\ held[c] \in Nat /\ bytes[c] \in Nat
         /\ total \in Nat /\ globalBytes \in Nat /\ globalQuota \in Nat /\ ownerQuota \in Nat
<1>1. VaultOwner[c] \in User
  BY QuotaAssumption, Zenon
<1>2. used[VaultOwner[c]] \in Nat /\ ownerBytes[VaultOwner[c]] \in Nat
  BY <1>1, Zenon DEF TypeOK
<1>3. size[c] \in Sizes \cup {0} /\ copying[c] \in Sizes \cup {0}
  BY Zenon DEF TypeOK
<1>4. size[c] \in Nat /\ copying[c] \in Nat
  BY <1>3, SizesNat
<1>5. globalQuota \in Nat /\ ownerQuota \in Nat
  BY QuotaAssumption, Zenon DEF TypeOK
<1> QED BY <1>1, <1>2, <1>4, <1>5, Zenon DEF TypeOK

LEMMA UsedNat == TypeOK => \A u \in User : used[u] \in Nat /\ ownerBytes[u] \in Nat
BY Zenon DEF TypeOK

LEMMA TaskParts ==
  ASSUME TaskInv, NEW c \in Conn
  PROVE  Local(c) /\ (Locked(c) => commitOrder = c) /\ GoodRead(c)
BY Zenon DEF TaskInv, LocalInv, LockInv, ReadInv

LEMMA ReserveKinds ==
  ASSUME NEW c, Step(c)
  PROVE  Drop(c) \/ Reserve(c) \/ UNCHANGED reserve
BY Zenon DEF Step, Task, ReadUsage, FailAdmission, RefuseReserve, FinishDiscard, CommitUpload,
     FailUpload, ReleaseReservation, RemoveStaged, EndUpload, CommitRestore, Discard, BeginPush,
     ReadReserved, BeginCopy, Purge, Remove, UploadChunk

\* The reservations stay naturals.
LEMMA ReserveType ==
  ASSUME TypeOK, NEW c \in Conn, Step(c)
  PROVE  globalBytes' \in Nat /\ ownerBytes' \in [User -> Nat] /\ held' \in [Conn -> Nat]
<1>1. VaultOwner[c] \in User /\ size[c] \in Nat /\ held[c] \in Nat
  BY Numbers, Zenon
<1>2. Drop(c) => globalBytes' \in Nat /\ ownerBytes' \in [User -> Nat] /\ held' \in [Conn -> Nat]
  <2>1. \A x, y \in Nat : Larger(x - y, 0) \in Nat
    BY DEF Larger
  <2> SUFFICES ASSUME Drop(c)
               PROVE  globalBytes' \in Nat /\ ownerBytes' \in [User -> Nat] /\ held' \in [Conn -> Nat]
    OBVIOUS
  <2>2. globalBytes' \in Nat /\ held' \in [Conn -> Nat]
    BY <1>1, <2>1, Zenon DEF TypeOK, Drop
  <2>3. Larger(ownerBytes[VaultOwner[c]] - held[c], 0) \in Nat
    BY <1>1, <2>1, Zenon DEF TypeOK
  <2>4. ownerBytes' \in [User -> Nat]
    BY <1>1, <2>3, Zenon DEF TypeOK, Drop
  <2> QED BY <2>2, <2>4, Zenon
<1>3. Reserve(c) => globalBytes' \in Nat /\ ownerBytes' \in [User -> Nat] /\ held' \in [Conn -> Nat]
  BY <1>1 DEF TypeOK, Reserve
<1>4. UNCHANGED reserve => globalBytes' \in Nat /\ ownerBytes' \in [User -> Nat] /\ held' \in [Conn -> Nat]
  BY Zenon DEF TypeOK, reserve
<1> QED BY <1>2, <1>3, <1>4, ReserveKinds, Zenon

-----------------------------------------------------------------------------
(* One task moves, the others stand still.                                 *)

Same(d) ==
  /\ pc'[d] = pc[d] /\ size'[d] = size[d] /\ bytes'[d] = bytes[d] /\ held'[d] = held[d]
  /\ read'[d] = read[d] /\ outcome'[d] = outcome[d] /\ copying'[d] = copying[d]

LEMMA OthersSame ==
  ASSUME TypeOK, NEW c \in Conn, Step(c), NEW d \in Conn, d # c
  PROVE  Same(d)
<1> USE DEF Same, TypeOK
<1>1. CASE ReadUsage(c)
  BY <1>1, Zenon DEF ReadUsage, Goto, reserve, upload
<1>2. CASE FailAdmission(c)
  BY <1>2, Zenon DEF FailAdmission, Goto, Forget, reserve, upload
<1>3. CASE Reserve(c)
  BY <1>3, Zenon DEF Reserve, Goto, reserve, upload
<1>4. CASE RefuseReserve(c)
  BY <1>4, Zenon DEF RefuseReserve, Goto, Forget, reserve, upload
<1>5. CASE FinishDiscard(c)
  BY <1>5, Zenon DEF FinishDiscard, Goto, Forget, Drop, reserve, upload
<1>6. CASE CommitUpload(c)
  BY <1>6, Zenon DEF CommitUpload, Goto, reserve, upload
<1>7. CASE FailUpload(c)
  BY <1>7, Zenon DEF FailUpload, Goto, reserve, upload
<1>8. CASE ReleaseReservation(c)
  BY <1>8, Zenon DEF ReleaseReservation, Goto, Drop, reserve, upload
<1>9. CASE RemoveStaged(c)
  BY <1>9, Zenon DEF RemoveStaged, Goto, reserve, upload
<1>10. CASE EndUpload(c)
  BY <1>10, Zenon DEF EndUpload, Goto, Forget, reserve, upload
<1>11. CASE CommitRestore(c)
  BY <1>11, Zenon DEF CommitRestore, reserve, upload
<1>12. CASE Discard(c)
  BY <1>12, Zenon DEF Discard, Goto, reserve, upload
<1>13. ASSUME NEW s \in Sizes, BeginPush(c, s) PROVE Same(d)
  BY <1>13, Zenon DEF BeginPush, Goto, reserve, upload
<1>14. ASSUME NEW s \in Sizes, ReadReserved(c, s) PROVE Same(d)
  BY <1>14, Zenon DEF ReadReserved, BeginCopy, reserve, upload
<1>15. ASSUME NEW s \in Sizes, Purge(c, s) PROVE Same(d)
  BY <1>15, Zenon DEF Purge, Remove, reserve, upload
<1>16. ASSUME NEW n \in 0..PieceSize, UploadChunk(c, n) PROVE Same(d)
  BY <1>16, Zenon DEF UploadChunk, Goto, reserve, upload
<1> HIDE DEF Same, TypeOK
<1> QED BY <1>1, <1>2, <1>3, <1>4, <1>5, <1>6, <1>7, <1>8, <1>9, <1>10, <1>11,
           <1>12, <1>13, <1>14, <1>15, <1>16, Zenon DEF Step, Task

\* The phase of the task that moves still decides what its locals hold.
LEMMA LocalMove ==
  ASSUME TypeOK, NEW c \in Conn, Local(c), Locked(c) => commitOrder = c, Step(c)
  PROVE  Local(c)'
<1>0. size[c] \in Nat /\ copying[c] \in Nat /\ held[c] \in Nat /\ bytes[c] \in Nat /\ pc[c] \in Phase
  BY Numbers, Zenon DEF TypeOK
<1> USE DEF Local, Reserving
<1>1. CASE ReadUsage(c)
  BY <1>0, <1>1, Zenon DEF ReadUsage, Goto, TypeOK, reserve, upload
<1>2. CASE FailAdmission(c)
  BY <1>0, <1>2, Zenon DEF FailAdmission, Goto, Forget, TypeOK, reserve, upload
<1>3. CASE Reserve(c)
  BY <1>0, <1>3 DEF Reserve, Goto, TypeOK, reserve, upload
<1>4. CASE RefuseReserve(c)
  BY <1>0, <1>4, Zenon DEF RefuseReserve, Goto, Forget, TypeOK, reserve, upload
<1>5. CASE FinishDiscard(c)
  BY <1>0, <1>5, Zenon DEF FinishDiscard, Goto, Forget, Drop, TypeOK, reserve, upload
<1>6. CASE CommitUpload(c)
  BY <1>0, <1>6, Zenon DEF CommitUpload, Goto, TypeOK, reserve, upload
<1>7. CASE FailUpload(c)
  BY <1>0, <1>7, Zenon DEF FailUpload, Goto, TypeOK, reserve, upload
<1>8. CASE ReleaseReservation(c)
  BY <1>0, <1>8, Zenon DEF ReleaseReservation, Goto, Drop, TypeOK, reserve, upload
<1>9. CASE RemoveStaged(c)
  BY <1>0, <1>9, Zenon DEF RemoveStaged, Goto, TypeOK, reserve, upload
<1>10. CASE EndUpload(c)
  BY <1>0, <1>10, Zenon DEF EndUpload, Goto, Forget, TypeOK, reserve, upload
<1>11. CASE CommitRestore(c)
  BY <1>0, <1>11, Zenon DEF CommitRestore, TypeOK, reserve, upload
<1>12. CASE Discard(c)
  BY <1>0, <1>12, Zenon DEF Discard, Ready, Locked, Goto, TypeOK, reserve, upload
<1>13. ASSUME NEW s \in Sizes, BeginPush(c, s) PROVE Local(c)'
  BY <1>0, <1>13, SizesNat, Zenon DEF BeginPush, Ready, Locked, Goto, TypeOK, reserve, upload
<1>14. ASSUME NEW s \in Sizes, ReadReserved(c, s) PROVE Local(c)'
  BY <1>0, <1>14, SizesNat, Zenon DEF ReadReserved, BeginCopy, Ready, TypeOK, reserve, upload
<1>15. ASSUME NEW s \in Sizes, Purge(c, s) PROVE Local(c)'
  BY <1>0, <1>15, SizesNat, Zenon DEF Purge, Remove, TypeOK, reserve, upload
<1>16. ASSUME NEW n \in 0..PieceSize, UploadChunk(c, n) PROVE Local(c)'
  BY <1>0, <1>16, Zenon DEF UploadChunk, Ready, Locked, Fits, Goto, TypeOK, reserve, upload
<1> HIDE DEF Local, Reserving
<1> QED BY <1>1, <1>2, <1>3, <1>4, <1>5, <1>6, <1>7, <1>8, <1>9, <1>10, <1>11,
           <1>12, <1>13, <1>14, <1>15, <1>16, Zenon DEF Step, Task

-----------------------------------------------------------------------------
(* The lock.                                                               *)

\* The lock is taken when it is free and given back by the task that holds it;
\* rows change while it is free or in the hands of the task that changes them;
\* while another task holds it, reservations only shrink.
LEMMA LockMove ==
  ASSUME TypeOK, NEW c \in Conn, Locked(c) => commitOrder = c, Step(c)
  PROVE  /\ commitOrder' = commitOrder \/ commitOrder \in {None, c}
         /\ UNCHANGED stored \/ commitOrder \in {None, c}
         /\ UNCHANGED quotas
         /\ \/ globalBytes' <= globalBytes /\ \A u \in User : ownerBytes'[u] <= ownerBytes[u]
            \/ commitOrder = c
<1> DEFINE Fewer == globalBytes' <= globalBytes /\ \A u \in User : ownerBytes'[u] <= ownerBytes[u]
           Goal == /\ commitOrder' = commitOrder \/ commitOrder \in {None, c}
                   /\ UNCHANGED stored \/ commitOrder \in {None, c}
                   /\ UNCHANGED quotas
                   /\ Fewer \/ commitOrder = c
<1> SUFFICES Goal OBVIOUS
<1>0. held[c] \in Nat /\ globalBytes \in Nat /\ VaultOwner[c] \in User
  BY Numbers, Zenon
<1>1. Drop(c) \/ UNCHANGED reserve => Fewer
  <2>1. \A x, y \in Nat : Larger(x - y, 0) <= x
    BY DEF Larger
  <2>2. Drop(c) => globalBytes' <= globalBytes
    BY <1>0, <2>1, Zenon DEF Drop
  <2>3. ASSUME Drop(c), NEW u \in User PROVE ownerBytes'[u] <= ownerBytes[u]
    <3>1. ownerBytes[u] \in Nat
      BY Zenon DEF TypeOK
    <3>2. ownerBytes'[u] = IF u = VaultOwner[c] THEN Larger(ownerBytes[u] - held[c], 0) ELSE ownerBytes[u]
      BY <1>0, <2>3, Zenon DEF Drop, TypeOK
    <3> QED BY <1>0, <2>1, <3>1, <3>2
  <2>4. UNCHANGED reserve => Fewer
    BY DEF TypeOK, reserve
  <2> QED BY <2>2, <2>3, <2>4, Zenon
<1> HIDE DEF Fewer
<1>2. CASE Reserve(c) \/ RefuseReserve(c) \/ ReleaseReservation(c) \/ CommitRestore(c)
  <2>1. commitOrder = c
    BY <1>2, Zenon DEF Locked, Reserve, RefuseReserve, ReleaseReservation, CommitRestore
  <2>2. UNCHANGED quotas
    BY <1>2, Zenon DEF Reserve, RefuseReserve, ReleaseReservation, CommitRestore
  <2> QED BY <2>1, <2>2, Zenon
<1>3. CASE ReadUsage(c) \/ FailAdmission(c) \/ CommitUpload(c) \/ FailUpload(c)
  BY <1>1, <1>3, Zenon DEF ReadUsage, FailAdmission, CommitUpload, FailUpload
<1>4. CASE FinishDiscard(c) \/ RemoveStaged(c) \/ EndUpload(c) \/ Discard(c)
  BY <1>1, <1>4, Zenon DEF FinishDiscard, RemoveStaged, EndUpload, Discard
<1>5. ASSUME NEW s \in Sizes, BeginPush(c, s) \/ ReadReserved(c, s) \/ Purge(c, s) PROVE Goal
  BY <1>1, <1>5, Zenon DEF BeginPush, ReadReserved, BeginCopy, Purge, Remove
<1>6. ASSUME NEW n \in 0..PieceSize, UploadChunk(c, n) PROVE Goal
  BY <1>1, <1>6, Zenon DEF UploadChunk
<1> HIDE DEF Goal
<1> QED BY <1>2, <1>3, <1>4, <1>5, <1>6, Zenon DEF Step, Task

\* The task that moves holds the lock where it must, and what it reads is true.
LEMMA OwnMove ==
  ASSUME TypeOK, NEW c \in Conn, Local(c), Locked(c) => commitOrder = c, Step(c)
  PROVE  (Locked(c)' => commitOrder' = c) /\ GoodRead(c)'
<1> DEFINE Goal == (Locked(c)' => commitOrder' = c) /\ GoodRead(c)'
<1> SUFFICES Goal OBVIOUS
<1>0. /\ copying[c] \in Nat /\ globalQuota \in Nat /\ ownerQuota \in Nat /\ globalBytes \in Nat
      /\ ownerBytes[VaultOwner[c]] \in Nat
  BY Numbers, Zenon
<1> USE DEF Local, Locked, GoodRead
<1>1. CASE ReadUsage(c)
  BY <1>0, <1>1, Zenon DEF ReadUsage, Goto, TypeOK, stored, upload
<1>2. CASE FailAdmission(c)
  BY <1>0, <1>2, Zenon DEF FailAdmission, Goto, Forget, TypeOK, stored, upload
<1>3. CASE Reserve(c)
  BY <1>0, <1>3, Zenon DEF Reserve, Goto, TypeOK, stored, upload
<1>4. CASE RefuseReserve(c)
  BY <1>0, <1>4, Zenon DEF RefuseReserve, Goto, Forget, TypeOK, stored, upload
<1>5. CASE FinishDiscard(c)
  BY <1>0, <1>5, Zenon DEF FinishDiscard, Goto, Forget, TypeOK, stored, upload
<1>6. CASE CommitUpload(c)
  BY <1>0, <1>6, Zenon DEF CommitUpload, Goto, TypeOK, stored, upload
<1>7. CASE FailUpload(c)
  BY <1>0, <1>7, Zenon DEF FailUpload, Goto, TypeOK, stored, upload
<1>8. CASE ReleaseReservation(c)
  BY <1>0, <1>8, Zenon DEF ReleaseReservation, Goto, TypeOK, stored, upload
<1>9. CASE RemoveStaged(c)
  BY <1>0, <1>9, Zenon DEF RemoveStaged, Goto, TypeOK, stored, upload
<1>10. CASE EndUpload(c)
  BY <1>0, <1>10, Zenon DEF EndUpload, Goto, Forget, TypeOK, stored, upload
<1>11. CASE CommitRestore(c)
  BY <1>0, <1>11 DEF CommitRestore, TypeOK, stored, upload
<1>12. CASE Discard(c)
  BY <1>0, <1>12, Zenon DEF Discard, Goto, Ready, TypeOK, stored, upload
<1>13. ASSUME NEW s \in Sizes, BeginPush(c, s) PROVE Goal
  BY <1>0, <1>13, Zenon DEF BeginPush, Ready, Goto, TypeOK, stored, upload
<1>14. ASSUME NEW s \in Sizes, ReadReserved(c, s) PROVE Goal
  BY <1>0, <1>14 DEF ReadReserved, BeginCopy, Ready, quotas, reserve, TypeOK, stored, upload
<1>15. ASSUME NEW s \in Sizes, Purge(c, s) PROVE Goal
  BY <1>0, <1>15, Zenon DEF Purge, Remove, Ready, TypeOK, stored, upload
<1>16. ASSUME NEW n \in 0..PieceSize, UploadChunk(c, n) PROVE Goal
  BY <1>0, <1>16, Zenon DEF UploadChunk, Ready, Goto, TypeOK, stored, upload
<1> HIDE DEF Goal, Local, Locked, GoodRead
<1> QED BY <1>1, <1>2, <1>3, <1>4, <1>5, <1>6, <1>7, <1>8, <1>9, <1>10, <1>11,
           <1>12, <1>13, <1>14, <1>15, <1>16, Zenon DEF Step, Task

LEMMA TaskInvInit == Init => TaskInv
BY DEF Init, TaskInv, LocalInv, Local, Reserving, LockInv, Locked, ReadInv, GoodRead

LEMMA TaskInvStep == TypeOK /\ TaskInv /\ [Next]_vars => TaskInv'
<1> SUFFICES ASSUME TypeOK, TaskInv, [Next]_vars, NEW d \in Conn
             PROVE  Local(d)' /\ (Locked(d)' => commitOrder' = d) /\ GoodRead(d)'
  BY Zenon DEF TaskInv, LocalInv, LockInv, ReadInv
<1> DEFINE Goal == Local(d)' /\ (Locked(d)' => commitOrder' = d) /\ GoodRead(d)'
<1> SUFFICES Goal OBVIOUS
<1>0. Local(d) /\ (Locked(d) => commitOrder = d) /\ GoodRead(d)
  BY Zenon DEF TaskInv, LocalInv, LockInv, ReadInv
<1>1. /\ VaultOwner[d] \in User /\ globalQuota \in Nat /\ ownerQuota \in Nat /\ globalBytes \in Nat
      /\ ownerBytes[VaultOwner[d]] \in Nat /\ copying[d] \in Nat /\ None # d
  BY Numbers, QuotaAssumption, Zenon
<1>2. ASSUME NEW c \in Conn, Step(c), c = d PROVE Goal
  BY <1>0, <1>2, LocalMove, OwnMove, Zenon
<1>3. ASSUME NEW c \in Conn, Step(c), c # d PROVE Goal
  <2> HIDE DEF Goal
  <2>1. Same(d)
    BY <1>3, OthersSame, Zenon
  <2>2. Local(c) /\ (Locked(c) => commitOrder = c)
    BY Zenon DEF TaskInv, LocalInv, LockInv
  <2>3. Local(d)'
    BY <1>0, <2>1, Zenon DEF Local, Same
  <2>4. Locked(d)' => commitOrder = d /\ Locked(d)
    BY <1>0, <2>1, Zenon DEF Locked, Same
  <2>5. Locked(d)' => /\ commitOrder' = d /\ UNCHANGED stored /\ UNCHANGED quotas
                      /\ globalBytes' <= globalBytes /\ \A u \in User : ownerBytes'[u] <= ownerBytes[u]
    BY <1>1, <1>3, <2>2, <2>4, LockMove, Zenon
  <2>6. GoodRead(d)'
    <3>1. CASE pc'[d] = "reserve"
      <4>1. ~(copying'[d] > 0) /\ pc[d] = "reserve" /\ UNCHANGED stored /\ read'[d] = read[d]
        BY <1>0, <1>1, <2>1, <2>5, <3>1, Zenon DEF Same, Local, Locked
      <4>2. total' = total /\ used' = used
        BY <4>1, Zenon DEF stored
      <4>3. read[d] = <<total, used[VaultOwner[d]]>>
        BY <1>0, <4>1, Zenon DEF GoodRead
      <4>4. read'[d] = <<total', used'[VaultOwner[d]]>>
        BY <4>1, <4>2, <4>3, Zenon
      <4> QED BY <4>1, <4>4, Zenon DEF GoodRead
    <3>2. CASE pc'[d] # "reserve" /\ copying'[d] > 0
      <4>1. /\ copying[d] > 0 /\ read'[d] = read[d] /\ UNCHANGED quotas /\ globalBytes' <= globalBytes
            /\ ownerBytes'[VaultOwner[d]] <= ownerBytes[VaultOwner[d]]
        BY <1>1, <2>1, <2>5, <3>2, Zenon DEF Same, Locked
      <4>2. read[d][1] \in Int /\ read[d][2] \in Int
        BY Zenon DEF TypeOK
      <4>3. globalBytes' \in Nat /\ ownerBytes'[VaultOwner[d]] \in Nat
        BY <1>1, <1>3, ReserveType, Zenon
      <4>4. read[d][1] <= globalQuota - globalBytes /\ read[d][2] <= ownerQuota - ownerBytes[VaultOwner[d]]
        BY <1>0, <4>1, Zenon DEF GoodRead
      <4>5. globalQuota' = globalQuota /\ ownerQuota' = ownerQuota
        BY <4>1, Zenon DEF quotas
      <4>6. read'[d] = read[d]
        BY <4>1, Zenon
      <4>7. /\ read'[d][1] <= globalQuota' - globalBytes'
            /\ read'[d][2] <= ownerQuota' - ownerBytes'[VaultOwner[d]]
        BY <1>1, <4>1, <4>2, <4>3, <4>4, <4>5, <4>6, MoreRoom, Zenon
      <4> QED BY <3>2, <4>7, Zenon DEF GoodRead
    <3>3. CASE pc'[d] # "reserve" /\ ~(copying'[d] > 0)
      BY <3>3, Zenon DEF GoodRead
    <3> QED BY <3>1, <3>2, <3>3, Zenon
  <2> QED BY <2>3, <2>5, <2>6, Zenon DEF Goal
<1>4. ASSUME NEW o \in User, NEW n \in Sizes, Remove(o, n) PROVE Goal
  <2>1. ~Locked(d)
    BY <1>0, <1>1, <1>4, Zenon DEF Remove
  <2> QED BY <1>0, <1>4, <2>1, Zenon DEF Remove, Local, Locked, GoodRead, reserve, upload
<1>5. CASE Restart
  BY <1>5 DEF Restart, Local, Reserving, Locked, GoodRead
<1>6. CASE UNCHANGED vars
  BY <1>0, <1>6, Zenon DEF vars, stored, quotas, reserve, upload, Local, Locked, GoodRead
<1> HIDE DEF Goal
<1> QED BY <1>2, <1>3, <1>4, <1>5, <1>6, Steps, Zenon
-----------------------------------------------------------------------------
\* The actions that change the stored bytes, and the rest of Step.
Storing(c) ==
  \/ CommitUpload(c) \/ CommitRestore(c) \/ \E s \in Sizes : Purge(c, s)
Quiet(c) ==
  \/ ReadUsage(c) \/ FailAdmission(c) \/ Reserve(c) \/ RefuseReserve(c) \/ FinishDiscard(c)
  \/ FailUpload(c) \/ ReleaseReservation(c) \/ RemoveStaged(c) \/ EndUpload(c) \/ Discard(c)
  \/ \E s \in Sizes : BeginPush(c, s) \/ ReadReserved(c, s)
  \/ \E n \in 0..PieceSize : UploadChunk(c, n)

LEMMA StepSplit == ASSUME NEW c, Step(c) PROVE Storing(c) \/ Quiet(c)
BY Zenon DEF Step, Task, Storing, Quiet

LEMMA QuietStores == ASSUME NEW c, Quiet(c) PROVE UNCHANGED <<stored, quotas>>
BY Zenon DEF Quiet, ReadUsage, FailAdmission, Reserve, RefuseReserve, FinishDiscard, FailUpload,
       ReleaseReservation, RemoveStaged, EndUpload, Discard, BeginPush, ReadReserved, BeginCopy,
       UploadChunk, stored, quotas

-----------------------------------------------------------------------------
(* Types.  That total stays a natural rests on its being the sum of used.  *)

LEMMA TypeInit == Init => TypeOK
BY QuotaAssumption DEF Init, TypeOK, Phase, UserPhases, SlotPhases

\* The locals of a task stay what they are declared to be.
LEMMA LocalType ==
  ASSUME TypeOK, NEW c \in Conn, Step(c)
  PROVE  /\ pc' \in [Conn -> Phase] /\ commitOrder' \in Conn \cup {None}
         /\ size' \in [Conn -> Sizes \cup {0}] /\ copying' \in [Conn -> Sizes \cup {0}]
         /\ pieces' \in [Conn -> Nat] /\ bytes' \in [Conn -> Nat]
         /\ read' \in [Conn -> Int \X Int]
         /\ outcome' \in [Conn -> {"none", "stored", "quota", "failed"}]
<1> DEFINE Locals == /\ pc' \in [Conn -> Phase] /\ commitOrder' \in Conn \cup {None}
                     /\ size' \in [Conn -> Sizes \cup {0}] /\ copying' \in [Conn -> Sizes \cup {0}]
                     /\ pieces' \in [Conn -> Nat] /\ bytes' \in [Conn -> Nat]
                     /\ read' \in [Conn -> Int \X Int]
                     /\ outcome' \in [Conn -> {"none", "stored", "quota", "failed"}]
<1> SUFFICES Locals OBVIOUS
<1>0. /\ VaultOwner[c] \in User /\ total \in Int /\ used[VaultOwner[c]] \in Int
      /\ globalQuota \in Int /\ ownerQuota \in Int /\ globalBytes \in Int
      /\ ownerBytes[VaultOwner[c]] \in Int
  BY Numbers
<1>1. ASSUME Forget(c), pc' \in [Conn -> Phase], commitOrder' \in Conn \cup {None}, UNCHANGED copying
      PROVE  Locals
  BY <1>1 DEF TypeOK, Forget
<1>2. CASE ReadUsage(c)
  BY <1>0, <1>2, Zenon DEF TypeOK, ReadUsage, Goto, Phase, UserPhases, SlotPhases, upload
<1>3. CASE FailAdmission(c)
  BY <1>1, <1>3, Zenon DEF TypeOK, FailAdmission, Goto, Phase
<1>4. CASE Reserve(c)
  BY <1>4, Zenon DEF TypeOK, Reserve, Goto, Phase, UserPhases, SlotPhases, upload
<1>5. CASE RefuseReserve(c)
  BY <1>1, <1>5, Zenon DEF TypeOK, RefuseReserve, Goto, Phase
<1>6. CASE FinishDiscard(c)
  BY <1>1, <1>6, Zenon DEF TypeOK, FinishDiscard, Goto, Phase
<1>7. CASE CommitUpload(c)
  BY <1>7, Zenon DEF TypeOK, CommitUpload, Goto, Phase, UserPhases, SlotPhases, upload
<1>8. CASE FailUpload(c)
  BY <1>8, Zenon DEF TypeOK, FailUpload, Goto, Phase, UserPhases, SlotPhases, upload
<1>9. CASE ReleaseReservation(c)
  BY <1>9, Zenon DEF TypeOK, ReleaseReservation, Goto, Phase, UserPhases, SlotPhases, upload
<1>10. CASE RemoveStaged(c)
  BY <1>10, Zenon DEF TypeOK, RemoveStaged, Goto, Phase, UserPhases, SlotPhases, upload
<1>11. CASE EndUpload(c)
  BY <1>1, <1>11, Zenon DEF TypeOK, EndUpload, Goto, Phase
<1>12. CASE CommitRestore(c)
  BY <1>12 DEF TypeOK, CommitRestore, upload
<1>13. CASE Discard(c)
  BY <1>13, Zenon DEF TypeOK, Discard, Goto, Phase, UserPhases, upload
<1>14. ASSUME NEW s \in Sizes, BeginPush(c, s) PROVE Locals
  BY <1>14, Zenon DEF TypeOK, BeginPush, Goto, Phase, UserPhases, SlotPhases
<1>15. ASSUME NEW s \in Sizes, ReadReserved(c, s) PROVE Locals
  BY <1>0, <1>15 DEF TypeOK, ReadReserved, BeginCopy, upload
<1>16. ASSUME NEW s \in Sizes, Purge(c, s) PROVE Locals
  BY <1>16, Zenon DEF TypeOK, Purge, Remove, upload
<1>17. ASSUME NEW n \in 0..PieceSize, UploadChunk(c, n) PROVE Locals
  BY <1>17 DEF TypeOK, UploadChunk, Goto, Phase, UserPhases, SlotPhases
<1> QED BY <1>2, <1>3, <1>4, <1>5, <1>6, <1>7, <1>8, <1>9, <1>10, <1>11, <1>12, <1>13,
           <1>14, <1>15, <1>16, <1>17, Zenon DEF Step, Task

\* Rows are added or removed for one owner.
StoredBy(o, n) == /\ total' = total + n
                  /\ used' = [used EXCEPT ![o] = @ + n]
                  /\ 0 <= used[o] + n


LEMMA StoredType ==
  ASSUME TypeOK, NEW o \in User, NEW n \in Int, StoredBy(o, n)
  PROVE  used' \in [User -> Nat]
BY DEF TypeOK, StoredBy

\* What a storing step does to the rows, by the action that does it.
LEMMA StoringKinds ==
  ASSUME TypeOK, NEW c \in Conn, Storing(c)
  PROVE  \/ CommitUpload(c) /\ UNCHANGED stored
         \/ CommitRestore(c) /\ UNCHANGED stored
         \/ CommitUpload(c) /\ StoredBy(VaultOwner[c], size[c])
         \/ CommitRestore(c) /\ StoredBy(VaultOwner[c], copying[c])
         \/ \E s \in Sizes : Purge(c, s) /\ StoredBy(VaultOwner[c], -s)
<1>1. /\ VaultOwner[c] \in User /\ used[VaultOwner[c]] \in Nat
      /\ size[c] \in Nat /\ copying[c] \in Nat
  BY Numbers, Zenon
<1>2. CASE CommitUpload(c)
  BY <1>1, <1>2 DEF CommitUpload, Add, StoredBy
<1>3. CASE CommitRestore(c)
  BY <1>1, <1>3 DEF CommitRestore, Add, StoredBy
<1>4. ASSUME NEW s \in Sizes, Purge(c, s) PROVE StoredBy(VaultOwner[c], -s)
  <2>1. s \in Nat
    BY SizesNat, Zenon
  <2> QED BY <1>1, <1>4, <2>1 DEF Purge, Remove, Add, StoredBy
<1> QED BY <1>2, <1>3, <1>4, Zenon DEF Storing

LEMMA RemoveStores ==
  ASSUME TypeOK, NEW o \in User, NEW n \in Sizes, Remove(o, n)
  PROVE  StoredBy(o, -n)
<1>1. n \in Nat /\ used[o] \in Nat /\ n <= used[o]
  BY SizesNat, Zenon DEF TypeOK, Remove
<1> QED BY <1>1 DEF Remove, Add, StoredBy

\* What any step does to the rows.
LEMMA StoredKinds ==
  TypeOK /\ [Next]_vars =>
    \/ UNCHANGED stored
    \/ \E o \in User, n \in Int : StoredBy(o, n)
    \/ total' = SumOf(used) /\ UNCHANGED used
<1> SUFFICES ASSUME TypeOK, [Next]_vars
             PROVE  \/ UNCHANGED stored
                    \/ \E o \in User, n \in Int : StoredBy(o, n)
                    \/ total' = SumOf(used) /\ UNCHANGED used
  OBVIOUS
<1>1. ASSUME NEW c \in Conn, Step(c) PROVE UNCHANGED stored \/ \E o \in User, n \in Int : StoredBy(o, n)
  <2>1. VaultOwner[c] \in User /\ size[c] \in Int /\ copying[c] \in Int /\ \A s \in Sizes : -s \in Int
    BY Numbers, SizesNat
  <2>2. Quiet(c) => UNCHANGED stored
    BY QuietStores, Zenon
  <2>3. Storing(c) => UNCHANGED stored \/ \E o \in User, n \in Int : StoredBy(o, n)
    BY <2>1, StoringKinds, Zenon
  <2> QED BY <1>1, <2>2, <2>3, StepSplit, Zenon
<1>2. ASSUME NEW o \in User, NEW n \in Sizes, Remove(o, n) PROVE \E m \in Int : StoredBy(o, m)
  BY <1>2, RemoveStores, SizesNat, Zenon
<1>3. CASE Restart
  BY <1>3, Zenon DEF Restart
<1>4. CASE UNCHANGED vars
  BY <1>4, Zenon DEF vars
<1> QED BY <1>1, <1>2, <1>3, <1>4, Steps, Zenon

LEMMA UsedType == TypeOK /\ [Next]_vars => used' \in [User -> Nat]
BY StoredKinds, StoredType, Zenon DEF stored, TypeOK

LEMMA TypeStep == TypeOK /\ [Next]_vars /\ total' \in Nat => TypeOK'
<1> SUFFICES ASSUME TypeOK, [Next]_vars, total' \in Nat PROVE TypeOK'
  OBVIOUS
<1>0. used' \in [User -> Nat]
  BY UsedType, Zenon
<1>1. ASSUME NEW c \in Conn, Step(c) PROVE TypeOK'
  <2>1. UNCHANGED quotas
    BY <1>1, StepSplit, QuietStores, Zenon DEF Storing, CommitUpload, CommitRestore, Purge, Remove
  <2>2. globalQuota' \in GlobalQuotas /\ ownerQuota' \in OwnerQuotas
    BY <2>1, Zenon DEF TypeOK, quotas
  <2> QED BY <1>0, <1>1, <2>2, ReserveType, LocalType, Zenon DEF TypeOK
<1>3. ASSUME NEW o \in User, NEW n \in Sizes, Remove(o, n) PROVE TypeOK'
  BY <1>0, <1>3, Zenon DEF TypeOK, Remove, quotas, reserve, upload
<1>4. CASE Restart
  BY <1>4, QuotaAssumption DEF TypeOK, Restart, Phase
<1>5. CASE UNCHANGED vars
  BY <1>5, Zenon DEF TypeOK, vars, stored, quotas, reserve, upload
<1> QED BY <1>1, <1>3, <1>4, <1>5, Steps, Zenon

-----------------------------------------------------------------------------
(* Sums of reservations and of stored bytes are cardinalities (SumOf), so  *)
(* that the finite-set theorems give the one fact needed of them: changing *)
(* one summand changes the sum by as much.                                 *)

Bytes(x, n) == {x} \X (1..n)
AllBytes(f) == UNION {Bytes(x, f[x]) : x \in DOMAIN f}

\* The bytes of one summand.
LEMMA BytesOf ==
  ASSUME NEW x, NEW n \in Nat
  PROVE  IsFiniteSet(Bytes(x, n)) /\ Cardinality(Bytes(x, n)) = n
<1>1. IsFiniteSet({x}) /\ Cardinality({x}) = 1
  BY FS_Singleton, Zenon
<1>2. IsFiniteSet(1..n) /\ Cardinality(1..n) = n
  <2>1. IsFiniteSet(1..n) /\ Cardinality(1..n) = IF 1 > n THEN 0 ELSE n - 1 + 1
    BY FS_Interval
  <2> QED BY <2>1
<1>3. /\ IsFiniteSet({x} \X (1..n))
      /\ Cardinality({x} \X (1..n)) = Cardinality({x}) * Cardinality(1..n)
  BY <1>1, <1>2, FS_Product, Zenon
<1> QED BY <1>1, <1>2, <1>3 DEF Bytes

\* A finite family of naturals has finitely many bytes.
LEMMA AllBytesFinite ==
  ASSUME NEW S, IsFiniteSet(S), NEW f \in [S -> Nat]
  PROVE  IsFiniteSet(AllBytes(f))
<1> DEFINE T == {Bytes(x, f[x]) : x \in S}
           g == [x \in S |-> Bytes(x, f[x])]
<1>1. g \in Surjection(S, T)
  BY Zenon DEF Surjection
<1>2. IsFiniteSet(T)
  <2> HIDE DEF g, T
  <2> QED BY <1>1, FS_Surjection, Zenon
<1>3. \A B \in T : IsFiniteSet(B)
  <2> SUFFICES ASSUME NEW x \in S PROVE IsFiniteSet(Bytes(x, f[x]))
    OBVIOUS
  <2>1. f[x] \in Nat
    OBVIOUS
  <2> QED BY <2>1, BytesOf, Zenon
<1>4. IsFiniteSet(UNION T)
  <2> HIDE DEF T
  <2> QED BY <1>2, <1>3, FS_UNION
<1>5. AllBytes(f) = UNION T
  BY Zenon DEF AllBytes
<1> QED BY <1>4, <1>5, Zenon

LEMMA SumType ==
  ASSUME NEW S, IsFiniteSet(S), NEW f \in [S -> Nat]
  PROVE  SumOf(f) \in Nat /\ SumOf(f) = Cardinality(AllBytes(f))
<1>1. SumOf(f) = Cardinality(AllBytes(f))
  BY Zenon DEF SumOf, AllBytes, Bytes
<1> QED BY <1>1, AllBytesFinite, FS_CardinalityType, Zenon

\* One summand apart: the sum is that summand and the sum without it.
LEMMA SumApart ==
  ASSUME NEW S, IsFiniteSet(S), NEW f \in [S -> Nat], NEW x \in S
  PROVE  SumOf(f) = SumOf([f EXCEPT ![x] = 0]) + f[x]
<1> DEFINE z == [f EXCEPT ![x] = 0]
<1>1. z \in [S -> Nat] /\ f[x] \in Nat /\ z[x] = 0 /\ \A y \in S \ {x} : z[y] = f[y]
  OBVIOUS
<1> HIDE DEF z
<1>2. Bytes(x, 0) = {}
  BY DEF Bytes
<1>3. AllBytes(f) = AllBytes(z) \cup Bytes(x, f[x])
  <2>1. DOMAIN f = S /\ DOMAIN z = S
    BY <1>1, Zenon
  <2>2. \A y \in S : Bytes(y, z[y]) \subseteq Bytes(y, f[y])
    <3> SUFFICES ASSUME NEW y \in S PROVE Bytes(y, z[y]) \subseteq Bytes(y, f[y])
      OBVIOUS
    <3>1. CASE y = x
      BY <3>1, <1>1, <1>2, Zenon
    <3>2. CASE y # x
      BY <3>2, <1>1, Zenon
    <3> QED BY <3>1, <3>2, Zenon
  <2>3. ASSUME NEW b \in AllBytes(f) PROVE b \in AllBytes(z) \cup Bytes(x, f[x])
    <3>1. PICK y \in S : b \in Bytes(y, f[y])
      BY <2>1, <2>3, Zenon DEF AllBytes
    <3>2. CASE y = x
      BY <3>1, <3>2, Zenon
    <3>3. CASE y # x
      <4>1. b \in Bytes(y, z[y])
        BY <3>1, <3>3, <1>1
      <4> QED BY <4>1, <2>1, Zenon DEF AllBytes
    <3> QED BY <3>2, <3>3, Zenon
  <2>4. ASSUME NEW b \in AllBytes(z) PROVE b \in AllBytes(f)
    <3>1. PICK y \in S : b \in Bytes(y, z[y])
      BY <2>1, <2>4, Zenon DEF AllBytes
    <3>2. b \in Bytes(y, f[y])
      BY <3>1, <2>2, Zenon
    <3> QED BY <3>2, <2>1, Zenon DEF AllBytes
  <2>5. Bytes(x, f[x]) \subseteq AllBytes(f)
    BY <2>1, Zenon DEF AllBytes
  <2> QED BY <2>3, <2>4, <2>5
<1>4. AllBytes(z) \cap Bytes(x, f[x]) = {}
  <2> SUFFICES ASSUME NEW b \in AllBytes(z), b \in Bytes(x, f[x]) PROVE FALSE
    OBVIOUS
  <2>1. PICK y \in S : b \in Bytes(y, z[y])
    BY <1>1, Zenon DEF AllBytes
  <2>2. b[1] = y /\ b[1] = x
    BY <2>1, Zenon DEF Bytes
  <2> QED BY <2>1, <2>2, <1>1, <1>2, Zenon
<1>5. IsFiniteSet(AllBytes(z)) /\ Cardinality(AllBytes(z)) \in Nat
  BY <1>1, AllBytesFinite, FS_CardinalityType
<1>6. IsFiniteSet(Bytes(x, f[x])) /\ Cardinality(Bytes(x, f[x])) = f[x]
  BY <1>1, BytesOf, Zenon
<1>7. Cardinality(AllBytes(f)) = Cardinality(AllBytes(z)) + f[x] - Cardinality({})
  BY <1>3, <1>4, <1>5, <1>6, FS_Union
<1>8. SumOf(f) = Cardinality(AllBytes(f)) /\ SumOf(z) = Cardinality(AllBytes(z))
  BY <1>1, SumType, Zenon
<1>9. SumOf(f) = SumOf(z) + f[x]
  BY <1>1, <1>5, <1>7, <1>8, FS_EmptySet
<1> QED BY <1>9, Zenon DEF z

\* A summand is at most the sum.
LEMMA SumBound ==
  ASSUME NEW S, IsFiniteSet(S), NEW f \in [S -> Nat], NEW x \in S
  PROVE  f[x] <= SumOf(f)
<1>1. [f EXCEPT ![x] = 0] \in [S -> Nat] /\ f[x] \in Nat
  OBVIOUS
<1>2. SumOf([f EXCEPT ![x] = 0]) \in Nat
  BY <1>1, SumType, Zenon
<1>3. SumOf(f) = SumOf([f EXCEPT ![x] = 0]) + f[x]
  BY SumApart, Zenon
<1> QED BY <1>1, <1>2, <1>3

\* A summand is replaced.
LEMMA SumSet ==
  ASSUME NEW S, IsFiniteSet(S), NEW f \in [S -> Nat], NEW x \in S, NEW n \in Nat
  PROVE  SumOf([f EXCEPT ![x] = n]) = SumOf(f) - f[x] + n
<1> DEFINE g == [f EXCEPT ![x] = n]
           z == [f EXCEPT ![x] = 0]
<1>1. g \in [S -> Nat] /\ z \in [S -> Nat] /\ g[x] = n /\ [g EXCEPT ![x] = 0] = z /\ f[x] \in Nat
  BY Zenon
<1> HIDE DEF g, z
<1>2. SumOf(z) \in Nat /\ SumOf(f) \in Nat
  BY <1>1, SumType, Zenon
<1>3. SumOf(f) = SumOf(z) + f[x]
  BY SumApart, Zenon DEF z
<1>4. SumOf(g) = SumOf(z) + n
  BY <1>1, SumApart, Zenon
<1>5. SumOf(g) = SumOf(f) - f[x] + n
  BY <1>1, <1>2, <1>3, <1>4
<1> QED BY <1>5, Zenon DEF g

LEMMA SumZero ==
  ASSUME NEW S
  PROVE  SumOf([x \in S |-> 0]) = 0
<1>1. UNION {{x} \X (1..[y \in S |-> 0][x]) : x \in DOMAIN [y \in S |-> 0]} = {}
  OBVIOUS
<1> QED BY <1>1, FS_EmptySet, Zenon DEF SumOf
-----------------------------------------------------------------------------
(* The counters.                                                           *)

\* The trigger-maintained counter follows the rows.
LEMMA CounterStep == TypeOK /\ RuntimeCounterExact /\ [Next]_vars => RuntimeCounterExact'
<1> SUFFICES ASSUME TypeOK, RuntimeCounterExact, [Next]_vars PROVE total' = SumOf(used')
  BY Zenon DEF RuntimeCounterExact
<1>1. used \in [User -> Nat] /\ used' \in [User -> Nat] /\ IsFiniteSet(User)
  BY UsedType, QuotaAssumption, Zenon DEF TypeOK
<1>2. total = SumOf(used) /\ SumOf(used) \in Nat
  BY <1>1, SumType, Zenon DEF RuntimeCounterExact
<1>3. ASSUME NEW o \in User, NEW n \in Int, StoredBy(o, n) PROVE total' = SumOf(used')
  <2>1. used[o] \in Nat /\ used[o] + n \in Nat /\ total' = total + n
    BY <1>1, <1>3, Zenon DEF StoredBy
  <2>2. used' = [used EXCEPT ![o] = used[o] + n]
    BY <1>3, Zenon DEF StoredBy
  <2>3. SumOf([used EXCEPT ![o] = used[o] + n]) = SumOf(used) - used[o] + (used[o] + n)
    BY <1>1, <2>1, SumSet, Zenon
  <2> QED BY <1>2, <2>1, <2>2, <2>3
<1> QED BY <1>2, <1>3, StoredKinds, Zenon DEF stored

LEMMA TotalType == TypeOK /\ RuntimeCounterExact /\ [Next]_vars => TypeOK'
<1> SUFFICES ASSUME TypeOK, RuntimeCounterExact, [Next]_vars PROVE total' \in Nat
  BY TypeStep, Zenon
<1>1. used' \in [User -> Nat] /\ IsFiniteSet(User) /\ total' = SumOf(used')
  BY UsedType, CounterStep, QuotaAssumption, Zenon DEF RuntimeCounterExact
<1> QED BY <1>1, SumType, Zenon

\* One reservation changes, and both counters by as much.
LEMMA OneReservation ==
  ASSUME TypeOK, ReservationsExact, NEW c \in Conn, NEW n \in Nat,
         held' = [held EXCEPT ![c] = n],
         globalBytes' = globalBytes - held[c] + n,
         ownerBytes' = [ownerBytes EXCEPT ![VaultOwner[c]] = @ - held[c] + n]
  PROVE  ReservationsExact'
<1>1. held \in [Conn -> Nat]
  BY Zenon DEF TypeOK
<1>2. IsFiniteSet(Conn) /\ VaultOwner[c] \in User /\ held[c] \in Nat
  BY Numbers, QuotaAssumption, Zenon
<1>3. globalBytes' = SumOf(held')
  <2>1. SumOf([held EXCEPT ![c] = n]) = SumOf(held) - held[c] + n
    BY <1>1, <1>2, SumSet, Zenon
  <2> QED BY <2>1, Zenon DEF ReservationsExact
<1>4. ASSUME NEW u \in User PROVE ownerBytes'[u] = SumOf(HeldFor(u)')
  <2>1. HeldFor(u) \in [Conn -> Nat]
    BY <1>1, Zenon DEF HeldFor
  <2>2. SumOf(HeldFor(u)) = ownerBytes[u]
    BY Zenon DEF ReservationsExact
  <2>3. CASE VaultOwner[c] = u
    <3>1. HeldFor(u)' = [HeldFor(u) EXCEPT ![c] = n] /\ HeldFor(u)[c] = held[c]
      BY <1>1, <2>3, Zenon DEF HeldFor
    <3>2. SumOf([HeldFor(u) EXCEPT ![c] = n]) = SumOf(HeldFor(u)) - HeldFor(u)[c] + n
      BY <1>2, <2>1, SumSet, Zenon
    <3>3. ownerBytes'[u] = ownerBytes[u] - held[c] + n
      BY <1>2, <2>3, Zenon DEF TypeOK
    <3> QED BY <2>2, <3>1, <3>2, <3>3, Zenon
  <2>4. CASE VaultOwner[c] # u
    <3>1. HeldFor(u)' = HeldFor(u)
      BY <1>1, <2>4, Zenon DEF HeldFor
    <3>2. ownerBytes'[u] = ownerBytes[u]
      BY <1>2, <2>4, Zenon DEF TypeOK
    <3> QED BY <2>2, <3>1, <3>2, Zenon
  <2> QED BY <2>3, <2>4, Zenon
<1> QED BY <1>3, <1>4, Zenon DEF ReservationsExact

\* No reservation leaks and none is given back twice.
LEMMA ExactStep ==
  TypeOK /\ TaskInv /\ ReservationsExact /\ [Next]_vars => ReservationsExact'
<1> SUFFICES ASSUME TypeOK, TaskInv, ReservationsExact, [Next]_vars PROVE ReservationsExact'
  OBVIOUS
<1>1. UNCHANGED reserve => ReservationsExact'
  BY Zenon DEF ReservationsExact, HeldFor, reserve
<1>2. ASSUME NEW c \in Conn, Reserve(c) PROVE ReservationsExact'
  <2>1. held[c] = 0 /\ size[c] \in Nat /\ globalBytes \in Nat
    BY <1>2, Numbers, Zenon DEF TaskInv, LocalInv, Local, Reserving, Reserve
  <2>2. /\ held' = [held EXCEPT ![c] = size[c]] /\ globalBytes' = globalBytes - held[c] + size[c]
        /\ ownerBytes' = [ownerBytes EXCEPT ![VaultOwner[c]] = @ - held[c] + size[c]]
    <3>1. ownerBytes[VaultOwner[c]] \in Nat
      BY Numbers, Zenon
    <3>2. /\ ownerBytes[VaultOwner[c]] + size[c] = ownerBytes[VaultOwner[c]] - held[c] + size[c]
          /\ globalBytes + size[c] = globalBytes - held[c] + size[c]
      BY <2>1, <3>1
    <3> QED BY <1>2, <3>2, Zenon DEF Reserve
  <2> QED BY <2>1, <2>2, OneReservation, Zenon
<1>3. ASSUME NEW c \in Conn, Drop(c) PROVE ReservationsExact'
  <2>1. IsFiniteSet(Conn) /\ held \in [Conn -> Nat] /\ HeldFor(VaultOwner[c]) \in [Conn -> Nat]
    BY QuotaAssumption, Zenon DEF TypeOK, HeldFor
  <2>2. /\ VaultOwner[c] \in User /\ held[c] \in Nat /\ globalBytes \in Nat
        /\ ownerBytes[VaultOwner[c]] \in Nat
    BY Numbers, Zenon
  <2>3. held[c] <= globalBytes
    BY <2>1, SumBound, Zenon DEF ReservationsExact
  <2>4. HeldFor(VaultOwner[c])[c] = held[c]
    BY Zenon DEF HeldFor
  <2>5. held[c] <= ownerBytes[VaultOwner[c]]
    BY <2>1, <2>2, <2>4, SumBound DEF ReservationsExact
  <2>6. /\ Larger(globalBytes - held[c], 0) = globalBytes - held[c] + 0
        /\ Larger(ownerBytes[VaultOwner[c]] - held[c], 0) = ownerBytes[VaultOwner[c]] - held[c] + 0
    BY <2>2, <2>3, <2>5 DEF Larger
  <2>7. /\ held' = [held EXCEPT ![c] = 0] /\ globalBytes' = globalBytes - held[c] + 0
        /\ ownerBytes' = [ownerBytes EXCEPT ![VaultOwner[c]] = @ - held[c] + 0]
    BY <1>3, <2>6, Zenon DEF Drop
  <2> QED BY <2>7, OneReservation, Zenon
<1>4. CASE Restart
  <2>1. held' = [c \in Conn |-> 0] /\ globalBytes' = 0 /\ ownerBytes' = [u \in User |-> 0]
    BY <1>4, Zenon DEF Restart
  <2>2. \A u \in User : HeldFor(u)' = [c \in Conn |-> 0]
    BY <2>1, Zenon DEF HeldFor
  <2> QED BY <2>1, <2>2, SumZero, Zenon DEF ReservationsExact
<1>5. ASSUME NEW o \in User, NEW n \in Sizes, Remove(o, n) PROVE ReservationsExact'
  BY <1>1, <1>5, Zenon DEF Remove
<1>6. CASE UNCHANGED vars
  BY <1>1, <1>6, Zenon DEF vars
<1> QED BY <1>1, <1>2, <1>3, <1>4, <1>5, <1>6, Steps, ReserveKinds

-----------------------------------------------------------------------------
(* Room for every upload that was admitted.                                *)

\* There is room in both quotas for the uploads that are admitted and not
\* stored yet.  After a quota was lowered there are none until there is room.
RoomInv ==
  /\ SumOf(Owed) > 0 => total + SumOf(Owed) <= globalQuota
  /\ \A u \in User : SumOf(OwedBy(u)) > 0 => used[u] + SumOf(OwedBy(u)) <= ownerQuota

\* The part of QuotaHard that speaks of one step.
HardStep ==
  \A u \in User : used'[u] > used[u] =>
    /\ total' + SumOf(Owed') <= globalQuota'
    /\ used'[u] + SumOf(OwedBy(u)') <= ownerQuota'

LEMMA OwedType ==
  ASSUME TypeOK
  PROVE  /\ Owed \in [Conn -> Nat] /\ SumOf(Owed) \in Nat
         /\ \A u \in User : OwedBy(u) \in [Conn -> Nat] /\ SumOf(OwedBy(u)) \in Nat
<1>1. Owed \in [Conn -> Nat]
  BY Zenon DEF TypeOK, Owed
<1>2. \A u \in User : OwedBy(u) \in [Conn -> Nat]
  BY <1>1, Zenon DEF OwedBy
<1>3. IsFiniteSet(Conn)
  BY QuotaAssumption, Zenon
<1> QED BY <1>1, <1>2, <1>3, SumType, Zenon

\* While no task stands between its commit and the release of its reservation,
\* what is owed is what is reserved.
LEMMA OwedIsHeld ==
  ASSUME TypeOK, TaskInv, \A d \in Conn : pc[d] # "stored"
  PROVE  Owed = held /\ \A u \in User : OwedBy(u) = HeldFor(u)
<1>1. ASSUME NEW d \in Conn PROVE Owed[d] = held[d]
  BY TaskParts, Zenon DEF Local, Reserving, Owed
<1>2. Owed = held
  BY <1>1, Zenon DEF Owed, TypeOK
<1> QED BY <1>2, Zenon DEF OwedBy, HeldFor

\* The holder of the lock is the only task that can be in that window.
LEMMA HolderAlone ==
  ASSUME TypeOK, TaskInv, ReservationsExact, NEW c \in Conn, Locked(c), pc[c] # "stored"
  PROVE  SumOf(Owed) = globalBytes /\ \A u \in User : SumOf(OwedBy(u)) = ownerBytes[u]
<1>1. \A d \in Conn : pc[d] # "stored"
  BY TaskParts, Zenon DEF Locked
<1> QED BY <1>1, OwedIsHeld, Zenon DEF ReservationsExact

\* One summand of what is owed changes.
LEMMA OwedSum ==
  ASSUME TypeOK, NEW c \in Conn, NEW n \in Nat, Owed' = [Owed EXCEPT ![c] = n]
  PROVE  /\ SumOf(Owed') = SumOf(Owed) - Owed[c] + n
         /\ SumOf(OwedBy(VaultOwner[c])') = SumOf(OwedBy(VaultOwner[c])) - Owed[c] + n
         /\ \A u \in User : u # VaultOwner[c] => SumOf(OwedBy(u)') = SumOf(OwedBy(u))
         /\ Owed[c] <= SumOf(Owed) /\ Owed[c] <= SumOf(OwedBy(VaultOwner[c]))
<1>1. Owed \in [Conn -> Nat] /\ OwedBy(VaultOwner[c]) \in [Conn -> Nat] /\ IsFiniteSet(Conn)
  BY OwedType, Numbers, QuotaAssumption, Zenon
<1>2. OwedBy(VaultOwner[c])' = [OwedBy(VaultOwner[c]) EXCEPT ![c] = n]
      /\ OwedBy(VaultOwner[c])[c] = Owed[c]
  BY <1>1, Zenon DEF OwedBy
<1>3. ASSUME NEW u \in User, u # VaultOwner[c] PROVE OwedBy(u)' = OwedBy(u)
  BY <1>1, <1>3, Zenon DEF OwedBy
<1>4. SumOf([Owed EXCEPT ![c] = n]) = SumOf(Owed) - Owed[c] + n
  BY <1>1, SumSet, Zenon
<1>5. SumOf([OwedBy(VaultOwner[c]) EXCEPT ![c] = n])
        = SumOf(OwedBy(VaultOwner[c])) - OwedBy(VaultOwner[c])[c] + n
  BY <1>1, SumSet, Zenon
<1>6. Owed[c] <= SumOf(Owed) /\ OwedBy(VaultOwner[c])[c] <= SumOf(OwedBy(VaultOwner[c]))
  BY <1>1, SumBound, Zenon
<1> QED BY <1>2, <1>3, <1>4, <1>5, <1>6, Zenon

LEMMA ReleaseDrops == \A c : ReleaseReservation(c) => Drop(c)
BY Zenon DEF ReleaseReservation

\* Every quiet step but an admission leaves the same or less owed.
LEMMA OwedQuiet ==
  ASSUME TypeOK, TaskInv, NEW c \in Conn, Quiet(c), ~Reserve(c)
  PROVE  \E n \in Nat : n <= Owed[c] /\ Owed' = [Owed EXCEPT ![c] = n]
<1>1. Step(c)
  BY Zenon DEF Quiet, Step, Task
<1>2. held' \in [Conn -> Nat] /\ held[c] \in Nat /\ Owed \in [Conn -> Nat]
  BY <1>1, ReserveType, Numbers, OwedType
<1>0. Drop(c) => held'[c] = 0
  BY Zenon DEF Drop, TypeOK
<1>3. held'[c] <= held[c]
  BY <1>0, <1>1, <1>2, ReserveKinds DEF reserve
<1>4. ASSUME outcome[c] = "stored" PROVE held'[c] = 0
  <2>1. CASE pc[c] = "stored"
    <3>1. ReleaseReservation(c)
      BY <2>1, Zenon DEF Quiet, ReadUsage, FailAdmission, RefuseReserve, FinishDiscard, FailUpload,
         RemoveStaged, EndUpload, Discard, BeginPush, ReadReserved, BeginCopy, UploadChunk, Ready
    <3> QED BY <1>0, <3>1, ReleaseDrops, Zenon
  <2>2. CASE pc[c] # "stored"
    <3>1. held[c] = 0
      <4>1. Local(c)
        BY TaskParts, Zenon
      <4> QED BY <1>4, <2>2, <4>1, Zenon DEF Local, Reserving
    <3> QED BY SMTT(40), <1>2, <1>3, <3>1
  <2> QED BY <2>1, <2>2, Zenon
<1>5. \A d \in Conn : d # c => Owed'[d] = Owed[d]
  BY <1>1, OthersSame, Zenon DEF Owed, Same
<1>6. Owed'[c] \in Nat /\ Owed'[c] <= Owed[c]
  BY <1>2, <1>3, <1>4 DEF Owed
<1>7. Owed' = [Owed EXCEPT ![c] = Owed'[c]]
  BY <1>5, Zenon DEF Owed
<1> QED BY <1>6, <1>7, Zenon

\* A step that stores nothing and leaves less owed.
LEMMA RoomLess ==
  ASSUME TypeOK, RoomInv, UNCHANGED <<stored, quotas>>,
         NEW c \in Conn, NEW n \in Nat, n <= Owed[c], Owed' = [Owed EXCEPT ![c] = n]
  PROVE  RoomInv' /\ HardStep
<1>1. /\ SumOf(Owed) \in Nat /\ Owed[c] \in Nat
      /\ \A u \in User : SumOf(OwedBy(u)) \in Nat /\ used[u] \in Nat
      /\ VaultOwner[c] \in User /\ total \in Nat /\ globalQuota \in Nat /\ ownerQuota \in Nat
  BY OwedType, Numbers, UsedNat, Zenon
<1>2. total' = total /\ used' = used /\ globalQuota' = globalQuota /\ ownerQuota' = ownerQuota
  BY Zenon DEF stored, quotas
<1>a. /\ SumOf(Owed') = SumOf(Owed) - Owed[c] + n
      /\ SumOf(OwedBy(VaultOwner[c])') = SumOf(OwedBy(VaultOwner[c])) - Owed[c] + n
      /\ \A u \in User : u # VaultOwner[c] => SumOf(OwedBy(u)') = SumOf(OwedBy(u))
      /\ Owed[c] <= SumOf(Owed) /\ Owed[c] <= SumOf(OwedBy(VaultOwner[c]))
  BY OwedSum, Zenon
<1>3. SumOf(Owed') <= SumOf(Owed) /\ SumOf(Owed') \in Nat
  BY <1>1, <1>a
<1>4. ASSUME NEW u \in User PROVE SumOf(OwedBy(u)') <= SumOf(OwedBy(u)) /\ SumOf(OwedBy(u)') \in Nat
  <2>1. CASE u = VaultOwner[c]
    BY <1>1, <1>a, <2>1
  <2>2. CASE u # VaultOwner[c]
    BY <1>1, <1>a, <2>2
  <2> QED BY <2>1, <2>2, Zenon
<1>5. SumOf(Owed') > 0 => total' + SumOf(Owed') <= globalQuota'
  BY <1>1, <1>2, <1>3 DEF RoomInv
<1>6. ASSUME NEW u \in User, SumOf(OwedBy(u)') > 0 PROVE used'[u] + SumOf(OwedBy(u)') <= ownerQuota'
  <2>1. used[u] + SumOf(OwedBy(u)) <= ownerQuota
    BY <1>1, <1>4, <1>6 DEF RoomInv
  <2> QED BY <1>1, <1>2, <1>4, <2>1
<1>7. HardStep
  BY <1>1, <1>2 DEF HardStep
<1> QED BY <1>5, <1>6, <1>7, Zenon DEF RoomInv

\* Admission leaves room for what it admits.
LEMMA RoomReserve ==
  ASSUME TypeOK, TaskInv, ReservationsExact, RoomInv, NEW c \in Conn, Reserve(c)
  PROVE  RoomInv' /\ HardStep
<1> DEFINE o == VaultOwner[c]
<1>1. /\ SumOf(Owed) \in Nat /\ size[c] \in Nat /\ \A u \in User : SumOf(OwedBy(u)) \in Nat /\ used[u] \in Nat
      /\ o \in User /\ total \in Nat /\ globalQuota \in Nat /\ ownerQuota \in Nat
  BY OwedType, Numbers, UsedNat, Zenon
<1>2. /\ total' = total /\ used' = used /\ globalQuota' = globalQuota /\ ownerQuota' = ownerQuota
      /\ pc[c] = "reserve" /\ outcome' = outcome /\ held' = [held EXCEPT ![c] = size[c]]
  BY Zenon DEF Reserve, stored, quotas
<1>3. SumOf(Owed) = globalBytes /\ \A u \in User : SumOf(OwedBy(u)) = ownerBytes[u]
  BY <1>2, HolderAlone, Zenon DEF Locked
<1>4. read[c] = <<total, used[o]>>
  BY <1>2, TaskParts, Zenon DEF GoodRead
<1>5. total + SumOf(Owed) + size[c] <= globalQuota /\ used[o] + SumOf(OwedBy(o)) + size[c] <= ownerQuota
  BY <1>1, <1>3, <1>4 DEF Reserve, CanReserve
<1>6. outcome[c] = "none" /\ held[c] = 0
  BY <1>2, TaskParts, Zenon DEF Local, Reserving
<1>7. Owed' = [Owed EXCEPT ![c] = size[c]] /\ Owed[c] = 0
  BY Zenon, <1>2, <1>6 DEF Owed, TypeOK
<1>8. /\ SumOf(Owed') = SumOf(Owed) + size[c] /\ SumOf(OwedBy(o)') = SumOf(OwedBy(o)) + size[c]
      /\ \A u \in User : u # o => SumOf(OwedBy(u)') = SumOf(OwedBy(u))
  <2>1. /\ SumOf(Owed') = SumOf(Owed) - Owed[c] + size[c]
        /\ SumOf(OwedBy(VaultOwner[c])') = SumOf(OwedBy(VaultOwner[c])) - Owed[c] + size[c]
        /\ \A u \in User : u # VaultOwner[c] => SumOf(OwedBy(u)') = SumOf(OwedBy(u))
    BY <1>1, <1>7, OwedSum, Zenon
  <2> QED BY <1>1, <1>7, <2>1
<1> HIDE DEF o
<1>9. total' + SumOf(Owed') <= globalQuota' /\ used'[o] + SumOf(OwedBy(o)') <= ownerQuota'
  BY <1>1, <1>2, <1>5, <1>8
<1>10. ASSUME NEW u \in User, SumOf(OwedBy(u)') > 0 PROVE used'[u] + SumOf(OwedBy(u)') <= ownerQuota'
  BY <1>2, <1>8, <1>9, <1>10 DEF RoomInv
<1>11. HardStep
  BY <1>1, <1>2 DEF HardStep
<1> QED BY <1>9, <1>10, <1>11, Zenon DEF RoomInv

\* The commit of an admitted upload finds its room, and uses up what was owed.
LEMMA RoomCommit ==
  ASSUME TypeOK, TaskInv, RoomInv, NEW c \in Conn, CommitUpload(c)
  PROVE  RoomInv' /\ HardStep /\ outcome'[c] = "stored"
<1> DEFINE o == VaultOwner[c]
<1>1. /\ SumOf(Owed) \in Nat /\ size[c] \in Nat /\ \A u \in User : SumOf(OwedBy(u)) \in Nat /\ used[u] \in Nat
      /\ o \in User /\ total \in Nat /\ globalQuota \in Nat /\ ownerQuota \in Nat
  BY OwedType, Numbers, UsedNat, Zenon
<1>2. pc[c] = "commit" /\ UNCHANGED quotas /\ held' = held
  BY Zenon DEF CommitUpload, reserve
<1>3. outcome[c] = "none" /\ held[c] = size[c] /\ size[c] > 0
  BY <1>2, TaskParts, Zenon DEF Local, Reserving
<1>4. Owed[c] = size[c]
  BY <1>3, Zenon DEF Owed
<1>5. size[c] <= SumOf(Owed) /\ size[c] <= SumOf(OwedBy(o))
  <2>1. Owed \in [Conn -> Nat] /\ OwedBy(o) \in [Conn -> Nat] /\ IsFiniteSet(Conn) /\ OwedBy(o)[c] = Owed[c]
    BY <1>1, OwedType, QuotaAssumption DEF OwedBy
  <2>2. Owed[c] <= SumOf(Owed) /\ OwedBy(o)[c] <= SumOf(OwedBy(o))
    BY <2>1, SumBound, Zenon
  <2> QED BY <1>4, <2>1, <2>2, Zenon
<1>6. total + SumOf(Owed) <= globalQuota /\ used[o] + SumOf(OwedBy(o)) <= ownerQuota
  BY <1>1, <1>3, <1>5 DEF RoomInv
<1>7. WithinQuotas(o, size[c], globalQuota, ownerQuota)
  BY <1>1, <1>3, <1>5, <1>6 DEF WithinQuotas
<1>8. outcome' = [outcome EXCEPT ![c] = "stored"] /\ Add(o, size[c])
  BY <1>7, Zenon DEF CommitUpload
<1>9. Owed' = [Owed EXCEPT ![c] = 0]
  BY Zenon, <1>2, <1>8 DEF Owed, TypeOK
<1>10. /\ SumOf(Owed') = SumOf(Owed) - size[c] /\ SumOf(OwedBy(o)') = SumOf(OwedBy(o)) - size[c]
       /\ \A u \in User : u # o => SumOf(OwedBy(u)') = SumOf(OwedBy(u))
  <2>0. 0 \in Nat
    OBVIOUS
  <2>1. /\ SumOf(Owed') = SumOf(Owed) - Owed[c] + 0
        /\ SumOf(OwedBy(VaultOwner[c])') = SumOf(OwedBy(VaultOwner[c])) - Owed[c] + 0
        /\ \A u \in User : u # VaultOwner[c] => SumOf(OwedBy(u)') = SumOf(OwedBy(u))
    BY <1>9, <2>0, OwedSum, Zenon
  <2> QED BY <1>1, <1>4, <2>1
<1>11. /\ total' = total + size[c] /\ used'[o] = used[o] + size[c]
       /\ \A u \in User : u # o => used'[u] = used[u]
       /\ globalQuota' = globalQuota /\ ownerQuota' = ownerQuota
  BY <1>1, <1>2, <1>8 DEF Add, quotas, TypeOK
<1> HIDE DEF o
<1>12. total' + SumOf(Owed') <= globalQuota' /\ used'[o] + SumOf(OwedBy(o)') <= ownerQuota'
  BY <1>1, <1>6, <1>10, <1>11
<1>13. ASSUME NEW u \in User, SumOf(OwedBy(u)') > 0 PROVE used'[u] + SumOf(OwedBy(u)') <= ownerQuota'
  BY <1>10, <1>11, <1>12, <1>13 DEF RoomInv
<1>14. HardStep
  BY <1>1, <1>11, <1>12 DEF HardStep
<1> QED BY SMTT(40), <1>8, <1>12, <1>13, <1>14 DEF RoomInv, TypeOK

\* A restore leaves room for what others are owed.
LEMMA RoomRestore ==
  ASSUME TypeOK, TaskInv, ReservationsExact, RoomInv, NEW c \in Conn, CommitRestore(c)
  PROVE  RoomInv' /\ HardStep
<1> DEFINE o == VaultOwner[c]
<1>1. /\ SumOf(Owed) \in Nat /\ copying[c] \in Nat
      /\ \A u \in User : SumOf(OwedBy(u)) \in Nat /\ used[u] \in Nat /\ ownerBytes[u] \in Nat
      /\ o \in User /\ total \in Nat /\ globalQuota \in Nat /\ ownerQuota \in Nat /\ globalBytes \in Nat
  BY OwedType, Numbers, UsedNat, Zenon
<1>2. copying[c] > 0 /\ UNCHANGED quotas /\ held' = held /\ outcome' = outcome
  BY Zenon DEF CommitRestore, reserve
<1>3. SumOf(Owed') = SumOf(Owed) /\ \A u \in User : SumOf(OwedBy(u)') = SumOf(OwedBy(u))
  BY <1>2, Zenon DEF Owed, OwedBy
<1>4. pc[c] # "stored" /\ Locked(c)
  BY <1>2, TaskParts, Zenon DEF Local, Locked
<1>5. SumOf(Owed) = globalBytes /\ \A u \in User : SumOf(OwedBy(u)) = ownerBytes[u]
  BY <1>4, HolderAlone, Zenon
<1>6. read[c][1] <= globalQuota - globalBytes /\ read[c][2] <= ownerQuota - ownerBytes[o]
  BY <1>2, TaskParts, Zenon DEF GoodRead
<1>7. read[c][1] \in Int /\ read[c][2] \in Int
  BY Zenon DEF TypeOK
<1>8. globalQuota' = globalQuota /\ ownerQuota' = ownerQuota
  BY <1>2, Zenon DEF quotas
<1>9. CASE WithinQuotas(o, copying[c], read[c][1], read[c][2])
  <2>1. Add(o, copying[c])
    BY <1>9, Zenon DEF CommitRestore
  <2>2. /\ total' = total + copying[c] /\ used'[o] = used[o] + copying[c]
        /\ \A u \in User : u # o => used'[u] = used[u]
    BY <1>1, <2>1, Zenon DEF Add, TypeOK
  <2>3. total + copying[c] <= read[c][1] /\ used[o] + copying[c] <= read[c][2]
    BY <1>9, Zenon DEF WithinQuotas
  <2> HIDE DEF o
  <2>4. total' + SumOf(Owed') <= globalQuota'
    BY SMTT(40), <1>1, <1>3, <1>5, <1>6, <1>7, <1>8, <2>2, <2>3
  <2>5. used'[o] + SumOf(OwedBy(o)') <= ownerQuota'
    BY SMTT(40), <1>1, <1>3, <1>5, <1>6, <1>7, <1>8, <2>2, <2>3
  <2>6. ASSUME NEW u \in User, SumOf(OwedBy(u)') > 0 PROVE used'[u] + SumOf(OwedBy(u)') <= ownerQuota'
    BY <1>3, <1>8, <2>2, <2>5, <2>6 DEF RoomInv
  <2>7. HardStep
    BY <1>1, <2>2, <2>4, <2>5 DEF HardStep
  <2> QED BY <2>4, <2>6, <2>7, Zenon DEF RoomInv
<1>10. CASE ~WithinQuotas(o, copying[c], read[c][1], read[c][2])
  <2>1. total' = total /\ used' = used
    BY <1>10, Zenon DEF CommitRestore, stored
  <2>2. RoomInv'
    BY <1>3, <1>8, <2>1, Zenon DEF RoomInv
  <2>3. HardStep
    BY <1>1, <2>1 DEF HardStep
  <2> QED BY <2>2, <2>3, Zenon
<1> QED BY <1>9, <1>10, Zenon

\* Deleting rows only makes room.
LEMMA RoomRemove ==
  ASSUME TypeOK, RoomInv, NEW o \in User, NEW n \in Sizes, Remove(o, n)
  PROVE  RoomInv' /\ HardStep
<1>1. /\ SumOf(Owed) \in Nat /\ n \in Nat
      /\ \A u \in User : SumOf(OwedBy(u)) \in Nat /\ used[u] \in Nat
      /\ total \in Nat /\ globalQuota \in Nat /\ ownerQuota \in Nat
  BY OwedType, SizesNat, QuotaAssumption DEF TypeOK
<1>2. UNCHANGED quotas /\ held' = held /\ outcome' = outcome /\ n <= used[o] /\ Add(o, -n)
  BY Zenon DEF Remove, reserve
<1>3. SumOf(Owed') = SumOf(Owed) /\ \A u \in User : SumOf(OwedBy(u)') = SumOf(OwedBy(u))
  BY <1>2, Zenon DEF Owed, OwedBy
<1>4. globalQuota' = globalQuota /\ ownerQuota' = ownerQuota
  BY <1>2, Zenon DEF quotas
<1>5. total' = total - n /\ \A u \in User : used'[u] \in Int /\ used'[u] <= used[u]
  BY SMTT(40), <1>1, <1>2 DEF Add, TypeOK
<1>6. SumOf(Owed') > 0 => total' + SumOf(Owed') <= globalQuota'
  BY <1>1, <1>3, <1>4, <1>5 DEF RoomInv
<1>7. ASSUME NEW u \in User, SumOf(OwedBy(u)') > 0 PROVE used'[u] + SumOf(OwedBy(u)') <= ownerQuota'
  <2>1. used[u] + SumOf(OwedBy(u)) <= ownerQuota
    BY <1>3, <1>7, Zenon DEF RoomInv
  <2>2. used'[u] \in Int /\ used'[u] <= used[u] /\ used[u] \in Nat /\ SumOf(OwedBy(u)) \in Nat
    BY <1>1, <1>5, Zenon
  <2> QED BY <1>1, <1>3, <1>4, <2>1, <2>2
<1>8. HardStep
  BY <1>1, <1>5 DEF HardStep
<1> QED BY <1>6, <1>7, <1>8 DEF RoomInv

LEMMA RoomStep ==
  TypeOK /\ TaskInv /\ ReservationsExact /\ RoomInv /\ [Next]_vars => RoomInv' /\ HardStep
<1> SUFFICES ASSUME TypeOK, TaskInv, ReservationsExact, RoomInv, [Next]_vars
             PROVE  RoomInv' /\ HardStep
  OBVIOUS
<1>1. ASSUME NEW c \in Conn, Quiet(c) PROVE RoomInv' /\ HardStep
  <2>1. CASE Reserve(c)
    BY <2>1, RoomReserve, Zenon
  <2>2. CASE ~Reserve(c)
    <3>1. PICK n \in Nat : n <= Owed[c] /\ Owed' = [Owed EXCEPT ![c] = n]
      BY <1>1, <2>2, OwedQuiet, Zenon
    <3>2. UNCHANGED <<stored, quotas>>
      BY <1>1, QuietStores, Zenon
    <3> QED BY <3>1, <3>2, RoomLess, Zenon
  <2> QED BY <2>1, <2>2, Zenon
<1>2. ASSUME NEW c \in Conn, Storing(c) PROVE RoomInv' /\ HardStep
  <2>1. VaultOwner[c] \in User
    BY Numbers, Zenon
  <2>2. ASSUME NEW s \in Sizes, Purge(c, s) PROVE RoomInv' /\ HardStep
    <3>1. Remove(VaultOwner[c], s)
      BY <2>2, Zenon DEF Purge
    <3> QED BY <2>1, <3>1, RoomRemove, Zenon
  <2> QED BY <1>2, <2>2, RoomCommit, RoomRestore, Zenon DEF Storing
<1>3. CASE Restart
  <2>1. Owed' = [c \in Conn |-> 0] /\ used' = used
    BY <1>3, Zenon DEF Owed, Restart
  <2>2. \A u \in User : OwedBy(u)' = [c \in Conn |-> 0]
    BY <2>1, Zenon DEF OwedBy
  <2>3. SumOf([c \in Conn |-> 0]) = 0
    BY SumZero, Zenon
  <2>4. RoomInv'
    BY <2>1, <2>2, <2>3 DEF RoomInv
  <2> QED BY <2>1, <2>4 DEF HardStep, TypeOK
<1>4. CASE UNCHANGED vars
  <2>1. UNCHANGED <<total, used, globalQuota, ownerQuota, held, outcome>>
    BY <1>4, Zenon DEF vars, stored, quotas, reserve
  <2>2. Owed' = Owed /\ \A u \in User : OwedBy(u)' = OwedBy(u)
    BY <2>1, Zenon DEF Owed, OwedBy
  <2> QED BY <2>1, <2>2 DEF RoomInv, HardStep, TypeOK
<1>5. ASSUME NEW o \in User, NEW n \in Sizes, Remove(o, n) PROVE RoomInv' /\ HardStep
  BY <1>5, RoomRemove, Zenon
<1> QED BY <1>1, <1>2, <1>3, <1>4, <1>5, Steps, StepSplit, Zenon

-----------------------------------------------------------------------------
(* Theorems.                                                               *)

QuotaInv ==
  TypeOK /\ TaskInv /\ RuntimeCounterExact /\ ReservationsExact /\ RoomInv /\ AdmittedNeverRefused

LEMMA QuotaInvInit == Init => QuotaInv
<1> SUFFICES ASSUME Init PROVE QuotaInv
  OBVIOUS
<1>1. /\ used = [u \in User |-> 0] /\ total = 0 /\ globalBytes = 0 /\ ownerBytes = [u \in User |-> 0]
      /\ held = [c \in Conn |-> 0] /\ outcome = [c \in Conn |-> "none"]
  BY Zenon DEF Init
<1>2. Owed = [c \in Conn |-> 0]
  BY <1>1, Zenon DEF Owed
<1>3. \A u \in User : HeldFor(u) = [c \in Conn |-> 0] /\ OwedBy(u) = [c \in Conn |-> 0]
  BY <1>1, <1>2, Zenon DEF HeldFor, OwedBy
<1>4. SumOf([u \in User |-> 0]) = 0 /\ SumOf([c \in Conn |-> 0]) = 0
  BY SumZero, Zenon
<1>5. RuntimeCounterExact /\ ReservationsExact
  BY <1>1, <1>3, <1>4 DEF RuntimeCounterExact, ReservationsExact
<1>6. RoomInv
  BY <1>2, <1>3, <1>4 DEF RoomInv
<1>7. AdmittedNeverRefused
  BY <1>1, Zenon DEF AdmittedNeverRefused
<1> QED BY <1>5, <1>6, <1>7, TypeInit, TaskInvInit DEF QuotaInv

\* Only a commit could refuse an upload, and it finds room.
LEMMA RefusedStep ==
  TypeOK /\ TaskInv /\ RoomInv /\ AdmittedNeverRefused /\ [Next]_vars => AdmittedNeverRefused'
<1> SUFFICES ASSUME TypeOK, TaskInv, RoomInv, AdmittedNeverRefused, [Next]_vars, NEW d \in Conn
             PROVE  outcome'[d] # "quota"
  BY Zenon DEF AdmittedNeverRefused
<1>0. outcome[d] # "quota" /\ outcome \in [Conn -> {"none", "stored", "quota", "failed"}]
  BY Zenon DEF AdmittedNeverRefused, TypeOK
<1>1. ASSUME NEW c \in Conn, Step(c) PROVE outcome'[d] # "quota"
  <2>1. CASE CommitUpload(c)
    <3>1. outcome'[c] = "stored"
      BY <2>1, RoomCommit, Zenon
    <3> QED BY <1>0, <2>1, <3>1 DEF CommitUpload
  <2>2. CASE FailUpload(c)
    BY <1>0, <2>2, Zenon DEF FailUpload
  <2>3. CASE Forget(c) \/ UNCHANGED outcome
    BY <1>0, <2>3 DEF Forget
  <2>4. CommitUpload(c) \/ FailUpload(c) \/ Forget(c) \/ UNCHANGED outcome
    BY <1>1, Zenon DEF Step, Task, ReadUsage, FailAdmission, Reserve, RefuseReserve, FinishDiscard,
       ReleaseReservation, RemoveStaged, EndUpload, CommitRestore, Discard, BeginPush,
       ReadReserved, BeginCopy, Purge, Remove, UploadChunk
  <2> QED BY <2>1, <2>2, <2>3, <2>4, Zenon
<1>2. ASSUME NEW o \in User, NEW n \in Sizes, Remove(o, n) PROVE outcome'[d] # "quota"
  BY <1>0, <1>2, Zenon DEF Remove
<1>3. CASE Restart
  BY <1>3, Zenon DEF Restart
<1>4. CASE UNCHANGED vars
  BY <1>0, <1>4, Zenon DEF vars
<1> QED BY <1>1, <1>2, <1>3, <1>4, Steps

LEMMA QuotaInvStep == QuotaInv /\ [Next]_vars => QuotaInv'
BY TotalType, TaskInvStep, CounterStep, ExactStep, RoomStep, RefusedStep DEF QuotaInv

\* No step of an upload, a restore, a purge or a restart breaks the inductive
\* invariant.
THEOREM QuotaInvHolds == Spec => []QuotaInv
BY QuotaInvInit, QuotaInvStep, PTL DEF Spec

\* Every reachable state is well typed: in particular the trigger-maintained
\* counter never becomes negative.
THEOREM TypeCorrect == Spec => []TypeOK
<1>1. QuotaInv => TypeOK
  BY Zenon DEF QuotaInv
<1> QED BY <1>1, QuotaInvHolds, PTL

\* add_file_revision_for_session never refuses, for quota, an upload that
\* begin_push admitted, whatever the quotas and however many uploads compete.
THEOREM NeverRefused == Spec => []AdmittedNeverRefused
<1>1. QuotaInv => AdmittedNeverRefused
  BY Zenon DEF QuotaInv
<1> QED BY <1>1, QuotaInvHolds, PTL

\* StorageReservation::drop gives back exactly what try_reserve took.
THEOREM ReservationsAreExact == Spec => []ReservationsExact
<1>1. QuotaInv => ReservationsExact
  BY Zenon DEF QuotaInv
<1> QED BY <1>1, QuotaInvHolds, PTL

\* The counter of temp.blackglass_runtime_storage_usage is the sum of the rows.
THEOREM CounterIsExact == Spec => []RuntimeCounterExact
<1>1. QuotaInv => RuntimeCounterExact
  BY Zenon DEF QuotaInv
<1> QED BY <1>1, QuotaInvHolds, PTL

\* upload_chunk never stages more than was reserved.
THEOREM StagedIsReserved == Spec => []StagedWithinReservation
<1>1. QuotaInv => StagedWithinReservation
  BY Zenon DEF QuotaInv, TaskInv, LocalInv, Local, Reserving, StagedWithinReservation
<1> QED BY <1>1, QuotaInvHolds, PTL

\* Commits and restores leave room in both quotas for every pending upload.
THEOREM QuotasAreHard == Spec => QuotaHard
<1>1. QuotaInv /\ [Next]_vars => HardStep
  BY RoomStep, Zenon DEF QuotaInv
<1>2. QuotaInv /\ [Next]_vars =>
        [\A u \in User : used'[u] > used[u] =>
           /\ total' + SumOf(Owed') <= globalQuota'
           /\ used'[u] + SumOf(OwedBy(u)') <= ownerQuota']_vars
  BY <1>1, Zenon DEF HardStep
<1> QED BY <1>2, QuotaInvHolds, PTL DEF Spec, QuotaHard

\* The limit effective_storage_limit advertises is the one try_reserve applies.
THEOREM AdvertisedAdmitted == Spec => []AdvertisedIsAdmitted
<1>1. TypeOK => AdvertisedIsAdmitted
  <2> SUFFICES ASSUME TypeOK, NEW u \in User, NEW n \in Sizes
               PROVE  used[u] + n <= effective_storage_limit(u) <=> CanReserve(<<total, used[u]>>, u, n)
    BY Zenon DEF AdvertisedIsAdmitted
  <2>1. /\ n \in Nat /\ n > 0 /\ used[u] \in Nat /\ total \in Nat /\ ownerBytes[u] \in Nat
        /\ globalBytes \in Nat /\ globalQuota \in Nat /\ ownerQuota \in Nat
    BY SizesNat, QuotaAssumption, Zenon DEF TypeOK
  <2> QED BY <2>1 DEF effective_storage_limit, CanReserve, Larger, Smaller
<1> QED BY <1>1, TypeCorrect, PTL
=============================================================================
