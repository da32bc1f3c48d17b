---------------------------- MODULE Vaults_proofs ----------------------------
(***************************************************************************)
(* Theorems about RevisionStore, for any paths, sizes, pages and tables to *)
(* start from; and about Vaults, for any users, identities, keys, names,   *)
(* requests and limits, and for a clock that moves in any way.             *)
(***************************************************************************)
EXTENDS RevisionStore, Vaults, TLAPS

-----------------------------------------------------------------------------
(* Numbers and finite sets.                                                *)

\* What the arguments use of the least number and of finite sets.  CountingHolds, below,
\* has it from the library.
Counting ==
  /\ \A S : S \subseteq Nat /\ S # {} => \E m \in S : \A x \in S : m <= x
  /\ IsFiniteSet({}) /\ Cardinality({}) = 0
  /\ \A x : IsFiniteSet({x}) /\ Cardinality({x}) = 1
  /\ \A m \in Nat : IsFiniteSet(0..m)
  /\ \A S : IsFiniteSet(S) =>
       /\ Cardinality(S) \in Nat
       /\ \A T : T \subseteq S => IsFiniteSet(T) /\ Cardinality(T) <= Cardinality(S)
       /\ \A x \in S : IsFiniteSet(S \ {x}) /\ Cardinality(S \ {x}) = Cardinality(S) - 1
       /\ \A T : IsFiniteSet(T) =>
            IsFiniteSet(S \cup T) /\ Cardinality(S \cup T) <= Cardinality(S) + Cardinality(T)
       /\ \A T : \A f \in Surjection(S, T) : IsFiniteSet(T) /\ Cardinality(T) <= Cardinality(S)

\* A nonempty set of naturals has a least element.
LEMMA Least ==
  ASSUME Counting, NEW S, S \subseteq Nat, S # {}
  PROVE  \E m \in S : \A x \in S : m <= x
BY Zenon DEF Counting

\* The number of elements is a number.
LEMMA Counted ==
  ASSUME Counting, NEW S, IsFiniteSet(S)
  PROVE  Cardinality(S) \in Nat
BY Zenon DEF Counting

\* The empty set, and a set of one.
LEMMA NothingCounts ==
  ASSUME Counting
  PROVE  IsFiniteSet({}) /\ Cardinality({}) = 0
BY Zenon DEF Counting

LEMMA OneCounts ==
  ASSUME Counting
  PROVE  \A x : IsFiniteSet({x}) /\ Cardinality({x}) = 1
BY Zenon DEF Counting

\* A subset is finite and no larger.
LEMMA Fewer ==
  ASSUME Counting, NEW S, IsFiniteSet(S), NEW T, T \subseteq S
  PROVE  /\ IsFiniteSet(T) /\ Cardinality(T) \in Nat /\ Cardinality(S) \in Nat
         /\ Cardinality(T) <= Cardinality(S)
<1>1. IsFiniteSet(T) /\ Cardinality(T) <= Cardinality(S)
  BY Zenon DEF Counting
<1> QED BY <1>1, Counted, Zenon

\* One element less.
LEMMA OneLess ==
  ASSUME Counting, NEW S, IsFiniteSet(S), NEW x \in S
  PROVE  IsFiniteSet(S \ {x}) /\ Cardinality(S \ {x}) = Cardinality(S) - 1
BY Zenon DEF Counting

\* A union is finite and no larger than its parts together.
LEMMA Together ==
  ASSUME Counting, NEW S, IsFiniteSet(S), NEW T, IsFiniteSet(T)
  PROVE  /\ IsFiniteSet(S \cup T) /\ Cardinality(S \cup T) \in Nat
         /\ Cardinality(S) \in Nat /\ Cardinality(T) \in Nat
         /\ Cardinality(S \cup T) <= Cardinality(S) + Cardinality(T)
<1>1. IsFiniteSet(S \cup T) /\ Cardinality(S \cup T) <= Cardinality(S) + Cardinality(T)
  BY Zenon DEF Counting
<1> QED BY <1>1, Counted, Zenon

\* An image is finite and no larger.
LEMMA ImageCounts ==
  ASSUME Counting, NEW S, NEW T, NEW f \in Surjection(S, T), IsFiniteSet(S)
  PROVE  IsFiniteSet(T) /\ Cardinality(T) <= Cardinality(S)
BY Zenon DEF Counting

-----------------------------------------------------------------------------
(* RevisionStore: the tables.                                              *)

StoredRow ==
  [path : Path, related : Path \cup {Null}, folder : BOOLEAN, deleted : BOOLEAN,
   size : Nat, inline : ContentBlob \cup {Null}]

\* The revision_content of u, if there is one.
Moved(u) == IF u \in DOMAIN content THEN content[u] ELSE Null

\* A row r whose revision_content is b: content as long as declared, in one place.
SoundRevision(r, b) ==
  /\ r \in StoredRow
  /\ r.folder \/ r.deleted => r.size = 0
  /\ IF r.size = 0 THEN r.inline = Null /\ b = Null
     ELSE \/ r.inline = Null /\ b \in ContentBlob /\ b.len = r.size
          \/ b = Null /\ r.inline \in ContentBlob /\ r.inline.len = r.size

\* The inductive invariant of the tables: numbers are below the sequence, which the
\* version keeps up with, and the size is what the last transaction left.
SoundTables ==
  /\ seq \in Nat /\ seq <= MaxUid /\ version = seq
  /\ Uid \subseteq 1..seq /\ DOMAIN content \subseteq Uid
  /\ \A u \in DOMAIN content : content[u] \in ContentBlob
  /\ \A u \in Uid : SoundRevision(rows[u], Moved(u))
  /\ size = VaultSize(rows)

\* What a transaction does to the revisions that were there: it removes some, changes
\* none, and gives those it adds new numbers.
Later ==
  /\ seq' \in Nat /\ seq <= seq'
  /\ \A u \in Uid' : u <= seq => u \in Uid /\ rows'[u] = rows[u] /\ ContentOf(u)' = ContentOf(u)

\* What the assumptions say of Null.
LEMMA NullIsNew ==
  /\ Null \notin Nat /\ Null \notin ContentBlob
  /\ \A d \in Nat \ {0}, f, n \in Nat : [data |-> d, from |-> f, len |-> n] # Null
<1>1. Null \notin Nat /\ Null \notin ContentBlob /\ Null \notin [data : Nat \ {0}, from : Nat, len : Nat]
  BY RevisionAssumption, Zenon
<1>2. ASSUME NEW d \in Nat \ {0}, NEW f \in Nat, NEW n \in Nat
      PROVE  [data |-> d, from |-> f, len |-> n] # Null
  <2>1. [data |-> d, from |-> f, len |-> n] \in [data : Nat \ {0}, from : Nat, len : Nat]
    BY Zenon
  <2> QED BY <1>1, <2>1, Zenon
<1>3. \A d \in Nat \ {0}, f, n \in Nat : [data |-> d, from |-> f, len |-> n] # Null
  BY <1>2, Zenon
<1> QED BY <1>1, <1>3, Zenon

\* The content of a revision is its revision_content, or else inline.
LEMMA WhereContentIs ==
  ASSUME SoundTables, NEW u \in Uid
  PROVE  /\ (u \in DOMAIN content) <=> (Moved(u) # Null)
         /\ ContentOf(u) = IF Moved(u) # Null THEN Moved(u) ELSE rows[u].inline
<1>1. u \in DOMAIN content => content[u] # Null
  BY NullIsNew, Zenon DEF SoundTables
<1>2. CASE u \in DOMAIN content
  BY <1>1, <1>2, Zenon DEF Moved, ContentOf
<1>3. CASE u \notin DOMAIN content
  BY <1>3, Zenon DEF Moved, ContentOf
<1> QED BY <1>2, <1>3, Zenon

\* A row with its content goes in under a new number.
LEMMA InsertSound ==
  ASSUME SoundTables, NEW r, NEW b, Insert(r, b),
         r.size # 0 => b \in ContentBlob,
         SoundRevision(r, IF r.size = 0 THEN Null ELSE b)
  PROVE  SoundTables' /\ Later
<1>0. PICK n : n = seq + 1
  BY Zenon
<1>1. /\ n \in Nat /\ n <= MaxUid /\ seq < n /\ n \notin Uid /\ n \notin DOMAIN content
      /\ 1..seq \subseteq 1..n /\ n \in 1..n /\ seq \in Nat
  BY <1>0 DEF SoundTables, Insert
<1>2. /\ rows' = [w \in Uid \cup {n} |-> IF w = n THEN r ELSE rows[w]]
      /\ content' = IF r.size = 0 THEN content
                    ELSE [w \in DOMAIN content \cup {n} |-> IF w = n THEN b ELSE content[w]]
      /\ seq' = n /\ version' = n /\ size' = VaultSize(rows')
  BY <1>0, Zenon DEF Insert
<1>3. DOMAIN rows' = Uid \cup {n} /\ rows'[n] = r /\ \A u \in Uid : rows'[u] = rows[u]
  BY <1>1, <1>2, Zenon
<1>4. /\ DOMAIN content' \subseteq DOMAIN content \cup {n} /\ DOMAIN content \subseteq DOMAIN content'
      /\ \A u \in DOMAIN content : content'[u] = content[u]
      /\ n \in DOMAIN content' <=> r.size # 0
      /\ r.size # 0 => content'[n] = b
  <2>1. CASE r.size = 0
    BY <2>1, <1>1, <1>2, Zenon
  <2>2. CASE r.size # 0
    <3>1. content' = [w \in DOMAIN content \cup {n} |-> IF w = n THEN b ELSE content[w]]
      BY <2>2, <1>2, Zenon
    <3> QED BY <2>2, <3>1, <1>1, Zenon
  <2> QED BY <2>1, <2>2, Zenon
<1>5. \A u \in Uid : Moved(u)' = Moved(u)
  BY <1>1, <1>4, Zenon DEF Moved
<1>6. Moved(n)' = IF r.size = 0 THEN Null ELSE b
  BY <1>4, Zenon DEF Moved
<1>7. \A u \in Uid' : SoundRevision(rows'[u], Moved(u)')
  <2> SUFFICES ASSUME NEW u \in Uid' PROVE SoundRevision(rows'[u], Moved(u)')
    OBVIOUS
  <2>1. CASE u = n
    BY <2>1, <1>3, <1>6, Zenon
  <2>2. CASE u \in Uid
    BY <2>2, <1>3, <1>5, Zenon DEF SoundTables
  <2> QED BY <2>1, <2>2, <1>3, Zenon DEF Uid
<1>8. \A u \in DOMAIN content' : content'[u] \in ContentBlob
  BY <1>4, Zenon DEF SoundTables
<1>9. DOMAIN content' \subseteq Uid' /\ Uid' \subseteq 1..n
  BY <1>1, <1>3, <1>4, Zenon DEF SoundTables, Uid
<1>10. SoundTables'
  BY <1>1, <1>2, <1>7, <1>8, <1>9, Zenon DEF SoundTables
<1>11. \A u \in Uid' : u <= seq => u \in Uid
  <2>1. ~(n <= seq)
    BY <1>1, SMT
  <2> QED BY <2>1, <1>3, Zenon DEF Uid
<1>12. seq' \in Nat /\ seq <= seq'
  BY <1>1, <1>2, SMT
<1>13. \A u \in Uid : ContentOf(u)' = ContentOf(u)
  BY <1>1, <1>3, <1>4, Zenon DEF ContentOf
<1> QED BY <1>3, <1>10, <1>11, <1>12, <1>13, Zenon DEF Later

\* What a purge keeps it keeps unchanged.
LEMMA KeepSound ==
  ASSUME SoundTables, NEW kept, kept \subseteq Uid, Keep(kept)
  PROVE  SoundTables' /\ Later
<1>1. /\ DOMAIN rows' = kept /\ \A u \in kept : rows'[u] = rows[u]
      /\ DOMAIN content' = kept \cap DOMAIN content
      /\ \A u \in kept \cap DOMAIN content : content'[u] = content[u]
      /\ size' = VaultSize(rows') /\ seq' = seq /\ version' = version
  BY Zenon DEF Keep, Restrict
<1>2. \A u \in kept : Moved(u)' = Moved(u)
  BY <1>1, Zenon DEF Moved
<1>3. SoundTables'
  BY <1>1, <1>2, Zenon DEF SoundTables, Uid
<1>4. seq' \in Nat /\ seq <= seq'
  BY <1>1, SMT DEF SoundTables
<1>5. \A u \in kept : ContentOf(u)' = ContentOf(u)
  BY <1>1, Zenon DEF ContentOf
<1> QED BY <1>1, <1>3, <1>4, <1>5, Zenon DEF Later, Uid

\* Every mutation keeps the tables sound and the revisions that were there as they were.
LEMMA AddEmptySound ==
  ASSUME SoundTables, NEW p \in Path, NEW k \in Kinds, AddEmpty(p, k)
  PROVE  SoundTables' /\ Later
<1>1. k \in [related : Path \cup {Null}, folder : BOOLEAN, deleted : BOOLEAN, size : Nat]
  BY RevisionAssumption, Zenon
<1>2. k.size = 0 /\ Insert(RevisionRow(p, k), Null)
  BY Zenon DEF AddEmpty
<1>3. PICK r : r = RevisionRow(p, k)
  BY Zenon
<1>4. r.size = 0 /\ r.inline = Null /\ r \in StoredRow
  BY <1>1, <1>2, <1>3 DEF RevisionRow, StoredRow
<1>5. SoundRevision(r, IF r.size = 0 THEN Null ELSE Null)
  BY <1>4, Zenon DEF SoundRevision
<1> QED BY <1>2, <1>3, <1>4, <1>5, InsertSound, Zenon

LEMMA AddFileSound ==
  ASSUME SoundTables, NEW p \in Path, NEW k \in Kinds, AddFile(p, k)
  PROVE  SoundTables' /\ Later
<1>1. k \in [related : Path \cup {Null}, folder : BOOLEAN, deleted : BOOLEAN, size : Nat]
  BY RevisionAssumption, Zenon
<1>2. ~k.folder /\ ~k.deleted /\ k.size > 0 /\ Insert(RevisionRow(p, k), Blob(seq + 1, k.size))
  BY Zenon DEF AddFile
<1>3. PICK r : r = RevisionRow(p, k)
  BY Zenon
<1>4. PICK b : b = Blob(seq + 1, k.size)
  BY Zenon
<1>5. r.size = k.size /\ r.size # 0 /\ r.inline = Null /\ ~r.folder /\ ~r.deleted /\ r \in StoredRow
  BY <1>1, <1>2, <1>3 DEF RevisionRow, StoredRow
<1>6. b \in ContentBlob /\ b.len = k.size
  BY <1>1, <1>2, <1>4 DEF Blob, ContentBlob, SoundTables
<1>7. SoundRevision(r, IF r.size = 0 THEN Null ELSE b)
  BY <1>5, <1>6, Zenon DEF SoundRevision
<1> QED BY <1>2, <1>3, <1>4, <1>6, <1>7, InsertSound, Zenon

LEMMA PurgesSound ==
  ASSUME SoundTables, Purge \/ PurgeDeleted
  PROVE  SoundTables' /\ Later
<1>1. CASE Purge
  BY <1>1, KeepSound, Zenon DEF Purge, Heads, Uid
<1>2. CASE PurgeDeleted
  <2>1. PICK kept : kept \subseteq Uid /\ Keep(kept)
    BY <1>2, Zenon DEF PurgeDeleted
  <2> QED BY <2>1, KeepSound, Zenon
<1> QED BY <1>1, <1>2, Zenon

\* A read changes no table.
LEMMA ReadsChangeNothing ==
  ASSUME SoundTables, UNCHANGED <<rows, content, seq, version, size>>
  PROVE  SoundTables' /\ Later /\ Uid' = Uid
<1>1. Uid' = Uid /\ \A u : Moved(u)' = Moved(u) /\ ContentOf(u)' = ContentOf(u)
  BY Zenon DEF Uid, Moved, ContentOf
<1>2. SoundTables'
  BY <1>1, Zenon DEF SoundTables
<1>3. seq' \in Nat /\ seq <= seq'
  BY SMT DEF SoundTables
<1> QED BY <1>1, <1>2, <1>3, Zenon DEF Later

-----------------------------------------------------------------------------
(* A pull.                                                                 *)

Piece == [data : Nat \ {0}, from : Nat, len : Nat]

\* Pieces of one upload, each from where the one before ended.
Chained(sent) ==
  \A i \in 1..Len(sent) :
     /\ sent[i].data = sent[1].data
     /\ sent[i].from = IF i = 1 THEN 0 ELSE sent[i - 1].from + sent[i - 1].len

\* Where the last piece ended.
Reach(sent) == IF Len(sent) = 0 THEN 0 ELSE sent[Len(sent)].from + sent[Len(sent)].len

AllFrom(sent, d) == \A i \in 1..Len(sent) : sent[i].data = d

\* While a pull sends, every piece it sent was full, and they are of the content its
\* revision has, as long as there is one; what it announced is the size of that content.
Sending ==
  /\ Chained(pull.sent) /\ Reach(pull.sent) = Offset /\ Offset < pull.size
  /\ pull.uid \in Uid => pull.size = rows[pull.uid].size /\ AllFrom(pull.sent, ContentOf(pull.uid).data)

PullInv ==
  pull # NoRead =>
    /\ pull \in [phase : {"sending", "done", "failed"}, uid : Nat, size : Nat, sent : Seq(Piece)]
    /\ pull.uid <= seq
    /\ pull.phase = "sending" => Sending
    /\ pull.phase = "done" => Chained(pull.sent) /\ Reach(pull.sent) = pull.size
    /\ pull.phase = "failed" => pull.uid \notin Uid

\* One more piece, from where the last ended.
LEMMA OneMorePiece ==
  ASSUME NEW sent \in Seq(Piece), Chained(sent), NEW c \in Piece, c.from = Reach(sent), AllFrom(sent, c.data)
  PROVE  /\ Append(sent, c) \in Seq(Piece) /\ Len(Append(sent, c)) = Len(sent) + 1
         /\ Chained(Append(sent, c)) /\ Reach(Append(sent, c)) = c.from + c.len
         /\ AllFrom(Append(sent, c), c.data)
<1>1. PICK t : t = Append(sent, c)
  BY Zenon
<1>2. /\ t \in Seq(Piece) /\ Len(t) = Len(sent) + 1 /\ Len(sent) \in Nat
      /\ \A i \in 1..Len(sent) : t[i] = sent[i]
      /\ t[Len(sent) + 1] = c
  BY <1>1
<1>3. AllFrom(t, c.data)
  BY <1>2 DEF AllFrom
<1>4. Reach(t) = c.from + c.len
  BY <1>2 DEF Reach
<1>5. ASSUME NEW i \in 1..Len(t)
      PROVE  t[i].from = IF i = 1 THEN 0 ELSE t[i - 1].from + t[i - 1].len
  <2>1. CASE i \in 1..Len(sent)
    <3>1. i = 1 \/ i - 1 \in 1..Len(sent)
      BY <2>1, <1>2
    <3>2. sent[i].from = IF i = 1 THEN 0 ELSE sent[i - 1].from + sent[i - 1].len
      BY <2>1 DEF Chained
    <3> QED BY <2>1, <3>1, <3>2, <1>2
  <2>2. CASE i = Len(sent) + 1
    <3>1. t[i] = c
      BY <2>2, <1>2
    <3>2. CASE Len(sent) = 0
      BY <2>2, <3>1, <3>2 DEF Reach
    <3>3. CASE Len(sent) # 0
      <4>1. i - 1 = Len(sent) /\ Len(sent) \in 1..Len(sent) /\ i # 1
        BY <2>2, <3>3, <1>2
      <4>2. t[i - 1] = sent[Len(sent)]
        BY <4>1, <1>2
      <4> QED BY <3>1, <3>3, <4>1, <4>2 DEF Reach
    <3> QED BY <3>2, <3>3
  <2> QED BY <2>1, <2>2, <1>2
<1>6. \A i \in 1..Len(t) : t[i].data = t[1].data
  <2>1. 1 \in 1..Len(t)
    BY <1>2
  <2> QED BY <2>1, <1>3, Zenon DEF AllFrom
<1>7. Chained(t)
  BY <1>5, <1>6, Zenon DEF Chained
<1> QED BY <1>1, <1>2, <1>3, <1>4, <1>7, Zenon

\* What is left, up to a piece.
LEMMA NextPiece ==
  ASSUME NEW m \in Nat, NEW n \in Nat
  PROVE  Min({m, n}) = IF m <= n THEN m ELSE n
<1>1. \E x \in {m, n} : \A y \in {m, n} : x =< y
  BY SMT
<1>2. Min({m, n}) \in {m, n} /\ \A y \in {m, n} : Min({m, n}) =< y
  BY <1>1, Zenon DEF Min
<1>3. ASSUME NEW x \in {m, n}, x =< m, x =< n PROVE x = IF m <= n THEN m ELSE n
  BY <1>3, SMT
<1> QED BY <1>2, <1>3, Zenon

\* A transaction leaves a pull as it was.
LEMMA PullUndisturbed ==
  ASSUME PullInv, seq \in Nat, Later, pull' = pull
  PROVE  PullInv'
<1>1. CASE pull = NoRead
  BY <1>1, Zenon DEF PullInv, NoRead
<1>2. CASE pull # NoRead
  <2>1. /\ pull \in [phase : {"sending", "done", "failed"}, uid : Nat, size : Nat, sent : Seq(Piece)]
        /\ pull.uid <= seq /\ pull.uid \in Nat
    BY <1>2, Zenon DEF PullInv
  <2>2. pull.uid <= seq'
    BY <2>1, SMT DEF Later
  <2>3. pull.uid \in Uid' =>
          /\ pull.uid \in Uid /\ rows'[pull.uid] = rows[pull.uid]
          /\ ContentOf(pull.uid)' = ContentOf(pull.uid)
    <3> SUFFICES ASSUME pull.uid \in Uid'
                 PROVE  /\ pull.uid \in Uid /\ rows'[pull.uid] = rows[pull.uid]
                        /\ ContentOf(pull.uid)' = ContentOf(pull.uid)
      OBVIOUS
    <3>1. PICK u : u = pull.uid
      BY Zenon
    <3>2. u \in Uid /\ rows'[u] = rows[u] /\ ContentOf(u)' = ContentOf(u)
      BY <2>1, <3>1, Zenon DEF Later
    <3>3. pull'.uid = u
      BY <3>1
    <3>4. ContentOf(pull.uid)' = ContentOf(u)'
      BY <3>3, Zenon DEF ContentOf, Uid
    <3> QED BY <3>1, <3>2, <3>4, Zenon
  <2>4. pull.phase = "sending" => Sending'
    BY <1>2, <2>3, Zenon DEF PullInv, Sending, Offset
  <2> QED BY <1>2, <2>1, <2>2, <2>3, <2>4, Zenon DEF PullInv
<1> QED BY <1>1, <1>2, Zenon

\* pull_info: what is announced is the size of what is stored.
LEMMA PullBegins ==
  ASSUME SoundTables, NEW u \in Uid, BeginPull(u)
  PROVE  PullInv'
<1>1. u \in Nat /\ u <= seq
  BY DEF SoundTables
<1>2. rows' = rows /\ content' = content /\ seq' = seq /\ Uid' = Uid
  BY Zenon DEF BeginPull, Uid
<1>3. <<>> \in Seq(Piece) /\ Len(<<>>) = 0
  OBVIOUS
<1>4. Chained(<<>>) /\ Reach(<<>>) = 0 /\ \A d : AllFrom(<<>>, d)
  BY DEF Chained, Reach, AllFrom
<1>5. SoundRevision(rows[u], Moved(u))
  BY Zenon DEF SoundTables
<1>6. rows[u].size \in Nat
  BY <1>5, Zenon DEF SoundRevision, StoredRow
<1>7. CASE rows[u].deleted \/ rows[u].folder \/ (rows[u].inline = Null /\ u \notin DOMAIN content)
  <2>1. pull' = [phase |-> "done", uid |-> u, size |-> 0, sent |-> <<>>]
    BY <1>7, Zenon DEF BeginPull
  <2>2. /\ pull'.phase = "done" /\ pull'.uid = u /\ pull'.size = 0 /\ pull'.sent = <<>>
        /\ pull' \in [phase : {"sending", "done", "failed"}, uid : Nat, size : Nat, sent : Seq(Piece)]
    BY <1>1, <1>3, <2>1
  <2> QED BY <1>1, <1>2, <1>4, <2>2 DEF PullInv
<1>8. CASE ~(rows[u].deleted \/ rows[u].folder \/ (rows[u].inline = Null /\ u \notin DOMAIN content))
  <2>1. pull' = [phase |-> "sending", uid |-> u, size |-> rows[u].size, sent |-> <<>>]
    BY <1>8, Zenon DEF BeginPull
  <2>2. /\ pull'.phase = "sending" /\ pull'.uid = u /\ pull'.size = rows[u].size /\ pull'.sent = <<>>
        /\ pull' \in [phase : {"sending", "done", "failed"}, uid : Nat, size : Nat, sent : Seq(Piece)]
    BY <1>1, <1>3, <1>6, <2>1
  <2>3. rows[u].inline # Null \/ Moved(u) # Null
    BY <1>8, WhereContentIs, Zenon
  <2>4. rows[u].size # 0
    BY <2>3, <1>5, Zenon DEF SoundRevision
  <2>5. PieceSize * 0 = 0
    BY RevisionAssumption
  <2>6. Offset' = 0 /\ 0 < rows[u].size
    BY <1>3, <1>6, <2>2, <2>4, <2>5 DEF Offset
  <2>7. Sending'
    BY <1>2, <1>4, <2>2, <2>6, Zenon DEF Sending
  <2> QED BY <1>1, <1>2, <2>2, <2>7 DEF PullInv
<1> QED BY <1>7, <1>8, Zenon

\* content_chunk answers as long as the revision is there.
LEMMA ChunkOf ==
  ASSUME SoundTables, NEW u \in Uid, NEW offset \in Nat, NEW n \in Nat, offset + n <= rows[u].size,
         rows[u].size # 0
  PROVE  /\ ContentOf(u) \in ContentBlob
         /\ ContentChunk(u, offset, n) = [data |-> ContentOf(u).data, from |-> offset, len |-> n]
<1>1. SoundRevision(rows[u], Moved(u))
  BY Zenon DEF SoundTables
<1>2. \/ rows[u].inline = Null /\ Moved(u) \in ContentBlob /\ Moved(u).len = rows[u].size
      \/ Moved(u) = Null /\ rows[u].inline \in ContentBlob /\ rows[u].inline.len = rows[u].size
  BY <1>1, Zenon DEF SoundRevision
<1>3. (u \in DOMAIN content) # (rows[u].inline # Null)
  BY <1>2, WhereContentIs, NullIsNew, Zenon
<1>4. ContentOf(u) \in ContentBlob /\ ContentOf(u).len = rows[u].size
  BY <1>2, WhereContentIs, NullIsNew, Zenon
<1> QED BY <1>3, <1>4, Zenon DEF ContentChunk

\* One turn of the loop.
LEMMA PieceSent ==
  ASSUME SoundTables, PullInv, PullPiece
  PROVE  PullInv'
<1> DEFINE left == pull.size - Offset
           n == Min({left, PieceSize})
           chunk == ContentChunk(pull.uid, Offset, n)
<1>1. rows' = rows /\ content' = content /\ seq' = seq /\ Uid' = Uid
  BY Zenon DEF PullPiece, Uid
<1>2. pull # NoRead /\ pull.phase = "sending"
  BY DEF PullPiece, NoRead
<1>3. /\ pull \in [phase : {"sending", "done", "failed"}, uid : Nat, size : Nat, sent : Seq(Piece)]
      /\ pull.uid <= seq /\ Sending
  BY <1>2, Zenon DEF PullInv
<1>4. pull.size \in Nat /\ pull.uid \in Nat /\ pull.sent \in Seq(Piece) /\ Len(pull.sent) \in Nat
  BY <1>3
<1>5. PieceSize \in Nat /\ PieceSize # 0
  BY RevisionAssumption
<1>6. Offset \in Nat /\ Offset < pull.size /\ PieceSize * (Len(pull.sent) + 1) = Offset + PieceSize
  BY <1>3, <1>4, <1>5 DEF Offset, Sending
<1>7. left \in Nat /\ left # 0
  BY <1>4, <1>6
<1>8. n = IF left <= PieceSize THEN left ELSE PieceSize
  <2> HIDE DEF left
  <2> QED BY <1>5, <1>7, NextPiece, Zenon
<1>9. /\ n \in Nat /\ n # 0 /\ Offset + n <= pull.size
      /\ Offset + n < pull.size => n = PieceSize
  <2> HIDE DEF n
  <2> QED BY <1>4, <1>5, <1>6, <1>7, <1>8
<1> HIDE DEF left, n
<1>10. pull' = IF chunk = Null THEN [pull EXCEPT !.phase = "failed"]
               ELSE [pull EXCEPT !.sent = Append(@, chunk),
                                 !.phase = IF Offset + chunk.len < pull.size THEN @ ELSE "done"]
  BY Zenon DEF PullPiece, n, left
<1>11. CASE pull.uid \notin Uid
  <2>1. chunk = Null
    BY <1>11, Zenon DEF ContentChunk
  <2>2. pull' = [pull EXCEPT !.phase = "failed"]
    BY <1>10, <2>1, Zenon
  <2> QED BY <1>1, <1>3, <1>11, <2>2 DEF PullInv
<1>12. CASE pull.uid \in Uid
  <2>1. pull.size = rows[pull.uid].size /\ AllFrom(pull.sent, ContentOf(pull.uid).data)
    BY <1>3, <1>12, Zenon DEF Sending
  <2>2. rows[pull.uid].size # 0
    BY <1>4, <1>6, <2>1
  <2>3. /\ ContentOf(pull.uid) \in ContentBlob
        /\ chunk = [data |-> ContentOf(pull.uid).data, from |-> Offset, len |-> n]
    BY <1>6, <1>9, <1>12, <2>1, <2>2, ChunkOf, Zenon
  <2>4. ContentOf(pull.uid).data \in Nat \ {0}
    BY <2>3, Zenon DEF ContentBlob
  <2>5. chunk \in Piece /\ chunk # Null /\ chunk.from = Offset /\ chunk.len = n
        /\ chunk.data = ContentOf(pull.uid).data
    <3>1. chunk # Null
      BY <1>6, <1>9, <2>3, <2>4, NullIsNew, Zenon
    <3> HIDE DEF chunk
    <3> QED BY <3>1, <1>6, <1>9, <2>3, <2>4, SMT DEF Piece
  <2> HIDE DEF chunk
  <2>6. PICK t : t = Append(pull.sent, chunk)
    BY Zenon
  <2>7. /\ t \in Seq(Piece) /\ Len(t) = Len(pull.sent) + 1 /\ Chained(t)
        /\ Reach(t) = Offset + n /\ AllFrom(t, ContentOf(pull.uid).data)
    <3>1. Chained(pull.sent) /\ chunk.from = Reach(pull.sent) /\ AllFrom(pull.sent, chunk.data)
      BY <1>3, <2>1, <2>5, Zenon DEF Sending
    <3> QED BY <3>1, <1>4, <2>5, <2>6, OneMorePiece, Zenon
  <2>8. pull' = [pull EXCEPT !.sent = t, !.phase = IF Offset + n < pull.size THEN pull.phase ELSE "done"]
    BY <1>10, <2>5, <2>6
  <2>9. /\ pull'.uid = pull.uid /\ pull'.size = pull.size /\ pull'.sent = t
        /\ pull'.phase = IF Offset + n < pull.size THEN "sending" ELSE "done"
        /\ pull' \in [phase : {"sending", "done", "failed"}, uid : Nat, size : Nat, sent : Seq(Piece)]
    BY <1>2, <1>3, <2>7, <2>8
  <2>10. CASE Offset + n < pull.size
    <3>1. Offset' = Offset + n
      BY <1>4, <1>6, <1>9, <2>7, <2>9, <2>10 DEF Offset
    <3>2. PICK u : u = pull.uid
      BY Zenon
    <3>3. ContentOf(u)' = ContentOf(u) /\ pull'.uid = u
      BY <1>1, <2>9, <3>2, Zenon DEF ContentOf
    <3>4. ContentOf(pull.uid)' = ContentOf(pull.uid)
      BY <3>2, <3>3, <1>1, Zenon DEF ContentOf
    <3>5. Sending'
      BY <1>1, <2>1, <2>7, <2>9, <2>10, <3>1, <3>4 DEF Sending
    <3> QED BY <1>1, <1>3, <2>9, <2>10, <3>5 DEF PullInv
  <2>11. CASE ~(Offset + n < pull.size)
    <3>1. Offset + n = pull.size
      BY <1>4, <1>6, <1>9, <2>11
    <3> QED BY <1>1, <1>3, <2>7, <2>9, <2>11, <3>1 DEF PullInv
  <2> QED BY <2>10, <2>11, Zenon
<1> QED BY <1>11, <1>12, Zenon

\* What PullInv says of a pull that is over.
LEMMA PullsExact == PullInv => PullExact
<1>1. CASE pull = NoRead
  BY <1>1 DEF NoRead, PullExact
<1>2. CASE pull # NoRead
  BY <1>2, Zenon DEF PullInv, PullExact, Chained, Reach
<1> QED BY <1>1, <1>2, Zenon

-----------------------------------------------------------------------------
(* Sorted reads.                                                           *)

\* MIN and MAX over numbers that the sequence bounds.
LEMMA LeastOf ==
  ASSUME Counting, NEW S, S \subseteq Nat, S # {}
  PROVE  Min(S) \in S /\ \A x \in S : Min(S) <= x
BY Least, Zenon DEF Min

LEMMA GreatestOf ==
  ASSUME Counting, NEW m \in Nat, NEW S, S \subseteq 0..m, S # {}
  PROVE  Max(S) \in S /\ \A x \in S : x <= Max(S)
<1> DEFINE T == {m - x : x \in S}
<1>1. T \subseteq Nat /\ T # {}
  <2>1. \A x \in S : m - x \in Nat
    BY SMT
  <2> QED BY <2>1, Zenon
<1>2. PICK k \in T : \A y \in T : k <= y
  BY <1>1, Least, Zenon
<1>3. PICK g \in S : k = m - g
  BY <1>2, Zenon
<1>4. ASSUME NEW x \in S PROVE x <= g /\ g >= x
  <2>1. m - x \in T
    BY Zenon
  <2>2. m - g <= m - x
    BY <2>1, <1>2, <1>3, Zenon
  <2>3. x \in 0..m /\ g \in 0..m
    BY Zenon
  <2> QED BY <2>2, <2>3, SMT
<1>5. Max(S) \in S /\ \A x \in S : Max(S) >= x
  BY <1>4, Zenon DEF Max
<1>6. ASSUME NEW x \in S, NEW y \in S, y >= x PROVE x <= y
  <2>1. x \in 0..m /\ y \in 0..m
    BY Zenon
  <2> QED BY <2>1, <1>6, SMT
<1> QED BY <1>5, <1>6, Zenon

\* Numbers up to a bound are finitely many.
LEMMA Numbers ==
  ASSUME Counting, NEW m \in Nat, NEW S, S \subseteq 0..m
  PROVE  IsFiniteSet(S) /\ S \subseteq Nat /\ Cardinality(S) \in Nat
<1>1. IsFiniteSet(0..m)
  BY Zenon DEF Counting
<1>2. 0..m \subseteq Nat
  BY SMT
<1> QED BY <1>1, <1>2, Fewer, Zenon

\* ORDER BY uid ASC LIMIT n takes a lower part, and all when it takes fewer than n.
LEMMA FirstOfLower ==
  ASSUME Counting, NEW m \in Nat, NEW s, s \subseteq 0..m, NEW n \in Nat
  PROVE  /\ FirstOf(s, n) \subseteq s
         /\ \A u \in FirstOf(s, n), w \in s : w < u => w \in FirstOf(s, n)
         /\ Cardinality(FirstOf(s, n)) < n => FirstOf(s, n) = s
<1> DEFINE below(u) == {w \in s : w < u}
<1>1. /\ FirstOf(s, n) = {u \in s : Cardinality(below(u)) < n}
      /\ FirstOf(s, n) \subseteq s
  BY Zenon DEF FirstOf
<1>2. IsFiniteSet(s) /\ s \subseteq Nat /\ \A u : IsFiniteSet(below(u)) /\ Cardinality(below(u)) \in Nat
  <2>1. IsFiniteSet(s) /\ s \subseteq Nat
    BY Numbers, Zenon
  <2>2. \A u : below(u) \subseteq s
    BY Zenon
  <2> HIDE DEF below
  <2> QED BY <2>1, <2>2, Fewer, Zenon
<1>3. ASSUME NEW u \in s, NEW w \in s, w < u, Cardinality(below(u)) < n
      PROVE  Cardinality(below(w)) < n
  <2>1. below(w) \subseteq below(u)
    <3>1. \A x \in s : x < w => x < u
      BY <1>2, <1>3, SMT
    <3> QED BY <3>1, Zenon
  <2> HIDE DEF below
  <2>2. /\ Cardinality(below(w)) <= Cardinality(below(u))
        /\ Cardinality(below(w)) \in Nat /\ Cardinality(below(u)) \in Nat
    BY <1>2, <2>1, Fewer, Zenon
  <2>3. \A a, b \in Nat : a <= b /\ b < n => a < n
    BY SMT
  <2> QED BY <1>3, <2>2, <2>3, Zenon
<1>4. \A u \in FirstOf(s, n), w \in s : w < u => w \in FirstOf(s, n)
  BY <1>1, <1>3, Zenon
<1>5. ASSUME FirstOf(s, n) # s PROVE ~(Cardinality(FirstOf(s, n)) < n)
  <2> DEFINE rest == s \ FirstOf(s, n)
  <2>1. rest # {} /\ rest \subseteq Nat
    BY <1>1, <1>2, <1>5, Zenon
  <2> HIDE DEF rest
  <2>2. PICK x \in rest : \A y \in rest : x <= y
    BY <2>1, Least, Zenon
  <2>3. x \in s /\ x \in Nat /\ x \notin FirstOf(s, n)
    BY <1>2, Zenon DEF rest
  <2>4. ~(Cardinality(below(x)) < n)
    BY <1>1, <2>3, Zenon
  <2>5. below(x) \subseteq FirstOf(s, n)
    <3>1. ASSUME NEW w \in s, w < x, w \notin FirstOf(s, n) PROVE FALSE
      <4>1. x <= w /\ w \in Nat
        BY <1>2, <2>2, <3>1, Zenon DEF rest
      <4> QED BY <2>3, <3>1, <4>1, SMT
    <3> QED BY <3>1, Zenon
  <2>6. IsFiniteSet(FirstOf(s, n))
    BY <1>1, <1>2, Fewer, Zenon
  <2> HIDE DEF below
  <2>7. /\ Cardinality(below(x)) <= Cardinality(FirstOf(s, n))
        /\ Cardinality(below(x)) \in Nat /\ Cardinality(FirstOf(s, n)) \in Nat
    BY <2>5, <2>6, Fewer, Zenon
  <2>8. \A a, b \in Nat : a <= b /\ ~(a < n) => ~(b < n)
    BY SMT
  <2> QED BY <2>4, <2>7, <2>8, Zenon
<1> QED BY <1>1, <1>4, <1>5, Zenon

\* ORDER BY uid DESC LIMIT n takes an upper part, all when it takes fewer than n or
\* there are no more, and something when there is something.
LEMMA LastOfUpper ==
  ASSUME Counting, NEW m \in Nat, NEW s, s \subseteq 0..m, NEW n \in Nat
  PROVE  /\ LastOf(s, n) \subseteq s
         /\ \A u \in LastOf(s, n), w \in s : w > u => w \in LastOf(s, n)
         /\ Cardinality(LastOf(s, n)) < n => LastOf(s, n) = s
         /\ Cardinality(s) <= n => LastOf(s, n) = s
         /\ s # {} /\ n # 0 => LastOf(s, n) # {}
<1> DEFINE above(u) == {w \in s : w > u}
<1>1. /\ LastOf(s, n) = {u \in s : Cardinality(above(u)) < n}
      /\ LastOf(s, n) \subseteq s
  BY Zenon DEF LastOf
<1>2. IsFiniteSet(s) /\ s \subseteq Nat /\ \A u : IsFiniteSet(above(u)) /\ Cardinality(above(u)) \in Nat
  <2>1. IsFiniteSet(s) /\ s \subseteq Nat
    BY Numbers, Zenon
  <2>2. \A u : above(u) \subseteq s
    BY Zenon
  <2> HIDE DEF above
  <2> QED BY <2>1, <2>2, Fewer, Zenon
<1>3. ASSUME NEW u \in s, NEW w \in s, w > u, Cardinality(above(u)) < n
      PROVE  Cardinality(above(w)) < n
  <2>1. above(w) \subseteq above(u)
    <3>1. \A x \in s : x > w => x > u
      BY <1>2, <1>3, SMT
    <3> QED BY <3>1, Zenon
  <2> HIDE DEF above
  <2>2. /\ Cardinality(above(w)) <= Cardinality(above(u))
        /\ Cardinality(above(w)) \in Nat /\ Cardinality(above(u)) \in Nat
    BY <1>2, <2>1, Fewer, Zenon
  <2>3. \A a, b \in Nat : a <= b /\ b < n => a < n
    BY SMT
  <2> QED BY <1>3, <2>2, <2>3, Zenon
<1>4. \A u \in LastOf(s, n), w \in s : w > u => w \in LastOf(s, n)
  BY <1>1, <1>3, Zenon
<1>5. ASSUME LastOf(s, n) # s PROVE ~(Cardinality(LastOf(s, n)) < n)
  <2> DEFINE rest == s \ LastOf(s, n)
  <2>1. rest # {} /\ rest \subseteq 0..m
    BY <1>1, <1>5, Zenon
  <2> HIDE DEF rest
  <2>2. PICK x \in rest : \A y \in rest : y <= x
    BY <2>1, GreatestOf, Zenon
  <2>3. x \in s /\ x \in Nat /\ x \notin LastOf(s, n)
    BY <1>2, Zenon DEF rest
  <2>4. ~(Cardinality(above(x)) < n)
    BY <1>1, <2>3, Zenon
  <2>5. above(x) \subseteq LastOf(s, n)
    <3>1. ASSUME NEW w \in s, w > x, w \notin LastOf(s, n) PROVE FALSE
      <4>1. w <= x /\ w \in Nat
        BY <1>2, <2>2, <3>1, Zenon DEF rest
      <4> QED BY <2>3, <3>1, <4>1, SMT
    <3> QED BY <3>1, Zenon
  <2>6. IsFiniteSet(LastOf(s, n))
    BY <1>1, <1>2, Fewer, Zenon
  <2> HIDE DEF above
  <2>7. /\ Cardinality(above(x)) <= Cardinality(LastOf(s, n))
        /\ Cardinality(above(x)) \in Nat /\ Cardinality(LastOf(s, n)) \in Nat
    BY <2>5, <2>6, Fewer, Zenon
  <2>8. \A a, b \in Nat : a <= b /\ ~(a < n) => ~(b < n)
    BY SMT
  <2> QED BY <2>4, <2>7, <2>8, Zenon
<1>6. ASSUME Cardinality(s) <= n, NEW u \in s PROVE Cardinality(above(u)) < n
  <2>1. above(u) \subseteq s \ {u}
    <3>1. ~(u > u)
      BY <1>2, SMT
    <3> QED BY <3>1, Zenon
  <2>2. IsFiniteSet(s \ {u}) /\ Cardinality(s \ {u}) = Cardinality(s) - 1
    BY <1>2, OneLess, Zenon
  <2> HIDE DEF above
  <2>3. Cardinality(above(u)) <= Cardinality(s \ {u}) /\ Cardinality(above(u)) \in Nat
    BY <2>1, <2>2, Fewer, Zenon
  <2>4. Cardinality(s) \in Nat
    BY <1>2, Counted, Zenon
  <2> QED BY <1>6, <2>2, <2>3, <2>4, SMT
<1>7. ASSUME s # {}, n # 0 PROVE LastOf(s, n) # {}
  <2>1. PICK x \in s : \A y \in s : y <= x
    BY <1>7, GreatestOf, Zenon
  <2>2. above(x) = {}
    <3>1. \A y \in s : ~(y > x)
      BY <1>2, <2>1, SMT
    <3> QED BY <3>1, Zenon
  <2>3. Cardinality(above(x)) = 0
    BY <2>2, NothingCounts, Zenon
  <2>4. 0 < n
    BY <1>7, SMT
  <2>5. x \in LastOf(s, n)
    BY <1>1, <2>3, <2>4, Zenon
  <2> QED BY <2>5, Zenon
<1> QED BY <1>1, <1>4, <1>5, <1>6, <1>7, Zenon

-----------------------------------------------------------------------------
(* Restores, and what the verification looks for.                          *)

\* A restore copies a revision that is there.
LEMMA SourceStored ==
  ASSUME Counting, SoundTables, NEW u \in Uid, RestoreSource(u) # Null
  PROVE  RestoreSource(u) \in Uid
<1> DEFINE earlier == {w \in Uid : rows[w].path = rows[u].path /\ w < u /\ ~rows[w].deleted}
<1>1. earlier \subseteq Uid
  BY Zenon
<1>2. seq \in Nat /\ Uid \subseteq 0..seq
  BY DEF SoundTables
<1>3. earlier # {} => Max(earlier) \in earlier
  <2> HIDE DEF earlier
  <2> QED BY <1>1, <1>2, GreatestOf, Zenon
<1>4. RestoreSource(u) = IF ~rows[u].deleted THEN u ELSE IF earlier = {} THEN Null ELSE Max(earlier)
  BY Zenon DEF RestoreSource
<1> QED BY <1>1, <1>3, <1>4, Zenon

\* What is left to restore of a deleted revision.
LEMMA SourceOfDeleted ==
  ASSUME Counting, SoundTables, NEW u \in Uid, rows[u].deleted
  PROVE  RestoreSource(u) # Null <=> \E w \in Uid : rows[w].path = rows[u].path /\ w < u /\ ~rows[w].deleted
<1> DEFINE earlier == {w \in Uid : rows[w].path = rows[u].path /\ w < u /\ ~rows[w].deleted}
<1>1. earlier \subseteq Uid
  BY Zenon
<1>2. seq \in Nat /\ Uid \subseteq 0..seq /\ Uid \subseteq Nat
  BY DEF SoundTables
<1>3. earlier # {} => Max(earlier) \in earlier
  <2> HIDE DEF earlier
  <2> QED BY <1>1, <1>2, GreatestOf, Zenon
<1>4. RestoreSource(u) = IF earlier = {} THEN Null ELSE Max(earlier)
  BY Zenon DEF RestoreSource
<1>5. RestoreSource(u) # Null <=> earlier # {}
  BY <1>1, <1>2, <1>3, <1>4, NullIsNew, Zenon
<1> QED BY <1>5, Zenon

LEMMA RestoreSound ==
  ASSUME Counting, SoundTables, NEW u \in Uid, Restore(u)
  PROVE  SoundTables' /\ Later
<1>1. PICK s : s = RestoreSource(u)
  BY Zenon
<1>2. s \in Uid
  BY <1>1, SourceStored, Zenon DEF Restore
<1>3. PICK r : r = [rows[s] EXCEPT !.path = rows[u].path, !.related = Null, !.inline = Null]
  BY Zenon
<1>4. Insert(r, ContentOf(s))
  BY <1>1, <1>3, Zenon DEF Restore
<1>5. SoundRevision(rows[s], Moved(s)) /\ rows[u] \in StoredRow
  BY <1>2, Zenon DEF SoundTables, SoundRevision
<1>6. rows[s] \in StoredRow
  BY <1>5, Zenon DEF SoundRevision
<1>7. /\ r \in StoredRow /\ r.size = rows[s].size /\ r.folder = rows[s].folder
      /\ r.deleted = rows[s].deleted /\ r.inline = Null
  <2>1. PICK t : t = rows[s]
    BY Zenon
  <2>2. PICK p : p = rows[u].path
    BY Zenon
  <2>3. t \in StoredRow /\ p \in Path
    BY <1>5, <1>6, <2>1, <2>2, Zenon DEF StoredRow
  <2>4. r = [t EXCEPT !.path = p, !.related = Null, !.inline = Null]
    BY <1>3, <2>1, <2>2, Zenon
  <2>5. /\ r.size = t.size /\ r.folder = t.folder /\ r.deleted = t.deleted
        /\ r.path = p /\ r.related = Null /\ r.inline = Null
    BY <2>3, <2>4, Zenon DEF StoredRow
  <2>6. r \in StoredRow
    BY <2>3, <2>4, Zenon DEF StoredRow
  <2> QED BY <2>1, <2>5, <2>6, Zenon
<1>8. r.size # 0 => ContentOf(s) \in ContentBlob /\ ContentOf(s).len = r.size
  <2>1. r.size # 0 =>
          \/ rows[s].inline = Null /\ Moved(s) \in ContentBlob /\ Moved(s).len = r.size
          \/ Moved(s) = Null /\ rows[s].inline \in ContentBlob /\ rows[s].inline.len = r.size
    BY <1>5, <1>7, Zenon DEF SoundRevision
  <2> QED BY <2>1, <1>2, WhereContentIs, NullIsNew, Zenon
<1>9. SoundRevision(r, IF r.size = 0 THEN Null ELSE ContentOf(s))
  BY <1>5, <1>7, <1>8, Zenon DEF SoundRevision
<1> QED BY <1>4, <1>8, <1>9, InsertSound, Zenon

\* vault_size counts the newest revision of every path: those it leaves out have none.
LEMMA SizeOfHeads ==
  ASSUME Counting, SoundTables
  PROVE  size = SumSize(rows, {Max({u \in Uid : rows[u].path = p}) : p \in {rows[u].path : u \in Uid}})
<1> DEFINE of(p) == {u \in Uid : rows[u].path = p}
           newest == {Max(of(p)) : p \in {rows[u].path : u \in Uid}}
           live == {u \in Heads(rows) : ~rows[u].deleted /\ ~rows[u].folder}
<1>1. seq \in Nat /\ Uid \subseteq 0..seq /\ Uid \subseteq Nat
  BY DEF SoundTables
<1>2. ASSUME NEW u \in Uid
      PROVE  Max(of(rows[u].path)) \in of(rows[u].path) /\ \A x \in of(rows[u].path) : x <= Max(of(rows[u].path))
  <2> DEFINE S == of(rows[u].path)
  <2>1. S \subseteq 0..seq /\ S # {}
    BY <1>1, Zenon
  <2> HIDE DEF S
  <2>2. Max(S) \in S /\ \A x \in S : x <= Max(S)
    BY <1>1, <2>1, GreatestOf, Zenon
  <2> QED BY <2>2, Zenon DEF S
<1>3. newest = Heads(rows)
  <2>1. ASSUME NEW h \in newest PROVE h \in Heads(rows)
    <3>1. PICK u \in Uid : h = Max(of(rows[u].path))
      BY Zenon
    <3>2. h \in Uid /\ rows[h].path = rows[u].path /\ \A x \in Uid : rows[x].path = rows[u].path => x <= h
      BY <1>2, <3>1, Zenon
    <3> QED BY <3>2, Zenon DEF Heads, Uid
  <2>2. ASSUME NEW h \in Heads(rows) PROVE h \in newest
    <3>1. h \in Uid /\ \A x \in Uid : rows[x].path = rows[h].path => x <= h
      BY Zenon DEF Heads, Uid
    <3>2. PICK g : g = Max(of(rows[h].path))
      BY Zenon
    <3>3. g \in Uid /\ rows[g].path = rows[h].path /\ h <= g
      BY <1>2, <3>1, <3>2, Zenon
    <3>4. g <= h
      BY <3>1, <3>3, Zenon
    <3>5. g = h
      BY <1>1, <3>1, <3>3, <3>4, SMT
    <3> QED BY <3>1, <3>2, <3>5, Zenon
  <2> QED BY <2>1, <2>2, Zenon
<1>4. \A u \in Heads(rows) \ live : {u} \X (1..rows[u].size) = {}
  <2> SUFFICES ASSUME NEW u \in Heads(rows) \ live PROVE {u} \X (1..rows[u].size) = {}
    OBVIOUS
  <2>1. u \in Uid /\ (rows[u].deleted \/ rows[u].folder)
    BY Zenon DEF Heads, Uid
  <2>2. rows[u].size = 0
    BY <2>1, Zenon DEF SoundTables, SoundRevision
  <2>3. 1..0 = {}
    BY SMT
  <2> QED BY <2>2, <2>3, Zenon
<1>5. UNION {{u} \X (1..rows[u].size) : u \in live} = UNION {{u} \X (1..rows[u].size) : u \in Heads(rows)}
  <2> DEFINE bytes(u) == {u} \X (1..rows[u].size)
  <2>1. live \subseteq Heads(rows) /\ \A u \in Heads(rows) \ live : bytes(u) = {}
    BY <1>4, Zenon
  <2> HIDE DEF bytes, live
  <2>2. UNION {bytes(u) : u \in live} = UNION {bytes(u) : u \in Heads(rows)}
    BY <2>1, Zenon
  <2> QED BY <2>2, Zenon DEF bytes
<1>6. size = SumSize(rows, live)
  BY Zenon DEF SoundTables, VaultSize
<1>7. SumSize(rows, live) = SumSize(rows, Heads(rows))
  <2> HIDE DEF live
  <2> QED BY <1>5, Zenon DEF SumSize
<1> QED BY <1>3, <1>6, <1>7, Zenon

\* What the verification at the next start looks for.
LEMMA TablesVerify ==
  ASSUME Counting
  PROVE  SoundTables => StoreVerifies
<1> SUFFICES ASSUME SoundTables PROVE StoreVerifies
  OBVIOUS
<1>1. \A u \in Uid : u <= version
  BY DEF SoundTables
<1>2. version <= seq /\ DOMAIN content \subseteq Uid
  BY DEF SoundTables
<1>3. ASSUME NEW u \in Uid
      PROVE  /\ rows[u].folder \/ rows[u].deleted => rows[u].size = 0
             /\ IF rows[u].size = 0 THEN rows[u].inline = Null /\ u \notin DOMAIN content
                ELSE /\ (rows[u].inline # Null) # (u \in DOMAIN content)
                     /\ ContentOf(u).len = rows[u].size
  <2>1. SoundRevision(rows[u], Moved(u))
    BY Zenon DEF SoundTables
  <2>2. /\ (u \in DOMAIN content) <=> (Moved(u) # Null)
        /\ ContentOf(u) = IF Moved(u) # Null THEN Moved(u) ELSE rows[u].inline
    BY WhereContentIs, Zenon
  <2>3. Null \notin ContentBlob
    BY NullIsNew, Zenon
  <2>4. CASE rows[u].size = 0
    BY <2>1, <2>2, <2>4, Zenon DEF SoundRevision
  <2>5. CASE rows[u].size # 0
    BY <2>1, <2>2, <2>3, <2>5, Zenon DEF SoundRevision
  <2> QED BY <2>4, <2>5, Zenon
<1> QED BY <1>1, <1>2, <1>3, SizeOfHeads, Zenon DEF StoreVerifies

-----------------------------------------------------------------------------
(* A deleted listing.                                                      *)

\* What was read is, in order, what belongs in the answer up to the cursor.
ListInv ==
  list # NoRead =>
    /\ list \in [phase : {"reading", "done", "refused"}, suppress : BOOLEAN, after : Nat,
                 pages : Seq(SUBSET Nat)]
    /\ list.after <= seq
    /\ list.phase = "refused" => Cardinality(Deleted(list.suppress, 0)) > MaxItems
    /\ list.phase # "refused" =>
         /\ Ascending(list.pages)
         /\ Items(list.pages) = {u \in Deleted(list.suppress, 0) : u <= list.after}
    /\ list.phase = "done" => Items(list.pages) = Deleted(list.suppress, 0)

\* One more page.
LEMMA OneMorePage ==
  ASSUME NEW pages \in Seq(SUBSET Nat), NEW page \in SUBSET Nat
  PROVE  /\ Append(pages, page) \in Seq(SUBSET Nat)
         /\ Items(Append(pages, page)) = Items(pages) \cup page
         /\ Ascending(pages) /\ (\A u \in Items(pages), w \in page : u < w) => Ascending(Append(pages, page))
         /\ Descending(pages) /\ (\A u \in Items(pages), w \in page : u > w) => Descending(Append(pages, page))
<1>1. PICK t : t = Append(pages, page)
  BY Zenon
<1>2. PICK n : n = Len(pages)
  BY Zenon
<1>3. /\ t \in Seq(SUBSET Nat) /\ n \in Nat /\ Len(t) = n + 1 /\ t[n + 1] = page
      /\ \A i \in 1..n : t[i] = pages[i]
      /\ DOMAIN t = 1..(n + 1) /\ DOMAIN pages = 1..n
  BY <1>1, <1>2
<1>4. 1..(n + 1) = 1..n \cup {n + 1}
  BY <1>3
<1>5. Range(t) = Range(pages) \cup {page}
  <2>1. Range(t) = {t[i] : i \in 1..n} \cup {t[n + 1]}
    <3> HIDE DEF Range
    <3> DEFINE I == 1..n
               k == n + 1
    <3>1. DOMAIN t = I \cup {k}
      BY <1>3, <1>4, Zenon
    <3> HIDE DEF I, k
    <3>2. Range(t) = {t[i] : i \in I} \cup {t[k]}
      BY <3>1, Zenon DEF Range
    <3> QED BY <3>2, Zenon DEF I, k
  <2>2. Range(pages) = {pages[i] : i \in 1..n}
    BY <1>3, Zenon DEF Range
  <2>3. {t[i] : i \in 1..n} = {pages[i] : i \in 1..n}
    BY <1>3, Zenon
  <2> QED BY <2>1, <2>2, <2>3, <1>3, Zenon
<1>6. Items(t) = Items(pages) \cup page
  BY <1>5, Zenon DEF Items
<1>7. \A i \in 1..n : \A u \in pages[i] : u \in Items(pages)
  BY <1>3, Zenon DEF Items, Range
<1>8. \A i, j \in 1..(n + 1) : i < j => i \in 1..n /\ (j \in 1..n \/ j = n + 1)
  BY <1>3
<1>9. ASSUME Ascending(pages), \A u \in Items(pages), w \in page : u < w PROVE Ascending(t)
  <2> SUFFICES ASSUME NEW i \in 1..(n + 1), NEW j \in 1..(n + 1), i < j, NEW u \in t[i], NEW w \in t[j]
               PROVE  u < w
    BY <1>3, Zenon DEF Ascending
  <2>1. i \in 1..n /\ t[i] = pages[i] /\ u \in Items(pages)
    BY <1>3, <1>7, <1>8, Zenon
  <2>2. CASE j \in 1..n
    BY <2>1, <2>2, <1>2, <1>3, <1>9, Zenon DEF Ascending
  <2>3. CASE j = n + 1
    BY <2>1, <2>3, <1>3, <1>9, Zenon
  <2> QED BY <2>2, <2>3, <1>8, Zenon
<1>10. ASSUME Descending(pages), \A u \in Items(pages), w \in page : u > w PROVE Descending(t)
  <2> SUFFICES ASSUME NEW i \in 1..(n + 1), NEW j \in 1..(n + 1), i < j, NEW u \in t[i], NEW w \in t[j]
               PROVE  u > w
    BY <1>3, Zenon DEF Descending
  <2>1. i \in 1..n /\ t[i] = pages[i] /\ u \in Items(pages)
    BY <1>3, <1>7, <1>8, Zenon
  <2>2. CASE j \in 1..n
    BY <2>1, <2>2, <1>2, <1>3, <1>10, Zenon DEF Descending
  <2>3. CASE j = n + 1
    BY <2>1, <2>3, <1>3, <1>10, Zenon
  <2> QED BY <2>2, <2>3, <1>8, Zenon
<1> QED BY <1>1, <1>3, <1>6, <1>9, <1>10, Zenon

\* Before the first page nothing was read.
LEMMA NoPages ==
  <<>> \in Seq(SUBSET Nat) /\ Items(<<>>) = {} /\ Ascending(<<>>) /\ Descending(<<>>)
<1>1. <<>> \in Seq(SUBSET Nat) /\ Len(<<>>) = 0 /\ DOMAIN <<>> = {} /\ 1..0 = {}
  OBVIOUS
<1>2. Items(<<>>) = {}
  BY <1>1, Zenon DEF Items, Range
<1> QED BY <1>1, <1>2 DEF Ascending, Descending

\* list_deleted_page from a cursor is what is left of the whole.
LEMMA DeletedAfter ==
  ASSUME SoundTables, NEW suppress, NEW after \in Nat
  PROVE  /\ Deleted(suppress, after) = {u \in Deleted(suppress, 0) : u > after}
         /\ Deleted(suppress, 0) \subseteq Uid
<1>1. \A u \in Uid : u > 0 /\ u \in Nat
  BY DEF SoundTables
<1>2. Heads(rows) \subseteq Uid
  BY Zenon DEF Heads, Uid
<1> QED BY <1>1, <1>2, Zenon DEF Deleted

LEMMA ListBegins ==
  ASSUME SoundTables, NEW suppress \in BOOLEAN, BeginList(suppress)
  PROVE  ListInv'
<1>1. list' = [phase |-> "reading", suppress |-> suppress, after |-> 0, pages |-> <<>>]
  BY Zenon DEF BeginList
<1>2. /\ list' \in [phase : {"reading", "done", "refused"}, suppress : BOOLEAN, after : Nat,
                    pages : Seq(SUBSET Nat)]
      /\ list'.phase = "reading" /\ list'.after = 0 /\ list'.pages = <<>> /\ list'.suppress = suppress
  BY <1>1, NoPages
<1>3. rows' = rows /\ seq' = seq /\ 0 <= seq
  BY DEF BeginList, SoundTables
<1>4. \A u \in Deleted(suppress, 0) : ~(u <= 0)
  <2>1. \A u \in Uid : ~(u <= 0)
    BY DEF SoundTables
  <2> QED BY <2>1, DeletedAfter, Zenon
<1>5. Deleted(suppress, 0)' = Deleted(suppress, 0)
  BY <1>3, Zenon DEF Deleted, Uid
<1>6. Deleted(list.suppress, 0)' = Deleted(suppress, 0)
  BY <1>2, <1>3, Zenon DEF Deleted, Uid
<1>7. Items(<<>>) = {u \in Deleted(suppress, 0) : u <= 0}
  BY <1>4, NoPages, Zenon
<1> QED BY <1>2, <1>3, <1>6, <1>7, NoPages DEF ListInv

\* A page adds what comes next, and the last one all that is left.
LEMMA PageRead ==
  ASSUME Counting, SoundTables, ListInv, ListPage
  PROVE  ListInv'
<1>1. PICK all : all = Deleted(list.suppress, 0)
  BY Zenon
<1>2. PICK left : left = Deleted(list.suppress, list.after)
  BY Zenon
<1>3. PICK page : page = FirstOf(left, PageSize)
  BY Zenon
<1>4. rows' = rows /\ seq' = seq
  BY Zenon DEF ListPage
<1>5. list.phase = "reading" /\ list # NoRead
  BY DEF ListPage, NoRead
<1>6. /\ list \in [phase : {"reading", "done", "refused"}, suppress : BOOLEAN, after : Nat,
                   pages : Seq(SUBSET Nat)]
      /\ list.after <= seq /\ Ascending(list.pages)
      /\ Items(list.pages) = {u \in all : u <= list.after}
  BY <1>1, <1>5 DEF ListInv
<1>7. list.after \in Nat /\ list.pages \in Seq(SUBSET Nat)
  BY <1>6, Zenon
<1>8. left = {u \in all : u > list.after} /\ all \subseteq Uid
  BY <1>1, <1>2, <1>7, DeletedAfter, Zenon
<1>9. seq \in Nat /\ Uid \subseteq 0..seq /\ Uid \subseteq Nat
  BY DEF SoundTables
<1>10. left \subseteq 0..seq /\ PageSize \in Nat /\ PageSize # 0
  BY <1>8, <1>9, RevisionAssumption, Zenon
<1>11. /\ page \subseteq left
       /\ \A u \in page, w \in left : w < u => w \in page
       /\ Cardinality(page) < PageSize => page = left
  BY <1>3, <1>9, <1>10, FirstOfLower, Zenon
<1>12. page \in SUBSET Nat /\ page \subseteq all
  BY <1>8, <1>9, <1>11, Zenon
<1>13. PICK items : items = Items(list.pages) \cup page
  BY Zenon
<1>14. items \subseteq all /\ IsFiniteSet(all)
  <2>1. all \subseteq 0..seq
    BY <1>8, <1>9, Zenon
  <2> QED BY <2>1, <1>6, <1>9, <1>12, <1>13, Numbers, Zenon
<1>15. PICK after : after = Max({list.after} \cup page)
  BY Zenon
<1>16. list' = IF Cardinality(items) > MaxItems
               THEN [list EXCEPT !.phase = "refused"]
               ELSE [list EXCEPT !.pages = Append(list.pages, page), !.after = after,
                                 !.phase = IF Cardinality(page) < PageSize THEN "done" ELSE "reading"]
  BY <1>2, <1>3, <1>5, <1>13, <1>15 DEF ListPage
<1>17. list'.suppress = list.suppress
  BY <1>6, <1>16
<1>18. Deleted(list.suppress, 0)' = all
  BY <1>1, <1>4, <1>17, Zenon DEF Deleted, Uid
<1>19. CASE Cardinality(items) > MaxItems
  <2>1. list' = [list EXCEPT !.phase = "refused"]
    BY <1>16, <1>19, Zenon
  <2>2. Cardinality(all) > MaxItems
    <3>1. Cardinality(items) <= Cardinality(all) /\ Cardinality(items) \in Nat /\ Cardinality(all) \in Nat
      BY <1>14, Fewer, Zenon
    <3>2. \A x, y \in Nat : x <= y /\ x > MaxItems => y > MaxItems
      BY RevisionAssumption, SMT
    <3> QED BY <1>19, <3>1, <3>2, Zenon
  <2>3. /\ list' \in [phase : {"reading", "done", "refused"}, suppress : BOOLEAN, after : Nat,
                      pages : Seq(SUBSET Nat)]
        /\ list'.phase = "refused" /\ list'.after = list.after
    BY <1>6, <2>1, SMT
  <2> QED BY <1>4, <1>6, <1>18, <2>2, <2>3 DEF ListInv
<1>20. CASE ~(Cardinality(items) > MaxItems)
  <2>1. PICK phase : phase = IF Cardinality(page) < PageSize THEN "done" ELSE "reading"
    BY Zenon
  <2>2. PICK pages : pages = Append(list.pages, page)
    BY Zenon
  <2>3. list' = [list EXCEPT !.pages = pages, !.after = after, !.phase = phase]
    BY <1>16, <1>20, <2>1, <2>2, Zenon
  <2>4. \A u \in Items(list.pages), w \in page : u < w
    <3>1. \A u \in Items(list.pages), w \in page : u <= list.after /\ w > list.after /\ u \in Nat /\ w \in Nat
      BY <1>6, <1>8, <1>9, <1>11, Zenon
    <3> QED BY <1>7, <3>1, SMT
  <2>5. pages \in Seq(SUBSET Nat) /\ Items(pages) = items /\ Ascending(pages)
    BY <1>6, <1>7, <1>12, <1>13, <2>2, <2>4, OneMorePage, Zenon
  <2>6. after \in {list.after} \cup page /\ \A x \in {list.after} \cup page : x <= after
    <3> DEFINE S == {list.after} \cup page
    <3>1. list.after \in 0..seq
      BY <1>6, <1>7, <1>9, SMT
    <3>2. S \subseteq 0..seq /\ S # {}
      BY <3>1, <1>10, <1>11, Zenon
    <3> HIDE DEF S
    <3>3. Max(S) \in S /\ \A x \in S : x <= Max(S)
      BY <1>9, <3>2, GreatestOf, Zenon
    <3> QED BY <1>15, <3>3, Zenon DEF S
  <2>7. after \in Nat /\ after <= seq /\ list.after <= after
    <3>1. after \in Nat /\ list.after <= after
      BY <2>6, <1>7, <1>12, Zenon
    <3>2. \A x \in page : x <= seq
      BY <1>9, <1>10, <1>11, SMT
    <3> QED BY <3>1, <3>2, <1>6, <2>6, Zenon
  <2>8. items = {u \in all : u <= after}
    <3>1. ASSUME NEW u \in items PROVE u \in all /\ u <= after
      <4>1. CASE u \in page
        BY <4>1, <1>12, <2>6, Zenon
      <4>2. CASE u \in Items(list.pages)
        <5>1. u \in all /\ u <= list.after /\ u \in Nat
          BY <4>2, <1>6, <1>8, <1>9, Zenon
        <5> QED BY <5>1, <1>7, <2>7, SMT
      <4> QED BY <4>1, <4>2, <1>13, Zenon
    <3>2. ASSUME NEW u \in all, u <= after PROVE u \in items
      <4>1. u \in Nat
        BY <1>8, <1>9, Zenon
      <4>2. CASE u <= list.after
        BY <4>2, <1>6, <1>13, Zenon
      <4>3. CASE ~(u <= list.after)
        <5>1. u > list.after
          BY <4>1, <4>3, <1>7, SMT
        <5>2. u \in left
          BY <5>1, <1>8, Zenon
        <5>3. after # list.after
          BY <4>3, <3>2, Zenon
        <5>4. after \in page
          BY <5>3, <2>6, Zenon
        <5>5. u < after \/ u = after
          BY <3>2, <4>1, <2>7, SMT
        <5> QED BY <5>2, <5>4, <5>5, <1>11, <1>13, Zenon
      <4> QED BY <4>2, <4>3, Zenon
    <3> QED BY <3>1, <3>2, Zenon
  <2>9. phase = "done" => items = all
    <3> SUFFICES ASSUME phase = "done" PROVE items = all
      OBVIOUS
    <3>1. page = left
      BY <2>1, <1>11
    <3>2. \A u \in all : u <= list.after \/ u > list.after
      BY <1>7, <1>8, <1>9, SMT
    <3> QED BY <3>1, <3>2, <1>6, <1>8, <1>13, <1>14, Zenon
  <2>10. phase \in {"reading", "done"}
    BY <2>1
  <2>11. /\ list' \in [phase : {"reading", "done", "refused"}, suppress : BOOLEAN, after : Nat,
                       pages : Seq(SUBSET Nat)]
         /\ list'.phase = phase /\ list'.after = after /\ list'.pages = pages
    <3>1. phase \in {"reading", "done", "refused"}
      BY <2>10
    <3> QED BY <3>1, <1>6, <2>3, <2>5, <2>7, Zenon
  <2>12. list'.phase # "refused"
    BY <2>10, <2>11
  <2>13. list'.after <= seq' /\ Ascending(list'.pages) /\ Items(list'.pages) = {u \in all : u <= list'.after}
    BY <1>4, <2>5, <2>7, <2>8, <2>11, Zenon
  <2>14. list'.phase = "done" => Items(list'.pages) = all
    BY <2>5, <2>9, <2>11, Zenon
  <2> QED BY <1>18, <2>11, <2>12, <2>13, <2>14, Zenon DEF ListInv
<1> QED BY <1>19, <1>20, Zenon

\* While a listing holds commit_order nothing is written.
LEMMA ListUndisturbed ==
  ASSUME ListInv, list' = list, list = NoRead \/ (rows' = rows /\ seq' = seq)
  PROVE  ListInv'
<1>1. CASE list = NoRead
  BY <1>1, Zenon DEF ListInv, NoRead
<1>2. CASE rows' = rows /\ seq' = seq
  <2>1. Deleted(list.suppress, 0)' = Deleted(list.suppress, 0)
    BY <1>2, Zenon DEF Deleted, Uid
  <2>2. NoRead' = NoRead
    BY Zenon DEF NoRead
  <2> QED BY <1>2, <2>1, <2>2, Zenon DEF ListInv
<1> QED BY <1>1, <1>2, Zenon

\* What ListInv says of an answer.
LEMMA ListsExact ==
  ASSUME Counting, SoundTables, ListInv
  PROVE  DeletedExact
<1> DEFINE live     == {u \in Heads(rows) : ~rows[u].deleted}
           expected == {u \in Heads(rows) \ live :
                          /\ RestoreSource(u) # Null
                          /\ list.suppress => rows[u].path \notin {rows[w].related : w \in live}}
<1>1. CASE list = NoRead
  BY <1>1 DEF NoRead, DeletedExact
<1>2. CASE list # NoRead
  <2>1. Heads(rows) \subseteq Uid /\ \A u \in Uid : u > 0
    <3>1. \A u \in Uid : u > 0
      BY DEF SoundTables
    <3> QED BY <3>1, Zenon DEF Heads, Uid
  <2>2. expected = Deleted(list.suppress, 0)
    <3>1. ASSUME NEW u \in Heads(rows) PROVE u \in expected <=> u \in Deleted(list.suppress, 0)
      <4>1. CASE ~rows[u].deleted
        BY <4>1, Zenon DEF Deleted
      <4>2. CASE rows[u].deleted
        <5>1. RestoreSource(u) # Null <=> \E w \in Uid : rows[w].path = rows[u].path /\ w < u /\ ~rows[w].deleted
          BY <4>2, <2>1, SourceOfDeleted, Zenon
        <5>2. rows[u].path \notin {rows[w].related : w \in live}
                <=> ~ \E w \in Heads(rows) : ~rows[w].deleted /\ rows[w].related = rows[u].path
          BY Zenon
        <5>3. u \notin live /\ u > 0
          BY <2>1, <4>2, Zenon
        <5> HIDE DEF live
        <5> QED BY <4>2, <5>1, <5>2, <5>3, Zenon DEF Deleted
      <4> QED BY <4>1, <4>2, Zenon
    <3>2. expected \subseteq Heads(rows) /\ Deleted(list.suppress, 0) \subseteq Heads(rows)
      BY Zenon DEF Deleted
    <3> HIDE DEF expected
    <3> QED BY <3>1, <3>2, Zenon
  <2> HIDE DEF expected
  <2>3. list.phase = "refused" => Cardinality(expected) > MaxItems
    BY <1>2, <2>2, Zenon DEF ListInv
  <2>4. list.phase = "done" => Ascending(list.pages) /\ Items(list.pages) = expected
    BY <1>2, <2>2 DEF ListInv
  <2>5. list.phase \in {"done", "refused"} =>
          IF list.phase = "refused" THEN Cardinality(expected) > MaxItems
          ELSE Ascending(list.pages) /\ Items(list.pages) = expected
    BY <2>3, <2>4, Zenon
  <2> QED BY <2>5, Zenon DEF DeletedExact, expected
<1> QED BY <1>1, <1>2, Zenon

-----------------------------------------------------------------------------
(* A history.                                                              *)

Before(u, last) == IF last = Null THEN TRUE ELSE u < last

\* The revisions of the path that were stored when the client began and still are.
Asked == {u \in Uid : rows[u].path = hist.path /\ u <= hist.from}

\* What the client got ends where it asks from, and what it did not get comes before.
HistInv ==
  hist # NoRead =>
    /\ hist \in [phase : {"paging", "done"}, path : Path, last : Nat \cup {Null},
                 pages : Seq(SUBSET Nat), from : Nat]
    /\ hist.from <= seq /\ Descending(hist.pages)
    /\ hist.phase = "paging" =>
         /\ IF hist.last = Null THEN Items(hist.pages) = {} ELSE \A u \in Items(hist.pages) : u >= hist.last
         /\ \A u \in Asked : u \in Items(hist.pages) \/ Before(u, hist.last)
    /\ hist.phase = "done" => Asked \subseteq Items(hist.pages)

LEMMA HistoryBegins ==
  ASSUME SoundTables, NEW p \in Path, BeginHistory(p)
  PROVE  HistInv'
<1>1. hist' = [phase |-> "paging", path |-> p, last |-> Null, pages |-> <<>>, from |-> seq] /\ seq' = seq
  BY Zenon DEF BeginHistory
<1>2. seq \in Nat /\ seq <= seq
  BY DEF SoundTables
<1>3. /\ hist' \in [phase : {"paging", "done"}, path : Path, last : Nat \cup {Null},
                    pages : Seq(SUBSET Nat), from : Nat]
      /\ hist'.phase = "paging" /\ hist'.last = Null /\ hist'.pages = <<>> /\ hist'.from = seq
  BY <1>1, <1>2, NoPages
<1>4. \A u : Before(u, hist'.last)
  BY <1>3, Zenon DEF Before
<1>5. hist'.phase # "done"
  BY <1>3
<1>6. Items(hist'.pages) = {} /\ Descending(hist'.pages)
  BY <1>3, NoPages, Zenon
<1> QED BY <1>1, <1>2, <1>3, <1>4, <1>5, <1>6, Zenon DEF HistInv

\* One more than a page is read, and a page is sent.
Answers(left, all, page) == all = LastOf(left, HistoryPage + 1) /\ page = LastOf(all, HistoryPage)

\* An answer has the newest of what is left, and all of it when none follows.
LEMMA AnswerNewest ==
  ASSUME Counting, NEW m \in Nat, NEW left, left \subseteq 0..m, NEW all, NEW page, Answers(left, all, page)
  PROVE  /\ page \subseteq left
         /\ \A u \in left \ page, w \in page : u < w
         /\ Cardinality(all) > HistoryPage => page # {}
         /\ ~(Cardinality(all) > HistoryPage) => page = left
<1>1. HistoryPage \in Nat /\ HistoryPage # 0 /\ HistoryPage + 1 \in Nat
  BY RevisionAssumption
<1>2. PICK n : n = HistoryPage + 1 /\ all = LastOf(left, n) /\ page = LastOf(all, HistoryPage)
  BY Zenon DEF Answers
<1>3. /\ all \subseteq left
      /\ \A u \in all, w \in left : w > u => w \in all
      /\ Cardinality(all) < n => all = left
  BY <1>1, <1>2, LastOfUpper, Zenon
<1>4. all \subseteq 0..m
  BY <1>3, Zenon
<1>5. /\ page \subseteq all
      /\ \A u \in page, w \in all : w > u => w \in page
      /\ Cardinality(all) <= HistoryPage => page = all
      /\ all # {} => page # {}
  <2>1. ASSUME NEW s, s \subseteq 0..m
        PROVE  /\ LastOf(s, HistoryPage) \subseteq s
               /\ \A u \in LastOf(s, HistoryPage), w \in s : w > u => w \in LastOf(s, HistoryPage)
               /\ Cardinality(s) <= HistoryPage => LastOf(s, HistoryPage) = s
               /\ s # {} => LastOf(s, HistoryPage) # {}
    BY <1>1, <2>1, LastOfUpper, Zenon
  <2> QED BY <1>2, <1>4, <2>1, Zenon
<1>6. Cardinality(all) \in Nat
  BY <1>4, Numbers, Zenon
<1>7. ASSUME NEW u \in left \ page, NEW w \in page PROVE u < w
  <2>1. u \in 0..m /\ w \in 0..m /\ u # w
    BY <1>3, <1>5, Zenon
  <2>2. ~(u > w)
    BY <1>3, <1>5, Zenon
  <2> QED BY <2>1, <2>2, SMT
<1>8. ASSUME Cardinality(all) > HistoryPage PROVE page # {}
  <2>1. Cardinality(all) # 0
    BY <1>1, <1>6, <1>8, SMT
  <2>2. all # {}
    BY <2>1, NothingCounts, Zenon
  <2> QED BY <2>2, <1>5, Zenon
<1>9. ASSUME ~(Cardinality(all) > HistoryPage) PROVE page = left
  <2>1. Cardinality(all) <= HistoryPage /\ Cardinality(all) < n
    BY <1>1, <1>2, <1>6, <1>9, SMT
  <2> QED BY <2>1, <1>3, <1>5, Zenon
<1> QED BY <1>3, <1>5, <1>7, <1>8, <1>9, Zenon

LEMMA AnswerSent ==
  ASSUME Counting, SoundTables, HistInv, HistoryAnswer
  PROVE  HistInv'
<1>1. PICK left : left = Older(hist.path, hist.last)
  BY Zenon
<1>2. PICK all, page : Answers(left, all, page)
  BY Zenon DEF Answers
<1>4. rows' = rows /\ seq' = seq /\ Uid' = Uid
  BY Zenon DEF HistoryAnswer, Uid
<1>5. hist.phase = "paging" /\ hist # NoRead
  BY DEF HistoryAnswer, NoRead
<1>6. /\ hist \in [phase : {"paging", "done"}, path : Path, last : Nat \cup {Null},
                   pages : Seq(SUBSET Nat), from : Nat]
      /\ hist.from <= seq /\ Descending(hist.pages)
      /\ IF hist.last = Null THEN Items(hist.pages) = {} ELSE \A u \in Items(hist.pages) : u >= hist.last
      /\ \A u \in Asked : u \in Items(hist.pages) \/ Before(u, hist.last)
  BY <1>5, Zenon DEF HistInv
<1>7. hist.last \in Nat \cup {Null} /\ hist.pages \in Seq(SUBSET Nat)
  BY <1>6, Zenon
<1>8. seq \in Nat /\ Uid \subseteq 0..seq /\ Uid \subseteq Nat
  BY DEF SoundTables
<1>9. left \subseteq Uid /\ left \subseteq 0..seq /\ \A u \in left : Before(u, hist.last)
  BY <1>1, <1>8, Zenon DEF Older, Before
<1>10. \A u \in Asked : u \in Items(hist.pages) \/ u \in left
  BY <1>1, <1>6, Zenon DEF Asked, Older, Before
<1>11. /\ page \subseteq left
       /\ \A u \in left \ page, w \in page : u < w
       /\ Cardinality(all) > HistoryPage => page # {}
       /\ ~(Cardinality(all) > HistoryPage) => page = left
  BY <1>2, <1>8, <1>9, AnswerNewest, Zenon
<1>12. page \in SUBSET Nat
  BY <1>8, <1>9, <1>11, Zenon
<1>13. \A u \in Items(hist.pages), w \in page : u > w
  <2> SUFFICES ASSUME NEW u \in Items(hist.pages), NEW w \in page PROVE u > w
    OBVIOUS
  <2>1. hist.last # Null
    BY <1>6, Zenon
  <2>2. hist.last \in Nat /\ u >= hist.last /\ w < hist.last /\ w \in Nat
    BY <2>1, <1>6, <1>7, <1>9, <1>11, <1>12, Zenon DEF Before
  <2>3. u \in Nat
    <3>1. \A i \in DOMAIN hist.pages : hist.pages[i] \in SUBSET Nat
      BY <1>7
    <3> QED BY <3>1, Zenon DEF Items, Range
  <2> QED BY <2>2, <2>3, SMT
<1>14. PICK pages : pages = Append(hist.pages, page)
  BY Zenon
<1>15. /\ pages \in Seq(SUBSET Nat) /\ Items(pages) = Items(hist.pages) \cup page
       /\ Descending(pages)
  BY <1>6, <1>7, <1>12, <1>13, <1>14, OneMorePage, Zenon
<1>16. PICK last : last = Min(page)
  BY Zenon
<1>17. hist' = IF Cardinality(all) > HistoryPage
               THEN [hist EXCEPT !.pages = pages, !.last = last]
               ELSE [hist EXCEPT !.pages = pages, !.phase = "done"]
  BY <1>1, <1>2, <1>14, <1>16, Zenon DEF HistoryAnswer, Answers
<1>18. CASE Cardinality(all) > HistoryPage
  <2>1. last \in page /\ \A x \in page : last <= x
    BY <1>11, <1>12, <1>16, <1>18, LeastOf, Zenon
  <2>2. last \in Nat /\ last # Null
    BY <2>1, <1>12, NullIsNew, Zenon
  <2>3. hist' = [hist EXCEPT !.pages = pages, !.last = last]
    BY <1>17, <1>18, Zenon
  <2>4. /\ hist' \in [phase : {"paging", "done"}, path : Path, last : Nat \cup {Null},
                      pages : Seq(SUBSET Nat), from : Nat]
        /\ hist'.phase = "paging" /\ hist'.path = hist.path /\ hist'.last = last
        /\ hist'.pages = pages /\ hist'.from = hist.from
    BY <1>5, <1>6, <1>15, <2>2, <2>3, Zenon
  <2>5. Asked' = Asked
    BY <1>4, <2>4, Zenon DEF Asked
  <2>6. \A u \in Items(pages) : u >= last
    <3>1. \A u \in Items(hist.pages) : u > last
      BY <1>13, <2>1, Zenon
    <3>2. \A u \in page : u >= last
      BY <1>12, <2>1, <2>2, SMT
    <3>3. ASSUME NEW u \in Items(hist.pages) PROVE u >= last
      <4>1. u \in Nat
        <5>1. \A i \in DOMAIN hist.pages : hist.pages[i] \in SUBSET Nat
          BY <1>7
        <5> QED BY <5>1, Zenon DEF Items, Range
      <4>2. u > last
        BY <3>1, Zenon
      <4> QED BY <4>1, <4>2, <2>2, SMT
    <3> QED BY <3>2, <3>3, <1>15, Zenon
  <2>7. \A u \in Asked : u \in Items(pages) \/ Before(u, last)
    BY <1>10, <1>11, <1>15, <2>1, Zenon DEF Before
  <2>8. hist'.phase # "done"
    BY <2>4
  <2>9. hist'.from <= seq' /\ Descending(hist'.pages)
    BY <1>4, <1>6, <1>15, <2>4, Zenon
  <2>10. /\ IF hist'.last = Null THEN Items(hist'.pages) = {} ELSE \A u \in Items(hist'.pages) : u >= hist'.last
         /\ \A u \in Asked' : u \in Items(hist'.pages) \/ Before(u, hist'.last)
    BY <2>2, <2>4, <2>5, <2>6, <2>7, Zenon
  <2> QED BY <2>4, <2>8, <2>9, <2>10, Zenon DEF HistInv
<1>19. CASE ~(Cardinality(all) > HistoryPage)
  <2>1. hist' = [hist EXCEPT !.pages = pages, !.phase = "done"]
    BY <1>17, <1>19, Zenon
  <2>2. /\ hist' \in [phase : {"paging", "done"}, path : Path, last : Nat \cup {Null},
                      pages : Seq(SUBSET Nat), from : Nat]
        /\ hist'.phase = "done" /\ hist'.path = hist.path
        /\ hist'.pages = pages /\ hist'.from = hist.from
    BY <1>6, <1>15, <2>1, Zenon
  <2>3. Asked' = Asked
    BY <1>4, <2>2, Zenon DEF Asked
  <2>4. Asked \subseteq Items(pages)
    BY <1>10, <1>11, <1>15, <1>19, Zenon
  <2>5. hist'.phase # "paging"
    BY <2>2
  <2>6. hist'.from <= seq' /\ Descending(hist'.pages) /\ Asked' \subseteq Items(hist'.pages)
    BY <1>4, <1>6, <1>15, <2>2, <2>3, <2>4, Zenon
  <2> QED BY <2>2, <2>5, <2>6, Zenon DEF HistInv
<1> QED BY <1>18, <1>19, Zenon

\* Others write, restore and purge between two answers.
LEMMA HistoryUndisturbed ==
  ASSUME HistInv, seq \in Nat, Uid' \subseteq Nat, Later, hist' = hist
  PROVE  HistInv'
<1>1. CASE hist = NoRead
  BY <1>1, Zenon DEF HistInv, NoRead
<1>2. CASE hist # NoRead
  <2>1. /\ hist \in [phase : {"paging", "done"}, path : Path, last : Nat \cup {Null},
                     pages : Seq(SUBSET Nat), from : Nat]
        /\ hist.from <= seq /\ hist.from \in Nat
    BY <1>2, Zenon DEF HistInv
  <2>2. hist'.from <= seq'
    BY <2>1, SMT DEF Later
  <2>3. Asked' \subseteq Asked
    <3> SUFFICES ASSUME NEW u \in Asked' PROVE u \in Asked
      OBVIOUS
    <3>1. u \in Uid' /\ rows'[u].path = hist.path /\ u <= hist.from
      BY Zenon DEF Asked
    <3>2. u <= seq
      BY <2>1, <3>1, SMT
    <3> QED BY <3>1, <3>2, Zenon DEF Asked, Later
  <2> QED BY <1>2, <2>1, <2>2, <2>3, Zenon DEF HistInv
<1> QED BY <1>1, <1>2, Zenon

LEMMA HistoriesComplete == HistInv => HistoryComplete
<1>1. CASE hist = NoRead
  BY <1>1 DEF NoRead, HistoryComplete
<1>2. CASE hist # NoRead
  BY <1>2, Zenon DEF HistInv, HistoryComplete, Asked
<1> QED BY <1>1, <1>2, Zenon

-----------------------------------------------------------------------------
(* The invariant of RevisionStore.                                         *)

\* The inductive invariant.
RevisionInv == SoundTables /\ PullInv /\ ListInv /\ HistInv

\* The server starts with tables its verification accepted.
LEMMA RevisionsInitial ==
  ASSUME Counting
  PROVE  RevisionInit => RevisionInv
<1> SUFFICES ASSUME RevisionInit PROVE RevisionInv
  OBVIOUS
<1>1. rows = Start /\ content = << >> /\ seq = Max({0} \cup Uid) /\ version = seq /\ size = VaultSize(rows)
  BY Zenon DEF RevisionInit
<1>2. pull = NoRead /\ list = NoRead /\ hist = NoRead
  BY Zenon DEF RevisionInit
<1>3. Uid \subseteq 1..MaxUid /\ MaxUid \in Nat
  BY <1>1, RevisionAssumption, Zenon DEF Uid
<1>4. seq \in {0} \cup Uid /\ \A u \in {0} \cup Uid : u <= seq
  <2> DEFINE S == {0} \cup Uid
  <2>1. S \subseteq 0..MaxUid /\ S # {}
    BY <1>3
  <2> HIDE DEF S
  <2>2. Max(S) \in S /\ \A x \in S : x <= Max(S)
    BY <1>3, <2>1, GreatestOf, Zenon
  <2> QED BY <1>1, <2>2, Zenon DEF S
<1>5. seq \in Nat /\ seq <= MaxUid /\ Uid \subseteq 1..seq
  BY <1>3, <1>4, SMT
<1>6. DOMAIN content = {}
  BY <1>1, SMT
<1>7. \A u \in Uid : SoundRevision(rows[u], Moved(u))
  <2> SUFFICES ASSUME NEW u \in Uid PROVE SoundRevision(rows[u], Moved(u))
    OBVIOUS
  <2>1. Moved(u) = Null
    BY <1>6, Zenon DEF Moved
  <2>2. /\ Start[u] \in StoredRow
        /\ Start[u].folder \/ Start[u].deleted => Start[u].size = 0
        /\ IF Start[u].size = 0 THEN Start[u].inline = Null
           ELSE Start[u].inline # Null /\ Start[u].inline.len = Start[u].size
    BY <1>1, RevisionAssumption, Zenon DEF StoredRow, Uid
  <2>3. Start[u].inline \in ContentBlob \cup {Null}
    BY <2>2, Zenon DEF StoredRow
  <2> QED BY <1>1, <2>1, <2>2, <2>3, Zenon DEF SoundRevision
<1>8. SoundTables
  BY <1>1, <1>5, <1>6, <1>7, Zenon DEF SoundTables
<1> QED BY <1>2, <1>8, Zenon DEF RevisionInv, PullInv, ListInv, HistInv

\* A mutation, and the reads in progress.
LEMMA MutationKeeps ==
  ASSUME RevisionInv, SoundTables', Later, list = NoRead, UNCHANGED <<pull, list, hist>>
  PROVE  RevisionInv'
<1>1. SoundTables /\ PullInv /\ ListInv /\ HistInv
  BY Zenon DEF RevisionInv
<1>2. seq \in Nat /\ Uid' \subseteq Nat
  BY <1>1 DEF SoundTables
<1>3. PullInv' /\ ListInv' /\ HistInv'
  BY <1>1, <1>2, PullUndisturbed, ListUndisturbed, HistoryUndisturbed, Zenon
<1> QED BY <1>3, Zenon DEF RevisionInv

\* A read, and the other reads.
LEMMA ReadKeeps ==
  ASSUME RevisionInv, UNCHANGED <<rows, content, seq, version, size>>,
         PullInv' \/ pull' = pull, ListInv' \/ list' = list, HistInv' \/ hist' = hist
  PROVE  RevisionInv'
<1>1. SoundTables /\ PullInv /\ ListInv /\ HistInv
  BY Zenon DEF RevisionInv
<1>2. SoundTables' /\ Later /\ Uid' = Uid /\ rows' = rows /\ seq' = seq
  BY <1>1, ReadsChangeNothing, Zenon
<1>3. seq \in Nat /\ Uid' \subseteq Nat
  BY <1>1, <1>2 DEF SoundTables
<1>4. PullInv'
  BY <1>1, <1>2, <1>3, PullUndisturbed, Zenon
<1>5. ListInv'
  BY <1>1, <1>2, ListUndisturbed, Zenon
<1>6. HistInv'
  BY <1>1, <1>2, <1>3, HistoryUndisturbed, Zenon
<1> QED BY <1>2, <1>4, <1>5, <1>6, Zenon DEF RevisionInv

\* Every step of the specification keeps the invariant.
LEMMA RevisionsInductive ==
  ASSUME Counting
  PROVE  RevisionInv /\ [RevisionNext]_revisionVars => RevisionInv'
<1> SUFFICES ASSUME RevisionInv, [RevisionNext]_revisionVars PROVE RevisionInv'
  OBVIOUS
<1>1. SoundTables /\ PullInv /\ ListInv /\ HistInv
  BY Zenon DEF RevisionInv
<1>2. ASSUME NEW p \in Path, NEW k \in Kinds, AddEmpty(p, k) PROVE RevisionInv'
  <2>1. list = NoRead /\ UNCHANGED <<pull, list, hist>>
    BY <1>2, Zenon DEF AddEmpty, Insert, Ordered
  <2> QED BY <1>1, <1>2, <2>1, AddEmptySound, MutationKeeps, Zenon
<1>3. ASSUME NEW p \in Path, NEW k \in Kinds, AddFile(p, k) PROVE RevisionInv'
  <2>1. list = NoRead /\ UNCHANGED <<pull, list, hist>>
    BY <1>3, Zenon DEF AddFile, Insert, Ordered
  <2> QED BY <1>1, <1>3, <2>1, AddFileSound, MutationKeeps, Zenon
<1>4. ASSUME NEW u \in Uid, Restore(u) PROVE RevisionInv'
  <2>1. list = NoRead /\ UNCHANGED <<pull, list, hist>>
    BY <1>4, Zenon DEF Restore, Insert, Ordered
  <2> QED BY <1>1, <1>4, <2>1, RestoreSound, MutationKeeps, Zenon
<1>5. CASE Purge \/ PurgeDeleted
  <2>1. list = NoRead /\ UNCHANGED <<pull, list, hist>>
    BY <1>5, Zenon DEF Purge, PurgeDeleted, Keep, Ordered
  <2> QED BY <1>1, <1>5, <2>1, PurgesSound, MutationKeeps, Zenon
<1>6. ASSUME NEW u \in Uid, BeginPull(u) PROVE RevisionInv'
  <2>1. UNCHANGED <<rows, content, seq, version, size>> /\ list' = list /\ hist' = hist
    BY <1>6, Zenon DEF BeginPull
  <2> QED BY <1>1, <1>6, <2>1, PullBegins, ReadKeeps, Zenon
<1>7. CASE PullPiece
  <2>1. UNCHANGED <<rows, content, seq, version, size>> /\ list' = list /\ hist' = hist
    BY <1>7, Zenon DEF PullPiece
  <2> QED BY <1>1, <1>7, <2>1, PieceSent, ReadKeeps, Zenon
<1>8. CASE EndPull
  <2>1. /\ UNCHANGED <<rows, content, seq, version, size>> /\ list' = list /\ hist' = hist
        /\ pull' = NoRead
    BY <1>8, Zenon DEF EndPull
  <2>2. PullInv'
    BY <2>1, Zenon DEF PullInv, NoRead
  <2> QED BY <2>1, <2>2, ReadKeeps, Zenon
<1>9. ASSUME NEW suppress \in BOOLEAN, BeginList(suppress) PROVE RevisionInv'
  <2>1. UNCHANGED <<rows, content, seq, version, size>> /\ pull' = pull /\ hist' = hist
    BY <1>9, Zenon DEF BeginList
  <2> QED BY <1>1, <1>9, <2>1, ListBegins, ReadKeeps, Zenon
<1>10. CASE ListPage
  <2>1. UNCHANGED <<rows, content, seq, version, size>> /\ pull' = pull /\ hist' = hist
    BY <1>10, Zenon DEF ListPage
  <2> QED BY <1>1, <1>10, <2>1, PageRead, ReadKeeps, Zenon
<1>11. CASE EndList
  <2>1. /\ UNCHANGED <<rows, content, seq, version, size>> /\ pull' = pull /\ hist' = hist
        /\ list' = NoRead
    BY <1>11, Zenon DEF EndList
  <2>2. ListInv'
    BY <2>1, Zenon DEF ListInv, NoRead
  <2> QED BY <2>1, <2>2, ReadKeeps, Zenon
<1>12. ASSUME NEW p \in Path, BeginHistory(p) PROVE RevisionInv'
  <2>1. UNCHANGED <<rows, content, seq, version, size>> /\ pull' = pull /\ list' = list
    BY <1>12, Zenon DEF BeginHistory
  <2> QED BY <1>1, <1>12, <2>1, HistoryBegins, ReadKeeps, Zenon
<1>13. CASE HistoryAnswer
  <2>1. UNCHANGED <<rows, content, seq, version, size>> /\ pull' = pull /\ list' = list
    BY <1>13, Zenon DEF HistoryAnswer
  <2> QED BY <1>1, <1>13, <2>1, AnswerSent, ReadKeeps, Zenon
<1>14. CASE EndHistory
  <2>1. /\ UNCHANGED <<rows, content, seq, version, size>> /\ pull' = pull /\ list' = list
        /\ hist' = NoRead
    BY <1>14, Zenon DEF EndHistory
  <2>2. HistInv'
    BY <2>1, Zenon DEF HistInv, NoRead
  <2> QED BY <2>1, <2>2, ReadKeeps, Zenon
<1>15. CASE UNCHANGED revisionVars
  <2>1. UNCHANGED <<rows, content, seq, version, size>> /\ pull' = pull /\ list' = list /\ hist' = hist
    BY <1>15, Zenon DEF revisionVars
  <2> QED BY <2>1, ReadKeeps, Zenon
<1> QED BY <1>2, <1>3, <1>4, <1>5, <1>6, <1>7, <1>8, <1>9, <1>10, <1>11, <1>12, <1>13, <1>14, <1>15,
           Zenon DEF RevisionNext

-----------------------------------------------------------------------------
(* Vaults: its invariant.                                                  *)

Marker == [id : VaultId, owner : User, at : Times]

\* Rows that every operation may leave behind: those devices that were let in
\* presented the stored key, and only a re-encryption nobody waited for has
\* another name than the one confirmed.
SoundRow ==
  {x \in Vault : /\ x.presented \subseteq {x.keyhash} \ {NoKey}
                 /\ x.orphan => x.version = 3
                 /\ x.orphan \/ x.name \in x.said}

SoundRows == vaults \in [VaultId -> {None} \cup SoundRow]

\* A re-encryption that holds commit_order has read a name that still counts.
ReadName ==
  \A r \in order : req[r].vault \in Existing => req[r].name \in vaults[req[r].vault].said

\* The inductive invariant.
Inv == TypeOK /\ SoundRows /\ ReadName /\ IsFiniteSet(retired) /\ RetiredVerifies

\* Two markers of one owner: one of them is newer, or they are the same.
LEMMA NewerIsTotal ==
  ASSUME NEW u, NEW a \in Marker, NEW b \in Marker, a.owner = u, b.owner = u
  PROVE  a = b \/ Newer(a, b) \/ Newer(b, a)
<1>1. a.at \in Nat /\ b.at \in Nat /\ a.id \in Nat /\ b.id \in Nat
  BY VaultAssumption, Zenon DEF Marker
<1>2. a.at = b.at /\ a.id = b.id => a = b
  BY SMT DEF Marker
<1> QED BY <1>1, <1>2, SMT DEF Newer

\* A nonempty set of one owner's markers has an oldest.
LEMMA OldestMarker ==
  ASSUME Counting, NEW u, NEW K \in SUBSET Marker, \A m \in K : m.owner = u, K # {}
  PROVE  \E m \in K : \A o \in K : o # m => Newer(o, m)
<1> DEFINE T == {m.at : m \in K}
<1>0. \A m \in K : m.at \in Nat /\ m.id \in Nat
  BY VaultAssumption, Zenon DEF Marker
<1>1. PICK t \in T : \A y \in T : t <= y
  <2>1. T \subseteq Nat /\ T # {}
    BY <1>0, Zenon
  <2> HIDE DEF T
  <2> QED BY <2>1, Least, Zenon
<1> DEFINE I == {m.id : m \in {n \in K : n.at = t}}
<1>2. PICK i \in I : \A y \in I : i <= y
  <2>1. I \subseteq Nat /\ I # {}
    BY <1>0, <1>1, Zenon
  <2> HIDE DEF I
  <2> QED BY <2>1, Least, Zenon
<1>3. PICK m \in K : m.at = t /\ m.id = i
  BY <1>2, Zenon
<1>4. ASSUME NEW o \in K, o # m PROVE Newer(o, m)
  <2>1. o.at \in T /\ (o.at = t => o.id \in I)
    BY Zenon
  <2>2. t <= o.at /\ (o.at = t => i <= o.id)
    BY <1>1, <1>2, <2>1, Zenon
  <2>3. ~Newer(m, o)
    BY <1>0, <1>3, <2>2, SMT DEF Newer
  <2> QED BY <1>4, <2>3, NewerIsTotal, Zenon
<1> QED BY <1>4, Zenon

\* The n newest markers of an owner are at most n.
LEMMA NewestBound ==
  ASSUME Counting, NEW u, NEW M \in SUBSET Marker, \A m \in M : m.owner = u, IsFiniteSet(M), NEW n \in Nat
  PROVE  /\ Newest(M, n) \subseteq M /\ IsFiniteSet(Newest(M, n))
         /\ Cardinality(Newest(M, n)) \in Nat /\ Cardinality(Newest(M, n)) <= n
<1> DEFINE K == Newest(M, n)
<1>1. K \subseteq M /\ \A m \in K : Cardinality({o \in M : Newer(o, m)}) < n
  BY Zenon DEF Newest
<1>2. IsFiniteSet(K) /\ Cardinality(K) \in Nat
  BY <1>1, Fewer, Zenon
<1> HIDE DEF K
<1>3. CASE K = {}
  <2>1. Cardinality(K) = 0
    BY <1>3, NothingCounts, Zenon
  <2> QED BY <1>1, <1>2, <2>1, SMT DEF K
<1>4. CASE K # {}
  <2>1. K \in SUBSET Marker /\ \A m \in K : m.owner = u
    BY <1>1, Zenon
  <2>2. PICK m \in K : \A o \in K : o # m => Newer(o, m)
    BY <1>4, <2>1, OldestMarker, Zenon
  <2> DEFINE N == {o \in M : Newer(o, m)}
  <2>3. K \ {m} \subseteq N /\ N \subseteq M
    BY <1>1, <2>2, Zenon
  <2>4. Cardinality(N) < n
    BY <1>1, Zenon
  <2> HIDE DEF N
  <2>5. /\ Cardinality(K \ {m}) \in Nat /\ Cardinality(N) \in Nat
        /\ Cardinality(K \ {m}) <= Cardinality(N)
    BY <2>3, Fewer, Zenon
  <2>6. Cardinality(K \ {m}) = Cardinality(K) - 1
    BY <1>2, OneLess, Zenon
  <2>7. Cardinality(K) <= n
    BY <1>2, <2>4, <2>5, <2>6
  <2> QED BY <1>1, <1>2, <2>7, Zenon DEF K
<1> QED BY <1>3, <1>4, Zenon

LEMMA RowIsNoNone == ASSUME NEW x \in Vault PROVE x # None
BY SMT DEF Vault, None

LEMMA RowOf ==
  ASSUME SoundRows, NEW v \in Existing
  PROVE  v \in VaultId /\ vaults[v] \in SoundRow /\ vaults[v] \in Vault
BY Zenon DEF SoundRows, Existing, SoundRow

\* A row is replaced, added or removed.
LEMMA OneRow ==
  ASSUME SoundRows, NEW v \in VaultId, NEW x \in {None} \cup SoundRow,
         vaults' = [vaults EXCEPT ![v] = x]
  PROVE  /\ SoundRows' /\ vaults'[v] = x /\ \A w \in VaultId : w # v => vaults'[w] = vaults[w]
         /\ x = None => Existing' = Existing \ {v}
         /\ x # None => Existing' = Existing \cup {v}
<1>1. SoundRows' /\ vaults'[v] = x /\ \A w \in VaultId : w # v => vaults'[w] = vaults[w]
  BY Zenon DEF SoundRows
<1> QED BY <1>1, Zenon DEF Existing

LEMMA SoundIsTyped == SoundRows => vaults \in [VaultId -> {None} \cup Vault]
BY Zenon DEF SoundRows, SoundRow

\* A request that holds commit_order is a re-encryption.
LEMMA HolderOf ==
  ASSUME TypeOK, NEW r \in order
  PROVE  /\ r \in Req /\ req[r].kind = "migrate" /\ req[r] # Idle
         /\ req[r].vault \in VaultId /\ req[r].name \in Name /\ req[r].user \in User
<1>1. r \in Req /\ req[r].kind = "migrate" /\ req[r] \in Request
  BY Zenon DEF TypeOK
<1>2. Idle.kind = "idle"
  BY Zenon DEF Idle
<1>3. req[r] \in [kind : {"migrate"}, user : User, vault : VaultId, name : Name]
  BY <1>1, <1>2, Zenon DEF Request
<1> QED BY <1>1, <1>2, <1>3, Zenon

\* Identities in use are not fresh.
LEMMA FreshIsNew ==
  ASSUME NEW w \in Fresh
  PROVE  /\ w \in VaultId /\ w \notin Existing /\ \A m \in retired : m.id # w
         /\ \A r \in Req : req[r] # Idle => req[r].vault # w
BY Zenon DEF Fresh

\* No marker goes or comes, and what comes to exist is fresh.
LEMMA SameMarkers ==
  ASSUME RetiredVerifies, IsFiniteSet(retired), retired' = retired,
         \A w \in Existing' : w \in Existing \/ w \in Fresh
  PROVE  IsFiniteSet(retired)' /\ RetiredVerifies'
<1>1. Cardinality(retired') <= MaxRetired /\ IsFiniteSet(retired')
  BY Zenon DEF RetiredVerifies
<1>2. \A u \in User : Cardinality(Markers(u)') <= MaxRetiredPerOwner
  BY Zenon DEF RetiredVerifies, Markers
<1>3. \A m \in retired' : m.id \notin Existing'
  BY FreshIsNew, Zenon DEF RetiredVerifies
<1> QED BY <1>1, <1>2, <1>3, Zenon DEF RetiredVerifies

\* The names that re-encryptions have read still count.
LEMMA SameNames ==
  ASSUME TypeOK, ReadName, order' \subseteq order, \A r \in order' : req'[r] = req[r],
         \A v \in VaultId : v \in Existing' => v \in Fresh \/ (v \in Existing /\ vaults[v].said \subseteq vaults'[v].said)
  PROVE  ReadName'
<1> SUFFICES ASSUME NEW r \in order', req[r].vault \in Existing'
             PROVE  req[r].name \in vaults'[req[r].vault].said
  BY Zenon DEF ReadName
<1>1. r \in order /\ r \in Req /\ req[r] # Idle /\ req[r].vault \in VaultId
  BY HolderOf, Zenon
<1>2. req[r].vault \notin Fresh
  BY <1>1, FreshIsNew, Zenon
<1> QED BY <1>1, <1>2, Zenon DEF ReadName

\* A request is over.
LEMMA RequestEnds ==
  ASSUME TypeOK, NEW r \in Req, order' = order \ {r}, req' = [req EXCEPT ![r] = Idle]
  PROVE  /\ req' \in [Req -> Request] /\ order' \subseteq Req /\ (\A q, s \in order' : q = s)
         /\ \A q \in order' : req'[q] = req[q] /\ req'[q].kind = "migrate"
BY Zenon DEF TypeOK, Request

LEMMA InitInv ==
  ASSUME Counting
  PROVE  Init => Inv
<1> SUFFICES ASSUME Init PROVE Inv
  OBVIOUS
<1>1. TypeOK /\ SoundRows /\ ReadName
  BY Zenon DEF Init, TypeOK, SoundRows, ReadName, Request
<1>2. Existing = {} /\ retired = {}
  BY Zenon DEF Init, Existing
<1>3. IsFiniteSet(retired) /\ Cardinality(retired) = 0
  BY <1>2, NothingCounts, Zenon
<1>4. \A u \in User : Markers(u) = {}
  BY <1>2, Zenon DEF Markers
<1>5. 0 <= MaxRetired /\ 0 <= MaxRetiredPerOwner
  <2>1. MaxRetired \in Nat /\ MaxRetiredPerOwner \in Nat
    BY VaultAssumption, Zenon
  <2> QED BY <2>1
<1>6. RetiredVerifies
  <2>1. \A u \in User : Cardinality(Markers(u)) = 0
    BY <1>4, NothingCounts, Zenon
  <2> QED BY <1>2, <1>3, <1>5, <2>1, Zenon DEF RetiredVerifies
<1> QED BY <1>1, <1>3, <1>6, Zenon DEF Inv

LEMMA CredentialsType ==
  ASSUME NEW c \in Credentials
  PROVE  c.managed \in BOOLEAN /\ c.keyhash \in Key \cup {NoKey}
<1>1. CASE c = [managed |-> TRUE, keyhash |-> NoKey]
  BY <1>1, Zenon
<1>2. ASSUME NEW k \in Key, c = [managed |-> FALSE, keyhash |-> k]
      PROVE  c.managed \in BOOLEAN /\ c.keyhash \in Key \cup {NoKey}
  BY <1>2, Zenon
<1> QED BY <1>1, <1>2, Zenon DEF Credentials

LEMMA CreateInv ==
  ASSUME Inv, NEW u \in User, NEW v \in VaultId, NEW c \in Credentials, NEW encryption \in {2, 3},
         NEW n \in Name, CreateVault(u, v, c, encryption, n)
  PROVE  Inv' /\ Existing' = Existing \cup {v}
<1> DEFINE x == Row(u, c, encryption, n, {n}, FALSE)
<1>1. c.managed \in BOOLEAN /\ c.keyhash \in Key \cup {NoKey}
  BY CredentialsType, Zenon
<1>2. encryption \in 2..3
  BY SMT
<1>3. x \in SoundRow
  <2>1. x \in Vault
    BY <1>1, <1>2, Zenon DEF Row, Vault
  <2> QED BY <2>1, Zenon DEF Row, SoundRow
<1>4. v \in Fresh /\ vaults' = [vaults EXCEPT ![v] = x] /\ UNCHANGED <<retired, order, req>>
  BY Zenon DEF CreateVault
<1> HIDE DEF x
<1>5. /\ SoundRows' /\ Existing' = Existing \cup {v}
      /\ \A w \in VaultId : w # v => vaults'[w] = vaults[w]
  <2>1. x # None
    BY <1>3, RowIsNoNone, Zenon DEF SoundRow
  <2> QED BY <1>3, <1>4, <2>1, OneRow, Zenon DEF Inv
<1>6. TypeOK'
  BY <1>4, <1>5, SoundIsTyped, Zenon DEF Inv, TypeOK, SoundRows, SoundRow
<1>7. ReadName'
  <2>1. v \notin Existing
    BY <1>4, FreshIsNew, Zenon
  <2> QED BY <1>4, <1>5, <2>1, SameNames, Zenon DEF Inv
<1>8. IsFiniteSet(retired)' /\ RetiredVerifies'
  BY <1>4, <1>5, SameMarkers, Zenon DEF Inv
<1> QED BY <1>5, <1>6, <1>7, <1>8, Zenon DEF Inv

\* A row changes in its key, its name or its history, and stays sound.
LEMMA ChangedRow ==
  ASSUME Inv, NEW v \in Existing, NEW x \in SoundRow, vaults' = [vaults EXCEPT ![v] = x],
         x.said = vaults[v].said \/ (order = {} \/ vaults[v].said \subseteq x.said),
         retired' = retired, order' = order, \A r \in order : req'[r] = req[r],
         req' \in [Req -> Request]
  PROVE  Inv' /\ Existing' = Existing
<1>1. v \in VaultId /\ x # None
  BY RowIsNoNone, Zenon DEF SoundRow, Existing
<1>2. /\ SoundRows' /\ vaults'[v] = x /\ \A w \in VaultId : w # v => vaults'[w] = vaults[w]
      /\ Existing' = Existing
  <2>1. Existing \cup {v} = Existing
    BY Zenon
  <2> QED BY <1>1, <2>1, OneRow, Zenon DEF Inv
<1>3. TypeOK'
  BY <1>2, SoundIsTyped, Zenon DEF Inv, TypeOK, SoundRows, SoundRow
<1>4. ReadName'
  <2>1. CASE order = {}
    BY <2>1, Zenon DEF ReadName
  <2>2. CASE vaults[v].said \subseteq x.said
    <3>1. \A w \in VaultId : w \in Existing' => w \in Existing /\ vaults[w].said \subseteq vaults'[w].said
      BY <1>2, <2>2, Zenon
    <3> QED BY <3>1, SameNames, Zenon DEF Inv
  <2> QED BY <2>1, <2>2, Zenon
<1>5. IsFiniteSet(retired)' /\ RetiredVerifies'
  BY <1>2, SameMarkers, Zenon DEF Inv
<1> QED BY <1>2, <1>3, <1>4, <1>5, Zenon DEF Inv

\* A request begins, and changes nothing yet.
LEMMA RequestBegins ==
  ASSUME Inv, UNCHANGED <<vaults, retired, order>>, \A r \in order : req'[r] = req[r],
         req' \in [Req -> Request]
  PROVE  Inv' /\ Existing' = Existing
<1>1. Existing' = Existing
  BY Zenon DEF Existing
<1>2. TypeOK' /\ SoundRows'
  BY Zenon DEF Inv, TypeOK, SoundRows, SoundRow
<1>3. ReadName'
  BY <1>1, Zenon DEF Inv, ReadName
<1>4. IsFiniteSet(retired)' /\ RetiredVerifies'
  BY <1>1, SameMarkers, Zenon DEF Inv
<1> QED BY <1>1, <1>2, <1>3, <1>4, Zenon DEF Inv

LEMMA AccessInv ==
  ASSUME Inv, NEW r \in Req, NEW u \in User, NEW v \in VaultId, NEW k \in Key,
         AccessVault(r, u, v, k)
  PROVE  Inv' /\ Existing' = Existing
<1>1. req[r] = Idle /\ v \in Existing /\ UNCHANGED <<retired, order>> /\ r \notin order
  BY HolderOf, Zenon DEF AccessVault, MayAccess, Inv
<1>2. req \in [Req -> Request] /\ order \subseteq Req
  BY Zenon DEF Inv, TypeOK
<1>3. CASE vaults[v].managed /\ vaults[v].keyhash = NoKey
  <2> DEFINE q == [kind |-> "bind", user |-> u, vault |-> v, key |-> k]
  <2>1. req' = [req EXCEPT ![r] = q] /\ vaults' = vaults
    BY <1>3, Zenon DEF AccessVault
  <2>2. q \in Request
    BY Zenon DEF Request
  <2>3. req' \in [Req -> Request] /\ \A s \in order : req'[s] = req[s]
    BY <1>1, <1>2, <2>1, <2>2, Zenon
  <2> QED BY <1>1, <2>1, <2>3, RequestBegins, Zenon
<1>4. CASE ~(vaults[v].managed /\ vaults[v].keyhash = NoKey)
  <2> DEFINE x == [vaults[v] EXCEPT !.presented = @ \cup {k}]
  <2>1. vaults[v].keyhash = k /\ vaults' = [vaults EXCEPT ![v] = x] /\ req' = req
    BY <1>4, Zenon DEF AccessVault
  <2>2. x \in SoundRow /\ x.said = vaults[v].said
    <3>1. vaults[v] \in SoundRow /\ k # NoKey
      BY <1>1, RowOf, VaultAssumption, Zenon DEF Inv
    <3> QED BY <2>1, <3>1, SMT DEF SoundRow, Vault
  <2> HIDE DEF x
  <2> QED BY <1>1, <1>2, <2>1, <2>2, ChangedRow, Zenon
<1> QED BY <1>3, <1>4, Zenon

LEMMA BindInv == ASSUME Inv, NEW r \in Req, BindKey(r) PROVE Inv' /\ Existing' = Existing
<1> DEFINE q == req[r]
           stored == Bound(q.user, q.vault, q.key)
<1>1. q \in [kind : {"bind"}, user : User, vault : VaultId, key : Key] /\ r \notin order
  <2>1. q.kind = "bind" /\ q \in Request /\ Idle.kind = "idle"
    BY Zenon DEF BindKey, Inv, TypeOK, Idle
  <2>2. r \notin order
    BY <2>1, HolderOf, Zenon DEF Inv
  <2> QED BY <2>1, <2>2, Zenon DEF Request
<1>2. req' = [req EXCEPT ![r] = Idle] /\ UNCHANGED <<retired, order>>
  BY Zenon DEF BindKey
<1>3. req' \in [Req -> Request] /\ \A s \in order : req'[s] = req[s]
  BY <1>1, <1>2, Zenon DEF Inv, TypeOK, Request
<1>4. CASE stored = NoKey
  <2>1. vaults' = vaults
    BY <1>4, Zenon DEF BindKey
  <2> QED BY <1>2, <1>3, <2>1, RequestBegins, Zenon
<1>5. CASE stored # NoKey
  <2> DEFINE v == q.vault
             x == [vaults[v] EXCEPT !.keyhash = stored, !.presented = @ \cup ({stored} \cap {q.key})]
  <2>1. v \in Existing
    BY <1>5, Zenon DEF Bound, Owned
  <2>2. vaults' = [vaults EXCEPT ![v] = x]
    BY <1>5, Zenon DEF BindKey
  <2>3. x \in SoundRow /\ x.said = vaults[v].said
    <3>1. vaults[v] \in SoundRow /\ vaults[v] \in Vault /\ q.key \in Key
      BY <1>1, <2>1, RowOf, Zenon DEF Inv
    <3>2. stored \in Key /\ (vaults[v].keyhash = NoKey \/ stored = vaults[v].keyhash)
      BY <1>5, <3>1, Zenon DEF Bound, Vault
    <3>3. \A p \in vaults[v].presented : p = stored
      BY <3>1, <3>2, Zenon DEF SoundRow
    <3>4. x \in Vault
      BY <3>1, <3>2, Zenon DEF Vault
    <3>5. /\ x.presented = vaults[v].presented \cup ({stored} \cap {q.key}) /\ x.keyhash = stored
          /\ x.orphan = vaults[v].orphan /\ x.version = vaults[v].version
          /\ x.name = vaults[v].name /\ x.said = vaults[v].said
      BY <3>1, SMT DEF Vault
    <3> HIDE DEF x, stored
    <3> QED BY <1>5, <3>1, <3>3, <3>4, <3>5, Zenon DEF SoundRow
  <2> HIDE DEF x
  <2> QED BY <1>2, <1>3, <2>1, <2>2, <2>3, ChangedRow, Zenon
<1> QED BY <1>4, <1>5, Zenon

LEMMA RenameInv ==
  ASSUME Inv, NEW u \in User, NEW v \in VaultId, NEW n \in Name, NEW answered \in BOOLEAN,
         RenameVault(u, v, n, answered)
  PROVE  Inv' /\ Existing' = Existing
<1> DEFINE said == IF answered THEN {n} ELSE vaults[v].said \cup {n}
           x == [vaults[v] EXCEPT !.name = n, !.said = said]
<1>1. /\ v \in Existing /\ (answered => order = {}) /\ UNCHANGED <<retired, order, req>>
      /\ vaults' = [vaults EXCEPT ![v] = x]
  BY Zenon DEF RenameVault, Owned
<1>2. vaults[v] \in SoundRow /\ vaults[v] \in Vault
  BY <1>1, RowOf, Zenon DEF Inv
<1>3. n \in said /\ said \in SUBSET Name /\ (order = {} \/ vaults[v].said \subseteq said)
  <2>1. vaults[v].said \in SUBSET Name
    BY <1>2, Zenon DEF Vault
  <2> QED BY <1>1, <2>1, Zenon
<1> HIDE DEF said
<1>4. x \in SoundRow /\ x.said = said
  <2>1. x \in Vault
    BY <1>2, <1>3, Zenon DEF Vault
  <2>2. /\ x.presented = vaults[v].presented /\ x.keyhash = vaults[v].keyhash
        /\ x.orphan = vaults[v].orphan /\ x.version = vaults[v].version
        /\ x.name = n /\ x.said = said
    BY <1>2, SMT DEF Vault
  <2> HIDE DEF x
  <2> QED BY <1>2, <1>3, <2>1, <2>2, Zenon DEF SoundRow
<1> HIDE DEF x
<1>5. req \in [Req -> Request]
  BY Zenon DEF Inv, TypeOK
<1> QED BY <1>1, <1>3, <1>4, <1>5, ChangedRow, Zenon

LEMMA MigrateInv ==
  ASSUME Inv, NEW r \in Req, NEW u \in User, NEW v \in VaultId, MigrateVault(r, u, v)
  PROVE  Inv' /\ Existing' = Existing
<1> DEFINE q == [kind |-> "migrate", user |-> u, vault |-> v, name |-> vaults[v].name]
<1>1. /\ req[r] = Idle /\ order = {} /\ v \in Existing /\ vaults[v].version < 3
      /\ order' = {r} /\ req' = [req EXCEPT ![r] = q] /\ UNCHANGED <<vaults, retired>>
  BY Zenon DEF MigrateVault, Owned
<1>2. vaults[v] \in SoundRow /\ vaults[v] \in Vault
  BY <1>1, RowOf, Zenon DEF Inv
<1>3. vaults[v].name \in vaults[v].said /\ vaults[v].name \in Name
  <2>1. vaults[v].version # 3
    BY <1>1
  <2> QED BY <1>2, <2>1, Zenon DEF SoundRow, Vault
<1>4. q \in Request
  BY <1>3, Zenon DEF Request
<1>5. req' \in [Req -> Request] /\ req'[r] = q
  BY <1>1, <1>4, Zenon DEF Inv, TypeOK
<1>6. Existing' = Existing
  BY <1>1, Zenon DEF Existing
<1>7. TypeOK' /\ SoundRows'
  BY <1>1, <1>5, Zenon DEF Inv, TypeOK, SoundRows, SoundRow
<1>8. ReadName'
  BY <1>1, <1>3, <1>5, Zenon DEF ReadName
<1>9. IsFiniteSet(retired)' /\ RetiredVerifies'
  BY <1>1, <1>6, SameMarkers, Zenon DEF Inv
<1> QED BY <1>6, <1>7, <1>8, <1>9, Zenon DEF Inv

LEMMA DropInv == ASSUME Inv, NEW r \in Req, DropRequest(r) PROVE Inv' /\ Existing' = Existing
<1>1. order' = {} /\ UNCHANGED <<vaults, retired, req>>
  BY Zenon DEF DropRequest
<1>2. Existing' = Existing
  BY <1>1, Zenon DEF Existing
<1>3. TypeOK' /\ SoundRows' /\ ReadName'
  BY <1>1, Zenon DEF Inv, TypeOK, SoundRows, SoundRow, ReadName
<1>4. IsFiniteSet(retired)' /\ RetiredVerifies'
  BY <1>1, <1>2, SameMarkers, Zenon DEF Inv
<1> QED BY <1>2, <1>3, <1>4, Zenon DEF Inv

LEMMA FailInv == ASSUME Inv, NEW r \in Req, FailRequest(r) PROVE Inv' /\ Existing' = Existing
<1>1. order' = order \ {r} /\ req' = [req EXCEPT ![r] = Idle] /\ UNCHANGED <<vaults, retired>>
  BY Zenon DEF FailRequest
<1>2. Existing' = Existing
  BY <1>1, Zenon DEF Existing
<1>3. /\ req' \in [Req -> Request] /\ order' \subseteq Req /\ (\A q, s \in order' : q = s)
      /\ \A q \in order' : req'[q] = req[q] /\ req'[q].kind = "migrate"
  BY <1>1, RequestEnds, Zenon DEF Inv
<1>4. TypeOK' /\ SoundRows'
  BY <1>1, <1>3, Zenon DEF Inv, TypeOK, SoundRows, SoundRow
<1>5. ReadName'
  BY <1>1, <1>2, <1>3, Zenon DEF Inv, ReadName
<1>6. IsFiniteSet(retired)' /\ RetiredVerifies'
  BY <1>1, <1>2, SameMarkers, Zenon DEF Inv
<1> QED BY <1>2, <1>4, <1>5, <1>6, Zenon DEF Inv

\* Whatever the clock says, the marker of the vault that goes finds room, and
\* both limits hold after it.
LEMMA RetireInv ==
  ASSUME Counting, Inv, NEW v \in Existing, NEW now \in Times, Retire(v, now), v \notin Existing',
         \A w \in Existing' : w \in Existing \/ w \in Fresh
  PROVE  retired' \subseteq Marker /\ IsFiniteSet(retired)' /\ RetiredVerifies'
<1> DEFINE u == vaults[v].owner
           x == [id |-> v, owner |-> u, at |-> now]
           N == Newest(Markers(u), MaxRetiredPerOwner - 1)
           K == (retired \ Markers(u)) \cup N
<1>1. Cardinality(K) < MaxRetired /\ retired' = K \cup {x}
  BY Zenon DEF Retire, HasRoom, Kept
<1>2. u \in User /\ v \in VaultId /\ x \in Marker /\ x.owner = u /\ x.id = v
  <2>1. vaults[v] \in Vault /\ v \in VaultId
    BY RowOf, Zenon DEF Inv
  <2> QED BY <2>1, Zenon DEF Vault, Marker
<1>3. MaxRetired \in Nat /\ MaxRetiredPerOwner \in Nat /\ MaxRetiredPerOwner - 1 \in Nat
  <2>1. MaxRetired \in Nat /\ MaxRetiredPerOwner \in Nat \ {0}
    BY VaultAssumption, Zenon
  <2> QED BY <2>1
<1>4. Markers(u) \subseteq retired /\ retired \in SUBSET Marker /\ \A m \in Markers(u) : m.owner = u
  BY Zenon DEF Markers, Inv, TypeOK, Marker
<1>5. IsFiniteSet(Markers(u))
  BY <1>4, Fewer, Zenon DEF Inv
<1>6. N \subseteq Markers(u) /\ IsFiniteSet(N) /\ Cardinality(N) \in Nat
        /\ Cardinality(N) <= MaxRetiredPerOwner - 1
  <2>1. Markers(u) \in SUBSET Marker
    BY <1>4, Zenon
  <2> QED BY <1>3, <1>4, <1>5, <2>1, NewestBound, Zenon
<1> HIDE DEF N, x, u
<1>7. K \subseteq retired /\ IsFiniteSet(K)
  BY <1>4, <1>6, Fewer, Zenon DEF Inv
<1>8. IsFiniteSet({x}) /\ Cardinality({x}) = 1
  BY OneCounts, Zenon
<1>9. IsFiniteSet(retired') /\ Cardinality(retired') <= MaxRetired
  <2>1. /\ IsFiniteSet(K \cup {x}) /\ Cardinality(K \cup {x}) \in Nat /\ Cardinality(K) \in Nat
        /\ Cardinality(K \cup {x}) <= Cardinality(K) + Cardinality({x})
    BY <1>7, <1>8, Together, Zenon
  <2> HIDE DEF K
  <2>2. Cardinality(K \cup {x}) <= MaxRetired
    BY <1>1, <1>3, <1>8, <2>1
  <2> QED BY <1>1, <2>1, <2>2, Zenon
<1>10. ASSUME NEW w \in User PROVE Cardinality(Markers(w)') <= MaxRetiredPerOwner
  <2>1. CASE w = u
    <3>1. Markers(w)' \subseteq N \cup {x}
      BY <1>1, <2>1, Zenon DEF Markers
    <3>2. /\ IsFiniteSet(N \cup {x}) /\ Cardinality(N \cup {x}) \in Nat
          /\ Cardinality(N \cup {x}) <= Cardinality(N) + Cardinality({x})
      BY <1>6, <1>8, Together, Zenon
    <3>3. Cardinality(Markers(w)') \in Nat /\ Cardinality(Markers(w)') <= Cardinality(N \cup {x})
      BY <3>1, <3>2, Fewer, Zenon
    <3> QED BY <1>3, <1>6, <1>8, <3>2, <3>3
  <2>2. CASE w # u
    <3>1. Markers(w)' \subseteq Markers(w) /\ Markers(w) \subseteq retired
      BY <1>1, <1>2, <1>7, <2>2, Zenon DEF Markers
    <3>2. IsFiniteSet(Markers(w)) /\ Cardinality(Markers(w)) <= MaxRetiredPerOwner
      BY <3>1, Fewer, Zenon DEF Inv, RetiredVerifies
    <3>3. /\ Cardinality(Markers(w)') \in Nat /\ Cardinality(Markers(w)) \in Nat
          /\ Cardinality(Markers(w)') <= Cardinality(Markers(w))
      BY <3>1, <3>2, Fewer, Zenon
    <3> QED BY <1>3, <3>2, <3>3
  <2> QED BY <2>1, <2>2, Zenon
<1>11. ASSUME NEW m \in retired' PROVE m.id \notin Existing'
  <2>1. CASE m = x
    BY <1>2, <2>1, Zenon
  <2>2. CASE m \in retired
    BY <2>2, FreshIsNew, Zenon DEF Inv, RetiredVerifies
  <2> QED BY <1>1, <1>7, <2>1, <2>2, Zenon
<1>12. retired' \subseteq Marker
  BY <1>1, <1>2, <1>4, <1>7, Zenon
<1> QED BY <1>9, <1>10, <1>11, <1>12, Zenon DEF RetiredVerifies

LEMMA DeleteInv ==
  ASSUME Counting, Inv, NEW u \in User, NEW v \in VaultId, NEW now \in Times, DeleteVault(u, v, now)
  PROVE  Inv' /\ Existing' = Existing \ {v}
<1>1. /\ v \in Existing /\ Retire(v, now) /\ vaults' = [vaults EXCEPT ![v] = None]
      /\ UNCHANGED <<order, req>>
  BY Zenon DEF DeleteVault, Owned
<1>2. /\ SoundRows' /\ Existing' = Existing \ {v}
      /\ \A w \in VaultId : w # v => vaults'[w] = vaults[w]
  BY <1>1, OneRow, Zenon DEF Inv
<1>3. retired' \subseteq Marker /\ IsFiniteSet(retired)' /\ RetiredVerifies'
  BY <1>1, <1>2, RetireInv, Zenon
<1>4. TypeOK'
  BY <1>1, <1>2, <1>3, SoundIsTyped, Zenon DEF Inv, TypeOK, SoundRows, SoundRow, Marker
<1>5. ReadName'
  BY <1>1, <1>2, SameNames, Zenon DEF Inv
<1> QED BY <1>2, <1>3, <1>4, <1>5, Zenon DEF Inv

LEMMA CommitInv ==
  ASSUME Counting, Inv, NEW r \in Req, NEW w \in VaultId, NEW c \in Credentials, NEW now \in Times,
         CommitMigration(r, w, c, now)
  PROVE  /\ Inv'
         /\ \/ Existing' = Existing /\ retired' = retired
            \/ \E v \in Existing : /\ Retire(v, now) /\ w \notin Existing
                                   /\ Existing' = (Existing \ {v}) \cup {w}
<1> DEFINE q == req[r]
           v == q.vault
           x == Row(q.user, c, 3, q.name, vaults[v].said, r \notin order)
<1>1. order' = order \ {r} /\ req' = [req EXCEPT ![r] = Idle]
  BY Zenon DEF CommitMigration
<1>2. q \in [kind : {"migrate"}, user : User, vault : VaultId, name : Name] /\ q # Idle
  <2>1. q.kind = "migrate" /\ q \in Request /\ Idle.kind = "idle"
    BY Zenon DEF CommitMigration, Inv, TypeOK, Idle
  <2> QED BY <2>1, Zenon DEF Request
<1>3. /\ req' \in [Req -> Request] /\ order' \subseteq Req /\ (\A p, s \in order' : p = s)
      /\ \A p \in order' : req'[p] = req[p] /\ req'[p].kind = "migrate"
  BY <1>1, RequestEnds, Zenon DEF Inv
<1>4. CASE ~Source(q)
  <2>1. UNCHANGED <<vaults, retired>>
    BY <1>4, Zenon DEF CommitMigration
  <2>2. Existing' = Existing
    BY <2>1, Zenon DEF Existing
  <2>3. TypeOK' /\ SoundRows'
    BY <1>3, <2>1, Zenon DEF Inv, TypeOK, SoundRows, SoundRow
  <2>4. ReadName'
    BY <1>1, <1>3, <2>1, <2>2, Zenon DEF Inv, ReadName
  <2>5. IsFiniteSet(retired)' /\ RetiredVerifies'
    BY <2>1, <2>2, SameMarkers, Zenon DEF Inv
  <2> QED BY <2>1, <2>2, <2>3, <2>4, <2>5, Zenon DEF Inv
<1>5. CASE Source(q)
  <2>1. v \in Existing /\ v \in VaultId /\ vaults[v] \in SoundRow /\ vaults[v] \in Vault
    BY <1>5, RowOf, Zenon DEF Source, Owned, Inv
  <2>2. /\ w \in Fresh /\ Retire(v, now)
        /\ vaults' = [vaults EXCEPT ![w] = x, ![v] = None]
    BY <1>5, <2>1, Zenon DEF CommitMigration, Said
  <2>3. w # v /\ w \notin Existing
    BY <2>1, <2>2, FreshIsNew, Zenon
  <2>4. x \in SoundRow
    <3>1. c.managed \in BOOLEAN /\ c.keyhash \in Key \cup {NoKey}
      BY CredentialsType, Zenon
    <3>2. r \in order => q.name \in vaults[v].said
      BY <2>1, Zenon DEF Inv, ReadName
    <3>3. vaults[v].said \in SUBSET Name
      BY <2>1, Zenon DEF Vault
    <3>4. 3 \in 2..3
      BY SMT
    <3>5. x \in Vault
      BY <1>2, <3>1, <3>3, <3>4, Zenon DEF Row, Vault
    <3>6. /\ x.presented = {} /\ x.orphan = (r \notin order) /\ x.version = 3
          /\ x.name = q.name /\ x.said = vaults[v].said
      BY Zenon DEF Row
    <3> HIDE DEF x
    <3> QED BY <3>2, <3>5, <3>6, Zenon DEF SoundRow
  <2> HIDE DEF x
  <2>5. x # None
    BY <2>4, RowIsNoNone, Zenon DEF SoundRow
  <2>6. /\ SoundRows' /\ vaults'[w] = x /\ vaults'[v] = None
        /\ \A y \in VaultId : y # w /\ y # v => vaults'[y] = vaults[y]
    BY <2>1, <2>2, <2>3, <2>4, Zenon DEF Inv, SoundRows
  <2>7. v \notin Existing' /\ \A y \in Existing' : y = w \/ (y \in Existing /\ vaults'[y] = vaults[y])
    BY <2>6, Zenon DEF Existing
  <2>8. retired' \subseteq Marker /\ IsFiniteSet(retired)' /\ RetiredVerifies'
    BY <2>1, <2>2, <2>7, RetireInv, Zenon
  <2>9. TypeOK'
    BY <1>3, <2>6, <2>8, Zenon DEF Inv, TypeOK, SoundRows, SoundRow, Marker
  <2>10. ReadName'
    <3>1. order' \subseteq order
      BY <1>1, Zenon
    <3> QED BY <1>3, <2>2, <2>7, <3>1, SameNames, Zenon DEF Inv
  <2>11. Existing' = (Existing \ {v}) \cup {w}
    BY <2>3, <2>5, <2>6, Zenon DEF Existing
  <2> QED BY <2>1, <2>2, <2>3, <2>6, <2>8, <2>9, <2>10, <2>11, Zenon DEF Inv
<1> QED BY <1>4, <1>5, Zenon

\* A new recovery epoch retires every identity at once: the markers kept and the
\* new ones together respect both limits.
LEMMA RotateMarkers ==
  ASSUME Counting, Inv, NEW new \in [Existing -> Fresh], NEW now \in Times, RotateEpoch(new, now)
  PROVE  /\ retired' \subseteq Marker /\ IsFiniteSet(retired') /\ Cardinality(retired') <= MaxRetired
         /\ \A u \in User : Cardinality(Markers(u)') <= MaxRetiredPerOwner
         /\ \A m \in retired' : m \in retired \/ m.id \in Existing
<1> DEFINE gone(u) == Cardinality(Owned(u))
           left(u) == IF gone(u) = 0 THEN Markers(u)
                      ELSE Newest(Markers(u), MaxRetiredPerOwner - gone(u))
           kept    == UNION {left(u) : u \in User}
           mark(v) == [id |-> v, owner |-> vaults[v].owner, at |-> now]
           added   == {mark(v) : v \in Existing}
<1>1. /\ \A u \in User : gone(u) <= MaxRetiredPerOwner
      /\ Cardinality(kept) + Cardinality(Existing) <= MaxRetired /\ retired' = kept \cup added
  BY Zenon DEF RotateEpoch
<1>2. MaxRetired \in Nat /\ MaxRetiredPerOwner \in Nat
  BY VaultAssumption, Zenon
<1>3. IsFiniteSet(Existing) /\ Existing \subseteq VaultId
  <2>1. Existing \subseteq VaultId
    BY Zenon DEF Existing
  <2> QED BY <2>1, VaultAssumption, Fewer, Zenon
<1>4. ASSUME NEW u \in User
      PROVE  /\ Owned(u) \subseteq Existing /\ IsFiniteSet(Owned(u)) /\ gone(u) \in Nat
             /\ Markers(u) \subseteq retired /\ \A m \in Markers(u) : m \in Marker /\ m.owner = u
             /\ IsFiniteSet(Markers(u)) /\ Cardinality(Markers(u)) <= MaxRetiredPerOwner
  <2>1. Owned(u) \subseteq Existing
    BY Zenon DEF Owned
  <2>2. Markers(u) \subseteq retired /\ \A m \in Markers(u) : m \in Marker /\ m.owner = u
    BY Zenon DEF Markers, Inv, TypeOK, Marker
  <2>3. IsFiniteSet(retired) /\ Cardinality(Markers(u)) <= MaxRetiredPerOwner
    BY Zenon DEF Inv, RetiredVerifies
  <2> QED BY <1>3, <2>1, <2>2, <2>3, Fewer, Zenon
<1>5. ASSUME NEW u \in User
      PROVE  /\ left(u) \subseteq Markers(u) /\ IsFiniteSet(left(u)) /\ Cardinality(left(u)) \in Nat
             /\ Cardinality(left(u)) + gone(u) <= MaxRetiredPerOwner
  <2>1. gone(u) \in Nat /\ gone(u) <= MaxRetiredPerOwner
    BY <1>1, <1>4, Zenon
  <2>2. CASE gone(u) = 0
    <3>1. left(u) = Markers(u)
      BY <2>2, Zenon
    <3>2. Cardinality(Markers(u)) \in Nat
      BY <1>4, Counted, Zenon
    <3>3. Cardinality(Markers(u)) + gone(u) <= MaxRetiredPerOwner
      BY <1>2, <1>4, <2>2, <3>2
    <3> QED BY <1>4, <3>1, <3>2, <3>3, Zenon
  <2>3. CASE gone(u) # 0
    <3> DEFINE n == MaxRetiredPerOwner - gone(u)
    <3>1. n \in Nat
      BY <1>2, <2>1
    <3>2. left(u) = Newest(Markers(u), n) /\ Markers(u) \in SUBSET Marker
      BY <1>4, <2>3, Zenon
    <3> HIDE DEF n
    <3>3. /\ Newest(Markers(u), n) \subseteq Markers(u) /\ IsFiniteSet(Newest(Markers(u), n))
          /\ Cardinality(Newest(Markers(u), n)) \in Nat /\ Cardinality(Newest(Markers(u), n)) <= n
      BY <1>4, <3>1, <3>2, NewestBound, Zenon
    <3>4. Cardinality(Newest(Markers(u), n)) + gone(u) <= MaxRetiredPerOwner
      BY <1>2, <2>1, <3>3 DEF n
    <3> QED BY <3>2, <3>3, <3>4, Zenon
  <2> QED BY <2>2, <2>3, Zenon
<1>6. \A v \in Existing : mark(v) \in Marker /\ mark(v).owner = vaults[v].owner /\ mark(v).id = v
  <2>1. \A v \in Existing : v \in VaultId /\ vaults[v].owner \in User
    BY RowOf, Zenon DEF Inv, Vault
  <2> QED BY <2>1, Zenon DEF Marker
<1>7. kept \subseteq retired /\ IsFiniteSet(kept)
  <2>1. ASSUME NEW m \in kept PROVE m \in retired
    <3>1. PICK u \in User : m \in left(u)
      BY Zenon
    <3> QED BY <1>4, <1>5, <3>1, Zenon
  <2> QED BY <2>1, Fewer, Zenon DEF Inv
<1>8. ASSUME NEW V \in SUBSET Existing
      PROVE  /\ IsFiniteSet({mark(v) : v \in V}) /\ Cardinality({mark(v) : v \in V}) \in Nat
             /\ Cardinality(V) \in Nat /\ Cardinality({mark(v) : v \in V}) <= Cardinality(V)
  <2>1. IsFiniteSet(V)
    BY <1>3, Fewer, Zenon
  <2> DEFINE T == {mark(v) : v \in V}
             f == [v \in V |-> mark(v)]
  <2> HIDE DEF mark
  <2>2. f \in Surjection(V, T)
    BY Zenon DEF Surjection
  <2> HIDE DEF f
  <2>3. IsFiniteSet(T) /\ Cardinality(T) <= Cardinality(V)
    BY <2>1, <2>2, ImageCounts, Zenon
  <2> QED BY <2>1, <2>3, Counted, Zenon
<1>9. IsFiniteSet(retired') /\ Cardinality(retired') <= MaxRetired
  <2>1. /\ IsFiniteSet(added) /\ Cardinality(added) <= Cardinality(Existing)
        /\ Cardinality(added) \in Nat /\ Cardinality(Existing) \in Nat
    BY <1>8, Zenon
  <2> HIDE DEF kept, added
  <2>2. /\ IsFiniteSet(kept \cup added) /\ Cardinality(kept \cup added) \in Nat /\ Cardinality(kept) \in Nat
        /\ Cardinality(kept \cup added) <= Cardinality(kept) + Cardinality(added)
    BY <1>7, <2>1, Together, Zenon
  <2>3. Cardinality(kept \cup added) <= MaxRetired
    BY <1>1, <1>2, <2>1, <2>2
  <2> QED BY <1>1, <2>2, <2>3, Zenon
<1>10. ASSUME NEW u \in User PROVE Cardinality(Markers(u)') <= MaxRetiredPerOwner
  <2> DEFINE mine == {mark(v) : v \in Owned(u)}
  <2>1. Markers(u)' \subseteq left(u) \cup mine
    <3> SUFFICES ASSUME NEW m \in retired', m.owner = u PROVE m \in left(u) \cup mine
      BY Zenon DEF Markers
    <3>1. CASE m \in added
      <4>1. PICK v \in Existing : m = mark(v)
        BY <3>1, Zenon
      <4>2. v \in Owned(u)
        BY <1>6, <4>1, Zenon DEF Owned
      <4> QED BY <4>1, <4>2, Zenon
    <3>2. CASE m \in kept
      <4>1. PICK z \in User : m \in left(z)
        BY <3>2, Zenon
      <4>2. z = u
        BY <1>4, <1>5, <4>1, Zenon
      <4> QED BY <4>1, <4>2, Zenon
    <3> QED BY <1>1, <3>1, <3>2, Zenon
  <2>2. /\ IsFiniteSet(mine) /\ Cardinality(mine) \in Nat /\ Cardinality(mine) <= gone(u)
        /\ gone(u) \in Nat
    BY <1>4, <1>8, Zenon
  <2>3. /\ IsFiniteSet(left(u)) /\ Cardinality(left(u)) \in Nat
        /\ Cardinality(left(u)) + gone(u) <= MaxRetiredPerOwner
    BY <1>5, Zenon
  <2> HIDE DEF left, mine, gone
  <2>4. /\ IsFiniteSet(left(u) \cup mine) /\ Cardinality(left(u) \cup mine) \in Nat
        /\ Cardinality(left(u) \cup mine) <= Cardinality(left(u)) + Cardinality(mine)
    BY <2>2, <2>3, Together, Zenon
  <2>5. Cardinality(Markers(u)') \in Nat /\ Cardinality(Markers(u)') <= Cardinality(left(u) \cup mine)
    BY <2>1, <2>4, Fewer, Zenon
  <2> QED BY <1>2, <2>2, <2>3, <2>4, <2>5
<1>11. ASSUME NEW m \in retired' PROVE m \in Marker /\ (m \in retired \/ m.id \in Existing)
  <2>1. CASE m \in kept
    BY <1>7, <2>1, Zenon DEF Inv, TypeOK, Marker
  <2>2. CASE m \in added
    BY <1>6, <2>2, Zenon
  <2> QED BY <1>1, <2>1, <2>2, Zenon
<1> QED BY <1>9, <1>10, <1>11, Zenon

LEMMA RotateInv ==
  ASSUME Counting, Inv, NEW new \in [Existing -> Fresh], NEW now \in Times, RotateEpoch(new, now)
  PROVE  Inv'
<1> DEFINE old(w) == {v \in Existing : new[v] = w}
<1>1. /\ (\A r \in Req : req[r] = Idle) /\ UNCHANGED <<order, req>>
      /\ vaults' = [w \in VaultId |->
                      IF old(w) = {} THEN None ELSE vaults[CHOOSE v \in old(w) : TRUE]]
  BY Zenon DEF RotateEpoch
<1>2. order = {}
  BY <1>1, HolderOf, Zenon DEF Inv
<1>3. ASSUME NEW w \in VaultId
      PROVE  vaults'[w] \in {None} \cup SoundRow /\ (vaults'[w] # None => w \in Fresh)
  <2>1. CASE old(w) = {}
    BY <1>1, <2>1, Zenon
  <2>2. CASE old(w) # {}
    <3> DEFINE v == CHOOSE y \in old(w) : TRUE
    <3>1. v \in old(w)
      BY <2>2, Zenon
    <3>2. v \in Existing /\ w \in Fresh
      BY <3>1, Zenon
    <3>3. vaults'[w] = vaults[v]
      BY <1>1, <2>2, Zenon
    <3> HIDE DEF v
    <3> QED BY <3>2, <3>3, RowOf, Zenon DEF Inv
  <2> QED BY <2>1, <2>2, Zenon
<1>4. SoundRows'
  <2> DEFINE row(w) == IF old(w) = {} THEN None ELSE vaults[CHOOSE v \in old(w) : TRUE]
  <2>0. vaults' = [w \in VaultId |-> row(w)]
    BY <1>1, Zenon
  <2> HIDE DEF row
  <2>1. vaults' = [w \in VaultId |-> vaults'[w]]
    BY <2>0, Zenon
  <2> QED BY <1>3, <2>1, Zenon DEF SoundRows, SoundRow
<1>5. \A w \in Existing' : w \in Fresh
  BY <1>3, Zenon DEF Existing
<1>6. /\ retired' \subseteq Marker /\ IsFiniteSet(retired') /\ Cardinality(retired') <= MaxRetired
      /\ \A u \in User : Cardinality(Markers(u)') <= MaxRetiredPerOwner
      /\ \A m \in retired' : m \in retired \/ m.id \in Existing
  BY RotateMarkers, Zenon
<1>7. \A m \in retired' : m.id \notin Existing'
  BY <1>5, <1>6, FreshIsNew, Zenon
<1>8. TypeOK'
  BY <1>1, <1>2, <1>4, <1>6, Zenon DEF Inv, TypeOK, SoundRows, SoundRow, Marker
<1>9. ReadName'
  BY <1>1, <1>2, Zenon DEF ReadName
<1> QED BY <1>4, <1>6, <1>7, <1>8, <1>9, Zenon DEF Inv, RetiredVerifies

LEMMA NextInv ==
  ASSUME Counting
  PROVE  Inv /\ [Next]_vars => Inv'
<1> SUFFICES ASSUME Inv, [Next]_vars PROVE Inv'
  OBVIOUS
<1>1. CASE UNCHANGED vars
  BY <1>1, Zenon DEF vars, Inv, TypeOK, SoundRows, ReadName, RetiredVerifies, Existing, Markers
<1>2. CASE \E u \in User, v \in VaultId, c \in Credentials, encryption \in {2, 3}, n \in Name :
             CreateVault(u, v, c, encryption, n)
  BY <1>2, CreateInv, Zenon
<1>3. CASE \E u \in User, v \in VaultId, now \in Times : DeleteVault(u, v, now)
  BY <1>3, DeleteInv, Zenon
<1>4. CASE \E u \in User, v \in VaultId, n \in Name, answered \in BOOLEAN :
             RenameVault(u, v, n, answered)
  BY <1>4, RenameInv, Zenon
<1>5. CASE \E new \in Injection(Existing, Fresh), now \in Times : RotateEpoch(new, now)
  <2>1. Injection(Existing, Fresh) \subseteq [Existing -> Fresh]
    BY Zenon DEF Injection
  <2> QED BY <1>5, <2>1, RotateInv, Zenon
<1>6. ASSUME NEW r \in Req,
             \/ \E u \in User, v \in VaultId :
                  MigrateVault(r, u, v) \/ \E k \in Key : AccessVault(r, u, v, k)
             \/ BindKey(r) \/ DropRequest(r) \/ FailRequest(r)
             \/ \E w \in VaultId, c \in Credentials, now \in Times : CommitMigration(r, w, c, now)
      PROVE  Inv'
  BY <1>6, MigrateInv, AccessInv, BindInv, DropInv, FailInv, CommitInv, Zenon
<1> QED BY <1>1, <1>2, <1>3, <1>4, <1>5, <1>6, Zenon DEF Next

\* Every step leaves the vaults alone, adds one within the limit, retires one
\* and may replace it by another, or retires them all.
LEMMA StepKinds ==
  ASSUME Counting, Inv, [Next]_vars
  PROVE  \/ Existing' = Existing /\ retired' = retired
         \/ \E v \in VaultId : /\ Existing' = Existing \cup {v} /\ retired' = retired
                               /\ Cardinality(Existing) < MaxVaults
         \/ \E v \in Existing, now \in Times, W \in SUBSET VaultId :
              /\ Retire(v, now) /\ Existing' = (Existing \ {v}) \cup W
              /\ v \notin W /\ \A a, b \in W : a = b
         \/ \E new \in Injection(Existing, Fresh), now \in Times : RotateEpoch(new, now)
<1>1. CASE UNCHANGED vars
  BY <1>1, Zenon DEF vars, Existing
<1>2. ASSUME NEW u \in User, NEW v \in VaultId, NEW c \in Credentials, NEW encryption \in {2, 3},
             NEW n \in Name, CreateVault(u, v, c, encryption, n)
      PROVE  /\ Existing' = Existing \cup {v} /\ retired' = retired
             /\ Cardinality(Existing) < MaxVaults
  BY <1>2, CreateInv, Zenon DEF CreateVault
<1>3. ASSUME NEW u \in User, NEW v \in VaultId, NEW now \in Times, DeleteVault(u, v, now)
      PROVE  v \in Existing /\ Retire(v, now) /\ Existing' = (Existing \ {v}) \cup {}
  BY <1>3, DeleteInv, Zenon DEF DeleteVault, Owned
<1>4. CASE \E u \in User, v \in VaultId, n \in Name, answered \in BOOLEAN :
             RenameVault(u, v, n, answered)
  BY <1>4, RenameInv, Zenon DEF RenameVault
<1>5. ASSUME NEW r \in Req,
             \/ \E u \in User, v \in VaultId :
                  MigrateVault(r, u, v) \/ \E k \in Key : AccessVault(r, u, v, k)
             \/ BindKey(r) \/ DropRequest(r) \/ FailRequest(r)
      PROVE  Existing' = Existing /\ retired' = retired
  <2>1. retired' = retired
    BY <1>5, Zenon DEF MigrateVault, AccessVault, BindKey, DropRequest, FailRequest
  <2> QED BY <1>5, <2>1, MigrateInv, AccessInv, BindInv, DropInv, FailInv, Zenon
<1>6. ASSUME NEW r \in Req, NEW w \in VaultId, NEW c \in Credentials, NEW now \in Times,
             CommitMigration(r, w, c, now)
      PROVE  \/ Existing' = Existing /\ retired' = retired
             \/ \E v \in Existing : /\ Retire(v, now) /\ w \notin Existing
                                    /\ Existing' = (Existing \ {v}) \cup {w}
  BY <1>6, CommitInv, Zenon
<1>7. CASE \E u \in User, v \in VaultId, now \in Times : DeleteVault(u, v, now)
  <2>1. PICK u \in User, v \in VaultId, now \in Times : DeleteVault(u, v, now)
    BY <1>7, Zenon
  <2> DEFINE W == {}
  <2>2. W \in SUBSET VaultId /\ v \notin W /\ \A a, b \in W : a = b
    BY Zenon
  <2>3. v \in Existing /\ Retire(v, now) /\ Existing' = (Existing \ {v}) \cup W
    BY <1>3, <2>1, Zenon
  <2> HIDE DEF W
  <2> QED BY <2>2, <2>3, Zenon
<1>8. CASE \E r \in Req, w \in VaultId, c \in Credentials, now \in Times :
             CommitMigration(r, w, c, now)
  <2>1. PICK r \in Req, w \in VaultId, c \in Credentials, now \in Times :
               CommitMigration(r, w, c, now)
    BY <1>8, Zenon
  <2>2. ASSUME NEW v \in Existing, Retire(v, now), w \notin Existing,
               Existing' = (Existing \ {v}) \cup {w}
        PROVE  \E W \in SUBSET VaultId : /\ Retire(v, now) /\ Existing' = (Existing \ {v}) \cup W
                                         /\ v \notin W /\ \A a, b \in W : a = b
    <3> DEFINE W == {w}
    <3>1. W \in SUBSET VaultId /\ v \notin W /\ (\A a, b \in W : a = b)
      BY <2>2, Zenon
    <3>2. Existing' = (Existing \ {v}) \cup W
      BY <2>2, Zenon
    <3> HIDE DEF W
    <3> QED BY <2>2, <3>1, <3>2, Zenon
  <2> QED BY <1>6, <2>1, <2>2, Zenon
<1> QED BY <1>1, <1>2, <1>4, <1>5, <1>7, <1>8, Zenon DEF Next

\* MAX_VAULTS holds for the whole server: create_vault counts, and what replaces
\* a vault (migrate_vault, rotate_recovery_epoch) takes its place.
VaultsBounded == Cardinality(Existing) <= MaxVaults

\* A vault is added only below the limit; no other step adds more than it removes.
LEMMA OneMoreVault ==
  ASSUME Counting
  PROVE  Inv /\ VaultsBounded /\ [Next]_vars => VaultsBounded'
<1> SUFFICES ASSUME Inv, VaultsBounded, [Next]_vars PROVE Cardinality(Existing') <= MaxVaults
  BY Zenon DEF VaultsBounded
<1>1. /\ IsFiniteSet(Existing) /\ Cardinality(Existing) \in Nat /\ MaxVaults \in Nat
      /\ Cardinality(Existing) <= MaxVaults
  <2>1. Existing \subseteq VaultId
    BY Zenon DEF Existing
  <2> QED BY <2>1, VaultAssumption, Fewer, Counted, Zenon DEF VaultsBounded
<1>2. CASE Existing' = Existing
  BY <1>1, <1>2, Zenon
<1>3. ASSUME NEW v \in VaultId, Existing' = Existing \cup {v}, Cardinality(Existing) < MaxVaults
      PROVE  Cardinality(Existing') <= MaxVaults
  <2>1. /\ Cardinality(Existing \cup {v}) <= Cardinality(Existing) + Cardinality({v})
        /\ Cardinality({v}) = 1 /\ Cardinality(Existing \cup {v}) \in Nat
    BY <1>1, OneCounts, Together, Zenon
  <2> QED BY <1>1, <1>3, <2>1
<1>4. ASSUME NEW v \in Existing, NEW W \in SUBSET VaultId, Existing' = (Existing \ {v}) \cup W,
             v \notin W, \A a, b \in W : a = b
      PROVE  Cardinality(Existing') <= MaxVaults
  <2> DEFINE R == Existing \ {v}
  <2>1. IsFiniteSet(R) /\ Cardinality(R) = Cardinality(Existing) - 1
    BY <1>1, OneLess, Zenon
  <2>2. IsFiniteSet(W) /\ Cardinality(W) \in Nat /\ Cardinality(W) <= 1
    <3>1. CASE W = {}
      <4>1. Cardinality(W) = 0 /\ IsFiniteSet(W)
        BY <3>1, NothingCounts, Zenon
      <4> QED BY <4>1
    <3>2. ASSUME NEW w \in W PROVE IsFiniteSet(W) /\ Cardinality(W) \in Nat /\ Cardinality(W) <= 1
      <4>1. W = {w}
        BY <1>4, Zenon
      <4>2. Cardinality(W) = 1 /\ IsFiniteSet(W)
        BY <4>1, OneCounts, Zenon
      <4> QED BY <4>2
    <3> QED BY <3>1, <3>2, Zenon
  <2> HIDE DEF R
  <2>3. /\ Cardinality(R \cup W) \in Nat
        /\ Cardinality(R \cup W) <= Cardinality(R) + Cardinality(W)
    BY <2>1, <2>2, Together, Zenon
  <2>4. Existing' = R \cup W
    BY <1>4, Zenon DEF R
  <2> QED BY <1>1, <2>1, <2>2, <2>3, <2>4
<1>5. ASSUME NEW new \in Injection(Existing, Fresh), NEW now \in Times, RotateEpoch(new, now)
      PROVE  Cardinality(Existing') <= MaxVaults
  <2> DEFINE T == {new[v] : v \in Existing}
  <2>1. new \in Surjection(Existing, T)
    BY Zenon DEF Injection, Surjection
  <2>2. Existing' \subseteq T
    <3> SUFFICES ASSUME NEW w \in VaultId, vaults'[w] # None PROVE w \in T
      BY Zenon DEF Existing
    <3>1. {v \in Existing : new[v] = w} # {}
      BY <1>5, Zenon DEF RotateEpoch
    <3> QED BY <3>1, Zenon
  <2> HIDE DEF T
  <2>3. IsFiniteSet(T) /\ Cardinality(T) <= Cardinality(Existing)
    BY <1>1, <2>1, ImageCounts, Zenon
  <2>4. /\ Cardinality(Existing') \in Nat /\ Cardinality(T) \in Nat
        /\ Cardinality(Existing') <= Cardinality(T)
    BY <2>2, <2>3, Fewer, Zenon
  <2> QED BY <1>1, <2>3, <2>4
<1> QED BY <1>2, <1>3, <1>4, <1>5, StepKinds, Zenon

-----------------------------------------------------------------------------
(* Theorems.                                                               *)

INSTANCE FiniteSetTheorems

\* The library's theorems about finite sets and well-founded orders.
LEMMA CountingHolds == Counting
<1>1. ASSUME NEW S, S \subseteq Nat, S # {} PROVE \E m \in S : \A x \in S : m <= x
  <2>1. PICK m \in S : \A y \in S : ~(<<y, m>> \in OpToRel(<, Nat))
    BY <1>1, WFMin, NatLessThanWellFounded, Zenon
  <2>2. ASSUME NEW x \in S PROVE m <= x
    <3>1. x \in Nat /\ m \in Nat
      BY <1>1, Zenon
    <3>2. <<x, m>> \in Nat \X Nat /\ <<x, m>>[1] = x /\ <<x, m>>[2] = m
      BY <3>1, Zenon
    <3>3. ~(x < m)
      BY <2>1, <3>2, Zenon DEF OpToRel
    <3> QED BY <3>1, <3>3
  <2> QED BY <2>2, Zenon
<1>2. IsFiniteSet({}) /\ Cardinality({}) = 0
  BY FS_EmptySet, Zenon
<1>3. \A x : IsFiniteSet({x}) /\ Cardinality({x}) = 1
  BY FS_Singleton, Zenon
<1>4. \A m \in Nat : IsFiniteSet(0..m)
  BY FS_Interval, SMT
<1>5. ASSUME NEW S, IsFiniteSet(S) PROVE Cardinality(S) \in Nat
  BY <1>5, FS_CardinalityType, Zenon
<1>6. ASSUME NEW S, IsFiniteSet(S), NEW T, T \subseteq S
      PROVE  IsFiniteSet(T) /\ Cardinality(T) <= Cardinality(S)
  BY <1>6, FS_Subset, Zenon
<1>7. ASSUME NEW S, IsFiniteSet(S), NEW x \in S
      PROVE  IsFiniteSet(S \ {x}) /\ Cardinality(S \ {x}) = Cardinality(S) - 1
  BY <1>7, FS_RemoveElement, Zenon
<1>8. ASSUME NEW S, IsFiniteSet(S), NEW T, IsFiniteSet(T)
      PROVE  IsFiniteSet(S \cup T) /\ Cardinality(S \cup T) <= Cardinality(S) + Cardinality(T)
  <2>1. /\ IsFiniteSet(S \cup T)
        /\ Cardinality(S \cup T) = Cardinality(S) + Cardinality(T) - Cardinality(S \cap T)
    BY <1>8, FS_Union, Zenon
  <2>2. IsFiniteSet(S \cap T) /\ S \cap T \subseteq S
    BY <1>8, FS_Subset, Zenon
  <2>3. /\ Cardinality(S) \in Nat /\ Cardinality(T) \in Nat /\ Cardinality(S \cup T) \in Nat
        /\ Cardinality(S \cap T) \in Nat
    BY <1>8, <2>1, <2>2, FS_CardinalityType, Zenon
  <2> QED BY <2>1, <2>3
<1>9. ASSUME NEW S, IsFiniteSet(S), NEW T, NEW f \in Surjection(S, T)
      PROVE  IsFiniteSet(T) /\ Cardinality(T) <= Cardinality(S)
  BY <1>9, FS_Surjection, Zenon
<1> QED BY <1>1, <1>2, <1>3, <1>4, <1>5, <1>6, <1>7, <1>8, <1>9, Zenon DEF Counting

\* The bytes of finitely many revisions are finitely many.
LEMMA SizeNat ==
  ASSUME SoundTables
  PROVE  size \in Nat
<1> DEFINE live == {u \in Heads(rows) : ~rows[u].deleted /\ ~rows[u].folder}
           bytes == [u \in live |-> {u} \X (1..rows[u].size)]
           all == {{u} \X (1..rows[u].size) : u \in live}
<1>1. live \subseteq Uid
  BY Zenon DEF Heads, Uid
<1>2. IsFiniteSet(live)
  <2>1. seq \in Nat /\ Uid \subseteq 0..seq
    BY DEF SoundTables
  <2> HIDE DEF live
  <2> QED BY <1>1, <2>1, CountingHolds, Numbers, Zenon
<1>3. bytes \in Surjection(live, all)
  BY Zenon DEF Surjection
<1>4. IsFiniteSet(all)
  <2> HIDE DEF live, bytes, all
  <2> QED BY <1>2, <1>3, FS_Surjection, Zenon
<1>5. ASSUME NEW u \in live PROVE IsFiniteSet({u} \X (1..rows[u].size))
  <2>1. rows[u].size \in Nat
    BY <1>1, Zenon DEF SoundTables, SoundRevision, StoredRow
  <2>2. IsFiniteSet(1..rows[u].size)
    BY <2>1, FS_Interval, SMT
  <2> QED BY <2>2, FS_Singleton, FS_Product, Zenon
<1>6. IsFiniteSet(UNION all)
  <2>1. \A t \in all : IsFiniteSet(t)
    BY <1>5, Zenon
  <2> HIDE DEF all
  <2> QED BY <1>4, <2>1, FS_UNION, Zenon
<1>7. Cardinality(UNION all) \in Nat
  BY <1>6, FS_CardinalityType, Zenon
<1> QED BY <1>7, Zenon DEF SoundTables, VaultSize, SumSize

LEMMA RevisionsHold == RevisionSpec => []RevisionInv
<1>1. RevisionInit => RevisionInv
  BY CountingHolds, RevisionsInitial, Zenon
<1>2. RevisionInv /\ [RevisionNext]_revisionVars => RevisionInv'
  BY CountingHolds, RevisionsInductive, Zenon
<1> QED BY <1>1, <1>2, PTL DEF RevisionSpec

\* The columns hold what the schema declares.
THEOREM RevisionTypes == RevisionSpec => []RevisionTypeOK
<1>1. RevisionInv => RevisionTypeOK
  <2> SUFFICES ASSUME SoundTables PROVE RevisionTypeOK
    BY Zenon DEF RevisionInv
  <2>1. seq \in 0..MaxUid /\ version \in 0..MaxUid /\ Uid \subseteq 1..MaxUid /\ DOMAIN content \subseteq 1..MaxUid
    <3>1. /\ seq \in Nat /\ seq <= MaxUid /\ version = seq /\ Uid \subseteq 1..seq /\ DOMAIN content \subseteq Uid
          /\ MaxUid \in Nat
      BY RevisionAssumption, Zenon DEF SoundTables
    <3>2. 1..seq \subseteq 1..MaxUid /\ seq \in 0..MaxUid
      BY <3>1, SMT
    <3> QED BY <3>1, <3>2, Zenon
  <2>2. \A u \in Uid : rows[u].path \in Path /\ rows[u].related \in Path \cup {Null} /\ rows[u].size \in Nat
    BY Zenon DEF SoundTables, SoundRevision, StoredRow
  <2> QED BY <2>1, <2>2, SizeNat, Zenon DEF RevisionTypeOK
<1> QED BY <1>1, RevisionsHold, PTL

\* Whatever is pushed, restored and purged on a database of any revisions that were
\* verified, the next start accepts the tables (verify_logical_invariants).
THEOREM TablesStayVerified == RevisionSpec => []StoreVerifies
<1>1. RevisionInv => StoreVerifies
  BY CountingHolds, TablesVerify, Zenon DEF RevisionInv
<1> QED BY <1>1, RevisionsHold, PTL

\* A pull sends one upload whole and in order, however writes, restores and purges
\* come between its pieces, for any size of revision and of piece (pull, content_chunk).
THEOREM PullsAreExact == RevisionSpec => []PullExact
<1>1. RevisionInv => PullExact
  BY PullsExact, Zenon DEF RevisionInv
<1> QED BY <1>1, RevisionsHold, PTL

\* The deleted listing is, once and in order, what a restore can bring back, and is
\* refused only when that does not fit, for any size of page (deleted, list_deleted_page).
THEOREM ListsAreExact == RevisionSpec => []DeletedExact
<1>1. RevisionInv => DeletedExact
  BY CountingHolds, ListsExact, Zenon DEF RevisionInv
<1> QED BY <1>1, RevisionsHold, PTL

\* A client that pages through a history misses no revision that stays and gets none
\* twice, for any size of answer (history).
THEOREM HistoriesAreComplete == RevisionSpec => []HistoryComplete
<1>1. RevisionInv => HistoryComplete
  BY HistoriesComplete, Zenon DEF RevisionInv
<1> QED BY <1>1, RevisionsHold, PTL

\* The conjuncts of Inv hold of every reachable state.
LEMMA AlwaysInv == Spec => []Inv
<1>1. Init => Inv
  BY CountingHolds, InitInv, Zenon
<1>2. Inv /\ [Next]_vars => Inv'
  BY CountingHolds, NextInv, Zenon
<1> QED BY <1>1, <1>2, PTL DEF Spec

\* Every variable keeps its type; commit_order has at most one holder, a
\* re-encryption.
THEOREM TypeCorrect == Spec => []TypeOK
<1>1. Inv => TypeOK
  BY Zenon DEF Inv
<1> QED BY <1>1, AlwaysInv, PTL

\* Devices that were let into a vault hold the key that it stores, whichever
\* of them bound it and however many raced (bind_managed_keyhash_for_session).
THEOREM KeysAgree == Spec => []KeyAgreement
<1>1. Inv => KeyAgreement
  <2> SUFFICES ASSUME Inv, NEW v \in Existing PROVE vaults[v].presented \subseteq {vaults[v].keyhash}
    BY Zenon DEF KeyAgreement
  <2> QED BY RowOf, Zenon DEF Inv, SoundRow
<1> QED BY <1>1, AlwaysInv, PTL

\* A name that the server confirmed survives a re-encryption, unless the
\* client went away between the two halves of migrate_vault.
THEOREM NamesKept == Spec => []NameKept
<1>1. Inv => NameKept
  <2> SUFFICES ASSUME Inv, NEW v \in Existing PROVE vaults[v].orphan \/ vaults[v].name \in vaults[v].said
    BY Zenon DEF NameKept
  <2> QED BY RowOf, Zenon DEF Inv, SoundRow
<1> QED BY <1>1, AlwaysInv, PTL

\* What verify_logical_invariants asks of retired_vaults holds after every
\* deletion, re-encryption and rotation, for any limits and any clock.
THEOREM MarkersVerify == Spec => []RetiredVerifies
<1>1. Inv => RetiredVerifies
  BY Zenon DEF Inv
<1> QED BY <1>1, AlwaysInv, PTL

\* The server never has more vaults than MAX_VAULTS, although migrate_vault and
\* rotate_recovery_epoch add vaults without counting them.
THEOREM NeverTooMany == Spec => []VaultsBounded
<1>1. Init => VaultsBounded
  <2>1. ASSUME Init PROVE Existing = {}
    BY <2>1, Zenon DEF Init, Existing
  <2>2. Cardinality({}) = 0
    BY FS_EmptySet, Zenon
  <2>3. MaxVaults \in Nat
    BY VaultAssumption, Zenon
  <2> QED BY <2>1, <2>2, <2>3 DEF VaultsBounded
<1>2. Inv /\ VaultsBounded /\ [Next]_vars => VaultsBounded'
  BY CountingHolds, OneMoreVault, Zenon
<1> QED BY <1>1, <1>2, AlwaysInv, PTL DEF Spec

\* delete_vault, migrate_vault and rotate_recovery_epoch remember the identity
\* of every vault that goes, and only its owner's markers make room for it.
THEOREM GoneRemembered == Spec => GoneIsRemembered
<1> DEFINE Fair == \A v \in Existing \ Existing' :
             /\ \E m \in retired' : m.id = v
             /\ \A m \in retired \ retired' :
                  \E w \in Existing \ Existing' : m.owner = vaults[w].owner
<1>1. Inv /\ [Next]_vars => [Fair]_vars
  <2> SUFFICES ASSUME Inv, [Next]_vars PROVE Fair
    BY Zenon
  <2>1. CASE \E v \in VaultId : Existing' = Existing \cup {v}
    BY <2>1, Zenon
  <2>2. ASSUME NEW v \in Existing, NEW now \in Times, NEW W \in SUBSET VaultId, Retire(v, now),
               Existing' = (Existing \ {v}) \cup W, v \notin W
        PROVE  Fair
    <3> DEFINE u == vaults[v].owner
               x == [id |-> v, owner |-> u, at |-> now]
    <3>1. retired' = Kept(u) \cup {x} /\ x.id = v
      BY <2>2, Zenon DEF Retire
    <3>2. Existing \ Existing' = {v}
      BY <2>2, Zenon
    <3>3. \A m \in retired \ retired' : m.owner = u
      BY <3>1, Zenon DEF Kept, Markers
    <3> HIDE DEF x
    <3> QED BY <3>1, <3>2, <3>3, Zenon
  <2>3. ASSUME NEW new \in Injection(Existing, Fresh), NEW now \in Times, RotateEpoch(new, now)
        PROVE  Fair
    <3> DEFINE gone(u) == Cardinality(Owned(u))
               left(u) == IF gone(u) = 0 THEN Markers(u)
                          ELSE Newest(Markers(u), MaxRetiredPerOwner - gone(u))
               kept    == UNION {left(u) : u \in User}
               mark(v) == [id |-> v, owner |-> vaults[v].owner, at |-> now]
               added   == {mark(v) : v \in Existing}
    <3>1. retired' = kept \cup added
      BY <2>3, Zenon DEF RotateEpoch
    <3>2. \A v \in Existing : v \notin Existing'
      <4>1. new \in [Existing -> Fresh]
        BY Zenon DEF Injection
      <4> SUFFICES ASSUME NEW v \in Existing, v \in VaultId, vaults'[v] # None PROVE FALSE
        BY Zenon DEF Existing
      <4>2. {w \in Existing : new[w] = v} # {}
        BY <2>3, Zenon DEF RotateEpoch
      <4>3. v \in Fresh
        BY <4>1, <4>2, Zenon
      <4> QED BY <4>3, FreshIsNew, Zenon
    <3>3. ASSUME NEW m \in retired \ retired'
          PROVE  \E w \in Existing \ Existing' : m.owner = vaults[w].owner
      <4>1. m.owner \in User /\ m \in Markers(m.owner)
        BY Zenon DEF Inv, TypeOK, Markers
      <4>2. m \notin left(m.owner)
        BY <3>1, <4>1, Zenon
      <4>3. Cardinality(Owned(m.owner)) # 0
        BY <4>1, <4>2, Zenon
      <4>4. Owned(m.owner) # {}
        BY <4>3, FS_EmptySet, Zenon
      <4> QED BY <3>2, <4>4, Zenon DEF Owned
    <3>4. \A v \in Existing : mark(v) \in retired' /\ mark(v).id = v
      <4> HIDE DEF kept
      <4> QED BY <3>1, Zenon
    <3> HIDE DEF mark
    <3> QED BY <3>3, <3>4, Zenon
  <2> QED BY <2>1, <2>2, <2>3, CountingHolds, StepKinds, Zenon
<1> QED BY <1>1, AlwaysInv, PTL DEF Spec, GoneIsRemembered

\* An owner whose markers are at the limit can always delete or re-encrypt a
\* vault, even when retired_vaults is full: the oldest marker makes room.
FullOwnerMayDelete ==
  \A u \in User : Cardinality(Markers(u)) = MaxRetiredPerOwner => HasRoom(u)

\* retire_vault_identity never refuses an owner whose own limit is reached.
THEOREM FullOwnersDelete == Spec => []FullOwnerMayDelete
<1>1. Inv => FullOwnerMayDelete
  <2> SUFFICES ASSUME Inv, NEW u \in User, Cardinality(Markers(u)) = MaxRetiredPerOwner
               PROVE  HasRoom(u)
    BY Zenon DEF FullOwnerMayDelete
  <2> DEFINE N == Newest(Markers(u), MaxRetiredPerOwner - 1)
             K == (retired \ Markers(u)) \cup N
  <2>1. MaxRetired \in Nat /\ MaxRetiredPerOwner \in Nat \ {0}
    BY VaultAssumption, Zenon
  <2>2. MaxRetiredPerOwner - 1 \in Nat
    BY <2>1
  <2>3. /\ Markers(u) \subseteq retired /\ Markers(u) \in SUBSET Marker
        /\ (\A m \in Markers(u) : m.owner = u) /\ IsFiniteSet(retired)
        /\ Cardinality(retired) <= MaxRetired
    BY Zenon DEF Markers, Inv, TypeOK, Marker, RetiredVerifies
  <2>4. IsFiniteSet(Markers(u))
    BY <2>3, FS_Subset, Zenon
  <2>5. /\ N \subseteq Markers(u) /\ Cardinality(N) \in Nat
        /\ Cardinality(N) <= MaxRetiredPerOwner - 1
    BY <2>2, <2>3, <2>4, CountingHolds, NewestBound, Zenon
  <2> HIDE DEF N
  <2>6. Cardinality(N) # Cardinality(Markers(u))
    BY <2>1, <2>5
  <2>7. PICK m \in Markers(u) : m \notin N
    <3>1. N # Markers(u)
      BY <2>6, Zenon
    <3> QED BY <2>5, <3>1, Zenon
  <2>8. K \subseteq retired \ {m} /\ m \in retired
    BY <2>3, <2>5, <2>7, Zenon
  <2>9. /\ IsFiniteSet(retired \ {m}) /\ Cardinality(retired \ {m}) = Cardinality(retired) - 1
        /\ Cardinality(retired) \in Nat
    BY <2>3, <2>8, FS_RemoveElement, FS_CardinalityType, Zenon
  <2>10. Cardinality(K) \in Nat /\ Cardinality(K) <= Cardinality(retired \ {m})
    BY <2>8, <2>9, CountingHolds, Fewer, Zenon
  <2>11. Cardinality(K) < MaxRetired
    <3> HIDE DEF K
    <3> QED BY <2>1, <2>3, <2>9, <2>10
  <2> QED BY <2>11, Zenon DEF HasRoom, Kept, N
<1> QED BY <1>1, AlwaysInv, PTL
=============================================================================
