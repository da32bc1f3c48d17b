---------------------------- MODULE RevisionStore -----------------------------
(***************************************************************************)
(* The revision tables of one vault (db.rs) and the reads that take more   *)
(* than one transaction: a pull piece by piece, the deleted listing page   *)
(* by page within commit_order, and a history that its client pages        *)
(* through while others write, restore and purge.                          *)
(***************************************************************************)
EXTENDS Integers, Sequences, FiniteSets, FiniteSetsExt, Functions

CONSTANTS
  Path,
  Kinds,       \* what a push says besides its path: [related, folder, deleted, size]
  PieceSize,   \* REVISION_PIECE_SIZE
  PageSize,    \* DELETED_PAGE_SIZE
  MaxItems,    \* notices that fit MAX_LARGE_RESPONSE_BYTES
  HistoryPage, \* revisions in one history answer
  MaxUid,      \* MAX_JS_SAFE_INTEGER
  Start,       \* the revisions the server finds when it starts
  Null

ContentBlob == [data : Nat \ {0}, len : Nat \ {0}]   \* part of what was uploaded as a revision

\* Revisions of an early schema, as their migration verified them.
ASSUME RevisionAssumption ==
  /\ {PieceSize, PageSize, HistoryPage} \subseteq Nat \ {0} /\ {MaxItems, MaxUid} \subseteq Nat
  /\ Kinds \subseteq [related : Path \cup {Null}, folder : BOOLEAN, deleted : BOOLEAN, size : Nat]
  /\ Null \notin Nat \cup ContentBlob \cup [data : Nat \ {0}, from : Nat, len : Nat]
  /\ DOMAIN Start \subseteq 1..MaxUid
  /\ \A u \in DOMAIN Start :
       /\ Start[u] \in [path : Path, related : Path \cup {Null}, folder : BOOLEAN, deleted : BOOLEAN,
                       size : Nat, inline : ContentBlob \cup {Null}]
       /\ Start[u].folder \/ Start[u].deleted => Start[u].size = 0
       /\ IF Start[u].size = 0 THEN Start[u].inline = Null
          ELSE Start[u].inline # Null /\ Start[u].inline.len = Start[u].size

VARIABLES
  rows,      \* revisions: uid -> path, relatedpath, folder, deleted, size, inline content
  content,   \* revision_content: uid -> content
  seq,       \* sqlite_sequence of revisions
  version,   \* vaults.version
  size,      \* vaults.size
  pull,      \* a pull: uid, announced size, what was sent
  list,      \* a deleted listing: suppressrenames, cursor, pages
  hist       \* a history as its client pages through it: path, last, pages

revisionVars == <<rows, content, seq, version, size, pull, list, hist>>

Uid == DOMAIN rows
NoRead == [phase |-> "idle"]

\* Bound: reads change no table and none waits for another, so clients make one at a time.
NoReader == pull = NoRead /\ list = NoRead /\ hist = NoRead

Blob(u, n) == [data |-> u, len |-> n]

\* SELECT path,MAX(uid) ... GROUP BY path
Heads(t) == {u \in DOMAIN t : \A w \in DOMAIN t : t[w].path = t[u].path => w <= u}

\* SUM(size), as the number of the bytes of the revisions in s
SumSize(t, s) == Cardinality(UNION {{u} \X (1..t[u].size) : u \in s})

\* vault_size
VaultSize(t) == SumSize(t, {u \in Heads(t) : ~t[u].deleted /\ ~t[u].folder})

\* Revisions of an early schema hold their content inline; they were never moved.
RevisionInit ==
  /\ rows = Start /\ content = << >> /\ seq = Max({0} \cup Uid) /\ version = seq
  /\ size = VaultSize(rows)
  /\ pull = NoRead /\ list = NoRead /\ hist = NoRead

-----------------------------------------------------------------------------
(* Mutations: one transaction each, within commit_order.                   *)

Ordered == list = NoRead

\* The row r with content b is stored under the next AUTOINCREMENT number, up to the
\* limit, and refresh_vault is part of the transaction.
Insert(r, b) ==
  LET u == seq + 1 IN
  /\ Ordered /\ u <= MaxUid
  /\ rows' = [w \in Uid \cup {u} |-> IF w = u THEN r ELSE rows[w]]
  /\ content' = IF r.size = 0 THEN content
                ELSE [w \in DOMAIN content \cup {u} |-> IF w = u THEN b ELSE content[w]]
  /\ seq' = u /\ version' = u /\ size' = VaultSize(rows')
  /\ UNCHANGED <<pull, list, hist>>

RevisionRow(p, k) == [path |-> p, related |-> k.related, folder |-> k.folder, deleted |-> k.deleted,
                      size |-> k.size, inline |-> Null]

\* add_empty_revision_internal, which refuses a size, through add_revision
AddEmpty(p, k) ==
  /\ k.folder \/ k.deleted \/ k.size = 0
  /\ k.size = 0
  /\ Insert(RevisionRow(p, k), Null)

\* add_file_revision_internal
AddFile(p, k) ==
  /\ ~k.folder /\ ~k.deleted /\ k.size > 0
  /\ Insert(RevisionRow(p, k), Blob(seq + 1, k.size))

\* The revision a restore of u copies: u, or the last before it that was not a deletion.
RestoreSource(u) ==
  LET earlier == {w \in Uid : rows[w].path = rows[u].path /\ w < u /\ ~rows[w].deleted}
  IN  IF ~rows[u].deleted THEN u ELSE IF earlier = {} THEN Null ELSE Max(earlier)

ContentOf(u) == IF u \in DOMAIN content THEN content[u] ELSE rows[u].inline

\* Faulty: the inline content is copied along with the row.
Restore_Inline(u) ==
  /\ RestoreSource(u) # Null
  /\ LET s == RestoreSource(u)
     IN  Insert([rows[s] EXCEPT !.path = rows[u].path, !.related = Null], ContentOf(s))

\* restore_internal
Restore(u) ==
  /\ RestoreSource(u) # Null
  /\ LET s == RestoreSource(u)
     IN  Insert([rows[s] EXCEPT !.path = rows[u].path, !.related = Null, !.inline = Null], ContentOf(s))

\* Only the revisions in kept stay; content goes with its revision by cascade.
\* refresh_vault keeps the version.
Keep(kept) ==
  /\ rows' = Restrict(rows, kept) /\ content' = Restrict(content, kept \cap DOMAIN content)
  /\ size' = VaultSize(rows') /\ UNCHANGED <<seq, version, pull, list, hist>>

\* purge_internal
Purge == Ordered /\ Keep(Heads(rows))

\* purge_deleted_history, an offline command: no server runs, so no request is being served.
PurgeDeleted ==
  LET deleted == {u \in Heads(rows) : rows[u].deleted} IN
  /\ pull = NoRead /\ list = NoRead
  /\ Keep({u \in Uid : ~ \E d \in deleted : rows[d].path = rows[u].path /\ d # u})

-----------------------------------------------------------------------------
(* pull: pull_info, then content_chunk for each piece, without commit_order. *)

\* pull_info; a deletion, a folder or an empty file is answered with size 0.
BeginPull(u) ==
  /\ NoReader
  /\ pull' = IF rows[u].deleted \/ rows[u].folder \/ (rows[u].inline = Null /\ u \notin DOMAIN content)
             THEN [phase |-> "done", uid |-> u, size |-> 0, sent |-> <<>>]
             ELSE [phase |-> "sending", uid |-> u, size |-> rows[u].size, sent |-> <<>>]
  /\ UNCHANGED <<rows, content, seq, version, size, list, hist>>

Offset == PieceSize * Len(pull.sent)

\* Faulty: a chunk that ends where the content does is out of bounds.
ContentChunk_Bound(u, offset, n) ==
  IF /\ u \in Uid /\ offset + n < rows[u].size
     /\ (u \in DOMAIN content) # (rows[u].inline # Null)
     /\ ContentOf(u).len = rows[u].size
  THEN [data |-> ContentOf(u).data, from |-> offset, len |-> n] ELSE Null

\* content_chunk: Null stands for its errors.
ContentChunk(u, offset, n) ==
  IF /\ u \in Uid /\ offset + n <= rows[u].size
     /\ (u \in DOMAIN content) # (rows[u].inline # Null)
     /\ ContentOf(u).len = rows[u].size
  THEN [data |-> ContentOf(u).data, from |-> offset, len |-> n] ELSE Null

\* One turn of the loop; an error ends the connection.
PullPiece ==
  /\ pull.phase = "sending"
  /\ LET chunk == ContentChunk(pull.uid, Offset, Min({pull.size - Offset, PieceSize}))
     IN  pull' = IF chunk = Null THEN [pull EXCEPT !.phase = "failed"]
                 ELSE [pull EXCEPT !.sent = Append(@, chunk),
                                   !.phase = IF Offset + chunk.len < pull.size THEN @ ELSE "done"]
  /\ UNCHANGED <<rows, content, seq, version, size, list, hist>>

\* The answer is complete, or a revocation, a shutdown or an error cuts it short.
EndPull ==
  /\ pull # NoRead /\ pull' = NoRead
  /\ UNCHANGED <<rows, content, seq, version, size, list, hist>>

-----------------------------------------------------------------------------
(* deleted: the pages of one answer are read within commit_order.          *)

\* Faulty: a deletion that nothing came before is listed.
Deleted_Any(suppress, after) ==
  {u \in Heads(rows) :
     /\ rows[u].deleted /\ u > after
     /\ ~suppress \/ ~ \E w \in Heads(rows) : ~rows[w].deleted /\ rows[w].related = rows[u].path}

\* list_deleted_page before its LIMIT
Deleted(suppress, after) ==
  {u \in Heads(rows) :
     /\ rows[u].deleted /\ u > after
     /\ \E w \in Uid : rows[w].path = rows[u].path /\ w < u /\ ~rows[w].deleted
     /\ ~suppress \/ ~ \E w \in Heads(rows) : ~rows[w].deleted /\ rows[w].related = rows[u].path}

\* ORDER BY uid ASC LIMIT n, and ORDER BY uid DESC LIMIT n
FirstOf(s, n) == {u \in s : Cardinality({w \in s : w < u}) < n}
LastOf(s, n)  == {u \in s : Cardinality({w \in s : w > u}) < n}

\* What the pages hold together.
Items(pages) == UNION Range(pages)

BeginList(suppress) ==
  /\ NoReader
  /\ list' = [phase |-> "reading", suppress |-> suppress, after |-> 0, pages |-> <<>>]
  /\ UNCHANGED <<rows, content, seq, version, size, pull, hist>>

\* One page.  A short one is the last; an answer that grows too long is refused.
ListPage ==
  /\ list.phase = "reading"
  /\ LET page == FirstOf(Deleted(list.suppress, list.after), PageSize)
     IN  list' = IF Cardinality(Items(list.pages) \cup page) > MaxItems
                 THEN [list EXCEPT !.phase = "refused"]
                 ELSE [list EXCEPT !.pages = Append(@, page),
                                   !.after = Max({@} \cup page),
                                   !.phase = IF Cardinality(page) < PageSize THEN "done" ELSE @]
  /\ UNCHANGED <<rows, content, seq, version, size, pull, hist>>

\* commit_order is dropped as soon as the answer is complete, refused or cut short.
EndList ==
  /\ list # NoRead /\ list' = NoRead
  /\ UNCHANGED <<rows, content, seq, version, size, pull, hist>>

-----------------------------------------------------------------------------
(* history: one transaction per answer, newest first.                      *)

BeginHistory(p) ==
  /\ NoReader
  /\ hist' = [phase |-> "paging", path |-> p, last |-> Null, pages |-> <<>>, from |-> seq]
  /\ UNCHANGED <<rows, content, seq, version, size, pull, list>>

\* Faulty: the revision asked from is sent again, in place of one that is left.
Older_Inclusive(p, last) ==
  {u \in Uid : rows[u].path = p /\ (IF last = Null THEN TRUE ELSE u <= last)}

\* The revisions of p before last.
Older(p, last) ==
  {u \in Uid : rows[u].path = p /\ (IF last = Null THEN TRUE ELSE u < last)}

\* history: one more than a page is read to know whether more follow; the client asks
\* again from the last it got.
HistoryAnswer ==
  /\ hist.phase = "paging"
  /\ LET all  == LastOf(Older(hist.path, hist.last), HistoryPage + 1)
         page == LastOf(all, HistoryPage)
     IN  hist' = IF Cardinality(all) > HistoryPage
                 THEN [hist EXCEPT !.pages = Append(@, page), !.last = Min(page)]
                 ELSE [hist EXCEPT !.pages = Append(@, page), !.phase = "done"]
  /\ UNCHANGED <<rows, content, seq, version, size, pull, list>>

\* The client has all, or stops asking.
EndHistory ==
  /\ hist # NoRead /\ hist' = NoRead
  /\ UNCHANGED <<rows, content, seq, version, size, pull, list>>

-----------------------------------------------------------------------------
RevisionNext ==
  \/ \E p \in Path, k \in Kinds : AddEmpty(p, k) \/ AddFile(p, k)
  \/ \E u \in Uid : Restore(u) \/ BeginPull(u)
  \/ Purge \/ PurgeDeleted \/ PullPiece \/ EndPull
  \/ (\E suppress \in BOOLEAN : BeginList(suppress)) \/ ListPage \/ EndList
  \/ (\E p \in Path : BeginHistory(p)) \/ HistoryAnswer \/ EndHistory

RevisionSpec == RevisionInit /\ [][RevisionNext]_revisionVars

-----------------------------------------------------------------------------
\* The columns hold what the schema declares.
RevisionTypeOK ==
  /\ Uid \subseteq 1..MaxUid /\ DOMAIN content \subseteq 1..MaxUid
  /\ \A u \in Uid : rows[u].path \in Path /\ rows[u].related \in Path \cup {Null} /\ rows[u].size \in Nat
  /\ seq \in 0..MaxUid /\ version \in 0..MaxUid /\ size \in Nat

\* verify_logical_invariants: whatever is pushed, restored and purged, the next start
\* accepts the tables.  Content is in exactly one place and as long as declared, the
\* version is a high-water mark within the sequence, the size is that of the live heads.
StoreVerifies ==
  /\ \A u \in Uid :
       /\ rows[u].folder \/ rows[u].deleted => rows[u].size = 0
       /\ IF rows[u].size = 0 THEN rows[u].inline = Null /\ u \notin DOMAIN content
          ELSE /\ (rows[u].inline # Null) # (u \in DOMAIN content)
               /\ ContentOf(u).len = rows[u].size
       /\ u <= version
  /\ DOMAIN content \subseteq Uid /\ version <= seq
  /\ size = SumSize(rows, {Max({u \in Uid : rows[u].path = p}) : p \in {rows[u].path : u \in Uid}})

\* pull: although others write, restore and purge between its pieces, a pull that ends
\* well sent one upload, whole and in order, and one that fails asked for a revision
\* that is gone.
PullExact ==
  /\ pull.phase = "done" =>
       LET sent == pull.sent
           end  == Len(sent)
       IN  /\ \A i \in 1..end : /\ sent[i].data = sent[1].data
                                /\ sent[i].from = IF i = 1 THEN 0 ELSE sent[i - 1].from + sent[i - 1].len
           /\ pull.size = IF end = 0 THEN 0 ELSE sent[end].from + sent[end].len
  /\ pull.phase = "failed" => pull.uid \notin Uid

\* Nothing is in two pages, and each holds what follows the one before.
Ascending(pages) ==
  \A i, j \in 1..Len(pages) : i < j => \A u \in pages[i], w \in pages[j] : u < w
Descending(pages) ==
  \A i, j \in 1..Len(pages) : i < j => \A u \in pages[i], w \in pages[j] : u > w

\* deleted: the answer has, once and in order, every deleted path that a restore can
\* bring back and (when asked) that was not renamed to a path that is live; it is
\* refused only when they do not fit.
DeletedExact ==
  list.phase \in {"done", "refused"} =>
    LET live     == {u \in Heads(rows) : ~rows[u].deleted}
        expected == {u \in Heads(rows) \ live :
                       /\ RestoreSource(u) # Null
                       /\ list.suppress => rows[u].path \notin {rows[w].related : w \in live}}
    IN  IF list.phase = "refused" THEN Cardinality(expected) > MaxItems
        ELSE Ascending(list.pages) /\ Items(list.pages) = expected

\* history: a client that pages to the end has seen, newest first and once, every
\* revision of the path that was stored when it began and still is.
HistoryComplete ==
  hist.phase = "done" =>
    /\ Descending(hist.pages)
    /\ \A u \in Uid : rows[u].path = hist.path /\ u <= hist.from => u \in Items(hist.pages)
=============================================================================
