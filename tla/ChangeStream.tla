----------------------------- MODULE ChangeStream -----------------------------
(***************************************************************************)
(* One vault's change stream: the revisions table, the commit_order mutex, *)
(* the vault's broadcast topic and the data-plane connections that replay, *)
(* follow and extend it (apps/server-rust/src/server.rs, src/db.rs).       *)
(*                                                                         *)
(* A handler is split at its awaits.  commit_order is held across          *)
(* {read version; subscribe} in init and across {commit; publish} in the   *)
(* mutations; both pairs are two steps here, so that the lock is what      *)
(* keeps them together.  A database transaction is one step: SQLite runs   *)
(* on one connection behind a mutex, in an IMMEDIATE transaction.          *)
(***************************************************************************)
EXTENDS Naturals, Sequences, FiniteSets

CONSTANTS
  Conn,      \* devices; each has at most one connection at a time
  Path,      \* encrypted paths of the vault
  Capacity,  \* EVENT_CAPACITY of the vault's broadcast channel
  PageSize,  \* REPLAY_PAGE_SIZE
  MaxUid,    \* bound of the model: revision uids allocated
  Ops,       \* bound of the model: the operations, and faults, that happen
  None       \* no lock holder, no expected_version, no pending upload

ASSUME ConstantsAssumption ==
  /\ None \notin Conn
  /\ Capacity \in Nat \ {0}
  /\ PageSize \in Nat \ {0}
  /\ MaxUid \in Nat
  /\ Ops \subseteq {"metadata", "upload", "conditional", "restore", "purge",
                    "elsewhere", "unread"}

VARIABLES
  seq,          \* sqlite_sequence of revisions: the last uid of any vault
  log,          \* every revision ever committed to the vault, by uid
  rows,         \* uids still stored in the revisions table
  version,      \* vaults.version
  commitOrder,  \* holder of AppState.commit_order, or None
  stream,       \* uids published on the vault's topic
  pc,           \* where the connection's task stands
  initial,      \* init's "initial" flag
  readyVersion, \* init's replay/live boundary
  page,         \* uids of the current replay page still to send
  full,         \* that page had REPLAY_PAGE_SIZE revisions
  pos,          \* events this connection's receiver has taken from stream
  pending,      \* Session.pending: the push of an upload in progress
  req,          \* the mutation the connection is carrying out
  committed,    \* uid of the mutation being published or acknowledged
  seen,         \* device: the version it resumes from
  got           \* device: uids of the notices it has applied

db     == <<seq, log, rows, version>>
replay == <<initial, readyVersion, page, full>>
device == <<seen, got>>
vars   == <<db, commitOrder, stream, pc, replay, pos, pending, req, committed, device>>

-----------------------------------------------------------------------------
Revision == [path : Path, deleted : BOOLEAN]

\* What a device asks of the mutation path.  target is the uid a restore names.
PushRequest    == [kind : {"push"}, path : Path, deleted : BOOLEAN, expected : Nat \cup {None}]
RestoreRequest == [kind : {"restore"}, target : Nat]
PurgeRequest   == [kind : {"purge"}]
Request        == PushRequest \cup RestoreRequest \cup PurgeRequest

\* Phases of a connection's task, in the order init and a mutation go through
\* them.  A phase that waits for commit_order is one of Waiting.
Waiting    == {"boundary", "wait"}
Holding    == {"subscribe", "publish"}
Sending    == {"page", "send", "ready", "live", "ack"}
Phase      == {"closed"} \cup Waiting \cup Holding \cup Sending
Replaying  == {"page", "send", "ready"}
Following  == {"live", "wait", "publish", "ack"}
Subscribed == Replaying \cup Following

-----------------------------------------------------------------------------
(* Queries of db.rs.                                                       *)

\* SELECT MAX(uid) ... GROUP BY path, restricted to uid <= through.
HeadThrough(u, through) ==
  /\ u \in rows
  /\ u <= through
  /\ \A w \in rows : w <= through /\ log[w].path = log[u].path => w <= u

IsHead(u) == u \in rows /\ \A w \in rows : log[w].path = log[u].path => w <= u

\* Faulty: uid < through.
initial_snapshot_Exclusive(after, through) ==
  {u \in rows : u > after /\ HeadThrough(u, through) /\ u < through /\ ~log[u].deleted}

initial_snapshot(after, through) ==
  {u \in rows : u > after /\ HeadThrough(u, through) /\ ~log[u].deleted}

\* Faulty: uid >= after, and tombstones left out.
list_changes_Inclusive(after, through) == {u \in rows : u >= after /\ u <= through}
list_changes_LiveRows(after, through) ==
  {u \in rows : u > after /\ u <= through /\ ~log[u].deleted}

list_changes(after, through) == {u \in rows : u > after /\ u <= through}

\* ORDER BY uid ASC LIMIT REPLAY_PAGE_SIZE.
FirstPage(S) == {u \in S : Cardinality({w \in S : w <= u}) <= PageSize}

\* The revision a restore of u copies: u itself, or for a tombstone the
\* latest stored revision of its path before it that is not one.
Restorable(u) ==
  /\ u \in rows
  /\ log[u].deleted =>
       \E w \in rows : log[w].path = log[u].path /\ w < u /\ ~log[w].deleted

\* Faulty: an expected_version that is merely not in the future.
ExpectedHolds_AtMost(r) == IF r.expected = None THEN TRUE ELSE r.expected <= version

\* check_expected_version
ExpectedHolds(r) == r.expected = None \/ r.expected = version

\* RecvError::Lagged: the ring kept only the last Capacity events.
Lagged(c) == Len(stream) > pos[c] + Capacity

\* What one notice does to the device that receives it.
Receive(c, u) ==
  /\ seen' = [seen EXCEPT ![c] = u]
  /\ got'  = [got EXCEPT ![c] = @ \cup {u}]

-----------------------------------------------------------------------------
Init ==
  /\ seq = 0 /\ log = [u \in {} |-> 0] /\ rows = {} /\ version = 0
  /\ commitOrder = None
  /\ stream = <<>>
  /\ pc           = [c \in Conn |-> "closed"]
  /\ initial      = [c \in Conn |-> FALSE]
  /\ readyVersion = [c \in Conn |-> 0]
  /\ page         = [c \in Conn |-> {}]
  /\ full         = [c \in Conn |-> FALSE]
  /\ pos          = [c \in Conn |-> 0]
  /\ pending      = [c \in Conn |-> None]
  /\ req          = [c \in Conn |-> None]
  /\ committed    = [c \in Conn |-> 0]
  /\ seen         = [c \in Conn |-> 0]
  /\ got          = [c \in Conn |-> {}]

(* init: an authenticated connection asks for everything after v.  A fresh *)
(* device has nothing; any other resumes from a version it has persisted,  *)
(* which may be older than the last notice the server sent it.             *)
Open(c, fresh, v) ==
  /\ pc[c] = "closed"
  /\ v <= seen[c]
  /\ fresh => v = 0
  /\ pc'      = [pc EXCEPT ![c] = "boundary"]
  /\ initial' = [initial EXCEPT ![c] = fresh]
  /\ seen'    = [seen EXCEPT ![c] = v]
  /\ got'     = [got EXCEPT ![c] = IF fresh THEN {} ELSE {u \in @ : u <= v}]
  /\ UNCHANGED <<db, commitOrder, stream, readyVersion, page, full, pos, pending, req, committed>>

\* Faulty: the guard is dropped before the subscription.
ReadBoundary_NarrowLock(c) ==
  /\ pc[c] = "boundary"
  /\ commitOrder = None
  /\ readyVersion' = [readyVersion EXCEPT ![c] = version]
  /\ pc' = [pc EXCEPT ![c] = "subscribe"]
  /\ UNCHANGED <<db, commitOrder, stream, initial, page, full, pos, pending, req, committed, device>>

\* commit_order is taken and current_version read: the replay/live boundary.
ReadBoundary(c) ==
  /\ pc[c] = "boundary"
  /\ commitOrder = None
  /\ commitOrder' = c
  /\ readyVersion' = [readyVersion EXCEPT ![c] = version]
  /\ pc' = [pc EXCEPT ![c] = "subscribe"]
  /\ UNCHANGED <<db, stream, initial, page, full, pos, pending, req, committed, device>>

\* events = subscribe(vault); the guard is dropped at the end of the block.
Subscribe(c) ==
  /\ pc[c] = "subscribe"
  /\ pos' = [pos EXCEPT ![c] = Len(stream)]
  /\ commitOrder' = None
  /\ pc' = [pc EXCEPT ![c] = "page"]
  /\ UNCHANGED <<db, stream, replay, pending, req, committed, device>>

\* init's replay loop: one database page, read without commit_order.
ReadPage(c) ==
  LET found == IF initial[c] THEN initial_snapshot(seen[c], readyVersion[c])
                             ELSE list_changes(seen[c], readyVersion[c])
  IN /\ pc[c] = "page"
     /\ page' = [page EXCEPT ![c] = FirstPage(found)]
     /\ full' = [full EXCEPT ![c] = Cardinality(FirstPage(found)) = PageSize]
     /\ pc'   = [pc EXCEPT ![c] = IF found = {} THEN "ready" ELSE "send"]
     /\ UNCHANGED <<db, commitOrder, stream, initial, readyVersion, pos, pending, req, committed, device>>

SendItem(c) ==
  \E u \in page[c] :
    /\ pc[c] = "send"
    /\ \A w \in page[c] : u <= w
    /\ Receive(c, u)
    /\ page' = [page EXCEPT ![c] = @ \ {u}]
    /\ pc'   = [pc EXCEPT ![c] = IF page[c] # {u} THEN "send"
                                 ELSE IF full[c] THEN "page" ELSE "ready"]
    /\ UNCHANGED <<db, commitOrder, stream, initial, readyVersion, full, pos, pending, req, committed>>

\* init returns, and its locals go with it.
EndReplay(c) ==
  /\ initial'      = [initial EXCEPT ![c] = FALSE]
  /\ readyVersion' = [readyVersion EXCEPT ![c] = 0]
  /\ page'         = [page EXCEPT ![c] = {}]
  /\ full'         = [full EXCEPT ![c] = FALSE]

SendReady(c) ==
  /\ pc[c] = "ready"
  /\ seen' = [seen EXCEPT ![c] = readyVersion[c]]
  /\ pc'   = [pc EXCEPT ![c] = "live"]
  /\ EndReplay(c)
  /\ UNCHANGED <<db, commitOrder, stream, pos, pending, req, committed, got>>

-----------------------------------------------------------------------------
(* socket_loop: events and messages of an authenticated connection.        *)

Deliver(c) ==
  /\ pc[c] = "live"
  /\ pos[c] < Len(stream) /\ ~Lagged(c)
  /\ pos' = [pos EXCEPT ![c] = @ + 1]
  /\ Receive(c, stream[pos[c] + 1])
  /\ UNCHANGED <<db, commitOrder, stream, pc, replay, pending, req, committed>>

\* The task ends: the receiver, the partial page and any upload go with it.
Close(c) ==
  /\ pc'        = [pc EXCEPT ![c] = "closed"]
  /\ EndReplay(c)
  /\ pos'       = [pos EXCEPT ![c] = 0]
  /\ pending'   = [pending EXCEPT ![c] = None]
  /\ req'       = [req EXCEPT ![c] = None]
  /\ committed' = [committed EXCEPT ![c] = 0]
  /\ UNCHANGED device

CloseLagged(c) ==
  /\ pc[c] \in {"live", "ack"}
  /\ Lagged(c)
  /\ Close(c)
  /\ UNCHANGED <<db, commitOrder, stream>>

\* A failed send, a peer close, a deadline or a lost authorization, all of
\* which a task notices only where it sends or waits for its peer.
Disconnect(c) ==
  /\ pc[c] \in Sending
  /\ Close(c)
  /\ UNCHANGED <<db, commitOrder, stream>>

Begin(c, r) ==
  /\ pc[c] = "live"
  /\ req' = [req EXCEPT ![c] = r]
  /\ pc'  = [pc EXCEPT ![c] = "wait"]
  /\ UNCHANGED <<db, commitOrder, stream, replay, pos, committed, device>>

\* The expected_version of a push: none, or the version the device has
\* caught up with.
Expectations(c) == {None} \cup {v \in {seen[c]} : "conditional" \in Ops}

\* begin_push of a tombstone, a folder or an empty file.
PushMetadata(c) ==
  \E p \in Path, d \in BOOLEAN, e \in Expectations(c) :
    /\ "metadata" \in Ops
    /\ pending[c] = None
    /\ Begin(c, [kind |-> "push", path |-> p, deleted |-> d, expected |-> e])
    /\ UNCHANGED pending

\* begin_push of a file: admitted, staged and answered with "next".
BeginUpload(c) ==
  \E p \in Path, e \in Expectations(c) :
    /\ "upload" \in Ops
    /\ pc[c] = "live"
    /\ pending[c] = None
    /\ pending' = [pending EXCEPT ![c] =
         [kind |-> "push", path |-> p, deleted |-> FALSE, expected |-> e]]
    /\ UNCHANGED <<db, commitOrder, stream, pc, replay, pos, req, committed, device>>

\* upload_chunk of the last piece.
FinishUpload(c) ==
  /\ pending[c] # None
  /\ Begin(c, pending[c])
  /\ pending' = [pending EXCEPT ![c] = None]

BeginRestore(c) ==
  \E u \in 1..MaxUid :
    /\ "restore" \in Ops
    /\ Begin(c, [kind |-> "restore", target |-> u])
    /\ UNCHANGED pending

BeginPurge(c) ==
  /\ "purge" \in Ops
  /\ Begin(c, [kind |-> "purge"])
  /\ UNCHANGED pending

-----------------------------------------------------------------------------
(* The mutations, under commit_order.                                      *)

\* The guard goes with the reply of a mutation that changes nothing to publish.
Reply(c) ==
  /\ pc'  = [pc EXCEPT ![c] = "live"]
  /\ req' = [req EXCEPT ![c] = None]
  /\ UNCHANGED <<commitOrder, stream, replay, pos, pending, committed, device>>

\* commit_order.lock().await returns to the task that carries out a request.
Turn(c, kind) == pc[c] = "wait" /\ commitOrder = None /\ req[c].kind = kind

\* INSERT INTO revisions and refresh_vault, in one transaction.
Store(r) ==
  /\ seq < MaxUid
  /\ seq'     = seq + 1
  /\ log'     = [u \in DOMAIN log \cup {seq + 1} |-> IF u = seq + 1 THEN r ELSE log[u]]
  /\ rows'    = rows \cup {seq + 1}
  /\ version' = seq + 1

\* The transaction commits and the task goes on to publish, guard in hand.
Commit(c, r) ==
  /\ Store(r)
  /\ commitOrder' = c
  /\ committed'   = [committed EXCEPT ![c] = seq + 1]
  /\ pc'          = [pc EXCEPT ![c] = "publish"]
  /\ req'         = [req EXCEPT ![c] = None]
  /\ UNCHANGED <<stream, replay, pos, pending, device>>

\* add_revision and add_file_revision
CommitPush(c) ==
  /\ Turn(c, "push")
  /\ ExpectedHolds(req[c])
  /\ Commit(c, [path |-> req[c].path, deleted |-> req[c].deleted])

\* The push is committed but the SELECT that reads its row back fails: the
\* error ends the task with nothing published.
CommitPushUnread(c) ==
  /\ "unread" \in Ops
  /\ Turn(c, "push")
  /\ ExpectedHolds(req[c])
  /\ Store([path |-> req[c].path, deleted |-> req[c].deleted])
  /\ Close(c)
  /\ UNCHANGED <<commitOrder, stream>>

\* ConditionalWriteConflict: an error reply, and the connection goes on.
RefusePush(c) ==
  /\ Turn(c, "push")
  /\ ~ExpectedHolds(req[c])
  /\ Reply(c)
  /\ UNCHANGED db

CommitRestore(c) ==
  /\ Turn(c, "restore")
  /\ Restorable(req[c].target)
  /\ Commit(c, [path |-> log[req[c].target].path, deleted |-> FALSE])

\* "Revision not found", or over a limit this module leaves out (the storage
\* quota, the size of a notice): an error reply.
RefuseRestore(c) ==
  /\ Turn(c, "restore")
  /\ Reply(c)
  /\ UNCHANGED db

\* purge deletes every revision that is not its path's head; version stays.
CommitPurge(c) ==
  /\ Turn(c, "purge")
  /\ rows' = {u \in rows : IsHead(u)}
  /\ Reply(c)
  /\ UNCHANGED <<seq, log, version>>

\* The transaction fails (authorization revoked, worker deadline, I/O): the
\* guard is dropped, the error ends the task.
FailCommit(c) ==
  /\ pc[c] = "wait" /\ commitOrder = None
  /\ Close(c)
  /\ UNCHANGED <<db, commitOrder, stream>>

\* Faulty: the event is not published.
Publish_Silent(c) ==
  /\ pc[c] = "publish"
  /\ commitOrder' = None
  /\ pc' = [pc EXCEPT ![c] = "ack"]
  /\ UNCHANGED <<db, stream, replay, pos, pending, req, committed, device>>

\* Faulty: the connection subscribes again after its event.
Publish_Resubscribe(c) ==
  /\ pc[c] = "publish"
  /\ stream' = Append(stream, committed[c])
  /\ pos' = [pos EXCEPT ![c] = Len(stream) + 1]
  /\ commitOrder' = None
  /\ pc' = [pc EXCEPT ![c] = "ack"]
  /\ UNCHANGED <<db, replay, pending, req, committed, device>>

\* publish_committed; the guard is dropped at the end of the block.
Publish(c) ==
  /\ pc[c] = "publish"
  /\ stream' = Append(stream, committed[c])
  /\ commitOrder' = None
  /\ pc' = [pc EXCEPT ![c] = "ack"]
  /\ UNCHANGED <<db, replay, pos, pending, req, committed, device>>

\* acknowledge_commit: drain the receiver up to the connection's own commit.
\* Its error for an event past that commit ("skipped originating commit") is
\* no action: OwnCommitAhead says that the guard u <= committed never fails.
Acknowledge(c) ==
  LET u == stream[pos[c] + 1]
  IN /\ pc[c] = "ack"
     /\ pos[c] < Len(stream) /\ ~Lagged(c)
     /\ pos' = [pos EXCEPT ![c] = @ + 1]
     /\ Receive(c, u)
     /\ u <= committed[c]
     /\ pc' = [pc EXCEPT ![c] = IF u = committed[c] THEN "live" ELSE "ack"]
     /\ committed' = [committed EXCEPT ![c] = IF u = committed[c] THEN 0 ELSE @]
     /\ UNCHANGED <<db, commitOrder, stream, replay, pending, req>>

\* A commit to another vault takes a uid from the same AUTOINCREMENT sequence.
OtherVaultCommit ==
  /\ "elsewhere" \in Ops
  /\ commitOrder = None
  /\ seq < MaxUid
  /\ seq' = seq + 1
  /\ UNCHANGED <<log, rows, version, commitOrder, stream, pc, replay, pos, pending, req, committed, device>>

\* The process stops and starts again: only the database survives.
Crash ==
  /\ commitOrder'  = None
  /\ stream'       = <<>>
  /\ pc'           = [c \in Conn |-> "closed"]
  /\ initial'      = [c \in Conn |-> FALSE]
  /\ readyVersion' = [c \in Conn |-> 0]
  /\ page'         = [c \in Conn |-> {}]
  /\ full'         = [c \in Conn |-> FALSE]
  /\ pos'          = [c \in Conn |-> 0]
  /\ pending'      = [c \in Conn |-> None]
  /\ req'          = [c \in Conn |-> None]
  /\ committed'    = [c \in Conn |-> 0]
  /\ UNCHANGED <<db, device>>

-----------------------------------------------------------------------------
Server(c) ==
  \/ ReadBoundary(c) \/ Subscribe(c)
  \/ ReadPage(c) \/ SendItem(c) \/ SendReady(c)
  \/ Deliver(c) \/ CloseLagged(c)
  \/ CommitPush(c) \/ CommitPushUnread(c) \/ RefusePush(c) \/ CommitRestore(c) \/ RefuseRestore(c) \/ CommitPurge(c)
  \/ FailCommit(c) \/ Publish(c) \/ Acknowledge(c)

Client(c) ==
  \/ \E fresh \in BOOLEAN, v \in 0..seen[c] : Open(c, fresh, v)
  \/ PushMetadata(c) \/ BeginUpload(c) \/ FinishUpload(c) \/ BeginRestore(c) \/ BeginPurge(c)
  \/ Disconnect(c)

Next ==
  \/ \E c \in Conn : Server(c) \/ Client(c)
  \/ OtherVaultCommit
  \/ Crash

Spec == Init /\ [][Next]_vars

\* One task's share of progress.  commit_order is tokio's FIFO mutex, so a
\* task whose turn keeps coming is served (SF); every other step is a task
\* the runtime keeps polling (WF).  Nothing makes a device act, stay or go.
Mutate(c) ==
  CommitPush(c) \/ CommitPushUnread(c) \/ RefusePush(c) \/ CommitRestore(c) \/ RefuseRestore(c) \/ CommitPurge(c) \/ FailCommit(c)

Fairness ==
  \A c \in Conn : WF_vars(Server(c)) /\ SF_vars(ReadBoundary(c)) /\ SF_vars(Mutate(c))

FairSpec == Spec /\ Fairness

-----------------------------------------------------------------------------
(* Properties.                                                             *)

TypeOK ==
  /\ seq \in Nat /\ version \in Nat
  /\ log \in [DOMAIN log -> Revision]
  /\ DOMAIN log \subseteq 1..seq
  /\ rows \subseteq DOMAIN log
  /\ commitOrder \in Conn \cup {None}
  /\ stream \in Seq(DOMAIN log)
  /\ pc \in [Conn -> Phase]
  /\ initial \in [Conn -> BOOLEAN]
  /\ readyVersion \in [Conn -> Nat]
  /\ page \in [Conn -> SUBSET DOMAIN log]
  /\ full \in [Conn -> BOOLEAN]
  /\ pos \in [Conn -> Nat]
  /\ pending \in [Conn -> PushRequest \cup {None}]
  /\ req \in [Conn -> Request \cup {None}]
  /\ committed \in [Conn -> Nat]
  /\ seen \in [Conn -> Nat]
  /\ got \in [Conn -> SUBSET DOMAIN log]

\* The device reflects revision u: it applied u, or u is a tombstone of a
\* path it never heard of.
Reflects(c, u) ==
  \/ u \in got[c]
  \/ log[u].deleted /\ \A w \in got[c] : log[w].path # log[u].path

\* No revision is ever lost to a device: whatever the point at which its
\* connection stops and resumes, the current revision of every path that is
\* not newer than the version the device resumes from has reached it.  init
\* must join replay and live events without a gap, and purge must not take a
\* revision away that a device still needs.
NoLostRevision ==
  \A c \in Conn, u \in rows : IsHead(u) /\ u <= seen[c] => Reflects(c, u)

\* A live device that has taken every published event has every current
\* revision of the vault, except one whose publisher holds commit_order.
CaughtUpIsCurrent ==
  \A c \in Conn : pc[c] = "live" /\ pos[c] = Len(stream) /\ commitOrder = None =>
    \A u \in rows : IsHead(u) => Reflects(c, u)

\* acknowledge_commit never raises "ordered change stream skipped originating
\* commit", nor waits for an event that will not come: the connection's own
\* commit is still ahead of its receiver, and nothing newer comes before it.
OwnCommitAhead ==
  \A c \in Conn : pc[c] = "ack" =>
    pos[c] < Len(stream) /\ stream[pos[c] + 1] <= committed[c]

\* What verify requires of vaults.version: no stored revision is newer, and
\* the sequence has allocated it; purge and restore keep it so.
VersionCoversRows == version <= seq /\ \A u \in rows : u <= version

\* Within one connection the notices a device receives have strictly
\* increasing uids, across pages and across the replay/live boundary: none
\* is repeated and none arrives out of order.
NoticesInOrder ==
  [][\A c \in Conn :
       /\ SendItem(c) \/ Deliver(c) \/ Acknowledge(c) => seen'[c] > seen[c]
       /\ SendReady(c) => seen'[c] >= seen[c]]_vars

\* A conditional push commits only when its author has been sent the current
\* revision of every path: it never overwrites a change its author had not
\* seen, however long the upload took.
ConditionalPushSawAll ==
  [][\A c \in Conn :
       CommitPush(c) /\ req[c].expected # None =>
         \A u \in rows : IsHead(u) => Reflects(c, u)]_vars

\* vaults.version never goes back, and purge never removes a path's head.
HistoryGrows ==
  [][/\ version' >= version
     /\ \A u \in rows : IsHead(u) => u \in rows']_vars

\* Nobody waits for commit_order or for its own notice for ever: a device at the
\* boundary gets its replay and "ready", a mutation is acknowledged or refused, or the
\* connection closes, whatever the other tasks do with the lock.
Answered == \A c \in Conn : pc[c] \in Waiting ~> pc[c] \in {"live", "closed"}

\* A device whose connection stays live and which asks for nothing more comes to have,
\* and keeps, every current revision that was published on the topic, whether it was
\* published before the device subscribed or after, and although its receiver may lag.
Converges ==
  \A c \in Conn :
    <>[](pc[c] = "live") =>
      <>[](\A i \in 1..Len(stream) : IsHead(stream[i]) => Reflects(c, stream[i]))

\* The service as its devices see it: ChangeStream implements OrderedFeed, in
\* which each device hears of the vault's revisions in order and of all it
\* needs, with no replay, topic or lock in sight.
Feed == INSTANCE OrderedFeed WITH Device <- Conn, Uid <- 1..MaxUid, fresh <- initial

ImplementsOrderedFeed == Feed!Spec
=============================================================================
