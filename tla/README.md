# Verification of the Blackglass Sync server

TLA+ models of the Rust server in `apps/server-rust`, the TLC runs that check
them on small instances and the TLAPS proofs that hold for every instance.
`PROJECT.json` lists components, runs, mutants, the map from definitions to
source lines, hazards and theorems.

## The system

The server keeps encrypted vaults in one SQLite database. A *control plane*
(HTTP) signs users in, creates, shares, re-encrypts and deletes vaults; a *data
plane* (one WebSocket per device and vault) replays a vault's revisions to a
device, follows it with live events and accepts pushes, restores and purges.
SQLite runs on one connection behind a mutex, in IMMEDIATE transactions, on a
bounded pool of blocking workers. Everything else is tokio tasks that meet at
a few locks, permits and channels. Offline commands of the same binary manage
accounts, copies and migrations of the database.

How the parts meet: every mutation of a vault commits and publishes within
`commit_order`; an authorisation is read from the tables again inside every
transaction that writes; a withdrawal is committed first and then cancels live
connections through the registry; offline commands and the server exclude each
other by lock files next to the database and the staging directory.

## Modules

In every module a handler is split at its awaits and a database transaction is
one step. Requests that a client may abandon have an action for that. Bounds on
counters are constants named in the guards. Histories (what was granted, sent,
withdrawn) are variables or fields marked as such and guard nothing.

Definitions whose comment begins with *Faulty* are deliberately wrong variants,
each next to the definition it would replace; they document which error a
property catches and are used by no specification.

| Module | Code | State | Actions |
|---|---|---|---|
| `ChangeStream` | `server.rs` init, socket_loop, mutations; `db.rs` revisions | revisions, version, commit_order, event ring, each connection's cursor | init and replay, delivery, lag, push, upload, restore, purge, acknowledgement, disconnection, restart |
| `OrderedFeed` | (abstract) | log and what each device heard | publish, hear |
| `RevisionStore` | `db.rs` insertion, restore, purges, queries; `pull`, `deleted`, `history` | revisions, revision_content, uid sequence, version, size; a pull, a listing and a history in progress | one per transaction |
| `UploadQuota` | `begin_push`, `upload_chunk`, StorageReservations, quota checks | reserved and stored bytes, permits, staged files | admission, piece, commit, discard, restore, purge, vault deletion, restart |
| `Memberships`, `SharingACL` | `memberships` table and its handlers | rows, uid sequence, owners, active accounts; the access list it implements | invite, remove, create, delete, re-encrypt, account status |
| `Accounts` | `user` commands, sign-in, console, registration | users, sessions by password, setting, requests in progress | every command; requests in two or three steps |
| `Sessions` | `sessions` table | rows, clock, readings of the clock held by requests | issue, renew, look up, sign out, disable, prune, clock forward and back |
| `Vaults` | control handlers of vaults, `retire_vault_identity` | vaults, retired identities, commit_order, requests | create, access and key binding, rename, re-encrypt, delete, dropped requests |
| `Revocation` | LiveRegistry, revalidation, `invalidate_vault`, authorisation of writes | sessions, access, connections, handles, permits, events | open, authorise, register, replay, receive, check, send, write; withdraw, cancel, drop |
| `Admission` | semaphores, worker pool, `commit_order` | what each request holds and waits for, FIFO queues | each handler's list of acquisitions and releases; deadline, drop, shutdown |
| `Recovery` | backup, restore, recover-stale-backup, migrate, `rotate_recovery_epoch`, the answer of init | files, epochs, schema versions, devices with cursors, grants | commands transaction by transaction, kill, serve, sync, write, withdraw |
| `Lifecycle` | `run`, locks, staging, listeners, drain, rebind, purge-deleted, streamed backup | processes, locks, marker, staged files, hosts, temporary files | start to stop step by step, signal, listener failure, clients that finish, kill |

`Revocation` is the composition of sessions, memberships, vault deletion, the
registry and the event channel; `Recovery` composes the database commands with
devices that sync. Data is reduced to what properties tell apart: a path, a
password, a key is a model value; content is named by the revision that was
uploaded; a digest is the thing digested.

`MC*` modules give constants their values and declare symmetry; `*_proofs` hold
the theorems, those about `Recovery` and `Lifecycle` together in
`Operations_proofs`, those about `Sessions` and `Admission` in `Server_proofs`, those
about `Vaults` and `RevisionStore` in `Vaults_proofs`. For that two such modules share
no name: what every specification has begins with `Recovery`, `Admission` or
`Revision` in these.

`Recovery` keeps the rule of the operator's manual that a replaced file is never
served again: `Start` takes the mark of success from the file it replaces.
Without that rule `NothingResurrected` fails, though only with three vault
identities or more, which the proof showed before TLC did.

## Runs

One run per question; each checks the properties in its configuration file.

| Run | Bounds | Shows |
|---|---|---|
| `change_stream` | 2 devices, 2 paths, 2 uids, ring and pages of 1, every operation but the read-back failure | no current revision is lost to a device; acknowledgements find their commit; notices come in order; conditional pushes have seen everything; the stream refines `OrderedFeed` |
| `change_stream_live` | 2 devices, 1 path, 2 uids, read-back failures, fairness | every init and mutation is answered; an idle live device converges |
| `revision_store` | 3 paths, 6 uids, pieces of 2 bytes, pages of 1 and 2, listings of up to 2, an inline revision at the start | the tables pass verification after any sequence of operations; pulls are whole or fail because the revision is gone; the deleted listing is exactly what can be restored; paging a history misses and repeats nothing |
| `upload_quota` | 2 connections of one user on vaults of two owners, sizes 1 and 3, quotas 3 and 4, fairness | admitted uploads are never refused; reservations are exact and released in the end; quotas leave room for what is pending |
| `memberships` | 3 vault identities, 2 at a time, 3 users, 3 share UIDs, limits 1 and 2, clock both ways | the table verifies; rows stay bounded; share UIDs name one grant; the rows refine `SharingACL` |
| `accounts` | 4 addresses, 3 users, 2 passwords, 2 requests | sessions match password and status; an active administrator remains |
| `sessions` | 2 users, 3 tokens, 2 requests, clock 0..2 both ways | limits, sliding window, no shortening and no revival |
| `revocation` | 2 connections, 2 permits, 2 users, 1 vault, 1 request, fairness | nothing is delivered after a withdrawal; every withdrawal reaches the live connections, which close in the end |
| `vaults` | 2 owners, 3 identities, 2 keys, 2 names, 2 requests, clock both ways | one key per vault; confirmed names are kept; retired identities verify; a vault that goes is remembered |
| `recovery` | 2 devices, 3 files, schemas 2 and 7 and all that a killed migration leaves between them, 2 writes, an account that is disabled and enabled | no device resumes in another history; nothing withdrawn comes back |
| `admission` | 3 requests of any kind of handler, fairness | Sync keeps memory beside password checks; every request ends |
| `lifecycle` | 2 servers of one staging directory with a control and a data listener, and an operator, fairness | uploads, counts and streams are kept; a server serves only its own host; a shutdown ends unless a client holds a listener back |

Why these bounds are enough for the cases to happen: every limit (ring, page,
piece, table, quota, row count, pool) is 1 to 4 so that a run reaches, passes
and comes back from it; two actors, or three where a third matters, give every
pairwise order; sequences of uids and times are as long as the shortest history
that separates the property from its mutant. Where a bound is at that minimum
(two uids in `change_stream`, two connections in `revocation`) the safety
properties are also theorems, which have no bounds. Some limits need more actors
than a run can have and are left to the theorems: a full registry
(`EveryoneHasHandle`), the global number of retired identities
(`RetiredVerifies`), grants other than accounts in `recovery`
(`NothingResurrected`). Symmetry is declared only
for sets of model values that no constant tells apart, and never in a run with
a liveness property. `recovery` also has a view that leaves out two histories
which nothing in the run can read any more. Deadlock is checked except in `Accounts`, where a database
that no longer opens really stops everything.

### Fairness

- `ChangeStream`, `UploadQuota`: weak fairness of each connection's task, which
  the runtime keeps polling, and strong fairness of the steps that take
  `commit_order`, a FIFO mutex of tokio. `UploadQuota` adds strong fairness of
  `Discard`, the upload's idle deadline, which a timer fires whatever the device
  does. Nothing is assumed of devices. `Converges` is conditional on the
  connection staying idle and live, because the biased select of `socket_loop`
  prefers incoming messages to events.
- `Revocation`: weak fairness of each connection's own steps, its periodic
  revalidation included, and of a control request, which either cancels or is
  dropped.
- `Admission`: weak fairness of each request's step. Queues are FIFO in the
  model, as tokio semaphores are; no deadline is assumed to fire.
- `Lifecycle`: weak fairness of a process that is stopping. The drain of the
  connections has a deadline, which is a timer; `supervise_listeners` has none and
  waits for every request a listener has accepted. Nothing is assumed of clients:
  `held` are the listeners that some client holds back when the shutdown begins,
  `ClientFinishes` is not fair, and `ShutdownEnds` speaks of a process whose `held`
  is or becomes empty. The service manager that would kill such a process is
  `Kill`, which is not fair either.

## Proofs

Every theorem holds for all values of the constants that satisfy the named
assumption of the module (`ConstantsAssumption`, `QuotaAssumption`,
`RevocationAssumption`, ...): sets of actors are finite where they are counted,
limits are natural numbers, maps have their types. A property that a run checks
on a small instance is, where a theorem names it, shown for every instance.
Each argument has the same form: an inductive invariant `Inv` that `Init`
establishes and every action keeps, one lemma per action or per group of actions
with the same effect, and theorems that follow from it.

**Change stream** (`ChangeStream_proofs`): `TypeOK`, `OwnCommitAhead`,
`VersionCoversRows`, `NoticesInOrder` and `HistoryGrows`, and, when `"unread"` is
not in `Ops`, `NoLostRevision`, `CaughtUpIsCurrent`, `ConditionalPushSawAll` and the
refinement `ImplementsOrderedFeed`. None of these is inductive alone. The invariant
has an unconditional part, `OrderInv`: phases and their locals (`PhaseInv`), uids
below the sequence (`StoreInv`), boundary and lock (`BoundaryInv`, `KnownInv`), a
strictly increasing topic (`StreamInv`), every event ahead of a receiver newer than
its floor, which is the boundary during replay and the device's version afterwards
(`TailInv`), and replay pages above the cursor that leave out nothing a later page
does not bring (`PageInv`, `OwedInv`, `FreshInv`). `Inv` adds `QueueInv`, that a
revision above a connection's floor is still queued for it unless its publisher
holds the lock, and `NoLostRevision` itself. `QueueInv` is the step that fails when
a commit is not published, hence the hypothesis on `"unread"`. For the refinement,
`OwedInv` speaks of all stored revisions and not only of the current ones: a page
item, a ready and a live event are each a notice of the feed that jumps over nothing
its device needs (`ItemIsNotice`, `ReadyIsReady`, `EventIsNotice`), commits and
purges are the feed's own, and every other step is hidden from it (`RestIsUnseen`).

**Uploads and quotas** (`UploadQuota_proofs`): `TypeOK`, `ReservationsExact`,
`RuntimeCounterExact`, `StagedWithinReservation`, `QuotaHard`,
`AdmittedNeverRefused` and `AdvertisedIsAdmitted`. `TaskInv` says what the
locals of a task are in each phase, who holds `commit_order`, and that usage
read under it is still the usage when it is used; without the last part neither
quota property is inductive. `RoomInv` says that both quotas have room for all
uploads admitted and not yet stored. Sums are cardinalities (`SumOf`), so the
finite-set theorems give the one fact needed of them: changing one summand
changes the sum by as much.

**Memberships** (`Memberships_proofs`): `TypeOK`, `TableVerifies`,
`RowsBounded`, `UidNamesOneGrant`, `PruningIsLocal`, and the refinement
`ImplementsACL`. The invariant joins them with the finiteness of the table and
the fact that no grant has a UID beyond the sequence. The core is
`PruningLeaves`: of the revoked rows of a vault, ordered by time and then UID, the
DELETE of an invitation leaves fewer than `MaxRevoked`, whatever the clock said
when they were revoked; so the row the invitation adds fits under both limits.
For the refinement each handler is a step of `SharingACL` on the active rows, or
leaves them alone.

**Accounts** (`Accounts_proofs`): `TypeOK`, `SessionsMatchPassword`,
`TableVerifies`, `ActiveAdministratorRemains` and `OffMeansNoRegistration`.
`SessionsMatchPassword` needs `VerifiedStillCurrent`: what a sign-in verified is
still the password of its user when it opens the session, because passwords
change only offline and a request does not outlive the server. The status, which
may change meanwhile, is read again in the transaction.

**Admission** (`Server_proofs`): `SyncLaneLive`, for any connections, handlers and
pool sizes of which one permit is for a password check and at least one permit of
memory is left by a hash, as the constants of the code have it. The handlers' steps
are first put in two classes, by what a sequence of acquisitions and releases can
hold at each of its steps: a password check asks for memory only with the permit
of a check and gives both back together (`CheckPlan`), every other handler takes
memory one permit at a time and no check. The invariant `PoolInv` says that whoever
waits is in one queue, once, for what its next step asks, and that one request at a
time holds the permit of a check, a hash whose request is gone included. So the
memory password checks hold is that of one of them, and when it is such a check
that waits at the head, none.

**Sessions** (`Server_proofs`): `TypeOK`, `TableVerifies`, `WindowSlides`,
`DisabledHoldNoSession` and `OnlyExtends`. The limits are kept because issuing
first sweeps what its own reading calls expired and then counts what is left,
however stale that reading is; `OnlyExtends` follows action by action from the
invariant, since a renewal writes only when half a window or less is left.

**Revocation** (`Revocation_proofs`): `TypeOK`, `EveryoneHasHandle`,
`UserPermitsExact`, `NoDeliveryAfterWithdrawal`, `WithdrawalReachesLive` and
`NoWriteAfterWithdrawal`. `EveryoneHasHandle` is a pigeonhole: handles belong to
connections that hold a permit (`HandlesAreLive`), permits are at most `MaxConn`
(`PermitsBounded`), and the one that registers has a permit and no handle yet.
`QueueOK` says that an event committed while its receiver had no right is marked
until the receiver has one again, so an authorised receiver finds none marked
and what it is about to send is not; a connection that checks, loses its right
and only then sends is the case that needs it. A step is a *walk* of a serving
connection, a first or last step of one (`Ends`), or a step of a control request.

**Revision tables** (`Vaults_proofs`): `RevisionTypeOK`, `StoreVerifies`, `PullExact`,
`DeletedExact` and `HistoryComplete`, for any paths, pages, pieces and limits, and any
tables of an early schema that its migration verified (`RevisionAssumption`).
`SoundTables` is `StoreVerifies` row by row, with the type of each content; the size
is then the one verification computes because a head that is deleted or a folder has
size 0. For the reads that take several transactions, the invariant relates what was
sent to tables that have changed since. `PullInv`: the pieces sent so far are the start
of one upload, which is the one stored under the uid if it is still there; no
mutation writes a uid twice, so `Later` (what a mutation leaves of the rows before it)
is enough. `ListInv`: the pages are all that the query would return up to the cursor,
because nothing commits during a listing. `HistInv`: every revision that was stored at
the start, still is, and is not older than the last one sent, was sent. ORDER BY with
LIMIT is a set of ranks (`FirstOf`, `LastOf`) and SUM the number of bytes, so what the
proofs need of them is counting and no induction. `Counting` collects those facts about
finite sets; the lemmas assume it, and `CountingHolds` proves it from the library.

**Vaults** (`Vaults_proofs`): `TypeOK`, `KeyAgreement`, `NameKept`,
`RetiredVerifies`, `GoneIsRemembered`, `VaultsBounded` and `FullOwnerMayDelete`.
`KeyAgreement` and `NameKept` become conditions on single rows (`SoundRow`) once one
adds `ReadName`: the name a re-encryption has read is one its vault may have, as long
as it holds `commit_order`. `RetiredVerifies` rests on counting: of the markers of an
owner, ordered by time and identity, the DELETE leaves fewer than the limit
whatever the clock said, so the new marker fits; and it is not among those deleted,
because it is inserted afterwards. `VaultsBounded` holds because what replaces a vault
takes its place.

**Backup, restore, migration** (`Operations_proofs`): `RecoveryTypeOK`,
`NoSilentGap` and `NothingResurrected`, for any number of devices, files and
identities. The invariant says of every file what its command has done to it
(`Running`, `Finished`), and of every file that may come into use that its identity
is either the first one or one that no device, no other such file and not the file in
use has (`NewIdentity`). Then a device accepted by another file can only be one of an
unrotated migration, which has the same revisions. A migration is one transaction
per version, so a killed one leaves any version in between, which another may take
up (`StaySafe`); the files of older schemas all have the first identity.

**Life cycle** (`Operations_proofs`): `TypeOK`, `StagedKept`, `CountExact`,
`HostsMatch` and `StreamKept`. `Own` is what a process relies on: in the stages
under a lock it holds that lock. `Confined` is what a step of another process
can do: take a free lock or give back its own, remove staged files of its own
or of a directory it has locked, change a database it has locked, remove a
temporary file that is stale. The invariant follows from the two by cases,
one lemma per action for the process that moves.

### Only model-checked

- Liveness (`Answered`, `Converges`, `ReservationReleased`, `WithdrawnCloses`,
  `RequestsEnd`, `ShutdownEnds`): fairness and ENABLED are outside the prover.

## Where the code departs from its documents

These definitions state what a document, a comment or the verification of the
database says, and do not hold in the models; no run checks them.

- `NoLostRevision` with `"unread"` in `Ops`: `add_revision` and
  `add_file_revision_internal` read the new row back after `tx.commit()`. If that
  SELECT fails the revision is never published; a live device is carried past it
  by the next event. `restore_internal` reads its row inside the transaction and
  is not affected.
- `StagedFilesBounded` (`UploadQuota`): `discard_pending_upload` releases the
  upload slot before it removes the file, so there can be more staged files than
  slots.
- `RevokedVerifies` (`Memberships`): only an invitation prunes revoked rows;
  removals alone take a vault past the number verification accepts.
- `AdministratorRetained` (`Accounts`): after `recover-stale-backup` has disabled
  every account the only administrator can be demoted, and verification then
  refuses the database.
- `UpdatedAfterCreation` (`Accounts`): `updated_at` is written from the clock;
  after the clock was set back it can precede `created_at`, which verification
  refuses.
- `ExpiredNeverRenewed` (`Sessions`): renewal reads the clock before it waits for
  the database and can renew a session that has expired meanwhile.
- `NotFoundOnlyForRetired` (`Recovery`): `Vault not found` is answered to every
  valid session whose lookup fails, whether or not a marker names the identity.
- `VerifiedMeansFinished` (`Recovery`): a migration killed between its schema
  steps and the rotation of the epoch leaves a file that verifies with the old
  identities; one killed between schema 3 and 6 leaves a file that a second
  migration finishes without rotating the epoch.
- `StartupAccepts` (`Lifecycle`): a process killed between creating and writing
  the staging marker leaves one that every later start refuses.

## Not modelled

- Rate limits by source and by invitation: tables of counters that delay or
  refuse requests and change nothing that is stored.
- The Publish runtime: a tool that checks files against pinned digests once and
  shares no state with the Sync server.
- Schema comparison of database verification: a fixed list of SQL texts. Its
  logical conditions are properties of the modules of the tables.
- Configuration, password hashing, token digests, wire formats: parsing and pure
  functions without state; their limits are the constants of the modules.
- The pages of console and account and the read-only overview: rendering.
- The page-by-page copying of SQLite's backup API and the conversion of rows
  between schemas: external, taken as one transaction each.
- A staged file that cannot be removed; binding of sockets and the readiness
  probe; sizes of notices in bytes (an answer's limit counts items).
- The TypeScript reference server, which is single-threaded and not deployed;
  deployment scripts, measurement and release tools: I/O around external tools.
