------------------------------- MODULE Recovery -------------------------------
(***************************************************************************)
(* Backup, restore, stale-backup recovery and schema migration             *)
(* (apps/server-rust/src/db.rs, main.rs) as seen by the devices.  A        *)
(* command writes a new file in several transactions and may be killed     *)
(* between any two; a failure it notices removes the file.  A device that  *)
(* knows a vault by its identity keeps a cursor into the revisions of that *)
(* vault; if it met another history under the same identity it would skip  *)
(* revisions without noticing.  A database here holds one vault.           *)
(*                                                                         *)
(* The operator follows docs/production.md: the server is pointed only at  *)
(* a file whose command has succeeded, a file that has been replaced is    *)
(* never served again, `restore` is used for current copies only.          *)
(***************************************************************************)
EXTENDS Naturals, Sequences

CONSTANTS
  Device,
  Path,        \* files of the operator
  Live, Old,   \* the database in use, and a copy of it made before
  VaultId,     \* remote vault identities
  First,       \* the first of them
  Versions,    \* schema versions in which the databases may be found; 0 is legacy
  Grant,       \* what a copy could bring back: the accounts of owner and
               \* collaborator, the membership, self-registration, a session
  MaxWrites    \* bound on the revisions ever written

Current == 7   \* CURRENT_SCHEMA_VERSION

ASSUME RecoveryAssumption ==
  /\ {Live, Old} \subseteq Path /\ Live # Old /\ First \in VaultId
  /\ Grant \subseteq {"owner", "account", "member", "registration", "session"}
  /\ Versions \subseteq 0..Current /\ MaxWrites \in Nat

VARIABLES
  store,      \* the content of each path
  serving,    \* the path a server runs on, or Stopped
  current,    \* the path the configuration points at
  cmd,        \* the running command
  dev,        \* each device: vault, cursor, the writes it has
  writes,     \* number of the last write
  withdrawn   \* history: grants taken back and not given again

recoveryVars == <<store, serving, current, cmd, dev, writes, withdrawn>>

Stopped == "none"
Idle    == [kind |-> "idle"]
Absent  == [made |-> "absent", done |-> FALSE]
Partial == [made |-> "partial", done |-> FALSE]

HasDatabase(p) == store[p] \notin {Absent, Partial}

\* A database with its history: whether it still owes a new recovery epoch, the
\* command that made it, and whether that command reported success and no other
\* file has replaced this one since.
Original(version, revs, made) ==
  [version |-> version, id |-> First, revs |-> revs, retired |-> {},
   grants |-> Grant \ ({"registration"} \cup IF version < 6 THEN {"member"} ELSE {}),
   owes |-> FALSE, made |-> made, done |-> TRUE]

\* The database in place is of this release, and served or not, or of an older
\* one; a backup of its beginning may lie beside it.
RecoveryInit ==
  /\ \E v \in Versions, old \in BOOLEAN :
       store = [p \in Path |-> IF p = Live THEN Original(v, <<1>>, "server")
                               ELSE IF p = Old /\ old THEN Original(v, <<>>, "backup")
                               ELSE Absent]
  /\ serving \in {Stopped} \cup {p \in {Live} : store[p].version = Current}
  /\ current = Live /\ cmd = Idle
  /\ dev = [d \in Device |-> [id |-> First, cursor |-> 1, has |-> {1}]]
  /\ writes = 1 /\ withdrawn = {}

-----------------------------------------------------------------------------
(* The server and its devices.                                             *)

Db == store[serving]

\* init: the answer to a device of the owner, which signs in as often as it must.
InitAnswer(d) ==
  IF "owner" \notin Db.grants THEN "Unable to authenticate"
  ELSE IF dev[d].id # Db.id THEN "Vault not found"
  ELSE IF dev[d].cursor > Len(Db.revs) THEN "ahead"
  ELSE "ok"

\* The replay that follows an accepted init, up to ready_version.
Sync(d) ==
  /\ serving # Stopped /\ InitAnswer(d) = "ok"
  /\ dev' = [dev EXCEPT
       ![d].has = @ \cup {Db.revs[i] : i \in (dev[d].cursor + 1)..Len(Db.revs)},
       ![d].cursor = Len(Db.revs)]
  /\ UNCHANGED <<store, serving, current, cmd, writes, withdrawn>>

\* A device that is up to date writes a revision.
Push(d) ==
  /\ serving # Stopped /\ InitAnswer(d) = "ok" /\ dev[d].cursor = Len(Db.revs)
  /\ writes < MaxWrites /\ writes' = writes + 1
  /\ store' = [store EXCEPT ![serving].revs = Append(@, writes')]
  /\ dev' = [dev EXCEPT ![d].has = @ \cup {writes'}, ![d].cursor = @ + 1]
  /\ UNCHANGED <<serving, current, cmd, withdrawn>>

\* The user selects the vault of the server for a fresh local vault.
SelectVault(d) ==
  /\ serving # Stopped /\ InitAnswer(d) \in {"Vault not found", "ahead"}
  /\ dev' = [dev EXCEPT ![d] = [@ EXCEPT !.id = Db.id, !.cursor = 0, !.has = {}]]
  /\ UNCHANGED <<store, serving, current, cmd, writes, withdrawn>>

\* A sign-out, a removed collaborator, a disabled user, a changed setting.  The
\* owner is the administrator, whose account cannot be disabled.
Withdraw(g) ==
  /\ g # "owner" /\ HasDatabase(current) /\ store[current].version = Current
  /\ g \in store[current].grants /\ store' = [store EXCEPT ![current].grants = @ \ {g}]
  /\ withdrawn' = withdrawn \cup {g}
  /\ UNCHANGED <<serving, current, cmd, dev, writes>>

\* A deliberate grant, by the operator or the owner; a session is never issued twice.
Enable(g) ==
  /\ g # "session" /\ HasDatabase(current) /\ store[current].version = Current
  /\ store' = [store EXCEPT ![current].grants = @ \cup {g}]
  /\ withdrawn' = withdrawn \ {g}
  /\ UNCHANGED <<serving, current, cmd, dev, writes>>

-----------------------------------------------------------------------------
(* The commands.                                                           *)

\* verify_connection
Verifies(p) == HasDatabase(p) /\ store[p].version = Current

\* The sources each command accepts.
Accepts(kind, p) ==
  /\ HasDatabase(p)
  /\ IF kind = "migrate" THEN store[p].version < Current ELSE store[p].version = Current

\* acquire_database_lock: only the versioned migration locks its source.
Locked(kind, p) == kind = "migrate" /\ store[p].version > 0

\* The transactions of backup_database, restore_database, recover_stale_backup,
\* migrate_versioned_database_under_lock and migrate_legacy_database.
Steps(kind, version) ==
  CASE kind = "backup"  -> <<"copy", "finish">>
    [] kind = "restore" -> <<"copy", "rotate", "finish">>
    [] kind = "recover" -> <<"copy", "rotate", "lockdown", "finish">>
    [] kind = "migrate" -> IF version < 3 THEN <<"copy", "upgrade", "rotate", "finish">>
                           ELSE <<"copy", "upgrade", "finish">>

\* with_new_database creates a file that must not exist.
Begin(kind, src, dst) ==
  /\ cmd = Idle /\ Accepts(kind, src) /\ store[dst] = Absent
  /\ Locked(kind, src) => serving # src
  /\ store' = [store EXCEPT ![dst] = Partial]
  /\ cmd' = [kind |-> kind, src |-> src, dst |-> dst, steps |-> Steps(kind, store[src].version)]
  /\ UNCHANGED <<serving, current, dev, writes, withdrawn>>

At(step) == cmd # Idle /\ Head(cmd.steps) = step

Continue(db) ==
  /\ store' = [store EXCEPT ![cmd.dst] = db] /\ cmd' = [cmd EXCEPT !.steps = Tail(@)]
  /\ UNCHANGED <<serving, current, dev, writes, withdrawn>>

\* run_online_backup, and the checks of the copy.
Copy == At("copy") /\ Continue([store[cmd.src] EXCEPT !.made = cmd.kind, !.done = FALSE])

\* The next version; 6 and 7 change the tables of authority.
Upgraded(db) ==
  [db EXCEPT !.version = @ + 1,
             !.grants = IF db.version < 5 THEN @ ELSE @ \ {"session", "registration"},
             !.owes = @ \/ cmd.steps[2] = "rotate"]

\* migrate: one transaction per version.
Upgrade ==
  /\ At("upgrade")
  /\ LET db == Upgraded(store[cmd.dst])
     IN  IF db.version = Current THEN Continue(db)
         ELSE /\ store' = [store EXCEPT ![cmd.dst] = db]
              /\ UNCHANGED <<serving, current, cmd, dev, writes, withdrawn>>

\* Faulty: the sessions go, the identities stay.
Rotated_SameId(db, v) == [db EXCEPT !.grants = @ \ {"session", "member"}]

\* rotate_recovery_epoch: the deletion of the old row cascades to its memberships.
Rotated(db, v) ==
  [db EXCEPT !.id = v, !.retired = @ \cup {db.id}, !.grants = @ \ {"session", "member"},
             !.owes = FALSE]

\* A UUID that nothing refers to.
FreshId ==
  VaultId \ ((UNION {{store[p].id} \cup store[p].retired : p \in {q \in Path : HasDatabase(q)}})
               \cup {dev[d].id : d \in Device})

Rotate(v) == At("rotate") /\ v \in FreshId /\ Continue(Rotated(store[cmd.dst], v))

\* Faulty: the collaborator's account stays as it was.
LockedDown_Owner(db) == [db EXCEPT !.grants = @ \ {"session", "owner", "registration"}]

\* recover_stale_backup, its second transaction.
LockedDown(db) == [db EXCEPT !.grants = @ \ {"session", "owner", "account", "registration"}]

LockDown == At("lockdown") /\ Continue(LockedDown(store[cmd.dst]))

\* The final verification succeeds and the command reports it.
Finish ==
  /\ At("finish") /\ Verifies(cmd.dst)
  /\ store' = [store EXCEPT ![cmd.dst].done = TRUE] /\ cmd' = Idle
  /\ UNCHANGED <<serving, current, dev, writes, withdrawn>>

\* remove_database_files after an error.
Fail ==
  /\ cmd # Idle /\ store' = [store EXCEPT ![cmd.dst] = Absent] /\ cmd' = Idle
  /\ UNCHANGED <<serving, current, dev, writes, withdrawn>>

\* The process is killed.
KillCommand ==
  /\ cmd # Idle /\ cmd' = Idle
  /\ UNCHANGED <<store, serving, current, dev, writes, withdrawn>>

-----------------------------------------------------------------------------
(* The operator.                                                           *)

Busy(p) == cmd # Idle /\ cmd.src = p /\ Locked(cmd.kind, p)

\* What docs/production.md allows to be served.
Procedure(p) ==
  \/ p = current
  \/ /\ store[p].done
     /\ \/ store[p].made = "recover"
        \/ store[p].made = "restore" /\ store[p].grants \cap withdrawn = {}
        \/ store[p].made = "migrate" /\ store[p].grants \cap withdrawn = {}
                                     /\ store[p].revs = store[current].revs
                                     /\ store[current].retired \subseteq store[p].retired

\* open_existing
Start(p) ==
  /\ serving = Stopped /\ Verifies(p) /\ ~Busy(p) /\ Procedure(p)
  /\ serving' = p /\ current' = p
  /\ store' = IF p = current THEN store ELSE [store EXCEPT ![current].done = FALSE]
  /\ UNCHANGED <<cmd, dev, writes, withdrawn>>

\* The files of the running command.
InUse == IF cmd = Idle THEN {} ELSE {cmd.src, cmd.dst}

\* The operator removes a file that is in the way.
RemoveFile(p) ==
  /\ store[p] # Absent /\ p # current /\ p \notin InUse
  /\ store' = [store EXCEPT ![p] = Absent]
  /\ UNCHANGED <<serving, current, cmd, dev, writes, withdrawn>>

StopServer ==
  /\ serving # Stopped /\ serving' = Stopped
  /\ UNCHANGED <<store, current, cmd, dev, writes, withdrawn>>

RecoveryNext ==
  \/ \E d \in Device : Sync(d) \/ Push(d) \/ SelectVault(d)
  \/ \E g \in Grant : Withdraw(g) \/ Enable(g)
  \/ \E kind \in {"backup", "restore", "recover", "migrate"}, src, dst \in Path :
       Begin(kind, src, dst)
  \/ Copy \/ Upgrade \/ LockDown \/ Finish \/ Fail \/ KillCommand \/ StopServer
  \/ \E v \in VaultId : Rotate(v)
  \/ \E p \in Path : Start(p) \/ RemoveFile(p)

RecoverySpec == RecoveryInit /\ [][RecoveryNext]_recoveryVars

-----------------------------------------------------------------------------
DbRecords ==
  [version : 0..Current, id : VaultId, revs : Seq(Nat), retired : SUBSET VaultId,
   grants : SUBSET Grant, owes : BOOLEAN, done : BOOLEAN,
   made : {"server", "backup", "restore", "recover", "migrate"}]

Commands ==
  [kind : {"backup", "restore", "recover", "migrate"}, src : Path, dst : Path,
   steps : Seq({"copy", "upgrade", "rotate", "lockdown", "finish"})]

RecoveryTypeOK ==
  /\ store \in [Path -> {Absent, Partial} \cup DbRecords]
  /\ current \in Path /\ HasDatabase(current) /\ serving \in {current, Stopped}
  /\ cmd \in {Idle} \cup Commands
  /\ cmd # Idle => HasDatabase(cmd.src) /\ store[cmd.dst] # Absent /\ cmd.dst # current
  /\ dev \in [Device -> [id : VaultId, cursor : Nat, has : SUBSET Nat]]
  /\ writes \in Nat /\ withdrawn \subseteq Grant

\* A device that the server accepts has every revision up to its cursor: neither a
\* restore of an older copy nor a migration lets it resume in another history.
NoSilentGap ==
  serving # Stopped =>
    \A d \in Device : InitAnswer(d) = "ok" =>
      \A i \in 1..dev[d].cursor : Db.revs[i] \in dev[d].has

\* recover_stale_backup: no account, membership, session or setting that was
\* withdrawn after the copy was made comes back with it.
NothingResurrected ==
  serving # Stopped => Db.grants \cap withdrawn = {}

\* docs/production.md: "only a valid session for the retired vault's owner receives
\* `Vault not found`", while arbitrary identifiers get the generic error.
NotFoundOnlyForRetired ==
  serving # Stopped =>
    \A d \in Device : InitAnswer(d) = "Vault not found" => dev[d].id \in Db.retired

\* docs/production.md: a migrated file may be used once `verify` succeeds on it, so
\* a file that verifies went through all the steps of its migration.
VerifiedMeansFinished ==
  \A p \in Path : Verifies(p) /\ p \notin InUse => ~store[p].owes
=============================================================================
