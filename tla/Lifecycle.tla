------------------------------ MODULE Lifecycle -------------------------------
(***************************************************************************)
(* Processes of blackglass-server on shared state: servers from start to   *)
(* shutdown (run, server.rs), the offline commands that rewrite a database *)
(* under its lock (rebind_data_host, purge_deleted_history, db.rs) and the *)
(* backup streamed beside a running server (main.rs).  Any process may be  *)
(* killed at any step; its locks go with it, its files stay.               *)
(***************************************************************************)
EXTENDS Naturals

CONSTANTS
  Proc,       \* process ids, used again after an exit
  Roles,      \* what each process may be run as
  Database,   \* the database each is configured with
  Staging,    \* the staging directory each is configured with
  Host,       \* data hosts a configuration may name
  Listener,   \* control, data and, where it is configured, admin
  Conn,       \* WebSocket connections of one server
  Nonce,      \* names one process may give a streamed backup
  MaxRows,    \* bound: stored revisions of a database
  None

Databases   == {Database[p] : p \in Proc}
Directories == {Staging[p] : p \in Proc}

ASSUME LifecycleAssumption ==
  /\ Roles \in [Proc -> SUBSET {"serve", "rebind", "purge", "stream"}]
  /\ Databases \cap Directories = {} /\ None \notin Proc
  /\ {"control", "data"} \subseteq Listener /\ Listener \subseteq {"control", "data", "admin"}
  /\ Nonce \subseteq Nat /\ MaxRows \in Nat

VARIABLES
  proc,    \* what each process is doing
  lock,    \* holder of each path's lock file
  dir,     \* each staging directory: absent, unmarked, torn (marker not written), marked
  files,   \* staged uploads: directory, process, connection
  hosts,   \* data hosts of the vaults of each database
  rows,    \* stored revisions of each database
  temps    \* streamed backups on disk: process id, nonce

vars == <<proc, lock, dir, files, hosts, rows, temps>>

Off ==
  [stage |-> "off", host |-> None, shutdown |-> FALSE, listeners |-> {}, held |-> {},
   conns |-> [c \in Conn |-> "none"], known |-> 0, nonce |-> None]

Init ==
  /\ proc = [p \in Proc |-> Off]
  /\ lock = [x \in Databases \cup Directories |-> None]
  /\ dir = [d \in Directories |-> "absent"] /\ files = {}
  /\ hosts \in [Databases -> {{}} \cup {{h} : h \in Host}]
  /\ rows = [d \in Databases |-> 0] /\ temps = {}

Stage(p) == proc[p].stage
To(p, stage) == proc' = [proc EXCEPT ![p].stage = stage]

\* acquire_path_lock
Locks(p, path) == lock[path] = None /\ lock' = [lock EXCEPT ![path] = p]

\* A process ends, by itself or killed.
Exit(p) ==
  /\ proc' = [proc EXCEPT ![p] = Off]
  /\ lock' = [x \in DOMAIN lock |-> IF lock[x] = p THEN None ELSE lock[x]]

-----------------------------------------------------------------------------
(* A server, from its start to its first connection.                       *)

StartServer(p, h) ==
  /\ Stage(p) = "off" /\ "serve" \in Roles[p]
  /\ Locks(p, Database[p])
  /\ proc' = [proc EXCEPT ![p] = [Off EXCEPT !.stage = "locked", !.host = h]]
  /\ UNCHANGED <<dir, files, hosts, rows, temps>>

\* Faulty: the staging directory is not locked.
LockStaging_None(p) ==
  /\ Stage(p) = "locked" /\ To(p, "prepare")
  /\ UNCHANGED <<lock, dir, files, hosts, rows, temps>>

LockStaging(p) ==
  /\ Stage(p) = "locked"
  /\ IF lock[Staging[p]] = None THEN Locks(p, Staging[p]) /\ To(p, "prepare") ELSE Exit(p)
  /\ UNCHANGED <<dir, files, hosts, rows, temps>>

\* prepare_staging up to the marker: the directory is created, the marker is found,
\* found invalid, or created.
PrepareStaging(p) ==
  /\ Stage(p) = "prepare"
  /\ CASE dir[Staging[p]] = "absent"   -> /\ dir' = [dir EXCEPT ![Staging[p]] = "unmarked"]
                                          /\ UNCHANGED <<proc, lock>>
       [] dir[Staging[p]] = "unmarked" -> /\ dir' = [dir EXCEPT ![Staging[p]] = "torn"]
                                          /\ To(p, "mark") /\ UNCHANGED lock
       [] dir[Staging[p]] = "torn"     -> Exit(p) /\ UNCHANGED dir
       [] dir[Staging[p]] = "marked"   -> To(p, "cleanup") /\ UNCHANGED <<lock, dir>>
  /\ UNCHANGED <<files, hosts, rows, temps>>

\* The marker's content is written and synced.
WriteMarker(p) ==
  /\ Stage(p) = "mark" /\ dir' = [dir EXCEPT ![Staging[p]] = "marked"] /\ To(p, "cleanup")
  /\ UNCHANGED <<lock, files, hosts, rows, temps>>

\* cleanup_staging
Cleaned(p) == {f \in files : f.dir # Staging[p]}

CleanupStaging(p) ==
  /\ Stage(p) = "cleanup" /\ files' = Cleaned(p) /\ To(p, "open")
  /\ UNCHANGED <<lock, dir, hosts, rows, temps>>

\* Db::open_existing counts what is stored; vaults of another host stop the server;
\* the listeners are bound.
Open(p) ==
  /\ Stage(p) = "open"
  /\ IF hosts[Database[p]] \subseteq {proc[p].host}
     THEN /\ proc' = [proc EXCEPT ![p].stage = "serving", ![p].listeners = Listener,
                                  ![p].known = rows[Database[p]]]
          /\ UNCHANGED lock
     ELSE Exit(p)
  /\ UNCHANGED <<dir, files, hosts, rows, temps>>

-----------------------------------------------------------------------------
(* What a server does while it runs.                                       *)

Set(p, c, state) == proc' = [proc EXCEPT ![p].conns[c] = state]
File(p, c) == [dir |-> Staging[p], proc |-> p, conn |-> c]

\* upgrade; a request that was accepted before shutdown may still get its socket.
Connect(p, c) ==
  /\ "data" \in proc[p].listeners /\ proc[p].conns[c] = "none" /\ Set(p, c, "open")
  /\ UNCHANGED <<lock, dir, files, hosts, rows, temps>>

\* push stages a file with a new name.
BeginUpload(p, c) ==
  /\ proc[p].conns[c] = "open" /\ ~proc[p].shutdown /\ File(p, c) \notin files
  /\ Set(p, c, "uploading") /\ files' = files \cup {File(p, c)}
  /\ UNCHANGED <<lock, dir, hosts, rows, temps>>

\* upload_chunk commits the revision, which the temporary trigger of this server's
\* connection counts, and removes the file.
CommitUpload(p, c) ==
  /\ proc[p].conns[c] = "uploading" /\ rows[Database[p]] < MaxRows
  /\ proc' = [proc EXCEPT ![p].conns[c] = "open", ![p].known = @ + 1]
  /\ rows' = [rows EXCEPT ![Database[p]] = @ + 1] /\ files' = files \ {File(p, c)}
  /\ UNCHANGED <<lock, dir, hosts, temps>>

\* The connection ends, at shutdown or before, and discards its upload.
Disconnect(p, c) ==
  /\ proc[p].conns[c] # "none" /\ Set(p, c, "none") /\ files' = files \ {File(p, c)}
  /\ UNCHANGED <<lock, dir, hosts, rows, temps>>

\* create_vault gives the vault the configured host.
CreateVault(p) ==
  /\ "control" \in proc[p].listeners
  /\ hosts' = [hosts EXCEPT ![Database[p]] = @ \cup {proc[p].host}]
  /\ UNCHANGED <<proc, lock, dir, files, rows, temps>>

-----------------------------------------------------------------------------
(* supervise_listeners and the end of run.                                 *)

\* shutdown_tx.send(true): the listeners that are left accept nothing more and wait for
\* the requests they have.  Some clients may not finish theirs: the head of a request
\* and the body of one to the admin listener have no deadline.
Shutdown(p, left) ==
  \E held \in SUBSET left :
    proc' = [proc EXCEPT ![p].shutdown = TRUE, ![p].listeners = left, ![p].held = held]

\* A signal.
Signal(p) ==
  /\ Stage(p) = "serving" /\ ~proc[p].shutdown /\ Shutdown(p, proc[p].listeners)
  /\ UNCHANGED <<lock, dir, files, hosts, rows, temps>>

\* Faulty: the other listeners are not told.
ListenerFails_Alone(p, l) ==
  /\ l \in proc[p].listeners /\ ~proc[p].shutdown
  /\ proc' = [proc EXCEPT ![p].listeners = @ \ {l}]
  /\ UNCHANGED <<lock, dir, files, hosts, rows, temps>>

\* A listener exits unexpectedly.
ListenerFails(p, l) ==
  /\ l \in proc[p].listeners /\ ~proc[p].shutdown /\ Shutdown(p, proc[p].listeners \ {l})
  /\ UNCHANGED <<lock, dir, files, hosts, rows, temps>>

\* The last client that held a listener back finishes its request or goes away.
ClientFinishes(p, l) ==
  /\ Stage(p) = "serving" /\ l \in proc[p].held /\ proc' = [proc EXCEPT ![p].held = @ \ {l}]
  /\ UNCHANGED <<lock, dir, files, hosts, rows, temps>>

\* with_graceful_shutdown: a listener ends once its requests have.  Those that no client
\* holds have deadlines.
ListenerStops(p, l) ==
  /\ l \in proc[p].listeners /\ proc[p].shutdown /\ l \notin proc[p].held
  /\ proc' = [proc EXCEPT ![p].listeners = @ \ {l}]
  /\ UNCHANGED <<lock, dir, files, hosts, rows, temps>>

Connected(p) == \E c \in Conn : proc[p].conns[c] # "none"

\* wait_for_connection_drain succeeds.
Drain(p) ==
  /\ Stage(p) = "serving" /\ proc[p].shutdown /\ proc[p].listeners = {} /\ ~Connected(p)
  /\ To(p, "drained")
  /\ UNCHANGED <<lock, dir, files, hosts, rows, temps>>

\* It times out: nothing is checkpointed or cleaned.
DrainTimeout(p) ==
  /\ Stage(p) = "serving" /\ proc[p].shutdown /\ proc[p].listeners = {} /\ Connected(p)
  /\ Exit(p)
  /\ UNCHANGED <<dir, files, hosts, rows, temps>>

\* The checkpoint, then cleanup_staging.
CleanupAfterDrain(p) ==
  /\ Stage(p) = "drained" /\ files' = Cleaned(p) /\ To(p, "stopped")
  /\ UNCHANGED <<lock, dir, hosts, rows, temps>>

Stop(p) ==
  /\ Stage(p) = "stopped" /\ Exit(p)
  /\ UNCHANGED <<dir, files, hosts, rows, temps>>

-----------------------------------------------------------------------------
(* Offline commands: lock, back up, then one transaction.                  *)

\* Faulty: purge does not lock the database.
StartCommand_PurgeUnlocked(p, role, h) ==
  /\ Stage(p) = "off" /\ role \in Roles[p] \cap {"rebind", "purge"}
  /\ IF role = "purge" THEN UNCHANGED lock ELSE Locks(p, Database[p])
  /\ proc' = [proc EXCEPT ![p] = [Off EXCEPT !.stage = role, !.host = h]]
  /\ UNCHANGED <<dir, files, hosts, rows, temps>>

\* Faulty: a rebind does not lock the database.
StartCommand_RebindUnlocked(p, role, h) ==
  /\ Stage(p) = "off" /\ role \in Roles[p] \cap {"rebind", "purge"}
  /\ IF role = "rebind" THEN UNCHANGED lock ELSE Locks(p, Database[p])
  /\ proc' = [proc EXCEPT ![p] = [Off EXCEPT !.stage = role, !.host = h]]
  /\ UNCHANGED <<dir, files, hosts, rows, temps>>

StartCommand(p, role, h) ==
  /\ Stage(p) = "off" /\ role \in Roles[p] \cap {"rebind", "purge"}
  /\ Locks(p, Database[p])
  /\ proc' = [proc EXCEPT ![p] = [Off EXCEPT !.stage = role, !.host = h]]
  /\ UNCHANGED <<dir, files, hosts, rows, temps>>

\* rebind_data_host
Rebind(p) ==
  /\ Stage(p) = "rebind" /\ Exit(p)
  /\ hosts' = [hosts EXCEPT ![Database[p]] = IF @ = {} THEN {} ELSE {proc[p].host}]
  /\ UNCHANGED <<dir, files, rows, temps>>

\* purge_deleted_history removes the earlier revisions of deleted paths.
Purge(p) ==
  /\ Stage(p) = "purge" /\ Exit(p)
  /\ \E n \in 0..rows[Database[p]] : rows' = [rows EXCEPT ![Database[p]] = n]
  /\ UNCHANGED <<dir, files, hosts, temps>>

-----------------------------------------------------------------------------
(* backup-stdout, beside a running server and beside others of its kind.   *)

Alive(p) == Stage(p) # "off"

\* Faulty: every streamed backup found is taken for stale.
Stale_All(t) == TRUE

\* cleanup_stale_streamed_backups, streamed_backup_owner_pid: whose process is gone.
Stale(t) == ~Alive(t[1])

StartStream(p) ==
  /\ Stage(p) = "off" /\ "stream" \in Roles[p] /\ To(p, "clean")
  /\ UNCHANGED <<lock, dir, files, hosts, rows, temps>>

CleanStreams(p) ==
  /\ Stage(p) = "clean" /\ To(p, "allocate") /\ temps' = {t \in temps : ~Stale(t)}
  /\ UNCHANGED <<lock, dir, files, hosts, rows>>

\* The first free name, and the backup under it; none is left when earlier processes
\* of the same id left them all behind.
AllocateStream(p) ==
  /\ Stage(p) = "allocate"
  /\ \/ (\A n \in Nonce : <<p, n>> \in temps) /\ Exit(p) /\ UNCHANGED temps
     \/ \E n \in Nonce :
          /\ <<p, n>> \notin temps /\ \A m \in Nonce : m < n => <<p, m>> \in temps
          /\ proc' = [proc EXCEPT ![p].stage = "stream", ![p].nonce = n]
          /\ temps' = temps \cup {<<p, n>>} /\ UNCHANGED lock
  /\ UNCHANGED <<dir, files, hosts, rows>>

EndStream(p) ==
  /\ Stage(p) = "stream" /\ temps' = temps \ {<<p, proc[p].nonce>>} /\ Exit(p)
  /\ UNCHANGED <<dir, files, hosts, rows>>

Kill(p) ==
  /\ Alive(p) /\ Exit(p) /\ UNCHANGED <<dir, files, hosts, rows, temps>>

-----------------------------------------------------------------------------
Starting(p) == LockStaging(p) \/ PrepareStaging(p) \/ WriteMarker(p) \/ CleanupStaging(p) \/ Open(p)
Serving(p) ==
  \/ CreateVault(p) \/ Signal(p)
  \/ \E c \in Conn : Connect(p, c) \/ BeginUpload(p, c) \/ CommitUpload(p, c) \/ Disconnect(p, c)
  \/ \E l \in Listener : ListenerFails(p, l) \/ ClientFinishes(p, l)
Stopping(p) ==
  \/ \E l \in Listener : ListenerStops(p, l)
  \/ Drain(p) \/ DrainTimeout(p) \/ CleanupAfterDrain(p) \/ Stop(p)
Streaming(p) == StartStream(p) \/ CleanStreams(p) \/ AllocateStream(p) \/ EndStream(p)
Command(p) == Rebind(p) \/ Purge(p)

Next ==
  \E p \in Proc :
    \/ Starting(p) \/ Serving(p) \/ Stopping(p) \/ Streaming(p) \/ Command(p) \/ Kill(p)
    \/ \E h \in Host : StartServer(p, h) \/ StartCommand(p, "rebind", h) \/ StartCommand(p, "purge", h)

Spec == Init /\ [][Next]_vars

\* The supervisor and the listeners are scheduled, and the drain has a deadline.  Nothing
\* is assumed of clients.
FairSpec == Spec /\ \A p \in Proc : WF_vars(Stopping(p))

-----------------------------------------------------------------------------
TypeOK ==
  /\ lock \in [Databases \cup Directories -> Proc \cup {None}]
  /\ \A x \in DOMAIN lock : lock[x] # None => Alive(lock[x])
  /\ dir \in [Directories -> {"absent", "unmarked", "torn", "marked"}]
  /\ files \subseteq [dir : Directories, proc : Proc, conn : Conn]
  /\ hosts \in [Databases -> SUBSET Host] /\ rows \in [Databases -> 0..MaxRows]
  /\ temps \subseteq Proc \X Nonce

\* run: no cleanup of staging, at a start or after a drain, of this server or of
\* another that shares the directory, removes the file of an upload in progress.
StagedKept ==
  \A p \in Proc, c \in Conn : proc[p].conns[c] = "uploading" => File(p, c) \in files

\* initialize_runtime_storage_usage: the count a server keeps for its quota is what is
\* stored, although only rows written through its own connection are counted: nothing
\* else writes revisions while it runs.
CountExact ==
  \A p \in Proc : Stage(p) = "serving" => proc[p].known = rows[Database[p]]

\* run, rebind_data_host: no server serves a vault whose host is not its own, so no
\* client is sent to another deployment.
HostsMatch ==
  \A p \in Proc : Stage(p) = "serving" => hosts[Database[p]] \subseteq {proc[p].host}

\* stream_verified_backup: the file being streamed is not removed by another stream's
\* cleanup, nor shared with it, although process ids come back.
StreamKept ==
  \A p \in Proc : Stage(p) = "stream" => <<p, proc[p].nonce>> \in temps

Ending(p) == proc[p].shutdown \/ (Stage(p) = "serving" /\ proc[p].listeners # Listener)

\* run: a server that was told to stop, or lost a listener, ends once no client holds back
\* a request, whatever its WebSocket connections do.
ShutdownEnds ==
  \A p \in Proc : Ending(p) /\ proc[p].held = {} ~> Stage(p) = "off"

\* "startup cleanup" after crashes: a staging directory that only servers have written
\* to is not refused by the next start.
StartupAccepts ==
  \A p \in Proc : Stage(p) = "prepare" => dir[Staging[p]] # "torn"
=============================================================================
