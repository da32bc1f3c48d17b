------------------------------ MODULE Admission -------------------------------
(***************************************************************************)
(* Bounded resources of the server (apps/server-rust/src/server.rs): the   *)
(* semaphores and the commit_order mutex, the order in which each handler  *)
(* takes them, what it gives up on a deadline or at shutdown, and what is  *)
(* released when its client goes.  All of them queue first come, first     *)
(* served; a password check waits for several permits at once, and whoever *)
(* comes after it waits behind it.                                         *)
(***************************************************************************)
EXTENDS Naturals, Sequences, FiniteSets, FiniteSetsExt

CONSTANTS
  Client,    \* connections and control requests
  Kinds,     \* the handlers each may run
  Capacity,  \* permits of each resource
  Argon2     \* ARGON2_MEMORY_PERMITS

Resource == {"reader", "control", "waiter", "check", "bulk", "pull", "large", "order", "worker"}
Kind == {"signin", "register", "rename", "pull", "upload", "history", "deleted", "init"}
Detached == {"task", "hash"}   \* blocking work whose request is gone

ASSUME AdmissionAssumption ==
  /\ IsFiniteSet(Client) /\ Kinds \in [Client -> SUBSET Kind]
  /\ Capacity \in [Resource -> Nat \ {0}]
  /\ Capacity["check"] = 1   \* MAX_CONCURRENT_PASSWORD_CHECKS
  /\ Argon2 \in 1..(Capacity["bulk"] - 1)

VARIABLES
  job,      \* what each request runs, and its next step
  queue,    \* who waits for each resource, in order
  shutdown

admissionVars == <<job, queue, shutdown>>

NoJob == [kind |-> "idle", step |-> 0]

-----------------------------------------------------------------------------
(* The steps of the handlers.  An acquisition fails at once ("try"), waits *)
(* ("wait"), waits until a deadline ("timed") or until shutdown ("until"). *)

Acquire(op, res, n) == <<[op |-> op, res |-> {res}, n |-> n]>>
Free(res)           == <<[op |-> "free", res |-> res, n |-> 0]>>

\* db_task, spawn_db_task; database work done one after another with nothing held in
\* between is one of them
DbTask == Acquire("timed", "worker", 1) \o Free({"worker"})

\* control_admission around a control request
Control(steps) ==
  Acquire("try", "reader", 1) \o Free({"reader"}) \o Acquire("try", "control", 1)
    \o steps \o Free({"control"})

\* Faulty: the hash takes all the memory.
Password_All(work) ==
  Acquire("try", "waiter", 1) \o Acquire("timed", "check", 1) \o Free({"waiter"})
    \o Acquire("timed", "bulk", Capacity["bulk"]) \o work \o Free({"check", "bulk"})

\* The admission that sign-in and registration share; the hash runs on a
\* blocking thread that owns both permits.
Password(work) ==
  Acquire("try", "waiter", 1) \o Acquire("timed", "check", 1) \o Free({"waiter"})
    \o Acquire("timed", "bulk", Argon2) \o work \o Free({"check", "bulk"})

\* authenticate_credentials, issue_user_session
Signin == Control(Password(DbTask) \o DbTask)

\* register_account
Register == Control(DbTask \o Password(<<>>) \o DbTask)

\* rename_vault, and the other mutations within commit_order
Rename == Control(DbTask \o Acquire("wait", "order", 1) \o DbTask \o Free({"order"}))

\* pull, one piece: the session, the permits, the content, then the session before and after the send
Pull ==
  DbTask \o Acquire("until", "pull", 1) \o Acquire("until", "bulk", 1)
    \o DbTask \o DbTask \o DbTask \o Free({"pull", "bulk"})

\* upload_chunk, the last piece
Upload ==
  Acquire("until", "bulk", 1) \o Free({"bulk"})
    \o Acquire("wait", "order", 1) \o DbTask \o Free({"order"})

\* history: the page, then the session before the send
History ==
  Acquire("wait", "large", 1) \o Acquire("until", "bulk", 1)
    \o DbTask \o DbTask \o Free({"large", "bulk"})

\* deleted: the pages within commit_order, then the session before the send
Deleted ==
  Acquire("wait", "large", 1) \o Acquire("until", "bulk", 1) \o Acquire("wait", "order", 1)
    \o DbTask \o Free({"order"}) \o DbTask \o Free({"large", "bulk"})

\* init: the boundary within commit_order, then a page and one item of the replay
InitReplay ==
  Acquire("wait", "order", 1) \o DbTask \o Free({"order"}) \o DbTask
    \o Acquire("until", "bulk", 1) \o Free({"bulk"})

Steps ==
  [signin |-> Signin, register |-> Register, rename |-> Rename, pull |-> Pull,
   upload |-> Upload, history |-> History, deleted |-> Deleted, init |-> InitReplay,
   task |-> DbTask,
   hash |-> Acquire("wait", "check", 1) \o Acquire("wait", "bulk", Argon2) \o Free({"check", "bulk"})]

-----------------------------------------------------------------------------
Busy(r) == job[r] # NoJob
Now(r)  == Steps[job[r].kind][job[r].step]

\* The permits of res held before step i of a handler: what its last step on res left.
Holding(steps, i, res) ==
  LET mine == {j \in 1..(i - 1) : res \in steps[j].res}
  IN  IF mine = {} THEN 0 ELSE steps[Max(mine)].n

Holdings ==
  [kind \in DOMAIN Steps |->
     [i \in DOMAIN Steps[kind] |-> [res \in Resource |-> Holding(Steps[kind], i, res)]]]

\* The permits of res that r holds.
Held(r, res) == IF Busy(r) THEN Holdings[job[r].kind][job[r].step][res] ELSE 0

\* The permits of res that are out.
Taken(res) == UNION {{r} \X (1..Held(r, res)) : r \in Client}

Available(res) == Capacity[res] - Cardinality(Taken(res))
Waiting(r)     == Busy(r) /\ \E res \in Now(r).res : r \in Range(queue[res])

AdmissionInit ==
  job = [r \in Client |-> NoJob] /\ queue = [res \in Resource |-> <<>>] /\ shutdown = FALSE

Advance(r) ==
  job' = [job EXCEPT ![r] = IF @.step = Len(Steps[@.kind]) THEN NoJob
                            ELSE [kind |-> @.kind, step |-> @.step + 1]]

\* A request arrives; sockets are not served any more after shutdown.
Start(r, kind) ==
  /\ ~Busy(r) /\ ~shutdown
  /\ job' = [job EXCEPT ![r] = [kind |-> kind, step |-> 1]] /\ UNCHANGED <<queue, shutdown>>

\* Permits return: the end of a scope, of a send or of a blocking task.
Release(r) ==
  /\ Busy(r) /\ Now(r).op = "free" /\ Advance(r) /\ UNCHANGED <<queue, shutdown>>

\* An acquisition finds permits and nobody before it, fails, or joins the queue.
Request(r) ==
  /\ Busy(r) /\ Now(r).op # "free" /\ ~Waiting(r)
  /\ LET res == CHOOSE x \in Now(r).res : TRUE IN
       IF queue[res] = <<>> /\ Available(res) >= Now(r).n
       THEN Advance(r) /\ UNCHANGED queue
       ELSE IF Now(r).op = "try"
       THEN job' = [job EXCEPT ![r] = NoJob] /\ UNCHANGED queue
       ELSE queue' = [queue EXCEPT ![res] = Append(@, r)] /\ UNCHANGED job
  /\ UNCHANGED shutdown

\* The queue q without r.
Without(q, r) ==
  IF r \notin Range(q) THEN q
  ELSE LET i == CHOOSE i \in DOMAIN q : q[i] = r
       IN  SubSeq(q, 1, i - 1) \o SubSeq(q, i + 1, Len(q))

\* Faulty: any waiter whose demand can be met is served.
Grant_Unfair(r) ==
  /\ Waiting(r)
  /\ LET res == CHOOSE x \in Now(r).res : TRUE IN
       /\ Available(res) >= Now(r).n
       /\ queue' = [queue EXCEPT ![res] = Without(@, r)]
  /\ Advance(r) /\ UNCHANGED shutdown

\* The head of a queue gets what it asked for.
Grant(r) ==
  /\ Waiting(r)
  /\ LET res == CHOOSE x \in Now(r).res : TRUE IN
       /\ Head(queue[res]) = r /\ Available(res) >= Now(r).n
       /\ queue' = [queue EXCEPT ![res] = Tail(@)]
  /\ Advance(r) /\ UNCHANGED shutdown

Abandon(r) ==
  /\ job' = [job EXCEPT ![r] = NoJob]
  /\ queue' = [res \in Resource |-> Without(queue[res], r)]
  /\ UNCHANGED shutdown

\* A deadline passes or shutdown is noticed.
GiveUp(r) ==
  /\ Waiting(r) /\ (Now(r).op = "timed" \/ (Now(r).op = "until" /\ shutdown))
  /\ Abandon(r)

\* The client goes and the future is dropped with its permits, but for those that
\* moved into a blocking task.
Drop(r) ==
  /\ Busy(r) /\ job[r].kind \notin Detached
  /\ IF Now(r).op = "free" /\ "worker" \in Now(r).res
     THEN job' = [job EXCEPT ![r] = [kind |-> "task", step |-> 2]] /\ UNCHANGED <<queue, shutdown>>
     ELSE IF Now(r).op = "free" /\ "check" \in Now(r).res
     THEN job' = [job EXCEPT ![r] = [kind |-> "hash", step |-> 3]] /\ UNCHANGED <<queue, shutdown>>
     ELSE Abandon(r)

Shutdown == ~shutdown /\ shutdown' = TRUE /\ UNCHANGED <<job, queue>>

\* The next process, once this one has drained.
Restart ==
  /\ shutdown /\ \A r \in Client : ~Busy(r)
  /\ shutdown' = FALSE /\ UNCHANGED <<job, queue>>

Step(r) == Release(r) \/ Request(r) \/ Grant(r)
AdmissionNext == \/ \E r \in Client : \/ Step(r) \/ GiveUp(r) \/ Drop(r)
                          \/ \E kind \in Kinds[r] : Start(r, kind)
        \/ Shutdown \/ Restart

AdmissionSpec == AdmissionInit /\ [][AdmissionNext]_admissionVars

\* The runtime polls every woken task.  A release always comes: sends, bodies and
\* the database worker have deadlines, a hash is finite work.
FairAdmissionSpec == AdmissionSpec /\ \A r \in Client : WF_admissionVars(Step(r))

-----------------------------------------------------------------------------
AdmissionTypeOK ==
  /\ \A r \in Client : Busy(r) => job[r].kind \in Kinds[r] \cup Detached /\ job[r].step \in DOMAIN Steps[job[r].kind]
  /\ queue \in [Resource -> Seq(Client)] /\ shutdown \in BOOLEAN
  /\ \A res \in Resource : Available(res) >= 0 /\ IsInjective(queue[res])

Passwords == {r \in Client : Busy(r) /\ job[r].kind \in {"signin", "register", "hash"}}

\* authenticate_credentials: "one authenticated Sync lane always remains live": a Sync
\* request that waits for memory waits behind other Sync requests that hold some,
\* never behind password checks alone, dropped ones that still hash included.
SyncLaneLive ==
  (\E r \in Client \ Passwords : r \in Range(queue["bulk"])) =>
    \/ \E r \in Client \ Passwords : Held(r, "bulk") # 0
    \/ Available("bulk") >= Now(Head(queue["bulk"])).n

\* Every request that began ends, however many others come and go: no two handlers
\* wait for each other and the queues starve nobody.
RequestsEnd == \A r \in Client : Busy(r) ~> ~Busy(r)
=============================================================================
