--------------------------- MODULE Operations_proofs ---------------------------
(***************************************************************************)
(* Theorems about what an operator does to the files of a server: about    *)
(* Recovery, for any devices, files, identities, grants and schema         *)
(* versions, and however often commands are killed; and about Lifecycle,   *)
(* for any number of processes, databases, staging directories and         *)
(* connections.  The two modules share no variable.                        *)
(***************************************************************************)
EXTENDS Recovery, Lifecycle, TLAPS

-----------------------------------------------------------------------------
(* Recovery.  The argument is about identities: a file that may replace    *)
(* the one in use has either the first identity and the same revisions, or *)
(* an identity that no device and no other such file has ever had.         *)

\* A database was never rotated, or remembers that it was.
Sound ==
  {db \in DbRecords :
     \/ db.id = First /\ db.retired = {}
     \/ db.id # First /\ First \in db.retired /\ db.version = Current}

\* What the running command has made of its copy db, by what is left to do.
Copied(kind, steps, db) ==
  \/ kind = "backup" /\ steps = <<"finish">>
  \/ kind = "restore" /\ steps = <<"rotate", "finish">> /\ db.version = Current
  \/ kind = "restore" /\ steps = <<"finish">> /\ db.id # First
  \/ kind = "recover" /\ steps = <<"rotate", "lockdown", "finish">> /\ db.version = Current
  \/ kind = "recover" /\ steps = <<"lockdown", "finish">> /\ db.id # First
       /\ db.grants \cap {"session", "member"} = {}
  \/ kind = "recover" /\ steps = <<"finish">> /\ db.id # First /\ db.grants = {}
  \/ kind = "migrate" /\ steps = <<"upgrade", "finish">> /\ db.version < Current /\ db.id = First
  \/ kind = "migrate" /\ steps = <<"upgrade", "rotate", "finish">> /\ db.version < Current
  \/ kind = "migrate" /\ steps = <<"rotate", "finish">> /\ db.version = Current
  \/ kind = "migrate" /\ steps = <<"finish">>

\* What it is about to do before the copy.
Uncopied(kind, steps, version) ==
  \/ kind = "backup" /\ steps = <<"copy", "finish">>
  \/ kind = "restore" /\ version = Current /\ steps = <<"copy", "rotate", "finish">>
  \/ kind = "recover" /\ version = Current /\ steps = <<"copy", "rotate", "lockdown", "finish">>
  \/ kind = "migrate" /\ version < Current
       /\ steps \in {<<"copy", "upgrade", "finish">>, <<"copy", "upgrade", "rotate", "finish">>}

Running ==
  cmd # Idle =>
    /\ cmd.src # cmd.dst
    /\ \/ store[cmd.dst] = Partial /\ Uncopied(cmd.kind, cmd.steps, store[cmd.src].version)
       \/ /\ store[cmd.dst] \in DbRecords /\ Copied(cmd.kind, cmd.steps, store[cmd.dst])
          /\ store[cmd.dst].made = cmd.kind /\ ~store[cmd.dst].done

\* Files that may come into use: their command has succeeded, or has given them
\* the identity they will have.
Candidate(p) ==
  /\ p # current /\ store[p] \in DbRecords /\ store[p].made \in {"restore", "recover", "migrate"}
  /\ store[p].done \/ (cmd # Idle /\ cmd.dst = p /\ Head(cmd.steps) \in {"lockdown", "finish"})

\* The identity of a candidate is the first one or is nobody else's.
NewIdentity ==
  \A p \in Path : Candidate(p) /\ store[p].id # First =>
    /\ store[p].id # store[current].id
    /\ \A d \in Device : dev[d].id # store[p].id
    /\ \A q \in Path : Candidate(q) /\ q # p => store[q].id # store[p].id

\* The first one only after a migration; a recovered candidate grants nothing.
Finished ==
  \A p \in Path : p # current /\ store[p] \in DbRecords /\ store[p].done =>
    /\ store[p].made \in {"restore", "recover"} => store[p].id # First
    /\ store[p].made = "recover" => store[p].grants = {}

\* Devices of the vault in use have what they skip.
NoGap ==
  \A d \in Device : dev[d].id = store[current].id =>
    /\ dev[d].cursor <= Len(store[current].revs)
    /\ \A i \in 1..dev[d].cursor : store[current].revs[i] \in dev[d].has

NothingBack == store[current].grants \cap withdrawn = {}

\* The inductive invariant.
RecoveryInv ==
  /\ RecoveryTypeOK /\ store \in [Path -> {Absent, Partial} \cup Sound]
  /\ Running /\ NewIdentity /\ Finished /\ NoGap /\ NothingBack

-----------------------------------------------------------------------------
(* Databases and commands.                                                 *)

\* A database is neither of the two other contents a path may have.
LEMMA IsDatabase == ASSUME NEW db \in DbRecords PROVE db # Absent /\ db # Partial
<1>1. Absent.made = "absent" /\ Partial.made = "partial"
  BY Zenon DEF Absent, Partial
<1>2. db.made # "absent" /\ db.made # "partial"
  BY SMT DEF DbRecords
<1> QED BY <1>1, <1>2, Zenon

\* Under RecoveryTypeOK, HasDatabase is membership in DbRecords.
LEMMA HoldsDatabase ==
  ASSUME RecoveryTypeOK, NEW p \in Path
  PROVE  HasDatabase(p) <=> store[p] \in DbRecords
BY IsDatabase, Zenon DEF RecoveryTypeOK, HasDatabase

\* These sets do not depend on the state.
LEMMA SameSets == DbRecords' = DbRecords /\ Commands' = Commands
BY Zenon DEF DbRecords, Commands

LEMMA IsCommand == ASSUME NEW c \in Commands PROVE c # Idle
<1>1. Idle.kind = "idle"
  BY Zenon DEF Idle
<1>2. c.kind # "idle"
  BY SMT DEF Commands
<1> QED BY <1>1, <1>2, Zenon

LEMMA Heads ==
  /\ Head(<<"finish">>) = "finish" /\ Head(<<"rotate", "finish">>) = "rotate"
  /\ Head(<<"rotate", "lockdown", "finish">>) = "rotate"
  /\ Head(<<"lockdown", "finish">>) = "lockdown"
  /\ Head(<<"upgrade", "finish">>) = "upgrade"
  /\ Head(<<"upgrade", "rotate", "finish">>) = "upgrade"
  /\ Head(<<"copy", "finish">>) = "copy" /\ Head(<<"copy", "rotate", "finish">>) = "copy"
  /\ Head(<<"copy", "rotate", "lockdown", "finish">>) = "copy"
  /\ Head(<<"copy", "upgrade", "finish">>) = "copy"
  /\ Head(<<"copy", "upgrade", "rotate", "finish">>) = "copy"
BY SMT

LEMMA Tails ==
  /\ Tail(<<"rotate", "finish">>) = <<"finish">>
  /\ Tail(<<"rotate", "lockdown", "finish">>) = <<"lockdown", "finish">>
  /\ Tail(<<"lockdown", "finish">>) = <<"finish">>
  /\ Tail(<<"upgrade", "finish">>) = <<"finish">>
  /\ Tail(<<"upgrade", "rotate", "finish">>) = <<"rotate", "finish">>
  /\ Tail(<<"copy", "finish">>) = <<"finish">>
  /\ Tail(<<"copy", "rotate", "finish">>) = <<"rotate", "finish">>
  /\ Tail(<<"copy", "rotate", "lockdown", "finish">>) = <<"rotate", "lockdown", "finish">>
  /\ Tail(<<"copy", "upgrade", "finish">>) = <<"upgrade", "finish">>
  /\ Tail(<<"copy", "upgrade", "rotate", "finish">>) = <<"upgrade", "rotate", "finish">>
BY SMT

\* What is left to do is a sequence of steps.
LEMMA StepsTyped ==
  ASSUME NEW kind, NEW steps, NEW version, NEW db,
         Uncopied(kind, steps, version) \/ Copied(kind, steps, db)
  PROVE  steps \in Seq({"copy", "upgrade", "rotate", "lockdown", "finish"})
<1> DEFINE S == Seq({"copy", "upgrade", "rotate", "lockdown", "finish"})
<1>1. /\ <<"finish">> \in S /\ <<"rotate", "finish">> \in S /\ <<"lockdown", "finish">> \in S
      /\ <<"rotate", "lockdown", "finish">> \in S /\ <<"upgrade", "finish">> \in S
      /\ <<"upgrade", "rotate", "finish">> \in S
  BY SMT
<1>2. /\ <<"copy", "finish">> \in S /\ <<"copy", "rotate", "finish">> \in S
      /\ <<"copy", "rotate", "lockdown", "finish">> \in S /\ <<"copy", "upgrade", "finish">> \in S
      /\ <<"copy", "upgrade", "rotate", "finish">> \in S
  BY SMT
<1> HIDE DEF S
<1>3. steps \in S
  BY <1>1, <1>2, Zenon DEF Uncopied, Copied
<1> QED BY <1>3 DEF S

\* What the invariant says of a running command.
LEMMA CommandOf ==
  ASSUME RecoveryInv, cmd # Idle
  PROVE  /\ cmd \in Commands /\ cmd.src \in Path /\ cmd.dst \in Path /\ cmd.src # cmd.dst
         /\ cmd.dst # current /\ store[cmd.src] \in DbRecords /\ store[cmd.src] \in Sound
         /\ \/ store[cmd.dst] = Partial /\ Uncopied(cmd.kind, cmd.steps, store[cmd.src].version)
            \/ /\ store[cmd.dst] \in Sound /\ store[cmd.dst] \in DbRecords
               /\ Copied(cmd.kind, cmd.steps, store[cmd.dst])
               /\ store[cmd.dst].made = cmd.kind /\ ~store[cmd.dst].done
<1>1. cmd \in Commands /\ HasDatabase(cmd.src) /\ cmd.dst # current
  BY Zenon DEF RecoveryInv, RecoveryTypeOK
<1>2. cmd.src \in Path /\ cmd.dst \in Path
  BY <1>1, SMT DEF Commands
<1>3. \A p \in Path : store[p] \in DbRecords => store[p] \in Sound
  BY IsDatabase, Zenon DEF RecoveryInv, RecoveryTypeOK
<1>4. store[cmd.src] \in DbRecords
  BY <1>1, <1>2, HoldsDatabase, Zenon DEF RecoveryInv
<1> QED BY <1>1, <1>2, <1>3, <1>4, Zenon DEF RecoveryInv, Running

\* A step that touches neither the command nor what it reads and writes.
LEMMA RunsOn ==
  ASSUME RecoveryInv, cmd' = cmd,
         cmd # Idle => /\ store'[cmd.dst] = store[cmd.dst]
                       /\ store'[cmd.src].version = store[cmd.src].version
  PROVE  Running'
<1>1. CASE cmd = Idle
  BY <1>1, Zenon DEF Running
<1>2. CASE cmd # Idle /\ store[cmd.dst] = Partial
             /\ Uncopied(cmd.kind, cmd.steps, store[cmd.src].version)
  <2>1. Uncopied(cmd.kind, cmd.steps, store[cmd.src].version)'
    BY <1>2, Zenon DEF Uncopied
  <2>2. store'[cmd.dst] = Partial /\ cmd.src # cmd.dst
    BY <1>2, CommandOf, Zenon
  <2> QED BY <2>1, <2>2, Zenon DEF Running
<1>3. CASE /\ cmd # Idle /\ store[cmd.dst] \in DbRecords
           /\ Copied(cmd.kind, cmd.steps, store[cmd.dst])
           /\ store[cmd.dst].made = cmd.kind /\ ~store[cmd.dst].done
  <2>1. Copied(cmd.kind, cmd.steps, store[cmd.dst])'
    BY <1>3, Zenon DEF Copied
  <2>2. (store[cmd.dst] \in DbRecords)'
    BY <1>3, Zenon DEF DbRecords
  <2>3. store'[cmd.dst].made = cmd.kind /\ ~store'[cmd.dst].done /\ cmd.src # cmd.dst
    BY <1>3, CommandOf, Zenon
  <2> QED BY <2>1, <2>2, <2>3, Zenon DEF Running
<1> QED BY <1>1, <1>2, <1>3, CommandOf, Zenon

\* The file in use.
LEMMA CurrentOf ==
  ASSUME RecoveryInv
  PROVE  current \in Path /\ store[current] \in Sound /\ store[current] \in DbRecords
<1>1. current \in Path /\ HasDatabase(current)
  BY Zenon DEF RecoveryInv, RecoveryTypeOK
<1> QED BY <1>1, Zenon DEF RecoveryInv, HasDatabase, Sound

LEMMA SoundOf ==
  ASSUME NEW db \in Sound
  PROVE  /\ db \in DbRecords /\ db # Absent /\ db # Partial
         /\ (db.id = First => db.retired = {}) /\ (db.id # First => First \in db.retired)
         /\ (db.version < Current => db.id = First)
<1>1. db \in DbRecords
  BY Zenon DEF Sound
<1>2. db.version < Current => db.version # Current
  <2>1. db.version \in 0..Current
    BY <1>1, SMT DEF DbRecords
  <2> QED BY <2>1, SMT DEF Current
<1> QED BY <1>1, <1>2, IsDatabase, Zenon DEF Sound

-----------------------------------------------------------------------------
(* What steps have in common.                                              *)

\* One path changes.
LEMMA OneFile ==
  ASSUME RecoveryInv, NEW x \in Path, NEW f \in {Absent, Partial} \cup Sound,
         store' = [store EXCEPT ![x] = f]
  PROVE  /\ store' \in [Path -> {Absent, Partial} \cup Sound]
         /\ store' \in [Path -> {Absent, Partial} \cup DbRecords]
         /\ store'[x] = f /\ \A p \in Path : p # x => store'[p] = store[p]
<1>1. f \in {Absent, Partial} \cup DbRecords
  BY SoundOf, Zenon
<1> QED BY <1>1, Zenon DEF RecoveryInv, RecoveryTypeOK

\* No step but a rotation gives a candidate an identity, and devices learn only
\* that of the file in use.
LEMMA KeepsNew ==
  ASSUME RecoveryInv, current' = current, store'[current].id = store[current].id,
         \A d \in Device : dev'[d].id \in {dev[d].id, store[current].id},
         \A p \in Path : Candidate(p)' /\ store'[p].id # First
                           => Candidate(p) /\ store'[p].id = store[p].id
  PROVE  NewIdentity'
<1> SUFFICES ASSUME NEW p \in Path, Candidate(p)', store'[p].id # First
             PROVE  /\ store'[p].id # store'[current].id
                    /\ \A d \in Device : dev'[d].id # store'[p].id
                    /\ \A q \in Path : Candidate(q)' /\ q # p => store'[q].id # store'[p].id
  BY Zenon DEF NewIdentity
<1>1. Candidate(p) /\ store'[p].id = store[p].id
  OBVIOUS
<1>2. /\ store[p].id # store[current].id
      /\ \A d \in Device : dev[d].id # store[p].id
      /\ \A q \in Path : Candidate(q) /\ q # p => store[q].id # store[p].id
  BY <1>1, Zenon DEF RecoveryInv, NewIdentity
<1>3. ASSUME NEW q \in Path, Candidate(q)', q # p, store'[q].id = store'[p].id
      PROVE  FALSE
  BY <1>1, <1>2, <1>3, Zenon
<1> QED BY <1>1, <1>2, <1>3, Zenon

\* The server changes the file in use, and devices follow.
LEMMA ServerStep ==
  ASSUME RecoveryInv, NEW db \in Sound, store' = [store EXCEPT ![current] = db],
         db.id = store[current].id, db.version = store[current].version,
         UNCHANGED <<serving, current, cmd>>,
         dev' \in [Device -> [id : VaultId, cursor : Nat, has : SUBSET Nat]],
         \A d \in Device : dev'[d].id \in {dev[d].id, store[current].id},
         writes' \in Nat, withdrawn' \subseteq Grant, NoGap', NothingBack'
  PROVE  RecoveryInv'
<1>1. current \in Path /\ store[current] \in DbRecords /\ db \in DbRecords
  BY CurrentOf, SoundOf, Zenon
<1>2. /\ store' \in [Path -> {Absent, Partial} \cup Sound]
      /\ store' \in [Path -> {Absent, Partial} \cup DbRecords]
      /\ store'[current] = db /\ \A p \in Path : p # current => store'[p] = store[p]
  BY <1>1, OneFile, Zenon
<1>3. cmd # Idle => /\ cmd.src \in Path /\ cmd.dst \in Path /\ cmd.dst # current
                    /\ store'[cmd.dst] = store[cmd.dst] /\ store'[cmd.src] \in DbRecords
                    /\ store'[cmd.src].version = store[cmd.src].version
  BY <1>1, <1>2, CommandOf, Zenon
<1>4. RecoveryTypeOK'
  BY <1>1, <1>2, <1>3, IsDatabase, SameSets, Zenon
  DEF RecoveryInv, RecoveryTypeOK, HasDatabase
<1>5. Running'
  BY <1>3, RunsOn, Zenon
<1>6. NewIdentity'
  <2>1. \A p \in Path : Candidate(p)' => Candidate(p) /\ store'[p].id = store[p].id
    BY <1>2, Zenon DEF Candidate, DbRecords
  <2> QED BY <1>2, <2>1, KeepsNew, Zenon
<1>7. Finished'
  BY <1>2, Zenon DEF RecoveryInv, Finished, DbRecords
<1>8. (store \in [Path -> {Absent, Partial} \cup Sound])'
  BY <1>2, Zenon DEF Sound, DbRecords
<1> QED BY <1>4, <1>5, <1>6, <1>7, <1>8, Zenon DEF RecoveryInv

\* A command or the operator changes another file.
LEMMA OtherFile ==
  ASSUME RecoveryInv, NEW x \in Path, x # current, NEW f \in {Absent, Partial} \cup Sound,
         store' = [store EXCEPT ![x] = f], UNCHANGED <<serving, current, dev, writes, withdrawn>>,
         cmd' \in {Idle} \cup Commands,
         cmd' # Idle => /\ store'[cmd'.src] \in DbRecords /\ store'[cmd'.dst] # Absent
                        /\ cmd'.dst # current,
         Running', NewIdentity',
         f \in DbRecords /\ f.done => /\ f.made \in {"restore", "recover"} => f.id # First
                                      /\ f.made = "recover" => f.grants = {}
  PROVE  RecoveryInv'
<1>1. /\ store' \in [Path -> {Absent, Partial} \cup Sound]
      /\ store' \in [Path -> {Absent, Partial} \cup DbRecords]
      /\ store'[x] = f /\ \A p \in Path : p # x => store'[p] = store[p]
  BY OneFile, Zenon
<1>2. current \in Path /\ store'[current] = store[current] /\ store[current] \in DbRecords
  BY <1>1, CurrentOf, Zenon
<1>3. RecoveryTypeOK'
  BY <1>1, <1>2, IsDatabase, SameSets, Zenon
  DEF RecoveryInv, RecoveryTypeOK, HasDatabase
<1>4. Finished'
  <2> SUFFICES ASSUME NEW p \in Path, p # current, store'[p] \in DbRecords, store'[p].done
               PROVE  /\ store'[p].made \in {"restore", "recover"} => store'[p].id # First
                      /\ store'[p].made = "recover" => store'[p].grants = {}
    BY Zenon DEF Finished, DbRecords
  <2>1. CASE p = x
    BY <1>1, <2>1, Zenon
  <2>2. CASE p # x
    BY <1>1, <2>2, Zenon DEF RecoveryInv, Finished
  <2> QED BY <2>1, <2>2
<1>5. NoGap' /\ NothingBack'
  BY <1>2, Zenon DEF RecoveryInv, NoGap, NothingBack
<1>6. (store \in [Path -> {Absent, Partial} \cup Sound])'
  BY <1>1, Zenon DEF Sound, DbRecords
<1> QED BY <1>3, <1>4, <1>5, <1>6, Zenon DEF RecoveryInv

-----------------------------------------------------------------------------
(* The server and its devices.                                             *)

\* A server runs on the file in use, and a device it accepts has that identity.
LEMMA Accepted ==
  ASSUME RecoveryInv, serving # Stopped
  PROVE  /\ serving = current /\ Db = store[current]
         /\ \A d \in Device : InitAnswer(d) = "ok" => dev[d].id = store[current].id
<1>1. serving = current
  BY Zenon DEF RecoveryInv, RecoveryTypeOK
<1>2. "Unable to authenticate" # "ok" /\ "Vault not found" # "ok"
  BY Zenon
<1> QED BY <1>1, <1>2, Zenon DEF Db, InitAnswer

\* Only dev changes.
LEMMA DeviceStep ==
  ASSUME RecoveryInv, UNCHANGED <<store, serving, current, cmd, writes, withdrawn>>,
         dev' \in [Device -> [id : VaultId, cursor : Nat, has : SUBSET Nat]],
         \A d \in Device : dev'[d].id \in {dev[d].id, store[current].id},
         \A d \in Device : dev'[d] # dev[d] =>
           /\ dev'[d].cursor <= Len(store[current].revs)
           /\ \A i \in 1..dev'[d].cursor : store[current].revs[i] \in dev'[d].has
  PROVE  RecoveryInv'
<1>1. current \in Path /\ store[current] \in Sound
  BY CurrentOf, Zenon
<1>2. store' = [store EXCEPT ![current] = store[current]]
  BY <1>1, Zenon DEF RecoveryInv, RecoveryTypeOK
<1>3. NoGap'
  BY Zenon DEF RecoveryInv, NoGap
<1>4. NothingBack' /\ writes' \in Nat /\ withdrawn' \subseteq Grant
  BY Zenon DEF RecoveryInv, RecoveryTypeOK, NothingBack
<1> QED BY <1>1, <1>2, <1>3, <1>4, ServerStep, Zenon

LEMMA SyncSafe == ASSUME RecoveryInv, NEW d \in Device, Sync(d) PROVE RecoveryInv'
<1> DEFINE revs == store[current].revs
           c == dev[d].cursor
           got == {revs[i] : i \in (c + 1)..Len(revs)}
           x == [dev[d] EXCEPT !.has = @ \cup got, !.cursor = Len(revs)]
<1>1. /\ UNCHANGED <<store, serving, current, cmd, writes, withdrawn>>
      /\ dev' = [dev EXCEPT ![d] = x] /\ dev[d].id = store[current].id
  <2>1. /\ serving # Stopped /\ InitAnswer(d) = "ok"
        /\ UNCHANGED <<store, serving, current, cmd, writes, withdrawn>>
    BY Zenon DEF Sync
  <2>2. Db = store[current] /\ dev[d].id = store[current].id
    BY <2>1, Accepted, Zenon
  <2> QED BY <2>1, <2>2, Zenon DEF Sync
<1>2. /\ revs \in Seq(Nat) /\ dev[d] \in [id : VaultId, cursor : Nat, has : SUBSET Nat]
      /\ c \in Nat /\ dev[d].has \subseteq Nat
  <2>1. store[current] \in DbRecords /\ dev[d] \in [id : VaultId, cursor : Nat, has : SUBSET Nat]
    BY CurrentOf, Zenon DEF RecoveryInv, RecoveryTypeOK
  <2> QED BY <2>1, SMT DEF DbRecords
<1>3. c <= Len(revs) /\ \A i \in 1..c : revs[i] \in dev[d].has
  BY <1>1, Zenon DEF RecoveryInv, NoGap
<1> HIDE DEF revs, c
<1>4. /\ got \subseteq Nat /\ Len(revs) \in Nat
      /\ \A i \in (c + 1)..Len(revs) : revs[i] \in got
  <2>1. Len(revs) \in Nat /\ \A i \in (c + 1)..Len(revs) : revs[i] \in Nat
    BY <1>2, SMT
  <2> QED BY <2>1, Zenon
<1> HIDE DEF got
<1>5. /\ x.id = dev[d].id /\ x.cursor = Len(revs) /\ x.has = dev[d].has \cup got
      /\ x \in [id : VaultId, cursor : Nat, has : SUBSET Nat]
  <2>1. dev[d].has \cup got \in SUBSET Nat
    BY <1>2, <1>4, Zenon
  <2>2. x \in [id : VaultId, cursor : Nat, has : SUBSET Nat]
    BY <1>2, <1>4, <2>1, Zenon
  <2>3. x.id = dev[d].id /\ x.cursor = Len(revs) /\ x.has = dev[d].has \cup got
    BY <1>2, SMT
  <2> QED BY <2>2, <2>3, Zenon
<1>6. \A i \in 1..Len(revs) : revs[i] \in dev[d].has \cup got
  <2> SUFFICES ASSUME NEW i \in 1..Len(revs) PROVE revs[i] \in dev[d].has \cup got
    BY Zenon
  <2>1. i \in 1..c \/ i \in (c + 1)..Len(revs)
    BY <1>2, <1>4
  <2> QED BY <1>3, <1>4, <2>1, Zenon
<1> HIDE DEF x
<1>7. Len(revs) <= Len(revs)
  BY <1>4
<1>8. /\ dev' \in [Device -> [id : VaultId, cursor : Nat, has : SUBSET Nat]] /\ dev'[d] = x
      /\ \A e \in Device : e # d => dev'[e] = dev[e]
  BY <1>1, <1>5, Zenon DEF RecoveryInv, RecoveryTypeOK
<1> QED BY <1>1, <1>5, <1>6, <1>7, <1>8, DeviceStep, Zenon DEF revs

LEMMA SelectSafe == ASSUME RecoveryInv, NEW d \in Device, SelectVault(d) PROVE RecoveryInv'
<1> DEFINE x == [dev[d] EXCEPT !.id = store[current].id, !.cursor = 0, !.has = {}]
<1>1. /\ UNCHANGED <<store, serving, current, cmd, writes, withdrawn>>
      /\ dev' = [dev EXCEPT ![d] = x]
  BY Accepted, Zenon DEF SelectVault
<1>2. store[current].revs \in Seq(Nat) /\ store[current].id \in VaultId
  BY CurrentOf, SMT DEF DbRecords
<1>3. /\ x.id = store[current].id /\ x.cursor = 0
      /\ x \in [id : VaultId, cursor : Nat, has : SUBSET Nat]
  <2>1. dev[d] \in [id : VaultId, cursor : Nat, has : SUBSET Nat]
    BY Zenon DEF RecoveryInv, RecoveryTypeOK
  <2>2. x \in [id : VaultId, cursor : Nat, has : SUBSET Nat]
    <3>1. 0 \in Nat
      BY SMT
    <3> QED BY <1>2, <2>1, <3>1, Zenon
  <2>3. x.id = store[current].id /\ x.cursor = 0
    BY <2>1, SMT
  <2> QED BY <2>2, <2>3, Zenon
<1>4. 0 <= Len(store[current].revs) /\ \A i \in 1..0 : FALSE
  BY <1>2
<1> HIDE DEF x
<1>5. /\ dev' \in [Device -> [id : VaultId, cursor : Nat, has : SUBSET Nat]] /\ dev'[d] = x
      /\ \A e \in Device : e # d => dev'[e] = dev[e]
  BY <1>1, <1>3, Zenon DEF RecoveryInv, RecoveryTypeOK
<1> QED BY <1>1, <1>3, <1>4, <1>5, DeviceStep, Zenon

LEMMA PushSafe == ASSUME RecoveryInv, NEW d \in Device, Push(d) PROVE RecoveryInv'
<1> DEFINE old == store[current]
           n == writes + 1
           db == [old EXCEPT !.revs = Append(@, n)]
           x == [dev[d] EXCEPT !.has = @ \cup {n}, !.cursor = @ + 1]
<1>1. /\ UNCHANGED <<serving, current, cmd, withdrawn>> /\ writes' = n
      /\ dev' = [dev EXCEPT ![d] = x] /\ store' = [store EXCEPT ![current] = db]
      /\ dev[d].id = old.id /\ dev[d].cursor = Len(old.revs)
  BY Accepted, Zenon DEF Push
<1>2. /\ old \in Sound /\ old \in DbRecords /\ writes \in Nat
      /\ dev[d] \in [id : VaultId, cursor : Nat, has : SUBSET Nat]
  BY CurrentOf, Zenon DEF RecoveryInv, RecoveryTypeOK
<1>3. n \in Nat /\ old.revs \in Seq(Nat) /\ dev[d].has \subseteq Nat /\ dev[d].cursor \in Nat
  BY <1>2, SMT DEF DbRecords
<1> HIDE DEF n
<1>4. /\ db.revs = Append(old.revs, n) /\ db.id = old.id /\ db.version = old.version
      /\ db.grants = old.grants /\ db.retired = old.retired /\ db \in DbRecords
  <2>1. Append(old.revs, n) \in Seq(Nat)
    BY <1>3, SMT
  <2>2. db \in DbRecords
    BY <1>2, <2>1, Zenon DEF DbRecords
  <2>3. /\ db.revs = Append(old.revs, n) /\ db.id = old.id /\ db.version = old.version
        /\ db.grants = old.grants /\ db.retired = old.retired
    BY <1>2, SMT DEF DbRecords
  <2> QED BY <2>2, <2>3, Zenon
<1>5. db \in Sound
  BY <1>2, <1>4, Zenon DEF Sound
<1>6. /\ x.id = dev[d].id /\ x.has = dev[d].has \cup {n} /\ x.cursor = dev[d].cursor + 1
      /\ x \in [id : VaultId, cursor : Nat, has : SUBSET Nat]
  <2>1. dev[d].has \cup {n} \in SUBSET Nat /\ dev[d].cursor + 1 \in Nat
    BY <1>3, SMT
  <2>2. x \in [id : VaultId, cursor : Nat, has : SUBSET Nat]
    BY <1>2, <2>1, Zenon
  <2>3. x.id = dev[d].id /\ x.has = dev[d].has \cup {n} /\ x.cursor = dev[d].cursor + 1
    BY <1>2, SMT
  <2> QED BY <2>2, <2>3, Zenon
<1>7. /\ Len(db.revs) = Len(old.revs) + 1 /\ Len(old.revs) \in Nat
      /\ db.revs[Len(old.revs) + 1] = n
      /\ \A i \in 1..Len(old.revs) : db.revs[i] = old.revs[i]
  <2> HIDE DEF db, old
  <2> QED BY <1>3, <1>4, SMT
<1> HIDE DEF db, x
<1>8. /\ dev' \in [Device -> [id : VaultId, cursor : Nat, has : SUBSET Nat]] /\ dev'[d] = x
      /\ (\A e \in Device : e # d => dev'[e] = dev[e]) /\ store'[current] = db
  BY <1>1, <1>6, CurrentOf, Zenon DEF RecoveryInv, RecoveryTypeOK
<1>9. ASSUME NEW e \in Device, dev'[e].id = db.id
      PROVE  /\ dev'[e].cursor <= Len(db.revs)
             /\ \A i \in 1..dev'[e].cursor : db.revs[i] \in dev'[e].has
  <2>0. dev[e] \in [id : VaultId, cursor : Nat, has : SUBSET Nat]
    BY Zenon DEF RecoveryInv, RecoveryTypeOK
  <2>1. dev[e].cursor \in Nat
    BY <2>0, SMT
  <2>2. dev[e].id = old.id
    BY <1>1, <1>4, <1>8, <1>9, Zenon
  <2>3. dev[e].cursor <= Len(old.revs) /\ \A i \in 1..dev[e].cursor : old.revs[i] \in dev[e].has
    BY <2>2, Zenon DEF RecoveryInv, NoGap
  <2> HIDE DEF old
  <2>4. CASE e # d
    <3>1. dev'[e] = dev[e]
      BY <1>8, <2>4, Zenon
    <3>2. \A i \in 1..dev[e].cursor : i \in 1..Len(old.revs)
      BY <1>7, <2>1, <2>3
    <3>3. dev[e].cursor <= Len(db.revs)
      BY <1>7, <2>1, <2>3
    <3> QED BY <1>7, <2>3, <3>1, <3>2, <3>3, Zenon
  <2>5. CASE e = d
    <3>1. /\ dev'[e].cursor = Len(db.revs) /\ dev'[e].has = dev[e].has \cup {n}
          /\ dev[e].cursor = Len(old.revs)
      BY <1>1, <1>6, <1>7, <1>8, <2>5, Zenon
    <3>2. ASSUME NEW i \in 1..Len(db.revs) PROVE db.revs[i] \in dev[e].has \cup {n}
      <4>1. i \in 1..Len(old.revs) \/ i = Len(old.revs) + 1
        BY <1>7
      <4> QED BY <1>7, <2>3, <3>1, <4>1, Zenon
    <3>3. Len(db.revs) <= Len(db.revs)
      BY <1>7
    <3> QED BY <3>1, <3>2, <3>3, Zenon
  <2> QED BY <2>4, <2>5
<1>10. NoGap' /\ NothingBack'
  <2>1. store'[current'] = db
    BY <1>1, <1>8, Zenon
  <2>2. NoGap'
    BY <1>9, <2>1, Zenon DEF NoGap
  <2>3. NothingBack'
    BY <1>1, <1>4, <2>1, Zenon DEF RecoveryInv, NothingBack
  <2> QED BY <2>2, <2>3
<1>11. \A e \in Device : dev'[e].id = dev[e].id
  BY <1>6, <1>8, Zenon
<1>12. withdrawn' \subseteq Grant
  BY <1>1, Zenon DEF RecoveryInv, RecoveryTypeOK
<1> QED BY <1>1, <1>3, <1>4, <1>5, <1>8, <1>10, <1>11, <1>12, ServerStep, Zenon

\* Withdraw and Enable change the grants of the file in use.
LEMMA GrantSafe ==
  ASSUME RecoveryInv, NEW G \in SUBSET Grant, store' = [store EXCEPT ![current].grants = G],
         UNCHANGED <<serving, current, cmd, dev, writes>>, withdrawn' \subseteq Grant,
         G \cap withdrawn' = {}
  PROVE  RecoveryInv'
<1> DEFINE old == store[current]
           db == [old EXCEPT !.grants = G]
<1>1. old \in Sound /\ old \in DbRecords /\ store' = [store EXCEPT ![current] = db] /\ current \in Path
  BY CurrentOf, Zenon
<1>2. /\ db.revs = old.revs /\ db.id = old.id /\ db.version = old.version
      /\ db.grants = G /\ db.retired = old.retired /\ db \in DbRecords
  <2>1. db \in DbRecords
    BY <1>1, Zenon DEF DbRecords
  <2>2. /\ db.revs = old.revs /\ db.id = old.id /\ db.version = old.version
        /\ db.grants = G /\ db.retired = old.retired
    BY <1>1, SMT DEF DbRecords
  <2> QED BY <2>1, <2>2, Zenon
<1>3. db \in Sound
  BY <1>1, <1>2, Zenon DEF Sound
<1> HIDE DEF db
<1>4. store'[current] = db
  BY <1>1, Zenon DEF RecoveryInv, RecoveryTypeOK
<1>5. NoGap' /\ NothingBack'
  BY <1>2, <1>4, Zenon DEF RecoveryInv, NoGap, NothingBack
<1>6. /\ dev' \in [Device -> [id : VaultId, cursor : Nat, has : SUBSET Nat]]
      /\ writes' \in Nat /\ \A d \in Device : dev'[d].id = dev[d].id
  BY Zenon DEF RecoveryInv, RecoveryTypeOK
<1> QED BY <1>1, <1>2, <1>3, <1>5, <1>6, ServerStep, Zenon

LEMMA WithdrawSafe == ASSUME RecoveryInv, NEW g \in Grant, Withdraw(g) PROVE RecoveryInv'
<1> DEFINE G == store[current].grants \ {g}
<1>1. /\ store' = [store EXCEPT ![current].grants = G] /\ withdrawn' = withdrawn \cup {g}
      /\ UNCHANGED <<serving, current, cmd, dev, writes>>
  BY Zenon DEF Withdraw
<1>2. store[current].grants \in SUBSET Grant /\ store[current].grants \cap withdrawn = {}
  BY CurrentOf, Zenon DEF DbRecords, RecoveryInv, NothingBack
<1>3. G \in SUBSET Grant /\ G \cap withdrawn' = {} /\ withdrawn' \subseteq Grant
  BY <1>1, <1>2, Zenon DEF RecoveryInv, RecoveryTypeOK
<1> QED BY <1>1, <1>3, GrantSafe, Zenon

LEMMA EnableSafe == ASSUME RecoveryInv, NEW g \in Grant, Enable(g) PROVE RecoveryInv'
<1> DEFINE G == store[current].grants \cup {g}
<1>1. /\ store' = [store EXCEPT ![current].grants = G] /\ withdrawn' = withdrawn \ {g}
      /\ UNCHANGED <<serving, current, cmd, dev, writes>>
  BY Zenon DEF Enable
<1>2. store[current].grants \in SUBSET Grant /\ store[current].grants \cap withdrawn = {}
  BY CurrentOf, Zenon DEF DbRecords, RecoveryInv, NothingBack
<1>3. G \in SUBSET Grant /\ G \cap withdrawn' = {} /\ withdrawn' \subseteq Grant
  BY <1>1, <1>2, Zenon DEF RecoveryInv, RecoveryTypeOK
<1> QED BY <1>1, <1>3, GrantSafe, Zenon

-----------------------------------------------------------------------------
(* The commands.                                                           *)

LEMMA BeginSafe ==
  ASSUME RecoveryInv, NEW kind \in {"backup", "restore", "recover", "migrate"}, NEW src \in Path,
         NEW dst \in Path, Begin(kind, src, dst)
  PROVE  RecoveryInv'
<1> DEFINE s == Steps(kind, store[src].version)
           c == [kind |-> kind, src |-> src, dst |-> dst, steps |-> s]
<1>1. /\ cmd = Idle /\ Accepts(kind, src) /\ store[dst] = Absent /\ cmd' = c
      /\ store' = [store EXCEPT ![dst] = Partial]
      /\ UNCHANGED <<serving, current, dev, writes, withdrawn>>
  BY Zenon DEF Begin
<1>2. store[src] \in DbRecords 
      /\ IF kind = "migrate" THEN store[src].version < Current ELSE store[src].version = Current
  BY <1>1, HoldsDatabase, Zenon DEF RecoveryInv, Accepts
<1>3. src # dst /\ dst # current
  BY <1>1, <1>2, CurrentOf, IsDatabase, Zenon
<1>4. Uncopied(kind, s, store[src].version)
  BY <1>2, SMT DEF Steps, Uncopied
<1>5. s \in Seq({"copy", "upgrade", "rotate", "lockdown", "finish"})
  BY <1>4, StepsTyped, Zenon
<1> HIDE DEF s
<1>6. c \in Commands /\ c.kind = kind /\ c.src = src /\ c.dst = dst /\ c.steps = s
  BY <1>5, Zenon DEF Commands
<1> HIDE DEF c
<1>7. store'[dst] = Partial /\ \A p \in Path : p # dst => store'[p] = store[p]
  BY <1>1, OneFile, Zenon
<1>8. Running'
  BY <1>1, <1>3, <1>4, <1>6, <1>7, Zenon DEF Running, Uncopied
<1>9. NewIdentity'
  <2>1. \A p \in Path : Candidate(p)' => Candidate(p) /\ store'[p].id = store[p].id
    BY <1>1, <1>6, <1>7, IsDatabase, Zenon DEF Candidate, DbRecords
  <2>2. current \in Path
    BY CurrentOf, Zenon
  <2> QED BY <1>1, <1>3, <1>7, <2>1, <2>2, KeepsNew, Zenon
<1>10. /\ store'[c.src] \in DbRecords /\ store'[c.dst] # Absent /\ c.dst # current
       /\ Partial \notin DbRecords
  <2>1. Partial # Absent
    BY Zenon DEF Partial, Absent
  <2> QED BY <1>2, <1>3, <1>6, <1>7, <2>1, IsDatabase, Zenon
<1> QED BY <1>1, <1>3, <1>6, <1>8, <1>9, <1>10, OtherFile, Zenon

\* A transaction of the running command.
LEMMA ContinueSafe ==
  ASSUME RecoveryInv, cmd # Idle, NEW db \in Sound, Continue(db), db.made = cmd.kind, ~db.done,
         Copied(cmd.kind, Tail(cmd.steps), db), NewIdentity'
  PROVE  RecoveryInv'
<1>1. /\ cmd \in Commands /\ cmd.src \in Path /\ cmd.dst \in Path /\ cmd.src # cmd.dst
      /\ cmd.dst # current /\ store[cmd.src] \in DbRecords
  BY CommandOf, Zenon
<1>2. /\ cmd' \in Commands /\ cmd'.src = cmd.src /\ cmd'.dst = cmd.dst /\ cmd'.kind = cmd.kind
      /\ cmd'.steps = Tail(cmd.steps)
  <2>1. cmd' = [cmd EXCEPT !.steps = Tail(cmd.steps)]
    BY Zenon DEF Continue
  <2>2. cmd' \in Commands
    <3>1. Tail(cmd.steps) \in Seq({"copy", "upgrade", "rotate", "lockdown", "finish"})
      BY StepsTyped, Zenon
    <3> QED BY <1>1, <2>1, <3>1, Zenon DEF Commands
  <2> QED BY <1>1, <2>1, <2>2, SMT DEF Commands
<1>3. /\ store' = [store EXCEPT ![cmd.dst] = db]
      /\ UNCHANGED <<serving, current, dev, writes, withdrawn>>
  BY Zenon DEF Continue
<1>4. store'[cmd.dst] = db /\ store'[cmd.src] = store[cmd.src]
  BY <1>1, <1>3, OneFile, Zenon
<1>5. db \in DbRecords /\ db # Absent
  BY SoundOf, Zenon
<1>6. Running'
  BY <1>1, <1>2, <1>4, <1>5, Zenon DEF Running, DbRecords, Copied
<1> QED BY <1>1, <1>2, <1>3, <1>4, <1>5, <1>6, OtherFile, Zenon

\* Unless it rotates the vault, it makes no candidate of another identity.
LEMMA ContinueKeeps ==
  ASSUME RecoveryInv, cmd # Idle, NEW db \in Sound, Continue(db), ~db.done,
         (/\ db.made \in {"restore", "recover", "migrate"} /\ db.id # First
          /\ Head(Tail(cmd.steps)) \in {"lockdown", "finish"})
           => Candidate(cmd.dst) /\ db.id = store[cmd.dst].id
  PROVE  NewIdentity'
<1>1. /\ cmd \in Commands /\ cmd.dst \in Path /\ cmd.dst # current /\ current \in Path
  BY CommandOf, CurrentOf, Zenon
<1>2. /\ cmd' = [cmd EXCEPT !.steps = Tail(cmd.steps)] /\ UNCHANGED <<current, dev>>
      /\ store' = [store EXCEPT ![cmd.dst] = db]
  BY Zenon DEF Continue
<1>3. cmd'.dst = cmd.dst /\ cmd'.steps = Tail(cmd.steps)
  BY <1>1, <1>2, SMT DEF Commands
<1>4. store'[cmd.dst] = db /\ \A p \in Path : p # cmd.dst => store'[p] = store[p]
  BY <1>1, <1>2, OneFile, Zenon
<1>5. ASSUME NEW p \in Path, Candidate(p)', store'[p].id # First
      PROVE  Candidate(p) /\ store'[p].id = store[p].id
  <2>1. CASE p = cmd.dst
    BY <1>3, <1>4, <1>5, <2>1, Zenon DEF Candidate
  <2>2. CASE p # cmd.dst
    BY <1>2, <1>3, <1>4, <1>5, <2>2, Zenon DEF Candidate, DbRecords
  <2> QED BY <2>1, <2>2
<1> QED BY <1>1, <1>2, <1>4, <1>5, KeepsNew, Zenon

LEMMA CopySafe == ASSUME RecoveryInv, Copy PROVE RecoveryInv'
<1> DEFINE db == [store[cmd.src] EXCEPT !.made = cmd.kind, !.done = FALSE]
<1>1. cmd # Idle /\ Head(cmd.steps) = "copy" /\ Continue(db)
  BY Zenon DEF Copy, At
<1>2. /\ cmd \in Commands /\ cmd.kind \in {"backup", "restore", "recover", "migrate"}
      /\ store[cmd.src] \in Sound /\ store[cmd.src] \in DbRecords
  BY <1>1, CommandOf, Zenon DEF Commands
<1>3. Uncopied(cmd.kind, cmd.steps, store[cmd.src].version)
  BY <1>1, CommandOf, Heads, Zenon DEF Copied
<1>4. /\ db.made = cmd.kind /\ ~db.done /\ db.id = store[cmd.src].id
      /\ db.retired = store[cmd.src].retired /\ db.version = store[cmd.src].version
      /\ db \in DbRecords
  <2>1. db \in DbRecords
    BY <1>2, Zenon DEF DbRecords
  <2> QED BY <1>2, <2>1, SMT DEF DbRecords
<1>5. db \in Sound
  BY <1>2, <1>4, Zenon DEF Sound
<1>6. cmd.kind = "migrate" => db.id = First
  BY <1>2, <1>3, <1>4, SoundOf, Zenon DEF Uncopied
<1> HIDE DEF db
<1>7. Copied(cmd.kind, Tail(cmd.steps), db)
  BY <1>3, <1>4, <1>6, Tails, Zenon DEF Uncopied, Copied
<1>8. Head(Tail(cmd.steps)) \in {"lockdown", "finish"} => db.made = "backup"
  BY <1>3, <1>4, Tails, Heads, Zenon DEF Uncopied
<1>9. NewIdentity'
  BY <1>1, <1>4, <1>5, <1>8, ContinueKeeps, Zenon
<1> QED BY <1>1, <1>4, <1>5, <1>7, <1>9, ContinueSafe, Zenon

\* A transaction of the running command that is not the last of its step.
LEMMA StaySafe ==
  ASSUME RecoveryInv, cmd # Idle, NEW db \in Sound, store' = [store EXCEPT ![cmd.dst] = db],
         UNCHANGED <<serving, current, cmd, dev, writes, withdrawn>>, db.made = cmd.kind, ~db.done,
         Copied(cmd.kind, cmd.steps, db), Head(cmd.steps) = "upgrade"
  PROVE  RecoveryInv'
<1>1. /\ cmd \in Commands /\ cmd.src \in Path /\ cmd.dst \in Path /\ cmd.src # cmd.dst
      /\ cmd.dst # current /\ store[cmd.src] \in DbRecords /\ current \in Path
  BY CommandOf, CurrentOf, Zenon
<1>2. db \in DbRecords /\ db # Absent
  BY SoundOf, Zenon
<1>3. store'[cmd.dst] = db /\ \A p \in Path : p # cmd.dst => store'[p] = store[p]
  BY <1>1, OneFile, Zenon
<1>4. Running'
  BY <1>1, <1>2, <1>3, Zenon DEF Running, DbRecords, Copied
<1>5. NewIdentity'
  <2>1. ~Candidate(cmd.dst)'
    BY <1>3, Zenon DEF Candidate
  <2>2. \A p \in Path : Candidate(p)' => Candidate(p) /\ store'[p].id = store[p].id
    BY <1>3, <2>1, Zenon DEF Candidate, DbRecords
  <2> QED BY <1>1, <1>3, <2>2, KeepsNew, Zenon
<1>6. store'[cmd.src] \in DbRecords
  BY <1>1, <1>3, Zenon
<1> QED BY <1>1, <1>2, <1>3, <1>4, <1>5, <1>6, OtherFile, Zenon

LEMMA UpgradeSafe == ASSUME RecoveryInv, Upgrade PROVE RecoveryInv'
<1> DEFINE old == store[cmd.dst]
           db == Upgraded(old)
<1>1. /\ cmd # Idle /\ Head(cmd.steps) = "upgrade"
      /\ IF db.version = Current THEN Continue(db)
         ELSE /\ store' = [store EXCEPT ![cmd.dst] = db]
              /\ UNCHANGED <<serving, current, cmd, dev, writes, withdrawn>>
  BY Zenon DEF Upgrade, At
<1>2. /\ old \in Sound /\ old \in DbRecords /\ old.made = cmd.kind /\ ~old.done
      /\ Copied(cmd.kind, cmd.steps, old)
  BY <1>1, CommandOf, Heads, Zenon DEF Uncopied
<1>3. /\ cmd.kind = "migrate" /\ old.version < Current
      /\ \/ cmd.steps = <<"upgrade", "finish">> /\ old.id = First
         \/ cmd.steps = <<"upgrade", "rotate", "finish">>
  BY <1>1, <1>2, Heads, Zenon DEF Copied
<1>4. old.id = First /\ old.retired = {}
  BY <1>2, <1>3, SoundOf, Zenon
<1>5. /\ db.made = cmd.kind /\ ~db.done /\ db.id = old.id /\ db.retired = old.retired
      /\ db.version <= Current /\ db.version \in Nat /\ db \in DbRecords
  <2>1. old.version + 1 \in 0..Current /\ old.version \in 0..Current
    BY <1>2, <1>3, SMT DEF DbRecords, Current
  <2>2. (IF old.version < 5 THEN old.grants ELSE old.grants \ {"session", "registration"}) \in SUBSET Grant
    BY <1>2, Zenon DEF DbRecords
  <2>3. (old.owes \/ cmd.steps[2] = "rotate") \in BOOLEAN
    BY Zenon
  <2>4. db \in DbRecords
    BY <1>2, <2>1, <2>2, <2>3, Zenon DEF Upgraded, DbRecords
  <2>5. /\ db.made = old.made /\ db.done = old.done /\ db.id = old.id /\ db.retired = old.retired
        /\ db.version = old.version + 1
    BY <1>2, SMT DEF Upgraded, DbRecords
  <2>6. db.version <= Current /\ db.version \in Nat
    BY <2>1, <2>5, SMT DEF Current
  <2> QED BY <1>2, <2>4, <2>5, <2>6, Zenon
<1>6. db \in Sound /\ db.id = First
  BY <1>4, <1>5, Zenon DEF Sound
<1> HIDE DEF db, old
<1>7. CASE db.version = Current
  <2>1. Copied(cmd.kind, Tail(cmd.steps), db)
    BY <1>3, <1>7, Tails, Zenon DEF Copied
  <2>2. NewIdentity'
    BY <1>1, <1>5, <1>6, <1>7, ContinueKeeps, Zenon
  <2> QED BY <1>1, <1>5, <1>6, <1>7, <2>1, <2>2, ContinueSafe, Zenon
<1>8. CASE db.version # Current
  <2>1. db.version < Current
    BY <1>5, <1>8, SMT DEF Current
  <2>2. Copied(cmd.kind, cmd.steps, db)
    BY <1>3, <1>6, <2>1, Zenon DEF Copied
  <2> QED BY <1>1, <1>5, <1>6, <1>8, <2>2, StaySafe, Zenon
<1> QED BY <1>7, <1>8, Zenon

LEMMA LockDownSafe == ASSUME RecoveryInv, LockDown, RecoveryAssumption PROVE RecoveryInv'
<1> DEFINE old == store[cmd.dst]
           db == LockedDown(old)
<1>1. cmd # Idle /\ Head(cmd.steps) = "lockdown" /\ Continue(db)
  BY Zenon DEF LockDown, At
<1>2. /\ old \in Sound /\ old \in DbRecords /\ old.made = cmd.kind /\ ~old.done
      /\ Copied(cmd.kind, cmd.steps, old) /\ cmd.dst # current
  BY <1>1, CommandOf, Heads, Zenon DEF Uncopied
<1>3. /\ cmd.kind = "recover" /\ Tail(cmd.steps) = <<"finish">> /\ old.id # First
      /\ old.grants \cap {"session", "member"} = {}
  BY <1>1, <1>2, Heads, Tails, Zenon DEF Copied
<1>4. /\ db.made = old.made /\ db.done = old.done /\ db.id = old.id /\ db.retired = old.retired
      /\ db.version = old.version
      /\ db.grants = old.grants \ {"session", "owner", "account", "registration"}
  BY <1>2, SMT DEF LockedDown, DbRecords
<1>5. db \in DbRecords
  BY <1>2, Zenon DEF LockedDown, DbRecords
<1>6. db \in Sound
  BY <1>2, <1>4, <1>5, Zenon DEF Sound
<1>7. db.grants = {}
  <2>1. old.grants \subseteq {"owner", "account", "member", "registration", "session"}
    BY <1>2, Zenon DEF DbRecords, RecoveryAssumption
  <2> QED BY <1>3, <1>4, <2>1, Zenon
<1>8. Candidate(cmd.dst)
  BY <1>1, <1>2, <1>3, Zenon DEF Candidate
<1> HIDE DEF db
<1>9. Copied(cmd.kind, Tail(cmd.steps), db)
  BY <1>3, <1>4, <1>7, Zenon DEF Copied
<1>10. NewIdentity'
  BY <1>1, <1>2, <1>4, <1>6, <1>8, ContinueKeeps, Zenon
<1> QED BY <1>1, <1>2, <1>4, <1>6, <1>9, <1>10, ContinueSafe, Zenon

LEMMA RotateSafe == ASSUME RecoveryInv, NEW v \in VaultId, Rotate(v) PROVE RecoveryInv'
<1> DEFINE old == store[cmd.dst]
           db == Rotated(old, v)
<1>1. cmd # Idle /\ Head(cmd.steps) = "rotate" /\ Continue(db) /\ v \in FreshId
  BY Zenon DEF Rotate, At
<1>2. /\ old \in Sound /\ old \in DbRecords /\ old.made = cmd.kind /\ ~old.done
      /\ Copied(cmd.kind, cmd.steps, old) /\ cmd.dst # current /\ cmd.dst \in Path
      /\ cmd \in Commands
  BY <1>1, CommandOf, Heads, Zenon DEF Uncopied
<1>3. /\ \A p \in Path : store[p] \in DbRecords => store[p].id # v /\ v \notin store[p].retired
      /\ \A d \in Device : dev[d].id # v
  <2>1. \A p \in Path : store[p] \in DbRecords => HasDatabase(p)
    BY HoldsDatabase, Zenon DEF RecoveryInv
  <2>2. ASSUME NEW p \in Path, store[p] \in DbRecords, v \in {store[p].id} \cup store[p].retired
        PROVE  FALSE
    <3>1. p \in {q \in Path : HasDatabase(q)}
      BY <2>1, <2>2, Zenon
    <3> QED BY <1>1, <2>2, <3>1, Zenon DEF FreshId
  <2>3. \A d \in Device : dev[d].id # v
    <3>1. v \notin {dev[d].id : d \in Device}
      BY <1>1, Zenon DEF FreshId
    <3> QED BY <3>1, Zenon
  <2> QED BY <2>2, <2>3, Zenon
<1>4. v # First
  <2>1. current \in Path /\ store[current] \in Sound /\ store[current] \in DbRecords
    BY CurrentOf, Zenon
  <2>2. store[current].id # First => First \in store[current].retired
    BY <2>1, SoundOf, Zenon
  <2> QED BY <1>3, <2>1, <2>2, Zenon
<1>5. /\ db.made = old.made /\ db.done = old.done /\ db.id = v
      /\ db.retired = old.retired \cup {old.id} /\ db.version = old.version
      /\ db.grants = old.grants \ {"session", "member"}
  BY <1>2, SMT DEF Rotated, DbRecords
<1>6. db \in DbRecords
  BY <1>2, Zenon DEF Rotated, DbRecords
<1>7. Copied(cmd.kind, Tail(cmd.steps), db)
  <2> HIDE DEF db, old
  <2>1. \/ cmd.kind = "restore" /\ Tail(cmd.steps) = <<"finish">>
        \/ cmd.kind = "recover" /\ Tail(cmd.steps) = <<"lockdown", "finish">>
        \/ cmd.kind = "migrate" /\ Tail(cmd.steps) = <<"finish">>
    BY <1>1, <1>2, Heads, Tails, Zenon DEF Copied
  <2>2. db.grants \cap {"session", "member"} = {}
    BY <1>5, Zenon
  <2> QED BY <1>4, <1>5, <2>1, <2>2, Zenon DEF Copied
<1>8. db \in Sound
  <2>1. old.version = Current
    BY <1>1, <1>2, Heads, Zenon DEF Copied
  <2>2. First \in db.retired
    BY <1>2, <1>5, SoundOf, Zenon
  <2> QED BY <1>4, <1>5, <1>6, <2>1, <2>2, Zenon DEF Sound
<1> HIDE DEF db, old
<1>9. /\ cmd'.dst = cmd.dst /\ UNCHANGED <<current, dev>> /\ store'[cmd.dst] = db
      /\ (\A p \in Path : p # cmd.dst => store'[p] = store[p]) /\ current \in Path
      /\ store[current] \in DbRecords
  <2>1. /\ cmd' = [cmd EXCEPT !.steps = Tail(@)] /\ store' = [store EXCEPT ![cmd.dst] = db]
        /\ UNCHANGED <<current, dev>>
    BY <1>1, Zenon DEF Continue
  <2>2. cmd'.dst = cmd.dst
    BY <1>2, <2>1, SMT DEF Commands
  <2> QED BY <1>2, <1>8, <2>1, <2>2, OneFile, CurrentOf, Zenon
<1>10. \A p \in Path : p # cmd.dst /\ Candidate(p)' => Candidate(p) /\ store'[p].id # v
  BY <1>3, <1>9, Zenon DEF Candidate, DbRecords
<1>11. NewIdentity'
  <2> SUFFICES ASSUME NEW p \in Path, Candidate(p)', store'[p].id # First
               PROVE  /\ store'[p].id # store'[current].id
                      /\ \A d \in Device : dev[d].id # store'[p].id
                      /\ \A q \in Path : Candidate(q)' /\ q # p => store'[q].id # store'[p].id
    BY <1>9, Zenon DEF NewIdentity
  <2>1. CASE p = cmd.dst
    BY <1>2, <1>3, <1>5, <1>9, <1>10, <2>1, Zenon
  <2>2. CASE p # cmd.dst
    <3>1. Candidate(p) /\ store'[p] = store[p] /\ store'[current] = store[current]
      BY <1>2, <1>9, <1>10, <2>2, Zenon
    <3>2. /\ store[p].id # store[current].id /\ \A d \in Device : dev[d].id # store[p].id
          /\ \A q \in Path : Candidate(q) /\ q # p => store[q].id # store[p].id
      BY <3>1, Zenon DEF RecoveryInv, NewIdentity
    <3>3. store'[cmd.dst].id # store'[p].id
      BY <1>5, <1>9, <1>10, <2>2, Zenon
    <3> QED BY <1>9, <1>10, <3>1, <3>2, <3>3, Zenon
  <2> QED BY <2>1, <2>2
<1> QED BY <1>1, <1>2, <1>5, <1>7, <1>8, <1>11, ContinueSafe, Zenon

LEMMA FinishSafe == ASSUME RecoveryInv, Finish PROVE RecoveryInv'
<1> DEFINE old == store[cmd.dst]
           db == [old EXCEPT !.done = TRUE]
<1>1. /\ cmd # Idle /\ Head(cmd.steps) = "finish" /\ cmd' = Idle
      /\ store' = [store EXCEPT ![cmd.dst] = db]
      /\ UNCHANGED <<serving, current, dev, writes, withdrawn>>
  BY Zenon DEF Finish, At
<1>2. /\ old \in Sound /\ old \in DbRecords /\ old.made = cmd.kind /\ cmd \in Commands
      /\ Copied(cmd.kind, cmd.steps, old) /\ cmd.dst # current /\ cmd.dst \in Path
  BY <1>1, CommandOf, Heads, Zenon DEF Uncopied
<1>3. /\ cmd.kind \in {"restore", "recover"} => old.id # First
      /\ cmd.kind = "recover" => old.grants = {}
  BY <1>1, <1>2, Heads, Zenon DEF Copied
<1>4. /\ db.made = old.made /\ db.id = old.id /\ db.grants = old.grants
      /\ db.retired = old.retired /\ db.version = old.version
  BY <1>2, SMT DEF DbRecords
<1>5. db \in DbRecords
  BY <1>2, Zenon DEF DbRecords
<1>6. db \in Sound
  BY <1>2, <1>4, <1>5, Zenon DEF Sound
<1> HIDE DEF db
<1>7. store'[cmd.dst] = db /\ \A p \in Path : p # cmd.dst => store'[p] = store[p]
  BY <1>1, <1>2, <1>6, OneFile, Zenon
<1>8. NewIdentity'
  <2>1. ASSUME NEW p \in Path, Candidate(p)' PROVE Candidate(p) /\ store'[p].id = store[p].id
    <3>1. CASE p = cmd.dst
      <4>1. db.made \in {"restore", "recover", "migrate"}
        BY <1>7, <2>1, <3>1, Zenon DEF Candidate
      <4> QED BY <1>1, <1>2, <1>4, <1>7, <3>1, <4>1, Zenon DEF Candidate
    <3>2. CASE p # cmd.dst
      BY <1>1, <1>7, <2>1, <3>2, Zenon DEF Candidate, DbRecords
    <3> QED BY <3>1, <3>2
  <2>2. current \in Path
    BY CurrentOf, Zenon
  <2> QED BY <1>1, <1>2, <1>7, <2>1, <2>2, KeepsNew, Zenon
<1>9. Running'
  BY <1>1, Zenon DEF Running, Idle
<1> QED BY <1>1, <1>2, <1>3, <1>4, <1>6, <1>8, <1>9, OtherFile, Zenon

\* A file goes: the operator removes it, or a command that fails.
LEMMA FileGoes ==
  ASSUME RecoveryInv, NEW x \in Path, x # current, store' = [store EXCEPT ![x] = Absent],
         UNCHANGED <<serving, current, dev, writes, withdrawn>>,
         cmd' = Idle \/ (cmd' = cmd /\ cmd # Idle /\ x # cmd.src /\ x # cmd.dst)
  PROVE  RecoveryInv'
<1>1. store'[x] = Absent /\ \A p \in Path : p # x => store'[p] = store[p]
  BY OneFile, Zenon
<1>2. Absent \notin DbRecords
  BY IsDatabase, Zenon
<1>3. NewIdentity'
  <2>1. \A p \in Path : Candidate(p)' => Candidate(p) /\ store'[p].id = store[p].id
    BY <1>1, <1>2, Zenon DEF Candidate, DbRecords
  <2>2. current \in Path
    BY CurrentOf, Zenon
  <2> QED BY <1>1, <2>1, <2>2, KeepsNew, Zenon
<1>4. CASE cmd' = Idle
  <2>1. Running'
    BY <1>4, Zenon DEF Running, Idle
  <2> QED BY <1>2, <1>3, <1>4, <2>1, OtherFile, Zenon
<1>5. CASE cmd' = cmd /\ cmd # Idle /\ x # cmd.src /\ x # cmd.dst
  <2>1. /\ cmd \in Commands /\ cmd.src \in Path /\ cmd.dst \in Path /\ cmd.dst # current
        /\ store[cmd.src] \in DbRecords /\ store[cmd.dst] # Absent
    BY <1>5, CommandOf, Zenon DEF RecoveryInv, RecoveryTypeOK
  <2>2. store'[cmd.src] = store[cmd.src] /\ store'[cmd.dst] = store[cmd.dst]
    BY <1>1, <1>5, <2>1, Zenon
  <2>3. Running'
    BY <1>5, <2>2, RunsOn, Zenon
  <2> QED BY <1>2, <1>3, <1>5, <2>1, <2>2, <2>3, OtherFile, Zenon
<1> QED BY <1>4, <1>5, Zenon

LEMMA FailSafe == ASSUME RecoveryInv, Fail PROVE RecoveryInv'
<1>1. /\ cmd # Idle /\ store' = [store EXCEPT ![cmd.dst] = Absent] /\ cmd' = Idle
      /\ UNCHANGED <<serving, current, dev, writes, withdrawn>>
  BY Zenon DEF Fail
<1>2. cmd.dst \in Path /\ cmd.dst # current
  BY <1>1, CommandOf, Zenon
<1> QED BY <1>1, <1>2, FileGoes, Zenon

LEMMA RemoveSafe == ASSUME RecoveryInv, NEW p \in Path, RemoveFile(p) PROVE RecoveryInv'
<1>1. /\ p # current /\ p \notin InUse /\ store' = [store EXCEPT ![p] = Absent]
      /\ UNCHANGED <<serving, current, cmd, dev, writes, withdrawn>>
  BY Zenon DEF RemoveFile
<1>2. cmd = Idle \/ (p # cmd.src /\ p # cmd.dst)
  BY <1>1, Zenon DEF InUse
<1> QED BY <1>1, <1>2, FileGoes, Zenon

\* The command or the server just ends, or the server starts where it stopped.
LEMMA ProcessEnds ==
  ASSUME RecoveryInv, UNCHANGED <<store, current, dev, writes, withdrawn>>,
         cmd' = Idle \/ cmd' = cmd, serving' \in {Stopped, serving, current}
  PROVE  RecoveryInv'
<1>1. RecoveryTypeOK'
  BY Zenon DEF RecoveryInv, RecoveryTypeOK, HasDatabase, DbRecords, Commands
<1>2. Running'
  BY RunsOn, Zenon DEF Running
<1>3. NewIdentity'
  <2>1. \A p \in Path : Candidate(p)' => Candidate(p) /\ store'[p].id = store[p].id
    BY Zenon DEF Candidate, DbRecords
  <2> QED BY <2>1, KeepsNew, Zenon
<1>4. Finished' /\ NoGap' /\ NothingBack'
  BY Zenon DEF RecoveryInv, Finished, DbRecords, NoGap, NothingBack
<1>5. (store \in [Path -> {Absent, Partial} \cup Sound])'
  BY Zenon DEF RecoveryInv, Sound, DbRecords
<1> QED BY <1>1, <1>2, <1>3, <1>4, <1>5, Zenon DEF RecoveryInv

-----------------------------------------------------------------------------
(* The operator.                                                           *)

\* A file that the procedure allows replaces the one in use.
LEMMA ReplaceSafe ==
  ASSUME RecoveryInv, NEW x \in Path, x # current, Start(x)
  PROVE  RecoveryInv'
<1> DEFINE old == store[current]
           new == store[x]
           db == [old EXCEPT !.done = FALSE]
<1>1. /\ new \in DbRecords /\ new \in Sound /\ new.done /\ serving' = x /\ current' = x
      /\ store' = [store EXCEPT ![current] = db] /\ UNCHANGED <<cmd, dev, writes, withdrawn>>
      /\ \/ new.made = "recover"
         \/ new.made = "restore" /\ new.grants \cap withdrawn = {}
         \/ /\ new.made = "migrate" /\ new.grants \cap withdrawn = {}
            /\ new.revs = old.revs /\ old.retired \subseteq new.retired
  <2>1. HasDatabase(x)
    BY Zenon DEF Start, Verifies
  <2>2. new \in DbRecords /\ new \in Sound
    BY <2>1, SoundOf, Zenon DEF RecoveryInv, HasDatabase
  <2> QED BY <2>2, Zenon DEF Start, Procedure
<1>2. old \in Sound /\ old \in DbRecords /\ current \in Path
  BY CurrentOf, Zenon
<1>3. /\ ~db.done /\ db.id = old.id /\ db.retired = old.retired /\ db.version = old.version
      /\ db.made = old.made
  BY <1>2, SMT DEF DbRecords
<1>4. db \in DbRecords
  BY <1>2, Zenon DEF DbRecords
<1>5. db \in Sound
  BY <1>2, <1>3, <1>4, Zenon DEF Sound
<1> HIDE DEF db
<1>6. /\ store' \in [Path -> {Absent, Partial} \cup Sound]
      /\ store' \in [Path -> {Absent, Partial} \cup DbRecords]
      /\ store'[current] = db /\ \A p \in Path : p # current => store'[p] = store[p]
  BY <1>1, <1>2, <1>5, OneFile, Zenon
<1>7. Candidate(x) /\ (cmd # Idle => cmd.dst # x)
  <2>1. cmd # Idle => cmd.dst # x
    BY <1>1, CommandOf, IsDatabase, Zenon
  <2> QED BY <1>1, <2>1, Zenon DEF Candidate
<1>8. new.id = First => old.id = First /\ new.revs = old.revs
  BY <1>1, <1>2, <1>7, SoundOf, Zenon DEF RecoveryInv, Finished
<1>9. new.grants \cap withdrawn = {}
  BY <1>1, Zenon DEF RecoveryInv, Finished
<1>10. cmd # Idle => /\ cmd.src \in Path /\ cmd.dst \in Path /\ cmd.dst # current
                     /\ store'[cmd.dst] = store[cmd.dst] /\ store'[cmd.src] \in DbRecords
                     /\ store'[cmd.src].version = store[cmd.src].version
  BY <1>2, <1>3, <1>4, <1>6, CommandOf, Zenon
<1>11. RecoveryTypeOK'
  BY <1>1, <1>6, <1>7, <1>10, IsDatabase, SameSets, Zenon
  DEF RecoveryInv, RecoveryTypeOK, HasDatabase
<1>12. Running'
  BY <1>1, <1>10, RunsOn, Zenon
<1>13. \A p \in Path : Candidate(p)' => Candidate(p) /\ p # x /\ p # current /\ store'[p] = store[p]
  <2> SUFFICES ASSUME NEW p \in Path, Candidate(p)'
               PROVE  Candidate(p) /\ p # x /\ p # current /\ store'[p] = store[p]
    BY Zenon
  <2>1. p # x
    BY <1>1, Zenon DEF Candidate
  <2>2. p # current
    BY <1>1, <1>3, <1>6, <1>10, Zenon DEF Candidate
  <2> QED BY <1>1, <1>6, <2>1, <2>2, Zenon DEF Candidate, DbRecords
<1>14. NewIdentity'
  <2> SUFFICES ASSUME NEW p \in Path, Candidate(p)', store'[p].id # First
               PROVE  /\ store'[p].id # store'[x].id
                      /\ \A d \in Device : dev'[d].id # store'[p].id
                      /\ \A q \in Path : Candidate(q)' /\ q # p => store'[q].id # store'[p].id
    BY <1>1, Zenon DEF NewIdentity
  <2>1. Candidate(p) /\ p # x /\ store'[p] = store[p] /\ store'[x] = store[x]
    BY <1>6, <1>13, Zenon
  <2>2. /\ \A d \in Device : dev[d].id # store[p].id
        /\ \A q \in Path : Candidate(q) /\ q # p => store[q].id # store[p].id
    BY <2>1, Zenon DEF RecoveryInv, NewIdentity
  <2> QED BY <1>1, <1>7, <1>13, <2>1, <2>2, Zenon
<1>15. Finished'
  <2> SUFFICES ASSUME NEW p \in Path, store'[p] \in DbRecords, store'[p].done
               PROVE  /\ store'[p].made \in {"restore", "recover"} => store'[p].id # First
                      /\ p # x /\ store'[p].made = "recover" => store'[p].grants = {}
    BY <1>1, Zenon DEF Finished, DbRecords
  <2>1. p # current /\ store'[p] = store[p]
    BY <1>3, <1>6, Zenon
  <2> QED BY <2>1, Zenon DEF RecoveryInv, Finished
<1>16. NoGap'
  <2>1. store'[x] = new
    BY <1>6, Zenon
  <2>2. CASE new.id = First
    BY <1>1, <1>8, <2>1, <2>2, Zenon DEF RecoveryInv, NoGap
  <2>3. CASE new.id # First
    <3>1. \A d \in Device : dev[d].id # new.id
      BY <1>7, <2>3, Zenon DEF RecoveryInv, NewIdentity
    <3> QED BY <1>1, <2>1, <3>1, Zenon DEF NoGap
  <2> QED BY <2>2, <2>3
<1>17. NothingBack'
  BY <1>1, <1>6, <1>9, Zenon DEF NothingBack
<1>18. (store \in [Path -> {Absent, Partial} \cup Sound])'
  BY <1>6, Zenon DEF Sound, DbRecords
<1> QED BY <1>11, <1>12, <1>14, <1>15, <1>16, <1>17, <1>18, Zenon DEF RecoveryInv

LEMMA StartSafe == ASSUME RecoveryInv, NEW p \in Path, Start(p) PROVE RecoveryInv'
<1>1. CASE p # current
  BY <1>1, ReplaceSafe, Zenon
<1>2. CASE p = current
  <2>1. UNCHANGED <<store, current, cmd, dev, writes, withdrawn>> /\ serving' = current
    BY <1>2, Zenon DEF Start
  <2> QED BY <2>1, ProcessEnds, Zenon
<1> QED BY <1>1, <1>2

-----------------------------------------------------------------------------
(* Theorems about Recovery.                                                *)

LEMMA InitSafe == ASSUME RecoveryInit, RecoveryAssumption PROVE RecoveryInv
<1>1. PICK v \in Versions, old \in BOOLEAN :
        store = [p \in Path |-> IF p = Live THEN Original(v, <<1>>, "server")
                                ELSE IF p = Old /\ old THEN Original(v, <<>>, "backup")
                                ELSE Absent]
  BY Zenon DEF RecoveryInit
<1>2. ASSUME NEW revs \in Seq(Nat), NEW made \in {"server", "backup"}
      PROVE  LET db == Original(v, revs, made) IN
               /\ db \in Sound /\ db \in DbRecords /\ db.id = First /\ db.made = made
               /\ db.revs = revs /\ db.version = v
  <2> DEFINE db == Original(v, revs, made)
  <2>1. /\ db.id = First /\ db.made = made /\ db.revs = revs /\ db.version = v /\ db.retired = {}
    BY Zenon DEF Original
  <2>2. v \in 0..Current /\ First \in VaultId
    BY Zenon DEF RecoveryAssumption
  <2>3. db \in DbRecords
    BY <2>2, Zenon DEF Original, DbRecords
  <2> HIDE DEF db
  <2> QED BY <2>1, <2>3, Zenon DEF Sound, db
<1> DEFINE l == Original(v, <<1>>, "server")
           b == Original(v, <<>>, "backup")
<1>3. /\ l \in Sound /\ l \in DbRecords /\ l.id = First /\ l.made = "server" /\ l.revs = <<1>>
      /\ b \in Sound /\ b \in DbRecords /\ b.made = "backup"
  <2>1. <<1>> \in Seq(Nat) /\ <<>> \in Seq(Nat)
    BY SMT
  <2> QED BY <1>2, <2>1, Zenon
<1> HIDE DEF l, b
<1>4. /\ store \in [Path -> {Absent, Partial} \cup Sound]
      /\ store \in [Path -> {Absent, Partial} \cup DbRecords]
      /\ store[Live] = l /\ Live \in Path
      /\ \A p \in Path : p # Live => store[p] \in {Absent, b}
  BY <1>1, <1>3, Zenon DEF l, b, RecoveryAssumption
<1>5. /\ current = Live /\ cmd = Idle /\ writes = 1 /\ withdrawn = {} /\ serving \in {current, Stopped}
      /\ dev = [d \in Device |-> [id |-> First, cursor |-> 1, has |-> {1}]]
  BY Zenon DEF RecoveryInit
<1>6. /\ dev \in [Device -> [id : VaultId, cursor : Nat, has : SUBSET Nat]] /\ writes \in Nat
      /\ \A d \in Device : dev[d].cursor = 1 /\ dev[d].has = {1}
  <2>1. 1 \in Nat /\ {1} \subseteq Nat /\ First \in VaultId
    BY SMT DEF RecoveryAssumption
  <2> QED BY <1>5, <2>1, Zenon
<1>7. RecoveryTypeOK
  BY <1>3, <1>4, <1>5, <1>6, IsDatabase, Zenon DEF RecoveryTypeOK, HasDatabase
<1>8. Running
  BY <1>5, Zenon DEF Running
<1>9. \A p \in Path : p # current /\ store[p] \in DbRecords => store[p].made = "backup"
  BY <1>3, <1>4, <1>5, IsDatabase, Zenon
<1>10. NewIdentity /\ Finished
  BY <1>9, Zenon DEF NewIdentity, Finished, Candidate
<1>11. NoGap
  <2>1. /\ 1 <= Len(<<1>>) /\ \A i \in 1..1 : <<1>>[i] \in {1}
    BY SMT
  <2> QED BY <1>3, <1>4, <1>5, <1>6, <2>1, Zenon DEF NoGap
<1>12. NothingBack
  BY <1>5, Zenon DEF NothingBack
<1> QED BY <1>4, <1>7, <1>8, <1>10, <1>11, <1>12, Zenon DEF RecoveryInv

LEMMA NextSafe == ASSUME RecoveryInv, [RecoveryNext]_recoveryVars, RecoveryAssumption PROVE RecoveryInv'
<1>1. CASE UNCHANGED recoveryVars
  BY <1>1, ProcessEnds, Zenon DEF recoveryVars
<1>2. CASE \E d \in Device : Sync(d) \/ Push(d) \/ SelectVault(d)
  BY <1>2, SyncSafe, PushSafe, SelectSafe, Zenon
<1>3. CASE \E g \in Grant : Withdraw(g) \/ Enable(g)
  BY <1>3, WithdrawSafe, EnableSafe, Zenon
<1>4. CASE \E kind \in {"backup", "restore", "recover", "migrate"}, src, dst \in Path :
             Begin(kind, src, dst)
  BY <1>4, BeginSafe, Zenon
<1>5. CASE Copy \/ Upgrade \/ LockDown \/ Finish \/ Fail
  BY <1>5, CopySafe, UpgradeSafe, LockDownSafe, FinishSafe, FailSafe, Zenon
<1>6. CASE KillCommand \/ StopServer
  <2>1. /\ UNCHANGED <<store, current, dev, writes, withdrawn>>
        /\ cmd' = Idle \/ cmd' = cmd
        /\ serving' \in {Stopped, serving, current}
    BY <1>6, Zenon DEF KillCommand, StopServer
  <2> QED BY <2>1, ProcessEnds, Zenon
<1>7. CASE \E v \in VaultId : Rotate(v)
  BY <1>7, RotateSafe, Zenon
<1>8. CASE \E p \in Path : Start(p) \/ RemoveFile(p)
  BY <1>8, StartSafe, RemoveSafe, Zenon
<1> QED BY <1>1, <1>2, <1>3, <1>4, <1>5, <1>6, <1>7, <1>8, Zenon DEF RecoveryNext

\* The conjuncts of RecoveryInv hold of every reachable state.
LEMMA AlwaysSafe == RecoverySpec => []RecoveryInv
<1>1. RecoveryInit => RecoveryInv
  BY InitSafe, RecoveryAssumption
<1>2. RecoveryInv /\ [RecoveryNext]_recoveryVars => RecoveryInv'
  BY NextSafe, RecoveryAssumption
<1> QED BY <1>1, <1>2, PTL DEF RecoverySpec

\* Every variable keeps its type; the file in use is a database, and a server
\* runs on no other.
THEOREM RecoveryTypes == RecoverySpec => []RecoveryTypeOK
<1>1. RecoveryInv => RecoveryTypeOK
  BY Zenon DEF RecoveryInv
<1> QED BY <1>1, AlwaysSafe, PTL

\* No device resumes in another history: whatever backup_database,
\* restore_database, recover_stale_backup and the migrations leave behind when
\* they are killed, a device that init accepts has all that it skips.
THEOREM NoGaps == RecoverySpec => []NoSilentGap
<1>1. RecoveryInv => NoSilentGap
  <2> SUFFICES ASSUME RecoveryInv, serving # Stopped, NEW d \in Device, InitAnswer(d) = "ok",
                      NEW i \in 1..dev[d].cursor
               PROVE  Db.revs[i] \in dev[d].has
    BY Zenon DEF NoSilentGap
  <2>1. Db = store[current] /\ dev[d].id = store[current].id
    BY Accepted, Zenon
  <2> QED BY <2>1, Zenon DEF RecoveryInv, NoGap
<1> QED BY <1>1, AlwaysSafe, PTL

\* Nothing that was withdrawn comes back with an older copy, however many
\* copies are made of copies before one is recovered and served.
THEOREM NoResurrection == RecoverySpec => []NothingResurrected
<1>1. RecoveryInv => NothingResurrected
  BY Accepted, Zenon DEF NothingResurrected, RecoveryInv, NothingBack
<1> QED BY <1>1, AlwaysSafe, PTL

-----------------------------------------------------------------------------
(* Lifecycle.  The argument is that of lock files: what a step of one      *)
(* process can take from another is confined to paths whose lock it holds, *)
(* to its own files and to files of processes that are gone (Confined); so *)
(* every process keeps what it relies on (Own) through the steps of the    *)
(* others, and its own steps maintain it.                                  *)

\* The stages in which a process holds the lock of its database, or of its staging
\* directory.
UnderStaging  == {"prepare", "mark", "cleanup", "open", "serving", "drained", "stopped"}
UnderDatabase == UnderStaging \cup {"locked", "rebind", "purge"}
Stages        == UnderDatabase \cup {"off", "clean", "allocate", "stream"}

ProcType ==
  [stage : Stages, host : Host \cup {None}, shutdown : BOOLEAN, listeners : SUBSET Listener,
   held : SUBSET Listener, conns : [Conn -> {"none", "open", "uploading"}], known : Nat, nonce : Nonce \cup {None}]

\* What one process relies on.
Own(p) ==
  /\ Stage(p) \in UnderDatabase => lock[Database[p]] = p
  /\ Stage(p) \in UnderDatabase => proc[p].host \in Host
  /\ Stage(p) \in UnderStaging => lock[Staging[p]] = p
  /\ Stage(p) # "serving" => proc[p].listeners = {} /\ ~Connected(p)
  /\ \A c \in Conn : proc[p].conns[c] = "uploading" => File(p, c) \in files
  /\ Stage(p) = "serving" => proc[p].known = rows[Database[p]]
  /\ Stage(p) = "serving" => hosts[Database[p]] \subseteq {proc[p].host}
  /\ Stage(p) = "stream" => <<p, proc[p].nonce>> \in temps

\* The inductive invariant.
Inv ==
  /\ proc \in [Proc -> ProcType]
  /\ TypeOK
  /\ \A p \in Proc : Own(p)

Step(p) ==
  \/ Starting(p) \/ Serving(p) \/ Stopping(p) \/ Streaming(p) \/ Command(p) \/ Kill(p)
  \/ \E h \in Host : StartServer(p, h) \/ StartCommand(p, "rebind", h) \/ StartCommand(p, "purge", h)

\* What a step of p does to the state that processes share.
Confined(p) ==
  /\ \A q \in Proc : q # p => proc'[q] = proc[q]
  /\ \A x \in Databases \cup Directories :
       \/ lock'[x] = lock[x]
       \/ lock[x] = None /\ lock'[x] = p
       \/ lock[x] = p /\ lock'[x] = None
  /\ \A f \in files :
       \/ f \in files'
       \/ f.proc = p
       \/ f.dir = Staging[p] /\ Stage(p) \in UnderStaging
  /\ Stage(p) \notin UnderDatabase => rows' = rows /\ hosts' = hosts
  /\ \A d \in Databases \ {Database[p]} : rows'[d] = rows[d] /\ hosts'[d] = hosts[d]
  /\ \A t \in temps : t \in temps' \/ t[1] = p \/ Stale(t)

-----------------------------------------------------------------------------
LEMMA PathFacts ==
  ASSUME NEW p \in Proc
  PROVE  /\ Database[p] \in Databases /\ Staging[p] \in Directories
         /\ Database[p] \notin Directories /\ Staging[p] \notin Databases
         /\ None # p
BY LifecycleAssumption, Zenon DEF Databases, Directories

LEMMA InitInv == Init => Inv
<1> SUFFICES ASSUME Init PROVE Inv
  OBVIOUS
<1>1. Off \in ProcType
  BY Zenon DEF Off, ProcType, Stages
<1>2. proc \in [Proc -> ProcType]
  BY <1>1, Zenon DEF Init
<1>3. TypeOK
  BY LifecycleAssumption DEF Init, TypeOK
<1>4. ASSUME NEW p \in Proc PROVE Own(p)
  BY <1>4, Zenon DEF Init, Own, Stage, Off, Connected, UnderDatabase, UnderStaging
<1> QED
  BY <1>2, <1>3, <1>4, Zenon DEF Inv
-----------------------------------------------------------------------------
(* One lemma per operation: what the step leaves of the state of others    *)
(* (Confined) and of its own (Own), and that the types are kept.           *)

\* An active connection, or an open listener, means that the process is serving.
LEMMA ActiveIsServing ==
  ASSUME Inv, NEW p \in Proc
  PROVE  /\ \A c \in Conn : proc[p].conns[c] # "none" => Stage(p) = "serving"
         /\ proc[p].listeners # {} => Stage(p) = "serving"
<1>1. Stage(p) # "serving" => proc[p].listeners = {} /\ ~Connected(p)
  BY Zenon DEF Inv, Own
<1> QED
  BY <1>1, Zenon DEF Connected

\* A process in one of these stages holds its locks, and has a configured host.
LEMMA HoldsLock ==
  ASSUME Inv, NEW p \in Proc
  PROVE  /\ Stage(p) \in UnderDatabase => lock[Database[p]] = p /\ proc[p].host \in Host
         /\ Stage(p) \in UnderStaging => lock[Staging[p]] = p
BY Zenon DEF Inv, Own

\* Exit releases every lock of p, and nothing else.
LEMMA ExitReleases ==
  ASSUME Inv, NEW p \in Proc, Exit(p)
  PROVE  /\ proc' \in [Proc -> ProcType] /\ proc'[p] = Off
         /\ \A q \in Proc : q # p => proc'[q] = proc[q]
         /\ lock' \in [Databases \cup Directories -> Proc \cup {None}]
         /\ \A x \in Databases \cup Directories :
              lock'[x] = IF lock[x] = p THEN None ELSE lock[x]
<1>1. Off \in ProcType
  BY Zenon DEF Off, ProcType, Stages
<1> QED
  BY <1>1, Zenon DEF Inv, TypeOK, Exit

\* A process that has exited relies on nothing.
LEMMA OffOwns ==
  ASSUME NEW p \in Proc, proc'[p] = Off
  PROVE  Own(p)' /\ ~Alive(p)'
BY DEF Own, Stage, Off, Connected, UnderDatabase, UnderStaging, Alive

LEMMA ExitTypes ==
  ASSUME Inv, NEW p \in Proc, Exit(p)
  PROVE  \A x \in DOMAIN lock' : lock'[x] # None => Alive(lock[x])'
<1>1. SUFFICES ASSUME NEW x \in Databases \cup Directories, lock'[x] # None
      PROVE  Alive(lock[x])'
  BY ExitReleases, Zenon
<1>2. lock'[x] = lock[x] /\ lock[x] # p /\ lock[x] \in Proc
  BY <1>1, ExitReleases DEF Inv, TypeOK
<1>3. Alive(lock[x]) /\ proc'[lock'[x]] = proc[lock[x]]
  BY <1>1, <1>2, ExitReleases, Zenon DEF Inv, TypeOK
<1> QED
  BY <1>2, <1>3, Zenon DEF Alive, Stage

\* What the steps below share: p ends.
LEMMA ExitStep ==
  ASSUME Inv, NEW p \in Proc, Exit(p),
         UNCHANGED <<dir, files, hosts, rows, temps>>
  PROVE  Confined(p) /\ Own(p)' /\ proc' \in [Proc -> ProcType] /\ TypeOK'
<1>1. Confined(p)
  BY ExitReleases, Zenon DEF Confined
<1>2. TypeOK'
  BY ExitReleases, ExitTypes, Zenon DEF Inv, TypeOK
<1> QED
  BY <1>1, <1>2, ExitReleases, OffOwns, Zenon

\* To changes one stage and nothing else.
LEMMA StageSet ==
  ASSUME Inv, NEW p \in Proc, NEW s \in Stages, To(p, s)
  PROVE  /\ proc' \in [Proc -> ProcType]
         /\ Stage(p)' = s
         /\ proc'[p].listeners = proc[p].listeners /\ proc'[p].conns = proc[p].conns
         /\ proc'[p].host = proc[p].host /\ proc'[p].known = proc[p].known
         /\ \A q \in Proc : q # p => proc'[q] = proc[q]
<1>1. proc' = [proc EXCEPT ![p] = [proc[p] EXCEPT !.stage = s]] /\ proc[p] \in ProcType
  BY Zenon DEF Inv, To, ProcType
<1>2. [proc[p] EXCEPT !.stage = s] \in ProcType
  BY <1>1, Zenon DEF ProcType
<1>3. proc' \in [Proc -> ProcType] /\ proc'[p] = [proc[p] EXCEPT !.stage = s]
  BY <1>1, <1>2, Zenon DEF Inv
<1> QED
  BY <1>1, <1>3, Zenon DEF Inv, ProcType, Stage

\* The stage of p changes, to one that relies on no more, and nothing else.
LEMMA StageStep ==
  ASSUME Inv, NEW p \in Proc, NEW s \in Stages \ {"off", "serving", "stream"}, To(p, s),
         Alive(p) \/ s \notin UnderDatabase,
         ~Connected(p), proc[p].listeners = {},
         s \in UnderDatabase => Stage(p) \in UnderDatabase,
         s \in UnderStaging => Stage(p) \in UnderStaging,
         UNCHANGED <<lock, hosts, rows>>
  PROVE  /\ proc' \in [Proc -> ProcType]
         /\ \A q \in Proc : q # p => proc'[q] = proc[q]
         /\ Own(p)'
         /\ \A x \in DOMAIN lock' : lock'[x] # None => Alive(lock[x])'
<1>1. /\ proc' \in [Proc -> ProcType]
      /\ \A q \in Proc : q # p => proc'[q] = proc[q]
  BY StageSet, Zenon
<1>2. /\ Stage(p)' = s /\ proc'[p].listeners = {} /\ \A c \in Conn : proc'[p].conns[c] = "none"
  BY StageSet, Zenon DEF Connected
<1>3. Own(p)'
  BY <1>2, StageSet, HoldsLock, Zenon DEF Own, Connected
<1>4. ASSUME NEW x \in DOMAIN lock', lock'[x] # None PROVE Alive(lock[x])'
  BY <1>1, <1>2, <1>4, Zenon DEF Inv, TypeOK, Alive, Stage
<1> QED
  BY <1>1, <1>3, <1>4, Zenon

-----------------------------------------------------------------------------
\* What every step of a process p does.
Keeps(p) == Confined(p) /\ Own(p)' /\ proc' \in [Proc -> ProcType] /\ TypeOK'

LEMMA EndKeeps ==
  ASSUME Inv, NEW p \in Proc, Kill(p) \/ DrainTimeout(p) \/ Stop(p)
  PROVE  Keeps(p)
BY ExitStep, Zenon DEF Keeps, Kill, DrainTimeout, Stop

\* p takes the free lock of its database and leaves the off state.
LEMMA LockDatabase ==
  ASSUME Inv, NEW p \in Proc, NEW h \in Host, NEW s \in {"locked", "rebind", "purge"},
         Locks(p, Database[p]), Stage(p) = "off",
         proc' = [proc EXCEPT ![p] = [Off EXCEPT !.stage = s, !.host = h]],
         UNCHANGED <<dir, files, hosts, rows, temps>>
  PROVE  Keeps(p)
<1> DEFINE new == [Off EXCEPT !.stage = s, !.host = h]
<1>1. new \in ProcType /\ new.stage = s /\ new.listeners = {} /\ \A c \in Conn : new.conns[c] = "none"
  BY Zenon DEF Off, ProcType, Stages, UnderDatabase
<1>2. /\ proc' \in [Proc -> ProcType] /\ proc'[p] = new
      /\ \A q \in Proc : q # p => proc'[q] = proc[q]
  BY <1>1, Zenon DEF Inv
<1>3. /\ lock[Database[p]] = None /\ lock'[Database[p]] = p
      /\ \A x \in Databases \cup Directories : x # Database[p] => lock'[x] = lock[x]
      /\ lock' \in [Databases \cup Directories -> Proc \cup {None}]
  BY PathFacts, Zenon DEF Inv, TypeOK, Locks
<1>4. Confined(p)
  BY <1>2, <1>3, Zenon DEF Confined
<1>5. Own(p)'
  BY <1>1, <1>2, <1>3 DEF Own, Stage, Connected, UnderStaging
<1>6. ASSUME NEW x \in Databases \cup Directories, lock'[x] # None PROVE Alive(lock[x])'
  <2>1. CASE x = Database[p]
    BY <1>1, <1>2, <1>3, <2>1, Zenon DEF Alive, Stage
  <2>2. CASE x # Database[p]
    <3>1. lock'[x] = lock[x] /\ Alive(lock[x]) /\ lock[x] \in Proc
      BY <1>3, <1>6, <2>2, Zenon DEF Inv, TypeOK
    <3>2. lock[x] # p
      BY <3>1, Zenon DEF Alive
    <3> QED
      BY <1>2, <3>1, <3>2, Zenon DEF Alive, Stage
  <2> QED
    BY <2>1, <2>2, Zenon
<1>7. TypeOK'
  BY <1>3, <1>6, Zenon DEF Inv, TypeOK
<1> QED
  BY <1>2, <1>4, <1>5, <1>7, Zenon DEF Keeps

LEMMA StartKeeps ==
  ASSUME Inv, NEW p \in Proc, NEW h \in Host,
         StartServer(p, h) \/ StartCommand(p, "rebind", h) \/ StartCommand(p, "purge", h)
  PROVE  Keeps(p)
BY LockDatabase, Zenon DEF StartServer, StartCommand

LEMMA LockStagingKeeps ==
  ASSUME Inv, NEW p \in Proc, LockStaging(p)
  PROVE  Keeps(p)
<1>1. CASE lock[Staging[p]] # None
  BY <1>1, ExitStep, Zenon DEF LockStaging, Keeps
<1>2. CASE lock[Staging[p]] = None
  <2>1. /\ proc' \in [Proc -> ProcType] /\ Stage(p)' = "prepare"
        /\ proc'[p].listeners = proc[p].listeners /\ proc'[p].conns = proc[p].conns
        /\ proc'[p].host = proc[p].host
        /\ \A q \in Proc : q # p => proc'[q] = proc[q]
    BY <1>2, StageSet, Zenon DEF LockStaging, Stages, UnderDatabase, UnderStaging
  <2>2. /\ lock'[Staging[p]] = p
        /\ \A x \in Databases \cup Directories : x # Staging[p] => lock'[x] = lock[x]
        /\ lock' \in [Databases \cup Directories -> Proc \cup {None}]
    BY <1>2, PathFacts DEF LockStaging, Locks, Inv, TypeOK
  <2>3. Confined(p)
    BY <1>2, <2>1, <2>2, Zenon DEF Confined, LockStaging
  <2>4. /\ Stage(p) = "locked" /\ proc'[p].listeners = {}
        /\ \A c \in Conn : proc'[p].conns[c] = "none"
    BY <2>1, ActiveIsServing, Zenon DEF LockStaging
  <2>5. Own(p)'
    <3>1. lock'[Database[p]] = p
      BY <2>2, <2>4, HoldsLock, PathFacts, Zenon DEF UnderDatabase
    <3>2. proc'[p].host \in Host
      BY <2>1, <2>4, HoldsLock, Zenon DEF UnderDatabase
    <3> QED
      BY <2>1, <2>2, <2>4, <3>1, <3>2, Zenon DEF Own, Connected
  <2>6. ASSUME NEW x \in Databases \cup Directories, lock'[x] # None PROVE Alive(lock[x])'
    <3>1. CASE lock'[x] = p
      BY <2>1, <3>1, Zenon DEF Alive
    <3>2. CASE lock'[x] # p
      BY <2>1, <2>2, <2>6, <3>2 DEF Inv, TypeOK, Alive, Stage
    <3> QED
      BY <3>1, <3>2, Zenon
  <2>7. TypeOK'
    BY <2>2, <2>6, Zenon DEF Inv, TypeOK, LockStaging
  <2> QED
    BY <2>1, <2>3, <2>5, <2>7, Zenon DEF Keeps
<1> QED
  BY <1>1, <1>2, Zenon

\* The remaining steps of a start, and of an end, leave the locks alone.
LEMMA PrepareKeeps ==
  ASSUME Inv, NEW p \in Proc,
         PrepareStaging(p) \/ WriteMarker(p) \/ CleanupStaging(p) \/ CleanupAfterDrain(p)
  PROVE  Keeps(p)
<1>1. CASE Exit(p) /\ UNCHANGED <<dir, files, hosts, rows, temps>>
  BY <1>1, ExitStep, Zenon DEF Keeps
<1>2. CASE /\ UNCHANGED <<proc, lock, files, hosts, rows, temps>> /\ Stage(p) = "prepare"
           /\ dir' = [dir EXCEPT ![Staging[p]] = "unmarked"]
  <2>1. Confined(p)
    BY <1>2, Zenon DEF Confined
  <2>2. Own(p)'
    BY <1>2, Zenon DEF Inv, Own, Stage, Connected, File
  <2>3. TypeOK'
    BY <1>2, Zenon DEF Inv, TypeOK, Alive, Stage
  <2> QED
    BY <1>2, <2>1, <2>2, <2>3, Zenon DEF Keeps, Inv
<1>3. CASE /\ \E s \in {"mark", "cleanup", "open", "stopped"} : To(p, s)
           /\ Stage(p) \in UnderStaging \ {"serving"}
           /\ dir' \in [Directories -> {"absent", "unmarked", "torn", "marked"}]
           /\ files' \in {files, Cleaned(p)}
           /\ UNCHANGED <<lock, hosts, rows, temps>>
  <2> PICK s \in {"mark", "cleanup", "open", "stopped"} : To(p, s)
    BY <1>3, Zenon
  <2>1. /\ proc' \in [Proc -> ProcType] /\ Own(p)'
        /\ \A q \in Proc : q # p => proc'[q] = proc[q]
        /\ \A x \in DOMAIN lock' : lock'[x] # None => Alive(lock[x])'
    <3>1. s \in Stages \ {"off", "serving", "stream"}
      BY Zenon DEF Stages, UnderDatabase, UnderStaging
    <3>2. Stage(p) \in UnderStaging /\ Stage(p) \in UnderDatabase /\ Stage(p) # "serving"
      BY <1>3, Zenon DEF UnderDatabase
    <3>3. Alive(p)
      BY <3>2, Zenon DEF Alive, UnderDatabase, UnderStaging
    <3>4. ~Connected(p) /\ proc[p].listeners = {}
      BY <3>2, Zenon DEF Inv, Own
    <3> QED
      BY <1>3, <3>1, <3>2, <3>3, <3>4, StageStep, Zenon
  <2>2. Confined(p)
    BY <1>3, <2>1, Zenon DEF Confined, Cleaned
  <2>3. TypeOK'
    BY <1>3, <2>1, Zenon DEF Inv, TypeOK, Cleaned
  <2> QED
    BY <2>1, <2>2, <2>3, Zenon DEF Keeps
<1>4. dir \in [Directories -> {"absent", "unmarked", "torn", "marked"}] /\ Staging[p] \in Directories
  BY PathFacts, Zenon DEF Inv, TypeOK
<1>5. CASE PrepareStaging(p)
  BY <1>1, <1>2, <1>3, <1>4, <1>5, Zenon DEF PrepareStaging, UnderStaging
<1>6. CASE WriteMarker(p)
  BY <1>3, <1>4, <1>6, Zenon DEF WriteMarker, UnderStaging
<1>7. CASE CleanupStaging(p) \/ CleanupAfterDrain(p)
  BY <1>3, <1>4, <1>7, Zenon DEF CleanupStaging, CleanupAfterDrain, UnderStaging
<1> QED
  BY <1>5, <1>6, <1>7, Zenon

LEMMA OpenKeeps ==
  ASSUME Inv, NEW p \in Proc, Open(p)
  PROVE  Keeps(p)
<1>1. CASE ~(hosts[Database[p]] \subseteq {proc[p].host})
  BY <1>1, ExitStep, Zenon DEF Open, Keeps
<1>2. CASE hosts[Database[p]] \subseteq {proc[p].host}
  <2> DEFINE new == [proc[p] EXCEPT !.stage = "serving", !.listeners = Listener,
                                    !.known = rows[Database[p]]]
  <2>1. proc[p] \in ProcType /\ rows[Database[p]] \in Nat /\ Stage(p) = "open"
    BY PathFacts, LifecycleAssumption DEF Inv, TypeOK, Open
  <2>2. new \in ProcType /\ new.stage = "serving" /\ new.known = rows[Database[p]]
        /\ new.host = proc[p].host /\ new.conns = proc[p].conns
    BY <2>1, Zenon DEF ProcType, Stages, UnderDatabase, UnderStaging
  <2>3. proc' = [proc EXCEPT ![p] = new] /\ UNCHANGED <<lock, dir, files, hosts, rows, temps>>
    BY <1>2, Zenon DEF Open, Inv, ProcType
  <2> HIDE DEF new
  <2>4. /\ proc' \in [Proc -> ProcType] /\ proc'[p] = new
        /\ \A q \in Proc : q # p => proc'[q] = proc[q]
    BY <2>2, <2>3, Zenon DEF Inv
  <2>5. Confined(p)
    BY <2>3, <2>4, Zenon DEF Confined
  <2>6. \A c \in Conn : proc[p].conns[c] = "none"
    BY <2>1, ActiveIsServing, Zenon
  <2>7. lock[Database[p]] = p /\ lock[Staging[p]] = p /\ proc[p].host \in Host
    BY <2>1, HoldsLock, Zenon DEF UnderDatabase, UnderStaging
  <2>8. Own(p)'
    BY <1>2, <2>2, <2>3, <2>4, <2>6, <2>7, Zenon DEF Own, Stage
  <2>9. TypeOK'
    BY <2>1, <2>2, <2>3, <2>4, Zenon DEF Inv, TypeOK, Alive, Stage
  <2> QED
    BY <2>4, <2>5, <2>8, <2>9, Zenon DEF Keeps
<1> QED
  BY <1>1, <1>2, Zenon

\* A serving process changes its own record and stays one.
LEMMA ServingRecord ==
  ASSUME Inv, NEW p \in Proc, Stage(p) = "serving", NEW new \in ProcType,
         new.stage = "serving", proc' = [proc EXCEPT ![p] = new],
         UNCHANGED <<lock, dir, temps>>
  PROVE  /\ proc' \in [Proc -> ProcType] /\ proc'[p] = new
         /\ \A q \in Proc : q # p => proc'[q] = proc[q]
         /\ Stage(p)' = "serving"
         /\ lock'[Database[p]] = p /\ lock'[Staging[p]] = p
         /\ \A x \in DOMAIN lock' : lock'[x] # None => Alive(lock[x])'
<1>1. /\ proc' \in [Proc -> ProcType] /\ proc'[p] = new
      /\ \A q \in Proc : q # p => proc'[q] = proc[q]
  BY Zenon DEF Inv
<1>2. Stage(p)' = "serving"
  BY <1>1, Zenon DEF Stage
<1>3. lock'[Database[p]] = p /\ lock'[Staging[p]] = p
  BY Zenon DEF Inv, Own, UnderDatabase, UnderStaging
<1>4. ASSUME NEW x \in DOMAIN lock', lock'[x] # None PROVE Alive(lock[x])'
  BY <1>1, <1>2, <1>4, Zenon DEF Inv, TypeOK, Alive, Stage
<1> QED
  BY <1>1, <1>2, <1>3, <1>4, Zenon

\* The record of p with connection c in state s and n revisions counted.
ConnRecord(p, c, s, n) ==
  [proc[p] EXCEPT !.conns = [proc[p].conns EXCEPT ![c] = s], !.known = n]

\* A step of one connection, with the file of its upload and the count of revisions.
LEMMA ConnStep ==
  ASSUME Inv, NEW p \in Proc, NEW c \in Conn, Stage(p) = "serving",
         NEW s \in {"none", "open", "uploading"}, NEW n \in 0..MaxRows,
         proc' = [proc EXCEPT ![p] = ConnRecord(p, c, s, n)],
         rows' = [rows EXCEPT ![Database[p]] = n],
         files' \subseteq files \cup {File(p, c)}, files \ {File(p, c)} \subseteq files',
         s = "uploading" => File(p, c) \in files',
         UNCHANGED <<lock, dir, hosts, temps>>
  PROVE  Keeps(p)
<1> DEFINE new == ConnRecord(p, c, s, n)
<1>1. proc[p] \in ProcType /\ Stage(p) = proc[p].stage
  BY Zenon DEF Inv, Stage
<1>0. n \in Nat
  BY LifecycleAssumption
<1>2. /\ new \in ProcType /\ new.stage = "serving" /\ new.known = n /\ new.host = proc[p].host
      /\ new.conns[c] = s /\ \A e \in Conn : e # c => new.conns[e] = proc[p].conns[e]
  BY <1>0, <1>1, Zenon DEF ProcType, ConnRecord
<1>3. proc' = [proc EXCEPT ![p] = new]
  OBVIOUS
<1> HIDE DEF new
<1>4. /\ proc' \in [Proc -> ProcType] /\ proc'[p] = new
      /\ \A q \in Proc : q # p => proc'[q] = proc[q]
      /\ Stage(p)' = "serving"
      /\ lock'[Database[p]] = p /\ lock'[Staging[p]] = p
      /\ \A x \in DOMAIN lock' : lock'[x] # None => Alive(lock[x])'
  BY <1>2, <1>3, ServingRecord, ZenonT(40)
<1>5. rows' \in [Databases -> 0..MaxRows] /\ rows'[Database[p]] = n
      /\ \A d \in Databases \ {Database[p]} : rows'[d] = rows[d]
  BY PathFacts, LifecycleAssumption, Zenon DEF Inv, TypeOK
<1>6. \A e \in Conn : e # c => File(p, e) # File(p, c)
  BY Zenon DEF File
<1>7. Confined(p)
  BY <1>4, <1>5 DEF Confined, File, UnderDatabase, UnderStaging
<1>8. \A e \in Conn : new.conns[e] = "uploading" => File(p, e) \in files'
  BY <1>2, <1>6, Zenon DEF Inv, Own
<1>9. Own(p)'
  <2>1. hosts[Database[p]] \subseteq {proc[p].host} /\ proc[p].host \in Host
    BY HoldsLock, Zenon DEF Inv, Own, UnderDatabase, UnderStaging
  <2>2. \A e \in Conn : File(p, e)' = File(p, e)
    BY Zenon DEF File
  <2> QED
    BY <1>2, <1>4, <1>5, <1>8, <2>1, <2>2, Zenon DEF Own
<1>10. File(p, c) \in [dir : Directories, proc : Proc, conn : Conn]
  BY PathFacts, Zenon DEF File
<1>11. TypeOK'
  BY <1>4, <1>5, <1>10, Zenon DEF Inv, TypeOK
<1> QED
  BY <1>4, <1>7, <1>9, <1>11, Zenon DEF Keeps

LEMMA ConnKeeps ==
  ASSUME Inv, NEW p \in Proc, NEW c \in Conn,
         Connect(p, c) \/ BeginUpload(p, c) \/ CommitUpload(p, c) \/ Disconnect(p, c)
  PROVE  Keeps(p)
<1>1. Stage(p) = "serving"
  BY ActiveIsServing, Zenon DEF Connect, BeginUpload, CommitUpload, Disconnect
<1>2. /\ proc \in [Proc -> ProcType] /\ proc[p].known = rows[Database[p]]
      /\ rows \in [Databases -> 0..MaxRows] /\ Database[p] \in Databases
  BY <1>1, PathFacts, Zenon DEF Inv, Own, TypeOK
<1>3. ASSUME NEW s \in {"none", "open", "uploading"}, Set(p, c, s)
      PROVE  proc' = [proc EXCEPT ![p] = ConnRecord(p, c, s, rows[Database[p]])]
  BY <1>2, <1>3, Zenon DEF Set, ConnRecord, ProcType
<1>4. ASSUME rows' = rows PROVE rows' = [rows EXCEPT ![Database[p]] = rows[Database[p]]]
  BY <1>2, <1>4, Zenon
<1>5. CASE Connect(p, c)
  BY <1>1, <1>2, <1>3, <1>4, <1>5, ConnStep, Zenon DEF Connect
<1>6. CASE BeginUpload(p, c)
  BY <1>1, <1>2, <1>3, <1>4, <1>6, ConnStep, Zenon DEF BeginUpload
<1>7. CASE Disconnect(p, c)
  BY <1>1, <1>2, <1>3, <1>4, <1>7, ConnStep, Zenon DEF Disconnect
<1>8. CASE CommitUpload(p, c)
  <2> DEFINE n == rows[Database[p]] + 1
  <2>1. n \in 0..MaxRows /\ rows' = [rows EXCEPT ![Database[p]] = n]
    BY <1>2, <1>8, LifecycleAssumption DEF CommitUpload
  <2>2. proc' = [proc EXCEPT ![p] = ConnRecord(p, c, "open", n)]
    BY <1>2, <1>8, Zenon DEF CommitUpload, ConnRecord, ProcType
  <2> QED
    BY <1>1, <1>8, <2>1, <2>2, ConnStep, Zenon DEF CommitUpload
<1> QED
  BY <1>5, <1>6, <1>7, <1>8, Zenon

\* A vault is created, a signal arrives, a listener ends.
LEMMA ListenerKeeps ==
  ASSUME Inv, NEW p \in Proc,
         \/ Signal(p)
         \/ \E l \in Listener : ListenerFails(p, l) \/ ClientFinishes(p, l) \/ ListenerStops(p, l)
  PROVE  Keeps(p)
<1>1. Stage(p) = "serving" /\ UNCHANGED <<lock, dir, files, hosts, rows, temps>>
  BY ActiveIsServing, Zenon DEF Signal, ListenerFails, ClientFinishes, ListenerStops
<1>2. PICK down \in BOOLEAN, ls \in SUBSET Listener, hs \in SUBSET Listener :
        proc' = [proc EXCEPT ![p] = [proc[p] EXCEPT !.shutdown = down, !.listeners = ls, !.held = hs]]
  <2>1. proc \in [Proc -> ProcType] /\ proc[p] \in ProcType
    BY Zenon DEF Inv
  <2>2. proc[p].listeners \in SUBSET Listener /\ proc[p].held \in SUBSET Listener /\ proc[p].shutdown \in BOOLEAN
    BY <2>1, Zenon DEF ProcType
  <2>3. ASSUME NEW left \in SUBSET Listener, Shutdown(p, left)
        PROVE  \E hs \in SUBSET Listener :
                 proc' = [proc EXCEPT ![p] = [proc[p] EXCEPT !.shutdown = TRUE, !.listeners = left, !.held = hs]]
    BY <2>1, <2>3, Zenon DEF Shutdown, ProcType
  <2>4. CASE Signal(p)
    BY <2>2, <2>3, <2>4, Zenon DEF Signal
  <2>5. ASSUME NEW l \in Listener, ListenerFails(p, l)
        PROVE  \E hs \in SUBSET Listener :
                 proc' = [proc EXCEPT ![p] = [proc[p] EXCEPT !.shutdown = TRUE,
                                                             !.listeners = proc[p].listeners \ {l}, !.held = hs]]
    BY <2>2, <2>3, <2>5, Zenon DEF ListenerFails
  <2>6. ASSUME NEW l \in Listener, ClientFinishes(p, l)
        PROVE  proc' = [proc EXCEPT ![p] = [proc[p] EXCEPT !.shutdown = proc[p].shutdown,
                                                           !.listeners = proc[p].listeners,
                                                           !.held = proc[p].held \ {l}]]
    BY <2>1, <2>6, Zenon DEF ClientFinishes, ProcType
  <2>7. ASSUME NEW l \in Listener, ListenerStops(p, l)
        PROVE  proc' = [proc EXCEPT ![p] = [proc[p] EXCEPT !.shutdown = proc[p].shutdown,
                                                           !.listeners = proc[p].listeners \ {l},
                                                           !.held = proc[p].held]]
    BY <2>1, <2>7, Zenon DEF ListenerStops, ProcType
  <2>8. CASE \E l \in Listener : ListenerFails(p, l)
    BY <2>2, <2>5, <2>8, Zenon
  <2>9. CASE \E l \in Listener : ClientFinishes(p, l)
    BY <2>2, <2>6, <2>9, Zenon
  <2>10. CASE \E l \in Listener : ListenerStops(p, l)
    BY <2>2, <2>7, <2>10, Zenon
  <2> QED
    BY <2>4, <2>8, <2>9, <2>10, Zenon
<1> DEFINE new == [proc[p] EXCEPT !.shutdown = down, !.listeners = ls, !.held = hs]
<1>3. /\ new \in ProcType /\ new.stage = "serving" /\ new.known = proc[p].known
      /\ new.host = proc[p].host /\ new.conns = proc[p].conns
  BY <1>1, ZenonT(40) DEF Inv, ProcType, Stage
<1>4. proc' = [proc EXCEPT ![p] = new]
  BY <1>2, Zenon
<1> HIDE DEF new
<1>5. /\ proc' \in [Proc -> ProcType] /\ proc'[p] = new
      /\ \A q \in Proc : q # p => proc'[q] = proc[q]
      /\ Stage(p)' = "serving"
      /\ lock'[Database[p]] = p /\ lock'[Staging[p]] = p
      /\ \A x \in DOMAIN lock' : lock'[x] # None => Alive(lock[x])'
  BY <1>1, <1>3, <1>4, ServingRecord, Zenon
<1>6. Confined(p)
  BY <1>1, <1>5, Zenon DEF Confined
<1>7. Own(p)'
  <2>1. /\ \A c \in Conn : proc[p].conns[c] = "uploading" => File(p, c) \in files
        /\ proc[p].known = rows[Database[p]] /\ hosts[Database[p]] \subseteq {proc[p].host}
        /\ proc[p].host \in Host
    BY <1>1, Zenon DEF Inv, Own, UnderDatabase, UnderStaging
  <2> QED
    BY <1>1, <1>3, <1>5, <2>1, Zenon DEF Own, File
<1>8. TypeOK'
  BY <1>1, <1>5, Zenon DEF Inv, TypeOK
<1> QED
  BY <1>5, <1>6, <1>7, <1>8, Zenon DEF Keeps

LEMMA CreateVaultKeeps ==
  ASSUME Inv, NEW p \in Proc, CreateVault(p)
  PROVE  Keeps(p)
<1>1. Stage(p) = "serving" /\ UNCHANGED <<proc, lock, dir, files, rows, temps>>
  BY ActiveIsServing, Zenon DEF CreateVault
<1>2. hosts[Database[p]] \subseteq {proc[p].host} /\ Own(p) /\ proc[p].host \in Host
  BY <1>1, Zenon DEF Inv, Own, UnderDatabase, UnderStaging
<1>3. /\ hosts' \in [Databases -> SUBSET Host]
      /\ hosts'[Database[p]] = hosts[Database[p]] \cup {proc[p].host}
      /\ \A d \in Databases \ {Database[p]} : hosts'[d] = hosts[d]
  BY <1>2, PathFacts, Zenon DEF CreateVault, Inv, TypeOK
<1>4. Confined(p)
  BY <1>1, <1>3, Zenon DEF Confined, UnderDatabase, UnderStaging
<1>5. Own(p)'
  BY <1>1, <1>2, <1>3, Zenon DEF Own, Stage, Connected, File
<1>6. TypeOK'
  BY <1>1, <1>3, Zenon DEF Inv, TypeOK, Alive, Stage
<1> QED
  BY <1>1, <1>4, <1>5, <1>6, Zenon DEF Keeps, Inv

-----------------------------------------------------------------------------
(* Draining, the offline commands and the streamed backups.                *)

LEMMA DrainKeeps ==
  ASSUME Inv, NEW p \in Proc, Drain(p) \/ StartStream(p)
  PROVE  Keeps(p)
<1>1. UNCHANGED <<lock, dir, files, hosts, rows, temps>>
  BY Zenon DEF Drain, StartStream
<1>2. /\ proc' \in [Proc -> ProcType] /\ Own(p)'
      /\ \A q \in Proc : q # p => proc'[q] = proc[q]
      /\ \A x \in DOMAIN lock' : lock'[x] # None => Alive(lock[x])'
  <2>1. CASE Drain(p)
    BY <1>1, <2>1, StageStep, Zenon DEF Drain, Stages, UnderDatabase, UnderStaging, Alive
  <2>2. CASE StartStream(p)
    <3>1. proc[p].listeners = {} /\ ~Connected(p)
      BY <2>2, ActiveIsServing, Zenon DEF StartStream, Connected
    <3> QED
      BY <1>1, <2>2, <3>1, StageStep, Zenon DEF StartStream, Stages, UnderDatabase, UnderStaging
  <2> QED
    BY <2>1, <2>2, Zenon
<1>3. Confined(p)
  BY <1>1, <1>2, Zenon DEF Confined
<1>4. TypeOK'
  BY <1>1, <1>2, Zenon DEF Inv, TypeOK
<1> QED
  BY <1>2, <1>3, <1>4, Zenon DEF Keeps

LEMMA CommandKeeps ==
  ASSUME Inv, NEW p \in Proc, Command(p)
  PROVE  Keeps(p)
<1>1. Exit(p) /\ Stage(p) \in UnderDatabase /\ UNCHANGED <<dir, files, temps>>
  BY Zenon DEF Command, Rebind, Purge, UnderDatabase
<1>2. /\ rows' \in [Databases -> 0..MaxRows]
      /\ \A d \in Databases \ {Database[p]} : rows'[d] = rows[d]
  <2>1. CASE Rebind(p)
    BY <2>1, Zenon DEF Rebind, Inv, TypeOK
  <2>2. CASE Purge(p)
    BY <2>2, PathFacts, LifecycleAssumption DEF Purge, Inv, TypeOK
  <2> QED
    BY <2>1, <2>2, Zenon DEF Command
<1>3. /\ hosts' \in [Databases -> SUBSET Host]
      /\ \A d \in Databases \ {Database[p]} : hosts'[d] = hosts[d]
  <2>1. CASE Rebind(p)
    BY <1>1, <2>1, HoldsLock, PathFacts DEF Rebind, Inv, TypeOK
  <2>2. CASE Purge(p)
    BY <2>2, Zenon DEF Purge, Inv, TypeOK
  <2> QED
    BY <2>1, <2>2, Zenon DEF Command
<1>4. Confined(p)
  BY <1>1, <1>2, <1>3, ExitReleases, SMTT(40) DEF Confined
<1>5. TypeOK'
  BY <1>1, <1>2, <1>3, ExitReleases, ExitTypes, Zenon DEF Inv, TypeOK
<1> QED
  BY <1>1, <1>4, <1>5, ExitReleases, OffOwns, Zenon DEF Keeps

LEMMA StreamKeeps ==
  ASSUME Inv, NEW p \in Proc, CleanStreams(p) \/ AllocateStream(p) \/ EndStream(p)
  PROVE  Keeps(p)
<1>1. CASE CleanStreams(p)
  <2>1. UNCHANGED <<lock, dir, files, hosts, rows>> /\ temps' = {t \in temps : ~Stale(t)}
    BY <1>1, Zenon DEF CleanStreams
  <2>2. proc[p].listeners = {} /\ ~Connected(p)
    BY <1>1, ActiveIsServing, Zenon DEF CleanStreams, Connected
  <2>3. /\ proc' \in [Proc -> ProcType] /\ Own(p)'
        /\ \A q \in Proc : q # p => proc'[q] = proc[q]
        /\ \A x \in DOMAIN lock' : lock'[x] # None => Alive(lock[x])'
    BY <1>1, <2>1, <2>2, StageStep, Zenon DEF CleanStreams, Stages, UnderDatabase, UnderStaging
  <2>4. Confined(p)
    BY <2>1, <2>3, Zenon DEF Confined
  <2>5. TypeOK'
    BY <2>1, <2>3, Zenon DEF Inv, TypeOK
  <2> QED
    BY <2>3, <2>4, <2>5, Zenon DEF Keeps
<1>2. CASE EndStream(p)
  <2>1. Exit(p) /\ UNCHANGED <<dir, files, hosts, rows>> /\ temps' = temps \ {<<p, proc[p].nonce>>}
    BY <1>2, Zenon DEF EndStream
  <2>2. Confined(p)
    BY <2>1, ExitReleases DEF Confined
  <2>3. TypeOK'
    BY <2>1, ExitReleases, ExitTypes, Zenon DEF Inv, TypeOK
  <2> QED
    BY <2>1, <2>2, <2>3, ExitReleases, OffOwns, Zenon DEF Keeps
<1>3. CASE AllocateStream(p)
  <2>1. CASE Exit(p) /\ UNCHANGED <<dir, files, hosts, rows, temps>>
    BY <2>1, ExitStep, Zenon DEF Keeps
  <2>2. ASSUME NEW n \in Nonce, UNCHANGED <<lock, dir, files, hosts, rows>>,
               proc' = [proc EXCEPT ![p].stage = "stream", ![p].nonce = n],
               temps' = temps \cup {<<p, n>>}
        PROVE  Keeps(p)
    <3> DEFINE new == [proc[p] EXCEPT !.stage = "stream", !.nonce = n]
    <3>2. Stage(p) = "allocate"
      BY <1>3, Zenon DEF AllocateStream
    <3>3. new \in ProcType /\ new.stage = "stream" /\ new.nonce = n
          /\ new.listeners = proc[p].listeners /\ new.conns = proc[p].conns
      BY <2>2, ZenonT(40) DEF Inv, ProcType, Stages
    <3>4. proc' = [proc EXCEPT ![p] = new]
      BY <2>2, Zenon DEF Inv, ProcType
    <3> HIDE DEF new
    <3>5. /\ proc' \in [Proc -> ProcType] /\ proc'[p] = new
          /\ \A q \in Proc : q # p => proc'[q] = proc[q]
      BY <3>3, <3>4, Zenon DEF Inv
    <3>6. proc[p].listeners = {} /\ \A c \in Conn : proc[p].conns[c] = "none"
      BY <3>2, ActiveIsServing, Zenon
    <3>7. Own(p)'
      BY <2>2, <3>3, <3>5, <3>6 DEF Own, Stage, Connected, UnderDatabase, UnderStaging
    <3>8. Confined(p)
      BY <2>2, <3>2, <3>5, Zenon DEF Confined
    <3>9. ASSUME NEW x \in DOMAIN lock', lock'[x] # None PROVE Alive(lock[x])'
      BY <2>2, <3>3, <3>5, <3>9 DEF Inv, TypeOK, Alive, Stage
    <3>10. TypeOK'
      BY <2>2, <3>9, SMTT(40) DEF Inv, TypeOK
    <3> QED
      BY <3>5, <3>7, <3>8, <3>10, Zenon DEF Keeps
  <2> QED
    BY <1>3, <2>1, <2>2, Zenon DEF AllocateStream
<1> QED
  BY <1>1, <1>2, <1>3, Zenon

-----------------------------------------------------------------------------
\* What a step of p leaves to another process q: everything q relies on.
LEMMA OthersKept ==
  ASSUME Inv, NEW p \in Proc, Confined(p), NEW q \in Proc, q # p
  PROVE  Own(q)'
<1>1. proc'[q] = proc[q] /\ Own(q) /\ Own(p)
  BY Zenon DEF Confined, Inv
<1>2. /\ Database[q] \in Databases \cup Directories
      /\ Staging[q] \in Databases \cup Directories /\ None # q
  BY PathFacts, Zenon
<1>3. /\ Stage(q) \in UnderDatabase => lock'[Database[q]] = q
      /\ Stage(q) \in UnderStaging => lock'[Staging[q]] = q
  BY <1>2, HoldsLock, Zenon DEF Confined
<1>4. ASSUME NEW c \in Conn, proc[q].conns[c] = "uploading" PROVE File(q, c) \in files'
  <2>1. File(q, c) \in files /\ Stage(q) = "serving"
    BY <1>1, <1>4, ActiveIsServing, Zenon DEF Own
  <2>2. Stage(p) \in UnderStaging => Staging[p] # Staging[q]
    BY <2>1, HoldsLock, Zenon DEF UnderStaging
  <2> QED
    BY <2>1, <2>2, Zenon DEF Confined, File
<1>5. Stage(q) = "serving" => rows'[Database[q]] = rows[Database[q]]
                              /\ hosts'[Database[q]] = hosts[Database[q]]
  <2> SUFFICES ASSUME Stage(q) = "serving"
               PROVE  rows'[Database[q]] = rows[Database[q]] /\ hosts'[Database[q]] = hosts[Database[q]]
    OBVIOUS
  <2>1. Stage(p) \in UnderDatabase => Database[p] # Database[q]
    BY HoldsLock, Zenon DEF UnderDatabase, UnderStaging
  <2> QED
    BY <2>1, PathFacts, Zenon DEF Confined
<1>6. Stage(q) = "stream" => <<q, proc[q].nonce>> \in temps'
  BY <1>1, Zenon DEF Confined, Own, Stale, Alive
<1>7. Stage(q)' = Stage(q)
  BY <1>1, Zenon DEF Stage
<1> QED
  BY <1>1, <1>3, <1>4, <1>5, <1>6, <1>7, Zenon DEF Own, Connected, File

LEMMA NextInv == Inv /\ [Next]_vars => Inv'
<1> SUFFICES ASSUME Inv, [Next]_vars PROVE Inv'
  OBVIOUS
<1>1. ASSUME NEW p \in Proc, Step(p) PROVE Keeps(p)
  BY <1>1, EndKeeps, StartKeeps, LockStagingKeeps, PrepareKeeps, OpenKeeps, ConnKeeps, ListenerKeeps,
     CreateVaultKeeps, DrainKeeps, CommandKeeps, StreamKeeps
     DEF Step, Starting, Serving, Stopping, Streaming
<1>2. ASSUME NEW p \in Proc, Keeps(p) PROVE Inv'
  BY <1>2, OthersKept, Zenon DEF Inv, Keeps
<1>3. CASE Next
  BY <1>1, <1>2, <1>3, Zenon DEF Next, Step
<1>4. CASE UNCHANGED vars
  BY <1>4 DEF vars, Inv, TypeOK, Own, Stage, Connected, File, Alive
<1> QED
  BY <1>3, <1>4, Zenon

\* No step of a process, a kill included, breaks what another process relies on.
THEOREM Safe == Spec => []Inv
BY InitInv, NextInv, PTL DEF Spec

\* run: the lock files are held by processes that run, and every directory, row count
\* and streamed file is what the code takes it for.
THEOREM TypeCorrect == Spec => []TypeOK
BY Safe, PTL DEF Inv

\* run: no cleanup of staging, of this server or of another that shares the directory,
\* removes the file of an upload in progress: cleanup_staging runs only under the lock
\* of the directory, which the server of the upload holds until it ends.
THEOREM UploadsAreKept == Spec => []StagedKept
<1>1. Inv => StagedKept
  BY Zenon DEF Inv, Own, StagedKept
<1> QED
  BY <1>1, Safe, PTL

\* initialize_runtime_storage_usage: the count a server keeps for its quota is what is
\* stored, although only rows written through its own connection are counted.
THEOREM CountIsExact == Spec => []CountExact
<1>1. Inv => CountExact
  BY Zenon DEF Inv, Own, CountExact
<1> QED
  BY <1>1, Safe, PTL

\* run, rebind_data_host: no server serves a vault whose host is not its own, although
\* the hosts are compared only once, at the start.
THEOREM HostsAlwaysMatch == Spec => []HostsMatch
<1>1. Inv => HostsMatch
  BY Zenon DEF Inv, Own, HostsMatch
<1> QED
  BY <1>1, Safe, PTL

\* stream_verified_backup: the file being streamed stays until its own process removes
\* it, although streams clean up after each other and process ids come back.
THEOREM StreamsAreKept == Spec => []StreamKept
<1>1. Inv => StreamKept
  BY Zenon DEF Inv, Own, StreamKept
<1> QED
  BY <1>1, Safe, PTL
=============================================================================
