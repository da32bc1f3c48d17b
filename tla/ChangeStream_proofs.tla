------------------------- MODULE ChangeStream_proofs -------------------------
(***************************************************************************)
(* Theorems about ChangeStream, for any number of devices and paths, any   *)
(* page size, channel capacity and number of revisions.                    *)
(*                                                                         *)
(* First what a step does, seen from one device, the database or the       *)
(* stream; the types, and who holds commit_order.  Then the parts of the   *)
(* inductive invariant: commits, the boundary of init, the stream and its  *)
(* unread events keep the order of the uids, whatever fails.  Then the     *)
(* steps of OrderedFeed that they are, and the theorems.                   *)
(***************************************************************************)
EXTENDS ChangeStream, TLAPS

\* commit_order's holder is the task between its two steps; a waiting task
\* has a request; the commit being published is the vault's version.
PhaseInv ==
  \A c \in Conn :
    /\ pc[c] \in Holding <=> commitOrder = c
    /\ pc[c] = "wait" => req[c] \in Request
    /\ pc[c] = "publish" => committed[c] \in DOMAIN log /\ committed[c] = version
    /\ pc[c] \notin Following => pending[c] = None
    /\ pc[c] # "send" => page[c] = {}

-----------------------------------------------------------------------------
(* The pages of a replay.                                                  *)

\* What the pages need of sets and their sizes; CountingHolds cites the library.
Counting ==
  /\ \A S \in SUBSET Nat : S # {} => \E m \in S : \A x \in S : m <= x
  /\ \A n \in Nat : IsFiniteSet(0..n)
  /\ \A S : IsFiniteSet(S) =>
       /\ Cardinality(S) \in Nat
       /\ \A T \in SUBSET S : IsFiniteSet(T) /\ Cardinality(T) <= Cardinality(S)
       /\ \A x : x \notin S => Cardinality(S \cup {x}) = Cardinality(S) + 1
  /\ Cardinality({}) = 0

\* A nonempty set of bounded naturals has a greatest element.
LEMMA Greatest ==
  ASSUME Counting, NEW n \in Nat, NEW S \in SUBSET (0..n), S # {}
  PROVE  \E m \in S : \A x \in S : x <= m
<1> DEFINE T == {n - x : x \in S}
<1>1. T \in SUBSET Nat /\ T # {}
  <2>1. \A x \in S : n - x \in Nat
    OBVIOUS
  <2> QED BY <2>1, Zenon
<1>2. PICK t \in T : \A y \in T : t <= y
  BY <1>1, Zenon DEF Counting
<1>3. PICK m \in S : t = n - m
  BY Zenon
<1>4. ASSUME NEW x \in S PROVE x <= m
  <2>1. n - m <= n - x
    BY <1>2, <1>3, Zenon
  <2>2. x \in Nat /\ m \in Nat
    OBVIOUS
  <2> HIDE DEF T
  <2> QED BY <2>1, <2>2
<1> QED BY <1>4, Zenon

\* ORDER BY uid LIMIT n, as the replay relies on it: a page takes the first of
\* the revisions found, and all of them unless it is full.
PageFacts ==
  \A n \in Nat : \A S \in SUBSET (0..n) :
    /\ FirstPage(S) \subseteq S
    /\ S # {} => FirstPage(S) # {}
    /\ Cardinality(FirstPage(S)) # PageSize => FirstPage(S) = S
    /\ \A u \in FirstPage(S), w \in S : w <= u => w \in FirstPage(S)

\* What a page holds of a set of revisions.
LEMMA FirstPageFacts == Counting => PageFacts
<1> SUFFICES ASSUME Counting, NEW n \in Nat, NEW S \in SUBSET (0..n)
             PROVE  /\ FirstPage(S) \subseteq S
                    /\ S # {} => FirstPage(S) # {}
                    /\ Cardinality(FirstPage(S)) # PageSize => FirstPage(S) = S
                    /\ \A u \in FirstPage(S), w \in S : w <= u => w \in FirstPage(S)
  BY Zenon DEF PageFacts
<1> DEFINE Upto(u) == {w \in S : w <= u}
           P == FirstPage(S)
<1>1. P \subseteq S /\ P = {u \in S : Cardinality(Upto(u)) <= PageSize}
  BY Zenon DEF FirstPage
<1>0. S \subseteq Nat /\ P \in SUBSET S
  BY <1>1
<1> HIDE DEF P
<1>2. IsFiniteSet(S) /\ \A T \in SUBSET S : IsFiniteSet(T) /\ Cardinality(T) \in Nat
  <2>1. IsFiniteSet(S)
    BY Zenon DEF Counting
  <2> QED BY <2>1, Zenon DEF Counting
<1>3. PageSize \in Nat \ {0}
  BY ConstantsAssumption, Zenon
<1>4. \A u \in P, w \in S : w <= u => w \in P
  <2> SUFFICES ASSUME NEW u \in P, NEW w \in S, w <= u PROVE w \in P
    OBVIOUS
  <2>1. Upto(w) \in SUBSET Upto(u)
    <3>1. u \in Nat /\ w \in Nat /\ \A x \in S : x \in Nat
      BY <1>0, Zenon
    <3>2. ASSUME NEW x \in S, x <= w PROVE x <= u
      BY <3>1, <3>2
    <3> QED BY <3>2, Zenon
  <2>2. Cardinality(Upto(w)) <= Cardinality(Upto(u))
    BY <2>1, <1>2, Zenon DEF Counting
  <2>3. Cardinality(Upto(w)) \in Nat /\ Cardinality(Upto(u)) \in Nat
    BY <1>2, Zenon
  <2> QED BY <1>1, <1>3, <2>2, <2>3
<1>5. ASSUME S # {} PROVE P # {}
  <2>1. PICK m \in S : \A x \in S : m <= x
    BY <1>0, <1>5, Zenon DEF Counting
  <2>2. Upto(m) = {m}
    <3>1. \A x \in S : x \in Nat /\ m \in Nat
      BY <1>0, Zenon
    <3>2. ASSUME NEW x \in S, x <= m PROVE x = m
      BY <2>1, <3>1, <3>2
    <3>3. m <= m
      BY <3>1
    <3> QED BY <3>2, <3>3, Zenon
  <2>3. Cardinality(Upto(m)) = 1
    <3>1. Cardinality({}) = 0 /\ Cardinality({m}) = Cardinality({}) + 1
      <4>1. IsFiniteSet({}) /\ m \notin {} /\ {} \cup {m} = {m}
        BY <1>2, Zenon
      <4> QED BY <4>1, Zenon DEF Counting
    <3> QED BY <2>2, <3>1
  <2>4. m \in P
    BY <1>1, <1>3, <2>3
  <2> QED BY <2>4, Zenon
<1>6. ASSUME P # S PROVE Cardinality(P) = PageSize
  <2>1. PICK m \in S \ P : \A x \in S \ P : m <= x
    <3>1. S \ P \in SUBSET Nat /\ S \ P # {}
      BY <1>0, <1>6, Zenon
    <3> QED BY <3>1, Zenon DEF Counting
  <2>2. \A x \in S : x \in Nat /\ m \in Nat
    BY <1>0, Zenon
  <2>3. Upto(m) = P \cup {m}
    <3>1. ASSUME NEW x \in P PROVE x <= m
      <4>1. x \in S /\ x \in Nat /\ m \in Nat /\ ~(m <= x)
        BY <1>0, <1>4, <2>1, Zenon
      <4> QED BY <4>1
    <3>2. ASSUME NEW x \in Upto(m) PROVE x \in P \cup {m}
      BY <2>1, <2>2
    <3>3. P \cup {m} \subseteq Upto(m)
      BY <3>1, <2>1, <2>2, <1>0, Zenon
    <3> QED BY <3>2, <3>3, Zenon
  <2>4. Cardinality(Upto(m)) = Cardinality(P) + 1
    <3>1. IsFiniteSet(P) /\ m \notin P
      BY <1>0, <1>2, <2>1, Zenon
    <3> QED BY <2>3, <3>1, Zenon DEF Counting
  <2>5. Cardinality(Upto(m)) > PageSize /\ Cardinality(P) \in Nat
    <3>1. ~(Cardinality(Upto(m)) <= PageSize) /\ Cardinality(P) \in Nat
      BY <1>0, <1>1, <1>2, <2>1, Zenon
    <3> QED BY <3>1, <1>3, <2>4, SMTT(40)
  <2>6. Cardinality(P) <= PageSize
    <3>1. CASE P = {}
      BY <3>1, <1>3 DEF Counting
    <3>2. CASE P # {}
      <4>1. PICK g \in P : \A x \in P : x <= g
        BY <1>0, <3>2, Greatest, Zenon
      <4>2. P \in SUBSET Upto(g) /\ Cardinality(Upto(g)) <= PageSize
        BY <1>0, <1>1, <4>1, Zenon
      <4>3. Cardinality(P) <= Cardinality(Upto(g)) /\ Cardinality(Upto(g)) \in Nat
        BY <1>2, <4>2, Zenon DEF Counting
      <4> QED BY <4>2, <4>3, <2>5, <1>3
    <3> QED BY <3>1, <3>2, Zenon
  <2> QED BY <2>4, <2>5, <2>6, <1>3
<1> QED BY <1>1, <1>4, <1>5, <1>6, Zenon DEF P

-----------------------------------------------------------------------------
(* Types and phases.                                                       *)

\* A sequence over a set is one over any larger set.
LEMMA SeqMono ==
  ASSUME NEW S, NEW T, S \subseteq T, NEW s \in Seq(S)
  PROVE  s \in Seq(T)
  OBVIOUS

\* The numbers of a well-typed state.
LEMMA Numbers ==
  ASSUME TypeOK
  PROVE  /\ seq \in Nat /\ version \in Nat /\ Len(stream) \in Nat
         /\ \A u \in DOMAIN log : u \in Nat
         /\ \A u \in rows : u \in Nat /\ u \in DOMAIN log
         /\ \A i \in 1..Len(stream) : stream[i] \in Nat /\ stream[i] \in DOMAIN log
         /\ \A c \in Conn :
              /\ seen[c] \in Nat /\ readyVersion[c] \in Nat /\ pos[c] \in Nat /\ committed[c] \in Nat
              /\ \A u \in page[c] \cup got[c] : u \in Nat /\ u \in DOMAIN log
<1>1. seq \in Nat /\ version \in Nat /\ \A u \in DOMAIN log : u \in Nat
  BY DEF TypeOK
<1>2. Len(stream) \in Nat /\ \A i \in 1..Len(stream) : stream[i] \in DOMAIN log
  <2>1. stream \in Seq(DOMAIN log)
    BY Zenon DEF TypeOK
  <2> QED BY <2>1
<1>3. \A c \in Conn :
        /\ seen[c] \in Nat /\ readyVersion[c] \in Nat /\ pos[c] \in Nat /\ committed[c] \in Nat
        /\ \A u \in page[c] \cup got[c] : u \in DOMAIN log
  BY Zenon DEF TypeOK
<1> QED BY <1>1, <1>2, <1>3, Zenon DEF TypeOK

\* The event a receiver takes next.
LEMMA NextEvent ==
  ASSUME TypeOK, NEW c \in Conn, pos[c] < Len(stream)
  PROVE  /\ pos[c] \in Nat /\ pos[c] + 1 \in 1..Len(stream)
         /\ stream[pos[c] + 1] \in DOMAIN log
         /\ stream[pos[c] + 1] \in Nat
<1>1. pos[c] \in Nat /\ Len(stream) \in Nat
  BY Numbers, Zenon
<1>2. pos[c] + 1 \in 1..Len(stream)
  BY <1>1
<1> QED BY <1>1, <1>2, Numbers, Zenon

\* A notice keeps the types of the device's state.
LEMMA ReceiveTypes ==
  ASSUME TypeOK, NEW c \in Conn, NEW u \in DOMAIN log, Receive(c, u)
  PROVE  u \in Nat /\ seen' \in [Conn -> Nat] /\ got' \in [Conn -> SUBSET DOMAIN log]
<1>1. u \in Nat
  BY DEF TypeOK
<1>2. seen' \in [Conn -> Nat]
  BY <1>1, Zenon DEF TypeOK, Receive
<1>3. got' \in [Conn -> SUBSET DOMAIN log]
  BY Zenon DEF TypeOK, Receive
<1> QED BY <1>1, <1>2, <1>3, Zenon

\* The initial state is well typed, with no task under way.
LEMMA InitTypes == Init => TypeOK /\ PhaseInv
  BY ConstantsAssumption
  DEF Init, TypeOK, PhaseInv, Holding, Following, Phase, Waiting, Sending, Revision

\* A waiting task's request to push names a revision.
LEMMA PushedRevision ==
  ASSUME PhaseInv, NEW c \in Conn, Turn(c, "push")
  PROVE  /\ req[c] \in PushRequest
         /\ [path |-> req[c].path, deleted |-> req[c].deleted] \in Revision
<1>1. req[c] \in Request /\ req[c].kind = "push"
  BY Zenon DEF PhaseInv, Turn
<1>2. req[c] \in PushRequest
  BY <1>1, Zenon DEF Request, PushRequest, RestoreRequest, PurgeRequest
<1> QED BY <1>2, Zenon DEF PushRequest, Revision

(* The steps of Next, by what they do to the state. *)

Leaves(c) == pc[c] \notin Holding /\ Close(c) /\ UNCHANGED <<db, commitOrder, stream>>

Asks(c) ==
  \E r \in Request :
    /\ Begin(c, r)
    /\ r \in PushRequest => (r = pending[c] /\ r # None) \/ r.expected \in {None, seen[c]}
    /\ pending' = pending \/ pending' = [pending EXCEPT ![c] = None]

Served(c) == pc[c] = "wait" /\ commitOrder = None

Commits(c) == Served(c) /\ \E r \in Revision : Commit(c, r)

CommitsUnread(c) ==
  /\ "unread" \in Ops
  /\ Served(c)
  /\ \E r \in Revision : Store(r)
  /\ Close(c)
  /\ UNCHANGED <<commitOrder, stream>>

Answers(c) == Served(c) /\ Reply(c) /\ UNCHANGED db

ConnStep(c) ==
  \/ \E fresh \in BOOLEAN, v \in 0..seen[c] : Open(c, fresh, v)
  \/ ReadBoundary(c) \/ Subscribe(c) \/ ReadPage(c) \/ SendItem(c) \/ SendReady(c)
  \/ Deliver(c) \/ Acknowledge(c) \/ Leaves(c)
  \/ Asks(c) \/ BeginUpload(c)
  \/ Commits(c) \/ CommitsUnread(c) \/ Answers(c) \/ CommitPurge(c) \/ Publish(c)

\* Every step of Next is one of these, a commit elsewhere or a crash.
LEMMA Steps ==
  ASSUME TypeOK, PhaseInv, [Next]_vars
  PROVE  (\E c \in Conn : ConnStep(c)) \/ OtherVaultCommit \/ Crash \/ UNCHANGED vars
<1>1. ASSUME NEW c \in Conn, PushMetadata(c) PROVE Asks(c)
  <2>1. PICK p \in Path, d \in BOOLEAN, e \in Expectations(c) : PushMetadata(c)!(p, d, e)
    BY <1>1, Zenon DEF PushMetadata
  <2>2. [kind |-> "push", path |-> p, deleted |-> d, expected |-> e] \in Request
    BY Zenon DEF Request, PushRequest, Expectations, TypeOK
  <2> QED BY <2>1, <2>2, Zenon DEF Asks, Expectations
<1>2. ASSUME NEW c \in Conn, FinishUpload(c) PROVE Asks(c)
  BY <1>2, Zenon DEF FinishUpload, TypeOK, Request, Asks
<1>3. ASSUME NEW c \in Conn, BeginRestore(c) PROVE Asks(c)
  <2>1. PICK u \in 1..MaxUid : BeginRestore(c)!(u)
    BY <1>3, Zenon DEF BeginRestore
  <2>2. [kind |-> "restore", target |-> u] \in Request
    BY DEF Request, RestoreRequest
  <2> QED BY <2>1, <2>2, Zenon DEF Asks, PushRequest
<1>4. ASSUME NEW c \in Conn, BeginPurge(c) PROVE Asks(c)
  <2>1. [kind |-> "purge"] \in Request
    BY Zenon DEF Request, PurgeRequest
  <2> QED BY <2>1, <1>4, Zenon DEF BeginPurge, Asks, PushRequest
<1>5. ASSUME NEW c \in Conn, CommitPush(c) PROVE Commits(c)
  BY <1>5, PushedRevision, Zenon DEF CommitPush, Commits, Served, Turn
<1>6. ASSUME NEW c \in Conn, CommitPushUnread(c) PROVE CommitsUnread(c)
  BY <1>6, PushedRevision, Zenon DEF CommitPushUnread, CommitsUnread, Served, Turn
<1>7. ASSUME NEW c \in Conn, CommitRestore(c) PROVE Commits(c)
  <2>1. [path |-> log[req[c].target].path, deleted |-> FALSE] \in Revision
    BY <1>7, Zenon DEF CommitRestore, Restorable, TypeOK, Revision
  <2> QED BY <2>1, <1>7, Zenon DEF CommitRestore, Commits, Served, Turn
<1>8. ASSUME NEW c \in Conn, RefusePush(c) \/ RefuseRestore(c) PROVE Answers(c)
  BY <1>8, Zenon DEF RefusePush, RefuseRestore, Answers, Served, Turn
<1>9. ASSUME NEW c \in Conn, CloseLagged(c) \/ Disconnect(c) \/ FailCommit(c) PROVE Leaves(c)
  BY <1>9, Zenon DEF CloseLagged, Disconnect, FailCommit, Leaves, Holding, Sending
<1> QED
  BY <1>1, <1>2, <1>3, <1>4, <1>5, <1>6, <1>7, <1>8, <1>9, Zenon DEF Next, Server, Client, ConnStep

\* Every step keeps the types.
LEMMA TypeStep == TypeOK /\ PhaseInv /\ [Next]_vars => TypeOK'
<1> SUFFICES ASSUME TypeOK, PhaseInv, [Next]_vars PROVE TypeOK'
  OBVIOUS
<1> USE ConstantsAssumption
<1>1. CASE UNCHANGED vars
  BY <1>1, Zenon DEF TypeOK, vars, db, replay, device
<1>2. ASSUME NEW c \in Conn, NEW fresh \in BOOLEAN, NEW v \in 0..seen[c], Open(c, fresh, v)
      PROVE  TypeOK'
  <2>1. initial' \in [Conn -> BOOLEAN]
    BY <1>2, Zenon DEF TypeOK, Open
  <2>2. got' \in [Conn -> SUBSET DOMAIN log]
    <3>1. (IF fresh THEN {} ELSE {u \in got[c] : u <= v}) \in SUBSET DOMAIN log
      BY Zenon DEF TypeOK
    <3> QED BY <3>1, <1>2, Zenon DEF TypeOK, Open
  <2>3. seen' \in [Conn -> Nat] /\ pc' \in [Conn -> Phase]
    BY <1>2, SMTT(40) DEF TypeOK, Open, Phase, Waiting
  <2> QED BY <2>1, <2>2, <2>3, <1>2, Zenon DEF TypeOK, Open, db
<1>3. ASSUME NEW c \in Conn, ReadBoundary(c) PROVE TypeOK'
  BY <1>3, Zenon DEF TypeOK, ReadBoundary, db, device, Phase, Holding
<1>4. ASSUME NEW c \in Conn, Subscribe(c) PROVE TypeOK'
  BY <1>4, SMTT(40) DEF TypeOK, Subscribe, db, replay, device, Phase, Sending
<1>5. ASSUME NEW c \in Conn, ReadPage(c) PROVE TypeOK'
  BY <1>5, Zenon
     DEF TypeOK, ReadPage, db, device, Phase, Sending, FirstPage, initial_snapshot, list_changes
<1>6. ASSUME NEW c \in Conn, SendItem(c) PROVE TypeOK'
  <2>1. PICK u \in page[c] : SendItem(c)!(u)
    BY <1>6, Zenon DEF SendItem
  <2>2. u \in DOMAIN log /\ u \in Nat
    BY Numbers, Zenon
  <2>3. pc' \in [Conn -> Phase]
    BY <2>1, Zenon DEF TypeOK, Phase, Sending
  <2> QED BY <2>1, <2>2, <2>3, ZenonT(40) DEF TypeOK, Receive, db
<1>7. ASSUME NEW c \in Conn, SendReady(c) PROVE TypeOK'
  BY <1>7, Zenon DEF TypeOK, SendReady, EndReplay, db, Phase, Sending
<1>8. ASSUME NEW c \in Conn, Deliver(c) PROVE TypeOK'
  <2>1. seen' \in [Conn -> Nat] /\ got' \in [Conn -> SUBSET DOMAIN log]
    BY <1>8, NextEvent, ReceiveTypes, Zenon DEF Deliver
  <2>2. pos' \in [Conn -> Nat]
    <3>1. pos[c] \in Nat /\ pos[c] + 1 \in Nat
      BY Numbers
    <3> QED BY <3>1, <1>8, Zenon DEF TypeOK, Deliver
  <2> QED BY <2>1, <2>2, <1>8, Zenon DEF TypeOK, Deliver, db, replay
<1>9. ASSUME NEW c \in Conn, Acknowledge(c) PROVE TypeOK'
  <2>1. seen' \in [Conn -> Nat] /\ got' \in [Conn -> SUBSET DOMAIN log]
    BY <1>9, NextEvent, ReceiveTypes, Zenon DEF Acknowledge
  <2>2. pos' \in [Conn -> Nat]
    <3>1. pos[c] \in Nat /\ pos[c] + 1 \in Nat
      BY Numbers
    <3> QED BY <3>1, <1>9, Zenon DEF TypeOK, Acknowledge
  <2>3. pc' \in [Conn -> Phase] /\ committed' \in [Conn -> Nat]
    BY <1>9, Zenon DEF TypeOK, Acknowledge, Phase, Sending
  <2> QED BY <2>1, <2>2, <2>3, <1>9, Zenon DEF TypeOK, Acknowledge, db, replay
<1>10. ASSUME NEW c \in Conn, Leaves(c) PROVE TypeOK'
  BY <1>10, Zenon DEF TypeOK, Leaves, Close, EndReplay, db, device, Phase
<1>11. ASSUME NEW c \in Conn, Asks(c) PROVE TypeOK'
  <2>1. PICK r \in Request : Asks(c)!(r)
    BY <1>11, Zenon DEF Asks
  <2>2. pending' \in [Conn -> PushRequest \cup {None}]
    BY <2>1, Zenon DEF TypeOK
  <2> QED BY <2>1, <2>2, Zenon DEF TypeOK, Begin, db, replay, device, Phase, Waiting
<1>12. ASSUME NEW c \in Conn, BeginUpload(c) PROVE TypeOK'
  <2>1. PICK p \in Path, e \in Expectations(c) : BeginUpload(c)!(p, e)
    BY <1>12, Zenon DEF BeginUpload
  <2>2. [kind |-> "push", path |-> p, deleted |-> FALSE, expected |-> e] \in PushRequest
    BY Zenon DEF PushRequest, Expectations, TypeOK
  <2> QED BY <2>1, <2>2, Zenon DEF TypeOK, db, replay, device
<1>13. ASSUME NEW c \in Conn, Commits(c) PROVE TypeOK'
  BY <1>13, SMTT(40) DEF TypeOK, Commits, Commit, Store, replay, device, Phase, Holding
<1>14. ASSUME NEW c \in Conn, Answers(c) PROVE TypeOK'
  BY <1>14, Zenon DEF TypeOK, Answers, Reply, db, replay, device, Phase, Sending
<1>15. ASSUME NEW c \in Conn, CommitPurge(c) PROVE TypeOK'
  BY <1>15, Zenon DEF TypeOK, CommitPurge, Reply, db, replay, device, Phase, Sending
<1>16. ASSUME NEW c \in Conn, Publish(c) PROVE TypeOK'
  BY <1>16, SMTT(40) DEF TypeOK, PhaseInv, Publish, db, replay, device, Phase, Sending
<1>17. ASSUME NEW c \in Conn, CommitsUnread(c) PROVE TypeOK'
  <2>1. /\ seq' \in Nat /\ version' \in Nat /\ log' \in [DOMAIN log' -> Revision]
        /\ DOMAIN log' \subseteq 1..seq' /\ rows' \subseteq DOMAIN log'
        /\ DOMAIN log \subseteq DOMAIN log'
    BY <1>17, SMTT(40) DEF CommitsUnread, TypeOK, Store
  <2>2. stream' \in Seq(DOMAIN log')
    BY <2>1, <1>17, SeqMono, Zenon DEF CommitsUnread, TypeOK
  <2>3. /\ page' \in [Conn -> SUBSET DOMAIN log'] /\ got' \in [Conn -> SUBSET DOMAIN log']
    BY <2>1, <1>17, Zenon DEF CommitsUnread, TypeOK, Close, EndReplay, device
  <2> QED BY <2>1, <2>2, <2>3, <1>17, Zenon
             DEF CommitsUnread, TypeOK, Close, EndReplay, device, Phase
<1>18. CASE OtherVaultCommit
  BY <1>18, SMTT(40) DEF TypeOK, OtherVaultCommit, replay, device
<1>19. CASE Crash
  BY <1>19 DEF TypeOK, Crash, db, device, Phase
<1> QED
  BY Steps, <1>1, <1>2, <1>3, <1>4, <1>5, <1>6, <1>7, <1>8, <1>9, <1>10, <1>11, <1>12, <1>13,
     <1>14, <1>15, <1>16, <1>17, <1>18, <1>19, Zenon DEF ConnStep

\* The uids stored after a step are numbers.
LEMMA UidsAfter ==
  ASSUME TypeOK, PhaseInv, [Next]_vars
  PROVE  \A u \in rows' : u \in Nat
<1>1. TypeOK'
  BY TypeStep, Zenon
<1>2. rows' \subseteq DOMAIN log' /\ DOMAIN log' \subseteq 1..seq' /\ seq' \in Nat
  BY <1>1, Zenon DEF TypeOK
<1> QED BY <1>2

\* Every step keeps commit_order with the task between its two steps.
LEMMA PhaseInvStep == TypeOK /\ PhaseInv /\ [Next]_vars => PhaseInv'
<1> SUFFICES ASSUME TypeOK, PhaseInv, [Next]_vars PROVE PhaseInv'
  OBVIOUS
<1> USE ConstantsAssumption
<1>1. CASE UNCHANGED vars
  BY <1>1, Zenon DEF vars, TypeOK, PhaseInv, Holding, Following, db, replay, device
<1>2. ASSUME NEW c \in Conn, NEW fresh \in BOOLEAN, NEW v \in 0..seen[c], Open(c, fresh, v)
      PROVE  PhaseInv'
  BY <1>2, Zenon DEF Open, TypeOK, PhaseInv, Holding, Following, db, replay, device
<1>3. ASSUME NEW c \in Conn, ReadBoundary(c) PROVE PhaseInv'
  BY <1>3, SMTT(40) DEF ReadBoundary, TypeOK, PhaseInv, Holding, Following, db, replay, device
<1>4. ASSUME NEW c \in Conn, Subscribe(c) PROVE PhaseInv'
  BY <1>4, Zenon DEF Subscribe, TypeOK, PhaseInv, Holding, Following, db, replay, device
<1>5. ASSUME NEW c \in Conn, ReadPage(c) PROVE PhaseInv'
  <2> DEFINE found == IF initial[c] THEN initial_snapshot(seen[c], readyVersion[c])
                                     ELSE list_changes(seen[c], readyVersion[c])
  <2>1. found = {} => FirstPage(found) = {}
    BY Zenon DEF FirstPage
  <2>2. /\ pc[c] = "page"
        /\ pc' = [pc EXCEPT ![c] = IF found = {} THEN "ready" ELSE "send"]
        /\ page' = [page EXCEPT ![c] = FirstPage(found)]
        /\ UNCHANGED <<db, commitOrder, pending, req, committed>>
    BY <1>5, Zenon DEF ReadPage
  <2> HIDE DEF found
  <2> QED BY <2>1, <2>2, Zenon DEF TypeOK, PhaseInv, Holding, Following, db
<1>6. ASSUME NEW c \in Conn, SendItem(c) PROVE PhaseInv'
  <2>1. PICK u \in page[c] : SendItem(c)!(u)
    BY <1>6, Zenon DEF SendItem
  <2> QED BY <2>1, Zenon DEF TypeOK, PhaseInv, Holding, Following, db
<1>7. ASSUME NEW c \in Conn, SendReady(c) PROVE PhaseInv'
  BY <1>7, Zenon DEF SendReady, EndReplay, TypeOK, PhaseInv, Holding, Following, db, replay, device
<1>8. ASSUME NEW c \in Conn, Deliver(c) PROVE PhaseInv'
  BY <1>8, Zenon DEF Deliver, Receive, TypeOK, PhaseInv, Holding, Following, db, replay, device
<1>9. ASSUME NEW c \in Conn, Acknowledge(c) PROVE PhaseInv'
  BY <1>9, Zenon DEF Acknowledge, Receive, TypeOK, PhaseInv, Holding, Following, db, replay, device
<1>10. ASSUME NEW c \in Conn, Leaves(c) PROVE PhaseInv'
  BY <1>10, Zenon
     DEF Leaves, Close, EndReplay, TypeOK, PhaseInv, Holding, Following, db, replay, device
<1>11. ASSUME NEW c \in Conn, Asks(c) PROVE PhaseInv'
  <2>1. PICK r \in Request : Asks(c)!(r)
    BY <1>11, Zenon DEF Asks
  <2> QED BY <2>1, ZenonT(40) DEF Begin, TypeOK, PhaseInv, Holding, Following, db, replay
<1>12. ASSUME NEW c \in Conn, BeginUpload(c) PROVE PhaseInv'
  BY <1>12, ZenonT(40) DEF BeginUpload, TypeOK, PhaseInv, Holding, Following, db, replay, device
<1>13. ASSUME NEW c \in Conn, Commits(c) PROVE PhaseInv'
  BY <1>13, SMTT(40)
     DEF Commits, Served, Commit, Store, TypeOK, PhaseInv, Holding, Following, db, replay, device
<1>14. ASSUME NEW c \in Conn, CommitsUnread(c) PROVE PhaseInv'
  BY <1>14, SMTT(40)
     DEF CommitsUnread, Served, Store, Close, EndReplay, TypeOK, PhaseInv, Holding, Following, db, replay, device
<1>15. ASSUME NEW c \in Conn, Answers(c) PROVE PhaseInv'
  BY <1>15, Zenon
     DEF Answers, Served, Reply, TypeOK, PhaseInv, Holding, Following, db, replay, device
<1>16. ASSUME NEW c \in Conn, CommitPurge(c) PROVE PhaseInv'
  BY <1>16, Zenon
     DEF CommitPurge, Turn, Reply, TypeOK, PhaseInv, Holding, Following, db, replay, device
<1>17. ASSUME NEW c \in Conn, Publish(c) PROVE PhaseInv'
  BY <1>17, Zenon DEF Publish, TypeOK, PhaseInv, Holding, Following, db, replay, device
<1>18. CASE OtherVaultCommit
  BY <1>18, Zenon DEF OtherVaultCommit, TypeOK, PhaseInv, Holding, Following, db, replay, device
<1>19. CASE Crash
  BY <1>19, Zenon DEF Crash, TypeOK, PhaseInv, Holding, Following, db, replay, device
<1> QED
  BY Steps, <1>1, <1>2, <1>3, <1>4, <1>5, <1>6, <1>7, <1>8, <1>9, <1>10, <1>11, <1>12, <1>13,
     <1>14, <1>15, <1>16, <1>17, <1>18, <1>19, Zenon DEF ConnStep

-----------------------------------------------------------------------------
(* What a step does, seen from one device, the database or the stream.     *)

\* A step that leaves a device and its connection alone.
Same(d) ==
  /\ pc'[d] = pc[d] /\ initial'[d] = initial[d] /\ readyVersion'[d] = readyVersion[d]
  /\ page'[d] = page[d] /\ full'[d] = full[d] /\ pos'[d] = pos[d]
  /\ pending'[d] = pending[d] /\ req'[d] = req[d] /\ committed'[d] = committed[d]
  /\ seen'[d] = seen[d] /\ got'[d] = got[d]

\* A connection's step leaves every other device alone.
LEMMA OthersSame ==
  ASSUME TypeOK, NEW c \in Conn, NEW d \in Conn \ {c}, ConnStep(c)
  PROVE  Same(d)
<1>1. ASSUME NEW fresh \in BOOLEAN, NEW v \in 0..seen[c], Open(c, fresh, v) PROVE Same(d)
  BY <1>1, Zenon DEF TypeOK, Open, Same
<1>2. ASSUME ReadBoundary(c) \/ Subscribe(c) PROVE Same(d)
  BY <1>2, Zenon DEF TypeOK, ReadBoundary, Subscribe, replay, device, Same
<1>3. ASSUME ReadPage(c) PROVE Same(d)
  BY <1>3, Zenon DEF TypeOK, ReadPage, device, Same
<1>4. ASSUME SendItem(c) PROVE Same(d)
  BY <1>4 DEF TypeOK, SendItem, Receive, Same
<1>5. ASSUME SendReady(c) PROVE Same(d)
  BY <1>5, Zenon DEF TypeOK, SendReady, EndReplay, Same
<1>6. ASSUME Deliver(c) PROVE Same(d)
  BY <1>6, Zenon DEF TypeOK, Deliver, Receive, replay, Same
<1>7. ASSUME Acknowledge(c) PROVE Same(d)
  BY <1>7, Zenon DEF TypeOK, Acknowledge, Receive, replay, Same
<1>8. ASSUME Close(c) PROVE Same(d)
  BY <1>8, Zenon DEF TypeOK, Close, EndReplay, device, Same
<1>9. ASSUME Asks(c) PROVE Same(d)
  BY <1>9, Zenon DEF TypeOK, Asks, Begin, replay, device, Same
<1>10. ASSUME BeginUpload(c) PROVE Same(d)
  BY <1>10, Zenon DEF TypeOK, BeginUpload, replay, device, Same
<1>11. ASSUME Commits(c) PROVE Same(d)
  BY <1>11, Zenon DEF TypeOK, Commits, Commit, replay, device, Same
<1>12. ASSUME Reply(c) PROVE Same(d)
  BY <1>12, Zenon DEF TypeOK, Reply, replay, device, Same
<1>13. ASSUME Publish(c) PROVE Same(d)
  BY <1>13, Zenon DEF TypeOK, Publish, replay, device, Same
<1> QED
  BY <1>1, <1>2, <1>3, <1>4, <1>5, <1>6, <1>7, <1>8, <1>9, <1>10, <1>11, <1>12, <1>13, Zenon
  DEF ConnStep, Leaves, CommitsUnread, Answers, CommitPurge

\* Seen from one device, a step is its own, or a crash, or nothing.
LEMMA Frame ==
  ASSUME TypeOK, PhaseInv, [Next]_vars, NEW d \in Conn
  PROVE  ConnStep(d) \/ Crash \/ Same(d)
<1>1. ASSUME UNCHANGED vars PROVE Same(d)
  BY <1>1, Zenon DEF vars, db, replay, device, Same
<1>2. ASSUME OtherVaultCommit PROVE Same(d)
  BY <1>2, Zenon DEF OtherVaultCommit, replay, device, Same
<1>3. ASSUME NEW c \in Conn \ {d}, ConnStep(c) PROVE Same(d)
  BY <1>3, OthersSame, Zenon
<1> QED BY Steps, <1>1, <1>2, <1>3, Zenon

\* What a step does to the database.
LEMMA DbSteps ==
  ASSUME TypeOK, PhaseInv, [Next]_vars
  PROVE  \/ UNCHANGED db
         \/ commitOrder = None /\ \E r \in Revision : Store(r)
         \/ commitOrder = None /\ rows' = {u \in rows : IsHead(u)} /\ UNCHANGED <<seq, log, version>>
         \/ commitOrder = None /\ seq' = seq + 1 /\ UNCHANGED <<log, rows, version>>
<1>1. ASSUME \/ UNCHANGED vars \/ Crash
             \/ \E c \in Conn : \/ \E fresh \in BOOLEAN, v \in 0..seen[c] : Open(c, fresh, v)
                                \/ ReadBoundary(c) \/ Subscribe(c) \/ ReadPage(c) \/ SendItem(c)
                                \/ SendReady(c) \/ Deliver(c) \/ Acknowledge(c)
      PROVE  UNCHANGED db
  BY <1>1, SMTT(40)
     DEF vars, Crash, Open, ReadBoundary, Subscribe, ReadPage, SendItem, SendReady, Deliver, Acknowledge
<1>2. ASSUME NEW c \in Conn, Leaves(c) \/ Asks(c) \/ BeginUpload(c) \/ Answers(c) \/ Publish(c)
      PROVE  UNCHANGED db
  BY <1>2, Zenon DEF Leaves, Asks, Begin, BeginUpload, Answers, Publish
<1>3. ASSUME NEW c \in Conn, Commits(c) \/ CommitsUnread(c)
      PROVE  commitOrder = None /\ \E r \in Revision : Store(r)
  BY <1>3, Zenon DEF Commits, Commit, CommitsUnread, Served
<1>4. ASSUME NEW c \in Conn, CommitPurge(c)
      PROVE  commitOrder = None /\ rows' = {u \in rows : IsHead(u)} /\ UNCHANGED <<seq, log, version>>
  BY <1>4, Zenon DEF CommitPurge, Turn
<1>5. ASSUME OtherVaultCommit
      PROVE  commitOrder = None /\ seq' = seq + 1 /\ UNCHANGED <<log, rows, version>>
  BY <1>5, Zenon DEF OtherVaultCommit
<1> QED BY Steps, <1>1, <1>2, <1>3, <1>4, <1>5, Zenon DEF ConnStep

\* What a step does to the stream and to the commit about to join it.
LEMMA StreamSteps ==
  ASSUME TypeOK, PhaseInv, [Next]_vars
  PROVE  \/ \E c \in Conn : Commits(c) \/ Publish(c)
         \/ Crash
         \/ /\ stream' = stream
            /\ "unread" \notin Ops => log' = log
            /\ \A e \in Conn : pc[e] = "publish" \/ pc'[e] = "publish" =>
                 pc[e] = "publish" /\ pc'[e] = "publish" /\ committed'[e] = committed[e]
<1> DEFINE Quiet == /\ stream' = stream
                    /\ "unread" \notin Ops => log' = log
                    /\ \A e \in Conn : pc[e] = "publish" \/ pc'[e] = "publish" =>
                         pc[e] = "publish" /\ pc'[e] = "publish" /\ committed'[e] = committed[e]
<1>1. ASSUME UNCHANGED vars \/ OtherVaultCommit PROVE Quiet
  BY <1>1, Zenon DEF vars, db, OtherVaultCommit
<1>2. ASSUME NEW c \in Conn, ConnStep(c), ~Commits(c), ~Publish(c) PROVE Quiet
  <2>1. stream' = stream /\ ("unread" \notin Ops => log' = log) /\ pc[c] # "publish"
    BY <1>2, Zenon
       DEF ConnStep, Open, ReadBoundary, Subscribe, ReadPage, SendItem, SendReady, Deliver,
       Acknowledge, Leaves, Holding, Asks, Begin, BeginUpload, CommitsUnread, Served, Answers, Reply,
       CommitPurge, Turn, db
  <2>2. pc'[c] # "publish"
    BY <1>2, Zenon
       DEF ConnStep, TypeOK, Open, ReadBoundary, Subscribe, ReadPage, SendItem, SendReady, Deliver,
       Acknowledge, Leaves, Close, Asks, Begin, BeginUpload, CommitsUnread, Answers, Reply, CommitPurge
  <2>3. \A e \in Conn \ {c} : Same(e)
    BY <1>2, OthersSame, Zenon
  <2> QED BY <2>1, <2>2, <2>3, Zenon DEF Same
<1> QED BY Steps, <1>1, <1>2, Zenon

\* How a connection comes to be replaying.
LEMMA ReplaySteps ==
  ASSUME TypeOK, PhaseInv, [Next]_vars, NEW d \in Conn, pc'[d] \in Replaying
  PROVE  \/ Same(d) /\ pc[d] \in Replaying
         \/ Subscribe(d) /\ UNCHANGED db
         \/ ReadPage(d) /\ UNCHANGED db
         \/ SendItem(d) /\ UNCHANGED db
<1>1. ASSUME Same(d) PROVE pc[d] \in Replaying
  BY <1>1, Zenon DEF Same
<1>2. ~Crash
  BY Zenon DEF Crash, Replaying
<1>3. ASSUME ConnStep(d) PROVE (Subscribe(d) \/ ReadPage(d) \/ SendItem(d)) /\ UNCHANGED db
  <2>1. ASSUME NEW p \in Phase \ Replaying, pc' = [pc EXCEPT ![d] = p] PROVE FALSE
    BY <2>1, Zenon DEF TypeOK
  <2>2. ~\E fresh \in BOOLEAN, v \in 0..seen[d] : Open(d, fresh, v)
    BY <2>1, Zenon DEF Open, Phase, Waiting, Replaying
  <2>3. ~ReadBoundary(d) /\ ~SendReady(d) /\ ~Publish(d)
    BY <2>1, Zenon DEF ReadBoundary, SendReady, Publish, Phase, Holding, Sending, Replaying
  <2>4. ~Deliver(d) /\ ~BeginUpload(d)
    BY Zenon DEF Deliver, BeginUpload, Replaying
  <2>5. ~Acknowledge(d)
    BY Zenon DEF Acknowledge, Replaying, TypeOK
  <2>6. ~Leaves(d) /\ ~CommitsUnread(d)
    BY <2>1, Zenon DEF Leaves, CommitsUnread, Close, Phase, Replaying
  <2>7. ~Asks(d)
    BY <2>1, Zenon DEF Asks, Begin, Phase, Waiting, Replaying
  <2>8. ~Commits(d)
    BY <2>1, Zenon DEF Commits, Commit, Phase, Holding, Replaying
  <2>9. ~Answers(d) /\ ~CommitPurge(d)
    BY <2>1, Zenon DEF Answers, CommitPurge, Reply, Phase, Sending, Replaying
  <2>10. Subscribe(d) \/ ReadPage(d) \/ SendItem(d)
    BY <1>3, <2>2, <2>3, <2>4, <2>5, <2>6, <2>7, <2>8, <2>9, Zenon DEF ConnStep
  <2> QED BY <2>10, Zenon DEF Subscribe, ReadPage, SendItem
<1> QED BY Frame, <1>1, <1>2, <1>3, Zenon

\* How a connection comes to wait for, or to hold, init's boundary.
LEMMA OpeningSteps ==
  ASSUME TypeOK, PhaseInv, [Next]_vars, NEW d \in Conn, pc'[d] \in {"boundary", "subscribe"}
  PROVE  \/ Same(d)
         \/ \E v \in 0..seen[d] : Open(d, TRUE, v) \/ Open(d, FALSE, v)
         \/ ReadBoundary(d)
<1>1. ~Crash
  BY Zenon DEF Crash
<1>2. /\ ~Subscribe(d) /\ ~ReadPage(d) /\ ~SendItem(d) /\ ~SendReady(d) /\ ~Deliver(d)
      /\ ~Acknowledge(d) /\ ~Leaves(d) /\ ~CommitsUnread(d)
  BY Zenon
     DEF TypeOK, Subscribe, ReadPage, SendItem, SendReady, Deliver, Acknowledge, Leaves, CommitsUnread,
     Close
<1>3. /\ ~Asks(d) /\ ~BeginUpload(d) /\ ~Commits(d) /\ ~Answers(d) /\ ~CommitPurge(d) /\ ~Publish(d)
  BY Zenon
     DEF TypeOK, Asks, Begin, BeginUpload, Commits, Commit, Answers, CommitPurge, Reply, Publish
<1> QED BY <1>1, <1>2, <1>3, Frame, Zenon DEF ConnStep

\* The point up to which a connection's events are covered by other means.
Floor(c) == IF pc[c] \in Replaying THEN readyVersion[c] ELSE seen[c]

\* What a step does to a subscribed connection's place in the stream.
LEMMA FloorSteps ==
  ASSUME TypeOK, PhaseInv, [Next]_vars, NEW d \in Conn, pc'[d] \in Subscribed
  PROVE  \/ Subscribe(d)
         \/ Deliver(d) \/ Acknowledge(d)
         \/ pc[d] \in Subscribed /\ Floor(d)' = Floor(d) /\ pos'[d] = pos[d]
<1>1. ASSUME Same(d) PROVE pc[d] \in Subscribed /\ Floor(d)' = Floor(d) /\ pos'[d] = pos[d]
  BY <1>1, Zenon DEF Same, Floor
<1>2. ~Crash
  BY Zenon DEF Crash, Subscribed, Replaying, Following
<1>3. ASSUME ConnStep(d), ~Subscribe(d), ~Deliver(d), ~Acknowledge(d)
      PROVE  pc[d] \in Subscribed /\ Floor(d)' = Floor(d) /\ pos'[d] = pos[d]
  <2>1. ~\E fresh \in BOOLEAN, v \in 0..seen[d] : Open(d, fresh, v)
    BY Zenon DEF Open, Subscribed, Replaying, Following, TypeOK
  <2>2. ~ReadBoundary(d) /\ ~Leaves(d) /\ ~CommitsUnread(d)
    BY Zenon
       DEF ReadBoundary, Leaves, CommitsUnread, Close, Subscribed, Replaying, Following, TypeOK
  <2>3. CASE ReadPage(d)
    <3>1. pc[d] = "page" /\ pc'[d] \in {"ready", "send"} /\ UNCHANGED <<readyVersion, pos>>
      BY <2>3, Zenon DEF ReadPage, TypeOK
    <3> QED BY <3>1, Zenon DEF Floor, Subscribed, Replaying
  <2>4. CASE SendItem(d)
    <3>1. pc[d] = "send" /\ pc'[d] \in Replaying /\ UNCHANGED <<readyVersion, pos>>
      BY <2>4, Zenon DEF SendItem, TypeOK, Replaying
    <3> QED BY <3>1, Zenon DEF Floor, Subscribed, Replaying
  <2>5. CASE SendReady(d)
    <3>1. pc[d] = "ready" /\ pc'[d] = "live" /\ seen'[d] = readyVersion[d] /\ UNCHANGED pos
      BY <2>5, Zenon DEF SendReady, TypeOK
    <3> QED BY <3>1, Zenon DEF Floor, Subscribed, Replaying
  <2>6. CASE Asks(d) \/ BeginUpload(d) \/ Commits(d) \/ Answers(d) \/ CommitPurge(d) \/ Publish(d)
    <3>1. pc[d] \in Following /\ pc'[d] \in Following /\ UNCHANGED <<seen, pos>>
      BY <2>6, Zenon
         DEF Asks, Begin, BeginUpload, Commits, Served, Commit, Answers, CommitPurge, Turn,
         Reply, Publish, TypeOK, Following, device
    <3> QED BY <3>1, Zenon DEF Floor, Subscribed, Replaying, Following
  <2> QED BY <1>3, <2>1, <2>2, <2>3, <2>4, <2>5, <2>6, Zenon DEF ConnStep
<1> QED BY Frame, <1>1, <1>2, <1>3, Zenon

\* What a step does to a device.
LEMMA DeviceSteps ==
  ASSUME TypeOK, PhaseInv, [Next]_vars, NEW d \in Conn
  PROVE  \/ seen'[d] = seen[d] /\ got'[d] = got[d]
         \/ /\ UNCHANGED db
            /\ \/ \E fresh \in BOOLEAN, v \in 0..seen[d] : Open(d, fresh, v)
               \/ SendItem(d) \/ SendReady(d) \/ Deliver(d) \/ Acknowledge(d)
<1>1. ASSUME Same(d) \/ Crash PROVE seen'[d] = seen[d] /\ got'[d] = got[d]
  BY <1>1, Zenon DEF Same, Crash, device
<1>2. ASSUME ReadBoundary(d) \/ Subscribe(d) \/ ReadPage(d) \/ Leaves(d) \/ Asks(d) \/ BeginUpload(d)
             \/ Commits(d) \/ CommitsUnread(d) \/ Answers(d) \/ CommitPurge(d) \/ Publish(d)
      PROVE  seen'[d] = seen[d] /\ got'[d] = got[d]
  BY <1>2, Zenon
     DEF ReadBoundary, Subscribe, ReadPage, Leaves, Close, Asks, Begin, BeginUpload, Commits,
     Commit, CommitsUnread, Answers, Reply, CommitPurge, Publish, device
<1>3. ASSUME \/ \E fresh \in BOOLEAN, v \in 0..seen[d] : Open(d, fresh, v)
             \/ SendItem(d) \/ SendReady(d) \/ Deliver(d) \/ Acknowledge(d)
      PROVE  UNCHANGED db
  BY <1>3, Zenon DEF Open, SendItem, SendReady, Deliver, Acknowledge
<1> QED BY Frame, <1>1, <1>2, <1>3, Zenon DEF ConnStep

\* What a notice does, device by device.
LEMMA Received ==
  ASSUME TypeOK, NEW c \in Conn, NEW u, Receive(c, u)
  PROVE  /\ seen'[c] = u /\ got'[c] = got[c] \cup {u}
         /\ \A d \in Conn \ {c} : seen'[d] = seen[d] /\ got'[d] = got[d]
  BY Zenon DEF TypeOK, Receive

\* What publishing does to the stream.
LEMMA Published ==
  ASSUME TypeOK, NEW c \in Conn, Publish(c)
  PROVE  /\ Len(stream) \in Nat /\ Len(stream') = Len(stream) + 1
         /\ stream'[Len(stream) + 1] = committed[c]
         /\ \A i \in 1..Len(stream) : stream'[i] = stream[i] /\ stream[i] \in Nat
         /\ \A i \in 1..Len(stream') : i \in 1..Len(stream) \/ i = Len(stream) + 1
<1>1. /\ Len(stream) \in Nat /\ Len(stream') = Len(stream) + 1
      /\ stream'[Len(stream) + 1] = committed[c]
      /\ \A i \in 1..Len(stream) : stream'[i] = stream[i] /\ stream[i] \in DOMAIN log
  BY SMTT(40) DEF Publish, TypeOK
<1>2. DOMAIN log \subseteq Nat
  BY Numbers, Zenon
<1> QED BY <1>1, <1>2

\* While commit_order is free nothing is about to be published.
LEMMA NobodyPublishes ==
  ASSUME PhaseInv, commitOrder = None
  PROVE  \A e \in Conn : pc[e] # "publish"
  BY ConstantsAssumption, Zenon DEF PhaseInv, Holding
-----------------------------------------------------------------------------
(* The inductive invariant, in parts.                                      *)

\* version is the newest revision; every path ever written to has a stored
\* head, which purge leaves.
StoreInv ==
  /\ VersionCoversRows
  /\ \A u \in DOMAIN log : u <= version
  /\ \A w \in DOMAIN log : \E h \in rows : IsHead(h) /\ log[h].path = log[w].path /\ w <= h

\* version, and the boundary init takes from it, is a revision of the vault.
KnownInv ==
  /\ version \in DOMAIN log \cup {0}
  /\ \A c \in Conn : readyVersion[c] \in DOMAIN log \cup {0}

\* A device is never ahead of the vault, nor of its own version.
DeviceInv ==
  \A c \in Conn : seen[c] <= version /\ \A u \in got[c] : u <= seen[c]

\* init's boundary lies between what the device has and what the vault has.
BoundaryInv ==
  \A c \in Conn :
    /\ pc[c] \in {"boundary", "subscribe"} /\ initial[c] => got[c] = {}
    /\ pc[c] = "subscribe" => readyVersion[c] = version
    /\ pc[c] \in Replaying => seen[c] <= readyVersion[c] /\ readyVersion[c] <= version

\* Events are published in uid order, and nothing is published before its turn.
StreamInv ==
  /\ \A i, j \in 1..Len(stream) : i < j => stream[i] < stream[j]
  /\ \A c \in Conn : pc[c] = "publish" => \A i \in 1..Len(stream) : stream[i] < committed[c]

\* The unread events of a connection are past its floor, and so is the one
\* about to be published.
TailOf(c) ==
  /\ pos[c] <= Len(stream)
  /\ \A i \in 1..Len(stream) : i > pos[c] => stream[i] > Floor(c)
  /\ \A d \in Conn : pc[d] = "publish" => committed[d] > Floor(c)

TailInv == \A c \in Conn : pc[c] \in Subscribed => TailOf(c)

\* They are all the revisions past it, except for one about to be published.
QueueInv ==
  \A c \in Conn : pc[c] \in Subscribed =>
    \A u \in DOMAIN log : u > Floor(c) =>
      \/ \E i \in 1..Len(stream) : i > pos[c] /\ stream[i] = u
      \/ \E d \in Conn : pc[d] = "publish" /\ committed[d] = u

\* A first copy leaves out tombstones and superseded revisions.
Spared(c, h) == initial[c] /\ (log[h].deleted \/ ~IsHead(h))

\* A page lies between what the device has and the boundary.
PageInv ==
  \A c \in Conn : pc[c] = "send" =>
    /\ page[c] # {}
    /\ \A u \in page[c] : seen[c] < u /\ u <= readyVersion[c]

\* A revision that init still owes is in the page or comes with a later one.
OwedInv ==
  \A c \in Conn : pc[c] \in {"send", "ready"} =>
    \A h \in rows : seen[c] < h /\ h <= readyVersion[c] /\ ~Spared(c, h) =>
      pc[c] = "send" /\ (h \in page[c] \/ (full[c] /\ \A u \in page[c] : u < h))

\* A path whose head at the boundary is a tombstone is unknown to a device
\* that builds its first copy.
FreshInv ==
  \A c \in Conn : pc[c] \in Replaying /\ initial[c] =>
    \A h \in rows : IsHead(h) /\ h <= readyVersion[c] /\ log[h].deleted =>
      \A w \in got[c] \cup page[c] : log[w].path # log[h].path

\* The commit being acknowledged is among the unread events.
AckInv ==
  \A c \in Conn : pc[c] = "ack" =>
    \E i \in 1..Len(stream) : i > pos[c] /\ stream[i] = committed[c]

\* A device expects no version it has not reached.
ExpectInv ==
  \A c \in Conn :
    /\ pending[c] # None /\ pending[c].expected # None => pending[c].expected <= seen[c]
    /\ pc[c] = "wait" /\ req[c].kind = "push" /\ req[c].expected # None
         => req[c].expected <= seen[c]

\* What holds whatever happens.
OrderInv ==
  /\ TypeOK /\ PhaseInv /\ StoreInv /\ DeviceInv /\ BoundaryInv /\ StreamInv /\ TailInv
  /\ KnownInv /\ PageInv /\ OwedInv /\ FreshInv /\ AckInv /\ ExpectInv

\* What holds as long as every committed revision is also published.
Inv == OrderInv /\ QueueInv /\ NoLostRevision

-----------------------------------------------------------------------------
(* The stored revisions.                                                   *)

\* A transaction's revision is newer than all the vault has.
LEMMA Stored ==
  ASSUME TypeOK, StoreInv, NEW r \in Revision, Store(r)
  PROVE  /\ seq + 1 \in Nat /\ version' = seq + 1 /\ version < seq + 1
         /\ DOMAIN log' = DOMAIN log \cup {seq + 1}
         /\ log'[seq + 1] = r
         /\ rows' = rows \cup {seq + 1}
         /\ \A u \in DOMAIN log : u \in Nat /\ log'[u] = log[u] /\ u < seq + 1
  BY SMTT(40) DEF TypeOK, StoreInv, VersionCoversRows, Store

\* Stores and purges leave every path its newest revision, none past version.
LEMMA StoreInvStep == TypeOK /\ PhaseInv /\ StoreInv /\ [Next]_vars => StoreInv'
<1> SUFFICES ASSUME TypeOK, PhaseInv, StoreInv, [Next]_vars PROVE StoreInv'
  OBVIOUS
<1>1. CASE UNCHANGED db
  BY <1>1, Zenon DEF StoreInv, VersionCoversRows, IsHead, db
<1>2. ASSUME NEW r \in Revision, Store(r) PROVE StoreInv'
  <2>0. PICK n \in Nat : n = seq + 1
    BY Numbers
  <2>1. /\ version' = n /\ seq' = n
        /\ DOMAIN log' = DOMAIN log \cup {n} /\ rows' = rows \cup {n} /\ rows \subseteq DOMAIN log
        /\ \A u \in DOMAIN log : u \in Nat /\ log'[u] = log[u] /\ u < n
    BY <1>2, <2>0, Stored, Zenon DEF Store, TypeOK
  <2>2. VersionCoversRows' /\ \A u \in DOMAIN log' : u <= n
    BY <2>1 DEF VersionCoversRows
  <2>3. n \in rows' /\ IsHead(n)'
    <3>1. \A x \in rows' : x \in DOMAIN log'
      BY <2>1, Zenon
    <3> QED BY <2>1, <2>2, <3>1, Zenon DEF IsHead
  <2>4. ASSUME NEW w \in DOMAIN log', log'[w].path # log'[n].path
        PROVE  \E h \in rows' : IsHead(h)' /\ log'[h].path = log'[w].path /\ w <= h
    <3>1. w \in DOMAIN log /\ log'[w] = log[w]
      BY <2>1, <2>4, Zenon
    <3>2. PICK h \in rows : IsHead(h) /\ log[h].path = log[w].path /\ w <= h
      BY <3>1, Zenon DEF StoreInv
    <3>3. log'[h] = log[h] /\ h \in rows'
      BY <2>1, Zenon
    <3>4. ASSUME NEW x \in rows', log'[x].path = log'[h].path PROVE x <= h
      <4>1. x \in rows /\ log'[x] = log[x]
        BY <2>1, <2>4, <3>1, <3>2, <3>3, <3>4, Zenon
      <4> QED BY <3>2, <3>3, <3>4, <4>1, Zenon DEF IsHead
    <3> QED BY <3>1, <3>2, <3>3, <3>4, Zenon DEF IsHead
  <2>5. ASSUME NEW w \in DOMAIN log'
        PROVE  \E h \in rows' : IsHead(h)' /\ log'[h].path = log'[w].path /\ w <= h
    BY <2>2, <2>3, <2>4, Zenon
  <2> QED BY <2>1, <2>2, <2>5, Zenon DEF StoreInv
<1>3. CASE rows' = {u \in rows : IsHead(u)} /\ UNCHANGED <<seq, log, version>>
  <2>1. VersionCoversRows' /\ \A u \in DOMAIN log' : u <= version'
    BY <1>3, Zenon DEF StoreInv, VersionCoversRows
  <2>2. \A h \in rows : IsHead(h) => h \in rows' /\ IsHead(h)'
    BY <1>3, Zenon DEF IsHead
  <2> QED BY <1>3, <2>1, <2>2, Zenon DEF StoreInv
<1>4. CASE seq' = seq + 1 /\ UNCHANGED <<log, rows, version>>
  <2>1. VersionCoversRows' /\ \A h \in rows : IsHead(h)' <=> IsHead(h)
    BY <1>4 DEF TypeOK, StoreInv, VersionCoversRows, IsHead
  <2> QED BY <1>4, <2>1, Zenon DEF StoreInv
<1> QED BY DbSteps, <1>1, <1>2, <1>3, <1>4, Zenon

\* No step takes the version back.
LEMMA VersionGrows ==
  ASSUME TypeOK, PhaseInv, StoreInv, [Next]_vars
  PROVE  version \in Nat /\ version' \in Nat /\ version <= version'
<1>1. ASSUME NEW r \in Revision, Store(r) PROVE version' \in Nat /\ version < version'
  BY <1>1, Stored, Zenon
<1> QED BY <1>1, DbSteps DEF TypeOK, db

\* A revision keeps its content, and an old one that is a head already was.
LEMMA HeadsOld ==
  ASSUME TypeOK, PhaseInv, StoreInv, [Next]_vars
  PROVE  /\ \A u \in DOMAIN log : u \in DOMAIN log' /\ log'[u] = log[u]
         /\ \A h \in rows' : h <= version => h \in rows /\ (IsHead(h)' => IsHead(h))
<1>1. CASE UNCHANGED db
  BY <1>1, Zenon DEF db, IsHead
<1>2. ASSUME NEW r \in Revision, Store(r)
      PROVE  /\ \A u \in DOMAIN log : u \in DOMAIN log' /\ log'[u] = log[u]
             /\ \A h \in rows' : h <= version => h \in rows /\ (IsHead(h)' => IsHead(h))
  <2>1. \A u \in DOMAIN log : u \in DOMAIN log' /\ log'[u] = log[u]
    BY <1>2, Stored, Zenon
  <2>2. ASSUME NEW h \in rows', h <= version PROVE h \in rows /\ (IsHead(h)' => IsHead(h))
    <3>1. h \in rows /\ rows \subseteq rows' /\ rows \subseteq DOMAIN log
      BY <1>2, <2>2, Stored DEF TypeOK
    <3> QED BY <2>1, <2>2, <3>1, Zenon DEF IsHead
  <2> QED BY <2>1, <2>2, Zenon
<1>3. CASE rows' = {u \in rows : IsHead(u)} /\ UNCHANGED <<seq, log, version>>
  BY <1>3, Zenon
<1>4. CASE seq' = seq + 1 /\ UNCHANGED <<log, rows, version>>
  BY <1>4, Zenon DEF IsHead
<1> QED BY DbSteps, <1>1, <1>2, <1>3, <1>4, Zenon

-----------------------------------------------------------------------------
(* Devices, the boundary and the order of the stream.                      *)

\* The next event of a connection that follows the stream is news.
LEMMA EventIsNew ==
  ASSUME TypeOK, StoreInv, TailInv, NEW c \in Conn, pc[c] \in Following, pos[c] < Len(stream)
  PROVE  /\ seen[c] \in Nat
         /\ stream[pos[c] + 1] > seen[c]
         /\ stream[pos[c] + 1] <= version
<1>1. /\ pos[c] \in Nat /\ pos[c] + 1 \in 1..Len(stream)
      /\ stream[pos[c] + 1] \in DOMAIN log /\ stream[pos[c] + 1] \in Nat
  BY NextEvent, Zenon
<1>2. stream[pos[c] + 1] > Floor(c)
  BY <1>1 DEF TailInv, TailOf, Subscribed
<1>3. Floor(c) = seen[c]
  BY Zenon DEF Floor, Replaying, Following
<1> QED BY <1>1, <1>2, <1>3, Zenon DEF StoreInv, TypeOK

\* No step puts a device ahead of the vault.
LEMMA DeviceInvStep ==
  TypeOK /\ PhaseInv /\ StoreInv /\ DeviceInv /\ BoundaryInv /\ TailInv /\ PageInv /\ [Next]_vars
    => DeviceInv'
<1> SUFFICES ASSUME TypeOK, PhaseInv, StoreInv, DeviceInv, BoundaryInv, TailInv, PageInv, [Next]_vars,
                    NEW d \in Conn
             PROVE  seen'[d] <= version' /\ \A w \in got'[d] : w <= seen'[d]
  BY Zenon DEF DeviceInv
<1>1. /\ seen[d] \in Nat /\ seen[d] <= version /\ \A w \in got[d] : w \in Nat /\ w <= seen[d]
      /\ version \in Nat /\ version' \in Nat /\ version <= version'
  BY VersionGrows, SMTT(40) DEF DeviceInv, TypeOK
<1>2. ASSUME NEW x \in Nat, seen[d] <= x, x <= version, seen'[d] = x,
             got'[d] \subseteq got[d] \cup {x}
      PROVE  seen'[d] <= version' /\ \A w \in got'[d] : w <= seen'[d]
  BY <1>1, <1>2
<1>3. CASE seen'[d] = seen[d] /\ got'[d] = got[d]
  BY <1>1, <1>2, <1>3
<1>4. ASSUME NEW fresh \in BOOLEAN, NEW v \in 0..seen[d], Open(d, fresh, v)
      PROVE  seen'[d] <= version' /\ \A w \in got'[d] : w <= seen'[d]
  <2>1. seen'[d] = v /\ got'[d] = (IF fresh THEN {} ELSE {w \in got[d] : w <= v})
    BY <1>4, Zenon DEF Open, TypeOK
  <2> QED BY <1>1, <2>1
<1>5. CASE SendItem(d)
  <2>1. PICK u \in page[d] : SendItem(d)!(u)
    BY <1>5, Zenon DEF SendItem
  <2>2. u \in Nat /\ seen[d] < u /\ u <= version
    BY <2>1 DEF TypeOK, PageInv, StoreInv
  <2> QED BY <1>1, <1>2, <2>1, <2>2, Received
<1>6. CASE SendReady(d)
  <2>1. /\ seen[d] <= readyVersion[d] /\ readyVersion[d] <= version /\ readyVersion[d] \in Nat
        /\ seen'[d] = readyVersion[d] /\ got' = got
    BY <1>6, Zenon DEF SendReady, BoundaryInv, Replaying, TypeOK
  <2> QED BY <1>2, <2>1, Zenon
<1>7. CASE Deliver(d) \/ Acknowledge(d)
  <2>1. pos[d] < Len(stream) /\ Receive(d, stream[pos[d] + 1]) /\ pc[d] \in Following
    BY <1>7, Zenon DEF Deliver, Acknowledge, Following
  <2>2. stream[pos[d] + 1] \in Nat /\ stream[pos[d] + 1] > seen[d] /\ stream[pos[d] + 1] <= version
    BY <2>1, NextEvent, EventIsNew, Zenon
  <2> QED BY <1>1, <1>2, <2>1, <2>2, Received
<1> QED BY <1>3, <1>4, <1>5, <1>6, <1>7, DeviceSteps, Zenon

\* No step moves init's boundary away from the version it was read from.
LEMMA BoundaryInvStep ==
  TypeOK /\ PhaseInv /\ StoreInv /\ DeviceInv /\ BoundaryInv /\ PageInv /\ [Next]_vars => BoundaryInv'
<1> SUFFICES ASSUME TypeOK, PhaseInv, StoreInv, DeviceInv, BoundaryInv, PageInv, [Next]_vars,
                    NEW d \in Conn
             PROVE  /\ pc'[d] \in {"boundary", "subscribe"} /\ initial'[d] => got'[d] = {}
                    /\ pc'[d] = "subscribe" => readyVersion'[d] = version'
                    /\ pc'[d] \in Replaying => seen'[d] <= readyVersion'[d] /\ readyVersion'[d] <= version'
  BY Zenon DEF BoundaryInv
<1>1. ASSUME pc'[d] \in {"boundary", "subscribe"}, initial'[d] PROVE got'[d] = {}
  <2>1. CASE Same(d)
    BY <1>1, <2>1, Zenon DEF Same, BoundaryInv
  <2>2. ASSUME NEW v \in 0..seen[d], Open(d, TRUE, v) PROVE got'[d] = {}
    BY <2>2, Zenon DEF Open, TypeOK
  <2>3. ASSUME NEW v \in 0..seen[d], Open(d, FALSE, v) PROVE FALSE
    BY <1>1, <2>3, Zenon DEF Open, TypeOK
  <2>4. CASE ReadBoundary(d)
    BY <1>1, <2>4, Zenon DEF ReadBoundary, BoundaryInv, device
  <2> QED BY <1>1, <2>1, <2>2, <2>3, <2>4, OpeningSteps, Zenon
<1>2. ASSUME pc'[d] = "subscribe" PROVE readyVersion'[d] = version'
  <2>1. CASE Same(d)
    <3>1. commitOrder # None /\ pc[d] = "subscribe" /\ readyVersion'[d] = readyVersion[d]
      BY <1>2, <2>1, ConstantsAssumption DEF Same, PhaseInv, Holding
    <3> QED BY <3>1, DbSteps, Zenon DEF BoundaryInv, db
  <2>2. CASE ReadBoundary(d)
    BY <2>2, Zenon DEF ReadBoundary, TypeOK, db
  <2>3. ASSUME NEW v \in 0..seen[d], Open(d, TRUE, v) \/ Open(d, FALSE, v) PROVE FALSE
    BY <1>2, <2>3, Zenon DEF Open, TypeOK
  <2> QED BY <1>2, <2>1, <2>2, <2>3, OpeningSteps, Zenon
<1>3. ASSUME pc'[d] \in Replaying
      PROVE  seen'[d] <= readyVersion'[d] /\ readyVersion'[d] <= version'
  <2>0. readyVersion[d] \in Nat /\ version \in Nat /\ version' \in Nat /\ version <= version'
    BY VersionGrows, Zenon DEF TypeOK
  <2>1. CASE Same(d) /\ pc[d] \in Replaying
    <3>1. seen[d] <= readyVersion[d] /\ readyVersion[d] <= version
      BY <2>1, Zenon DEF BoundaryInv
    <3> QED BY <2>0, <2>1, <3>1 DEF Same
  <2>2. CASE Subscribe(d)
    BY <2>0, <2>2, Zenon DEF Subscribe, BoundaryInv, DeviceInv, replay, device, db
  <2>3. CASE ReadPage(d)
    BY <2>3, Zenon DEF ReadPage, BoundaryInv, Replaying, device, db
  <2>4. CASE SendItem(d)
    <3>1. PICK u \in page[d] : SendItem(d)!(u)
      BY <2>4, Zenon DEF SendItem
    <3> QED BY <3>1, Received DEF PageInv, BoundaryInv, Replaying, db
  <2> QED BY <1>3, <2>1, <2>2, <2>3, <2>4, ReplaySteps, Zenon
<1> QED BY <1>1, <1>2, <1>3, Zenon

\* Commits are published in the order of their uids.
LEMMA StreamInvStep == TypeOK /\ PhaseInv /\ StoreInv /\ StreamInv /\ [Next]_vars => StreamInv'
<1> SUFFICES ASSUME TypeOK, PhaseInv, StoreInv, StreamInv, [Next]_vars PROVE StreamInv'
  OBVIOUS
<1>1. ASSUME NEW c \in Conn, Commits(c) PROVE StreamInv'
  <2>1. stream' = stream /\ \A i \in 1..Len(stream) : stream[i] \in DOMAIN log
    BY <1>1 DEF Commits, Commit, TypeOK
  <2>2. \A d \in Conn : pc'[d] = "publish" => d = c /\ committed'[d] = seq + 1
    BY <1>1, NobodyPublishes, Zenon DEF Commits, Served, Commit, TypeOK
  <2>3. \A u \in DOMAIN log : u < seq + 1
    BY <1>1, Stored, Zenon DEF Commits, Commit
  <2> QED BY <2>1, <2>2, <2>3, Zenon DEF StreamInv
<1>2. ASSUME NEW c \in Conn, Publish(c) PROVE StreamInv'
  <2>1. \A i \in 1..Len(stream) : stream[i] < committed[c]
    BY <1>2, Zenon DEF Publish, StreamInv
  <2>2. \A d \in Conn : pc'[d] # "publish"
    BY <1>2, Zenon DEF Publish, TypeOK, PhaseInv, Holding
  <2>3. ASSUME NEW i \in 1..Len(stream'), NEW j \in 1..Len(stream'), i < j
        PROVE  stream'[i] < stream'[j]
    <3>1. i \in 1..Len(stream)
      BY <1>2, <2>3, Published
    <3> QED BY <1>2, <2>1, <2>3, <3>1, Published, Zenon DEF StreamInv
  <2> QED BY <2>2, <2>3, Zenon DEF StreamInv
<1>3. CASE Crash
  BY <1>3 DEF Crash, StreamInv
<1>4. CASE /\ stream' = stream
           /\ \A e \in Conn : pc'[e] = "publish" => pc[e] = "publish" /\ committed'[e] = committed[e]
  BY <1>4, Zenon DEF StreamInv
<1> QED BY <1>1, <1>2, <1>3, <1>4, StreamSteps, Zenon

\* A connection that takes an event moves its floor up to it.
LEMMA TailReceive ==
  ASSUME TypeOK, StreamInv, TailInv, NEW c \in Conn,
         pos[c] < Len(stream), Receive(c, stream[pos[c] + 1]), pc[c] \in Following,
         stream' = stream, pos'[c] = pos[c] + 1, pc'[c] \in {"live", "ack"},
         \A d \in Conn \ {c} : pc'[d] = pc[d] /\ committed'[d] = committed[d]
  PROVE  TailOf(c)'
<1>1. /\ pos[c] \in Nat /\ Len(stream) \in Nat /\ pos[c] + 1 \in 1..Len(stream)
      /\ stream[pos[c] + 1] \in Nat
  <2>1. Len(stream) \in Nat
    BY Numbers, Zenon
  <2> QED BY <2>1, NextEvent, Zenon
<1>2. Floor(c)' = stream[pos[c] + 1]
  BY Received DEF Floor, Replaying
<1>3. \A i \in 1..Len(stream) : i > pos[c] + 1 => stream[i] > stream[pos[c] + 1]
  <2>1. \A i \in 1..Len(stream) : stream[i] \in Nat
    BY Numbers, Zenon
  <2> QED BY <1>1, <2>1, Zenon DEF StreamInv
<1>4. ASSUME NEW d \in Conn, pc'[d] = "publish" PROVE committed'[d] > stream[pos[c] + 1]
  <2>1. pc[d] = "publish" /\ committed'[d] = committed[d]
    BY <1>4, Zenon
  <2> QED BY <1>1, <2>1, Zenon DEF StreamInv, TypeOK
<1> QED BY <1>1, <1>2, <1>3, <1>4 DEF TailOf

\* The events a connection has not read stay past its floor.
LEMMA TailInvStep ==
  TypeOK /\ PhaseInv /\ StoreInv /\ DeviceInv /\ BoundaryInv /\ StreamInv /\ TailInv /\ [Next]_vars
    => TailInv'
<1> SUFFICES ASSUME TypeOK, PhaseInv, StoreInv, DeviceInv, BoundaryInv, StreamInv, TailInv, [Next]_vars,
                    NEW d \in Conn, pc'[d] \in Subscribed
             PROVE  TailOf(d)'
  BY Zenon DEF TailInv
<1>1. CASE Subscribe(d)
  <2>1. stream' = stream /\ pos'[d] = Len(stream) /\ Len(stream) \in Nat /\ pc'[d] = "page"
    BY <1>1 DEF Subscribe, TypeOK
  <2>2. \A e \in Conn : pc'[e] # "publish"
    <3>1. \A e \in Conn : pc[e] # "publish"
      BY <1>1, Zenon DEF Subscribe, PhaseInv, Holding
    <3> QED BY <1>1, <2>1, <3>1, Zenon DEF Subscribe, TypeOK
  <2> QED BY <2>1, <2>2 DEF TailOf
<1>2. CASE Deliver(d) \/ Acknowledge(d)
  <2>1. /\ pos[d] < Len(stream) /\ Receive(d, stream[pos[d] + 1]) /\ pc[d] \in Following
        /\ pos'[d] = pos[d] + 1 /\ pc'[d] \in {"live", "ack"} /\ stream' = stream
    BY <1>2, Zenon DEF Deliver, Acknowledge, TypeOK, Following
  <2>2. \A e \in Conn \ {d} : pc'[e] = pc[e] /\ committed'[e] = committed[e]
    BY <1>2, OthersSame, Zenon DEF ConnStep, Same
  <2> QED BY <2>1, <2>2, TailReceive, Zenon
<1>3. CASE pc[d] \in Subscribed /\ Floor(d)' = Floor(d) /\ pos'[d] = pos[d]
  <2>1. TailOf(d) /\ pos[d] \in Nat /\ Floor(d) \in Nat /\ Floor(d) <= version /\ version \in Nat
    BY <1>3, Zenon DEF TailInv, TypeOK, Floor, DeviceInv, BoundaryInv
  <2>2. ASSUME NEW c \in Conn, Commits(c) PROVE TailOf(d)'
    <3>1. stream' = stream
      BY <2>2, Zenon DEF Commits, Commit
    <3>2. \A e \in Conn : pc'[e] = "publish" => committed'[e] = seq + 1
      BY <2>2, NobodyPublishes, Zenon DEF Commits, Served, Commit, TypeOK
    <3>3. version < seq + 1 /\ seq + 1 \in Nat
      BY <2>2, Stored, Zenon DEF Commits, Commit
    <3>4. Floor(d) < seq + 1
      BY <2>1, <3>3
    <3> QED BY <1>3, <2>1, <3>1, <3>2, <3>4, Zenon DEF TailOf
  <2>3. ASSUME NEW c \in Conn, Publish(c) PROVE TailOf(d)'
    <3>1. \A e \in Conn : pc'[e] # "publish"
      BY <2>3, Zenon DEF Publish, TypeOK, PhaseInv, Holding
    <3>2. pos[d] <= Len(stream')
      BY <2>1, <2>3, Published DEF TailOf
    <3>3. committed[c] > Floor(d)
      BY <2>1, <2>3, Zenon DEF TailOf, Publish
    <3>4. \A i \in 1..Len(stream') : i > pos[d] => stream'[i] > Floor(d)
      BY <2>1, <2>3, <3>3, Published, Zenon DEF TailOf
    <3> QED BY <1>3, <3>1, <3>2, <3>4, Zenon DEF TailOf
  <2>4. CASE /\ stream' = stream
             /\ \A e \in Conn : pc'[e] = "publish" => pc[e] = "publish" /\ committed'[e] = committed[e]
    BY <1>3, <2>1, <2>4, Zenon DEF TailOf
  <2>5. ~Crash
    BY Zenon DEF Crash, Subscribed, Replaying, Following
  <2> QED BY <2>2, <2>3, <2>4, <2>5, StreamSteps, Zenon
<1> QED BY <1>1, <1>2, <1>3, FloorSteps, Zenon

\* A published commit stays unread until its author takes it.
LEMMA AckInvStep ==
  TypeOK /\ PhaseInv /\ TailInv /\ AckInv /\ [Next]_vars => AckInv'
<1> SUFFICES ASSUME TypeOK, PhaseInv, TailInv, AckInv, [Next]_vars, NEW d \in Conn, pc'[d] = "ack"
             PROVE  \E i \in 1..Len(stream') : i > pos'[d] /\ stream'[i] = committed'[d]
  BY Zenon DEF AckInv
<1>1. CASE Publish(d)
  <2>1. UNCHANGED <<pos, committed>> /\ pos[d] \in Nat /\ pos[d] <= Len(stream)
    BY <1>1, Zenon DEF Publish, TypeOK, TailInv, TailOf, Subscribed, Following
  <2>2. Len(stream) + 1 \in 1..Len(stream') /\ Len(stream) + 1 > pos[d]
    BY <1>1, <2>1, Published
  <2> QED BY <1>1, <2>1, <2>2, Published, Zenon
<1>2. CASE Acknowledge(d)
  <2>1. /\ stream[pos[d] + 1] # committed[d] /\ committed'[d] = committed[d] /\ pos[d] \in Nat
        /\ pos'[d] = pos[d] + 1 /\ stream' = stream /\ pc[d] = "ack"
    BY <1>2, Zenon DEF Acknowledge, TypeOK
  <2>2. PICK i \in 1..Len(stream) : i > pos[d] /\ stream[i] = committed[d]
    BY <2>1, Zenon DEF AckInv
  <2> QED BY <2>1, <2>2
<1>3. CASE Same(d)
  <2>1. PICK i \in 1..Len(stream) : i > pos[d] /\ stream[i] = committed[d]
    BY <1>3, Zenon DEF Same, AckInv
  <2>2. i \in 1..Len(stream') /\ stream'[i] = stream[i]
    <3>1. ASSUME NEW c \in Conn, Publish(c) PROVE i \in 1..Len(stream') /\ stream'[i] = stream[i]
      BY <3>1, Published
    <3>2. ASSUME NEW c \in Conn, Commits(c) PROVE stream' = stream
      BY <3>2, Zenon DEF Commits, Commit
    <3>3. ~Crash
      BY Zenon DEF Crash
    <3> QED BY <3>1, <3>2, <3>3, StreamSteps, Zenon
  <2> QED BY <1>3, <2>1, <2>2, Zenon DEF Same
<1>4. ConnStep(d) => Publish(d) \/ Acknowledge(d)
  <2>1. /\ ~(\E fresh \in BOOLEAN, v \in 0..seen[d] : Open(d, fresh, v)) /\ ~ReadBoundary(d)
        /\ ~Subscribe(d) /\ ~ReadPage(d) /\ ~SendItem(d) /\ ~SendReady(d) /\ ~Deliver(d)
    BY Zenon DEF TypeOK, Open, ReadBoundary, Subscribe, ReadPage, SendItem, SendReady, Deliver
  <2>2. /\ ~Leaves(d) /\ ~CommitsUnread(d) /\ ~Asks(d) /\ ~BeginUpload(d) /\ ~Commits(d)
        /\ ~Answers(d) /\ ~CommitPurge(d)
    BY Zenon
       DEF TypeOK, Leaves, CommitsUnread, Close, Asks, Begin, BeginUpload, Commits, Commit, Answers,
       CommitPurge, Reply
  <2> QED BY <2>1, <2>2, Zenon DEF ConnStep
<1>5. ~Crash
  BY Zenon DEF Crash
<1> QED BY <1>1, <1>2, <1>3, <1>4, <1>5, Frame, Zenon

\* What a device expects it has reached.
LEMMA ExpectInvStep == TypeOK /\ PhaseInv /\ StoreInv /\ TailInv /\ ExpectInv /\ [Next]_vars => ExpectInv'
<1> SUFFICES ASSUME TypeOK, PhaseInv, StoreInv, TailInv, ExpectInv, [Next]_vars, NEW d \in Conn
             PROVE  /\ pending'[d] # None /\ pending'[d].expected # None => pending'[d].expected <= seen'[d]
                    /\ pc'[d] = "wait" /\ req'[d].kind = "push" /\ req'[d].expected # None
                         => req'[d].expected <= seen'[d]
  BY Zenon DEF ExpectInv
<1>1. CASE Same(d)
  BY <1>1, Zenon DEF Same, ExpectInv
<1>2. CASE Crash \/ Leaves(d) \/ CommitsUnread(d)
  BY <1>2, Zenon DEF Crash, Leaves, CommitsUnread, Close, TypeOK
<1>3. CASE \/ \E fresh \in BOOLEAN, v \in 0..seen[d] : Open(d, fresh, v)
           \/ ReadBoundary(d) \/ Subscribe(d) \/ ReadPage(d) \/ SendItem(d) \/ SendReady(d)
  <2>1. pending[d] = None /\ pending' = pending
    BY <1>3, Zenon
       DEF Open, ReadBoundary, Subscribe, ReadPage, SendItem, SendReady, PhaseInv, Following
  <2>2. pc'[d] # "wait"
    BY <1>3, Zenon DEF Open, ReadBoundary, Subscribe, ReadPage, SendItem, SendReady, TypeOK
  <2> QED BY <2>1, <2>2, Zenon
<1>4. CASE Deliver(d) \/ Acknowledge(d)
  <2>1. /\ pos[d] < Len(stream) /\ Receive(d, stream[pos[d] + 1]) /\ pc[d] \in Following
        /\ pending' = pending /\ pc'[d] # "wait"
    BY <1>4, Zenon DEF Deliver, Acknowledge, TypeOK, Following
  <2>2. seen'[d] = stream[pos[d] + 1] /\ seen'[d] \in Nat /\ seen[d] \in Nat /\ seen'[d] > seen[d]
    BY <2>1, Received, EventIsNew, NextEvent, ZenonT(40)
  <2>3. pending[d] # None /\ pending[d].expected # None => pending[d].expected \in Nat
    BY Zenon DEF TypeOK, PushRequest
  <2>4. pending[d] # None /\ pending[d].expected # None => pending[d].expected <= seen[d]
    BY Zenon DEF ExpectInv
  <2> QED BY <2>1, <2>2, <2>3, <2>4, SMTT(40)
<1>5. CASE Commits(d) \/ Answers(d) \/ CommitPurge(d) \/ Publish(d)
  <2>1. UNCHANGED <<pending, seen>> /\ pc'[d] # "wait"
    BY <1>5, Zenon DEF Commits, Commit, Answers, CommitPurge, Reply, Publish, TypeOK, device
  <2> QED BY <2>1, Zenon DEF ExpectInv
<1>6. CASE Asks(d)
  <2>1. PICK r \in Request : Asks(d)!(r)
    BY <1>6, Zenon DEF Asks
  <2>2. req'[d] = r /\ seen' = seen /\ seen[d] \in Nat /\ pending'[d] \in {pending[d], None}
    BY <2>1, Zenon DEF Begin, TypeOK, device
  <2>3. r.kind = "push" => r \in PushRequest
    BY Zenon DEF Request, PushRequest, RestoreRequest, PurgeRequest
  <2>4. r.kind = "push" /\ r.expected # None => r.expected <= seen[d]
    <3>1. CASE r = pending[d] /\ r # None
      BY <3>1, Zenon DEF ExpectInv
    <3>2. CASE r.expected \in {None, seen[d]}
      BY <3>2, <2>2, SMTT(40)
    <3> QED BY <3>1, <3>2, <2>1, <2>3, Zenon
  <2> QED BY <2>2, <2>4, Zenon DEF ExpectInv
<1>7. CASE BeginUpload(d)
  <2>1. PICK p \in Path, e \in Expectations(d) : BeginUpload(d)!(p, e)
    BY <1>7, Zenon DEF BeginUpload
  <2>2. UNCHANGED seen /\ seen[d] \in Nat /\ e \in {None, seen[d]} /\ pc'[d] # "wait"
    BY <2>1, Zenon DEF device, TypeOK, Expectations
  <2>3. pending'[d].expected = e
    BY <2>1, Zenon DEF TypeOK
  <2> QED BY <2>2, <2>3
<1> QED BY <1>1, <1>2, <1>3, <1>4, <1>5, <1>6, <1>7, Frame, Zenon DEF ConnStep

-----------------------------------------------------------------------------
(* No revision is lost to a device, as long as each one committed is also  *)
(* published.                                                              *)

\* A first copy never gets a revision of a path that is deleted at the boundary.
LEMMA FreshInvStep ==
  TypeOK /\ PhaseInv /\ StoreInv /\ BoundaryInv /\ FreshInv /\ [Next]_vars => FreshInv'
<1> SUFFICES ASSUME TypeOK, PhaseInv, StoreInv, BoundaryInv, FreshInv, [Next]_vars,
                    NEW d \in Conn, pc'[d] \in Replaying, initial'[d],
                    NEW h \in rows', IsHead(h)', h <= readyVersion'[d], log'[h].deleted,
                    NEW w \in got'[d] \cup page'[d]
             PROVE  log'[w].path # log'[h].path
  BY Zenon DEF FreshInv
<1>1. CASE Same(d) /\ pc[d] \in Replaying
  <2>1. h <= readyVersion[d] /\ readyVersion[d] <= version /\ w \in got[d] \cup page[d] /\ initial[d]
    BY <1>1, Zenon DEF Same, BoundaryInv
  <2>2. h \in Nat /\ readyVersion[d] \in Nat /\ version \in Nat
    BY UidsAfter, Zenon DEF TypeOK
  <2>3. h \in rows /\ IsHead(h) /\ h \in DOMAIN log /\ log'[h] = log[h]
    <3>1. h <= version
      BY <2>1, <2>2
    <3>2. h \in rows /\ IsHead(h)
      BY <3>1, HeadsOld, Zenon
    <3> QED BY <3>2, HeadsOld, Zenon DEF TypeOK
  <2>4. log'[w] = log[w]
    BY <2>1, HeadsOld, Zenon DEF TypeOK
  <2> QED BY <1>1, <2>1, <2>3, <2>4, Zenon DEF FreshInv
<1>2. CASE Subscribe(d) /\ UNCHANGED db
  <2>1. pc[d] = "subscribe" /\ UNCHANGED <<got, page, initial>>
    BY <1>2, Zenon DEF Subscribe, device, replay
  <2> QED BY <2>1, Zenon DEF BoundaryInv, PhaseInv
<1>3. CASE ReadPage(d) /\ UNCHANGED db
  <2>1. /\ pc[d] = "page" /\ initial[d] /\ UNCHANGED <<got, readyVersion, rows, log>>
        /\ page'[d] = FirstPage(initial_snapshot(seen[d], readyVersion[d]))
    BY <1>3, Zenon DEF ReadPage, TypeOK, db, device
  <2>2. h \in rows /\ IsHead(h) /\ h <= readyVersion[d] /\ log[h].deleted
    BY <2>1, Zenon DEF IsHead
  <2>3. CASE w \in got[d]
    BY <2>1, <2>2, <2>3, Zenon DEF FreshInv, Replaying
  <2>4. CASE w \in initial_snapshot(seen[d], readyVersion[d])
    <3>1. w \in rows /\ HeadThrough(w, readyVersion[d]) /\ ~log[w].deleted
      BY <2>4, Zenon DEF initial_snapshot
    <3>2. log[w].path = log[h].path => h <= w /\ w <= h
      BY <2>2, <3>1, Zenon DEF HeadThrough, IsHead
    <3>3. h \in Nat /\ w \in Nat
      BY <2>2, <3>1, Numbers, Zenon
    <3> QED BY <2>1, <2>2, <3>1, <3>2, <3>3, SMTT(40)
  <2> QED BY <2>1, <2>3, <2>4, Zenon DEF FirstPage
<1>4. CASE SendItem(d) /\ UNCHANGED db
  <2>1. PICK u \in page[d] : SendItem(d)!(u)
    BY <1>4, Zenon DEF SendItem
  <2>2. /\ pc[d] = "send" /\ page'[d] = page[d] \ {u} /\ got'[d] = got[d] \cup {u}
        /\ UNCHANGED <<readyVersion, initial, rows, log>>
    <3>1. got'[d] = got[d] \cup {u}
      BY <2>1, Received, Zenon
    <3>2. page'[d] = page[d] \ {u}
      BY <2>1, Zenon DEF TypeOK
    <3>3. rows' = rows /\ log' = log
      BY <1>4, Zenon DEF db
    <3> QED BY <2>1, <3>1, <3>2, <3>3, Zenon
  <2>3. h \in rows /\ IsHead(h) /\ h <= readyVersion[d] /\ log[h].deleted /\ w \in got[d] \cup page[d]
    BY <2>2, Zenon DEF IsHead
  <2> QED BY <2>2, <2>3, Zenon DEF FreshInv, Replaying
<1> QED BY <1>1, <1>2, <1>3, <1>4, ReplaySteps, Zenon

\* Every revision past a connection's floor is on its way to it.
LEMMA QueueInvStep ==
  "unread" \notin Ops /\ TypeOK /\ PhaseInv /\ StoreInv /\ BoundaryInv /\ StreamInv /\ TailInv
    /\ QueueInv /\ [Next]_vars => QueueInv'
<1> SUFFICES ASSUME "unread" \notin Ops, TypeOK, PhaseInv, StoreInv, BoundaryInv, StreamInv, TailInv,
                    QueueInv, [Next]_vars,
                    NEW d \in Conn, pc'[d] \in Subscribed, NEW u \in DOMAIN log', u > Floor(d)'
             PROVE  \/ \E i \in 1..Len(stream') : i > pos'[d] /\ stream'[i] = u
                    \/ \E e \in Conn : pc'[e] = "publish" /\ committed'[e] = u
  BY Zenon DEF QueueInv
<1>1. ASSUME Subscribe(d) PROVE FALSE
  <2>1. Floor(d)' = version /\ log' = log /\ version \in Nat
    BY <1>1, Zenon DEF Subscribe, Floor, BoundaryInv, TypeOK, Replaying, replay, db
  <2>2. u \in Nat /\ u <= version
    BY <2>1 DEF StoreInv, TypeOK
  <2> QED BY <2>1, <2>2
<1>2. CASE Deliver(d) \/ Acknowledge(d)
  <2>1. /\ pos[d] < Len(stream) /\ Receive(d, stream[pos[d] + 1]) /\ pc[d] \in Following
        /\ pos'[d] = pos[d] + 1 /\ pc'[d] \in {"live", "ack"}
        /\ UNCHANGED <<stream, log>>
    BY <1>2, Zenon DEF Deliver, Acknowledge, TypeOK, Following, db
  <2>2. /\ pos[d] \in Nat /\ Len(stream) \in Nat /\ pos[d] + 1 \in 1..Len(stream)
        /\ stream[pos[d] + 1] \in Nat
    <3>1. Len(stream) \in Nat
      BY Numbers, Zenon
    <3> QED BY <2>1, <3>1, NextEvent, Zenon
  <2>3. Floor(d)' = stream[pos[d] + 1]
    BY <2>1, Received, Zenon DEF Floor, Replaying
  <2>4. u > Floor(d)
    <3>1. Floor(d) = seen[d] /\ seen[d] \in Nat /\ stream[pos[d] + 1] > seen[d]
      BY <2>1, EventIsNew, Zenon DEF Floor, Following, Replaying
    <3>2. u \in Nat
      BY <2>1, Numbers, Zenon
    <3> QED BY <2>2, <2>3, <3>1, <3>2
  <2>5. CASE \E i \in 1..Len(stream) : i > pos[d] /\ stream[i] = u
    <3>1. PICK i \in 1..Len(stream) : i > pos[d] /\ stream[i] = u
      BY <2>5, Zenon
    <3>2. i # pos[d] + 1
      BY <2>2, <2>3, <3>1
    <3> QED BY <2>1, <2>2, <3>1, <3>2
  <2>6. CASE \E e \in Conn : pc[e] = "publish" /\ committed[e] = u
    <3>1. PICK e \in Conn : pc[e] = "publish" /\ committed[e] = u
      BY <2>6, Zenon
    <3>2. e # d
      BY <1>2, <3>1, Zenon DEF Deliver, Acknowledge
    <3>3. Same(e)
      BY <1>2, <3>2, OthersSame, Zenon DEF ConnStep
    <3> QED BY <3>1, <3>3, Zenon DEF Same
  <2> QED BY <2>1, <2>4, <2>5, <2>6, Zenon DEF QueueInv, Subscribed
<1>3. CASE pc[d] \in Subscribed /\ Floor(d)' = Floor(d) /\ pos'[d] = pos[d]
  <2>1. ASSUME NEW c \in Conn, Commits(c)
        PROVE  \/ \E i \in 1..Len(stream') : i > pos'[d] /\ stream'[i] = u
               \/ \E e \in Conn : pc'[e] = "publish" /\ committed'[e] = u
    <3>1. /\ stream' = stream /\ pc'[c] = "publish" /\ committed'[c] = seq + 1
          /\ DOMAIN log' = DOMAIN log \cup {seq + 1}
      BY <2>1, Stored, Zenon DEF Commits, Commit, TypeOK
    <3>2. \A e \in Conn : pc[e] # "publish"
      BY <2>1, ConstantsAssumption, Zenon DEF Commits, Served, PhaseInv, Holding
    <3> QED BY <1>3, <3>1, <3>2, Zenon DEF QueueInv
  <2>2. ASSUME NEW c \in Conn, Publish(c)
        PROVE  \E i \in 1..Len(stream') : i > pos'[d] /\ stream'[i] = u
    <3>1. /\ Len(stream) \in Nat /\ Len(stream') = Len(stream) + 1
          /\ stream'[Len(stream) + 1] = committed[c]
          /\ \A i \in 1..Len(stream) : stream'[i] = stream[i]
      BY <2>2, SMTT(40) DEF Publish, TypeOK
    <3>2. \A e \in Conn : pc[e] = "publish" => e = c
      BY <2>2, Zenon DEF Publish, PhaseInv, Holding
    <3>3. log' = log /\ pos[d] \in Nat /\ pos[d] <= Len(stream)
      BY <1>3, <2>2, Zenon DEF Publish, db, TypeOK, TailInv, TailOf
    <3>4. CASE u = committed[c]
      <4>1. Len(stream) + 1 \in 1..Len(stream') /\ Len(stream) + 1 > pos'[d]
        BY <1>3, <3>1, <3>3
      <4> QED BY <3>1, <3>4, <4>1, Zenon
    <3>5. CASE \E i \in 1..Len(stream) : i > pos[d] /\ stream[i] = u
      <4>1. PICK i \in 1..Len(stream) : i > pos[d] /\ stream[i] = u
        BY <3>5, Zenon
      <4>2. i \in 1..Len(stream')
        BY <3>1
      <4> QED BY <1>3, <3>1, <4>1, <4>2, Zenon
    <3> QED BY <1>3, <3>2, <3>3, <3>4, <3>5, Zenon DEF QueueInv
  <2>3. ~Crash
    BY Zenon DEF Crash, Subscribed, Replaying, Following
  <2>4. CASE /\ stream' = stream /\ log' = log
             /\ \A e \in Conn : pc[e] = "publish" => pc'[e] = "publish" /\ committed'[e] = committed[e]
    BY <1>3, <2>4, Zenon DEF QueueInv
  <2> QED BY StreamSteps, <2>1, <2>2, <2>3, <2>4, Zenon
<1> QED BY FloorSteps, <1>1, <1>2, <1>3, Zenon

\* A new notice leaves what the device reflects of older heads alone: had it
\* been of the same path, the head would be older than a revision of its path.
LEMMA ReflectsOlder ==
  ASSUME TypeOK, StoreInv, NEW d \in Conn, NEW x \in DOMAIN log, NEW u \in rows,
         IsHead(u), u < x, Reflects(d, u), got'[d] = got[d] \cup {x}, log' = log
  PROVE  Reflects(d, u)'
<1>1. log[x].path # log[u].path
  <2>1. PICK y \in rows : log[y].path = log[x].path /\ x <= y
    BY Zenon DEF StoreInv
  <2>2. x \in Nat /\ y \in Nat /\ u \in Nat
    BY Numbers, Zenon
  <2>3. log[x].path = log[u].path => y <= u
    BY <2>1, Zenon DEF IsHead
  <2> QED BY <2>1, <2>2, <2>3
<1> QED BY <1>1, Zenon DEF Reflects

\* An event in the stream is the oldest of the heads a live device lacks.
LEMMA NextHead ==
  ASSUME TypeOK, StreamInv, QueueInv, NEW d \in Conn, pc[d] \in Following,
         pos[d] < Len(stream), NEW u \in DOMAIN log, seen[d] < u, u <= stream[pos[d] + 1]
  PROVE  u = stream[pos[d] + 1]
<1>1. /\ pos[d] \in Nat /\ pos[d] + 1 \in 1..Len(stream) /\ stream[pos[d] + 1] \in Nat
  BY NextEvent, Zenon
<1>2. u \in Nat /\ seen[d] \in Nat /\ \A i \in 1..Len(stream) : stream[i] \in Nat
  <2>1. \A i \in 1..Len(stream) : stream[i] \in DOMAIN log
    <3>1. stream \in Seq(DOMAIN log)
      BY Zenon DEF TypeOK
    <3> QED BY <3>1
  <2>2. \A w \in DOMAIN log : w \in Nat
    BY Numbers, Zenon
  <2> QED BY <2>1, <2>2, Zenon DEF TypeOK
<1>3. Floor(d) = seen[d] /\ pc[d] \in Subscribed
  BY Zenon DEF Floor, Following, Replaying, Subscribed
<1>4. ASSUME NEW e \in Conn, pc[e] = "publish", committed[e] = u PROVE FALSE
  <2>1. stream[pos[d] + 1] < u
    BY <1>1, <1>4, Zenon DEF StreamInv
  <2> QED BY <1>1, <1>2, <2>1
<1>5. ASSUME NEW i \in 1..Len(stream), i > pos[d], stream[i] = u PROVE u = stream[pos[d] + 1]
  <2>1. i = pos[d] + 1 \/ pos[d] + 1 < i
    BY <1>1, <1>5
  <2>2. pos[d] + 1 < i => stream[pos[d] + 1] < u
    BY <1>1, <1>5, Zenon DEF StreamInv
  <2> QED BY <1>1, <1>2, <1>5, <2>1, <2>2
<1>6. u > Floor(d)
  BY <1>2, <1>3, Zenon
<1> QED BY <1>3, <1>4, <1>5, <1>6, Zenon DEF QueueInv

\* A first copy reflects the tombstones it is spared.
LEMMA SparedReflects ==
  ASSUME FreshInv, NEW d \in Conn, NEW u \in rows, IsHead(u), Spared(d, u), u <= readyVersion[d],
         pc[d] \in Replaying, got'[d] \subseteq got[d] \cup page[d], log' = log
  PROVE  Reflects(d, u)'
BY Zenon DEF FreshInv, Spared, Reflects

\* The next item of a page leaves no gap behind it.
LEMMA ItemReflects ==
  ASSUME TypeOK, StoreInv, PageInv, OwedInv, FreshInv, NEW d \in Conn, pc[d] = "send",
         NEW x \in page[d], \A w \in page[d] : x <= w, got'[d] = got[d] \cup {x}, log' = log,
         NEW u \in rows, IsHead(u), u <= x, u <= seen[d] => Reflects(d, u)
  PROVE  Reflects(d, u)'
<1>1. u \in Nat /\ x \in Nat /\ seen[d] \in Nat /\ readyVersion[d] \in Nat /\ x \in DOMAIN log
  BY Numbers, Zenon
<1>2. seen[d] < x /\ x <= readyVersion[d]
  BY Zenon DEF PageInv
<1>3. u <= readyVersion[d] /\ (u < x \/ u = x) /\ (u <= seen[d] \/ seen[d] < u) /\ (u <= seen[d] => u < x)
  BY <1>1, <1>2
<1>4. CASE u <= seen[d]
  BY <1>1, <1>3, <1>4, ReflectsOlder, Zenon
<1>5. CASE u = x
  BY <1>5, Zenon DEF Reflects
<1>6. CASE seen[d] < u /\ u # x
  <2>2. u \notin page[d]
    BY <1>1, <1>3, <1>6
  <2>3. ~\A w \in page[d] : w < u
    BY <1>1, <1>3, <1>6
  <2>4. Spared(d, u)
    BY <1>3, <1>6, <2>2, <2>3, Zenon DEF OwedInv
  <2>5. pc[d] \in Replaying /\ got'[d] \subseteq got[d] \cup page[d]
    BY Zenon DEF Replaying
  <2> QED BY <1>3, <2>4, <2>5, SparedReflects, Zenon
<1> QED BY <1>3, <1>4, <1>5, <1>6, Zenon

\* The next event of the stream leaves no gap behind it.
LEMMA EventReflects ==
  ASSUME TypeOK, StoreInv, StreamInv, TailInv, QueueInv, NEW d \in Conn, pc[d] \in Following,
         pos[d] < Len(stream), got'[d] = got[d] \cup {stream[pos[d] + 1]}, log' = log,
         NEW u \in rows, IsHead(u), u <= stream[pos[d] + 1], u <= seen[d] => Reflects(d, u)
  PROVE  Reflects(d, u)'
<1> DEFINE x == stream[pos[d] + 1]
<1>1. x \in DOMAIN log /\ x \in Nat /\ seen[d] \in Nat /\ x > seen[d]
  BY NextEvent, EventIsNew, Zenon
<1>2. u \in Nat /\ u \in DOMAIN log
  BY Numbers, Zenon
<1>3. CASE u <= seen[d]
  <2> HIDE DEF x
  <2>1. u < x
    BY <1>1, <1>2, <1>3
  <2>2. got'[d] = got[d] \cup {x}
    BY Zenon DEF x
  <2> QED BY <1>1, <1>3, <2>1, <2>2, ReflectsOlder, Zenon
<1>4. CASE seen[d] < u
  <2>1. u = x
    BY <1>2, <1>4, NextHead, Zenon
  <2> QED BY <2>1, Zenon DEF Reflects
<1> QED BY <1>1, <1>2, <1>3, <1>4

\* A new connection forgets, with the notices, the version they led to.
LEMMA OpenReflects ==
  ASSUME TypeOK, NEW d \in Conn, NEW fresh \in BOOLEAN, NEW v \in 0..seen[d], Open(d, fresh, v),
         NEW u \in rows, u <= v, u <= seen[d] => Reflects(d, u), log' = log
  PROVE  Reflects(d, u)'
<1>1. u \in Nat /\ u > 0 /\ seen[d] \in Nat /\ v \in Nat
  BY SMTT(40) DEF TypeOK
<1>2. got'[d] = (IF fresh THEN {} ELSE {w \in got[d] : w <= v}) /\ (fresh => v = 0)
  BY Zenon DEF Open, TypeOK
<1>3. ~fresh /\ u <= seen[d]
  BY <1>1, <1>2
<1> QED BY <1>1, <1>2, <1>3, Zenon DEF Reflects

\* Replay, live events and reconnections leave no gap.
LEMMA NoLostRevisionStep ==
  "unread" \notin Ops /\ Inv /\ [Next]_vars => NoLostRevision'
<1> SUFFICES ASSUME "unread" \notin Ops, Inv, [Next]_vars,
                    NEW d \in Conn, NEW u \in rows', IsHead(u)', u <= seen'[d]
             PROVE  Reflects(d, u)'
  BY Zenon DEF NoLostRevision
<1>0. /\ TypeOK /\ PhaseInv /\ StoreInv /\ DeviceInv /\ BoundaryInv /\ StreamInv /\ TailInv
      /\ PageInv /\ OwedInv /\ FreshInv /\ QueueInv /\ NoLostRevision
  BY Zenon DEF Inv, OrderInv
<1>1. CASE seen'[d] = seen[d] /\ got'[d] = got[d]
  <2>1. u <= seen[d] /\ seen[d] <= version /\ u \in Nat /\ seen[d] \in Nat /\ version \in Nat
    <3>1. u \in Nat
      BY <1>0, UidsAfter, Zenon
    <3>2. seen[d] \in Nat /\ version \in Nat
      BY <1>0, Zenon DEF TypeOK
    <3> QED BY <1>0, <1>1, <3>1, <3>2, Zenon DEF DeviceInv
  <2>2. u <= version
    BY <2>1
  <2>3. u \in rows /\ IsHead(u)
    BY <1>0, <2>2, HeadsOld, Zenon
  <2>4. Reflects(d, u) /\ u \in DOMAIN log /\ got[d] \subseteq DOMAIN log
    BY <1>0, <2>1, <2>3, Zenon DEF NoLostRevision, TypeOK
  <2>5. log'[u] = log[u] /\ \A w \in got[d] : log'[w] = log[w]
    BY <1>0, <2>4, HeadsOld, Zenon
  <2> QED BY <1>1, <2>4, <2>5, Zenon DEF Reflects
<1>2. ASSUME UNCHANGED db
      PROVE  log' = log /\ u \in rows /\ IsHead(u) /\ (u <= seen[d] => Reflects(d, u))
  <2>1. log' = log /\ rows' = rows
    BY <1>2, Zenon DEF db
  <2>2. u \in rows /\ IsHead(u)
    BY <2>1, Zenon DEF IsHead
  <2> QED BY <1>0, <2>1, <2>2, Zenon DEF NoLostRevision
<1>3. ASSUME UNCHANGED db, NEW fresh \in BOOLEAN, NEW v \in 0..seen[d], Open(d, fresh, v)
      PROVE  Reflects(d, u)'
  <2>1. seen'[d] = v
    BY <1>0, <1>3, Zenon DEF Open, TypeOK
  <2>2. u <= v
    BY <2>1, Zenon
  <2> QED BY <1>0, <1>2, <1>3, <2>2, OpenReflects, Zenon
<1>4. ASSUME UNCHANGED db, SendItem(d) PROVE Reflects(d, u)'
  <2>1. PICK x \in page[d] : SendItem(d)!(x)
    BY <1>4, Zenon DEF SendItem
  <2>2. seen'[d] = x /\ got'[d] = got[d] \cup {x}
    BY <1>0, <2>1, Received, Zenon
  <2>3. u <= x /\ pc[d] = "send" /\ \A w \in page[d] : x <= w
    BY <2>1, <2>2, Zenon
  <2> QED BY <1>0, <1>2, <1>4, <2>2, <2>3, ItemReflects, Zenon
<1>5. ASSUME UNCHANGED db, SendReady(d) PROVE Reflects(d, u)'
  <2>1. pc[d] = "ready" /\ seen'[d] = readyVersion[d] /\ got' = got
    BY <1>0, <1>5, Zenon DEF SendReady, TypeOK
  <2>2. u <= readyVersion[d] /\ u \in Nat /\ seen[d] \in Nat
    <3>1. u \in Nat
      BY <1>0, UidsAfter, Zenon
    <3>2. seen[d] \in Nat
      BY <1>0, Zenon DEF TypeOK
    <3> QED BY <2>1, <3>1, <3>2, Zenon
  <2>3. u <= seen[d] \/ seen[d] < u
    BY <2>2
  <2>4. CASE u <= seen[d]
    BY <1>2, <1>5, <2>1, <2>4, Zenon DEF Reflects
  <2>5. CASE seen[d] < u
    <3>1. Spared(d, u)
      BY <1>0, <1>2, <1>5, <2>1, <2>2, <2>5, Zenon DEF OwedInv
    <3>2. pc[d] \in Replaying /\ got'[d] \subseteq got[d] \cup page[d]
      BY <2>1, Zenon DEF Replaying
    <3> QED BY <1>0, <1>2, <1>5, <2>2, <3>1, <3>2, SparedReflects, Zenon
  <2> QED BY <2>3, <2>4, <2>5, Zenon
<1>6. ASSUME UNCHANGED db, Deliver(d) \/ Acknowledge(d) PROVE Reflects(d, u)'
  <2>1. pos[d] < Len(stream) /\ Receive(d, stream[pos[d] + 1]) /\ pc[d] \in Following
    BY <1>6, Zenon DEF Deliver, Acknowledge, Following
  <2>2. seen'[d] = stream[pos[d] + 1] /\ got'[d] = got[d] \cup {stream[pos[d] + 1]}
    BY <1>0, <2>1, Received, Zenon
  <2>3. u <= stream[pos[d] + 1]
    BY <2>2, Zenon
  <2> QED BY <1>0, <1>2, <1>6, <2>1, <2>2, <2>3, EventReflects, Zenon
<1> QED BY <1>0, <1>1, <1>3, <1>4, <1>5, <1>6, DeviceSteps, Zenon

\* init takes its boundary from the vault's version.
LEMMA BoundaryFrom ==
  ASSUME TypeOK, PhaseInv, [Next]_vars, NEW d \in Conn
  PROVE  readyVersion'[d] \in {readyVersion[d], version, 0}
<1>1. ASSUME Same(d) \/ Crash PROVE readyVersion'[d] \in {readyVersion[d], version, 0}
  BY <1>1, Zenon DEF Same, Crash
<1>2. ASSUME ReadBoundary(d) PROVE readyVersion'[d] = version
  BY <1>2, Zenon DEF ReadBoundary, TypeOK
<1>3. ASSUME SendReady(d) \/ Leaves(d) \/ CommitsUnread(d) PROVE readyVersion'[d] = 0
  BY <1>3, Zenon DEF SendReady, Leaves, CommitsUnread, Close, EndReplay, TypeOK
<1>4. ASSUME ConnStep(d), ~ReadBoundary(d), ~SendReady(d), ~Leaves(d), ~CommitsUnread(d)
      PROVE  readyVersion' = readyVersion
  BY <1>4, Zenon
     DEF ConnStep, Open, Subscribe, ReadPage, SendItem, Deliver, Acknowledge, Asks, Begin, BeginUpload,
     Commits, Commit, Answers, CommitPurge, Reply, Publish, replay
<1> QED BY Frame, <1>1, <1>2, <1>3, <1>4, Zenon

\* A boundary stays a revision of the vault: none is ever taken from the log.
LEMMA KnownInvStep == TypeOK /\ PhaseInv /\ StoreInv /\ KnownInv /\ [Next]_vars => KnownInv'
<1> SUFFICES ASSUME TypeOK, PhaseInv, StoreInv, KnownInv, [Next]_vars PROVE KnownInv'
  OBVIOUS
<1>1. DOMAIN log \subseteq DOMAIN log'
  BY HeadsOld, Zenon
<1>2. version' \in DOMAIN log' \cup {0}
  <2>1. ASSUME NEW r \in Revision, Store(r) PROVE version' \in DOMAIN log'
    BY <2>1, Stored, Zenon
  <2>2. CASE version' = version
    BY <1>1, <2>2, Zenon DEF KnownInv
  <2> QED BY <2>1, <2>2, DbSteps, Zenon DEF db
<1>3. \A d \in Conn : readyVersion'[d] \in DOMAIN log' \cup {0}
  BY <1>1, BoundaryFrom, Zenon DEF KnownInv
<1> QED BY <1>2, <1>3, Zenon DEF KnownInv


\* A revision past the cursor and within the boundary is found by the query of
\* a page: by a first copy's if it is a head and no tombstone.
LEMMA OwedIsFound ==
  ASSUME NEW after \in Nat, NEW through, NEW h \in Nat, h \in rows, after < h, h <= through
  PROVE  /\ h \in list_changes(after, through)
         /\ IsHead(h) /\ ~log[h].deleted => h \in initial_snapshot(after, through)
<1>1. h > after
  OBVIOUS
<1>2. IsHead(h) => HeadThrough(h, through)
  BY Zenon DEF IsHead, HeadThrough
<1> QED BY <1>1, <1>2, Zenon DEF list_changes, initial_snapshot

LEMMA BelowHead ==
  ASSUME NEW n \in Nat, NEW h \in 0..n, NEW P \in SUBSET (0..n)
  PROVE  \A u \in P : ~(h <= u) => u < h
OBVIOUS

\* An item of a page is sent: what is owed is still in the page or comes later.
LEMMA OwedAfterItem ==
  ASSUME NEW P, NEW u \in P, NEW h \in Nat, u \in Nat, u < h, NEW more \in BOOLEAN,
         h \in P \/ (more /\ \A w \in P : w < h),
         (IF P # {u} THEN "send" ELSE IF more THEN "page" ELSE "ready") # "page"
  PROVE  /\ P # {u}
         /\ h \in P \ {u} \/ (more /\ \A w \in P \ {u} : w < h)
<1>1. h # u
  OBVIOUS
<1>2. P # {u}
  BY <1>1, Zenon
<1> QED BY <1>1, <1>2, Zenon

\* A page's notices stay past what the device has.
LEMMA PageInvStep == PageFacts /\ TypeOK /\ PhaseInv /\ PageInv /\ [Next]_vars => PageInv'
<1> SUFFICES ASSUME PageFacts, TypeOK, PhaseInv, PageInv, [Next]_vars, NEW d \in Conn,
                    pc'[d] = "send"
             PROVE  /\ page'[d] # {}
                    /\ \A u \in page'[d] : seen'[d] < u /\ u <= readyVersion'[d]
  BY Zenon DEF PageInv
<1>1. CASE Same(d)
  BY <1>1, Zenon DEF Same, PageInv
<1>2. ~Subscribe(d)
  BY Zenon DEF Subscribe, TypeOK
<1>3. CASE ReadPage(d)
  <2> DEFINE found == IF initial[d] THEN initial_snapshot(seen[d], readyVersion[d])
                                     ELSE list_changes(seen[d], readyVersion[d])
  <2>1. \A u \in found : u \in rows /\ seen[d] < u /\ u <= readyVersion[d]
    BY Zenon DEF initial_snapshot, list_changes, HeadThrough, TypeOK
  <2>2. found \in SUBSET (0..seq) /\ seq \in Nat
    BY <2>1, SMTT(40) DEF TypeOK
  <2>3. found # {} /\ page'[d] = FirstPage(found) /\ UNCHANGED <<seen, readyVersion>>
    BY <1>3, Zenon DEF ReadPage, TypeOK, device
  <2> HIDE DEF found
  <2>4. FirstPage(found) # {} /\ FirstPage(found) \subseteq found
    BY <2>2, <2>3, Zenon DEF PageFacts
  <2> QED BY <2>1, <2>3, <2>4, Zenon
<1>4. CASE SendItem(d)
  <2>1. PICK u \in page[d] : SendItem(d)!(u)
    BY <1>4, Zenon DEF SendItem
  <2>2. /\ page'[d] = page[d] \ {u} /\ page[d] # {u} /\ pc[d] = "send" /\ seen'[d] = u
        /\ readyVersion' = readyVersion
    BY <2>1, Received, ZenonT(40) DEF TypeOK
  <2>3. \A w \in page[d] : u \in Nat /\ w \in Nat /\ u <= w
    BY <2>1, Numbers, Zenon
  <2>4. \A w \in page'[d] : u < w
    BY <2>2, <2>3
  <2> QED BY <2>2, <2>4, Zenon DEF PageInv
<1>5. pc'[d] \in Replaying
  BY Zenon DEF Replaying
<1> QED BY <1>1, <1>2, <1>3, <1>4, <1>5, ReplaySteps, Zenon

\* The revisions owed to a replaying device: a page takes the first ones found,
\* and a page that is not full takes them all.
LEMMA OwedInvStep ==
  PageFacts /\ TypeOK /\ PhaseInv /\ StoreInv /\ BoundaryInv /\ PageInv /\ OwedInv /\ [Next]_vars
    => OwedInv'
<1> SUFFICES ASSUME PageFacts, TypeOK, PhaseInv, StoreInv, BoundaryInv, PageInv, OwedInv, [Next]_vars,
                    NEW d \in Conn, pc'[d] \in {"send", "ready"},
                    NEW h \in rows', seen'[d] < h, h <= readyVersion'[d],
                    ~Spared(d, h)'
             PROVE  pc'[d] = "send" /\ (h \in page'[d] \/ (full'[d] /\ \A u \in page'[d] : u < h))
  BY Zenon DEF OwedInv
<1>0. pc'[d] \in Replaying
  BY Zenon DEF Replaying
<1>1. CASE Same(d) /\ pc[d] \in Replaying
  <2>1. h <= readyVersion[d] /\ seen[d] < h /\ readyVersion[d] <= version
    BY <1>1, Zenon DEF Same, BoundaryInv
  <2>2. h \in Nat /\ readyVersion[d] \in Nat /\ version \in Nat
    BY UidsAfter, Zenon DEF TypeOK
  <2>3. h \in rows /\ (IsHead(h)' => IsHead(h)) /\ h \in DOMAIN log /\ log'[h] = log[h]
    <3>1. h <= version
      BY <2>1, <2>2, SMTT(40)
    <3>2. h \in rows /\ (IsHead(h)' => IsHead(h))
      BY <3>1, HeadsOld, Zenon
    <3> QED BY <3>2, HeadsOld, Zenon DEF TypeOK
  <2>4. ~Spared(d, h)
    BY <1>1, <2>3, Zenon DEF Same, Spared
  <2>5. pc[d] \in {"send", "ready"}
    BY <1>1, Zenon DEF Same
  <2>6. pc[d] = "send" /\ (h \in page[d] \/ (full[d] /\ \A u \in page[d] : u < h))
    BY <2>1, <2>3, <2>4, <2>5, SMTT(40) DEF OwedInv
  <2> QED BY <1>1, <2>6, Zenon DEF Same
<1>2. CASE Subscribe(d) /\ UNCHANGED db
  BY <1>2, Zenon DEF Subscribe, TypeOK
<1>3. CASE ReadPage(d) /\ UNCHANGED db
  <2> DEFINE found == IF initial[d] THEN initial_snapshot(seen[d], readyVersion[d])
                                     ELSE list_changes(seen[d], readyVersion[d])
  <2>1. /\ pc'[d] = (IF found = {} THEN "ready" ELSE "send")
        /\ page'[d] = FirstPage(found)
        /\ full'[d] = (Cardinality(FirstPage(found)) = PageSize)
        /\ UNCHANGED <<seen, readyVersion, initial, rows, log>>
    BY <1>3, Zenon DEF ReadPage, TypeOK, db, device
  <2>2. h \in rows /\ seen[d] < h /\ h <= readyVersion[d] /\ ~Spared(d, h)
    BY <2>1, Zenon DEF IsHead, Spared
  <2>3. h \in found /\ found \in SUBSET (0..seq) /\ seq \in Nat
    <3>1. h \in Nat /\ seen[d] \in Nat /\ rows \in SUBSET (0..seq) /\ seq \in Nat
      BY <2>2, SMTT(40) DEF TypeOK
    <3>2. /\ h \in list_changes(seen[d], readyVersion[d])
          /\ IsHead(h) /\ ~log[h].deleted => h \in initial_snapshot(seen[d], readyVersion[d])
      BY <2>2, <3>1, OwedIsFound, Zenon
    <3>3. h \in found
      BY <2>2, <3>2, Zenon DEF Spared
    <3>4. found \subseteq rows
      BY Zenon DEF initial_snapshot, list_changes
    <3> QED BY <3>1, <3>3, <3>4, Zenon
  <2> HIDE DEF found
  <2>4. h \notin FirstPage(found) =>
          Cardinality(FirstPage(found)) = PageSize /\ \A u \in FirstPage(found) : ~(h <= u)
    BY <2>3, Zenon DEF PageFacts
  <2>5. FirstPage(found) \subseteq found
    BY <2>3, Zenon DEF PageFacts
  <2>6. \A u \in FirstPage(found) : ~(h <= u) => u < h
    <3>1. h \in 0..seq /\ FirstPage(found) \subseteq 0..seq
      BY <2>3, <2>5, Zenon
    <3> QED BY <2>3, <3>1, BelowHead, Zenon
  <2> QED BY <2>1, <2>3, <2>4, <2>6, Zenon
<1>4. CASE SendItem(d) /\ UNCHANGED db
  <2>1. PICK u \in page[d] : SendItem(d)!(u)
    BY <1>4, Zenon DEF SendItem
  <2>2. /\ pc[d] = "send" /\ page'[d] = page[d] \ {u} /\ full'[d] = full[d] /\ seen'[d] = u
        /\ pc'[d] = (IF page[d] # {u} THEN "send" ELSE IF full[d] THEN "page" ELSE "ready")
        /\ UNCHANGED <<readyVersion, initial, rows, log>>
    BY <2>1, <1>4, Received, ZenonT(40) DEF TypeOK, db
  <2>3. h \in rows /\ u < h /\ h <= readyVersion[d] /\ ~Spared(d, h)
    BY <2>2, Zenon DEF IsHead, Spared
  <2>4. u \in Nat /\ h \in Nat /\ seen[d] \in Nat /\ seen[d] < u
    BY <2>2, <2>3, SMTT(40) DEF TypeOK, PageInv
  <2>5. seen[d] < h
    BY <2>3, <2>4
  <2>6. h \in page[d] \/ (full[d] /\ \A w \in page[d] : w < h)
    BY <2>2, <2>3, <2>5, Zenon DEF OwedInv
  <2>7. full[d] \in BOOLEAN /\ pc'[d] # "page"
    BY Zenon DEF TypeOK
  <2>8. page[d] # {u} /\ (h \in page[d] \ {u} \/ (full[d] /\ \A w \in page[d] \ {u} : w < h))
    <3>1. (IF page[d] # {u} THEN "send" ELSE IF full[d] THEN "page" ELSE "ready") # "page"
      BY <2>2, <2>7, Zenon
    <3> QED BY <2>1, <2>3, <2>4, <2>6, <2>7, <3>1, OwedAfterItem, Zenon
  <2> QED BY <2>2, <2>8, Zenon
<1> QED BY <1>0, <1>1, <1>2, <1>3, <1>4, ReplaySteps, SMTT(40)


-----------------------------------------------------------------------------
(* What the invariant gives.                                               *)

\* Everything that does not depend on what is published is inductive.
LEMMA OrderInvInit == Init => OrderInv /\ QueueInv /\ NoLostRevision
<1> SUFFICES ASSUME Init PROVE OrderInv /\ QueueInv /\ NoLostRevision
  OBVIOUS
<1>1. TypeOK /\ PhaseInv
  BY InitTypes, Zenon
<1>2. /\ version = 0 /\ seq = 0 /\ rows = {} /\ DOMAIN log = {} /\ Len(stream) = 0
      /\ \A c \in Conn : readyVersion[c] = 0
      /\ \A c \in Conn : pc[c] = "closed" /\ seen[c] = 0 /\ got[c] = {} /\ pending[c] = None
  BY Zenon DEF Init
<1>3. StoreInv /\ KnownInv /\ DeviceInv /\ BoundaryInv
  BY <1>2 DEF StoreInv, VersionCoversRows, KnownInv, DeviceInv, BoundaryInv, Replaying
<1>4. StreamInv /\ TailInv /\ QueueInv /\ AckInv
  BY <1>2, SMTT(40) DEF StreamInv, TailInv, QueueInv, AckInv, Subscribed, Replaying, Following
<1>5. PageInv /\ OwedInv /\ FreshInv /\ ExpectInv /\ NoLostRevision
  BY <1>2, Zenon DEF PageInv, OwedInv, FreshInv, ExpectInv, NoLostRevision, Replaying
<1> QED BY <1>1, <1>3, <1>4, <1>5, SMTT(40) DEF OrderInv

\* Every step keeps it.
LEMMA OrderInvStep == PageFacts /\ OrderInv /\ [Next]_vars => OrderInv'
  BY TypeStep, PhaseInvStep, StoreInvStep, DeviceInvStep, BoundaryInvStep, StreamInvStep, TailInvStep,
     KnownInvStep, PageInvStep, OwedInvStep, FreshInvStep, AckInvStep, ExpectInvStep, Zenon
  DEF OrderInv

\* As long as every committed revision is also published, no step loses one.
LEMMA InvStep ==
  ASSUME PageFacts, "unread" \notin Ops, Inv, [Next]_vars
  PROVE  Inv'
<1>1. OrderInv'
  BY OrderInvStep, Zenon DEF Inv
<1>2. QueueInv'
  BY QueueInvStep, Zenon DEF Inv, OrderInv
<1>3. NoLostRevision'
  BY NoLostRevisionStep, Zenon
<1> QED BY <1>1, <1>2, <1>3, Zenon DEF Inv

\* A live device with nothing left to take has every head.
LEMMA LiveIsCurrent == Inv => CaughtUpIsCurrent
<1> SUFFICES ASSUME Inv, NEW c \in Conn, pc[c] = "live", pos[c] = Len(stream), commitOrder = None,
                    NEW u \in rows, IsHead(u)
             PROVE  Reflects(c, u)
  BY Zenon DEF CaughtUpIsCurrent
<1>1. TypeOK /\ PhaseInv /\ QueueInv /\ NoLostRevision
  BY Zenon DEF Inv, OrderInv
<1>2. u \in DOMAIN log /\ u \in Nat /\ seen[c] \in Nat /\ Len(stream) \in Nat
  BY <1>1, Numbers, Zenon
<1>3. \A e \in Conn : pc[e] # "publish"
  BY <1>1, ConstantsAssumption, Zenon DEF PhaseInv, Holding
<1>4. Floor(c) = seen[c] /\ pc[c] \in Subscribed
  BY Zenon DEF Floor, Replaying, Subscribed, Following
<1>5. ~(u > seen[c])
  BY <1>1, <1>2, <1>3, <1>4, SMTT(40) DEF QueueInv
<1> QED BY <1>1, <1>2, <1>5, SMTT(40) DEF NoLostRevision

\* The events up to a connection's own commit are in order.
LEMMA AckIsAhead == OrderInv => OwnCommitAhead
<1> SUFFICES ASSUME OrderInv, NEW c \in Conn, pc[c] = "ack"
             PROVE  pos[c] < Len(stream) /\ stream[pos[c] + 1] <= committed[c]
  BY Zenon DEF OwnCommitAhead
<1>1. TypeOK /\ StreamInv /\ AckInv
  BY Zenon DEF OrderInv
<1>2. PICK i \in 1..Len(stream) : i > pos[c] /\ stream[i] = committed[c]
  BY <1>1, Zenon DEF AckInv
<1>3. pos[c] \in Nat /\ Len(stream) \in Nat
  BY <1>1, Numbers, Zenon
<1>4. pos[c] < Len(stream) /\ pos[c] + 1 \in 1..Len(stream) /\ (i = pos[c] + 1 \/ pos[c] + 1 < i)
  BY <1>2, <1>3, SMTT(40)
<1>5. stream[pos[c] + 1] \in Nat /\ stream[i] \in Nat
  BY <1>1, <1>4, Numbers, Zenon
<1> QED BY <1>1, <1>2, <1>4, <1>5, SMTT(40) DEF StreamInv

\* A notice is past everything its device has been sent on the connection.
LEMMA NoticeIsNew ==
  ASSUME OrderInv, NEW c \in Conn
  PROVE  /\ SendItem(c) \/ Deliver(c) \/ Acknowledge(c) => seen'[c] > seen[c]
         /\ SendReady(c) => seen'[c] >= seen[c]
<1>1. TypeOK /\ StoreInv /\ BoundaryInv /\ TailInv /\ PageInv
  BY Zenon DEF OrderInv
<1>2. ASSUME SendItem(c) PROVE seen'[c] > seen[c]
  <2>1. PICK u \in page[c] : SendItem(c)!(u)
    BY <1>2, Zenon DEF SendItem
  <2> QED BY <1>1, <2>1, Received, ZenonT(40) DEF PageInv, TypeOK
<1>3. ASSUME Deliver(c) \/ Acknowledge(c) PROVE seen'[c] > seen[c]
  BY <1>1, <1>3, EventIsNew, Received, SMTT(40) DEF Deliver, Acknowledge, Following
<1>4. ASSUME SendReady(c) PROVE seen'[c] >= seen[c]
  BY <1>1, <1>4, Zenon DEF SendReady, BoundaryInv, Replaying, TypeOK
<1> QED BY <1>2, <1>3, <1>4, Zenon

\* A push that names the vault's version comes from a device that has reached it.
LEMMA AuthorSawAll ==
  ASSUME Inv, NEW c \in Conn, CommitPush(c), req[c].expected # None,
         NEW u \in rows, IsHead(u)
  PROVE  Reflects(c, u)
<1>1. TypeOK /\ PhaseInv /\ StoreInv /\ DeviceInv /\ ExpectInv /\ NoLostRevision
  BY Zenon DEF Inv, OrderInv
<1>2. pc[c] = "wait" /\ req[c].kind = "push" /\ req[c].expected = version
  BY Zenon DEF CommitPush, Turn, ExpectedHolds
<1>3. version <= seen[c] /\ u <= version
  BY <1>1, <1>2, Zenon DEF ExpectInv, StoreInv, VersionCoversRows
<1>4. u \in Nat /\ version \in Nat /\ seen[c] \in Nat
  BY <1>1, Numbers, Zenon
<1> QED BY <1>1, <1>3, <1>4, SMTT(40) DEF NoLostRevision

\* No step takes the version back or a head away.
LEMMA HeadsStay ==
  ASSUME OrderInv, [Next]_vars
  PROVE  version' >= version /\ \A u \in rows : IsHead(u) => u \in rows'
<1> DEFINE Grows == version' >= version /\ \A u \in rows : IsHead(u) => u \in rows'
<1>1. TypeOK /\ PhaseInv /\ StoreInv /\ version \in Nat
  BY Zenon DEF OrderInv, TypeOK
<1>2. CASE UNCHANGED db
  BY <1>1, <1>2 DEF db
<1>3. ASSUME NEW r \in Revision, Store(r) PROVE Grows
  BY <1>1, <1>3, Stored, SMTT(40)
<1>4. CASE rows' = {u \in rows : IsHead(u)} /\ UNCHANGED <<seq, log, version>>
  BY <1>1, <1>4, SMTT(40)
<1>5. CASE UNCHANGED <<log, rows, version>>
  BY <1>1, <1>5
<1> QED BY <1>1, <1>2, <1>3, <1>4, <1>5, DbSteps, Zenon

-----------------------------------------------------------------------------
(* The steps of OrderedFeed.                                               *)

\* What a page leaves out, OrderedFeed lets a device skip.
LEMMA SparedIsSkippable ==
  ASSUME FreshInv, NEW d \in Conn, pc[d] \in Replaying, NEW w \in rows, w <= readyVersion[d],
         Spared(d, w)
  PROVE  Feed!Skippable(d, w)
<1>1. IsHead(w) <=> Feed!IsHead(w)
  BY Zenon DEF IsHead, Feed!IsHead
<1>2. IsHead(w) /\ log[w].deleted => \A g \in got[d] : log[g].path # log[w].path
  BY Zenon DEF FreshInv, Spared
<1> QED BY <1>1, <1>2, Zenon DEF Spared, Feed!Skippable

\* An item of a page is the next notice a device needs.
LEMMA ItemIsNotice ==
  ASSUME TypeOK, PageInv, OwedInv, FreshInv, NEW d \in Conn, SendItem(d)
  PROVE  Feed!Next
<1>1. PICK x \in page[d] : SendItem(d)!(x)
  BY Zenon DEF SendItem
<1>2. seen[d] < x /\ x <= readyVersion[d]
  BY <1>1, Zenon DEF PageInv
<1>3. x \in DOMAIN log /\ x \in Nat /\ seen[d] \in Nat /\ readyVersion[d] \in Nat
  BY Numbers, Zenon
<1>4. ASSUME NEW w \in rows, seen[d] < w, w < x PROVE Feed!Skippable(d, w)
  <2>1. w \in Nat /\ w <= readyVersion[d] /\ w \notin page[d] /\ ~\A u \in page[d] : u < w
    <3>1. w \in Nat
      BY Numbers, Zenon
    <3>2. w <= readyVersion[d] /\ ~(x <= w) /\ ~(x < w)
      BY <1>2, <1>3, <1>4, <3>1
    <3> QED BY <1>1, <3>1, <3>2, Zenon
  <2>2. Spared(d, w)
    BY <1>1, <1>4, <2>1, Zenon DEF OwedInv
  <2>3. pc[d] \in Replaying
    BY <1>1, Zenon DEF Replaying
  <2> QED BY <2>1, <2>2, <2>3, SparedIsSkippable, Zenon
<1>5. Feed!Notice(d, x)
  BY <1>1, <1>2, <1>4, Zenon DEF Feed!Notice, Feed!NothingBefore, Receive, db
<1> QED BY <1>3, <1>5, Zenon DEF Feed!Next

\* With "ready" a device has all it needs up to the boundary.
LEMMA ReadyIsReady ==
  ASSUME TypeOK, KnownInv, BoundaryInv, OwedInv, FreshInv, NEW d \in Conn, SendReady(d)
  PROVE  Feed!Next
<1> DEFINE v == readyVersion[d]
<1>1. pc[d] = "ready" /\ pc[d] \in Replaying /\ seen[d] <= v /\ v \in DOMAIN log \cup {0}
  BY Zenon DEF SendReady, Replaying, BoundaryInv, KnownInv
<1>2. v \in Nat /\ seen[d] \in Nat
  BY Numbers, Zenon
<1>3. v \in DOMAIN log \cup {seen[d]}
  BY <1>1, <1>2
<1>4. ASSUME NEW w \in rows, seen[d] < w, w < v + 1 PROVE Feed!Skippable(d, w)
  <2>1. w \in Nat
    BY Numbers, Zenon
  <2>2. w <= readyVersion[d]
    BY <1>2, <1>4, <2>1
  <2>3. Spared(d, w)
    BY <1>1, <1>4, <2>2, Zenon DEF OwedInv
  <2> QED BY <1>1, <2>2, <2>3, SparedIsSkippable, Zenon
<1>5. Feed!Ready(d, v)
  BY <1>1, <1>4, Zenon DEF Feed!Ready, Feed!NothingBefore, SendReady, EndReplay, db
<1> HIDE DEF v
<1> QED BY <1>3, <1>5, Zenon DEF Feed!Next

\* An event is the next notice a device needs, since the stream skips none.
LEMMA EventIsNotice ==
  ASSUME TypeOK, StoreInv, StreamInv, TailInv, QueueInv, NEW d \in Conn,
         Deliver(d) \/ Acknowledge(d)
  PROVE  Feed!Next
<1> DEFINE x == stream[pos[d] + 1]
<1>1. /\ pc[d] \in Following /\ pos[d] < Len(stream) /\ Receive(d, x)
      /\ UNCHANGED <<log, rows, initial>>
  BY Zenon DEF Deliver, Acknowledge, Following, db, replay
<1>2. x \in DOMAIN log /\ x \in Nat /\ seen[d] \in Nat /\ x > seen[d]
  BY <1>1, NextEvent, EventIsNew, Zenon
<1>3. ASSUME NEW w \in rows, seen[d] < w, w < x PROVE FALSE
  <2>1. w \in DOMAIN log /\ w \in Nat
    BY Numbers, Zenon
  <2>2. w <= x /\ w # x
    BY <1>2, <1>3, <2>1
  <2> QED BY <1>1, <1>3, <2>1, <2>2, NextHead, Zenon
<1> HIDE DEF x
<1>4. seen[d] < x
  BY <1>2
<1>5. Feed!Notice(d, x)
  BY <1>1, <1>3, <1>4, Zenon DEF Feed!Notice, Feed!NothingBefore, Receive
<1> QED BY <1>2, <1>5, Zenon DEF Feed!Next

\* A device opens a connection: it starts over, or resumes from a point it has passed.
LEMMA OpenIsReturn ==
  ASSUME TypeOK, NEW d \in Conn, NEW f \in BOOLEAN, NEW v \in 0..seen[d], Open(d, f, v)
  PROVE  Feed!Next
<1>1. CASE f = TRUE
  <2>1. Feed!StartOver(d)
    BY <1>1, Zenon DEF Open, Feed!StartOver, db
  <2> QED BY <2>1, Zenon DEF Feed!Next
<1>2. CASE f = FALSE
  <2>1. Feed!Resume(d, v)
    BY <1>2, Zenon DEF Open, Feed!Resume, db
  <2> QED BY <2>1, Zenon DEF Feed!Next
<1> QED BY <1>1, <1>2, Zenon

\* A connection that closes, and a crash that closes them all.
LEMMA CloseIsLeave ==
  ASSUME TypeOK, \/ \E c \in Conn : Leaves(c)
                 \/ Crash
  PROVE  Feed!Next
<1>1. ASSUME NEW c \in Conn, Leaves(c) PROVE Feed!Leave({c})
  BY <1>1, Zenon DEF Leaves, Close, EndReplay, Feed!Leave, db, device, TypeOK
<1>2. ASSUME Crash PROVE Feed!Leave(Conn)
  BY <1>2, Zenon DEF Crash, Feed!Leave, db, device, TypeOK
<1> QED BY <1>1, <1>2, Zenon DEF Feed!Next

\* A transaction appends to the log what it stores.
LEMMA StoreIsCommit ==
  ASSUME TypeOK, StoreInv, NEW c \in Conn, Commits(c)
  PROVE  Feed!Next
<1>1. PICK r \in Revision : Commit(c, r)
  BY Zenon DEF Commits
<1>2. seq + 1 \in 1..MaxUid
  BY <1>1, ConstantsAssumption DEF Commit, Store, TypeOK
<1>3. \A w \in DOMAIN log : w < seq + 1
  BY <1>1, Stored, Zenon DEF Commit
<1>4. Feed!Commit(seq + 1, r)
  BY <1>1, <1>3, Zenon DEF Feed!Commit, Commit, Store, replay, device
<1> QED BY <1>2, <1>4, Zenon DEF Feed!Next, Revision

\* A purge keeps the heads.
LEMMA PurgeIsPurge ==
  ASSUME NEW c \in Conn, CommitPurge(c)
  PROVE  Feed!Next
<1>1. rows' = {u \in rows : Feed!IsHead(u)}
  BY Zenon DEF CommitPurge, IsHead, Feed!IsHead
<1>2. Feed!Purge
  BY <1>1, Zenon DEF CommitPurge, Reply, Feed!Purge, replay, device
<1> QED BY <1>2, Zenon DEF Feed!Next

\* Everything else is of no concern to the devices.
LEMMA RestIsUnseen ==
  ASSUME \/ UNCHANGED vars
         \/ OtherVaultCommit
         \/ \E c \in Conn : \/ ReadBoundary(c) \/ Subscribe(c) \/ ReadPage(c) \/ Asks(c)
                            \/ BeginUpload(c) \/ Answers(c) \/ Publish(c)
  PROVE  UNCHANGED Feed!vars
<1>1. UNCHANGED <<log, rows, seen, got, initial>>
  BY Zenon DEF vars, OtherVaultCommit, ReadBoundary, Subscribe, ReadPage, Asks, Begin, BeginUpload,
     Answers, Reply, Publish, db, replay, device
<1> QED BY <1>1, Zenon DEF Feed!vars

\* Every step of the server and its devices is a step of OrderedFeed or none,
\* as long as every committed revision is published.
LEMMA StepIsFeedStep ==
  ASSUME "unread" \notin Ops, Inv, [Next]_vars
  PROVE  [Feed!Next]_(Feed!vars)
<1>1. /\ TypeOK /\ PhaseInv /\ StoreInv /\ KnownInv /\ BoundaryInv /\ StreamInv /\ TailInv
      /\ PageInv /\ OwedInv /\ FreshInv /\ QueueInv
  BY Zenon DEF Inv, OrderInv
<1>2. ASSUME NEW c \in Conn, ConnStep(c) PROVE [Feed!Next]_(Feed!vars)
  <2>1. ~CommitsUnread(c)
    BY Zenon DEF CommitsUnread
  <2> QED
    BY <1>1, <1>2, <2>1, OpenIsReturn, ItemIsNotice, ReadyIsReady, EventIsNotice, CloseIsLeave,
       StoreIsCommit, PurgeIsPurge, RestIsUnseen, Zenon DEF ConnStep
<1>3. ASSUME OtherVaultCommit \/ Crash \/ UNCHANGED vars PROVE [Feed!Next]_(Feed!vars)
  BY <1>1, <1>3, CloseIsLeave, RestIsUnseen, Zenon
<1> QED BY <1>1, <1>2, <1>3, Steps, Zenon


-----------------------------------------------------------------------------
(* Facts of the library.                                                   *)

INSTANCE FiniteSetTheorems
INSTANCE WellFoundedInduction

\* A nonempty set of naturals has a least one.
LEMMA Least ==
  ASSUME NEW S \in SUBSET Nat, S # {}
  PROVE  \E m \in S : \A x \in S : m <= x
<1>1. PICK m \in S : \A y \in S : ~(<<y, m>> \in OpToRel(<, Nat))
  BY WFMin, NatLessThanWellFounded, Zenon
<1>2. ASSUME NEW x \in S PROVE m <= x
  <2>1. x \in Nat /\ m \in Nat
    OBVIOUS
  <2>2. <<x, m>> \in Nat \X Nat /\ <<x, m>>[1] = x /\ <<x, m>>[2] = m
    BY <2>1, Zenon
  <2>3. ~(x < m)
    BY <1>1, <2>2, Zenon DEF OpToRel
  <2> QED BY <2>1, <2>3
<1> QED BY <1>2, Zenon

\* Finite sets count as the pages need them to.
LEMMA CountingHolds == Counting
<1>1. \A n \in Nat : IsFiniteSet(0..n)
  BY FS_Interval
<1>2. \A S : IsFiniteSet(S) =>
        /\ Cardinality(S) \in Nat
        /\ \A T \in SUBSET S : IsFiniteSet(T) /\ Cardinality(T) <= Cardinality(S)
  BY FS_CardinalityType, FS_Subset, Zenon
<1>3. \A S : IsFiniteSet(S) => \A x : x \notin S => Cardinality(S \cup {x}) = Cardinality(S) + 1
  BY FS_AddElement, Zenon
<1>4. Cardinality({}) = 0
  BY FS_EmptySet, Zenon
<1> QED BY <1>1, <1>2, <1>3, <1>4, Least, Zenon DEF Counting

\* So a page is what the replay takes it for.
LEMMA PagesHold == PageFacts
  BY FirstPageFacts, CountingHolds, Zenon

-----------------------------------------------------------------------------
(* The theorems.                                                           *)

\* Every handler keeps the types of the vault's and the connections' state,
\* and commit_order is held exactly by the task between its two steps.
THEOREM TypeCorrect == Spec => []TypeOK
<1>1. Init => TypeOK /\ PhaseInv
  BY InitTypes, Zenon
<1>2. TypeOK /\ PhaseInv /\ [Next]_vars => (TypeOK /\ PhaseInv)'
  BY TypeStep, PhaseInvStep, Zenon
<1> QED BY <1>1, <1>2, PTL DEF Spec

\* Whatever fails, the order of commits, pages and events is kept.
THEOREM OrderKept == Spec => []OrderInv
<1>1. Init => OrderInv
  BY OrderInvInit, Zenon
<1>2. OrderInv /\ [Next]_vars => OrderInv'
  BY OrderInvStep, PagesHold, Zenon
<1> QED BY <1>1, <1>2, PTL DEF Spec

\* As long as every committed revision is also published (no row fails to be
\* read back after its commit), no revision is lost to any device.
THEOREM InvHolds == "unread" \notin Ops => (Spec => []Inv)
<1> SUFFICES ASSUME "unread" \notin Ops PROVE Spec => []Inv
  OBVIOUS
<1>1. Init => Inv
  BY OrderInvInit, Zenon DEF Inv
<1>2. Inv /\ [Next]_vars => Inv'
  BY InvStep, PagesHold, Zenon
<1> QED BY <1>1, <1>2, PTL DEF Spec

\* No committed revision is lost to a device, at whatever point its connection
\* stops and resumes.
THEOREM NoRevisionLost == "unread" \notin Ops => (Spec => []NoLostRevision)
<1>1. Inv => NoLostRevision
  BY Zenon DEF Inv
<1> QED BY <1>1, InvHolds, PTL

\* A live device with no event left to take has all the vault has.
THEOREM CaughtUpDeviceIsCurrent == "unread" \notin Ops => (Spec => []CaughtUpIsCurrent)
<1>1. Inv => CaughtUpIsCurrent
  BY LiveIsCurrent, Zenon
<1> QED BY <1>1, InvHolds, PTL

\* acknowledge_commit finds its own commit, and nothing newer before it.
THEOREM AckFindsOwnCommit == Spec => []OwnCommitAhead
<1>1. OrderInv => OwnCommitAhead
  BY AckIsAhead, Zenon
<1> QED BY <1>1, OrderKept, PTL

\* vaults.version is at least every stored uid and at most the sequence, as
\* the database's own verification requires.
THEOREM VersionCovers == Spec => []VersionCoversRows
<1>1. OrderInv => VersionCoversRows
  BY Zenon DEF OrderInv, StoreInv
<1> QED BY <1>1, OrderKept, PTL

\* Within a connection a device hears of revisions in strictly increasing
\* order, across pages and across the replay/live boundary.
THEOREM NoticesOrdered == Spec => NoticesInOrder
<1> DEFINE Ordered == \A c \in Conn :
                        /\ SendItem(c) \/ Deliver(c) \/ Acknowledge(c) => seen'[c] > seen[c]
                        /\ SendReady(c) => seen'[c] >= seen[c]
<1>1. OrderInv /\ [Next]_vars => [Ordered]_vars
  BY NoticeIsNew, Zenon
<1> QED BY <1>1, OrderKept, PTL DEF Spec, NoticesInOrder

\* A conditional push never overwrites a change its author had not been sent.
THEOREM ConditionalPushIsInformed == "unread" \notin Ops => (Spec => ConditionalPushSawAll)
<1> DEFINE Informed == \A c \in Conn :
                         CommitPush(c) /\ req[c].expected # None =>
                           \A u \in rows : IsHead(u) => Reflects(c, u)
<1>1. Inv /\ [Next]_vars => [Informed]_vars
  BY AuthorSawAll, Zenon
<1> QED BY <1>1, InvHolds, PTL DEF Spec, ConditionalPushSawAll

\* vaults.version never goes back, and no handler removes a path's head.
THEOREM HistoryOnlyGrows == Spec => HistoryGrows
<1> DEFINE Grows == version' >= version /\ \A u \in rows : IsHead(u) => u \in rows'
<1>1. OrderInv /\ [Next]_vars => [Grows]_vars
  BY HeadsStay, Zenon
<1> QED BY <1>1, OrderKept, PTL DEF Spec, HistoryGrows

\* Replay pages, topic, commit_order, crashes and reconnections together give the
\* devices what OrderedFeed promises: every revision they need, in order.
THEOREM FeedImplemented == "unread" \notin Ops => (Spec => ImplementsOrderedFeed)
<1> SUFFICES ASSUME "unread" \notin Ops PROVE Spec => ImplementsOrderedFeed
  OBVIOUS
<1>1. Init => Feed!Init
  BY Zenon DEF Init, Feed!Init
<1>2. Inv /\ [Next]_vars => [Feed!Next]_(Feed!vars)
  BY StepIsFeedStep, Zenon
<1> QED BY <1>1, <1>2, InvHolds, PTL DEF Spec, ImplementsOrderedFeed, Feed!Spec
=============================================================================
