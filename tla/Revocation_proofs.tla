-------------------------- MODULE Revocation_proofs --------------------------
(***************************************************************************)
(* Theorems about Revocation, for any users, vaults, sessions, connections *)
(* and requests, and any limits on connections.                            *)
(***************************************************************************)
EXTENDS Revocation, FiniteSetTheorems, TLAPS

\* Connections that hold a permit.
Permits == {c \in Conn : ~At(c, "closed")}

PermitsBounded == Cardinality(Permits) <= MaxConn

\* A handle is given back before the permit is.
HandlesAreLive == \A c \in registered : Serving(c) \/ At(c, "closing")

\* What stands in the queue of one connection: what was committed while it had
\* no right is marked, and goes unmarked only with a new right.
QueueOK(c) ==
  /\ conn[c].at \in {"closed", "open", "read", "admitted", "registered", "dropped"} => queue[c] = <<>>
  /\ conn[c].at \in {"replaying", "resending", "sending"} => queue[c] # <<>>
  /\ Subscribed(c) /\ Authorised(c) => \A i \in 1..Len(queue[c]) : queue[c][i] # "late"
  /\ conn[c].at \in {"sending", "resending"} => Head(queue[c]) # "late"

QueuesOK == \A c \in Conn : QueueOK(c)

\* The inductive invariant.
Inv ==
  /\ TypeOK /\ PermitsBounded /\ HandlesAreLive /\ EveryoneHasHandle /\ UserPermitsExact
  /\ QueuesOK /\ WithdrawalReachesLive

-----------------------------------------------------------------------------
(* Connections and their places.                                           *)

Full   == [at : Places, token : Token, vault : Vault]
Served == {"registered", "replaying", "resending", "replayed", "live", "sending", "writing"}
Going  == {"live", "sending", "writing"}

LEMMA ServingPlaces == \A c : Serving(c) <=> conn[c].at \in Served
BY Zenon DEF Serving, Subscribed, At, Served

LEMMA AuthenticatedPlaces ==
  \A c : Authenticated(c) <=> conn[c].at \in Served \cup {"admitted", "closing"}
BY Zenon DEF Authenticated, Serving, Subscribed, At, Served

\* Every place but three knows its session.
LEMMA HasToken ==
  ASSUME TypeOK, NEW c \in Conn, conn[c].at \notin {"closed", "open", "dropped"}
  PROVE  conn[c] \in Full /\ UserOf(c) \in User
<1>1. conn[c] \in Full
  BY Zenon DEF TypeOK, Connection, Full
<1>2. conn[c].token \in Token
  BY <1>1, Zenon DEF Full
<1> QED BY <1>1, <1>2, RevocationAssumption, Zenon DEF UserOf

\* A connection goes to another place, with the same session and vault.
LEMMA Moved ==
  ASSUME TypeOK, NEW c \in Conn, conn[c] \in Full, NEW place \in Places, Goto(c, place)
  PROVE  /\ conn' \in [Conn -> Connection] /\ conn'[c] \in Full /\ conn'[c].at = place
         /\ conn'[c].token = conn[c].token /\ conn'[c].vault = conn[c].vault
         /\ \A d \in Conn : d # c => conn'[d] = conn[d]
<1> DEFINE new == [conn[c] EXCEPT !.at = place]
<1>1. conn \in [Conn -> Connection]
  BY Zenon DEF TypeOK
<1>2. conn' = [conn EXCEPT ![c] = new]
  BY <1>1, Zenon DEF Goto
<1>3. /\ new \in Full /\ new.at = place /\ new.token = conn[c].token
      /\ new.vault = conn[c].vault
  BY Zenon DEF Full
<1> HIDE DEF new
<1>4. new \in Connection
  BY <1>3, Zenon DEF Connection, Full
<1> QED BY <1>1, <1>2, <1>3, <1>4, Zenon

\* A connection that has no session goes to another such place.
LEMMA MovedBare ==
  ASSUME TypeOK, NEW c \in Conn, NEW new \in Connection, conn' = [conn EXCEPT ![c] = new]
  PROVE  /\ conn' \in [Conn -> Connection] /\ conn'[c] = new
         /\ \A d \in Conn : d # c => conn'[d] = conn[d]
BY Zenon DEF TypeOK

-----------------------------------------------------------------------------
(* A step of a connection that serves, or stops serving.                   *)

Walk(c) ==
  /\ conn[c].at \in Served /\ conn[c] \in Full
  /\ conn' \in [Conn -> Connection] /\ conn'[c] \in Full /\ conn'[c].at \in Served \cup {"closing"}
  /\ conn'[c].token = conn[c].token /\ conn'[c].vault = conn[c].vault
  /\ \A d \in Conn : d # c => conn'[d] = conn[d]
  /\ conn'[c].at \in Going => conn[c].at \in Going \/ Authorised(c)
  /\ UNCHANGED <<valid, lapsed, access, registered, cancelled, missed, userConns, req, invites>>

Walks(c) ==
  \/ \E some \in BOOLEAN : SetBoundary(c, some)
  \/ Replay(c) \/ EndReplay(c) \/ Receive(c) \/ Send(c) \/ BeginWrite(c) \/ CommitWrite(c)
  \/ Cancelled(c) \/ Revalidate(c) \/ (Serving(c) /\ Leave(c))

\* The places a walk leads from and to.
LEMMA WalkPlaces ==
  ASSUME NEW c \in Conn, Walks(c)
  PROVE  \E place \in Served \cup {"closing"} :
           /\ Goto(c, place) /\ conn[c].at \in Served
           /\ place \in Going => conn[c].at \in Going \/ Authorised(c)
           /\ UNCHANGED <<valid, lapsed, access, registered, cancelled, missed, userConns, req,
                          invites>>
<1>1. ASSUME NEW some \in BOOLEAN, SetBoundary(c, some)
      PROVE  \E place \in Served \cup {"closing"} :
           /\ Goto(c, place) /\ conn[c].at \in Served
           /\ place \in Going => conn[c].at \in Going \/ Authorised(c)
           /\ UNCHANGED <<valid, lapsed, access, registered, cancelled, missed, userConns, req,
                          invites>>
  BY <1>1, Zenon DEF SetBoundary, At, Served, Going, rights, handles
<1>2. CASE Replay(c) \/ EndReplay(c) \/ Receive(c) \/ BeginWrite(c) \/ Cancelled(c) \/ Revalidate(c)
  BY <1>2, Zenon
     DEF Replay, EndReplay, Receive, BeginWrite, Cancelled, Revalidate, IfActive, Close, At,
              Served, Going, rights, handles
<1>3. CASE Send(c)
  BY <1>3, Zenon DEF Send, At, Served, Going, rights, handles
<1>4. CASE CommitWrite(c)
  BY <1>4, Zenon DEF CommitWrite, Commit, Close, At, Served, Going, rights, handles
<1>5. CASE Serving(c) /\ Leave(c)
  BY <1>5, ServingPlaces, Zenon DEF Leave, Close, Served, Going, rights, handles
<1> QED BY <1>1, <1>2, <1>3, <1>4, <1>5, Zenon DEF Walks

LEMMA WalkIs == ASSUME TypeOK, NEW c \in Conn, Walks(c) PROVE Walk(c)
<1>1. PICK place \in Served \cup {"closing"} :
           /\ Goto(c, place) /\ conn[c].at \in Served
           /\ place \in Going => conn[c].at \in Going \/ Authorised(c)
           /\ UNCHANGED <<valid, lapsed, access, registered, cancelled, missed, userConns, req,
                          invites>>
  BY WalkPlaces, Zenon
<1>2. conn[c] \in Full
  BY <1>1, HasToken, Zenon DEF Served
<1>3. place \in Places
  BY Zenon DEF Places, Served
<1>4. /\ conn' \in [Conn -> Connection] /\ conn'[c] \in Full /\ conn'[c].at = place
      /\ conn'[c].token = conn[c].token /\ conn'[c].vault = conn[c].vault
      /\ \A d \in Conn : d # c => conn'[d] = conn[d]
  BY <1>1, <1>2, <1>3, Moved, Zenon
<1> QED BY <1>1, <1>2, <1>4, Zenon DEF Walk

-----------------------------------------------------------------------------
(* Permits and handles.                                                    *)

\* The permits, the handles and the counts, apart from the queues.
Counts == PermitsBounded /\ HandlesAreLive /\ EveryoneHasHandle /\ UserPermitsExact

\* The admitted connections of a user.
Admitted(u) == {c \in Conn : Authenticated(c) /\ UserOf(c) = u}

LEMMA ConnFinite ==
  /\ IsFiniteSet(Conn) /\ MaxConn \in Nat
  /\ IsFiniteSet(Permits) /\ \A u : IsFiniteSet(Admitted(u))
<1>1. Permits \subseteq Conn /\ \A u : Admitted(u) \subseteq Conn
  BY Zenon DEF Permits, Admitted
<1> QED BY <1>1, RevocationAssumption, FS_Subset, Zenon

\* Fewer permits are within the limit.
LEMMA FewerPermits == ASSUME PermitsBounded, Permits' \subseteq Permits PROVE PermitsBounded'
<1>1. /\ Cardinality(Permits') <= Cardinality(Permits)
      /\ Cardinality(Permits) \in Nat /\ Cardinality(Permits') \in Nat
  BY ConnFinite, FS_Subset, FS_CardinalityType, Zenon
<1>2. Cardinality(Permits) <= MaxConn
  BY Zenon DEF PermitsBounded
<1>3. Cardinality(Permits') <= MaxConn
  BY <1>1, <1>2, ConnFinite
<1> QED BY <1>3, Zenon DEF PermitsBounded

\* What the counts depend on.
LEMMA SameCounts ==
  ASSUME Counts, UNCHANGED <<registered, userConns>>,
         \A c \in Conn : /\ ~At(c, "closed")' => ~At(c, "closed")
                         /\ Serving(c)' => Serving(c)
                         /\ Serving(c) => Serving(c)' \/ At(c, "closing")'
                         /\ At(c, "closing") => At(c, "closing")'
                         /\ Authenticated(c)' <=> Authenticated(c)
                         /\ Authenticated(c) => UserOf(c)' = UserOf(c),
         registered \subseteq Conn
  PROVE  Counts'
<1>1. PermitsBounded'
  BY FewerPermits, Zenon DEF Counts, Permits
<1>2. HandlesAreLive'
  BY Zenon DEF Counts, HandlesAreLive
<1>3. EveryoneHasHandle'
  BY Zenon DEF Counts, EveryoneHasHandle
<1>4. \A u : Admitted(u)' = Admitted(u)
  BY Zenon DEF Admitted
<1>5. UserPermitsExact'
  BY <1>4, Zenon DEF Counts, UserPermitsExact, Admitted
<1> QED BY <1>1, <1>2, <1>3, <1>5, Zenon DEF Counts

LEMMA WalkCounts == ASSUME TypeOK, Counts, NEW c \in Conn, Walk(c) PROVE Counts'
<1>1. \A d \in Conn : d # c => conn'[d] = conn[d]
  BY Zenon DEF Walk
<1>2. /\ conn[c].at \in Served /\ conn'[c].at \in Served \cup {"closing"}
      /\ conn'[c].token = conn[c].token
  BY Zenon DEF Walk
<1>3. /\ UNCHANGED <<registered, userConns>> /\ registered \subseteq Conn
  BY Zenon DEF Walk, TypeOK
<1>4. ASSUME NEW d \in Conn
      PROVE  /\ ~At(d, "closed")' => ~At(d, "closed")
             /\ Serving(d)' => Serving(d)
             /\ Serving(d) => Serving(d)' \/ At(d, "closing")'
             /\ At(d, "closing") => At(d, "closing")'
             /\ Authenticated(d)' <=> Authenticated(d)
             /\ Authenticated(d) => UserOf(d)' = UserOf(d)
  <2>1. CASE d # c
    BY <1>1, <2>1, Zenon DEF At, Authenticated, Serving, Subscribed, UserOf
  <2>2. CASE d = c
    BY <1>2, <2>2, Zenon DEF At, Authenticated, Serving, Subscribed, UserOf, Served
  <2> QED BY <2>1, <2>2, Zenon
<1> QED BY <1>3, <1>4, SameCounts, Zenon

\* Steps that leave the connections where they are.
LEMMA StillCounts ==
  ASSUME TypeOK, Counts, UNCHANGED <<conn, registered, userConns>>
  PROVE  Counts'
<1>1. registered \subseteq Conn
  BY Zenon DEF TypeOK
<1>2. \A d \in Conn : /\ ~At(d, "closed")' => ~At(d, "closed")
                      /\ Serving(d)' => Serving(d)
                      /\ Serving(d) => Serving(d)' \/ At(d, "closing")'
                      /\ At(d, "closing") => At(d, "closing")'
                      /\ Authenticated(d)' <=> Authenticated(d)
                      /\ Authenticated(d) => UserOf(d)' = UserOf(d)
  BY Zenon DEF At, Authenticated, Serving, Subscribed, UserOf
<1> QED BY <1>1, <1>2, SameCounts, Zenon

\* A connection without a user permit moves; it opens only if a permit is free.
LEMMA OutsideCounts ==
  ASSUME TypeOK, Counts, NEW c \in Conn, UNCHANGED <<registered, userConns>>,
         \A d \in Conn : d # c => conn'[d] = conn[d],
         conn[c].at \in {"closed", "open", "read", "dropped"},
         conn'[c].at \in {"closed", "open", "read", "dropped"},
         PermitsBounded'
  PROVE  Counts'
<1>1. registered \subseteq Conn
  BY Zenon DEF TypeOK
<1>2. \A d \in Conn : /\ Serving(d)' <=> Serving(d)
                      /\ At(d, "closing")' <=> At(d, "closing")
                      /\ Authenticated(d)' <=> Authenticated(d)
                      /\ Authenticated(d) => UserOf(d)' = UserOf(d)
  <2> TAKE d \in Conn
  <2>1. CASE d # c
    BY <2>1, Zenon DEF At, Authenticated, Serving, Subscribed, UserOf
  <2>2. CASE d = c
    BY <2>2, Zenon DEF At, Authenticated, Serving, Subscribed, UserOf
  <2> QED BY <2>1, <2>2, Zenon
<1>3. HandlesAreLive'
  BY <1>1, <1>2, Zenon DEF Counts, HandlesAreLive
<1>4. EveryoneHasHandle'
  BY <1>2, Zenon DEF Counts, EveryoneHasHandle
<1>5. \A u : Admitted(u)' = Admitted(u)
  BY <1>2, Zenon DEF Admitted
<1>6. UserPermitsExact'
  BY <1>5, Zenon DEF Counts, UserPermitsExact, Admitted
<1> QED BY <1>3, <1>4, <1>6, Zenon DEF Counts

\* One element more, or less.
LEMMA OneMore ==
  ASSUME NEW S, IsFiniteSet(S), NEW x
  PROVE  /\ IsFiniteSet(S \cup {x}) /\ Cardinality(S) \in Nat /\ Cardinality(S \cup {x}) \in Nat
         /\ Cardinality(S \cup {x}) <= Cardinality(S) + 1
         /\ x \notin S => Cardinality(S \cup {x}) = Cardinality(S) + 1
<1>1. /\ IsFiniteSet(S \cup {x})
      /\ Cardinality(S \cup {x}) = IF x \in S THEN Cardinality(S) ELSE Cardinality(S) + 1
  BY FS_AddElement, Zenon
<1>2. Cardinality(S) \in Nat /\ Cardinality(S \cup {x}) \in Nat
  BY <1>1, FS_CardinalityType, Zenon
<1> QED BY <1>1, <1>2

LEMMA OneLess ==
  ASSUME NEW S, IsFiniteSet(S), NEW x \in S
  PROVE  Cardinality(S \ {x}) = Cardinality(S) - 1 /\ Cardinality(S) \in Nat /\ Cardinality(S) >= 1
<1>1. IsFiniteSet(S \ {x}) /\ (S \ {x}) \cup {x} = S /\ x \notin S \ {x}
  BY FS_Subset, Zenon
<1>2. Cardinality(S \ {x}) \in Nat /\ Cardinality(S) = Cardinality(S \ {x}) + 1
  BY <1>1, OneMore, Zenon
<1> QED BY <1>2

-----------------------------------------------------------------------------
(* The first and the last steps of a connection.                           *)

\* What such a step keeps: the types, the counts, and the other connections.
Ends(c) ==
  /\ conn' \in [Conn -> Connection] /\ \A d \in Conn : d # c => conn'[d] = conn[d]
  /\ registered' \subseteq Conn /\ cancelled' \cup missed' \subseteq registered'
  /\ userConns' \in [User -> Nat] /\ Counts'
  /\ conn[c].at \notin Served \/ conn'[c].at \notin Served
  /\ conn'[c].at \notin Served \ {"registered"}
  /\ \A d \in Conn : d # c /\ d \in cancelled \cup missed => d \in cancelled' \cup missed'
  /\ UNCHANGED <<valid, lapsed, access, req, writes, invites>>

LEMMA HandleTypes ==
  ASSUME TypeOK, UNCHANGED <<registered, cancelled, missed, userConns>>
  PROVE  /\ registered' \subseteq Conn /\ cancelled' \cup missed' \subseteq registered'
         /\ userConns' \in [User -> Nat]
BY Zenon DEF TypeOK

LEMMA UpgradeEnds == ASSUME TypeOK, Counts, NEW c \in Conn, Upgrade(c) PROVE Ends(c) /\ queue' = queue
<1> DEFINE new == [conn[c] EXCEPT !.at = "open"]
<1>1. /\ conn[c].at = "closed" /\ Cardinality(Permits) < MaxConn
      /\ UNCHANGED <<valid, lapsed, access, registered, cancelled, missed, userConns, queue, req,
                     writes, invites>>
  BY Zenon DEF Upgrade, At, Permits, rights, handles
<1>2. conn' = [conn EXCEPT ![c] = new] /\ conn \in [Conn -> Connection]
  BY Zenon DEF Upgrade, Goto, TypeOK
<1>3. conn[c] \in [at : {"closed", "open", "dropped"}]
  BY <1>1, <1>2, Zenon DEF Connection, Places
<1>4. new \in Connection /\ new.at = "open"
  BY <1>3, Zenon DEF Connection
<1> HIDE DEF new
<1>5. /\ conn' \in [Conn -> Connection] /\ conn'[c] = new
      /\ \A d \in Conn : d # c => conn'[d] = conn[d]
  BY <1>2, <1>4, MovedBare, Zenon
<1>6. PermitsBounded'
  <2>1. Permits' \subseteq Permits \cup {c}
    BY <1>5, Zenon DEF Permits, At
  <2>2. /\ IsFiniteSet(Permits \cup {c}) /\ Cardinality(Permits) \in Nat
        /\ Cardinality(Permits \cup {c}) <= Cardinality(Permits) + 1
        /\ Cardinality(Permits \cup {c}) \in Nat
    BY ConnFinite, OneMore, Zenon
  <2>3. Cardinality(Permits') <= Cardinality(Permits \cup {c}) /\ Cardinality(Permits') \in Nat
    BY <2>1, <2>2, FS_Subset, FS_CardinalityType, Zenon
  <2>4. Cardinality(Permits') <= MaxConn
    BY <1>1, <2>2, <2>3, ConnFinite
  <2> QED BY <2>4, Zenon DEF PermitsBounded
<1>7. Counts'
  BY <1>1, <1>4, <1>5, <1>6, OutsideCounts, Zenon
<1> QED BY <1>1, <1>4, <1>5, <1>7, HandleTypes, Zenon DEF Ends, Served

\* A connection that has no user permit goes to `new`.
LEMMA OutsideEnds ==
  ASSUME TypeOK, Counts, NEW c \in Conn, NEW new \in Connection, conn' = [conn EXCEPT ![c] = new],
         conn[c].at \in {"open", "read", "dropped"},
         new.at \in {"closed", "open", "read", "dropped"},
         UNCHANGED <<valid, lapsed, access, registered, cancelled, missed, userConns, req, writes,
                     invites>>
  PROVE  Ends(c)
<1>1. /\ conn' \in [Conn -> Connection] /\ conn'[c] = new
      /\ \A d \in Conn : d # c => conn'[d] = conn[d]
  BY MovedBare, Zenon
<1>2. Permits' \subseteq Permits
  BY <1>1, Zenon DEF Permits, At
<1>3. PermitsBounded'
  BY <1>2, FewerPermits, Zenon DEF Counts
<1>4. Counts'
  BY <1>1, <1>3, OutsideCounts, Zenon
<1> QED BY <1>1, <1>4, HandleTypes, Zenon DEF Ends, Served

\* A refused connection, or one that leaves before it is admitted.
LEMMA RefusedEnds ==
  ASSUME TypeOK, Counts, NEW c \in Conn,
         conn[c].at \in {"open", "read"}, Goto(c, "dropped"),
         UNCHANGED <<valid, lapsed, access, registered, cancelled, missed, userConns, req, writes,
                     invites>>
  PROVE  Ends(c)
<1> DEFINE new == [conn[c] EXCEPT !.at = "dropped"]
<1>1. conn' = [conn EXCEPT ![c] = new] /\ conn[c] \in Connection
  BY Zenon DEF Goto, TypeOK
<1>2. new \in Connection /\ new.at = "dropped"
  BY <1>1, Zenon DEF Connection, Places
<1> HIDE DEF new
<1> QED BY <1>1, <1>2, OutsideEnds, Zenon

LEMMA ReadEnds ==
  ASSUME TypeOK, Counts, NEW c \in Conn, NEW t \in Token, NEW v \in Vault,
         ReadAuthorisation(c, t, v)
  PROVE  Ends(c) /\ queue' = queue
<1> DEFINE new == [at |-> "read", token |-> t, vault |-> v]
<1>1. new \in Connection /\ new.at = "read"
  BY Zenon DEF Connection, Places
<1>2. /\ conn' = [conn EXCEPT ![c] = new] /\ conn[c].at = "open"
      /\ UNCHANGED <<valid, lapsed, access, registered, cancelled, missed, userConns, queue, req,
                     writes, invites>>
  BY Zenon DEF ReadAuthorisation, At, rights, handles
<1> HIDE DEF new
<1> QED BY <1>1, <1>2, OutsideEnds, Zenon

LEMMA LeaveEnds ==
  ASSUME TypeOK, Counts, NEW c \in Conn, Leave(c), ~Serving(c)
  PROVE  Ends(c) /\ queue' = queue
<1>1. /\ conn[c].at \in {"open", "read"} /\ Goto(c, "dropped")
      /\ UNCHANGED <<valid, lapsed, access, registered, cancelled, missed, userConns, queue, req,
                     writes, invites>>
  BY Zenon DEF Leave, At, rights, handles
<1> QED BY <1>1, RefusedEnds, Zenon

LEMMA ReleaseEnds ==
  ASSUME TypeOK, Counts, NEW c \in Conn, ReleasePermit(c)
  PROVE  Ends(c) /\ queue' = queue
<1>1. /\ conn' = [conn EXCEPT ![c] = Closed] /\ conn[c].at = "dropped"
      /\ UNCHANGED <<valid, lapsed, access, registered, cancelled, missed, userConns, queue, req,
                     writes, invites>>
  BY Zenon DEF ReleasePermit, At, rights, handles
<1>2. Closed \in Connection /\ Closed.at = "closed"
  BY Zenon DEF Closed, Connection
<1> HIDE DEF Closed
<1> QED BY <1>1, <1>2, OutsideEnds, Zenon

\* Admission counts the connection with its user.
LEMMA AdmitEnds == ASSUME TypeOK, Counts, NEW c \in Conn, Admit(c) PROVE Ends(c) /\ queue' = queue
<1>1. /\ conn[c].at = "read" /\ queue' = queue
      /\ UNCHANGED <<valid, lapsed, access, registered, cancelled, missed, req, writes, invites>>
  BY Zenon DEF Admit, At, rights, handles
<1>2. CASE conn' = [conn EXCEPT ![c] = [at |-> "open"]] /\ UNCHANGED userConns
  <2> DEFINE new == [at |-> "open"]
  <2>1. new \in Connection /\ new.at = "open"
    BY Zenon DEF Connection
  <2>2. conn' = [conn EXCEPT ![c] = new]
    BY <1>2, Zenon
  <2> HIDE DEF new
  <2> QED BY <1>1, <1>2, <2>1, <2>2, OutsideEnds, Zenon
<1>3. CASE Goto(c, "dropped") /\ UNCHANGED userConns
  BY <1>1, <1>3, RefusedEnds, Zenon
<1>4. CASE Goto(c, "admitted") /\ userConns' = [userConns EXCEPT ![UserOf(c)] = @ + 1]
  <2>1. conn[c] \in Full /\ UserOf(c) \in User /\ "admitted" \in Places
    BY <1>1, HasToken, Zenon DEF Places
  <2>2. /\ conn' \in [Conn -> Connection] /\ conn'[c].at = "admitted"
        /\ conn'[c].token = conn[c].token /\ \A d \in Conn : d # c => conn'[d] = conn[d]
    BY <1>4, <2>1, Moved, Zenon
  <2>3. /\ userConns \in [User -> Nat] /\ registered \subseteq Conn
        /\ cancelled \cup missed \subseteq registered
    BY Zenon DEF TypeOK
  <2>4. userConns' \in [User -> Nat]
    BY <1>4, <2>1, <2>3
  <2>5. PermitsBounded'
    <3>1. Permits' \subseteq Permits
      BY <1>1, <2>2, Zenon DEF Permits, At
    <3> QED BY <3>1, FewerPermits, Zenon DEF Counts
  <2>6. \A d \in Conn : /\ Serving(d)' <=> Serving(d)
                        /\ At(d, "closing")' <=> At(d, "closing")
    <3> TAKE d \in Conn
    <3>1. CASE d # c
      BY <2>2, <3>1, Zenon DEF Serving, Subscribed, At
    <3>2. CASE d = c
      BY <1>1, <2>2, <3>2, Zenon DEF Serving, Subscribed, At
    <3> QED BY <3>1, <3>2, Zenon
  <2>7. HandlesAreLive' /\ EveryoneHasHandle'
    BY <1>1, <2>3, <2>6, Zenon DEF Counts, HandlesAreLive, EveryoneHasHandle
  <2>8. /\ \A d \in Conn : d # c => (Authenticated(d)' <=> Authenticated(d)) /\ UserOf(d)' = UserOf(d)
        /\ ~Authenticated(c) /\ Authenticated(c)' /\ UserOf(c)' = UserOf(c)
    BY <1>1, <2>2, Zenon DEF Authenticated, Serving, Subscribed, At, UserOf
  <2>9. ASSUME NEW u \in User PROVE userConns'[u] = Cardinality(Admitted(u)')
    <3>1. userConns[u] = Cardinality(Admitted(u))
      BY Zenon DEF Counts, UserPermitsExact, Admitted
    <3>2. CASE u = UserOf(c)
      <4>1. Admitted(u)' = Admitted(u) \cup {c} /\ c \notin Admitted(u)
        BY <2>8, <3>2, Zenon DEF Admitted
      <4>2. Cardinality(Admitted(u)') = Cardinality(Admitted(u)) + 1
        BY <4>1, ConnFinite, OneMore, Zenon
      <4>3. userConns'[u] = userConns[u] + 1
        BY <1>4, <2>1, <2>3, <3>2, Zenon
      <4> QED BY <3>1, <4>2, <4>3, Zenon
    <3>3. CASE u # UserOf(c)
      <4>1. Admitted(u)' = Admitted(u)
        BY <2>8, <3>3, Zenon DEF Admitted
      <4>2. userConns'[u] = userConns[u]
        BY <1>4, <2>1, <2>3, <3>3, Zenon
      <4> QED BY <3>1, <4>1, <4>2, Zenon
    <3> QED BY <3>2, <3>3, Zenon
  <2>10. UserPermitsExact'
    BY <2>9, Zenon DEF UserPermitsExact, Admitted
  <2> QED BY <1>1, <2>2, <2>3, <2>4, <2>5, <2>7, <2>10, Zenon DEF Ends, Counts, Served
<1> QED BY <1>2, <1>3, <1>4, Zenon DEF Admit

\* The registry has room: every handle belongs to another permit.
LEMMA RegisterEnds ==
  ASSUME TypeOK, Counts, NEW c \in Conn, Register(c)
  PROVE  Ends(c) /\ queue' = queue
<1>1. /\ conn[c].at = "admitted" /\ queue' = queue /\ Goto(c, "registered")
      /\ UNCHANGED <<valid, lapsed, access, cancelled, missed, userConns, req, writes, invites>>
      /\ registered' = IF Cardinality(registered) < MaxConn THEN registered \cup {c} ELSE registered
  BY Zenon DEF Register, At, rights
<1>2. conn[c] \in Full /\ "registered" \in Places
  BY <1>1, HasToken, Zenon DEF Places
<1>3. /\ conn' \in [Conn -> Connection] /\ conn'[c].at = "registered"
      /\ conn'[c].token = conn[c].token /\ \A d \in Conn : d # c => conn'[d] = conn[d]
  BY <1>1, <1>2, Moved, Zenon
<1>4. /\ userConns \in [User -> Nat] /\ registered \subseteq Conn
      /\ cancelled \cup missed \subseteq registered
  BY Zenon DEF TypeOK
<1>5. registered \subseteq Permits \ {c} /\ c \in Permits
  BY <1>1, <1>4, Zenon DEF Counts, HandlesAreLive, Permits, At, Serving, Subscribed
<1>6. Cardinality(registered) < MaxConn
  <2>1. /\ Cardinality(Permits \ {c}) = Cardinality(Permits) - 1 /\ Cardinality(Permits) \in Nat
        /\ Cardinality(Permits) >= 1
    BY <1>5, ConnFinite, OneLess, Zenon
  <2>2. IsFiniteSet(Permits \ {c})
    BY ConnFinite, FS_Subset, Zenon
  <2>3. Cardinality(registered) <= Cardinality(Permits \ {c}) /\ Cardinality(registered) \in Nat
    BY <1>5, <2>2, FS_Subset, FS_CardinalityType, Zenon
  <2>4. Cardinality(Permits) <= MaxConn
    BY Zenon DEF Counts, PermitsBounded
  <2> QED BY <2>1, <2>3, <2>4, ConnFinite
<1>7. registered' = registered \cup {c}
  BY <1>1, <1>6, Zenon
<1>8. PermitsBounded'
  <2>1. Permits' \subseteq Permits
    BY <1>1, <1>3, Zenon DEF Permits, At
  <2> QED BY <2>1, FewerPermits, Zenon DEF Counts
<1>9. \A d \in Conn : d # c => /\ Serving(d)' <=> Serving(d)
                               /\ At(d, "closing")' <=> At(d, "closing")
                               /\ Authenticated(d)' <=> Authenticated(d)
                               /\ UserOf(d)' = UserOf(d)
  BY <1>3, Zenon DEF Authenticated, Serving, Subscribed, At, UserOf
<1>10. Serving(c)' /\ Authenticated(c) /\ Authenticated(c)' /\ UserOf(c)' = UserOf(c)
  BY <1>1, <1>3, Zenon DEF Authenticated, Serving, Subscribed, At, UserOf
<1>11. HandlesAreLive' /\ EveryoneHasHandle'
  BY <1>4, <1>7, <1>9, <1>10, Zenon DEF Counts, HandlesAreLive, EveryoneHasHandle
<1>12. \A u : Admitted(u)' = Admitted(u)
  BY <1>9, <1>10, Zenon DEF Admitted
<1>13. UserPermitsExact'
  BY <1>1, <1>12, Zenon DEF Counts, UserPermitsExact, Admitted
<1>14. registered' \subseteq Conn /\ cancelled' \cup missed' \subseteq registered'
  BY <1>1, <1>4, <1>7, Zenon
<1> QED BY <1>1, <1>3, <1>4, <1>8, <1>11, <1>13, <1>14, Zenon DEF Ends, Counts, Served

\* The handle and the user permit are given back together.
LEMMA DropEnds == ASSUME TypeOK, Counts, NEW c \in Conn, DropSession(c) PROVE Ends(c)
<1>1. /\ conn[c].at = "closing" /\ Goto(c, "dropped")
      /\ registered' = registered \ {c} /\ cancelled' = cancelled \ {c} /\ missed' = missed \ {c}
      /\ userConns' = [userConns EXCEPT ![UserOf(c)] = @ - 1]
      /\ UNCHANGED <<valid, lapsed, access, req, writes, invites>>
  BY Zenon DEF DropSession, At, rights
<1>2. conn[c] \in Full /\ UserOf(c) \in User /\ "dropped" \in Places
  BY <1>1, HasToken, Zenon DEF Places
<1>3. /\ conn' \in [Conn -> Connection] /\ conn'[c].at = "dropped"
      /\ \A d \in Conn : d # c => conn'[d] = conn[d]
  BY <1>1, <1>2, Moved, Zenon
<1>4. /\ userConns \in [User -> Nat] /\ registered \subseteq Conn
      /\ cancelled \cup missed \subseteq registered
  BY Zenon DEF TypeOK
<1>5. registered' \subseteq Conn /\ cancelled' \cup missed' \subseteq registered'
  BY <1>1, <1>4, Zenon
<1>6. PermitsBounded'
  <2>1. Permits' \subseteq Permits
    BY <1>1, <1>3, Zenon DEF Permits, At
  <2> QED BY <2>1, FewerPermits, Zenon DEF Counts
<1>7. \A d \in Conn : d # c => /\ Serving(d)' <=> Serving(d)
                               /\ At(d, "closing")' <=> At(d, "closing")
                               /\ Authenticated(d)' <=> Authenticated(d)
                               /\ UserOf(d)' = UserOf(d)
  BY <1>3, Zenon DEF Authenticated, Serving, Subscribed, At, UserOf
<1>8. ~Serving(c)' /\ Authenticated(c) /\ ~Authenticated(c)'
  BY <1>1, <1>3, Zenon DEF Authenticated, Serving, Subscribed, At
<1>9. HandlesAreLive' /\ EveryoneHasHandle'
  BY <1>1, <1>4, <1>7, <1>8, Zenon DEF Counts, HandlesAreLive, EveryoneHasHandle
<1>10. ASSUME NEW u \in User
       PROVE  userConns'[u] = Cardinality(Admitted(u)') /\ userConns'[u] \in Nat
  <2>1. userConns[u] = Cardinality(Admitted(u)) /\ userConns[u] \in Nat
    BY <1>4, Zenon DEF Counts, UserPermitsExact, Admitted
  <2>2. CASE u = UserOf(c)
    <3>1. Admitted(u)' = Admitted(u) \ {c} /\ c \in Admitted(u)
      BY <1>7, <1>8, <2>2, Zenon DEF Admitted
    <3>2. Cardinality(Admitted(u)') = Cardinality(Admitted(u)) - 1 /\ Cardinality(Admitted(u)) >= 1
      BY <3>1, ConnFinite, OneLess, Zenon
    <3>3. userConns'[u] = userConns[u] - 1
      BY <1>1, <1>2, <1>4, <2>2, Zenon
    <3> QED BY <2>1, <3>2, <3>3
  <2>3. CASE u # UserOf(c)
    <3>1. Admitted(u)' = Admitted(u)
      BY <1>7, <1>8, <2>3, Zenon DEF Admitted
    <3>2. userConns'[u] = userConns[u]
      BY <1>1, <1>2, <1>4, <2>3, Zenon
    <3> QED BY <2>1, <3>1, <3>2, Zenon
  <2> QED BY <2>2, <2>3, Zenon
<1>11. UserPermitsExact'
  BY <1>10, Zenon DEF UserPermitsExact, Admitted
<1>12. userConns' \in [User -> Nat]
  BY <1>1, <1>4, <1>10, Zenon
<1> QED BY <1>1, <1>3, <1>5, <1>6, <1>9, <1>11, <1>12, Zenon DEF Ends, Counts, Served

-----------------------------------------------------------------------------
(* Withdrawals reach the connections that go on.                           *)

\* What WithdrawalReachesLive says of one connection.
Reached(c) ==
  conn[c].at \in Going /\ ~Authorised(c) /\ conn[c].token \notin lapsed =>
    c \in cancelled \cup missed \/ \E r \in Req : req[r] # Idle /\ Matches(req[r], c)

LEMMA ReachIs == WithdrawalReachesLive <=> \A c \in Conn : Reached(c)
BY Zenon DEF WithdrawalReachesLive, Reached, Going

\* A connection that stays where it is, with the same rights and requests.
LEMMA ReachedKept ==
  ASSUME NEW c \in Conn, Reached(c), conn'[c] = conn[c],
         UNCHANGED <<valid, lapsed, access, req>>,
         c \in cancelled \cup missed => c \in cancelled' \cup missed'
  PROVE  Reached(c)'
<1>1. Authorised(c)' <=> Authorised(c)
  BY Zenon DEF Authorised, UserOf
<1>2. \A r \in Req : Matches(req[r], c)' <=> Matches(req[r], c)
  BY Zenon DEF Matches, UserOf
<1> QED BY <1>1, <1>2, Zenon DEF Reached

LEMMA WalkReaches ==
  ASSUME WithdrawalReachesLive, NEW c \in Conn, Walk(c)
  PROVE  WithdrawalReachesLive'
<1> SUFFICES ASSUME NEW d \in Conn PROVE Reached(d)'
  BY ReachIs, Zenon DEF WithdrawalReachesLive, Reached, Going
<1>1. Reached(d)
  BY ReachIs, Zenon
<1>2. CASE d # c
  BY <1>1, <1>2, ReachedKept, Zenon DEF Walk
<1>3. CASE d = c
  <2>1. Authorised(c)' <=> Authorised(c)
    BY Zenon DEF Walk, Authorised, UserOf
  <2>2. \A r \in Req : Matches(req[r], c)' <=> Matches(req[r], c)
    BY Zenon DEF Walk, Matches, UserOf
  <2>3. /\ conn'[c].at \in Going => conn[c].at \in Going \/ Authorised(c)
        /\ conn'[c].token = conn[c].token /\ UNCHANGED <<lapsed, cancelled, missed, req>>
    BY Zenon DEF Walk
  <2> QED BY <1>1, <1>3, <2>1, <2>2, <2>3, Zenon DEF Reached
<1> QED BY <1>2, <1>3, Zenon

LEMMA EndsReaches ==
  ASSUME WithdrawalReachesLive, NEW c \in Conn, Ends(c)
  PROVE  WithdrawalReachesLive'
<1> SUFFICES ASSUME NEW d \in Conn PROVE Reached(d)'
  BY ReachIs, Zenon DEF WithdrawalReachesLive, Reached, Going
<1>1. Reached(d)
  BY ReachIs, Zenon
<1>2. CASE d # c
  BY <1>1, <1>2, ReachedKept, Zenon DEF Ends
<1>3. CASE d = c
  BY <1>3, Zenon DEF Ends, Reached, Going, Served
<1> QED BY <1>2, <1>3, Zenon

-----------------------------------------------------------------------------
(* The queues.                                                             *)

\* A queue that stays, for a connection that stays and gains no right.
LEMMA QueueKept ==
  ASSUME NEW c \in Conn, QueueOK(c), conn'[c] = conn[c], queue'[c] = queue[c],
         Authorised(c)' => Authorised(c)
  PROVE  QueueOK(c)'
BY Zenon DEF QueueOK, Subscribed

\* An event for a subscriber, marked if the subscriber has no right.
LEMMA QueueAppended ==
  ASSUME TypeOK, NEW c \in Conn, QueueOK(c), NEW e \in {"seen", "late", "gone"},
         queue'[c] = Append(queue[c], e), e = "late" => ~Authorised(c),
         Authorised(c)' => Authorised(c), conn[c].at \in Served \ {"registered"},
         \/ conn'[c] = conn[c]
         \/ conn'[c].at = "live"
  PROVE  QueueOK(c)' /\ queue'[c] \in Seq({"seen", "late", "gone"})
<1> DEFINE q == queue[c]
           n == queue'[c]
<1>1. q \in Seq({"seen", "late", "gone"}) /\ n = Append(q, e)
  BY Zenon DEF TypeOK
<1>2. /\ n \in Seq({"seen", "late", "gone"}) /\ n # <<>> /\ Len(n) = Len(q) + 1
      /\ \A i \in 1..Len(q) : n[i] = q[i]
      /\ n[Len(q) + 1] = e
  BY <1>1
<1>3. q # <<>> => Head(n) = Head(q)
  BY <1>1
<1>4. Subscribed(c)
  BY Zenon DEF Subscribed, Served
<1>5. Authorised(c)' => \A i \in 1..Len(n) : n[i] # "late"
  <2> SUFFICES ASSUME Authorised(c), NEW i \in 1..Len(n) PROVE n[i] # "late"
    OBVIOUS
  <2>1. \A j \in 1..Len(q) : q[j] # "late"
    BY <1>4, Zenon DEF QueueOK
  <2>2. i \in 1..Len(q) \/ i = Len(q) + 1
    BY <1>1, <1>2
  <2> QED BY <1>2, <2>1, <2>2, Zenon
<1>6. conn'[c].at \in {"sending", "resending"} => Head(n) # "late"
  BY <1>3, Zenon DEF QueueOK
<1>7. conn'[c].at \notin {"closed", "open", "read", "admitted", "registered", "dropped"}
  BY Zenon DEF Served
<1> QED BY <1>2, <1>5, <1>6, <1>7, Zenon DEF QueueOK

\* A walk that leaves the queues alone.
LEMMA QuietWalkQueues ==
  ASSUME TypeOK, QueuesOK, NEW c \in Conn, Walk(c), queue' = queue,
         conn'[c].at \in {"sending", "resending"} => Authorised(c) /\ queue[c] # <<>>,
         conn'[c].at \notin {"registered", "replaying"},
         conn[c].at = "registered" => conn'[c].at = "closing"
  PROVE  QueuesOK'
<1> SUFFICES ASSUME NEW d \in Conn PROVE QueueOK(d)'
  BY Zenon DEF QueuesOK
<1>1. QueueOK(d)
  BY Zenon DEF QueuesOK
<1>2. Authorised(d)' <=> Authorised(d)
  BY Zenon DEF Walk, Authorised, UserOf
<1>3. CASE d # c
  BY <1>1, <1>2, <1>3, QueueKept, Zenon DEF Walk
<1>4. CASE d = c
  <2>1. conn[c].at \in Served /\ conn'[c].at \in Served \cup {"closing"}
    BY Zenon DEF Walk
  <2>2. queue[c] \in Seq({"seen", "late", "gone"})
    BY Zenon DEF TypeOK
  <2>3. CASE conn'[c].at = "closing"
    BY <1>4, <2>3, Zenon DEF QueueOK, Subscribed
  <2>4. CASE conn'[c].at # "closing"
    <3>1. Subscribed(c)
      BY <2>1, <2>4, Zenon DEF Subscribed, Served
    <3>2. Authorised(c) => \A i \in 1..Len(queue[c]) : queue[c][i] # "late"
      BY <1>1, <1>4, <3>1, Zenon DEF QueueOK
    <3>3. conn'[c].at \in {"sending", "resending"} => Head(queue[c]) # "late"
      BY <2>2, <3>2
    <3>4. conn'[c].at \in Served \ {"registered", "replaying"}
      BY <2>1, <2>4, Zenon
    <3> QED BY <1>2, <1>4, <3>2, <3>3, <3>4, Zenon DEF QueueOK, Served
  <2> QED BY <2>3, <2>4, Zenon
<1> QED BY <1>3, <1>4, Zenon

\* The first and the last steps of a connection find and leave no event.
LEMMA EndsQueues ==
  ASSUME TypeOK, QueuesOK, NEW c \in Conn, Ends(c), queue'[c] = <<>>,
         \A d \in Conn : d # c => queue'[d] = queue[d]
  PROVE  QueuesOK'
<1> SUFFICES ASSUME NEW d \in Conn PROVE QueueOK(d)'
  BY Zenon DEF QueuesOK
<1>1. CASE d # c
  <2>1. QueueOK(d)
    BY Zenon DEF QueuesOK
  <2>2. Authorised(d)' <=> Authorised(d)
    BY <1>1, Zenon DEF Ends, Authorised, UserOf
  <2> QED BY <1>1, <2>1, <2>2, QueueKept, Zenon DEF Ends
<1>2. CASE d = c
  <2>1. conn'[c].at \notin {"replaying", "resending", "replayed", "live", "sending", "writing"}
    BY Zenon DEF Ends, Served
  <2> QED BY <1>2, <2>1, Zenon DEF QueueOK, Subscribed
<1> QED BY <1>1, <1>2, Zenon

\* The actions that are such steps.
Edges(c) ==
  \/ Upgrade(c) \/ (\E t \in Token, v \in Vault : ReadAuthorisation(c, t, v)) \/ Admit(c)
  \/ Register(c) \/ DropSession(c) \/ ReleasePermit(c) \/ (~Serving(c) /\ Leave(c))

LEMMA EdgeInv == ASSUME Inv, NEW c \in Conn, Edges(c) PROVE Inv'
<1>0. TypeOK /\ Counts /\ QueuesOK /\ WithdrawalReachesLive /\ queue \in [Conn -> Seq({"seen", "late", "gone"})]
  BY Zenon DEF Inv, Counts, TypeOK
<1> DEFINE Shape ==
      /\ Ends(c) /\ queue' \in [Conn -> Seq({"seen", "late", "gone"})] /\ queue'[c] = <<>>
      /\ \A d \in Conn : d # c => queue'[d] = queue[d]
<1>1. ASSUME DropSession(c) PROVE Shape
  <2>1. Ends(c)
    BY <1>0, <1>1, DropEnds, Zenon
  <2>2. queue' = [queue EXCEPT ![c] = <<>>]
    BY <1>1, Zenon DEF DropSession
  <2>3. /\ queue' \in [Conn -> Seq({"seen", "late", "gone"})] /\ queue'[c] = <<>>
        /\ \A d \in Conn : d # c => queue'[d] = queue[d]
    BY <1>0, <2>2
  <2> QED BY <1>0, <2>1, <2>3, Zenon
<1>2. ASSUME \/ Upgrade(c) \/ (\E t \in Token, v \in Vault : ReadAuthorisation(c, t, v)) \/ Admit(c)
             \/ Register(c) \/ ReleasePermit(c) \/ (~Serving(c) /\ Leave(c))
      PROVE  Shape
  <2>1. Ends(c) /\ queue' = queue
    BY <1>0, <1>2, UpgradeEnds, ReadEnds, AdmitEnds, RegisterEnds, ReleaseEnds, LeaveEnds, Zenon
  <2>2. conn[c].at \in {"closed", "open", "read", "admitted", "dropped"}
    BY <1>2, Zenon DEF Upgrade, ReadAuthorisation, Admit, Register, ReleasePermit, Leave, At
  <2>3. queue[c] = <<>>
    BY <1>0, <2>2, Zenon DEF QueuesOK, QueueOK
  <2> QED BY <1>0, <2>1, <2>3, Zenon
<1>3. Shape
  BY <1>1, <1>2, Zenon DEF Edges
<1>4. QueuesOK' /\ WithdrawalReachesLive'
  BY <1>0, <1>3, EndsQueues, EndsReaches, Zenon
<1>5. TypeOK'
  BY <1>0, <1>3, Zenon DEF TypeOK, Ends
<1> QED BY <1>3, <1>4, <1>5, Zenon DEF Inv, Ends, Counts

-----------------------------------------------------------------------------
(* The queues of the connections that serve.                               *)

\* The place of a connection that went somewhere.
LEMMA Gone ==
  ASSUME TypeOK, NEW c \in Conn, conn[c].at \in Served, NEW place \in Places, Goto(c, place)
  PROVE  conn'[c].at = place
BY HasToken, Moved, Zenon DEF Served

\* The steps that leave the queues alone.
Quiet(c) ==
  \/ Replay(c) \/ EndReplay(c) \/ Receive(c) \/ BeginWrite(c) \/ Cancelled(c) \/ Revalidate(c)
  \/ (Serving(c) /\ Leave(c)) \/ (CommitWrite(c) /\ ~Authorised(c))

LEMMA QuietQueues ==
  ASSUME TypeOK, QueuesOK, NEW c \in Conn, Quiet(c), Walk(c)
  PROVE  QueuesOK' /\ queue' = queue /\ writes' = writes
<1>1. \E place \in {"closing", "live", "resending", "sending", "writing"} :
        /\ Goto(c, place) /\ UNCHANGED <<queue, writes>>
        /\ place \in {"sending", "resending"} => Authorised(c)
        /\ place = "sending" => queue[c] # <<>>
        /\ place = "resending" => At(c, "replaying")
        /\ At(c, "registered") => place = "closing"
  <2>1. CASE Replay(c) \/ EndReplay(c)
    BY <2>1, Zenon DEF Replay, EndReplay, IfActive, Close, At
  <2>2. CASE Receive(c) \/ BeginWrite(c)
    BY <2>2, Zenon DEF Receive, BeginWrite, IfActive, Close, At
  <2>3. CASE Cancelled(c) \/ Revalidate(c) \/ (Serving(c) /\ Leave(c)) \/ (CommitWrite(c) /\ ~Authorised(c))
    BY <2>3, Zenon DEF Cancelled, Revalidate, Leave, CommitWrite, Close
  <2> QED BY <2>1, <2>2, <2>3, Zenon DEF Quiet
<1>2. PICK place \in {"closing", "live", "resending", "sending", "writing"} :
        /\ Goto(c, place) /\ UNCHANGED <<queue, writes>>
        /\ place \in {"sending", "resending"} => Authorised(c)
        /\ place = "sending" => queue[c] # <<>>
        /\ place = "resending" => At(c, "replaying")
        /\ At(c, "registered") => place = "closing"
  BY <1>1, Zenon
<1>3. conn[c].at \in Served /\ place \in Places
  BY Zenon DEF Walk, Places
<1>4. conn'[c].at = place
  BY <1>2, <1>3, Gone, Zenon
<1>5. place = "resending" => queue[c] # <<>>
  BY <1>2, Zenon DEF QueuesOK, QueueOK, At
<1>6. conn'[c].at \in {"sending", "resending"} => Authorised(c) /\ queue[c] # <<>>
  BY <1>2, <1>4, <1>5, Zenon
<1>7. conn'[c].at \notin {"registered", "replaying"}
  BY <1>4, Zenon
<1>8. conn[c].at = "registered" => conn'[c].at = "closing"
  BY <1>2, <1>4, Zenon DEF At
<1> QED BY <1>2, <1>6, <1>7, <1>8, QuietWalkQueues, Zenon

\* The replay as one event, marked if the session has no right any more.
LEMMA BoundaryQueues ==
  ASSUME TypeOK, QueuesOK, NEW c \in Conn, NEW some \in BOOLEAN, SetBoundary(c, some), Walk(c)
  PROVE  QueuesOK' /\ queue' \in [Conn -> Seq({"seen", "late", "gone"})] /\ writes' = writes
<1> DEFINE e == IF Authorised(c) THEN "seen" ELSE "late"
           n == IF some THEN <<e>> ELSE <<>>
<1>1. /\ queue' = [queue EXCEPT ![c] = n] /\ writes' = writes
      /\ Goto(c, IF some THEN "replaying" ELSE "replayed")
  BY Zenon DEF SetBoundary
<1>2. /\ n \in Seq({"seen", "late", "gone"}) /\ (some => n # <<>>)
      /\ Authorised(c) => \A i \in 1..Len(n) : n[i] # "late"
  <2>1. CASE some
    <3>1. n = <<e>> /\ e \in {"seen", "late", "gone"} /\ (Authorised(c) => e # "late")
      BY <2>1, Zenon
    <3> HIDE DEF e, n
    <3>2. n \in Seq({"seen", "late", "gone"}) /\ n # <<>> /\ Len(n) = 1 /\ n[1] = e
      BY <3>1
    <3> QED BY <3>1, <3>2
  <2>2. CASE ~some
    <3>1. n = <<>>
      BY <2>2, Zenon
    <3> HIDE DEF n
    <3> QED BY <2>2, <3>1
  <2> QED BY <2>1, <2>2, Zenon
<1> HIDE DEF n
<1>3. queue \in [Conn -> Seq({"seen", "late", "gone"})]
  BY Zenon DEF TypeOK
<1>4. /\ queue' \in [Conn -> Seq({"seen", "late", "gone"})] /\ queue'[c] = n
      /\ \A d \in Conn : d # c => queue'[d] = queue[d]
  BY <1>1, <1>2, <1>3, Zenon
<1>5. conn'[c].at = IF some THEN "replaying" ELSE "replayed"
  BY <1>1, Gone, Zenon DEF Walk, Places
<1>6. ASSUME NEW d \in Conn PROVE QueueOK(d)'
  <2>1. Authorised(d)' <=> Authorised(d)
    BY Zenon DEF Walk, Authorised, UserOf
  <2>2. CASE d # c
    <3>1. QueueOK(d) /\ conn'[d] = conn[d]
      BY <2>2, Zenon DEF QueuesOK, Walk
    <3> QED BY <1>4, <2>1, <2>2, <3>1, QueueKept, Zenon
  <2>3. CASE d = c
    <3>1. Authorised(c)' => \A i \in 1..Len(queue'[c]) : queue'[c][i] # "late"
      BY <1>2, <1>4, <2>1, <2>3, Zenon
    <3>2. conn'[c].at = "replaying" => queue'[c] # <<>>
      BY <1>2, <1>4, <1>5, Zenon
    <3>3. conn'[c].at \in {"replaying", "replayed"}
      BY <1>5, Zenon
    <3> QED BY <2>3, <3>1, <3>2, <3>3, Zenon DEF QueueOK
  <2> QED BY <2>2, <2>3, Zenon
<1> QED BY <1>1, <1>4, <1>6, Zenon DEF QueuesOK

\* The first event was sent.
LEMMA SendQueues ==
  ASSUME TypeOK, QueuesOK, NEW c \in Conn, Send(c), Walk(c)
  PROVE  QueuesOK' /\ queue' \in [Conn -> Seq({"seen", "late", "gone"})] /\ writes' = writes
<1>1. /\ queue' = [queue EXCEPT ![c] = Tail(queue[c])] /\ writes' = writes
      /\ conn[c].at \in {"sending", "resending"} /\ (Goto(c, "live") \/ Goto(c, "replayed"))
  BY Zenon DEF Send, At
<1>2. queue \in [Conn -> Seq({"seen", "late", "gone"})] /\ QueueOK(c)
  BY Zenon DEF TypeOK, QueuesOK
<1>3. queue[c] \in Seq({"seen", "late", "gone"}) /\ queue[c] # <<>>
  BY <1>1, <1>2, Zenon DEF QueueOK
<1> DEFINE n == Tail(queue[c])
<1>4. /\ n \in Seq({"seen", "late", "gone"})
      /\ \A i \in 1..Len(n) : i + 1 \in 1..Len(queue[c]) /\ n[i] = queue[c][i + 1]
  BY <1>3
<1>5. Subscribed(c)
  BY <1>1, Zenon DEF Subscribed
<1>6. Authorised(c) => \A i \in 1..Len(n) : n[i] # "late"
  BY <1>2, <1>4, <1>5, Zenon DEF QueueOK
<1> HIDE DEF n
<1>7. /\ queue' \in [Conn -> Seq({"seen", "late", "gone"})] /\ queue'[c] = n
      /\ \A d \in Conn : d # c => queue'[d] = queue[d]
  BY <1>1, <1>2, <1>4, Zenon DEF n
<1>8. conn'[c].at \in {"live", "replayed"}
  BY <1>1, Gone, Zenon DEF Walk, Places
<1>9. ASSUME NEW d \in Conn PROVE QueueOK(d)'
  <2>1. Authorised(d)' <=> Authorised(d)
    BY Zenon DEF Walk, Authorised, UserOf
  <2>2. CASE d # c
    <3>1. QueueOK(d) /\ conn'[d] = conn[d]
      BY <2>2, Zenon DEF QueuesOK, Walk
    <3> QED BY <1>7, <2>1, <2>2, <3>1, QueueKept, Zenon
  <2>3. CASE d = c
    <3>1. Authorised(c)' => \A i \in 1..Len(queue'[c]) : queue'[c][i] # "late"
      BY <1>6, <1>7, <2>1, <2>3, Zenon
    <3> QED BY <1>8, <2>3, <3>1, Zenon DEF QueueOK
  <2> QED BY <2>2, <2>3, Zenon
<1> QED BY <1>1, <1>7, <1>9, Zenon DEF QueuesOK

\* A revision is committed: every subscriber of its vault has one event more.
LEMMA CommitQueues ==
  ASSUME TypeOK, QueuesOK, NEW c \in Conn, CommitWrite(c), Authorised(c), Walk(c)
  PROVE  /\ QueuesOK' /\ queue' \in [Conn -> Seq({"seen", "late", "gone"})]
         /\ writes' = writes + 1
<1> DEFINE v == conn[c].vault
<1>1. /\ conn[c].at = "writing" /\ Goto(c, "live") /\ writes' = writes + 1
      /\ queue' = [d \in Conn |-> IF d \in Subscribers(v)
                                  THEN Append(queue[d], IF Authorised(d) THEN "seen" ELSE "late")
                                  ELSE queue[d]]
  BY Zenon DEF CommitWrite, Commit, Published, At
<1>2. conn'[c].at = "live"
  BY <1>1, Gone, Zenon DEF Walk, Places
<1>3. c \in Subscribers(v)
  BY <1>1, Zenon DEF Subscribers, Subscribed
<1>4. ASSUME NEW d \in Conn PROVE QueueOK(d)' /\ queue'[d] \in Seq({"seen", "late", "gone"})
  <2> DEFINE e == IF Authorised(d) THEN "seen" ELSE "late"
  <2>1. QueueOK(d) /\ queue[d] \in Seq({"seen", "late", "gone"})
    BY Zenon DEF QueuesOK, TypeOK
  <2>2. Authorised(d)' <=> Authorised(d)
    BY Zenon DEF Walk, Authorised, UserOf
  <2>3. CASE d \in Subscribers(v)
    <3>1. e \in {"seen", "late", "gone"} /\ (e = "late" => ~Authorised(d))
      OBVIOUS
    <3>2. queue'[d] = Append(queue[d], e)
      BY <1>1, <2>3, Zenon
    <3> HIDE DEF e
    <3>3. conn[d].at \in Served \ {"registered"}
      BY <2>3, Zenon DEF Subscribers, Subscribed, Served
    <3>4. conn'[d] = conn[d] \/ conn'[d].at = "live"
      BY <1>2, Zenon DEF Walk
    <3> QED BY <2>1, <2>2, <3>1, <3>2, <3>3, <3>4, QueueAppended, Zenon
  <2>4. CASE d \notin Subscribers(v)
    <3>1. conn'[d] = conn[d] /\ queue'[d] = queue[d]
      BY <1>1, <1>3, <2>4, Zenon DEF Walk
    <3> QED BY <2>1, <2>2, <3>1, QueueKept, Zenon
  <2> QED BY <2>3, <2>4, Zenon
<1>5. queue' \in [Conn -> Seq({"seen", "late", "gone"})]
  <2>1. DOMAIN queue' = Conn /\ queue' = [d \in Conn |-> queue'[d]]
    BY <1>1, Zenon
  <2> QED BY <1>4, <2>1, Zenon
<1> QED BY <1>1, <1>4, <1>5, Zenon DEF QueuesOK

LEMMA WalkInv == ASSUME Inv, NEW c \in Conn, Walks(c) PROVE Inv'
<1>0. /\ TypeOK /\ Counts /\ QueuesOK /\ WithdrawalReachesLive /\ writes \in Nat
      /\ queue \in [Conn -> Seq({"seen", "late", "gone"})]
  BY Zenon DEF Inv, Counts, TypeOK
<1>1. Walk(c)
  BY <1>0, WalkIs, Zenon
<1>2. Counts' /\ WithdrawalReachesLive'
  BY <1>0, <1>1, WalkCounts, WalkReaches, Zenon
<1>3. QueuesOK' /\ queue' \in [Conn -> Seq({"seen", "late", "gone"})] /\ writes' \in Nat
  <2>1. CASE Quiet(c)
    BY <1>0, <1>1, <2>1, QuietQueues, Zenon
  <2>2. ASSUME NEW some \in BOOLEAN, SetBoundary(c, some)
        PROVE  QueuesOK' /\ queue' \in [Conn -> Seq({"seen", "late", "gone"})] /\ writes' \in Nat
    BY <1>0, <1>1, <2>2, BoundaryQueues, Zenon
  <2>3. CASE Send(c)
    BY <1>0, <1>1, <2>3, SendQueues, Zenon
  <2>4. CASE CommitWrite(c) /\ Authorised(c)
    BY <1>0, <1>1, <2>4, CommitQueues
  <2> QED BY <2>1, <2>2, <2>3, <2>4, Zenon DEF Walks, Quiet
<1>4. TypeOK'
  BY <1>0, <1>1, <1>3, Zenon DEF TypeOK, Walk
<1> QED BY <1>2, <1>3, <1>4, Zenon DEF Inv, Counts

-----------------------------------------------------------------------------
(* Withdrawals.                                                            *)

\* A request begins.
LEMMA Begun ==
  ASSUME TypeOK, NEW r \in Req, NEW new \in Control, Begin(r, new)
  PROVE  /\ req' \in [Req -> Control] /\ req'[r] = new /\ req[r] = Idle
         /\ \A s \in Req : s # r => req'[s] = req[s]
BY Zenon DEF TypeOK, Begin

\* A right is withdrawn by a request, or lapses: the queues stay as they are, and
\* the connections that lost it are matched by the request or have lapsed.
LEMMA WithdrawInv ==
  ASSUME Inv, UNCHANGED <<conn, registered, cancelled, missed, userConns, queue, writes, invites>>,
         valid' \subseteq valid, lapsed' \subseteq Token \ valid', lapsed \subseteq lapsed',
         access' \subseteq access, req' \in [Req -> Control],
         \A s \in Req : req[s] # Idle => req'[s] = req[s],
         \A c \in Conn : conn[c].at \in Going /\ Authorised(c) /\ ~Authorised(c)' =>
           \/ conn[c].token \in lapsed'
           \/ \E s \in Req : req'[s] # Idle /\ Matches(req'[s], c)
  PROVE  Inv'
<1>0. TypeOK /\ Counts /\ QueuesOK /\ WithdrawalReachesLive
  BY Zenon DEF Inv, Counts
<1>1. TypeOK'
  BY <1>0, Zenon DEF TypeOK
<1>2. Counts'
  BY <1>0, StillCounts, Zenon
<1>3. \A c \in Conn : Authorised(c)' => Authorised(c)
  BY Zenon DEF Authorised, UserOf
<1>4. QueuesOK'
  BY <1>0, <1>3, QueueKept, Zenon DEF QueuesOK
<1>5. ASSUME NEW c \in Conn PROVE Reached(c)'
  <2>1. Reached(c)
    BY <1>0, ReachIs, Zenon
  <2>2. \A s \in Req : Matches(req[s], c)' <=> Matches(req'[s], c)
    BY Zenon DEF Matches, UserOf
  <2>3. (\E s \in Req : req[s] # Idle /\ Matches(req[s], c))
          => \E s \in Req : req'[s] # Idle /\ Matches(req'[s], c)
    <3> SUFFICES ASSUME NEW s \in Req, req[s] # Idle, Matches(req[s], c)
                 PROVE  req'[s] # Idle /\ Matches(req'[s], c)
      OBVIOUS
    <3>1. req'[s] = req[s]
      OBVIOUS
    <3> QED BY <3>1, Zenon
  <2>4. conn'[c] = conn[c] /\ cancelled' = cancelled /\ missed' = missed
    OBVIOUS
  <2> SUFFICES ASSUME conn[c].at \in Going, ~Authorised(c)', conn[c].token \notin lapsed'
               PROVE  \/ c \in cancelled \cup missed
                      \/ \E s \in Req : req'[s] # Idle /\ Matches(req'[s], c)
    BY <2>2, <2>4, Zenon DEF Reached
  <2>5. CASE Authorised(c)
    BY <2>5, Zenon
  <2>6. CASE ~Authorised(c)
    BY <2>1, <2>3, <2>6, Zenon DEF Reached
  <2> QED BY <2>5, <2>6, Zenon
<1>6. WithdrawalReachesLive'
  BY <1>5, Zenon DEF WithdrawalReachesLive, Reached, Going
<1> QED BY <1>1, <1>2, <1>4, <1>6, Zenon DEF Inv, Counts

LEMMA SignoutInv == ASSUME Inv, NEW r \in Req, NEW t \in Token, Signout(r, t) PROVE Inv'
<1> DEFINE new == [kind |-> "signout", token |-> t]
<1>0. TypeOK
  BY Zenon DEF Inv
<1>1. /\ valid' = valid \ {t} /\ Begin(r, new)
      /\ UNCHANGED <<lapsed, access, conn, registered, cancelled, missed, userConns, queue, writes,
                     invites>>
  BY Zenon DEF Signout, live, handles
<1>2. new \in Control /\ new # Idle /\ new.kind = "signout" /\ new.token = t
  BY Zenon DEF Control, Idle
<1> HIDE DEF new
<1>3. /\ req' \in [Req -> Control] /\ req'[r] = new /\ req[r] = Idle
      /\ \A s \in Req : s # r => req'[s] = req[s]
  BY <1>0, <1>1, <1>2, Begun, Zenon
<1>4. valid' \subseteq valid /\ lapsed' \subseteq Token \ valid' /\ lapsed \subseteq lapsed'
  BY <1>0, <1>1, Zenon DEF TypeOK
<1>5. ASSUME NEW c \in Conn, Authorised(c), ~Authorised(c)'
      PROVE  \E s \in Req : req'[s] # Idle /\ Matches(req'[s], c)
  <2>1. conn[c].token = t
    BY <1>1, <1>5, Zenon DEF Authorised, UserOf
  <2> QED BY <1>2, <1>3, <2>1, Zenon DEF Matches
<1> QED BY <1>1, <1>3, <1>4, <1>5, WithdrawInv, Zenon

LEMMA RemoveInv ==
  ASSUME Inv, NEW r \in Req, NEW u \in User, NEW v \in Vault, ShareRemove(r, u, v)
  PROVE  Inv'
<1> DEFINE new == [kind |-> "remove", user |-> u, vault |-> v]
<1>0. TypeOK
  BY Zenon DEF Inv
<1>1. /\ access' = access \ {<<u, v>>} /\ Begin(r, new)
      /\ UNCHANGED <<valid, lapsed, conn, registered, cancelled, missed, userConns, queue, writes,
                     invites>>
  BY Zenon DEF ShareRemove, live, handles
<1>2. new \in Control /\ new # Idle /\ new.kind = "remove" /\ new.user = u /\ new.vault = v
  BY Zenon DEF Control, Idle
<1> HIDE DEF new
<1>3. /\ req' \in [Req -> Control] /\ req'[r] = new /\ req[r] = Idle
      /\ \A s \in Req : s # r => req'[s] = req[s]
  BY <1>0, <1>1, <1>2, Begun, Zenon
<1>4. /\ valid' \subseteq valid /\ lapsed' \subseteq Token \ valid' /\ lapsed \subseteq lapsed'
      /\ access' \subseteq access
  BY <1>0, <1>1, Zenon DEF TypeOK
<1>5. ASSUME NEW c \in Conn, Authorised(c), ~Authorised(c)'
      PROVE  \E s \in Req : req'[s] # Idle /\ Matches(req'[s], c)
  <2>1. <<UserOf(c), conn[c].vault>> = <<u, v>>
    BY <1>1, <1>5, Zenon DEF Authorised, UserOf
  <2>2. UserOf(c) = u /\ conn[c].vault = v
    BY <2>1, Zenon
  <2> QED BY <1>2, <1>3, <2>2, Zenon DEF Matches
<1> QED BY <1>1, <1>3, <1>4, <1>5, WithdrawInv, Zenon

LEMMA DeleteInv == ASSUME Inv, NEW r \in Req, NEW v \in Vault, DeleteVault(r, v) PROVE Inv'
<1> DEFINE new == [kind |-> "delete", vault |-> v]
<1>0. TypeOK
  BY Zenon DEF Inv
<1>1. /\ access' = {a \in access : a[2] # v} /\ Begin(r, new)
      /\ UNCHANGED <<valid, lapsed, conn, registered, cancelled, missed, userConns, queue, writes,
                     invites>>
  BY Zenon DEF DeleteVault, live, handles
<1>2. new \in Control /\ new # Idle /\ new.kind = "delete" /\ new.vault = v
  BY Zenon DEF Control, Idle
<1> HIDE DEF new
<1>3. /\ req' \in [Req -> Control] /\ req'[r] = new /\ req[r] = Idle
      /\ \A s \in Req : s # r => req'[s] = req[s]
  BY <1>0, <1>1, <1>2, Begun, Zenon
<1>4. /\ valid' \subseteq valid /\ lapsed' \subseteq Token \ valid' /\ lapsed \subseteq lapsed'
      /\ access' \subseteq access
  BY <1>0, <1>1, Zenon DEF TypeOK
<1>5. ASSUME NEW c \in Conn, Authorised(c), ~Authorised(c)'
      PROVE  \E s \in Req : req'[s] # Idle /\ Matches(req'[s], c)
  <2>1. conn[c].vault = v
    BY <1>1, <1>5, Zenon DEF Authorised, UserOf
  <2> QED BY <1>2, <1>3, <2>1, Zenon DEF Matches
<1> QED BY <1>1, <1>3, <1>4, <1>5, WithdrawInv, Zenon

LEMMA LapseInv == ASSUME Inv, NEW t \in Token, Lapse(t) PROVE Inv'
<1>0. TypeOK
  BY Zenon DEF Inv
<1>1. /\ valid' = valid \ {t} /\ lapsed' = lapsed \cup {t}
      /\ UNCHANGED <<access, conn, registered, cancelled, missed, userConns, queue, req, writes,
                     invites>>
  BY Zenon DEF Lapse, live, handles
<1>2. /\ valid' \subseteq valid /\ lapsed' \subseteq Token \ valid' /\ lapsed \subseteq lapsed'
      /\ access' \subseteq access /\ req' \in [Req -> Control]
  BY <1>0, <1>1, Zenon DEF TypeOK
<1>3. ASSUME NEW c \in Conn, Authorised(c), ~Authorised(c)' PROVE conn[c].token \in lapsed'
  BY <1>1, <1>3, Zenon DEF Authorised, UserOf
<1> QED BY <1>1, <1>2, <1>3, WithdrawInv, Zenon

\* A request answers, or is dropped: what it matched is marked.
LEMMA AnswerReaches ==
  ASSUME Inv, NEW r \in Req, req[r] # Idle, req' = [req EXCEPT ![r] = Idle],
         UNCHANGED <<valid, lapsed, access, conn, registered>>,
         cancelled' \cup missed' = cancelled \cup missed \cup {c \in registered : Matches(req[r], c)}
  PROVE  WithdrawalReachesLive' /\ req' \in [Req -> Control]
<1>0. TypeOK /\ WithdrawalReachesLive /\ EveryoneHasHandle
  BY Zenon DEF Inv
<1>1. req \in [Req -> Control] /\ Idle \in Control
  BY <1>0, Zenon DEF TypeOK, Control
<1>2. /\ req' \in [Req -> Control] /\ \A s \in Req : s # r => req'[s] = req[s]
  BY <1>1, Zenon
<1>3. ASSUME NEW c \in Conn PROVE Reached(c)'
  <2>1. Reached(c)
    BY <1>0, ReachIs, Zenon
  <2>2. \A s \in Req : Matches(req[s], c)' <=> Matches(req'[s], c)
    BY Zenon DEF Matches, UserOf
  <2>3. Authorised(c)' <=> Authorised(c)
    BY Zenon DEF Authorised, UserOf
  <2> SUFFICES ASSUME conn[c].at \in Going, ~Authorised(c), conn[c].token \notin lapsed
               PROVE  \/ c \in cancelled' \cup missed'
                      \/ \E s \in Req : req'[s] # Idle /\ Matches(req'[s], c)
    BY <2>2, <2>3, Zenon DEF Reached
  <2>4. c \in registered
    BY <1>0, ServingPlaces, Zenon DEF EveryoneHasHandle, Going, Served
  <2>5. CASE c \in cancelled \cup missed
    BY <2>5, Zenon
  <2>6. ASSUME NEW s \in Req, req[s] # Idle, Matches(req[s], c)
        PROVE  \/ c \in cancelled' \cup missed'
               \/ \E q \in Req : req'[q] # Idle /\ Matches(req'[q], c)
    <3>1. CASE s = r
      BY <2>4, <2>6, <3>1, Zenon
    <3>2. CASE s # r
      <4>1. req'[s] = req[s]
        BY <1>2, <3>2, Zenon
      <4> QED BY <2>6, <4>1, Zenon
    <3> QED BY <3>1, <3>2, Zenon
  <2> QED BY <2>1, <2>5, <2>6, Zenon DEF Reached
<1>4. WithdrawalReachesLive'
  BY <1>3, Zenon DEF WithdrawalReachesLive, Reached, Going
<1> QED BY <1>2, <1>4, Zenon

\* A deletion tells the subscribers of its vault, as well as their handles.
LEMMA CancelQueues ==
  ASSUME TypeOK, QueuesOK, NEW r \in Req, Cancel(r)
  PROVE  QueuesOK' /\ queue' \in [Conn -> Seq({"seen", "late", "gone"})]
<1>1. UNCHANGED <<valid, lapsed, access, conn>>
  BY Zenon DEF Cancel, rights
<1>2. \A d \in Conn : Authorised(d)' <=> Authorised(d)
  BY <1>1, Zenon DEF Authorised, UserOf
<1>3. CASE queue' = queue
  BY <1>1, <1>2, <1>3, QueueKept, Zenon DEF QueuesOK, TypeOK
<1>4. CASE queue' = [d \in Conn |-> IF d \in Subscribers(req[r].vault)
                                    THEN Append(queue[d], "gone") ELSE queue[d]]
  <2>1. ASSUME NEW d \in Conn PROVE QueueOK(d)' /\ queue'[d] \in Seq({"seen", "late", "gone"})
    <3>1. QueueOK(d) /\ queue[d] \in Seq({"seen", "late", "gone"}) /\ conn'[d] = conn[d]
      BY <1>1, Zenon DEF QueuesOK, TypeOK
    <3>2. CASE d \in Subscribers(req[r].vault)
      <4>1. queue'[d] = Append(queue[d], "gone")
        BY <1>4, <3>2, Zenon
      <4>2. conn[d].at \in Served \ {"registered"}
        BY <3>2, Zenon DEF Subscribers, Subscribed, Served
      <4> QED BY <1>2, <3>1, <4>1, <4>2, QueueAppended, Zenon
    <3>3. CASE d \notin Subscribers(req[r].vault)
      <4>1. queue'[d] = queue[d]
        BY <1>4, <3>3, Zenon
      <4> QED BY <1>2, <3>1, <4>1, QueueKept, Zenon
    <3> QED BY <3>2, <3>3, Zenon
  <2>2. queue' = [d \in Conn |-> queue'[d]]
    BY <1>4, Zenon
  <2> QED BY <2>1, <2>2, Zenon DEF QueuesOK
<1> QED BY <1>3, <1>4, Zenon DEF Cancel, Published

LEMMA CancelInv == ASSUME Inv, NEW r \in Req, Cancel(r) PROVE Inv'
<1>0. TypeOK /\ Counts /\ QueuesOK
  BY Zenon DEF Inv, Counts
<1>1. /\ req[r] # Idle /\ req' = [req EXCEPT ![r] = Idle]
      /\ cancelled' = cancelled \cup {c \in registered : Matches(req[r], c)}
      /\ UNCHANGED <<valid, lapsed, access, conn, registered, missed, userConns, writes, invites>>
  BY Zenon DEF Cancel, rights
<1>2. WithdrawalReachesLive' /\ req' \in [Req -> Control]
  <2>1. cancelled' \cup missed' = cancelled \cup missed \cup {c \in registered : Matches(req[r], c)}
    BY <1>1, Zenon
  <2> QED BY <1>1, <2>1, AnswerReaches, Zenon
<1>3. QueuesOK' /\ queue' \in [Conn -> Seq({"seen", "late", "gone"})]
  BY <1>0, CancelQueues, Zenon
<1>4. Counts'
  BY <1>0, <1>1, StillCounts, Zenon
<1>5. TypeOK'
  BY <1>0, <1>1, <1>2, <1>3, Zenon DEF TypeOK
<1> QED BY <1>2, <1>3, <1>4, <1>5, Zenon DEF Inv, Counts

LEMMA DroppedRequestInv == ASSUME Inv, NEW r \in Req, DropRequest(r) PROVE Inv'
<1>0. TypeOK /\ Counts /\ QueuesOK
  BY Zenon DEF Inv, Counts
<1>1. /\ req[r] # Idle /\ req' = [req EXCEPT ![r] = Idle]
      /\ missed' = missed \cup {c \in registered : Matches(req[r], c)}
      /\ UNCHANGED <<valid, lapsed, access, conn, registered, cancelled, userConns, queue, writes,
                     invites>>
  BY Zenon DEF DropRequest, rights
<1>2. WithdrawalReachesLive' /\ req' \in [Req -> Control]
  <2>1. cancelled' \cup missed' = cancelled \cup missed \cup {c \in registered : Matches(req[r], c)}
    BY <1>1, Zenon
  <2> QED BY <1>1, <2>1, AnswerReaches, Zenon
<1>3. QueuesOK'
  <2>1. \A d \in Conn : Authorised(d)' <=> Authorised(d)
    BY <1>1, Zenon DEF Authorised, UserOf
  <2> QED BY <1>0, <1>1, <2>1, QueueKept, Zenon DEF QueuesOK
<1>4. Counts'
  BY <1>0, <1>1, StillCounts, Zenon
<1>5. TypeOK'
  BY <1>0, <1>1, <1>2, Zenon DEF TypeOK
<1> QED BY <1>2, <1>3, <1>4, <1>5, Zenon DEF Inv, Counts

-----------------------------------------------------------------------------
(* Invitations.                                                            *)

\* The marks of a queue are taken off.
Unmarked(q) == [i \in DOMAIN q |-> IF q[i] = "late" THEN "seen" ELSE q[i]]

LEMMA UnmarkedFacts ==
  ASSUME NEW q \in Seq({"seen", "late", "gone"})
  PROVE  /\ Unmarked(q) \in Seq({"seen", "late", "gone"})
         /\ \A i \in 1..Len(Unmarked(q)) : Unmarked(q)[i] # "late"
         /\ q = <<>> => Unmarked(q) = <<>>
         /\ q # <<>> => Unmarked(q) # <<>> /\ Head(Unmarked(q)) # "late"
<1>1. DOMAIN q = 1..Len(q) /\ Len(q) \in Nat
  OBVIOUS
<1>2. \A i \in 1..Len(q) : q[i] \in {"seen", "late", "gone"}
  OBVIOUS
<1> DEFINE n == Unmarked(q)
<1>3. n = [i \in 1..Len(q) |-> IF q[i] = "late" THEN "seen" ELSE q[i]]
  BY <1>1, Zenon DEF Unmarked
<1>4. \A i \in 1..Len(q) : n[i] \in {"seen", "gone"}
  BY <1>2, <1>3, Zenon
<1> HIDE DEF n
<1>5. n \in Seq({"seen", "late", "gone"}) /\ Len(n) = Len(q)
  <2>1. n \in [1..Len(q) -> {"seen", "late", "gone"}]
    BY <1>3, <1>4, Zenon
  <2> QED BY <1>1, <2>1
<1>6. \A i \in 1..Len(n) : n[i] # "late"
  BY <1>4, <1>5, Zenon
<1>7. q # <<>> => n # <<>> /\ Head(n) # "late"
  <2> SUFFICES ASSUME q # <<>> PROVE n # <<>> /\ Head(n) # "late"
    OBVIOUS
  <2>1. Len(q) >= 1 /\ Len(n) >= 1
    BY <1>5
  <2>2. n # <<>> /\ Head(n) = n[1]
    BY <1>5, <2>1
  <2> QED BY <1>6, <2>1, <2>2
<1>8. q = <<>> => n = <<>>
  BY <1>5
<1> QED BY <1>5, <1>6, <1>7, <1>8, Zenon DEF n

LEMMA InviteInv == ASSUME Inv, NEW u \in User, NEW v \in Vault, ShareInvite(u, v) PROVE Inv'
<1> DEFINE Told(c) == /\ conn[c].at \notin {"closed", "open", "dropped"}
                      /\ UserOf(c) = u /\ conn[c].vault = v
<1>0. TypeOK /\ Counts /\ QueuesOK /\ WithdrawalReachesLive
  BY Zenon DEF Inv, Counts
<1>1. /\ access' = access \cup {<<u, v>>} /\ invites < MaxInvites /\ invites' = invites + 1
      /\ queue' = [c \in Conn |-> IF Told(c) THEN Unmarked(queue[c]) ELSE queue[c]]
      /\ UNCHANGED <<valid, lapsed, conn, registered, cancelled, missed, userConns, req, writes>>
  BY Zenon DEF ShareInvite, handles, Unmarked
<1>2. \A c \in Conn : queue[c] \in Seq({"seen", "late", "gone"}) /\ QueueOK(c)
  BY <1>0, Zenon DEF TypeOK, QueuesOK
<1>3. ASSUME NEW c \in Conn PROVE QueueOK(c)' /\ queue'[c] \in Seq({"seen", "late", "gone"})
  <2>1. CASE Told(c)
    <3>1. queue'[c] = Unmarked(queue[c])
      BY <1>1, <2>1, Zenon
    <3>2. /\ queue'[c] \in Seq({"seen", "late", "gone"})
          /\ \A i \in 1..Len(queue'[c]) : queue'[c][i] # "late"
          /\ queue[c] = <<>> => queue'[c] = <<>>
          /\ queue[c] # <<>> => queue'[c] # <<>> /\ Head(queue'[c]) # "late"
      BY <1>2, <3>1, UnmarkedFacts, Zenon
    <3>3. conn'[c] = conn[c]
      BY <1>1, Zenon
    <3> QED BY <1>2, <3>2, <3>3, Zenon DEF QueueOK
  <2>2. CASE ~Told(c)
    <3>1. queue'[c] = queue[c] /\ conn'[c] = conn[c]
      BY <1>1, <2>2, Zenon
    <3>2. conn[c].at \in {"closed", "open", "dropped"} \/ (Authorised(c)' => Authorised(c))
      BY <1>1, <2>2, Zenon DEF Authorised, UserOf
    <3>3. CASE conn[c].at \in {"closed", "open", "dropped"}
      BY <1>2, <3>1, <3>3, Zenon DEF QueueOK, Subscribed
    <3>4. CASE Authorised(c)' => Authorised(c)
      BY <1>2, <3>1, <3>4, QueueKept, Zenon
    <3> QED BY <3>2, <3>3, <3>4, Zenon
  <2> QED BY <2>1, <2>2, Zenon
<1>4. QueuesOK' /\ queue' \in [Conn -> Seq({"seen", "late", "gone"})]
  <2>1. queue' = [c \in Conn |-> queue'[c]]
    BY <1>1, Zenon
  <2> QED BY <1>3, <2>1, Zenon DEF QueuesOK
<1>5. WithdrawalReachesLive'
  <2> SUFFICES ASSUME NEW c \in Conn PROVE Reached(c)'
    BY Zenon DEF WithdrawalReachesLive, Reached, Going
  <2>1. Reached(c)
    BY <1>0, ReachIs, Zenon
  <2>2. Authorised(c) => Authorised(c)'
    BY <1>1, Zenon DEF Authorised, UserOf
  <2>3. \A r \in Req : Matches(req[r], c)' <=> Matches(req[r], c)
    BY <1>1, Zenon DEF Matches, UserOf
  <2> QED BY <1>1, <2>1, <2>2, <2>3, Zenon DEF Reached
<1>6. Counts'
  BY <1>0, <1>1, StillCounts, Zenon
<1>7. TypeOK'
  <2>1. invites' \in 0..MaxInvites
    BY <1>0, <1>1, RevocationAssumption DEF TypeOK
  <2> QED BY <1>0, <1>1, <1>4, <2>1 DEF TypeOK
<1> QED BY <1>4, <1>5, <1>6, <1>7, Zenon DEF Inv, Counts

-----------------------------------------------------------------------------
(* The invariant.                                                          *)

LEMMA InitInv == ASSUME Init PROVE Inv
<1>1. \A c \in Conn : conn[c].at = "closed" /\ queue[c] = <<>>
  BY Zenon DEF Init, Closed
<1>2. TypeOK
  <2>1. /\ Closed \in Connection /\ Idle \in Control /\ <<>> \in Seq({"seen", "late", "gone"})
        /\ \A v \in Vault : Owner[v] \in User
    BY RevocationAssumption DEF Closed, Connection, Control
  <2>2. conn \in [Conn -> Connection] /\ req \in [Req -> Control]
    BY <2>1, Zenon DEF Init
  <2>3. userConns \in [User -> Nat] /\ queue \in [Conn -> Seq({"seen", "late", "gone"})]
    BY <2>1, Zenon DEF Init
  <2>4. access \subseteq User \X Vault
    BY <2>1 DEF Init
  <2>5. writes \in Nat /\ invites \in 0..MaxInvites
    BY RevocationAssumption DEF Init
  <2> QED BY <2>2, <2>3, <2>4, <2>5, Zenon DEF Init, TypeOK
<1>3. Permits = {} /\ \A u : Admitted(u) = {}
  BY <1>1, Zenon DEF Permits, Admitted, Authenticated, Serving, Subscribed, At
<1>4. Cardinality({}) = 0
  BY FS_EmptySet, Zenon
<1>5. PermitsBounded
  BY <1>3, <1>4, RevocationAssumption DEF PermitsBounded
<1>6. UserPermitsExact
  <2>1. \A u \in User : userConns[u] = 0
    BY Zenon DEF Init
  <2> QED BY <1>3, <1>4, <2>1, Zenon DEF UserPermitsExact, Admitted
<1>7. EveryoneHasHandle
  BY <1>1, Zenon DEF EveryoneHasHandle, Serving, Subscribed, At
<1>8. HandlesAreLive
  BY Zenon DEF Init, HandlesAreLive
<1>9. QueuesOK
  BY <1>1, Zenon DEF QueuesOK, QueueOK, Subscribed
<1>10. WithdrawalReachesLive
  BY <1>1, Zenon DEF WithdrawalReachesLive
<1> QED BY <1>2, <1>5, <1>6, <1>7, <1>8, <1>9, <1>10, Zenon DEF Inv

LEMMA NextInv == ASSUME Inv, [Next]_vars PROVE Inv'
<1>1. ASSUME NEW c \in Conn, Own(c) \/ Upgrade(c) \/ BeginWrite(c) \/ Leave(c) PROVE Inv'
  <2>1. Edges(c) \/ Walks(c)
    BY <1>1, Zenon DEF Own, Edges, Walks
  <2> QED BY <2>1, EdgeInv, WalkInv, Zenon
<1>2. ASSUME NEW c \in Conn, NEW t \in Token, NEW v \in Vault, ReadAuthorisation(c, t, v) PROVE Inv'
  <2>1. Edges(c)
    BY <1>2, Zenon DEF Edges
  <2> QED BY <2>1, EdgeInv, Zenon
<1>3. CASE UNCHANGED vars
  <2>1. UNCHANGED <<valid, lapsed, access, conn, registered, cancelled, missed, userConns, queue,
                    req, writes, invites>>
    BY <1>3, Zenon DEF vars, rights, live, handles
  <2>2. \A c \in Conn : Authorised(c)' <=> Authorised(c)
    BY <2>1, Zenon DEF Authorised, UserOf
  <2>3. TypeOK
    BY Zenon DEF Inv
  <2>4. lapsed' \subseteq Token \ valid' /\ req' \in [Req -> Control]
    BY <2>1, <2>3, Zenon DEF TypeOK
  <2> QED BY <2>1, <2>2, <2>4, WithdrawInv, Zenon
<1> QED BY <1>1, <1>2, <1>3, SignoutInv, RemoveInv, DeleteInv, LapseInv, CancelInv,
           DroppedRequestInv, InviteInv DEF Next

LEMMA Always == Spec => []Inv
<1>1. Init => Inv
  BY InitInv, Zenon
<1>2. Inv /\ [Next]_vars => Inv'
  BY NextInv, Zenon
<1> QED BY <1>1, <1>2, PTL DEF Spec

-----------------------------------------------------------------------------
(* The theorems.                                                           *)

\* Every step of a connection and of a control request keeps the types of the
\* registry, the counters and the queues.
THEOREM TypeCorrect == Spec => []TypeOK
<1>1. Inv => TypeOK
  BY Zenon DEF Inv
<1> QED BY <1>1, Always, PTL

\* Whoever serves has a cancellation handle: the registry, as large as the pool
\* of permits, is never full when LiveRegistry::register is called.
THEOREM HandlesForAll == Spec => []EveryoneHasHandle
<1>1. Inv => EveryoneHasHandle
  BY Zenon DEF Inv
<1> QED BY <1>1, Always, PTL

\* UserConcurrency counts the admitted connections of every user, and none twice.
THEOREM PermitsAreExact == Spec => []UserPermitsExact
<1>1. Inv => UserPermitsExact
  BY Zenon DEF Inv
<1> QED BY <1>1, Always, PTL

\* What is committed after a withdrawal is not sent to the connections that lost
\* their right, whatever stood in their queues and whatever they had checked.
THEOREM WithdrawnReceiveNothing == Spec => []NoDeliveryAfterWithdrawal
<1>1. Inv => NoDeliveryAfterWithdrawal
  BY Zenon DEF Inv, QueuesOK, QueueOK, NoDeliveryAfterWithdrawal
<1> QED BY <1>1, Always, PTL

\* A live connection without authorisation is cancelled, or about to be, or was
\* in reach of a request that was dropped: no order of reading, registration,
\* commit and cancellation leaves one out.
THEOREM WithdrawalsReach == Spec => []WithdrawalReachesLive
<1>1. Inv => WithdrawalReachesLive
  BY Zenon DEF Inv
<1> QED BY <1>1, Always, PTL

\* A step that commits a revision finds its connection authorised at the commit,
\* not only at the message.
THEOREM WithdrawnWriteNothing == Spec => NoWriteAfterWithdrawal
<1> DEFINE Allowed == \A c \in Conn : writes' # writes /\ At(c, "writing")
                        /\ ~(conn'[c].at = "writing") => Authorised(c)
<1>1. ASSUME Inv, NEW d \in Conn, Walks(d) PROVE Allowed
  <2>1. Walk(d) /\ TypeOK /\ QueuesOK
    BY <1>1, WalkIs, Zenon DEF Inv
  <2>2. CASE Authorised(d)
    <3>1. \A c \in Conn : c # d => conn'[c] = conn[c]
      BY <2>1, Zenon DEF Walk
    <3> QED BY <2>2, <3>1, Zenon DEF At
  <2>3. CASE ~Authorised(d)
    <3>1. writes' = writes
      BY <1>1, <2>1, <2>3, QuietQueues, BoundaryQueues, SendQueues, Zenon DEF Walks, Quiet
    <3> QED BY <3>1, Zenon
  <2> QED BY <2>2, <2>3, Zenon
<1>2. ASSUME Inv, NEW d \in Conn, Edges(d) PROVE Allowed
  BY <1>2, Zenon
     DEF Edges, Upgrade, ReadAuthorisation, Admit, Register, DropSession, ReleasePermit, Leave
<1>3. ASSUME Inv, [Next]_vars PROVE [Allowed]_vars
  <2>1. ASSUME NEW d \in Conn, Own(d) \/ Upgrade(d) \/ BeginWrite(d) \/ Leave(d) PROVE Allowed
    <3>1. Edges(d) \/ Walks(d)
      BY <2>1, Zenon DEF Own, Edges, Walks
    <3> QED BY <1>1, <1>2, <1>3, <3>1, Zenon
  <2>2. ASSUME NEW d \in Conn, NEW t \in Token, NEW v \in Vault, ReadAuthorisation(d, t, v)
        PROVE  Allowed
    BY <2>2, Zenon DEF ReadAuthorisation
  <2>3. CASE UNCHANGED vars
    BY <2>3, Zenon
  <2>4. ASSUME \/ \E r \in Req, t \in Token : Signout(r, t)
               \/ \E r \in Req, u \in User, v \in Vault : ShareRemove(r, u, v)
               \/ \E r \in Req, v \in Vault : DeleteVault(r, v)
               \/ \E r \in Req : Cancel(r) \/ DropRequest(r)
               \/ \E u \in User, v \in Vault : ShareInvite(u, v)
               \/ \E t \in Token : Lapse(t)
        PROVE  Allowed
    BY <2>4, Zenon DEF Signout, ShareRemove, DeleteVault, Cancel, DropRequest, ShareInvite, Lapse
  <2> HIDE DEF Allowed
  <2> QED BY <1>3, <2>1, <2>2, <2>3, <2>4, Zenon DEF Next
<1>4. Inv /\ [Next]_vars => [Allowed]_vars
  BY <1>3, Zenon
<1> QED BY <1>4, Always, PTL DEF Spec, NoWriteAfterWithdrawal
=============================================================================
