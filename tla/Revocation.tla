------------------------------ MODULE Revocation ------------------------------
(***************************************************************************)
(* Live connections and the withdrawal of their authorisation              *)
(* (apps/server-rust/src/server.rs, admin.rs).  A connection reads its     *)
(* authorisation, registers a cancellation handle, sets its replay         *)
(* boundary and serves; each of these is a step.  A control request        *)
(* commits a withdrawal in one step and cancels the matching connections   *)
(* in another, and may be dropped between the two when its client goes.    *)
(***************************************************************************)
EXTENDS Naturals, Sequences, FiniteSets

CONSTANTS
  User, Vault, Token, Conn, Req,
  Owner,        \* [Vault -> User]
  TokenUser,    \* [Token -> User]
  MaxConn,      \* max_ws_connections, also the size of the registry
  MaxPerUser,   \* max_ws_connections_per_user
  MaxWrites,    \* bound: committed revisions
  MaxInvites    \* bound: invitations

ASSUME RevocationAssumption ==
  /\ IsFiniteSet(Conn) /\ Owner \in [Vault -> User] /\ TokenUser \in [Token -> User]
  /\ MaxConn \in Nat /\ MaxPerUser \in Nat /\ MaxWrites \in Nat /\ MaxInvites \in Nat

VARIABLES
  valid,      \* sessions neither expired nor revoked
  lapsed,     \* sessions ended by time or by revoke-all-sessions
  access,     \* owners and active members of the existing vaults
  conn,       \* where each connection stands
  registered, \* LiveRegistry: connections with a cancellation handle
  cancelled,  \* handles that were sent true
  missed,     \* history: handles a dropped request would have sent true
  userConns,  \* UserConcurrency: authenticated connections by user
  queue,      \* events a connection has yet to receive
  req,        \* control requests between their commit and their answer
  writes, invites

rights == <<valid, lapsed, access>>
handles == <<registered, cancelled, missed>>
live   == <<conn, handles, userConns, queue>>
vars   == <<rights, live, req, writes, invites>>

Closed == [at |-> "closed"]
Idle   == [kind |-> "idle"]

At(c, place)   == conn[c].at = place
Goto(c, place) == conn' = [conn EXCEPT ![c].at = place]

\* A connection in one of these places has subscribed, or was admitted by init.
Subscribed(c)    == conn[c].at \in {"replaying", "resending", "replayed",
                                    "live", "sending", "writing"}
Serving(c)       == Subscribed(c) \/ At(c, "registered")
Authenticated(c) == Serving(c) \/ At(c, "admitted") \/ At(c, "closing")
UserOf(c)        == TokenUser[conn[c].token]

\* valid_session_for_vault
Authorised(c) == conn[c].token \in valid /\ <<UserOf(c), conn[c].vault>> \in access

\* The mutex that orders commits: a deletion holds it until it has answered.
CommitOrderFree == \A r \in Req : req[r].kind # "delete"

Init ==
  /\ valid = Token /\ lapsed = {} /\ access = {<<Owner[v], v>> : v \in Vault}
  /\ conn = [c \in Conn |-> Closed] /\ registered = {} /\ cancelled = {} /\ missed = {}
  /\ userConns = [u \in User |-> 0] /\ queue = [c \in Conn |-> <<>>]
  /\ req = [r \in Req |-> Idle] /\ writes = 0 /\ invites = 0

-----------------------------------------------------------------------------
(* Connections.                                                            *)

\* upgrade takes a connection permit.
Upgrade(c) ==
  /\ At(c, "closed") /\ Cardinality({d \in Conn : ~At(d, "closed")}) < MaxConn
  /\ Goto(c, "open")
  /\ UNCHANGED <<rights, handles, userConns, queue, req, writes, invites>>

\* init: the first reading of the session and the vault.
ReadAuthorisation(c, t, v) ==
  /\ At(c, "open") /\ t \in valid /\ <<TokenUser[t], v>> \in access
  /\ conn' = [conn EXCEPT ![c] = [at |-> "read", token |-> t, vault |-> v]]
  /\ UNCHANGED <<rights, handles, userConns, queue, req, writes, invites>>

\* init: renew_session_for_vault, then the permit of the user; a refusal leaves
\* the connection open or closes it.
Admit(c) ==
  /\ At(c, "read")
  /\ IF ~Authorised(c) THEN conn' = [conn EXCEPT ![c] = [at |-> "open"]] /\ UNCHANGED userConns
     ELSE IF userConns[UserOf(c)] >= MaxPerUser THEN Goto(c, "dropped") /\ UNCHANGED userConns
     ELSE /\ Goto(c, "admitted")
          /\ userConns' = [userConns EXCEPT ![UserOf(c)] = @ + 1]
  /\ UNCHANGED <<rights, handles, queue, req, writes, invites>>

\* LiveRegistry::register; a full registry gives no handle.
Register(c) ==
  /\ At(c, "admitted") /\ Goto(c, "registered")
  /\ registered' = IF Cardinality(registered) < MaxConn THEN registered \cup {c} ELSE registered
  /\ UNCHANGED <<rights, cancelled, missed, userConns, queue, req, writes, invites>>

\* Within commit_order: the boundary of the replay, and the subscription.  What
\* is to be replayed, if anything, stands in the queue as one event.
SetBoundary(c, some) ==
  /\ At(c, "registered") /\ CommitOrderFree
  /\ Goto(c, IF some THEN "replaying" ELSE "replayed")
  /\ queue' = [queue EXCEPT ![c] =
       IF some THEN <<IF Authorised(c) THEN "seen" ELSE "late">> ELSE <<>>]
  /\ UNCHANGED <<rights, handles, userConns, req, writes, invites>>

Close(c) == Goto(c, "closing") /\ UNCHANGED <<rights, handles, userConns, queue>>

\* Goes on if the session is still active, else closes.
IfActive(c, place) ==
  IF Authorised(c)
  THEN Goto(c, place) /\ UNCHANGED <<rights, handles, userConns, queue>>
  ELSE Close(c)

\* Faulty: init answers ready without looking at the session again.
EndReplay_Unchecked(c) ==
  /\ At(c, "replayed") /\ Goto(c, "live")
  /\ UNCHANGED <<rights, handles, userConns, queue, req, writes, invites>>

\* init: the check before `ready`.
EndReplay(c) ==
  At(c, "replayed") /\ IfActive(c, "live") /\ UNCHANGED <<req, writes, invites>>

\* init: the check before a revision of a page.
Replay(c) ==
  At(c, "replaying") /\ IfActive(c, "resending") /\ UNCHANGED <<req, writes, invites>>

\* Faulty: an event is sent without a check of the session.
Receive_Unchecked(c) ==
  /\ At(c, "live") /\ queue[c] # <<>> /\ c \notin cancelled
  /\ IF Head(queue[c]) = "gone" THEN Close(c)
     ELSE Goto(c, "sending") /\ UNCHANGED <<rights, handles, userConns, queue>>
  /\ UNCHANGED <<req, writes, invites>>

\* An event of the live loop closes the connection or is sent in a later step.
Receive(c) ==
  /\ At(c, "live") /\ queue[c] # <<>> /\ c \notin cancelled
  /\ IF Head(queue[c]) = "gone" THEN Close(c) ELSE IfActive(c, "sending")
  /\ UNCHANGED <<req, writes, invites>>

Send(c) ==
  /\ \/ At(c, "sending") /\ Goto(c, "live")
     \/ At(c, "resending") /\ Goto(c, "replayed")
  /\ queue' = [queue EXCEPT ![c] = Tail(@)]
  /\ UNCHANGED <<rights, handles, userConns, req, writes, invites>>

\* renew_active_session, at each message of the peer.
BeginWrite(c) ==
  /\ At(c, "live") /\ c \notin cancelled
  /\ writes + Cardinality({d \in Conn : At(d, "writing")}) < MaxWrites
  /\ IfActive(c, "writing") /\ UNCHANGED <<req, writes, invites>>

Subscribers(v) == {c \in Conn : Subscribed(c) /\ conn[c].vault = v}

\* The queue of c after an event for the subscribers of v.
Published(v, c, event) == IF c \in Subscribers(v) THEN Append(queue[c], event) ELSE queue[c]

Commit(c) ==
  /\ Goto(c, "live") /\ writes' = writes + 1
  /\ queue' = [d \in Conn |->
       Published(conn[c].vault, d, IF Authorised(d) THEN "seen" ELSE "late")]
  /\ UNCHANGED <<rights, handles, userConns>>

\* A mutation: its transaction authorises it again, and its event is published
\* before commit_order is released.
CommitWrite(c) ==
  /\ At(c, "writing") /\ CommitOrderFree
  /\ IF Authorised(c) THEN Commit(c) ELSE Close(c) /\ UNCHANGED writes
  /\ UNCHANGED <<req, invites>>

\* The cancellation arm of the live loop.
Cancelled(c) ==
  /\ At(c, "live") /\ c \in cancelled /\ Close(c)
  /\ UNCHANGED <<req, writes, invites>>

\* Faulty: the tick looks at the session and not at the vault.
Revalidate_Session(c) ==
  /\ At(c, "live") /\ conn[c].token \notin valid /\ Close(c)
  /\ UNCHANGED <<req, writes, invites>>

\* The revalidation tick.
Revalidate(c) ==
  /\ At(c, "live") /\ ~Authorised(c) /\ Close(c)
  /\ UNCHANGED <<req, writes, invites>>

\* The peer goes, or a deadline passes.
Leave(c) ==
  /\ IF Serving(c) THEN Close(c)
     ELSE (At(c, "open") \/ At(c, "read")) /\ Goto(c, "dropped")
          /\ UNCHANGED <<rights, handles, userConns, queue>>
  /\ UNCHANGED <<req, writes, invites>>

\* The session of socket_loop is dropped: its handle, then its user permit.
DropSession(c) ==
  /\ At(c, "closing") /\ Goto(c, "dropped")
  /\ registered' = registered \ {c} /\ cancelled' = cancelled \ {c} /\ missed' = missed \ {c}
  /\ userConns' = [userConns EXCEPT ![UserOf(c)] = @ - 1]
  /\ queue' = [queue EXCEPT ![c] = <<>>]
  /\ UNCHANGED <<rights, req, writes, invites>>

\* The connection permit is an argument of socket_loop and is dropped last.
ReleasePermit(c) ==
  /\ At(c, "dropped") /\ conn' = [conn EXCEPT ![c] = Closed]
  /\ UNCHANGED <<rights, handles, userConns, queue, req, writes, invites>>

-----------------------------------------------------------------------------
(* Withdrawals.                                                            *)

Begin(r, record) == req[r] = Idle /\ req' = [req EXCEPT ![r] = record]

\* /user/signout: revoke_session
Signout(r, t) ==
  /\ t \in valid /\ valid' = valid \ {t}
  /\ Begin(r, [kind |-> "signout", token |-> t])
  /\ UNCHANGED <<lapsed, access, live, writes, invites>>

\* share_remove: by the owner, or by the collaborator.
ShareRemove(r, u, v) ==
  /\ <<u, v>> \in access /\ u # Owner[v]
  /\ \E t \in valid : TokenUser[t] \in {Owner[v], u}
  /\ access' = access \ {<<u, v>>}
  /\ Begin(r, [kind |-> "remove", user |-> u, vault |-> v])
  /\ UNCHANGED <<valid, lapsed, live, writes, invites>>

\* delete_vault, and migrate_vault of its source: commit_order is held.
DeleteVault(r, v) ==
  /\ <<Owner[v], v>> \in access /\ \E t \in valid : TokenUser[t] = Owner[v]
  /\ CommitOrderFree
  /\ access' = {a \in access : a[2] # v}
  /\ Begin(r, [kind |-> "delete", vault |-> v])
  /\ UNCHANGED <<valid, lapsed, live, writes, invites>>

\* cancel_session, cancel_user_vault and cancel_vault
Matches(request, c) ==
  \/ request.kind = "signout" /\ conn[c].token = request.token
  \/ request.kind = "remove"  /\ UserOf(c) = request.user /\ conn[c].vault = request.vault
  \/ request.kind = "delete"  /\ conn[c].vault = request.vault

\* invalidate_vault also sends an event to the subscribers.
Cancel(r) ==
  /\ req[r] # Idle
  /\ cancelled' = cancelled \cup {c \in registered : Matches(req[r], c)}
  /\ IF req[r].kind = "delete" THEN queue' = [c \in Conn |-> Published(req[r].vault, c, "gone")]
     ELSE UNCHANGED queue
  /\ req' = [req EXCEPT ![r] = Idle]
  /\ UNCHANGED <<rights, conn, registered, missed, userConns, writes, invites>>

\* The client of the request disconnects, and the handler is dropped.
DropRequest(r) ==
  /\ req[r] # Idle /\ req' = [req EXCEPT ![r] = Idle]
  /\ missed' = missed \cup {c \in registered : Matches(req[r], c)}
  /\ UNCHANGED <<rights, conn, registered, cancelled, userConns, queue, writes, invites>>

\* share_invite; the history in the queues: the user may see those events now.
ShareInvite(u, v) ==
  /\ <<Owner[v], v>> \in access /\ <<u, v>> \notin access /\ invites < MaxInvites
  /\ \E t \in valid : TokenUser[t] = Owner[v]
  /\ access' = access \cup {<<u, v>>} /\ invites' = invites + 1
  /\ queue' = [c \in Conn |->
       IF conn[c].at \notin {"closed", "open", "dropped"} /\ UserOf(c) = u /\ conn[c].vault = v
       THEN [i \in DOMAIN queue[c] |-> IF queue[c][i] = "late" THEN "seen" ELSE queue[c][i]]
       ELSE queue[c]]
  /\ UNCHANGED <<valid, lapsed, conn, handles, userConns, req, writes>>

\* A session expires, or revoke-all-sessions ends it: nothing is cancelled.
Lapse(t) ==
  /\ t \in valid /\ valid' = valid \ {t} /\ lapsed' = lapsed \cup {t}
  /\ UNCHANGED <<access, live, req, writes, invites>>

Own(c) ==
  \/ Admit(c) \/ Register(c) \/ \E some \in BOOLEAN : SetBoundary(c, some)
  \/ Replay(c) \/ EndReplay(c) \/ Receive(c) \/ Send(c)
  \/ CommitWrite(c) \/ Cancelled(c) \/ Revalidate(c) \/ DropSession(c) \/ ReleasePermit(c)

Next ==
  \/ \E c \in Conn : Own(c) \/ Upgrade(c) \/ BeginWrite(c) \/ Leave(c)
  \/ \E c \in Conn, t \in Token, v \in Vault : ReadAuthorisation(c, t, v)
  \/ \E r \in Req, t \in Token : Signout(r, t)
  \/ \E r \in Req, u \in User, v \in Vault : ShareRemove(r, u, v)
  \/ \E r \in Req, v \in Vault : DeleteVault(r, v)
  \/ \E r \in Req : Cancel(r) \/ DropRequest(r)
  \/ \E u \in User, v \in Vault : ShareInvite(u, v)
  \/ \E t \in Token : Lapse(t)

\* Connections and handlers are tasks that tokio goes on polling; every wait of
\* theirs has a deadline, and the revalidation tick comes before messages and
\* events in the biased select.
Fairness == /\ \A c \in Conn : WF_vars(Own(c))
            /\ \A r \in Req : WF_vars(Cancel(r) \/ DropRequest(r))

Spec     == Init /\ [][Next]_vars
FairSpec == Spec /\ Fairness

-----------------------------------------------------------------------------
\* Where a connection stands that has read its authorisation.
Places == {"read", "admitted", "registered", "replaying", "resending", "replayed", "live",
           "sending", "writing", "closing", "dropped"}

Connection == [at : {"closed", "open", "dropped"}] \cup [at : Places, token : Token, vault : Vault]
Control    == {Idle} \cup [kind : {"signout"}, token : Token]
                \cup [kind : {"remove"}, user : User, vault : Vault]
                \cup [kind : {"delete"}, vault : Vault]

TypeOK ==
  /\ valid \subseteq Token /\ lapsed \subseteq Token \ valid /\ access \subseteq User \X Vault
  /\ conn \in [Conn -> Connection] /\ req \in [Req -> Control]
  /\ registered \subseteq Conn /\ cancelled \cup missed \subseteq registered
  /\ userConns \in [User -> Nat] /\ queue \in [Conn -> Seq({"seen", "late", "gone"})]
  /\ writes \in Nat /\ invites \in 0..MaxInvites

\* The registry never fills up: whoever was admitted has a cancellation handle,
\* because socket_loop gives its registry entry back before its permit.
EveryoneHasHandle == \A c \in Conn : Serving(c) => c \in registered

\* UserConcurrency counts exactly the admitted connections of each user.
UserPermitsExact ==
  \A u \in User : userConns[u] = Cardinality({c \in Conn : Authenticated(c) /\ UserOf(c) = u})

\* A revision reaches a connection only if it was authorised at some time after
\* the commit of that revision: what is committed after a withdrawal is never
\* delivered, replayed or queued, to the connections that lost their right.
NoDeliveryAfterWithdrawal ==
  \A c \in Conn : conn[c].at \in {"sending", "resending"} => Head(queue[c]) # "late"

\* A connection that serves without authorisation is about to learn it: its
\* handle was cancelled, or the request that withdrew it has yet to answer or was
\* dropped with the handle in reach; also when the withdrawal fell between its
\* reading and its registration.
WithdrawalReachesLive ==
  \A c \in Conn :
    conn[c].at \in {"live", "sending", "writing"} /\ ~Authorised(c) /\ conn[c].token \notin lapsed =>
      c \in cancelled \cup missed \/ \E r \in Req : req[r] # Idle /\ Matches(req[r], c)

\* A request that lost its authorisation before its commit changes nothing.
NoWriteAfterWithdrawal ==
  [][\A c \in Conn : writes' # writes /\ At(c, "writing") /\ ~(conn'[c].at = "writing")
       => Authorised(c)]_vars

\* Whatever withdrew it, and although the request that did may be dropped before
\* it cancels anything, an unauthorised connection is closed in the end.
WithdrawnCloses ==
  \A c \in Conn : (Serving(c) /\ ~Authorised(c)) ~> (~Serving(c) \/ Authorised(c))
=============================================================================
