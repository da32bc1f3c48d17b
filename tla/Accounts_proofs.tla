--------------------------- MODULE Accounts_proofs ---------------------------
(***************************************************************************)
(* Theorems about Accounts, for any addresses, passwords, requests, limit  *)
(* on users and readings of the clock.                                     *)
(***************************************************************************)
EXTENDS Accounts, FiniteSetTheorems, SequenceTheorems, TLAPS

\* The states of a request.
Issuing  == [kind : {"issue"}, user : Nat, password : Password]
Creating == [kind : {"create"}, email : Email, password : Password]
Updating == [kind : {"update"}, user : Nat, on : BOOLEAN]
Pending  == {Idle} \cup Issuing \cup Creating \cup Updating

\* What a sign-in verified is still the password of its user when it issues the
\* session: no step of a running server changes a password.
VerifiedStillCurrent ==
  \A r \in Req : req[r].kind = "issue" =>
    req[r].user \in Ids /\ users[req[r].user].password = req[r].password

\* The inductive invariant.
Inv ==
  /\ TypeOK /\ req \in [Req -> Pending] /\ VerifiedStillCurrent
  /\ SessionsMatchPassword /\ TableVerifies

-----------------------------------------------------------------------------
(* The table of users.                                                     *)

LEMMA NewRow ==
  ASSUME NEW e \in Email, NEW p \in Password, NEW role \in {"admin", "user"}, NEW now \in Times
  PROVE  /\ Row(e, p, role, now) \in User
         /\ Row(e, p, role, now).email = e /\ Row(e, p, role, now).status = "active"
         /\ Row(e, p, role, now).role = role
BY Zenon DEF Row, User

\* An edited row changes nothing else.
LEMMA Edited ==
  ASSUME TypeOK, NEW u \in Ids, NEW row \in User, users' = [users EXCEPT ![u] = row]
  PROVE  /\ users' \in Seq(User) /\ users' # <<>> /\ Len(users') = Len(users)
         /\ Ids' = Ids /\ users'[u] = row
         /\ \A w \in Ids : w # u => users'[w] = users[w]
<1>1. users \in Seq(User) /\ users # <<>> /\ Ids = 1..Len(users) /\ Len(users) \in Nat
  BY DEF TypeOK, Ids
<1>2. users' \in Seq(User) /\ Len(users') = Len(users) /\ DOMAIN users' = DOMAIN users
  BY <1>1 DEF Ids
<1>3. users' # <<>>
  BY <1>1, <1>2
<1> QED BY <1>1, <1>2, <1>3, Zenon DEF Ids

\* A new user leaves the others as they are.
LEMMA Appended ==
  ASSUME TypeOK, NEW row \in User, users' = Append(users, row)
  PROVE  /\ users' \in Seq(User) /\ users' # <<>> /\ Len(users') = Len(users) + 1
         /\ Ids' = Ids \cup {Len(users) + 1} /\ users'[Len(users) + 1] = row
         /\ \A w \in Ids : users'[w] = users[w]
<1>1. users \in Seq(User) /\ Ids = 1..Len(users) /\ Len(users) \in Nat
  BY DEF TypeOK, Ids
<1>2. /\ users' \in Seq(User) /\ users' # <<>> /\ Len(users') = Len(users) + 1
      /\ users'[Len(users) + 1] = row /\ \A w \in 1..Len(users) : users'[w] = users[w]
  BY <1>1, AppendProperties
<1>3. Ids' = 1..(Len(users) + 1)
  BY <1>2 DEF Ids
<1> QED BY <1>1, <1>2, <1>3

\* While the server is down no request is in progress.
LEMMA NothingPending ==
  ASSUME Inv, Offline, UNCHANGED <<up, req>>
  PROVE  /\ req' \in [Req -> Pending] /\ up' \in BOOLEAN
         /\ (\A r \in Req : req[r] # Idle => up)' /\ VerifiedStillCurrent'
<1>1. \A r \in Req : req'[r] = Idle
  BY Zenon DEF Inv, TypeOK, Offline
<1>2. Idle.kind # "issue"
  BY Zenon DEF Idle
<1> QED BY <1>1, <1>2, Zenon DEF Inv, TypeOK, VerifiedStillCurrent, Pending

\* An offline command that edits one row keeps the invariant when the address
\* stays unique, and the user's sessions end or still match the row.
LEMMA EditKeeps ==
  ASSUME Inv, Offline, NEW u \in Ids, NEW row \in User,
         users' = [users EXCEPT ![u] = row], UNCHANGED <<enabled, up, req>>,
         \A w \in Ids : users[w].email = row.email => w = u,
         \/ EndSessions(u)
         \/ /\ sessions' = sessions /\ row.password = users[u].password
            /\ row.status \in {users[u].status, "active"}
  PROVE  Inv'
<1>1. /\ users' \in Seq(User) /\ users' # <<>> /\ Len(users') = Len(users)
      /\ Ids' = Ids /\ users'[u] = row /\ \A w \in Ids : w # u => users'[w] = users[w]
  BY Edited, Zenon DEF Inv
<1>2. TableVerifies'
  BY <1>1 DEF Inv, TableVerifies
<1>3. sessions' \subseteq Ids' \X Password
  BY <1>1, Zenon DEF Inv, TypeOK, EndSessions
<1>4. SessionsMatchPassword'
  <2> SUFFICES ASSUME NEW s \in sessions'
               PROVE  users'[s[1]].password = s[2] /\ users'[s[1]].status = "active"
    BY Zenon DEF SessionsMatchPassword, IsActive
  <2>1. s \in sessions /\ s[1] \in Ids
    BY DEF Inv, TypeOK, EndSessions
  <2>2. users[s[1]].password = s[2] /\ users[s[1]].status = "active"
    BY <2>1, Zenon DEF Inv, SessionsMatchPassword, IsActive
  <2>3. CASE s[1] = u
    BY <1>1, <2>2, <2>3, Zenon DEF EndSessions
  <2>4. CASE s[1] # u
    BY <1>1, <2>1, <2>2, <2>4, Zenon
  <2> QED BY <2>3, <2>4, Zenon
<1>5. enabled' \in BOOLEAN
  BY Zenon DEF Inv, TypeOK
<1> QED BY <1>1, <1>2, <1>3, <1>4, <1>5, NothingPending, Zenon DEF Inv, TypeOK

\* A new user with a free address keeps the table and the sessions.
LEMMA AppendKeeps ==
  ASSUME Inv, NEW row \in User, users' = Append(users, row), sessions' = sessions,
         Len(users) < MaxUsers, ~Taken(row.email)
  PROVE  /\ users' \in Seq(User) /\ users' # <<>> /\ sessions' \subseteq Ids' \X Password
         /\ TableVerifies' /\ SessionsMatchPassword'
         /\ \A w \in Ids : w \in Ids' /\ users'[w] = users[w]
<1>1. /\ users' \in Seq(User) /\ users' # <<>> /\ Len(users') = Len(users) + 1
      /\ Ids' = Ids \cup {Len(users) + 1} /\ users'[Len(users) + 1] = row
      /\ \A w \in Ids : users'[w] = users[w]
  BY Appended, Zenon DEF Inv
<1>2. sessions' \subseteq Ids' \X Password
  BY <1>1, Zenon DEF Inv, TypeOK
<1>3. SessionsMatchPassword'
  BY <1>1, Zenon DEF Inv, TypeOK, SessionsMatchPassword, IsActive
<1>4. Len(users') <= MaxUsers
  BY <1>1, AccountAssumption DEF Inv, TypeOK
<1>5. \A w \in Ids : users[w].email # row.email
  BY Zenon DEF Taken
<1>6. \A v, w \in Ids' : users'[v].email = users'[w].email => v = w
  <2> SUFFICES ASSUME NEW v \in Ids', NEW w \in Ids', users'[v].email = users'[w].email
               PROVE  v = w
    OBVIOUS
  <2>1. CASE v \in Ids /\ w \in Ids
    BY <1>1, <2>1, Zenon DEF Inv, TableVerifies
  <2>2. CASE v \notin Ids \/ w \notin Ids
    <3>1. \A x \in Ids' : x \notin Ids => users'[x].email = row.email /\ x = Len(users) + 1
      BY <1>1, Zenon
    <3>2. \A x \in Ids : users'[x].email # row.email
      BY <1>1, <1>5, Zenon
    <3> QED BY <2>2, <3>1, <3>2, Zenon
  <2> QED BY <2>1, <2>2, Zenon
<1> QED BY <1>1, <1>2, <1>3, <1>4, <1>6, Zenon DEF TableVerifies

-----------------------------------------------------------------------------
(* The offline commands.                                                   *)

LEMMA UserRow == ASSUME TypeOK, NEW u \in Ids PROVE users[u] \in User
BY DEF TypeOK, Ids

LEMMA CreateUserKeeps ==
  ASSUME Inv, NEW e \in Email, NEW p \in Password, NEW now \in Times, CreateUser(e, p, now)
  PROVE  Inv'
<1> DEFINE row == Row(e, p, "user", now)
<1>1. row \in User /\ row.email = e
  BY NewRow
<1>2. /\ Offline /\ Len(users) < MaxUsers /\ ~Taken(row.email) /\ users' = Append(users, row)
      /\ UNCHANGED <<enabled, sessions, up, req>>
  BY <1>1, Zenon DEF CreateUser
<1> HIDE DEF row
<1>3. /\ users' \in Seq(User) /\ users' # <<>> /\ sessions' \subseteq Ids' \X Password
      /\ TableVerifies' /\ SessionsMatchPassword'
  BY <1>1, <1>2, AppendKeeps, Zenon
<1>4. enabled' \in BOOLEAN
  BY <1>2, Zenon DEF Inv, TypeOK
<1> QED BY <1>2, <1>3, <1>4, NothingPending, Zenon DEF Inv, TypeOK

LEMMA SetPasswordKeeps ==
  ASSUME Inv, NEW u \in Ids, NEW p \in Password, NEW now \in Times, SetPassword(u, p, now)
  PROVE  Inv'
<1> DEFINE row == [users[u] EXCEPT !.password = p, !.updated = now]
<1>1. users[u] \in User
  BY UserRow, Zenon DEF Inv
<1>2. row \in User /\ row.email = users[u].email
  BY <1>1, Zenon DEF User
<1>3. users' = [users EXCEPT ![u] = row]
  BY <1>1, Zenon DEF SetPassword, User, Inv, TypeOK, Ids
<1> HIDE DEF row
<1>4. \A w \in Ids : users[w].email = row.email => w = u
  BY <1>2, Zenon DEF Inv, TableVerifies
<1> QED BY <1>2, <1>3, <1>4, EditKeeps, ZenonT(40) DEF SetPassword

LEMMA SetEmailKeeps ==
  ASSUME Inv, NEW u \in Ids, NEW e \in Email, NEW now \in Times, SetEmail(u, e, now)
  PROVE  Inv'
<1> DEFINE row == [users[u] EXCEPT !.email = e, !.updated = now]
<1>1. users[u] \in User
  BY UserRow, Zenon DEF Inv
<1>2. row \in User /\ row.email = e
  BY <1>1, Zenon DEF User
<1>3. users' = [users EXCEPT ![u] = row]
  BY <1>1, Zenon DEF SetEmail, User, Inv, TypeOK, Ids
<1> HIDE DEF row
<1>4. \A w \in Ids : users[w].email = row.email => w = u
  BY <1>2, Zenon DEF Inv, TableVerifies, SetEmail, Taken
<1> QED BY <1>2, <1>3, <1>4, EditKeeps, ZenonT(40) DEF SetEmail

LEMMA SetNameKeeps ==
  ASSUME Inv, NEW u \in Ids, NEW now \in Times, SetName(u, now)
  PROVE  Inv'
<1> DEFINE row == [users[u] EXCEPT !.updated = now]
<1>1. users[u] \in User
  BY UserRow, Zenon DEF Inv
<1>2. /\ row \in User /\ row.email = users[u].email /\ row.password = users[u].password
      /\ row.status = users[u].status
  BY <1>1, Zenon DEF User
<1>3. users' = [users EXCEPT ![u] = row]
  BY <1>1, Zenon DEF SetName, User, Inv, TypeOK, Ids
<1> HIDE DEF row
<1>4. \A w \in Ids : users[w].email = row.email => w = u
  BY <1>2, Zenon DEF Inv, TableVerifies
<1> QED BY <1>2, <1>3, <1>4, EditKeeps, ZenonT(40) DEF SetName

LEMMA DisableKeeps ==
  ASSUME Inv, NEW u \in Ids, NEW now \in Times, Disable(u, now)
  PROVE  Inv'
<1> DEFINE row == [users[u] EXCEPT !.status = "disabled", !.updated = now]
<1>1. users[u] \in User
  BY UserRow, Zenon DEF Inv
<1>2. row \in User /\ row.email = users[u].email
  BY <1>1, Zenon DEF User
<1>3. users' = [users EXCEPT ![u] = row]
  BY <1>1, Zenon DEF Disable, User, Inv, TypeOK, Ids
<1> HIDE DEF row
<1>4. \A w \in Ids : users[w].email = row.email => w = u
  BY <1>2, Zenon DEF Inv, TableVerifies
<1> QED BY <1>2, <1>3, <1>4, EditKeeps, ZenonT(40) DEF Disable

LEMMA ActivateKeeps ==
  ASSUME Inv, NEW u \in Ids, NEW now \in Times, Activate(u, now)
  PROVE  Inv'
<1> DEFINE row == [users[u] EXCEPT !.status = "active", !.updated = now]
<1>1. users[u] \in User
  BY UserRow, Zenon DEF Inv
<1>2. /\ row \in User /\ row.email = users[u].email /\ row.password = users[u].password
      /\ row.status = "active"
  BY <1>1, Zenon DEF User
<1>3. users' = [users EXCEPT ![u] = row]
  BY <1>1, Zenon DEF Activate, User, Inv, TypeOK, Ids
<1> HIDE DEF row
<1>4. \A w \in Ids : users[w].email = row.email => w = u
  BY <1>2, Zenon DEF Inv, TableVerifies
<1> QED BY <1>2, <1>3, <1>4, EditKeeps, ZenonT(40) DEF Activate

LEMMA SetRoleKeeps ==
  ASSUME Inv, NEW u \in Ids, NEW role \in {"admin", "user"}, NEW now \in Times,
         SetRole(u, role, now)
  PROVE  Inv'
<1> DEFINE row == [users[u] EXCEPT !.role = role, !.updated = now]
<1>1. users[u] \in User
  BY UserRow, Zenon DEF Inv
<1>2. row \in User /\ row.email = users[u].email
  BY <1>1, Zenon DEF User
<1>3. users' = [users EXCEPT ![u] = row]
  BY <1>1, Zenon DEF SetRole, User, Inv, TypeOK, Ids
<1> HIDE DEF row
<1>4. \A w \in Ids : users[w].email = row.email => w = u
  BY <1>2, Zenon DEF Inv, TableVerifies
<1> QED BY <1>2, <1>3, <1>4, EditKeeps, ZenonT(40) DEF SetRole

LEMMA RevokeSessionsKeeps ==
  ASSUME Inv, NEW u \in Ids, RevokeSessions(u)
  PROVE  Inv'
<1>1. Offline /\ sessions' \subseteq sessions /\ UNCHANGED <<users, enabled, up, req>>
  BY Zenon DEF RevokeSessions, EndSessions
<1>2. TableVerifies' /\ SessionsMatchPassword'
  BY <1>1, Zenon DEF Inv, TableVerifies, SessionsMatchPassword, IsActive, Ids
<1> QED BY <1>1, <1>2, NothingPending, Zenon DEF Inv, TypeOK, Ids

\* A recovered database has no session, and every row keeps its address.
LEMMA RecoverStaleBackupKeeps ==
  ASSUME Inv, NEW now \in Times, RecoverStaleBackup(now)
  PROVE  Inv'
<1> DEFINE new(u) == [users[u] EXCEPT !.status = "disabled", !.updated = IF @ > now THEN @ ELSE now]
<1>1. \A u \in Ids : users[u] \in User
  BY UserRow, Zenon DEF Inv
<1>2. \A u \in Ids : new(u) \in User /\ new(u).email = users[u].email
  BY <1>1, Zenon DEF User
<1>3. /\ Offline /\ users' = [u \in Ids |-> new(u)] /\ enabled' = FALSE /\ sessions' = {}
      /\ UNCHANGED <<up, req>>
  BY Zenon DEF RecoverStaleBackup
<1> HIDE DEF new
<1>4. users \in Seq(User) /\ users # <<>> /\ Ids = 1..Len(users) /\ Len(users) \in Nat
  BY DEF Inv, TypeOK, Ids
<1>5. users' \in [1..Len(users) -> User]
  BY <1>2, <1>3, <1>4, Zenon
<1>6. users' \in Seq(User) /\ Len(users') = Len(users) /\ Ids' = Ids
  BY <1>4, <1>5 DEF Ids
<1>7. users' # <<>>
  BY <1>4, <1>6
<1>8. TableVerifies'
  BY <1>2, <1>3, <1>6 DEF Inv, TableVerifies
<1>9. SessionsMatchPassword'
  BY <1>3, Zenon DEF SessionsMatchPassword
<1> QED BY <1>3, <1>6, <1>7, <1>8, <1>9, NothingPending, Zenon DEF Inv, TypeOK

-----------------------------------------------------------------------------
(* The server and its requests.                                            *)

LEMMA StartKeeps == ASSUME Inv, Start PROVE Inv'
<1>1. UNCHANGED <<users, enabled, sessions, req>> /\ up' = TRUE
  BY Zenon DEF Start
<1> QED BY <1>1, Zenon DEF Inv, TypeOK, VerifiedStillCurrent, SessionsMatchPassword, TableVerifies,
                    IsActive, Ids

LEMMA StopKeeps == ASSUME Inv, Stop PROVE Inv'
<1>1. /\ UNCHANGED <<users, enabled, sessions>> /\ up' = FALSE
      /\ req' = [r \in Req |-> Idle]
  BY Zenon DEF Stop
<1>2. Idle.kind # "issue" /\ Idle \in Pending
  BY Zenon DEF Idle, Pending
<1>3. req' \in [Req -> Pending] /\ \A r \in Req : req'[r] = Idle
  BY <1>1, <1>2, Zenon
<1> HIDE DEF Idle
<1>4. VerifiedStillCurrent'
  BY <1>2, <1>3, Zenon DEF VerifiedStillCurrent
<1> QED BY <1>1, <1>3, <1>4, Zenon
           DEF Inv, TypeOK, SessionsMatchPassword, TableVerifies, IsActive, Ids

\* A request that begins with what it has verified keeps the invariant.
LEMMA BeginKeeps ==
  ASSUME Inv, NEW r \in Req, NEW state \in Pending, Begin(r, state),
         UNCHANGED <<users, enabled, sessions, up>>,
         state.kind = "issue" => /\ state.user \in Ids
                                 /\ users[state.user].password = state.password
  PROVE  Inv'
<1>1. up /\ req' = [req EXCEPT ![r] = state] /\ req \in [Req -> Pending]
  BY Zenon DEF Begin, Inv
<1>2. req' \in [Req -> Pending] /\ req'[r] = state /\ \A q \in Req : q # r => req'[q] = req[q]
  BY <1>1, Zenon
<1>3. VerifiedStillCurrent'
  BY <1>2 DEF Inv, VerifiedStillCurrent, Ids
<1> QED BY <1>1, <1>2, <1>3, Zenon
           DEF Inv, TypeOK, SessionsMatchPassword, TableVerifies, IsActive, Ids

\* What a request that ends does to the other requests, when no row changes.
LEMMA FinishKeeps ==
  ASSUME Inv, NEW r \in Req, up, Finish(r), UNCHANGED up,
         \A w \in Ids : w \in Ids' /\ users'[w] = users[w]
  PROVE  /\ req' \in [Req -> Pending] /\ up' \in BOOLEAN
         /\ (\A q \in Req : req[q] # Idle => up)' /\ VerifiedStillCurrent'
<1>1. Idle.kind # "issue" /\ Idle \in Pending
  BY Zenon DEF Idle, Pending
<1>2. req' = [req EXCEPT ![r] = Idle] /\ req \in [Req -> Pending]
  BY Zenon DEF Finish, Inv
<1> HIDE DEF Idle
<1>3. req' \in [Req -> Pending] /\ req'[r] = Idle /\ \A q \in Req : q # r => req'[q] = req[q]
  BY <1>1, <1>2, Zenon
<1>4. VerifiedStillCurrent'
  BY <1>1, <1>3 DEF Inv, VerifiedStillCurrent
<1> QED BY <1>3, <1>4, Zenon DEF Inv, TypeOK

LEMMA AuthenticateKeeps ==
  ASSUME Inv, NEW r \in Req, NEW u \in Ids, NEW p \in Password, Authenticate(r, u, p)
  PROVE  Inv'
<1> DEFINE state == [kind |-> "issue", user |-> u, password |-> p]
<1>1. state \in Pending /\ state.user = u /\ state.password = p
  BY DEF Pending, Issuing, Inv, TypeOK, Ids
<1>2. /\ Begin(r, state) /\ users[u].password = p /\ UNCHANGED <<users, enabled, sessions, up>>
  BY Zenon DEF Authenticate
<1> HIDE DEF state
<1> QED BY <1>1, <1>2, BeginKeeps, Zenon

LEMMA BeginRegistrationKeeps ==
  ASSUME Inv, NEW r \in Req, NEW e \in Email, NEW p \in Password, BeginRegistration(r, e, p)
  PROVE  Inv'
<1> DEFINE state == [kind |-> "create", email |-> e, password |-> p]
<1>1. state \in Pending /\ state.kind # "issue"
  BY Zenon DEF Pending, Creating
<1>2. Begin(r, state) /\ UNCHANGED <<users, enabled, sessions, up>>
  BY Zenon DEF BeginRegistration
<1> HIDE DEF state
<1> QED BY <1>1, <1>2, BeginKeeps, Zenon

LEMMA BeginUpdateKeeps ==
  ASSUME Inv, NEW r \in Req, NEW s \in sessions, NEW on \in BOOLEAN, BeginUpdate(r, s, on)
  PROVE  Inv'
<1> DEFINE state == [kind |-> "update", user |-> s[1], on |-> on]
<1>1. s[1] \in Nat
  BY DEF Inv, TypeOK, Ids
<1>2. state \in Pending /\ state.kind # "issue"
  BY <1>1, Zenon DEF Pending, Updating
<1>3. Begin(r, state) /\ UNCHANGED <<users, enabled, sessions, up>>
  BY Zenon DEF BeginUpdate
<1> HIDE DEF state
<1> QED BY <1>2, <1>3, BeginKeeps, Zenon

\* A session is issued with the password its user still has.
LEMMA IssueSessionKeeps ==
  ASSUME Inv, NEW r \in Req, IssueSession(r)
  PROVE  Inv'
<1>1. /\ up /\ req[r].kind = "issue" /\ Finish(r) /\ UNCHANGED <<users, enabled, up>>
      /\ \/ sessions' = sessions
         \/ /\ sessions' = sessions \cup {<<req[r].user, req[r].password>>}
            /\ IsActive(req[r].user)
  BY Zenon DEF IssueSession, At
<1>2. /\ req[r].user \in Ids /\ users[req[r].user].password = req[r].password
      /\ users[req[r].user] \in User
  BY <1>1, UserRow, Zenon DEF Inv, VerifiedStillCurrent
<1>3. req[r].password \in Password
  BY <1>2, Zenon DEF User
<1>4. sessions' \subseteq Ids' \X Password
  BY <1>1, <1>2, <1>3 DEF Inv, TypeOK, Ids
<1>5. SessionsMatchPassword'
  BY <1>1, <1>2 DEF Inv, SessionsMatchPassword, IsActive
<1>6. TableVerifies'
  BY <1>1, Zenon DEF Inv, TableVerifies, Ids
<1> QED BY <1>1, <1>4, <1>5, <1>6, FinishKeeps, Zenon DEF Inv, TypeOK, Ids

LEMMA SignoutKeeps == ASSUME Inv, NEW s, Signout(s) PROVE Inv'
<1>1. sessions' \subseteq sessions /\ UNCHANGED <<users, enabled, up, req>>
  BY Zenon DEF Signout
<1> QED BY <1>1, Zenon DEF Inv, TypeOK, VerifiedStillCurrent, SessionsMatchPassword, TableVerifies,
                    IsActive, Ids

LEMMA UpdateRegistrationKeeps ==
  ASSUME Inv, NEW r \in Req, UpdateRegistration(r)
  PROVE  Inv'
<1>1. /\ up /\ req[r].kind = "update" /\ Finish(r) /\ UNCHANGED <<users, sessions, up>>
      /\ enabled' \in {req[r].on, enabled}
  BY Zenon DEF UpdateRegistration, At
<1>2. req[r].on \in BOOLEAN
  BY <1>1 DEF Inv, Pending, Idle, Issuing, Creating, Updating
<1>3. TableVerifies' /\ SessionsMatchPassword'
  BY <1>1, Zenon DEF Inv, TableVerifies, SessionsMatchPassword, IsActive, Ids
<1> QED BY <1>1, <1>2, <1>3, FinishKeeps, Zenon DEF Inv, TypeOK, Ids

LEMMA CreateRegisteredKeeps ==
  ASSUME Inv, NEW r \in Req, NEW now \in Times, CreateRegistered(r, now)
  PROVE  Inv'
<1> DEFINE row == Row(req[r].email, req[r].password, "user", now)
<1>1. /\ up /\ req[r].kind = "create" /\ Finish(r) /\ UNCHANGED <<enabled, sessions, up>>
      /\ \/ users' = users
         \/ users' = Append(users, row) /\ RegistrationOpen(req[r].email)
  BY Zenon DEF CreateRegistered, At
<1>2. req[r].email \in Email /\ req[r].password \in Password
  BY <1>1 DEF Inv, Pending, Idle, Issuing, Creating, Updating
<1>3. row \in User /\ row.email = req[r].email
  BY <1>2, NewRow
<1> HIDE DEF row
<1>4. /\ users' \in Seq(User) /\ users' # <<>> /\ sessions' \subseteq Ids' \X Password
      /\ TableVerifies' /\ SessionsMatchPassword'
      /\ \A w \in Ids : w \in Ids' /\ users'[w] = users[w]
  <2>1. CASE users' = users
    BY <1>1, <2>1, Zenon DEF Inv, TypeOK, TableVerifies, SessionsMatchPassword, IsActive, Ids
  <2>2. CASE users' = Append(users, row) /\ RegistrationOpen(req[r].email)
    BY <1>1, <1>3, <2>2, AppendKeeps, Zenon DEF RegistrationOpen
  <2> QED BY <1>1, <2>1, <2>2, Zenon
<1> QED BY <1>1, <1>4, FinishKeeps, Zenon DEF Inv, TypeOK

-----------------------------------------------------------------------------
(* The theorems.                                                           *)

LEMMA InitInv == Init => Inv
<1> SUFFICES ASSUME Init PROVE Inv
  OBVIOUS
<1>1. PICK e \in Email, p \in Password, now \in Times : users = <<Row(e, p, "admin", now)>>
  BY Zenon DEF Init
<1>2. Row(e, p, "admin", now) \in User
  BY NewRow, Zenon
<1>3. users \in Seq(User) /\ Len(users) = 1 /\ Ids = {1} /\ users # <<>>
  BY <1>1, <1>2 DEF Ids
<1>4. TableVerifies
  BY <1>3, AccountAssumption DEF TableVerifies
<1>5. Idle.kind # "issue" /\ Idle \in Pending
  BY Zenon DEF Idle, Pending
<1>6. /\ enabled = FALSE /\ sessions = {} /\ up = FALSE /\ req \in [Req -> Pending]
      /\ \A r \in Req : req[r] = Idle
  BY <1>5, Zenon DEF Init
<1> HIDE DEF Idle
<1> QED BY <1>3, <1>4, <1>5, <1>6, Zenon
           DEF Inv, TypeOK, VerifiedStillCurrent, SessionsMatchPassword

LEMMA CommandKeeps == ASSUME Inv, Command PROVE Inv'
BY CreateUserKeeps, SetPasswordKeeps, SetEmailKeeps, SetNameKeeps, DisableKeeps, ActivateKeeps,
   SetRoleKeeps, RevokeSessionsKeeps, RecoverStaleBackupKeeps, Zenon DEF Command

LEMMA RequestKeeps == ASSUME Inv, Request PROVE Inv'
<1>1. ASSUME NEW r \in Req, NEW u \in Ids, NEW p \in Password, Login(r, u, p) PROVE Inv'
  BY <1>1, AuthenticateKeeps, Zenon DEF Login
<1> QED BY <1>1, AuthenticateKeeps, BeginRegistrationKeeps, BeginUpdateKeeps, IssueSessionKeeps,
           UpdateRegistrationKeeps, CreateRegisteredKeeps, SignoutKeeps, Zenon DEF Request

LEMMA NextInv == Inv /\ [Next]_vars => Inv'
<1>1. ASSUME Inv, UNCHANGED vars PROVE Inv'
  BY <1>1, Zenon DEF vars, Inv, TypeOK, VerifiedStillCurrent, SessionsMatchPassword, TableVerifies,
              IsActive, Ids
<1> QED BY <1>1, StartKeeps, StopKeeps, CommandKeeps, RequestKeeps DEF Next

LEMMA Safe == Spec => []Inv
BY InitInv, NextInv, PTL DEF Spec

\* The rows, the sessions and the setting have their types, and no request is
\* in progress while the server is down.
THEOREM TypeCorrect == Spec => []TypeOK
BY Safe, PTL DEF Inv

\* Every valid session was obtained with the password its user has now, and its
\* user is active: a sign-in that verified a password and waits for the
\* transaction of issue_session_for_user never outlives a change of it.
THEOREM SessionsAreCurrent == Spec => []SessionsMatchPassword
BY Safe, PTL DEF Inv

\* The commands and the registrations keep the addresses unique and the table
\* within MAX_USERS, although a registration checks both long after it began.
THEOREM UsersAlwaysVerify == Spec => []TableVerifies
BY Safe, PTL DEF Inv

-----------------------------------------------------------------------------
(* Action properties.                                                      *)

LEMMA AnotherOne ==
  ASSUME NEW S, IsFiniteSet(S), ~(Cardinality(S) <= 1), NEW u
  PROVE  \E w \in S : w # u
<1> SUFFICES ASSUME S \subseteq {u} PROVE FALSE
  OBVIOUS
<1>1. IsFiniteSet({u}) /\ Cardinality({u}) = 1
  BY FS_Singleton, Zenon
<1>2. Cardinality(S) <= 1
  BY <1>1, FS_Subset
<1> QED BY <1>2, Zenon

LEMMA AdminsFinite == ASSUME TypeOK PROVE IsFiniteSet(ActiveAdmins)
<1>1. Ids = 1..Len(users) /\ Len(users) \in Nat
  BY DEF TypeOK, Ids
<1>2. IsFiniteSet(Ids)
  BY <1>1, FS_Interval
<1>3. ActiveAdmins \subseteq Ids
  BY Zenon DEF ActiveAdmins, Admins
<1> QED BY <1>2, <1>3, FS_Subset, Zenon

\* An administrator whose row keeps role and status is one after the step.
LEMMA StaysAdmin ==
  ASSUME NEW w \in ActiveAdmins, w \in Ids', users'[w].role = users[w].role,
         users'[w].status \in {users[w].status, "active"}
  PROVE  w \in ActiveAdmins'
BY Zenon DEF ActiveAdmins, Admins, IsAdmin, IsActive

\* What an edited row must keep for an active administrator to remain.
LEMMA EditLeavesAdmin ==
  ASSUME TypeOK, NEW u \in Ids, NEW row \in User, users' = [users EXCEPT ![u] = row],
         \/ row.role = users[u].role /\ row.status \in {users[u].status, "active"}
         \/ u \notin ActiveAdmins
         \/ ~(Cardinality(ActiveAdmins) <= 1),
         ActiveAdmins # {}
  PROVE  ActiveAdmins' # {}
<1>1. Ids' = Ids /\ users'[u] = row /\ \A w \in Ids : w # u => users'[w] = users[w]
  BY Edited, Zenon
<1>2. \A w \in ActiveAdmins : w \in Ids
  BY Zenon DEF ActiveAdmins, Admins
<1>3. CASE row.role = users[u].role /\ row.status \in {users[u].status, "active"}
  <2>1. PICK w \in ActiveAdmins : TRUE
    OBVIOUS
  <2>2. users'[w].role = users[w].role /\ users'[w].status \in {users[w].status, "active"}
    BY <1>1, <1>2, <1>3, Zenon
  <2> QED BY <1>1, <1>2, <2>2, StaysAdmin
<1>4. CASE \E w \in ActiveAdmins : w # u
  <2>1. PICK w \in ActiveAdmins : w # u
    BY <1>4, Zenon
  <2> QED BY <1>1, <1>2, <2>1, StaysAdmin
<1>5. CASE ~(Cardinality(ActiveAdmins) <= 1)
  BY <1>4, <1>5, AdminsFinite, AnotherOne
<1> QED BY <1>3, <1>4, <1>5, Zenon

\* Rows that stay as they are keep their administrators.
LEMMA RowsLeaveAdmin ==
  ASSUME \A w \in Ids : w \in Ids' /\ users'[w] = users[w], ActiveAdmins # {}
  PROVE  ActiveAdmins' # {}
<1>1. PICK w \in ActiveAdmins : w \in Ids
  BY Zenon DEF ActiveAdmins, Admins
<1> QED BY <1>1, StaysAdmin, Zenon

\* The commands that edit one row, apart from Disable and SetRole, keep the
\* role, and the status or set it to active.
LEMMA HarmlessEdit ==
  ASSUME TypeOK, NEW u \in Ids, NEW now \in Times, ActiveAdmins # {},
         \/ \E p \in Password : SetPassword(u, p, now)
         \/ \E e \in Email : SetEmail(u, e, now)
         \/ SetName(u, now)
         \/ Activate(u, now)
  PROVE  ActiveAdmins' # {}
<1>1. users[u] \in User /\ users \in Seq(User)
  BY UserRow, Zenon DEF TypeOK
<1>2. PICK row \in User : /\ users' = [users EXCEPT ![u] = row] /\ row.role = users[u].role
                          /\ row.status \in {users[u].status, "active"}
  <2>1. CASE \E p \in Password : SetPassword(u, p, now)
    <3>1. PICK p \in Password : SetPassword(u, p, now)
      BY <2>1, Zenon
    <3> DEFINE row == [users[u] EXCEPT !.password = p, !.updated = now]
    <3>2. row \in User /\ row.role = users[u].role /\ row.status = users[u].status
      BY <1>1, Zenon DEF User
    <3>3. users' = [users EXCEPT ![u] = row]
      BY <1>1, <3>1, Zenon DEF SetPassword, User, Ids
    <3> QED BY <3>2, <3>3, Zenon
  <2>2. CASE \E e \in Email : SetEmail(u, e, now)
    <3>1. PICK e \in Email : SetEmail(u, e, now)
      BY <2>2, Zenon
    <3> DEFINE row == [users[u] EXCEPT !.email = e, !.updated = now]
    <3>2. row \in User /\ row.role = users[u].role /\ row.status = users[u].status
      BY <1>1, Zenon DEF User
    <3>3. users' = [users EXCEPT ![u] = row]
      BY <1>1, <3>1, Zenon DEF SetEmail, User, Ids
    <3> QED BY <3>2, <3>3, Zenon
  <2>3. CASE SetName(u, now)
    <3> DEFINE row == [users[u] EXCEPT !.updated = now]
    <3>2. row \in User /\ row.role = users[u].role /\ row.status = users[u].status
      BY <1>1, Zenon DEF User
    <3>3. users' = [users EXCEPT ![u] = row]
      BY <1>1, <2>3, Zenon DEF SetName, User, Ids
    <3> QED BY <3>2, <3>3, Zenon
  <2>4. CASE Activate(u, now)
    <3> DEFINE row == [users[u] EXCEPT !.status = "active", !.updated = now]
    <3>2. row \in User /\ row.role = users[u].role /\ row.status = "active"
      BY <1>1, Zenon DEF User
    <3>3. users' = [users EXCEPT ![u] = row]
      BY <1>1, <2>4, Zenon DEF Activate, User, Ids
    <3> QED BY <3>2, <3>3, Zenon
  <2> QED BY <2>1, <2>2, <2>3, <2>4
<1> QED BY <1>2, EditLeavesAdmin, Zenon

\* Disable and SetRole look at the number of active administrators first.
LEMMA GuardedEdit ==
  ASSUME TypeOK, NEW u \in Ids, NEW now \in Times, ActiveAdmins # {},
         Disable(u, now) \/ \E role \in {"admin", "user"} : SetRole(u, role, now)
  PROVE  ActiveAdmins' # {}
<1>1. users[u] \in User /\ users \in Seq(User)
  BY UserRow, Zenon DEF TypeOK
<1>2. CASE Disable(u, now)
  <2> DEFINE row == [users[u] EXCEPT !.status = "disabled", !.updated = now]
  <2>1. row \in User
    BY <1>1, Zenon DEF User
  <2>2. users' = [users EXCEPT ![u] = row]
    BY <1>1, <1>2, Zenon DEF Disable, User, Ids
  <2>3. u \notin ActiveAdmins \/ ~(Cardinality(ActiveAdmins) <= 1)
    BY <1>2, Zenon DEF Disable, ActiveAdmins, Admins
  <2> HIDE DEF row
  <2> QED BY <2>1, <2>2, <2>3, EditLeavesAdmin, Zenon
<1>3. CASE \E role \in {"admin", "user"} : SetRole(u, role, now)
  <2>1. PICK role \in {"admin", "user"} : SetRole(u, role, now)
    BY <1>3, Zenon
  <2> DEFINE row == [users[u] EXCEPT !.role = role, !.updated = now]
  <2>2. row \in User /\ row.role = role /\ row.status = users[u].status
    BY <1>1, Zenon DEF User
  <2>3. users' = [users EXCEPT ![u] = row]
    BY <1>1, <2>1, Zenon DEF SetRole, User, Ids
  <2>4. IsAdmin(u) /\ role = "user" => MayDemote(u)
    BY <2>1, Zenon DEF SetRole
  <2>5. \/ row.role = users[u].role
        \/ u \notin ActiveAdmins
        \/ ~(Cardinality(ActiveAdmins) <= 1)
    BY <2>2, <2>4, Zenon DEF MayDemote, ActiveAdmins, Admins, IsAdmin
  <2> HIDE DEF row
  <2> QED BY <2>2, <2>3, <2>5, EditLeavesAdmin, Zenon
<1> QED BY <1>2, <1>3, Zenon

\* A registration keeps the rows there are.
LEMMA RegisteredKeepsRows ==
  ASSUME TypeOK, NEW r \in Req, NEW now \in Times, CreateRegistered(r, now)
  PROVE  \A w \in Ids : w \in Ids' /\ users'[w] = users[w]
<1>1. users \in Seq(User) /\ Ids = 1..Len(users) /\ Len(users) \in Nat
  BY DEF TypeOK, Ids
<1>2. users' = users \/ \E row : users' = Append(users, row)
  BY Zenon DEF CreateRegistered
<1> QED BY <1>1, <1>2 DEF Ids

LEMMA AdministratorStep ==
  ASSUME TypeOK, [Next]_vars, ~\E now \in Times : RecoverStaleBackup(now), ActiveAdmins # {}
  PROVE  ActiveAdmins' # {}
<1>1. CASE users' = users
  BY <1>1, RowsLeaveAdmin, Zenon DEF Ids
<1>2. ASSUME NEW row \in User, users' = Append(users, row) PROVE ActiveAdmins' # {}
  BY <1>2, Appended, RowsLeaveAdmin, Zenon
<1>3. CASE Start \/ Stop \/ UNCHANGED vars
  BY <1>1, <1>3, Zenon DEF Start, Stop, vars
<1>4. CASE Command
  <2>1. PICK now \in Times :
          \/ \E e \in Email, p \in Password : CreateUser(e, p, now)
          \/ \E u \in Ids :
               \/ \E p \in Password : SetPassword(u, p, now)
               \/ \E e \in Email : SetEmail(u, e, now)
               \/ SetName(u, now) \/ Disable(u, now) \/ Activate(u, now) \/ RevokeSessions(u)
               \/ \E role \in {"admin", "user"} : SetRole(u, role, now)
    BY <1>4, Zenon DEF Command
  <2>2. CASE \E e \in Email, p \in Password : CreateUser(e, p, now)
    <3>1. PICK e \in Email, p \in Password : CreateUser(e, p, now)
      BY <2>2, Zenon
    <3>2. users' = Append(users, Row(e, p, "user", now)) /\ Row(e, p, "user", now) \in User
      BY <3>1, NewRow, Zenon DEF CreateUser
    <3> QED BY <1>2, <3>2, Zenon
  <2>3. ASSUME NEW u \in Ids, RevokeSessions(u) PROVE ActiveAdmins' # {}
    BY <1>1, <2>3, Zenon DEF RevokeSessions
  <2> QED BY <2>1, <2>2, <2>3, HarmlessEdit, GuardedEdit
<1>5. CASE Request
  <2>1. CASE \E r \in Req, now \in Times : CreateRegistered(r, now)
    <3>1. PICK r \in Req, now \in Times : CreateRegistered(r, now)
      BY <2>1, Zenon
    <3>2. \A w \in Ids : w \in Ids' /\ users'[w] = users[w]
      BY <3>1, RegisteredKeepsRows, Zenon
    <3> QED BY <3>2, RowsLeaveAdmin, Zenon
  <2>2. CASE ~\E r \in Req, now \in Times : CreateRegistered(r, now)
    BY <1>1, <1>5, <2>2, Zenon DEF Request, Authenticate, Login, BeginRegistration, BeginUpdate,
                            IssueSession, UpdateRegistration, Signout
  <2> QED BY <2>1, <2>2, Zenon
<1> QED BY <1>3, <1>4, <1>5, Zenon DEF Next

\* An active administrator remains until a recovery disables everyone: neither
\* the status and role commands nor a registration lose the last one.
THEOREM AdministratorStays == Spec => ActiveAdministratorRemains
<1>1. TypeOK /\ [Next]_vars =>
        [\/ \E now \in Times : RecoverStaleBackup(now)
         \/ ActiveAdmins # {} => ActiveAdmins' # {}]_vars
  BY AdministratorStep, Zenon
<1> QED BY <1>1, TypeCorrect, PTL DEF Spec, ActiveAdministratorRemains

\* While the setting is off the running server creates no account: what a
\* registration read before it hashed the password is read again.
THEOREM OffIsOff == Spec => OffMeansNoRegistration
<1>1. ASSUME [Next]_vars, up, ~enabled PROVE Len(users') = Len(users)
  <2> SUFFICES users' = users
    OBVIOUS
  <2>1. CASE Command
    BY <1>1, <2>1 DEF Command, Offline, CreateUser, RecoverStaleBackup, SetPassword, SetEmail,
                      SetName, Disable, Activate, RevokeSessions, SetRole
  <2>2. CASE Request
    BY <1>1, <2>2, Zenon
       DEF Request, Authenticate, Login, BeginRegistration, BeginUpdate, IssueSession,
                      UpdateRegistration, Signout, CreateRegistered, RegistrationOpen
  <2>3. CASE Start \/ Stop \/ UNCHANGED vars
    BY <2>3, Zenon DEF Start, Stop, vars
  <2> QED BY <1>1, <2>1, <2>2, <2>3 DEF Next
<1> QED BY <1>1, PTL DEF Spec, OffMeansNoRegistration
=============================================================================
