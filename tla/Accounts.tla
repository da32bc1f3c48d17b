------------------------------- MODULE Accounts -------------------------------
(***************************************************************************)
(* Accounts, roles and self-registration (apps/server-rust/src/db.rs,      *)
(* main.rs, account.rs, admin.rs, server.rs).  The offline `user` commands *)
(* and the server exclude each other by the database lock and open the     *)
(* database only if it verifies.  Sign-in, registration and the            *)
(* registration setting are requests of several steps: what they read in   *)
(* one step they use in a later one.  Users are never deleted, so a user   *)
(* id is a position in the table.                                          *)
(***************************************************************************)
EXTENDS Naturals, Sequences, FiniteSets

CONSTANTS
  Email,     \* canonical addresses
  Password,  \* passwords, as hashes a sign-in verifies
  Req,       \* requests the server works on at the same time
  MaxUsers,  \* MAX_USERS
  Times      \* readings of the clock, in any order

ASSUME AccountAssumption ==
  /\ IsFiniteSet(Email) /\ MaxUsers \in Nat \ {0} /\ Times \subseteq Nat /\ Times # {}

VARIABLES
  users,     \* the rows of users, by id
  enabled,   \* server_settings.self_registration_enabled
  sessions,  \* unrevoked sessions: user id and the password they were issued for
  up,        \* the server runs and holds the database lock
  req        \* where each request stands

vars == <<users, enabled, sessions, up, req>>

Ids  == DOMAIN users
User == [email : Email, password : Password, status : {"active", "disabled"},
         role : {"admin", "user"}, created : Times, updated : Times]
Idle == [kind |-> "idle"]

Row(e, p, role, now) ==
  [email |-> e, password |-> p, status |-> "active", role |-> role,
   created |-> now, updated |-> now]

IsAdmin(u)     == users[u].role = "admin"
IsActive(u)    == users[u].status = "active"
Admins         == {u \in Ids : IsAdmin(u)}
ActiveAdmins   == {u \in Admins : IsActive(u)}
Taken(e)       == \E u \in Ids : users[u].email = e

-----------------------------------------------------------------------------
(* Verification, which every opening of the database starts with.          *)

\* verify_v7_invariants
AdministratorRetained == Admins # {}

\* verify_logical_invariants: updated_at BETWEEN created_at AND ...
UpdatedAfterCreation == \A u \in Ids : users[u].created <= users[u].updated

Opens ==
  /\ AdministratorRetained /\ UpdatedAfterCreation
  /\ Len(users) <= MaxUsers
  /\ \A u, w \in Ids : users[u].email = users[w].email => u = w

\* acquire_database_lock and open_offline_under_lock
Offline == ~up /\ Opens

-----------------------------------------------------------------------------
\* Db::initialize with the first user.
Init ==
  /\ \E e \in Email, p \in Password, now \in Times : users = <<Row(e, p, "admin", now)>>
  /\ enabled = FALSE /\ sessions = {} /\ up = FALSE
  /\ req = [r \in Req |-> Idle]

Start == ~up /\ Opens /\ up' = TRUE /\ UNCHANGED <<users, enabled, sessions, req>>

\* The server stops; its requests are lost.
Stop ==
  /\ up /\ up' = FALSE /\ req' = [r \in Req |-> Idle]
  /\ UNCHANGED <<users, enabled, sessions>>

\* Faulty: the sessions of the user stay valid.
EndSessions_Kept(u) == UNCHANGED sessions

\* UPDATE sessions SET revoked_at=... WHERE user_id=? AND revoked_at IS NULL
EndSessions(u) == sessions' = {s \in sessions : s[1] # u}

CreateUser(e, p, now) ==
  /\ Offline /\ Len(users) < MaxUsers /\ ~Taken(e)
  /\ users' = Append(users, Row(e, p, "user", now))
  /\ UNCHANGED <<enabled, sessions, up, req>>

\* set_user_password through update_user_and_revoke.
SetPassword(u, p, now) ==
  /\ Offline
  /\ users' = [users EXCEPT ![u].password = p, ![u].updated = now]
  /\ EndSessions(u)
  /\ UNCHANGED <<enabled, up, req>>

\* An address in use makes the transaction fail as a whole.
SetEmail(u, e, now) ==
  /\ Offline /\ (Taken(e) => users[u].email = e)
  /\ users' = [users EXCEPT ![u].email = e, ![u].updated = now]
  /\ EndSessions(u)
  /\ UNCHANGED <<enabled, up, req>>

SetName(u, now) ==
  /\ Offline
  /\ users' = [users EXCEPT ![u].updated = now]
  /\ UNCHANGED <<enabled, sessions, up, req>>

\* set_user_status("disabled")
Disable(u, now) ==
  /\ Offline /\ ~(IsAdmin(u) /\ Cardinality(ActiveAdmins) <= 1)
  /\ users' = [users EXCEPT ![u].status = "disabled", ![u].updated = now]
  /\ EndSessions(u)
  /\ UNCHANGED <<enabled, up, req>>

\* set_user_status("active")
Activate(u, now) ==
  /\ Offline
  /\ users' = [users EXCEPT ![u].status = "active", ![u].updated = now]
  /\ UNCHANGED <<enabled, sessions, up, req>>

\* Faulty: any administrator counts, a disabled one too.
MayDemote_AnyAdmin(u) == Cardinality(Admins) > 1

\* The condition under which set_user_role takes the role of an administrator.
MayDemote(u) == ~(IsActive(u) /\ Cardinality(ActiveAdmins) <= 1)

SetRole(u, role, now) ==
  /\ Offline /\ (IsAdmin(u) /\ role = "user" => MayDemote(u))
  /\ users' = [users EXCEPT ![u].role = role, ![u].updated = now]
  /\ EndSessions(u)
  /\ UNCHANGED <<enabled, up, req>>

\* revoke_user_sessions
RevokeSessions(u) == Offline /\ EndSessions(u) /\ UNCHANGED <<users, enabled, up, req>>

\* recover_stale_backup, of a backup taken after the last change, and the use of
\* the recovered database in place of the old one.
RecoverStaleBackup(now) ==
  /\ Offline
  /\ users' = [u \in Ids |-> [users[u] EXCEPT
                 !.status = "disabled", !.updated = IF @ > now THEN @ ELSE now]]
  /\ enabled' = FALSE /\ sessions' = {}
  /\ UNCHANGED <<up, req>>

-----------------------------------------------------------------------------
(* Requests.                                                               *)

Begin(r, state)  == up /\ req[r] = Idle /\ req' = [req EXCEPT ![r] = state]
At(r, kind)      == up /\ req[r].kind = kind
Finish(r)        == req' = [req EXCEPT ![r] = Idle]

\* authenticate_credentials verifies the password of an active user.
Authenticate(r, u, p) ==
  /\ IsActive(u) /\ users[u].password = p
  /\ Begin(r, [kind |-> "issue", user |-> u, password |-> p])
  /\ UNCHANGED <<users, enabled, sessions, up>>

\* The administration's login also requires the role.
Login(r, u, p) == IsAdmin(u) /\ Authenticate(r, u, p)

\* issue_session_for_user, whose transaction requires an active user.
IssueSession(r) ==
  /\ At(r, "issue")
  /\ sessions' = IF IsActive(req[r].user)
                 THEN sessions \cup {<<req[r].user, req[r].password>>} ELSE sessions
  /\ Finish(r) /\ UNCHANGED <<users, enabled, up>>

\* signout, and the administration's logout
Signout(s) == up /\ sessions' = sessions \ {s} /\ UNCHANGED <<users, enabled, up, req>>

\* register_account reads the setting, hashes the password ...
BeginRegistration(r, e, p) ==
  /\ enabled /\ Begin(r, [kind |-> "create", email |-> e, password |-> p])
  /\ UNCHANGED <<users, enabled, sessions, up>>

\* What create_self_registered_user requires inside its transaction.
RegistrationOpen(e) == enabled /\ Len(users) < MaxUsers /\ ~Taken(e)

\* ... and creates the account, or answers Disabled or Unavailable.
CreateRegistered(r, now) ==
  /\ At(r, "create")
  /\ users' = IF RegistrationOpen(req[r].email)
              THEN Append(users, Row(req[r].email, req[r].password, "user", now)) ELSE users
  /\ Finish(r) /\ UNCHANGED <<enabled, sessions, up>>

\* administrator() accepts the session of an active administrator.
BeginUpdate(r, s, on) ==
  /\ IsActive(s[1]) /\ IsAdmin(s[1])
  /\ Begin(r, [kind |-> "update", user |-> s[1], on |-> on])
  /\ UNCHANGED <<users, enabled, sessions, up>>

\* set_self_registration_enabled
UpdateRegistration(r) ==
  /\ At(r, "update")
  /\ enabled' = IF req[r].user \in ActiveAdmins THEN req[r].on ELSE enabled
  /\ Finish(r) /\ UNCHANGED <<users, sessions, up>>

Command ==
  \E now \in Times :
    \/ \E e \in Email, p \in Password : CreateUser(e, p, now)
    \/ RecoverStaleBackup(now)
    \/ \E u \in Ids :
         \/ \E p \in Password : SetPassword(u, p, now)
         \/ \E e \in Email : SetEmail(u, e, now)
         \/ SetName(u, now) \/ Disable(u, now) \/ Activate(u, now) \/ RevokeSessions(u)
         \/ \E role \in {"admin", "user"} : SetRole(u, role, now)

Request ==
  \/ \E r \in Req :
       \/ \E u \in Ids, p \in Password : Authenticate(r, u, p) \/ Login(r, u, p)
       \/ \E e \in Email, p \in Password : BeginRegistration(r, e, p)
       \/ \E s \in sessions, on \in BOOLEAN : BeginUpdate(r, s, on)
       \/ IssueSession(r) \/ UpdateRegistration(r)
       \/ \E now \in Times : CreateRegistered(r, now)
  \/ \E s \in sessions : Signout(s)

Next == Start \/ Stop \/ Command \/ Request

Spec == Init /\ [][Next]_vars

-----------------------------------------------------------------------------
TypeOK ==
  /\ users \in Seq(User) /\ users # <<>>
  /\ enabled \in BOOLEAN /\ up \in BOOLEAN
  /\ sessions \subseteq Ids \X Password
  /\ \A r \in Req : req[r] # Idle => up

\* Every valid session was obtained with the password its user has now, and
\* its user is active: a password change, or a disabled account, ends every
\* session, also one whose sign-in had verified the old password already.
SessionsMatchPassword ==
  \A s \in sessions : users[s[1]].password = s[2] /\ IsActive(s[1])

\* The emails and the number of users keep what verification requires, so only
\* the administrator and the time stamps can make the database unusable.
TableVerifies ==
  /\ Len(users) <= MaxUsers
  /\ \A u, w \in Ids : users[u].email = users[w].email => u = w

\* An active administrator remains until a recovery disables everyone: no
\* sequence of status and role changes, nor a registration, loses the last one.
ActiveAdministratorRemains ==
  [][\/ \E now \in Times : RecoverStaleBackup(now)
     \/ ActiveAdmins # {} => ActiveAdmins' # {}]_vars

\* While the setting is off the server creates no account, although a
\* registration that saw it on may still be hashing its password.
OffMeansNoRegistration == [][up /\ ~enabled => Len(users') = Len(users)]_vars
=============================================================================
