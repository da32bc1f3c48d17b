------------------------------- MODULE Sessions -------------------------------
(***************************************************************************)
(* Bearer sessions (apps/server-rust/src/db.rs): issuing, sliding renewal, *)
(* expiry and revocation.  A request reads the clock first and waits for   *)
(* the connection's mutex afterwards, so two requests may apply their      *)
(* readings in the other order, and the clock may be set back.  Accounts   *)
(* and memberships are reduced to who is active and who may use one vault. *)
(***************************************************************************)
EXTENDS Naturals, FiniteSets

CONSTANTS
  User,
  Token,        \* the tokens that new_token returns, each at most once
  Req,          \* requests in progress at the same time
  MaxSessions,  \* MAX_SESSIONS
  MaxPerUser,   \* MAX_SESSIONS_PER_USER
  TTL,          \* session_ttl
  MaxClock,     \* bound: the last instant
  Rollback      \* the clock may be set back

ASSUME SessionAssumption ==
  /\ IsFiniteSet(Token) /\ MaxSessions \in Nat /\ MaxPerUser \in Nat
  /\ TTL \in Nat \ {0} /\ MaxClock \in Nat /\ Rollback \in BOOLEAN

VARIABLES
  clock,
  rows,      \* the sessions table
  active,    \* users whose status is active
  access,    \* users who own the vault or are members of it
  req,       \* what each request is about to do, and its reading of the clock
  issued     \* tokens issued so far

vars == <<clock, rows, active, access, req, issued>>

None   == [user |-> "none"]
Idle   == [op |-> "idle"]

\* `used` is history: the latest reading of an accepted use that renews.
Row == [user : User, expires : 1..MaxClock + TTL, revoked : BOOLEAN, used : 0..MaxClock]

Present == {t \in Token : rows[t] # None}
Live    == {t \in Present : ~rows[t].revoked}

Init ==
  /\ clock = 0 /\ active = User /\ access \in SUBSET User
  /\ rows = [t \in Token |-> None] /\ issued = {}
  /\ req = [r \in Req |-> Idle]

\* now_ms() moves on, or back.
SetClock(c) ==
  /\ c # clock /\ (~Rollback => c = clock + 1) /\ clock' = c
  /\ UNCHANGED <<rows, active, access, req, issued>>

\* A collaborator is invited or removed (Memberships).
SetAccess(u) ==
  /\ access' = IF u \in access THEN access \ {u} ELSE access \cup {u}
  /\ UNCHANGED <<clock, rows, active, req, issued>>

-----------------------------------------------------------------------------
\* auth_context_hash, with the reading `now`.
Valid(t, now) == t \in Live /\ rows[t].expires > now /\ rows[t].user \in active

\* valid_session_for_vault, which revalidation uses; it renews nothing.
ValidForVault(t, now) == Valid(t, now) /\ rows[t].user \in access

\* A request reads the clock, and then waits for the mutex.
Begin(r, op, x) ==
  /\ req[r] = Idle
  /\ req' = [req EXCEPT ![r] = [op |-> op, x |-> x, now |-> clock]]
  /\ UNCHANGED <<clock, rows, active, access, issued>>

Done(r) == req' = [req EXCEPT ![r] = Idle] /\ UNCHANGED <<clock, active, access>>

\* Faulty: an expired row is left in the table.
Swept_RevokedOnly(now) == [t \in Token |-> IF t \in Live THEN rows[t] ELSE None]

\* DELETE FROM sessions WHERE expires_at <= ? OR revoked_at IS NOT NULL
Swept(now) ==
  [t \in Token |-> IF t \in Live /\ rows[t].expires > now THEN rows[t] ELSE None]

\* What is left after the sweep leaves room for another session of u.
Room(left, u, now) ==
  /\ Cardinality({t \in Token : left[t] # None}) < MaxSessions
  /\ u \in active
  /\ Cardinality({t \in Token : left[t] # None /\ left[t].user = u
                                  /\ left[t].expires > now}) < MaxPerUser

\* issue_session_for_user; a refusal rolls the sweep back.
Issue(r) ==
  /\ req[r].op = "issue"
  /\ LET u == req[r].x  now == req[r].now IN
       IF Room(Swept(now), u, now)
       THEN \E t \in Token \ issued :
              /\ rows' = [Swept(now) EXCEPT ![t] =
                   [user |-> u, expires |-> now + TTL, revoked |-> FALSE, used |-> now]]
              /\ issued' = issued \cup {t}
       ELSE UNCHANGED <<rows, issued>>
  /\ Done(r)

\* Faulty: only the last quarter of the window renews.
Due_Late(t, now) == rows[t].expires <= now + TTL \div 4

\* The session is in the second half of its window.
Due(t, now) == rows[t].expires <= now + TTL \div 2

\* Faulty: the last request to get the mutex decides.
Slide_Last(t, now) == rows' = [rows EXCEPT ![t].expires = now + TTL, ![t].used = now]

\* The conditional UPDATE of a renewal, for a session the request accepts.
Slide(t, now) ==
  rows' = [rows EXCEPT ![t].expires = IF Due(t, now) THEN now + TTL ELSE @,
                       ![t].used = IF @ > now THEN @ ELSE now]

\* auth_context_hash_with_renewal
Renew(r) ==
  /\ req[r].op = "renew"
  /\ LET t == req[r].x  now == req[r].now IN
       IF Valid(t, now) THEN Slide(t, now) ELSE UNCHANGED rows
  /\ Done(r) /\ UNCHANGED issued

\* renew_session_for_vault
RenewForVault(r) ==
  /\ req[r].op = "renewForVault"
  /\ LET t == req[r].x  now == req[r].now IN
       IF ValidForVault(t, now) THEN Slide(t, now) ELSE UNCHANGED rows
  /\ Done(r) /\ UNCHANGED issued

-----------------------------------------------------------------------------
\* revoked_at=MAX(?,created_at): the time of a revocation is never looked at.
Ended(S) == [t \in Token |-> IF t \in S THEN [rows[t] EXCEPT !.revoked = TRUE] ELSE rows[t]]

\* revoke_session
Revoke(t) ==
  /\ t \in Present /\ rows' = Ended({t})
  /\ UNCHANGED <<clock, active, access, req, issued>>

\* The command revoke-all-sessions, which takes no lock: the server may be
\* running.  A renewal is one step here although it reads the row and updates
\* it, because the UPDATE repeats every condition.
RevokeAll == rows' = Ended(Live) /\ UNCHANGED <<clock, active, access, req, issued>>

\* The user commands exclude the server, whose requests are gone by then.
Offline == req' = [r \in Req |-> Idle] /\ UNCHANGED <<clock, access, issued>>

\* set_user_status("disabled"), offline
Disable(u) ==
  /\ rows' = Ended({t \in Live : rows[t].user = u})
  /\ active' = active \ {u} /\ Offline

\* set_user_status("active"), offline
Activate(u) == active' = active \cup {u} /\ UNCHANGED rows /\ Offline

Next ==
  \/ \E c \in 0..MaxClock : SetClock(c)
  \/ \E u \in User : SetAccess(u) \/ Disable(u) \/ Activate(u)
  \/ \E t \in Token : Revoke(t)
  \/ RevokeAll
  \/ \E r \in Req :
       \/ \E u \in User : Begin(r, "issue", u)
       \/ \E t \in Present : Begin(r, "renew", t) \/ Begin(r, "renewForVault", t)
       \/ Issue(r) \/ Renew(r) \/ RenewForVault(r)

Spec == Init /\ [][Next]_vars

-----------------------------------------------------------------------------
TypeOK ==
  /\ clock \in 0..MaxClock /\ active \subseteq User /\ access \subseteq User
  /\ rows \in [Token -> Row \cup {None}]
  /\ Present \subseteq issued
  /\ \A r \in Req : req[r] # Idle => req[r].now \in 0..MaxClock

\* Verification accepts the table whatever the clock says when it runs:
\* issue_session_for_user keeps the limits although readings are stale or go
\* back, since a session that looks expired to one reading and valid to another
\* is removed, not left out of the count.
TableVerifies ==
  /\ Cardinality(Present) <= MaxSessions
  /\ \A u \in User : Cardinality({t \in Live : rows[t].user = u}) <= MaxPerUser

\* The window slides with use: an accepted request leaves more than half a
\* window, so a client that is active in every half window is never signed out,
\* and a session expires at most TTL after its last renewing use.
WindowSlides ==
  \A t \in Live : /\ rows[t].expires > rows[t].used + TTL \div 2
                  /\ rows[t].expires <= rows[t].used + TTL

\* No request takes time away from a session, however old the reading it
\* applies, and a session that was revoked or swept never becomes valid again.
OnlyExtends ==
  [][\A t \in Token :
       /\ t \in Live /\ t \in Live' => rows'[t].expires >= rows[t].expires
       /\ t \in issued \ Live => t \notin Live']_vars

\* Disabling an account ends its sessions for good: no session of a user who is
\* disabled is left for the day the account is active again.
DisabledHoldNoSession == \A t \in Live : rows[t].user \in active

\* docs/architecture.md: "Renewal never revives an expired or revoked session".
ExpiredNeverRenewed ==
  [][\A t \in Live \cap Live' :
       rows'[t].expires > rows[t].expires => rows[t].expires > clock]_vars
=============================================================================
