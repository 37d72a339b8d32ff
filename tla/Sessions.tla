------------------------------ MODULE Sessions ------------------------------
(***************************************************************************)
(* Users, roles and login sessions (src/security.c) and the client         *)
(* connections of the server that hold them (src/server.c).  A connection  *)
(* keeps both a pointer into the session array and a token; logging out    *)
(* shifts the array.  Functions of security.c are taken as running to      *)
(* completion one after another (the lock of the context is created and    *)
(* never taken); the per-address tracker of the server is updated by       *)
(* connection threads in separate steps.                                   *)
(***************************************************************************)
EXTENDS Integers, Sequences, FiniteSets, SequencesExt

CONSTANTS UserName, Password, WeakPassword, RoleName, Conn, Address,
          AddressOf,                        \* the peer address of a connection
          SECURITY_MAX_USERS, SECURITY_MAX_ROLES, SECURITY_MAX_SESSIONS,
          MaxUserRoles,                     \* 8 in the code
          max_failed_attempts, MAX_LOGIN_ATTEMPTS, lockout_duration, session_timeout,
          MAX_CLIENTS,                      \* places of the tracker table
          LastTime, MaxCalls                \* bounds: time(), logins and administrative calls

ASSUME SessionsAssumption ==
  /\ SECURITY_MAX_SESSIONS \in Nat /\ session_timeout \in Nat
  /\ \E p \in Password : p \notin WeakPassword

VARIABLES users, roles,   \* the arrays of the context, up to their counts
          slots,          \* the session array, all of its places
          session_count,
          saved,          \* security.dat: users and roles, or NoFile
          trackers,       \* g_ip_tracker up to its count
          conn,           \* ClientConnection of every connection
          token, now,     \* next fresh token, time()
          admin           \* administrative calls so far

secvars == <<users, roles, slots, session_count, saved>>
sessvars == <<users, roles, slots, session_count, saved, trackers, conn, token, now, admin>>

Permissions == {"CREATE_TABLE", "SELECT", "INSERT", "CREATE_USER", "SHUTDOWN"}
Role(n, p, s) == [name |-> n, permissions |-> p, is_system_role |-> s]

\* The predefined roles, with the permissions that the model tells apart.
security_init_roles ==
  << Role("superadmin", Permissions, TRUE),
     Role("admin", Permissions \ {"SHUTDOWN"}, TRUE),
     Role("developer", {"CREATE_TABLE", "SELECT", "INSERT"}, TRUE),
     Role("analyst", {"SELECT", "INSERT"}, TRUE),
     Role("readonly", {"SELECT"}, TRUE),
     Role("guest", {}, TRUE) >>

NoSession == [token |-> 0, username |-> "", permissions |-> {}, is_superuser |-> FALSE,
              expires_at |-> 0]
NoFile == [users |-> <<>>, roles |-> <<>>]
NewUser(id, name, pw, r) ==
  [user_id |-> id, username |-> name, password |-> pw, roles |-> <<r>>,
   locked |-> FALSE, failed_attempts |-> 0, lockout_until |-> 0,
   is_superuser |-> r = "superadmin"]
Closed == [open |-> FALSE, tracker |-> 0, session |-> 0, auth_token |-> 0,
           authenticated |-> FALSE, pc |-> "idle", seen |-> 0, login |-> NoSession]

\* Logins that open a session and administrative calls are bounded together.
MoreCalls == admin + token <= MaxCalls

\* Positions of the entries with a name or a token; 0 when there is none.
First(m) == IF m = {} THEN 0 ELSE CHOOSE i \in m : \A j \in m : i <= j
security_find_user(us, n) == First({i \in DOMAIN us : us[i].username = n})
security_find_role(n) == First({i \in DOMAIN roles : roles[i].name = n})
security_find_session(t) == First({i \in 1 .. session_count : slots[i].token = t})

security_validate_password(p) == p \notin WeakPassword
security_get_user_permissions(u) ==
  IF u.is_superuser THEN Permissions
  ELSE UNION {roles[security_find_role(u.roles[i])].permissions :
              i \in {j \in DOMAIN u.roles : security_find_role(u.roles[j]) # 0}}

-----------------------------------------------------------------------------
(* Start, and start after a stop: sessions are gone, users are reloaded. *)

\* With no security.dat, the superuser "admin" is created (and saved).
FirstUsers == <<NewUser(1, "admin", CHOOSE p \in Password : security_validate_password(p), "superadmin")>>
security_load == IF saved = NoFile
                 THEN /\ users' = FirstUsers /\ roles' = security_init_roles
                      /\ saved' = [users |-> users', roles |-> roles']
                 ELSE /\ users' = saved.users /\ roles' = saved.roles /\ UNCHANGED saved

security_init ==
  /\ users = FirstUsers /\ roles = security_init_roles
  /\ saved = [users |-> users, roles |-> roles]
  /\ slots = [i \in 1 .. SECURITY_MAX_SESSIONS |-> NoSession] /\ session_count = 0
  /\ trackers = <<>> /\ conn = [c \in Conn |-> Closed]
  /\ token = 1 /\ now = 0 /\ admin = 0

\* A crash loses what was not saved; security_shutdown saves first.
Restart(orderly) ==
  /\ IF orderly THEN /\ saved' = [users |-> users, roles |-> roles]
                     /\ UNCHANGED <<users, roles>>
                ELSE security_load
  /\ slots' = [i \in DOMAIN slots |-> NoSession] /\ session_count' = 0
  /\ trackers' = <<>> /\ conn' = [c \in Conn |-> Closed]
  /\ UNCHANGED <<token, now>>

-----------------------------------------------------------------------------
(* Users and roles. *)

Save == saved' = [users |-> users', roles |-> roles']
NoSave == UNCHANGED saved
KeepSessions == UNCHANGED <<slots, session_count, trackers, conn, token, now>>

security_create_user(n, pw, r) ==
  /\ security_find_user(users, n) = 0 /\ security_validate_password(pw)
  /\ Len(users) < SECURITY_MAX_USERS
  /\ users' = Append(users, [NewUser(Len(users) + 1, n, pw,
                                     IF security_find_role(r) # 0 THEN r ELSE "guest")
                             EXCEPT !.is_superuser = r = "superadmin"])
  /\ UNCHANGED roles /\ Save /\ KeepSessions

Superusers(us) == {i \in DOMAIN us : us[i].is_superuser}
security_delete_user(n) ==
  LET i == security_find_user(users, n)
  IN  /\ i # 0
      /\ users[i].is_superuser => Cardinality(Superusers(users)) > 1
      /\ users' = RemoveAt(users, i)
      /\ UNCHANGED roles /\ Save /\ KeepSessions

SetUser(n, u(_)) ==
  LET i == security_find_user(users, n)
  IN  /\ i # 0
      /\ users' = [users EXCEPT ![i] = u(users[i])]
      /\ UNCHANGED roles /\ KeepSessions

security_change_password(n, pw) ==
  security_validate_password(pw) /\ SetUser(n, LAMBDA u : [u EXCEPT !.password = pw]) /\ Save

LockedUser(u) == [u EXCEPT !.locked = TRUE, !.lockout_until = now + lockout_duration]
UnlockedUser(u) == [u EXCEPT !.locked = FALSE, !.failed_attempts = 0, !.lockout_until = 0]
security_lock_user(n) == SetUser(n, LockedUser) /\ NoSave
security_unlock_user(n) == SetUser(n, UnlockedUser) /\ NoSave

security_create_role(r) ==
  /\ Len(roles) < SECURITY_MAX_ROLES /\ security_find_role(r) = 0
  /\ roles' = Append(roles, Role(r, {"SELECT"}, FALSE))
  /\ UNCHANGED users /\ NoSave /\ KeepSessions
security_delete_role(r) ==
  /\ security_find_role(r) # 0 /\ ~ roles[security_find_role(r)].is_system_role
  /\ roles' = RemoveAt(roles, security_find_role(r))
  /\ UNCHANGED users /\ NoSave /\ KeepSessions

security_grant_role(n, r) ==
  /\ security_find_role(r) # 0
  /\ security_find_user(users, n) # 0
  /\ LET u == users[security_find_user(users, n)]
     IN  r \notin ToSet(u.roles) /\ Len(u.roles) < MaxUserRoles
  /\ SetUser(n, LAMBDA u : [u EXCEPT !.roles = Append(@, r)]) /\ NoSave
security_revoke_role(n, r) ==
  /\ security_find_user(users, n) # 0
  /\ r \in ToSet(users[security_find_user(users, n)].roles)
  /\ SetUser(n, LAMBDA u : [u EXCEPT !.roles =
                 RemoveAt(@, CHOOSE i \in DOMAIN @ : @[i] = r)]) /\ NoSave

-----------------------------------------------------------------------------
(* Sessions. *)

(* Mutant: the shift starts one place too late. *)
ShiftPast(ss, i, n) == [j \in DOMAIN ss |-> IF i < j /\ j < n THEN ss[j + 1] ELSE ss[j]]

\* memmove over place i: places up to the count move down, the last one keeps
\* its old bytes.
Shift(ss, i, n) == [j \in DOMAIN ss |-> IF i <= j /\ j < n THEN ss[j + 1] ELSE ss[j]]

\* Expired sessions are shifted away from the last place to the first.
Cleaned(ss, n) ==
  LET after[k \in 0 .. n] ==
        IF k = 0 THEN [slots |-> ss, count |-> n]
        ELSE LET s == after[k - 1]
                 i == n + 1 - k
             IN  IF now <= s.slots[i].expires_at THEN s
                 ELSE [slots |-> Shift(s.slots, i, s.count), count |-> s.count - 1]
  IN  after[n]

security_logout(t) ==
  LET i == security_find_session(t)
  IN  IF i = 0 THEN UNCHANGED <<slots, session_count>>
      ELSE /\ slots' = Shift(slots, i, session_count)
           /\ session_count' = session_count - 1

security_validate_session(c) ==
  /\ conn[c].authenticated
  /\ LET i == security_find_session(conn[c].auth_token)
     IN  i # 0 /\ now > slots[i].expires_at
  /\ security_logout(conn[c].auth_token)
  /\ UNCHANGED <<users, roles, saved, trackers, conn, token, now>>

security_touch_session(t) ==
  LET i == security_find_session(t)
  IN  slots' = IF i = 0 THEN slots ELSE [slots EXCEPT ![i].expires_at = now + session_timeout]

security_cleanup_sessions ==
  /\ slots' = Cleaned(slots, session_count).slots
  /\ session_count' = Cleaned(slots, session_count).count
  /\ UNCHANGED <<users, roles, saved, trackers, conn, token, now>>

\* The login outcomes of security_login after the user was found: the account
\* as it is left, and whether a session may be opened.
Expired(u) == IF u.locked /\ u.lockout_until <= now
              THEN [u EXCEPT !.locked = FALSE, !.failed_attempts = 0] ELSE u
Failed(u) == LET f == [u EXCEPT !.failed_attempts = @ + 1]
             IN  IF f.failed_attempts >= max_failed_attempts THEN LockedUser(f) ELSE f

\* A full array is cleaned first.
Full == session_count >= SECURITY_MAX_SESSIONS
Base == IF Full THEN Cleaned(slots, session_count).count ELSE session_count
OpenSession(u) ==
  LET ss == IF Full THEN Cleaned(slots, session_count).slots ELSE slots
      s == [token |-> token, username |-> u.username,
            permissions |-> security_get_user_permissions(u),
            is_superuser |-> u.is_superuser, expires_at |-> now + session_timeout]
  IN  /\ slots' = IF Base < SECURITY_MAX_SESSIONS THEN [ss EXCEPT ![Base + 1] = s] ELSE ss
      /\ session_count' = IF Base < SECURITY_MAX_SESSIONS THEN Base + 1 ELSE Base
      /\ token' = IF Base < SECURITY_MAX_SESSIONS THEN token + 1 ELSE token

SetConn(c, r) == conn' = [conn EXCEPT ![c] = r]

\* record_failed_login reads the tracker's counter and stores it later.
LoginRefused(c) ==
  /\ SetConn(c, [conn[c] EXCEPT !.pc = "failed",
       !.seen = IF conn[c].tracker = 0 THEN 0 ELSE trackers[conn[c].tracker].failed_logins])

NotAdmitted(n) ==
  LET i == security_find_user(users, n)
  IN  i # 0 => users[i].locked /\ users[i].lockout_until > now
UserStep(n, u(_)) ==
  LET i == security_find_user(users, n) IN users' = [users EXCEPT ![i] = u(users[i])]
WrongPassword(n, pw) == users[security_find_user(users, n)].password # pw

\* The account is admitted and the password right.
LoginAccepted(c, n) ==
  /\ OpenSession(users[security_find_user(users, n)])
  /\ \/ /\ Base < SECURITY_MAX_SESSIONS
        /\ UserStep(n, LAMBDA u : [Expired(u) EXCEPT !.failed_attempts = 0])
        /\ SetConn(c, [conn[c] EXCEPT !.session = Base + 1, !.auth_token = token,
                         !.authenticated = TRUE, !.pc = "succeeded", !.login = slots'[Base + 1]])
     \/ ~ (Base < SECURITY_MAX_SESSIONS) /\ UserStep(n, Expired) /\ LoginRefused(c)

security_login(c, n, pw) ==
  /\ conn[c].pc = "login" /\ MoreCalls
  /\ \/ /\ NotAdmitted(n)
        /\ LoginRefused(c) /\ UNCHANGED <<users, slots, session_count, token>>
     \/ /\ ~ NotAdmitted(n) /\ WrongPassword(n, pw)
        /\ UserStep(n, LAMBDA u : Failed(Expired(u)))
        /\ LoginRefused(c) /\ UNCHANGED <<slots, session_count, token>>
     \/ ~ NotAdmitted(n) /\ ~ WrongPassword(n, pw) /\ LoginAccepted(c, n)
  /\ UNCHANGED <<roles, saved, trackers, now>>

-----------------------------------------------------------------------------
(* Connections. *)

\* find_or_create_ip_tracker, under g_ip_lock; 0 (NULL) when the table is full.
find_or_create_ip_tracker(ip) ==
  LET i == First({j \in DOMAIN trackers : trackers[j].ip = ip})
  IN  IF i # 0 THEN i ELSE IF Len(trackers) < MAX_CLIENTS THEN Len(trackers) + 1 ELSE 0
NewTracker(ip) == [ip |-> ip, failed_logins |-> 0, lockout_until |-> 0]

\* The accept loop of main.
Connect(c) ==
  /\ ~ conn[c].open
  /\ LET i == find_or_create_ip_tracker(AddressOf[c])
     IN  /\ SetConn(c, [Closed EXCEPT !.open = TRUE, !.tracker = i])
         /\ trackers' = IF i > Len(trackers) THEN Append(trackers, NewTracker(AddressOf[c])) ELSE trackers
  /\ UNCHANGED <<secvars, token, now>>

Idle(c) == conn[c].open /\ conn[c].pc = "idle"

\* handle_login: the lockout of the address first (an expired one is cleared).
handle_login(c) ==
  /\ Idle(c)
  /\ LET t == conn[c].tracker
         locked == t # 0 /\ trackers[t].lockout_until > now
     IN  /\ IF locked THEN UNCHANGED conn ELSE SetConn(c, [conn[c] EXCEPT !.pc = "login"])
         /\ trackers' = IF t # 0 /\ ~ locked /\ trackers[t].lockout_until > 0
                        THEN [trackers EXCEPT ![t].failed_logins = 0, ![t].lockout_until = 0]
                        ELSE trackers
  /\ UNCHANGED <<secvars, token, now>>

record_failed_login(c) ==
  /\ conn[c].pc = "failed"
  /\ LET t == conn[c].tracker
         n == conn[c].seen + 1
     IN  trackers' = IF t = 0 THEN trackers
                     ELSE [trackers EXCEPT ![t].failed_logins = n,
                             ![t].lockout_until = IF n >= MAX_LOGIN_ATTEMPTS
                                                  THEN now + lockout_duration
                                                  ELSE trackers[t].lockout_until]
  /\ SetConn(c, [conn[c] EXCEPT !.pc = "idle", !.seen = 0])
  /\ UNCHANGED <<secvars, token, now>>

record_successful_login(c) ==
  /\ conn[c].pc = "succeeded"
  /\ LET t == conn[c].tracker
     IN  trackers' = IF t = 0 THEN trackers
                     ELSE [trackers EXCEPT ![t].failed_logins = 0, ![t].lockout_until = 0]
  /\ SetConn(c, [conn[c] EXCEPT !.pc = "idle"])
  /\ UNCHANGED <<secvars, token, now>>

handle_logout(c) ==
  /\ Idle(c) /\ conn[c].authenticated
  /\ security_logout(conn[c].auth_token)
  /\ SetConn(c, [conn[c] EXCEPT !.session = 0, !.auth_token = 0, !.authenticated = FALSE,
                                !.login = NoSession])
  /\ UNCHANGED <<users, roles, saved, trackers, token, now>>

\* The end of client_handler: EXIT, or the peer is gone.
Disconnect(c) ==
  /\ Idle(c)
  /\ IF conn[c].authenticated THEN security_logout(conn[c].auth_token)
                              ELSE UNCHANGED <<slots, session_count>>
  /\ SetConn(c, Closed)
  /\ UNCHANGED <<users, roles, saved, trackers, token, now>>

\* The permission a command needs; a command not in the list needs none.
Required == [SELECT |-> {"SELECT"}, INSERT |-> {"INSERT"}, CREATE |-> {"CREATE_TABLE"}, DESCRIBE |-> {}]
security_session_has_permission(s, ps) == s.is_superuser \/ ps \subseteq s.permissions
security_authorize_command(c, cmd) ==
  security_session_has_permission(slots[conn[c].session], Required[cmd])

\* execute_client_query up to the authorisation: the session is touched by its
\* token.  A command whose first token carries a text is then allowed or refused
\* by the session the pointer leads to, which changes nothing here.
execute_client_query(c) ==
  /\ Idle(c) /\ conn[c].authenticated
  /\ security_touch_session(conn[c].auth_token)
  /\ UNCHANGED <<users, roles, saved, session_count, trackers, conn, token, now>>

\* CREATE USER of the server.
handle_create_user(c, n, pw, r) ==
  /\ Idle(c) /\ conn[c].authenticated
  /\ security_session_has_permission(slots[conn[c].session], {"CREATE_USER"})
  /\ security_create_user(n, pw, r)

Tick == now < LastTime /\ now' = now + 1
        /\ UNCHANGED <<secvars, trackers, conn, token>>

Admin ==
  \/ \E n \in UserName : \/ security_delete_user(n)
                         \/ \E pw \in Password : security_change_password(n, pw)
                         \/ security_lock_user(n) \/ security_unlock_user(n)
                         \/ \E r \in RoleName : security_grant_role(n, r) \/ security_revoke_role(n, r)
  \/ \E r \in RoleName : security_create_role(r) \/ security_delete_role(r)
  \/ \E c \in Conn, n \in UserName, pw \in Password, r \in RoleName : handle_create_user(c, n, pw, r)

ServerStep(c) ==
  \/ Connect(c) \/ Disconnect(c) \/ handle_login(c) \/ handle_logout(c)
  \/ \E n \in UserName, pw \in Password : security_login(c, n, pw)
  \/ record_failed_login(c) \/ record_successful_login(c) \/ execute_client_query(c)
  \/ security_validate_session(c)

SecNext ==
  \/ MoreCalls /\ Admin /\ admin' = admin + 1
  \/ /\ (\E c \in Conn : ServerStep(c)) \/ security_cleanup_sessions \/ Tick \/ (\E o \in BOOLEAN : Restart(o))
     /\ UNCHANGED admin

-----------------------------------------------------------------------------

(* security_find_session: the token of a connection leads to the session its
   own login opened, with the user and the permissions of that login, or, no
   earlier than that session's expiry, to none; tokens in the array are
   distinct; and while the connection's pointer still leads to that session,
   its commands are allowed exactly when the user's permissions at login allow
   them.  Logouts and cleanups of other connections, which shift the array, do
   not change this. *)
TokenFindsOwnSession ==
  /\ \A i, j \in 1 .. session_count : slots[i].token = slots[j].token => i = j
  /\ \A c \in Conn : conn[c].authenticated =>
       LET i == security_find_session(conn[c].auth_token)
       IN  /\ now <= conn[c].login.expires_at => i # 0
           /\ i # 0 => /\ [slots[i] EXCEPT !.expires_at = 0] = [conn[c].login EXCEPT !.expires_at = 0]
                       /\ i = conn[c].session => \A cmd \in DOMAIN Required :
                            security_authorize_command(c, cmd)
                              <=> conn[c].login.is_superuser \/ Required[cmd] \subseteq conn[c].login.permissions
  /\ \A c \in Conn : conn[c].open /\ conn[c].tracker # 0 => trackers[conn[c].tracker].ip = AddressOf[c]

(* security_delete_user with security_save and security_load: some user is a
   superuser, in memory and after any restart, and no user name is taken twice. *)
SuperuserRemains ==
  \A us \in {users, saved.users} :
    /\ Superusers(us) # {}
    /\ \A i, j \in DOMAIN us : us[i].username = us[j].username => i = j

(* A connection's token leads to the session of its own login, with that
   login's permissions, and to none only once it has expired, whatever logouts
   and cleanups shift in the array; and some superuser remains. *)
SessionsSound == TokenFindsOwnSession /\ SuperuserRemains
=============================================================================
