----------------------------- MODULE AdminAuth -----------------------------
(***************************************************************************)
(* The dashboard's own accounts and sessions: cli/internal/adminauth, the   *)
(* handlers of cli/internal/webui that use it (login, logout, settings,     *)
(* administrators) and the webadmin commands of the CLI.  Every SQL         *)
(* statement is one step.  An actor is a browser or a shell running the     *)
(* CLI; what requireAuth put into the context of a request is kept in req   *)
(* and may be stale.                                                        *)
(***************************************************************************)
EXTENDS Naturals

CONSTANTS
    Browser, Shell,  \* who sends requests
    Username,        \* usernames as they are written
    Folded,          \* what the database compares in the place of a username
    Password,
    Token,           \* session cookies
    MaxAdminId,      \* bound on the AUTO_INCREMENT of admin_users
    Faults,          \* whether a statement may fail, or a request end early
    None             \* "no value"

\* The columns have a case-insensitive collation: "ADMIN" finds the row of "admin".
Same(n, m) == Folded[n] = Folded[m]

ASSUME ActorAssumption == Browser \cap Shell = {}
ASSUME AdminNoneAssumption == None \notin Username \cup Password \cup Token
ASSUME AdminBoundAssumption == MaxAdminId \in Nat \ {0}
ASSUME SwitchAssumption == Faults \in BOOLEAN

VARIABLES
    admin_users,     \* rows of admin_users
    admin_sessions,  \* rows of admin_sessions; name and under are history: the account and
                     \* the password the session was opened with
    lastAdmin,       \* AUTO_INCREMENT of admin_users
    cookie,          \* the session cookie of each browser
    req,             \* the request each actor is executing
    apart            \* history: so far no request has overlapped another or ended early

vars == << admin_users, admin_sessions, lastAdmin, cookie, req, apart >>

Actor == Browser \cup Shell

UserRow    == [id : Nat, username : Username, password : Password]
SessionRow == [user_id : Nat, token : Token, expired : BOOLEAN, name : Username,
               under : Password]

\* id and user are userFromContext(r) or the result of Authenticate, name and pw the
\* account and the password the request is about.
Idle    == [at |-> "idle", id |-> 0, user |-> None, name |-> None, pw |-> None]
Request == [at : {"idle", "cleanup", "insert", "authenticate", "update", "endSessions",
                  "create", "delete"},
            id : Nat, user : Username \cup {None}, name : Username \cup {None},
            pw : Password \cup {None}]

TypeOK ==
    /\ admin_users \subseteq UserRow
    /\ admin_sessions \subseteq SessionRow
    /\ lastAdmin \in Nat
    /\ cookie \in [Browser -> Token \cup {None}]
    /\ req \in [Actor -> Request]

\* The installer has created the first account.
Init ==
    /\ \E u \in Username, p \in Password : admin_users = {[id |-> 1, username |-> u, password |-> p]}
    /\ admin_sessions = {}
    /\ lastAdmin = 1
    /\ cookie = [b \in Browser |-> None]
    /\ req = [a \in Actor |-> Idle]
    /\ apart = TRUE

CanStart(a) == req[a] = Idle
At(a, l)   == req[a].at = l
Goto(a, l) == req' = [req EXCEPT ![a].at = l]
Return(a)  == req' = [req EXCEPT ![a] = Idle]
Tables     == << admin_users, admin_sessions, lastAdmin >>

-----------------------------------------------------------------------------
(* The statements of adminauth.Store.                                       *)

IsAdmin(name) == \E u \in admin_users : Same(u.username, name)

\* Mutant: ids restart below a deleted row.
CreateUserReusedId(name, p) ==
    /\ \/ IsAdmin(name) /\ UNCHANGED << admin_users, lastAdmin >>
       \/ /\ ~IsAdmin(name)
          /\ \E i \in 1 .. MaxAdminId :
                /\ \A u \in admin_users : u.id # i
                /\ admin_users' = admin_users \cup {[id |-> i, username |-> name, password |-> p]}
          /\ UNCHANGED lastAdmin
    /\ UNCHANGED admin_sessions

\* INSERT, refused for a username that exists (and, in the model, at the bound).
CreateUser(name, p) ==
    /\ \/ /\ IsAdmin(name) \/ lastAdmin = MaxAdminId
          /\ UNCHANGED << admin_users, lastAdmin >>
       \/ /\ ~IsAdmin(name)
          /\ lastAdmin < MaxAdminId
          /\ lastAdmin' = lastAdmin + 1
          /\ admin_users' = admin_users \cup
                {[id |-> lastAdmin + 1, username |-> name, password |-> p]}
    /\ UNCHANGED admin_sessions

\* DELETE, cascading to admin_sessions.
DeleteUser(name) ==
    /\ admin_users' = {u \in admin_users : ~Same(u.username, name)}
    /\ admin_sessions' = {s \in admin_sessions :
          ~\E u \in admin_users : u.id = s.user_id /\ Same(u.username, name)}
    /\ UNCHANGED lastAdmin

\* The row VerifySession finds for the cookie of b: u is the account.
VerifySession(b, u) ==
    /\ u \in admin_users
    /\ \E s \in admin_sessions : s.token = cookie[b] /\ ~s.expired /\ s.user_id = u.id

SignedIn(b) == \E u \in admin_users : VerifySession(b, u)

\* The two statements of ChangePassword.  The UPDATE finds no row when the account is gone.
ChangePasswordUpdate(a) ==
    /\ At(a, "update")
    /\ IF IsAdmin(req[a].name)
       THEN /\ admin_users' = {IF Same(u.username, req[a].name)
                               THEN [u EXCEPT !.password = req[a].pw] ELSE u : u \in admin_users}
            /\ Goto(a, "endSessions")
       ELSE Return(a) /\ UNCHANGED admin_users
    /\ UNCHANGED << admin_sessions, lastAdmin, cookie >>

\* Mutant: only the password is changed.
EndSessionsNot(a) ==
    /\ At(a, "endSessions")
    /\ IF a \in Browser THEN Goto(a, "cleanup") ELSE Return(a)
    /\ UNCHANGED << Tables, cookie >>

\* Then handleSettingsPassword goes on with CreateSession, the CLI is done.
ChangePasswordEndSessions(a) ==
    /\ At(a, "endSessions")
    /\ admin_sessions' = {s \in admin_sessions :
          ~\E u \in admin_users : u.id = s.user_id /\ Same(u.username, req[a].name)}
    /\ IF a \in Browser THEN Goto(a, "cleanup") ELSE Return(a)
    /\ UNCHANGED << admin_users, lastAdmin, cookie >>

\* CreateSession deletes the expired sessions (and ignores a failure), then inserts; the
\* caller sets the cookie.  The token is 32 random bytes: no session and no browser has it
\* (when the tokens of the instance are used up, generateToken fails).
CreateSessionCleanup(b) ==
    /\ At(b, "cleanup")
    /\ \/ admin_sessions' = {s \in admin_sessions : ~s.expired}
       \/ Faults /\ UNCHANGED admin_sessions
    /\ Goto(b, "insert")
    /\ UNCHANGED << admin_users, lastAdmin, cookie >>

FreshToken(t) == (\A s \in admin_sessions : s.token # t) /\ (\A b \in Browser : cookie[b] # t)

\* Mutant: the new cookie is not sent.
CreateSessionKeepsCookie(b) ==
    /\ At(b, "insert")
    /\ \E t \in Token :
          /\ FreshToken(t)
          /\ admin_sessions' = admin_sessions \cup
                {[user_id |-> req[b].id, token |-> t, expired |-> FALSE,
                  name |-> req[b].user, under |-> req[b].pw]}
    /\ Return(b)
    /\ UNCHANGED << admin_users, lastAdmin, cookie >>

CreateSessionInsert(b) ==
    /\ At(b, "insert")
    /\ \/ \E t \in Token :
             /\ FreshToken(t)
             /\ \E u \in admin_users : u.id = req[b].id
             /\ admin_sessions' = admin_sessions \cup
                   {[user_id |-> req[b].id, token |-> t, expired |-> FALSE,
                     name |-> req[b].user, under |-> req[b].pw]}
             /\ cookie' = [cookie EXCEPT ![b] = t]
       \/ /\ (\A u \in admin_users : u.id # req[b].id) \/ (\A t \in Token : ~FreshToken(t))
          /\ UNCHANGED << admin_sessions, cookie >>
    /\ Return(b)
    /\ UNCHANGED << admin_users, lastAdmin >>

-----------------------------------------------------------------------------
(* The handlers.                                                            *)

\* handleLoginSubmit: Authenticate has read the account and its hash, and the password fits.
Login(b) ==
    /\ CanStart(b)
    /\ \E u \in admin_users :
          req' = [req EXCEPT ![b] = [at |-> "cleanup", id |-> u.id, user |-> u.username,
                                     name |-> u.username, pw |-> u.password]]
    /\ UNCHANGED << Tables, cookie >>

\* handleLogout: a failed DELETE is ignored.
Logout(b) ==
    /\ CanStart(b)
    /\ \/ admin_sessions' = {s \in admin_sessions : s.token # cookie[b]}
       \/ Faults /\ UNCHANGED admin_sessions
    /\ cookie' = [cookie EXCEPT ![b] = None]
    /\ UNCHANGED << admin_users, lastAdmin, req >>

\* requireAuth refuses, also when the SELECT of VerifySession fails: the cookie is cleared.
redirectToLogin(b) ==
    /\ CanStart(b)
    /\ cookie[b] # None
    /\ ~SignedIn(b) \/ Faults
    /\ cookie' = [cookie EXCEPT ![b] = None]
    /\ UNCHANGED << Tables, req >>

\* requireAuth lets the request of account u pass to its handler.
requireAuth(b, u, l, name, p) ==
    /\ CanStart(b)
    /\ VerifySession(b, u)
    /\ req' = [req EXCEPT ![b] = [at |-> l, id |-> u.id, user |-> u.username,
                                  name |-> name, pw |-> p]]
    /\ UNCHANGED << Tables, cookie >>

handleSettingsPassword(b) ==
    \E u \in admin_users, p \in Password : requireAuth(b, u, "authenticate", u.username, p)

\* Its Authenticate, by username: the current password that was typed fits, or does not.
SettingsAuthenticate(b) ==
    /\ At(b, "authenticate")
    /\ \/ IsAdmin(req[b].name) /\ Goto(b, "update")
       \/ Return(b)
    /\ UNCHANGED << Tables, cookie >>

handleAdminAdd(b) ==
    \E u \in admin_users, n \in Username, p \in Password : requireAuth(b, u, "create", n, p)

AdminAddInsert(b) ==
    /\ At(b, "create")
    /\ CreateUser(req[b].name, req[b].pw)
    /\ Return(b)
    /\ UNCHANGED cookie

\* Mutant: one may remove one's own account.
handleAdminDeleteOwn(b) ==
    \E u \in admin_users, n \in Username : requireAuth(b, u, "delete", n, None)

\* The name in the path is compared with one's own as it is written.
handleAdminDelete(b) ==
    \E u \in admin_users, n \in Username :
        n # u.username /\ requireAuth(b, u, "delete", n, None)

AdminDeleteRow(b) ==
    /\ At(b, "delete")
    /\ DeleteUser(req[b].name)
    /\ Return(b)
    /\ UNCHANGED cookie

-----------------------------------------------------------------------------
(* patrabahok webadmin add | passwd | remove.                               *)

WebadminAdd(a) ==
    /\ CanStart(a)
    /\ \E n \in Username, p \in Password : CreateUser(n, p)
    /\ UNCHANGED << cookie, req >>

WebadminPasswd(a) ==
    /\ CanStart(a)
    /\ \E n \in Username, p \in Password :
          req' = [req EXCEPT ![a] = [Idle EXCEPT !.at = "update", !.name = n, !.pw = p]]
    /\ UNCHANGED << Tables, cookie >>

WebadminRemove(a) ==
    /\ CanStart(a)
    /\ \E n \in Username : DeleteUser(n)
    /\ UNCHANGED << cookie, req >>

-----------------------------------------------------------------------------
\* sessionTTL passes for a session.
Expire ==
    /\ \E s \in admin_sessions :
          /\ ~s.expired
          /\ admin_sessions' = (admin_sessions \ {s}) \cup {[s EXCEPT !.expired = TRUE]}
    /\ UNCHANGED << admin_users, lastAdmin, cookie, req >>

\* A statement fails, the browser goes away or the process ends: what is done stays.
Abandon(a) ==
    /\ Faults
    /\ req[a] # Idle
    /\ Return(a)
    /\ UNCHANGED << Tables, cookie >>

Browse(b) ==
    \/ Login(b) \/ Logout(b) \/ redirectToLogin(b)
    \/ handleSettingsPassword(b) \/ SettingsAuthenticate(b)
    \/ CreateSessionCleanup(b) \/ CreateSessionInsert(b)
    \/ handleAdminAdd(b) \/ AdminAddInsert(b)
    \/ handleAdminDelete(b) \/ AdminDeleteRow(b)

Command(a) == WebadminAdd(a) \/ WebadminPasswd(a) \/ WebadminRemove(a)

ChangePassword(a) == ChangePasswordUpdate(a) \/ ChangePasswordEndSessions(a)

\* A step of actor a, while others are in the middle of a request or not.
Undisturbed(a) == apart' = (apart /\ \A o \in Actor : o # a => req[o] = Idle)

Next ==
    \/ \E b \in Browser : Browse(b) /\ Undisturbed(b)
    \/ \E a \in Shell : Command(a) /\ Undisturbed(a)
    \/ \E a \in Actor : ChangePassword(a) /\ Undisturbed(a)
    \/ \E a \in Actor : Abandon(a) /\ apart' = FALSE
    \/ Expire /\ UNCHANGED apart

Spec == Init /\ [][Next]_vars

-----------------------------------------------------------------------------
(* Properties.                                                              *)

\* A session belongs to the account it was opened for, for as long as it exists: removing an
\* administrator ends the sessions, and an account added later under the same name does not
\* inherit them, not even from a request that was authenticated before the removal.
SessionsOwned ==
    \A s \in admin_sessions : \E u \in admin_users : u.id = s.user_id /\ u.username = s.name

\* Unique keys, and ids that AUTO_INCREMENT has handed out.
AdminKeys ==
    /\ \A u, v \in admin_users : u.id = v.id \/ Same(u.username, v.username) => u = v
    /\ \A u \in admin_users : 1 <= u.id /\ u.id <= lastAdmin

\* The id a request carries is that of the account it names, or of none.
InContext(a, q) ==
    /\ q.id <= lastAdmin
    /\ \A u \in admin_users : u.id = q.id => u.username = q.user
    /\ q.at # "idle" => q.name # None
    /\ q.at # "idle" /\ a \in Browser => q.user # None
    /\ q.at \notin {"idle", "delete"} => q.pw # None

ContextOK == \A a \in Actor : InContext(a, req[a])

\* The inductive invariant behind SessionsOwned.
AdminInv == TypeOK /\ AdminKeys /\ SessionsOwned /\ ContextOK

\* Changing a password "ends every existing session for the account": a session that still
\* works was opened with the password the account has now.
SessionsMatchPassword ==
    \A s \in admin_sessions, u \in admin_users :
        /\ u.id = s.user_id
        /\ \A a \in Actor : ~(req[a].at = "endSessions" /\ Same(u.username, req[a].name))
        => s.under = u.password

\* So it is as long as requests are completed one after the other.
PasswordEndsSessions == apart => SessionsMatchPassword

\* Removing oneself, by a name that the handler took for somebody else's.
RemovesSelf(b) ==
    AdminDeleteRow(b) /\ req[b].name # req[b].user /\ Same(req[b].name, req[b].user)

\* Likewise the dashboard never removes its last administrator, although no statement counts
\* them: the one who removes another is still there.  Only the command line empties the table,
\* or an administrator who is taken for somebody else.
AdminRemains ==
    [][apart' /\ admin_users # {} /\ admin_users' = {} =>
          \/ \E a \in Shell : WebadminRemove(a)
          \/ \E b \in Browser : RemovesSelf(b)]_vars

\* "You can't remove your own account while signed in."
OwnAccountStays ==
    [][\A b \in Browser : AdminDeleteRow(b) =>
          \A u \in admin_users : u.id = req[b].id => u \in admin_users']_vars

\* The administrator who changed the password stays signed in, although every session of the
\* account was ended on the way, if the request is not broken off; others may overlap it.
StaysSignedIn ==
    [][\A b \in Browser :
          /\ req[b].at = "insert" /\ req'[b] = Idle /\ ~Abandon(b)
          /\ (\E t \in Token : FreshToken(t)) /\ (\E u \in admin_users : u.id = req[b].id)
          => SignedIn(b)']_vars
=============================================================================
