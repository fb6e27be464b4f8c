-------------------------- MODULE AdminAuthProofs --------------------------
(***************************************************************************)
(* Proofs about AdminAuth.  A dashboard session always belongs to the       *)
(* account it was opened for, for any number of browsers and shells whose   *)
(* requests overlap and break off anywhere (AdminInv), and whoever changes  *)
(* the password stays signed in.  As long as requests have run one after    *)
(* the other, a password change ends every other session and the dashboard  *)
(* keeps an administrator, but for one who removes himself under another    *)
(* spelling of his name (AloneInv).                                         *)
(***************************************************************************)
EXTENDS AdminAuth, TLAPS

\* An idle request satisfies what AdminInv says of requests: its id 0 is nobody's.
LEMMA IdleInContext ==
    ASSUME AdminInv PROVE Idle \in Request /\ \A a : InContext(a, Idle)
<1>1. Idle \in Request /\ Idle.id = 0 /\ Idle.at = "idle"
  BY DEF Idle, Request
<1>2. lastAdmin \in Nat /\ admin_users \subseteq UserRow
      /\ \A u \in admin_users : 1 <= u.id
  BY DEF AdminInv, TypeOK, AdminKeys
<1> QED BY <1>1, <1>2 DEF InContext, UserRow

\* A step keeps the invariant if the tables stay consistent, no account changes its name, new
\* accounts get new ids, and every request is good with respect to the old accounts.
LEMMA AdminStep ==
    ASSUME AdminInv,
           req' \in [Actor -> Request], \A d \in Actor : InContext(d, req'[d]),
           admin_users' \subseteq UserRow, admin_sessions' \subseteq SessionRow,
           AdminKeys', SessionsOwned', cookie' \in [Browser -> Token \cup {None}],
           lastAdmin' \in Nat, lastAdmin <= lastAdmin',
           \A u \in admin_users' : \/ u.id > lastAdmin
                                   \/ \E v \in admin_users : v.id = u.id /\ v.username = u.username
    PROVE  AdminInv'
<1>1. TypeOK'
  BY DEF TypeOK
<1>2. ContextOK'
  <2>1. SUFFICES ASSUME NEW d \in Actor PROVE InContext(d, req[d])'
    BY DEF ContextOK
  <2>2. PICK q \in Request : q = req'[d]
    OBVIOUS
  <2>3. InContext(d, q) /\ q.id \in Nat /\ lastAdmin \in Nat
    BY <2>2 DEF Request, AdminInv, TypeOK
  <2> QED BY <2>2, <2>3 DEF InContext, UserRow
<1> QED BY <1>1, <1>2 DEF AdminInv

\* A step of actor a that leaves it with request q and the tables as they are.
LEMMA RequestStep ==
    ASSUME AdminInv, NEW a \in Actor, NEW q \in Request, InContext(a, q),
           req' = [req EXCEPT ![a] = q], UNCHANGED Tables,
           cookie' \in [Browser -> Token \cup {None}]
    PROVE  AdminInv'
<1>1. req' \in [Actor -> Request] /\ \A d \in Actor : req'[d] = IF d = a THEN q ELSE req[d]
  BY DEF AdminInv, TypeOK
<1>2. \A d \in Actor : InContext(d, req'[d])
  BY <1>1 DEF AdminInv, ContextOK
<1>3. AdminKeys' /\ SessionsOwned'
  BY DEF AdminInv, AdminKeys, SessionsOwned, Tables
<1> QED BY <1>1, <1>2, <1>3, AdminStep DEF Tables, AdminInv, TypeOK

\* A step of actor a that changes the tables and leaves it idle, or leaves every request.
LEMMA TableStep ==
    ASSUME AdminInv, NEW a \in Actor, Return(a) \/ UNCHANGED req,
           admin_users' \subseteq UserRow, admin_sessions' \subseteq SessionRow,
           AdminKeys', SessionsOwned', cookie' \in [Browser -> Token \cup {None}],
           lastAdmin' \in Nat, lastAdmin <= lastAdmin',
           \A u \in admin_users' : \/ u.id > lastAdmin
                                   \/ \E v \in admin_users : v.id = u.id /\ v.username = u.username
    PROVE  AdminInv'
<1>1. Idle \in Request /\ \A d : InContext(d, Idle)
  BY IdleInContext
<1>2. req \in [Actor -> Request] /\ \A d \in Actor : InContext(d, req[d])
  BY DEF AdminInv, TypeOK, ContextOK
<1>3. req' \in [Actor -> Request] /\ \A d \in Actor : InContext(d, req'[d])
  BY <1>1, <1>2 DEF Return
<1> QED BY <1>3, AdminStep

\* Moving a request on to its next statement.
LEMMA GotoKeepsContext ==
    ASSUME AdminInv, NEW a \in Actor, ~At(a, "idle"), ~At(a, "delete"),
           \E l \in {"insert", "cleanup", "update", "endSessions"} : Goto(a, l)
    PROVE  req' \in [Actor -> Request] /\ \A d \in Actor : InContext(d, req'[d])
<1>1. PICK l \in {"insert", "cleanup", "update", "endSessions"} : req' = [req EXCEPT ![a].at = l]
  BY DEF Goto
<1>2. PICK q \in Request : q = req[a] /\ InContext(a, q) /\ q.at \notin {"idle", "delete"}
  BY DEF AdminInv, TypeOK, ContextOK, At
<1>3. PICK n : n = [q EXCEPT !.at = l]
  OBVIOUS
<1>4. /\ n \in Request /\ n.at = l
      /\ n.id = q.id /\ n.user = q.user /\ n.name = q.name /\ n.pw = q.pw
  BY <1>3 DEF Request
<1>5. InContext(a, n)
  BY <1>2, <1>4 DEF InContext
<1>6. req \in [Actor -> Request] /\ \A d \in Actor : InContext(d, req[d])
  BY DEF AdminInv, TypeOK, ContextOK
<1>7. req' = [req EXCEPT ![a] = n]
  BY <1>1, <1>2, <1>3
<1> QED BY <1>4, <1>5, <1>6, <1>7

-----------------------------------------------------------------------------
(* The statements.                                                          *)

\* CreateUser: a new id, or no row.
LEMMA CreateUserOK ==
    ASSUME AdminInv, NEW n \in Username, NEW p \in Password, CreateUser(n, p)
    PROVE  /\ admin_users' \subseteq UserRow /\ admin_sessions' \subseteq SessionRow
           /\ AdminKeys' /\ SessionsOwned' /\ lastAdmin' \in Nat /\ lastAdmin <= lastAdmin'
           /\ \A u \in admin_users' :
                 \/ u.id > lastAdmin
                 \/ \E v \in admin_users : v.id = u.id /\ v.username = u.username
<1> USE DEF AdminInv
<1>1. lastAdmin \in Nat /\ admin_users \subseteq UserRow /\ admin_sessions \subseteq SessionRow
  BY DEF TypeOK
<1>2. CASE UNCHANGED << admin_users, lastAdmin >>
  BY <1>1, <1>2 DEF CreateUser, AdminKeys, SessionsOwned
<1>3. CASE /\ ~IsAdmin(n) /\ lastAdmin' = lastAdmin + 1
           /\ admin_users' = admin_users \cup
                 {[id |-> lastAdmin + 1, username |-> n, password |-> p]}
  <2>0. PICK row : row = [id |-> lastAdmin + 1, username |-> n, password |-> p]
    OBVIOUS
  <2>1. row \in UserRow /\ row.id = lastAdmin + 1 /\ row.username = n
    BY <1>1, <2>0 DEF UserRow
  <2>2. admin_users' = admin_users \cup {row} /\ admin_sessions' = admin_sessions
    BY <1>3, <2>0 DEF CreateUser
  <2>3. \A u \in admin_users : /\ ~Same(u.username, row.username) /\ ~Same(row.username, u.username)
                               /\ u.id \in Nat /\ 1 <= u.id /\ u.id <= lastAdmin
    BY <1>1, <1>3, <2>1 DEF IsAdmin, AdminKeys, UserRow, Same
  <2>4. AdminKeys'
    BY <1>1, <1>3, <2>1, <2>2, <2>3 DEF AdminKeys
  <2>5. SessionsOwned'
    BY <2>2 DEF SessionsOwned
  <2> QED BY <1>1, <1>3, <2>1, <2>2, <2>4, <2>5
<1> QED BY <1>2, <1>3 DEF CreateUser

\* DeleteUser: the sessions of the account go with it.
LEMMA DeleteUserOK ==
    ASSUME AdminInv, NEW n, DeleteUser(n)
    PROVE  /\ admin_users' \subseteq UserRow /\ admin_sessions' \subseteq SessionRow
           /\ AdminKeys' /\ SessionsOwned' /\ lastAdmin' \in Nat /\ lastAdmin <= lastAdmin'
           /\ admin_users' \subseteq admin_users
  BY DEF AdminInv, TypeOK, AdminKeys, SessionsOwned, DeleteUser

\* A statement that only removes sessions.
LEMMA DropSessionsOK ==
    ASSUME AdminInv, admin_sessions' \subseteq admin_sessions, UNCHANGED << admin_users, lastAdmin >>
    PROVE  /\ admin_users' \subseteq UserRow /\ admin_sessions' \subseteq SessionRow
           /\ AdminKeys' /\ SessionsOwned' /\ lastAdmin' \in Nat /\ lastAdmin <= lastAdmin'
           /\ admin_users' \subseteq admin_users
  BY DEF AdminInv, TypeOK, AdminKeys, SessionsOwned

-----------------------------------------------------------------------------
(* The steps of requests.                                                   *)

\* The two statements of ChangePassword.
LEMMA ChangePasswordStep ==
    ASSUME AdminInv, NEW a \in Actor, ChangePasswordUpdate(a) \/ ChangePasswordEndSessions(a)
    PROVE  AdminInv'
<1>1. PICK q \in Request : q = req[a] /\ InContext(a, q)
  BY DEF AdminInv, TypeOK, ContextOK
<1>c. cookie' \in [Browser -> Token \cup {None}]
  BY DEF ChangePasswordUpdate, ChangePasswordEndSessions, AdminInv, TypeOK
<1>2. CASE ChangePasswordUpdate(a) /\ Goto(a, "endSessions")
  <2>1. q.pw \in Password
    BY <1>1, <1>2 DEF ChangePasswordUpdate, At, InContext, Request
  <2> DEFINE new(u) == IF Same(u.username, q.name) THEN [u EXCEPT !.password = q.pw] ELSE u
  <2>2. \/ admin_users' = admin_users
        \/ admin_users' = {new(u) : u \in admin_users}
    BY <1>1, <1>2 DEF ChangePasswordUpdate
  <2>3. \A u \in admin_users : new(u) \in UserRow /\ new(u).id = u.id
                               /\ new(u).username = u.username
    BY <2>1 DEF AdminInv, TypeOK, UserRow
  <2> HIDE DEF new
  <2>4. UNCHANGED << admin_sessions, lastAdmin >>
    BY <1>2 DEF ChangePasswordUpdate
  <2>5. admin_users' \subseteq UserRow /\ admin_sessions' \subseteq SessionRow /\ lastAdmin' \in Nat
    BY <2>2, <2>3, <2>4 DEF AdminInv, TypeOK
  <2>6. AdminKeys' /\ SessionsOwned'
    BY <2>2, <2>3, <2>4 DEF AdminInv, AdminKeys, SessionsOwned
  <2>7. req' \in [Actor -> Request] /\ \A d \in Actor : InContext(d, req'[d])
    BY <1>2, GotoKeepsContext DEF ChangePasswordUpdate, At
  <2>8. \A u \in admin_users' : \E v \in admin_users : v.id = u.id /\ v.username = u.username
    BY <2>2, <2>3
  <2> QED BY <1>c, <2>4, <2>5, <2>6, <2>7, <2>8, AdminStep
<1>3. CASE ChangePasswordUpdate(a) /\ Return(a) /\ UNCHANGED admin_users
  <2>1. admin_sessions' \subseteq admin_sessions /\ UNCHANGED << admin_users, lastAdmin >>
    BY <1>3 DEF ChangePasswordUpdate
  <2> QED BY <1>3, <1>c, <2>1, DropSessionsOK, TableStep
<1>4. CASE ChangePasswordEndSessions(a)
  <2>1. admin_sessions' \subseteq admin_sessions /\ UNCHANGED << admin_users, lastAdmin >>
    BY <1>4 DEF ChangePasswordEndSessions
  <2>2. CASE Return(a)
    BY <1>c, <2>1, <2>2, DropSessionsOK, TableStep
  <2>3. CASE Goto(a, "cleanup")
    <3>1. req' \in [Actor -> Request] /\ \A d \in Actor : InContext(d, req'[d])
      BY <1>4, <2>3, GotoKeepsContext DEF ChangePasswordEndSessions, At
    <3> QED BY <1>c, <2>1, <3>1, DropSessionsOK, AdminStep
  <2> QED BY <1>4, <2>2, <2>3 DEF ChangePasswordEndSessions
<1> QED BY <1>2, <1>3, <1>4 DEF ChangePasswordUpdate

\* The two statements of CreateSession, with an id that may be stale.
LEMMA CreateSessionStep ==
    ASSUME AdminInv, NEW b \in Browser, CreateSessionCleanup(b) \/ CreateSessionInsert(b)
    PROVE  AdminInv'
<1>1. PICK q \in Request : q = req[b] /\ InContext(b, q)
  BY DEF AdminInv, TypeOK, ContextOK, Actor
<1>2. CASE CreateSessionCleanup(b)
  <2>1. admin_sessions' \subseteq admin_sessions /\ UNCHANGED << admin_users, lastAdmin, cookie >>
    BY <1>2 DEF CreateSessionCleanup
  <2>2. req' \in [Actor -> Request] /\ \A d \in Actor : InContext(d, req'[d])
    BY <1>2, GotoKeepsContext DEF CreateSessionCleanup, At, Actor
  <2> QED BY <2>1, <2>2, DropSessionsOK, AdminStep DEF AdminInv, TypeOK
<1>3. CASE CreateSessionInsert(b)
  <2>1. Return(b) /\ UNCHANGED << admin_users, lastAdmin >> /\ b \in Actor
    BY <1>3 DEF CreateSessionInsert, Actor
  <2>2. CASE UNCHANGED << admin_sessions, cookie >>
    BY <2>1, <2>2, DropSessionsOK, TableStep DEF AdminInv, TypeOK
  <2>3. ASSUME NEW t \in Token, \E u \in admin_users : u.id = req[b].id,
               admin_sessions' = admin_sessions \cup
                   {[user_id |-> req[b].id, token |-> t, expired |-> FALSE,
                     name |-> req[b].user, under |-> req[b].pw]},
               cookie' = [cookie EXCEPT ![b] = t]
        PROVE  AdminInv'
    <3>1. q.id \in Nat /\ q.user \in Username /\ q.pw \in Password
      BY <1>1, <1>3 DEF CreateSessionInsert, At, InContext, Request
    <3>0. PICK row : row = [user_id |-> q.id, token |-> t, expired |-> FALSE, name |-> q.user,
                            under |-> q.pw]
      OBVIOUS
    <3>2. row \in SessionRow /\ row.user_id = q.id /\ row.name = q.user
      BY <2>3, <3>0, <3>1 DEF SessionRow
    <3>3. admin_sessions' = admin_sessions \cup {row}
      BY <1>1, <2>3, <3>0
    <3>4. SessionsOwned'
      BY <1>1, <2>1, <2>3, <3>2, <3>3 DEF SessionsOwned, AdminInv, InContext
    <3>5. AdminKeys' /\ admin_users' \subseteq UserRow /\ lastAdmin' \in Nat /\ lastAdmin <= lastAdmin'
      BY <2>1 DEF AdminKeys, AdminInv, TypeOK
    <3>6. cookie' \in [Browser -> Token \cup {None}] /\ admin_sessions' \subseteq SessionRow
      BY <2>3, <3>2, <3>3 DEF AdminInv, TypeOK
    <3> QED BY <2>1, <3>4, <3>5, <3>6, TableStep
  <2> QED BY <1>3, <2>2, <2>3 DEF CreateSessionInsert
<1> QED BY <1>2, <1>3

\* The steps that read the tables, or only touch sessions and cookies.
LEMMA BrowserStep ==
    ASSUME AdminInv, NEW b \in Browser,
           Login(b) \/ Logout(b) \/ redirectToLogin(b) \/ SettingsAuthenticate(b)
    PROVE  AdminInv'
<1> b \in Actor
  BY DEF Actor
<1>c. cookie \in [Browser -> Token \cup {None}] /\ admin_users \subseteq UserRow
  BY DEF AdminInv, TypeOK
<1>1. CASE Login(b)
  <2>1. PICK u \in admin_users :
           req' = [req EXCEPT ![b] = [at |-> "cleanup", id |-> u.id, user |-> u.username,
                                      name |-> u.username, pw |-> u.password]]
    BY <1>1 DEF Login
  <2>2. PICK q : q = [at |-> "cleanup", id |-> u.id, user |-> u.username,
                      name |-> u.username, pw |-> u.password]
    OBVIOUS
  <2>3. /\ q \in Request /\ q.at = "cleanup" /\ q.id = u.id /\ q.user = u.username
        /\ q.name = u.username /\ q.pw = u.password
        /\ u.username \in Username /\ u.password \in Password
    BY <1>c, <2>2 DEF Request, UserRow
  <2>4. InContext(b, q)
    BY <2>3, AdminNoneAssumption DEF InContext, AdminInv, AdminKeys
  <2> QED BY <1>1, <1>c, <2>1, <2>2, <2>3, <2>4, RequestStep DEF Login
<1>2. CASE Logout(b)
  <2>1. admin_sessions' \subseteq admin_sessions /\ UNCHANGED << admin_users, lastAdmin, req >>
        /\ cookie' \in [Browser -> Token \cup {None}]
    BY <1>2, <1>c DEF Logout
  <2> QED BY <2>1, DropSessionsOK, TableStep
<1>3. CASE redirectToLogin(b)
  <2>1. admin_sessions' \subseteq admin_sessions /\ UNCHANGED << admin_users, lastAdmin, req >>
        /\ cookie' \in [Browser -> Token \cup {None}]
    BY <1>3, <1>c DEF redirectToLogin, Tables
  <2> QED BY <2>1, DropSessionsOK, TableStep
<1>4. CASE SettingsAuthenticate(b)
  <2>1. admin_sessions' \subseteq admin_sessions
        /\ UNCHANGED << admin_users, lastAdmin, cookie >>
    BY <1>4 DEF SettingsAuthenticate, Tables
  <2>2. CASE Goto(b, "update")
    <3>1. req' \in [Actor -> Request] /\ \A d \in Actor : InContext(d, req'[d])
      BY <1>4, <2>2, GotoKeepsContext DEF SettingsAuthenticate, At
    <3> QED BY <1>c, <2>1, <3>1, DropSessionsOK, AdminStep
  <2>3. CASE Return(b)
    BY <1>c, <2>1, <2>3, DropSessionsOK, TableStep
  <2> QED BY <1>4, <2>2, <2>3 DEF SettingsAuthenticate
<1> QED BY <1>1, <1>2, <1>3, <1>4

\* requireAuth hands over the id and the name of one account.
LEMMA requireAuthStep ==
    ASSUME AdminInv, NEW b \in Browser, NEW u \in admin_users, NEW n \in Username,
           NEW p \in Password \cup {None},
           NEW l \in {"authenticate", "create", "delete"}, l # "delete" => p # None,
           requireAuth(b, u, l, n, p)
    PROVE  AdminInv'
<1>c. cookie \in [Browser -> Token \cup {None}] /\ admin_users \subseteq UserRow /\ b \in Actor
  BY DEF AdminInv, TypeOK, Actor
<1>1. PICK q : q = [at |-> l, id |-> u.id, user |-> u.username, name |-> n, pw |-> p]
  OBVIOUS
<1>2. /\ q \in Request /\ q.at = l /\ q.id = u.id /\ q.user = u.username
      /\ q.name = n /\ q.pw = p /\ u.username \in Username
  BY <1>c, <1>1 DEF Request, UserRow
<1>3. InContext(b, q)
  BY <1>2, AdminNoneAssumption DEF InContext, AdminInv, AdminKeys
<1> QED BY <1>c, <1>1, <1>2, <1>3, RequestStep DEF requireAuth

\* The handlers behind requireAuth, and their last statements.
LEMMA HandlerStep ==
    ASSUME AdminInv, NEW b \in Browser,
           handleSettingsPassword(b) \/ handleAdminAdd(b) \/ AdminAddInsert(b)
           \/ handleAdminDelete(b) \/ AdminDeleteRow(b)
    PROVE  AdminInv'
<1>c. cookie \in [Browser -> Token \cup {None}] /\ b \in Actor /\ admin_users \subseteq UserRow
  BY DEF AdminInv, TypeOK, Actor
<1>1. CASE handleSettingsPassword(b)
  <2>1. PICK u \in admin_users, p \in Password :
           requireAuth(b, u, "authenticate", u.username, p) /\ u.username \in Username
    BY <1>1, <1>c DEF handleSettingsPassword, UserRow
  <2> QED BY <2>1, requireAuthStep, AdminNoneAssumption
<1>2. CASE handleAdminAdd(b)
  BY <1>2, requireAuthStep, AdminNoneAssumption DEF handleAdminAdd
<1>3. CASE handleAdminDelete(b)
  BY <1>3, requireAuthStep DEF handleAdminDelete
<1>4. CASE AdminAddInsert(b)
  <2>1. PICK n \in Username, p \in Password : CreateUser(n, p)
    BY <1>4, <1>c DEF AdminAddInsert, At, AdminInv, TypeOK, ContextOK, InContext, Request
  <2> QED BY <1>4, <1>c, <2>1, CreateUserOK, TableStep DEF AdminAddInsert
<1>5. CASE AdminDeleteRow(b)
  <2>1. PICK n : n = req[b].name
    OBVIOUS
  <2> QED BY <1>5, <1>c, <2>1, DeleteUserOK, TableStep DEF AdminDeleteRow
<1> QED BY <1>1, <1>2, <1>3, <1>4, <1>5

\* The webadmin commands.
LEMMA CommandStep ==
    ASSUME AdminInv, NEW a \in Shell, Command(a)
    PROVE  AdminInv'
<1>c. cookie \in [Browser -> Token \cup {None}] /\ a \in Actor /\ a \notin Browser
  BY ActorAssumption DEF AdminInv, TypeOK, Actor
<1>1. CASE WebadminAdd(a)
  <2>1. PICK n \in Username, p \in Password : CreateUser(n, p)
    BY <1>1 DEF WebadminAdd
  <2> QED BY <1>1, <1>c, <2>1, CreateUserOK, TableStep DEF WebadminAdd
<1>2. CASE WebadminRemove(a)
  <2>1. PICK n \in Username : DeleteUser(n)
    BY <1>2 DEF WebadminRemove
  <2> QED BY <1>2, <1>c, <2>1, DeleteUserOK, TableStep DEF WebadminRemove
<1>3. CASE WebadminPasswd(a)
  <2>1. PICK n \in Username, p \in Password :
           req' = [req EXCEPT ![a] = [Idle EXCEPT !.at = "update", !.name = n, !.pw = p]]
    BY <1>3 DEF WebadminPasswd
  <2>2. PICK q : q = [Idle EXCEPT !.at = "update", !.name = n, !.pw = p]
    OBVIOUS
  <2>3. q \in Request /\ q.at = "update" /\ q.id = 0 /\ q.name = n /\ q.pw = p /\ q.user = None
    BY <2>2 DEF Request, Idle
  <2>4. InContext(a, q)
    <3>1. \A u \in admin_users : u.id # 0
      BY DEF AdminInv, AdminKeys
    <3> QED BY <1>c, <2>3, <3>1, AdminNoneAssumption DEF InContext, AdminInv, TypeOK
  <2> QED BY <1>3, <1>c, <2>1, <2>2, <2>3, <2>4, RequestStep DEF WebadminPasswd
<1> QED BY <1>1, <1>2, <1>3 DEF Command

\* The passing of sessionTTL.
LEMMA ExpireStep ==
    ASSUME AdminInv, Expire
    PROVE  AdminInv'
<1>1. PICK s \in admin_sessions :
         admin_sessions' = (admin_sessions \ {s}) \cup {[s EXCEPT !.expired = TRUE]}
  BY DEF Expire
<1>2. UNCHANGED << admin_users, lastAdmin, cookie, req >>
  BY DEF Expire
<1>0. PICK t : t = [s EXCEPT !.expired = TRUE]
  OBVIOUS
<1>a. s \in SessionRow
  BY DEF AdminInv, TypeOK
<1>3. t \in SessionRow /\ t.user_id = s.user_id /\ t.name = s.name
  BY <1>0, <1>a DEF SessionRow
<1>4. SessionsOwned' /\ AdminKeys'
  BY <1>0, <1>1, <1>2, <1>3 DEF AdminInv, SessionsOwned, AdminKeys
<1>5. admin_sessions' \subseteq SessionRow
  BY <1>0, <1>1, <1>3 DEF AdminInv, TypeOK
<1> QED BY <1>2, <1>4, <1>5, AdminStep DEF AdminInv, TypeOK, ContextOK

-----------------------------------------------------------------------------
(* The theorems.                                                            *)

\* The installed system satisfies the invariant.
LEMMA AdminInitOK == Init => AdminInv
<1> SUFFICES ASSUME Init PROVE AdminInv
  OBVIOUS
<1>1. PICK u \in Username, p \in Password : admin_users = {[id |-> 1, username |-> u, password |-> p]}
  BY DEF Init
<1>0. PICK row : row = [id |-> 1, username |-> u, password |-> p]
  OBVIOUS
<1>2. admin_users = {row} /\ row.id = 1 /\ row \in UserRow
  BY <1>0, <1>1 DEF UserRow
<1>3. Idle \in Request /\ Idle.id = 0 /\ Idle.at = "idle"
  BY DEF Idle, Request
<1>4. TypeOK
  BY <1>2, <1>3 DEF Init, TypeOK
<1>5. AdminKeys /\ SessionsOwned
  BY <1>2 DEF Init, AdminKeys, SessionsOwned
<1>6. ContextOK
  BY <1>2, <1>3 DEF Init, ContextOK, InContext
<1> QED BY <1>4, <1>5, <1>6 DEF AdminInv

\* Every statement of every request keeps the invariant.
LEMMA AdminNextOK == AdminInv /\ [Next]_vars => AdminInv'
<1> SUFFICES ASSUME AdminInv, [Next]_vars PROVE AdminInv'
  OBVIOUS
<1>1. ASSUME NEW b \in Browser, Browse(b) PROVE AdminInv'
  BY <1>1, BrowserStep, HandlerStep, CreateSessionStep DEF Browse
<1>2. ASSUME NEW a \in Actor, Abandon(a) PROVE AdminInv'
  <2>1. admin_sessions' \subseteq admin_sessions /\ UNCHANGED << admin_users, lastAdmin, cookie >>
        /\ Return(a)
    BY <1>2 DEF Abandon, Tables
  <2> QED BY <2>1, DropSessionsOK, TableStep DEF AdminInv, TypeOK
<1>3. CASE UNCHANGED vars
  BY <1>3 DEF vars, AdminInv, TypeOK, AdminKeys, SessionsOwned, ContextOK, InContext
<1> QED BY <1>1, <1>2, <1>3, CommandStep, ChangePasswordStep, ExpireStep DEF Next, ChangePassword

\* The invariant of the dashboard's accounts, whatever requests overlap and break off.
THEOREM AdminConsistent == Spec => []AdminInv
  BY AdminInitOK, AdminNextOK, PTL DEF Spec

-----------------------------------------------------------------------------
(***************************************************************************)
(* Requests that have run one after the other.                              *)
(***************************************************************************)

\* What a request that nothing overlaps knows of the accounts: a password change is about the
\* account that asked for it, once it has updated the row the account has the new password, a
\* session is about to be opened with the password the account has, and who removes another
\* name is an administrator.
Knows(a) ==
    /\ req[a].at \in {"authenticate", "update", "endSessions"} /\ a \in Browser =>
          req[a].name = req[a].user
    /\ req[a].at = "endSessions" =>
          \A u \in admin_users : Same(u.username, req[a].name) => u.password = req[a].pw
    /\ req[a].at \in {"cleanup", "insert"} =>
          \A u \in admin_users : u.id = req[a].id => u.password = req[a].pw
    /\ req[a].at = "delete" =>
          req[a].name # req[a].user /\ \E u \in admin_users : u.username = req[a].user

AloneInv ==
    /\ AdminInv
    /\ apart => SessionsMatchPassword /\ \A a \in Actor : Knows(a)

\* What a step of actor a does when nothing overlaps: it leaves the others alone and knows the
\* accounts, keeps sessions and passwords together and an administrator in the table.
Orderly(a) ==
    /\ \A o \in Actor : o # a => req'[o] = req[o]
    /\ Knows(a)'
    /\ SessionsMatchPassword => SessionsMatchPassword'

KeepsOne == admin_users # {} => admin_users' # {}

LEMMA RequestFields ==
    ASSUME NEW q \in Request
    PROVE  /\ q.id \in Nat /\ q.user \in Username \cup {None} /\ q.name \in Username \cup {None}
           /\ q.pw \in Password \cup {None}
BY DEF Request

LEMMA AuthTypes ==
    ASSUME AdminInv
    PROVE  /\ req \in [Actor -> Request] /\ \A a \in Actor : InContext(a, req[a])
           /\ Browser \subseteq Actor /\ Shell \subseteq Actor
BY DEF AdminInv, TypeOK, ContextOK, Actor

\* Moving on keeps what the request carries.
LEMMA GotoFields ==
    ASSUME AdminInv, NEW a \in Actor, NEW l, Goto(a, l)
    PROVE  /\ req'[a].at = l /\ req'[a].id = req[a].id /\ req'[a].user = req[a].user
           /\ req'[a].name = req[a].name /\ req'[a].pw = req[a].pw
           /\ \A o \in Actor : o # a => req'[o] = req[o]
<1>1. PICK q \in Request : q = req[a]
  BY AuthTypes
<1>2. PICK n : n = [q EXCEPT !.at = l]
  OBVIOUS
<1>3. n.at = l /\ n.id = q.id /\ n.user = q.user /\ n.name = q.name /\ n.pw = q.pw
  BY <1>2 DEF Request
<1>4. req' = [req EXCEPT ![a] = n]
  BY <1>1, <1>2 DEF Goto
<1> QED BY <1>1, <1>3, <1>4, AuthTypes

LEMMA ReturnFields ==
    ASSUME AdminInv, NEW a \in Actor, Return(a)
    PROVE  /\ req'[a].at = "idle" /\ \A o \in Actor : o # a => req'[o] = req[o]
           /\ Knows(a)'
<1>1. req'[a] = Idle /\ \A o \in Actor : o # a => req'[o] = req[o]
  BY AuthTypes DEF Return
<1>2. Idle.at = "idle"
  BY DEF Idle
<1> QED BY <1>1, <1>2 DEF Knows

\* Sessions match passwords after a step that only removes sessions and accounts, unless it
\* ends a request that was about to end sessions.
LEMMA MatchKept ==
    ASSUME admin_sessions' \subseteq admin_sessions, admin_users' \subseteq admin_users,
           \A a \in Actor : req[a].at = "endSessions" => req'[a] = req[a],
           SessionsMatchPassword
    PROVE  SessionsMatchPassword'
BY DEF SessionsMatchPassword

\* A step of one actor keeps the invariant, if it is orderly when nothing overlaps it.
LEMMA AloneKept ==
    ASSUME AloneInv, AdminInv', NEW a \in Actor, Undisturbed(a), apart' => Orderly(a)
    PROVE  AloneInv'
<1> SUFFICES ASSUME apart' PROVE SessionsMatchPassword' /\ \A o \in Actor : Knows(o)'
  BY DEF AloneInv
<1>1. SessionsMatchPassword /\ Orderly(a) /\ \A o \in Actor : o # a => req[o] = Idle
  BY DEF AloneInv, Undisturbed
<1>2. ASSUME NEW o \in Actor, o # a PROVE Knows(o)'
  <2>1. req'[o].at = "idle"
    BY <1>1, <1>2 DEF Orderly, Idle
  <2> QED BY <2>1 DEF Knows
<1> QED BY <1>1, <1>2 DEF Orderly

\* A request that starts, in a state with sessions that match.
LEMMA StartOrderly ==
    ASSUME AdminInv, NEW a \in Actor, CanStart(a), NEW q, q.at # "endSessions",
           req' = [req EXCEPT ![a] = q], UNCHANGED Tables, Knows(a)'
    PROVE  Orderly(a) /\ KeepsOne
<1>1. req'[a] = q /\ \A o \in Actor : o # a => req'[o] = req[o]
  BY AuthTypes
<1>2. req[a].at # "endSessions"
  BY DEF CanStart, Idle
<1>3. SessionsMatchPassword => SessionsMatchPassword'
  BY <1>1, <1>2, MatchKept DEF Tables
<1> QED BY <1>1, <1>3 DEF Orderly, KeepsOne, Tables

LEMMA LoginOrderly ==
    ASSUME AdminInv, NEW b \in Browser, Login(b)
    PROVE  Orderly(b) /\ KeepsOne
<1>1. PICK u \in admin_users :
         req' = [req EXCEPT ![b] = [at |-> "cleanup", id |-> u.id, user |-> u.username,
                                    name |-> u.username, pw |-> u.password]]
  BY DEF Login
<1>2. PICK q : q = [at |-> "cleanup", id |-> u.id, user |-> u.username,
                    name |-> u.username, pw |-> u.password]
  OBVIOUS
<1>3. q.at = "cleanup" /\ q.id = u.id /\ q.pw = u.password
  BY <1>2
<1>4. CanStart(b) /\ UNCHANGED Tables /\ b \in Actor
  BY AuthTypes DEF Login
<1>5. req'[b] = q
  BY <1>1, <1>2, <1>4, AuthTypes
<1>6. \A v \in admin_users' : v.id = q.id => v.password = q.pw
  BY <1>3, <1>4 DEF Tables, AdminInv, AdminKeys
<1>7. Knows(b)'
  BY <1>3, <1>5, <1>6 DEF Knows
<1> QED BY <1>1, <1>2, <1>3, <1>4, <1>7, StartOrderly

LEMMA requireAuthOrderly ==
    ASSUME AdminInv, NEW b \in Browser, NEW u \in admin_users, NEW n, NEW p,
           NEW l \in {"authenticate", "create", "delete"}, requireAuth(b, u, l, n, p),
           l = "authenticate" => n = u.username, l = "delete" => n # u.username
    PROVE  Orderly(b) /\ KeepsOne
<1>1. PICK q : q = [at |-> l, id |-> u.id, user |-> u.username, name |-> n, pw |-> p]
  OBVIOUS
<1>2. q.at = l /\ q.user = u.username /\ q.name = n
  BY <1>1
<1>3. CanStart(b) /\ UNCHANGED Tables /\ b \in Actor /\ req' = [req EXCEPT ![b] = q]
  BY <1>1, AuthTypes DEF requireAuth
<1>4. req'[b] = q
  BY <1>3, AuthTypes
<1>5. Knows(b)'
  BY <1>2, <1>3, <1>4 DEF Knows, Tables
<1> QED BY <1>2, <1>3, <1>5, StartOrderly

\* Statements that leave the request where it is, idle, or end it.
LEMMA LogoutOrderly ==
    ASSUME AdminInv, NEW b \in Browser, Knows(b), Logout(b) \/ redirectToLogin(b)
    PROVE  Orderly(b) /\ KeepsOne
<1>1. /\ admin_sessions' \subseteq admin_sessions /\ UNCHANGED << admin_users, req >>
  BY DEF Logout, redirectToLogin, Tables
<1>2. SessionsMatchPassword => SessionsMatchPassword'
  BY <1>1, MatchKept
<1>3. Knows(b)'
  BY <1>1 DEF Knows
<1> QED BY <1>1, <1>2, <1>3 DEF Orderly, KeepsOne

LEMMA SettingsOrderly ==
    ASSUME AdminInv, NEW b \in Browser, Knows(b), SettingsAuthenticate(b)
    PROVE  Orderly(b) /\ KeepsOne
<1>1. req[b].at = "authenticate" /\ UNCHANGED << admin_users, admin_sessions >> /\ b \in Actor
  BY AuthTypes DEF SettingsAuthenticate, Tables, At
<1>2. CASE Goto(b, "update")
  <2>1. /\ req'[b].at = "update" /\ req'[b].user = req[b].user /\ req'[b].name = req[b].name
        /\ \A o \in Actor : o # b => req'[o] = req[o]
    BY <1>1, <1>2, GotoFields
  <2>2. Knows(b)'
    BY <1>1, <2>1 DEF Knows
  <2>3. SessionsMatchPassword => SessionsMatchPassword'
    BY <1>1, <2>1, MatchKept
  <2> QED BY <1>1, <2>1, <2>2, <2>3 DEF Orderly, KeepsOne
<1>3. CASE Return(b)
  <2>1. \A o \in Actor : req[o].at = "endSessions" => req'[o] = req[o]
    BY <1>1, <1>3, ReturnFields
  <2>2. SessionsMatchPassword => SessionsMatchPassword'
    BY <1>1, <2>1, MatchKept
  <2> QED BY <1>1, <1>3, <2>2, ReturnFields DEF Orderly, KeepsOne
<1> QED BY <1>2, <1>3 DEF SettingsAuthenticate

\* The UPDATE of ChangePassword: the account has the new password, the sessions are stale.
LEMMA UpdateOrderly ==
    ASSUME AdminInv, NEW a \in Actor, Knows(a), ChangePasswordUpdate(a),
           \A o \in Actor : o # a => req[o].at = "idle"
    PROVE  Orderly(a) /\ KeepsOne
<1>1. req[a].at = "update" /\ UNCHANGED admin_sessions /\ admin_users \subseteq UserRow
  BY DEF ChangePasswordUpdate, At, AdminInv, TypeOK
<1>2. CASE /\ Goto(a, "endSessions")
           /\ admin_users' = {IF Same(u.username, req[a].name)
                              THEN [u EXCEPT !.password = req[a].pw] ELSE u : u \in admin_users}
           /\ IsAdmin(req[a].name)
  <2>1. /\ req'[a].at = "endSessions" /\ req'[a].user = req[a].user
        /\ req'[a].name = req[a].name /\ req'[a].pw = req[a].pw
        /\ \A o \in Actor : o # a => req'[o] = req[o]
    BY <1>2, GotoFields
  <2>2. PICK n, p : n = req[a].name /\ p = req[a].pw
    OBVIOUS
  <2> DEFINE new(u) == IF Same(u.username, n) THEN [u EXCEPT !.password = p] ELSE u
  <2>3. admin_users' = {new(u) : u \in admin_users}
    BY <1>2, <2>2
  <2>4. \A u \in admin_users : /\ new(u).id = u.id /\ new(u).username = u.username
                               /\ Same(u.username, n) => new(u).password = p
                               /\ ~Same(u.username, n) => new(u) = u
    BY <1>1 DEF UserRow
  <2> HIDE DEF new
  <2>5. Knows(a)'
    <3>1. \A u \in admin_users' : Same(u.username, n) => u.password = p
      BY <2>3, <2>4
    <3> QED BY <1>1, <2>1, <2>2, <3>1 DEF Knows, Same
  <2>6. ASSUME SessionsMatchPassword PROVE SessionsMatchPassword'
    <3> SUFFICES ASSUME NEW s \in admin_sessions', NEW u \in admin_users', u.id = s.user_id,
                        ~(req'[a].at = "endSessions" /\ Same(u.username, req'[a].name))
                 PROVE  s.under = u.password
      BY DEF SessionsMatchPassword, Same
    <3>1. u \in admin_users
      BY <2>1, <2>2, <2>3, <2>4
    <3>2. \A o \in Actor : req[o].at # "endSessions"
      BY <1>1
    <3> QED BY <1>1, <2>6, <3>1, <3>2 DEF SessionsMatchPassword
  <2>7. KeepsOne
    BY <2>3 DEF KeepsOne
  <2> QED BY <2>1, <2>5, <2>6, <2>7 DEF Orderly
<1>3. CASE Return(a) /\ UNCHANGED admin_users
  <2>1. \A o \in Actor : req[o].at = "endSessions" => req'[o] = req[o]
    BY <1>1, <1>3, ReturnFields
  <2>2. SessionsMatchPassword => SessionsMatchPassword'
    BY <1>1, <1>3, <2>1, MatchKept
  <2> QED BY <1>3, <2>2, ReturnFields DEF Orderly, KeepsOne
<1> QED BY <1>2, <1>3 DEF ChangePasswordUpdate

\* The DELETE that ends the sessions of the account: those left are of other accounts, and a
\* browser goes on with the id of the account whose password it has just changed.
LEMMA EndSessionsOrderly ==
    ASSUME AdminInv, NEW a \in Actor, Knows(a), ChangePasswordEndSessions(a),
           \A o \in Actor : o # a => req[o].at = "idle"
    PROVE  Orderly(a) /\ KeepsOne
<1>1. /\ req[a].at = "endSessions" /\ UNCHANGED admin_users
      /\ admin_sessions' = {s \in admin_sessions :
            ~\E u \in admin_users : u.id = s.user_id /\ Same(u.username, req[a].name)}
      /\ IF a \in Browser THEN Goto(a, "cleanup") ELSE Return(a)
  BY DEF ChangePasswordEndSessions, At
<1>2. ASSUME SessionsMatchPassword PROVE SessionsMatchPassword'
  <2> SUFFICES ASSUME NEW s \in admin_sessions', NEW u \in admin_users', u.id = s.user_id
               PROVE  s.under = u.password
    BY DEF SessionsMatchPassword
  <2>1. s \in admin_sessions /\ u \in admin_users /\ ~Same(u.username, req[a].name)
    BY <1>1
  <2>2. \A o \in Actor : ~(req[o].at = "endSessions" /\ Same(u.username, req[o].name))
    BY <2>1
  <2> QED BY <1>2, <2>1, <2>2 DEF SessionsMatchPassword
<1>3. CASE a \in Browser
  <2>1. /\ req'[a].at = "cleanup" /\ req'[a].id = req[a].id /\ req'[a].pw = req[a].pw
        /\ \A o \in Actor : o # a => req'[o] = req[o]
    BY <1>1, <1>3, GotoFields
  <2>2. \A u \in admin_users : u.id = req[a].id => u.password = req[a].pw
    BY <1>1, <1>3, AuthTypes DEF Knows, InContext, Same
  <2>3. Knows(a)'
    BY <1>1, <2>1, <2>2 DEF Knows
  <2> QED BY <1>1, <1>2, <2>1, <2>3 DEF Orderly, KeepsOne
<1>4. CASE a \notin Browser
  BY <1>1, <1>2, <1>4, ReturnFields DEF Orderly, KeepsOne
<1> QED BY <1>3, <1>4

LEMMA CleanupOrderly ==
    ASSUME AdminInv, NEW b \in Browser, Knows(b), CreateSessionCleanup(b)
    PROVE  Orderly(b) /\ KeepsOne
<1>1. /\ req[b].at = "cleanup" /\ Goto(b, "insert") /\ UNCHANGED admin_users
      /\ admin_sessions' \subseteq admin_sessions /\ b \in Actor
  BY AuthTypes DEF CreateSessionCleanup, At
<1>2. /\ req'[b].at = "insert" /\ req'[b].id = req[b].id /\ req'[b].pw = req[b].pw
      /\ \A o \in Actor : o # b => req'[o] = req[o]
  BY <1>1, GotoFields
<1>3. Knows(b)'
  BY <1>1, <1>2 DEF Knows
<1>4. SessionsMatchPassword => SessionsMatchPassword'
  BY <1>1, <1>2, MatchKept
<1> QED BY <1>1, <1>2, <1>3, <1>4 DEF Orderly, KeepsOne

\* The INSERT of a session: under the password the account has.
LEMMA InsertOrderly ==
    ASSUME AdminInv, NEW b \in Browser, Knows(b), CreateSessionInsert(b)
    PROVE  Orderly(b) /\ KeepsOne
<1>1. /\ req[b].at = "insert" /\ Return(b) /\ UNCHANGED admin_users /\ b \in Actor
  BY AuthTypes DEF CreateSessionInsert, At
<1>2. /\ req'[b].at = "idle" /\ Knows(b)' /\ \A o \in Actor : o # b => req'[o] = req[o]
  BY <1>1, ReturnFields
<1>3. \A o \in Actor : req[o].at = "endSessions" => req'[o] = req[o]
  BY <1>1, <1>2
<1>4. ASSUME SessionsMatchPassword, UNCHANGED admin_sessions PROVE SessionsMatchPassword'
  BY <1>1, <1>3, <1>4, MatchKept
<1>5. ASSUME SessionsMatchPassword, NEW t \in Token,
             admin_sessions' = admin_sessions \cup
                 {[user_id |-> req[b].id, token |-> t, expired |-> FALSE,
                   name |-> req[b].user, under |-> req[b].pw]}
      PROVE  SessionsMatchPassword'
  <2>1. PICK row : row = [user_id |-> req[b].id, token |-> t, expired |-> FALSE,
                          name |-> req[b].user, under |-> req[b].pw]
    OBVIOUS
  <2>2. row.user_id = req[b].id /\ row.under = req[b].pw
    BY <2>1
  <2>3. admin_sessions' = admin_sessions \cup {row}
    BY <1>5, <2>1
  <2>4. \A u \in admin_users : u.id = row.user_id => row.under = u.password
    BY <1>1, <2>2 DEF Knows
  <2> QED BY <1>1, <1>3, <1>5, <2>3, <2>4 DEF SessionsMatchPassword
<1>6. SessionsMatchPassword => SessionsMatchPassword'
  BY <1>4, <1>5 DEF CreateSessionInsert
<1> QED BY <1>1, <1>2, <1>6 DEF Orderly, KeepsOne

\* A new account has a new id, which no session has.
LEMMA CreateUserMatch ==
    ASSUME AdminInv, NEW n \in Username, NEW p \in Password, CreateUser(n, p),
           \A a \in Actor : req[a].at = "endSessions" => req'[a] = req[a]
    PROVE  (SessionsMatchPassword => SessionsMatchPassword') /\ KeepsOne
<1>1. lastAdmin \in Nat /\ \A u \in admin_users : u.id \in Nat /\ u.id <= lastAdmin
  BY DEF AdminInv, TypeOK, AdminKeys, UserRow
<1>2. UNCHANGED admin_sessions
  BY DEF CreateUser
<1>3. CASE UNCHANGED admin_users
  BY <1>2, <1>3, MatchKept DEF KeepsOne
<1>4. CASE admin_users' = admin_users \cup {[id |-> lastAdmin + 1, username |-> n, password |-> p]}
  <2>1. PICK row : row = [id |-> lastAdmin + 1, username |-> n, password |-> p]
    OBVIOUS
  <2>2. row.id = lastAdmin + 1 /\ admin_users' = admin_users \cup {row}
    BY <1>4, <2>1
  <2>3. \A s \in admin_sessions : s.user_id # row.id
    BY <1>1, <2>2 DEF AdminInv, SessionsOwned
  <2>4. SessionsMatchPassword => SessionsMatchPassword'
    BY <1>2, <2>2, <2>3 DEF SessionsMatchPassword
  <2> QED BY <2>2, <2>4 DEF KeepsOne
<1> QED BY <1>3, <1>4 DEF CreateUser

LEMMA AdminAddOrderly ==
    ASSUME AdminInv, NEW b \in Browser, AdminAddInsert(b)
    PROVE  Orderly(b) /\ KeepsOne
<1>1. req[b].at = "create" /\ Return(b) /\ b \in Actor
  BY AuthTypes DEF AdminAddInsert, At
<1>2. PICK n \in Username, p \in Password : CreateUser(n, p)
  BY <1>1, AuthTypes, RequestFields DEF AdminAddInsert, InContext
<1>3. \A o \in Actor : req[o].at = "endSessions" => req'[o] = req[o]
  BY <1>1, ReturnFields
<1> QED BY <1>1, <1>2, <1>3, ReturnFields, CreateUserMatch DEF Orderly

\* Who removes another administrator is still one, if it is another.
LEMMA AdminDeleteOrderly ==
    ASSUME AdminInv, NEW b \in Browser, Knows(b), AdminDeleteRow(b)
    PROVE  Orderly(b) /\ (KeepsOne \/ RemovesSelf(b))
<1>1. req[b].at = "delete" /\ Return(b) /\ b \in Actor /\ DeleteUser(req[b].name)
  BY AuthTypes DEF AdminDeleteRow, At
<1>2. /\ admin_users' = {u \in admin_users : ~Same(u.username, req[b].name)}
      /\ admin_sessions' \subseteq admin_sessions
  BY <1>1 DEF DeleteUser
<1>3. \A o \in Actor : req[o].at = "endSessions" => req'[o] = req[o]
  BY <1>1, ReturnFields
<1>4. SessionsMatchPassword => SessionsMatchPassword'
  BY <1>2, <1>3, MatchKept
<1>5. PICK u \in admin_users : u.username = req[b].user /\ req[b].user # req[b].name
  BY <1>1 DEF Knows
<1>6. KeepsOne \/ RemovesSelf(b)
  BY <1>2, <1>5 DEF KeepsOne, RemovesSelf, Same
<1> QED BY <1>1, <1>4, <1>6, ReturnFields DEF Orderly

LEMMA CommandOrderly ==
    ASSUME AdminInv, NEW a \in Shell, Knows(a), Command(a)
    PROVE  Orderly(a) /\ (KeepsOne \/ WebadminRemove(a))
<1> a \in Actor
  BY AuthTypes
<1>1. CASE WebadminAdd(a)
  <2>1. PICK n \in Username, p \in Password : CreateUser(n, p)
    BY <1>1 DEF WebadminAdd
  <2>2. UNCHANGED req /\ CanStart(a)
    BY <1>1 DEF WebadminAdd
  <2>3. req[a].at = "idle"
    BY <2>2 DEF CanStart, Idle
  <2> QED BY <2>1, <2>2, <2>3, CreateUserMatch DEF Orderly, Knows
<1>2. CASE WebadminRemove(a)
  <2>1. UNCHANGED req /\ CanStart(a) /\ admin_sessions' \subseteq admin_sessions
        /\ admin_users' \subseteq admin_users
    BY <1>2 DEF WebadminRemove, DeleteUser
  <2>2. req[a].at = "idle"
    BY <2>1 DEF CanStart, Idle
  <2> QED BY <1>2, <2>1, <2>2, MatchKept DEF Orderly, Knows
<1>3. CASE WebadminPasswd(a)
  <2>1. PICK n, p : req' = [req EXCEPT ![a] = [Idle EXCEPT !.at = "update", !.name = n, !.pw = p]]
    BY <1>3 DEF WebadminPasswd
  <2>2. PICK q : q = [Idle EXCEPT !.at = "update", !.name = n, !.pw = p]
    OBVIOUS
  <2>3. q.at = "update"
    BY <2>2 DEF Idle
  <2>4. CanStart(a) /\ UNCHANGED Tables /\ req' = [req EXCEPT ![a] = q]
    BY <1>3, <2>1, <2>2 DEF WebadminPasswd
  <2>5. req'[a] = q /\ a \notin Browser
    BY <2>4, AuthTypes, ActorAssumption
  <2>6. Knows(a)'
    BY <2>3, <2>5 DEF Knows
  <2> QED BY <2>3, <2>4, <2>6, StartOrderly
<1> QED BY <1>1, <1>2, <1>3 DEF Command

LEMMA ExpireOrderly ==
    ASSUME AdminInv, Expire
    PROVE  (SessionsMatchPassword => SessionsMatchPassword') /\ UNCHANGED << admin_users, req >>
<1>1. PICK s \in admin_sessions :
         admin_sessions' = (admin_sessions \ {s}) \cup {[s EXCEPT !.expired = TRUE]}
  BY DEF Expire
<1>2. PICK t : t = [s EXCEPT !.expired = TRUE]
  OBVIOUS
<1>3. s \in SessionRow
  BY DEF AdminInv, TypeOK
<1>4. t.user_id = s.user_id /\ t.under = s.under
  BY <1>2, <1>3 DEF SessionRow
<1>5. UNCHANGED << admin_users, req >>
  BY DEF Expire
<1>6. admin_sessions' = (admin_sessions \ {s}) \cup {t}
  BY <1>1, <1>2
<1> QED BY <1>4, <1>5, <1>6 DEF SessionsMatchPassword

\* What a browser or a password change does, when nothing overlaps it.
LEMMA RequestOrderly ==
    ASSUME AdminInv, NEW a \in Actor, Knows(a), \A o \in Actor : o # a => req[o].at = "idle",
           (a \in Browser /\ Browse(a)) \/ ChangePassword(a)
    PROVE  Orderly(a) /\ (KeepsOne \/ (a \in Browser /\ RemovesSelf(a)))
<1>1. CASE a \in Browser /\ handleSettingsPassword(a)
  BY <1>1, requireAuthOrderly DEF handleSettingsPassword
<1>2. CASE a \in Browser /\ handleAdminAdd(a)
  BY <1>2, requireAuthOrderly DEF handleAdminAdd
<1>3. CASE a \in Browser /\ handleAdminDelete(a)
  BY <1>3, requireAuthOrderly DEF handleAdminDelete
<1> QED BY <1>1, <1>2, <1>3, LoginOrderly, LogoutOrderly, SettingsOrderly, CleanupOrderly,
           InsertOrderly, AdminAddOrderly, AdminDeleteOrderly, UpdateOrderly, EndSessionsOrderly
        DEF Browse, ChangePassword

-----------------------------------------------------------------------------
LEMMA AloneInit == Init => AloneInv
<1> SUFFICES ASSUME Init PROVE AloneInv
  OBVIOUS
<1>1. \A a \in Actor : req[a].at = "idle"
  BY DEF Init, Idle
<1>2. \A a \in Actor : Knows(a)
  BY <1>1 DEF Knows
<1>3. SessionsMatchPassword
  BY DEF Init, SessionsMatchPassword
<1> QED BY <1>2, <1>3, AdminInitOK DEF AloneInv

LEMMA AloneNext ==
    AloneInv /\ [Next]_vars =>
       AloneInv' /\ (apart' => \/ KeepsOne
                               \/ \E a \in Shell : WebadminRemove(a)
                               \/ \E b \in Browser : RemovesSelf(b))
<1> SUFFICES ASSUME AloneInv, [Next]_vars
             PROVE  AloneInv' /\ (apart' => \/ KeepsOne
                                            \/ \E a \in Shell : WebadminRemove(a)
                                            \/ \E b \in Browser : RemovesSelf(b))
  OBVIOUS
<1>0. AdminInv /\ AdminInv'
  BY AdminNextOK DEF AloneInv
<1>1. ASSUME NEW a \in Actor, (a \in Browser /\ Browse(a)) \/ ChangePassword(a), Undisturbed(a)
      PROVE  AloneInv' /\ (apart' => KeepsOne \/ \E b \in Browser : RemovesSelf(b))
  <2>1. ASSUME apart' PROVE Orderly(a) /\ (KeepsOne \/ \E b \in Browser : RemovesSelf(b))
    <3>1. apart /\ \A o \in Actor : o # a => req[o] = Idle
      BY <1>1, <2>1 DEF Undisturbed
    <3>2. Knows(a) /\ \A o \in Actor : o # a => req[o].at = "idle"
      BY <3>1 DEF AloneInv, Idle
    <3> QED BY <1>0, <1>1, <3>2, RequestOrderly
  <2> QED BY <1>0, <1>1, <2>1, AloneKept
<1>2. ASSUME NEW a \in Shell, Command(a), Undisturbed(a)
      PROVE  AloneInv' /\ (apart' => KeepsOne \/ WebadminRemove(a))
  <2>1. ASSUME apart' PROVE Orderly(a) /\ (KeepsOne \/ WebadminRemove(a))
    <3>1. a \in Actor /\ Knows(a)
      BY <1>0, <1>2, <2>1, AuthTypes DEF AloneInv, Undisturbed
    <3> QED BY <1>0, <1>2, <3>1, CommandOrderly
  <2> QED BY <1>0, <1>2, <2>1, AloneKept, AuthTypes
<1>3. ASSUME apart' = FALSE PROVE AloneInv'
  BY <1>0, <1>3 DEF AloneInv
<1>4. CASE Expire /\ UNCHANGED apart
  <2>1. UNCHANGED << admin_users, req >> /\ (SessionsMatchPassword => SessionsMatchPassword')
    BY <1>0, <1>4, ExpireOrderly
  <2>2. (\A a \in Actor : Knows(a)) => \A a \in Actor : Knows(a)'
    BY <2>1 DEF Knows
  <2> QED BY <1>0, <1>4, <2>1, <2>2 DEF AloneInv, KeepsOne
<1>5. CASE UNCHANGED vars
  <2>1. UNCHANGED << admin_users, admin_sessions, req, apart >>
    BY <1>5 DEF vars
  <2>2. (\A a \in Actor : Knows(a)) => \A a \in Actor : Knows(a)'
    BY <2>1 DEF Knows
  <2> QED BY <1>0, <2>1, <2>2 DEF AloneInv, KeepsOne, SessionsMatchPassword
<1> QED BY <1>1, <1>2, <1>3, <1>4, <1>5, AuthTypes, <1>0 DEF Next

\* Requests and commands that have run to their end one after the other: changing a password
\* has ended every session opened with the old one, and no step opens another.
THEOREM PasswordChangeEndsSessions == Spec => []PasswordEndsSessions
<1>1. AloneInv => PasswordEndsSessions
  BY DEF AloneInv, PasswordEndsSessions
<1>2. AloneInv /\ [Next]_vars => AloneInv'
  BY AloneNext
<1> QED BY <1>1, <1>2, AloneInit, PTL DEF Spec

\* Nothing but webadmin remove takes the last account, while requests run one after the other:
\* the dashboard checks that an administrator does not remove himself, and he is still there
\* when the other is removed.  It compares the names as they are written, the database does not:
\* the one step of the dashboard left is that of an administrator who names himself otherwise.
THEOREM DashboardKeepsAnAdmin == Spec => AdminRemains
<1>1. AloneInv /\ [Next]_vars =>
         [apart' /\ admin_users # {} /\ admin_users' = {} =>
             \/ \E a \in Shell : WebadminRemove(a)
             \/ \E b \in Browser : RemovesSelf(b)]_vars
  BY AloneNext DEF KeepsOne
<1>2. AloneInv /\ [Next]_vars => AloneInv'
  BY AloneNext
<1> QED BY <1>1, <1>2, AloneInit, PTL DEF Spec, AdminRemains

\* A request at its INSERT ends with its browser signed in, if there is a token left and the
\* account exists, whatever overlaps it.
LEMMA InsertSignsIn ==
    ASSUME AdminInv, [Next]_vars, NEW b \in Browser, req[b].at = "insert", req'[b] = Idle,
           ~Abandon(b),
           \E t \in Token : FreshToken(t), \E u \in admin_users : u.id = req[b].id
    PROVE  SignedIn(b)'
<1>0. b \in Actor /\ b \notin Shell /\ req \in [Actor -> Request] /\ Idle.at = "idle"
  BY AuthTypes, ActorAssumption DEF Idle
<1>1. CreateSessionInsert(b)
  <2>2. req'[b] # req[b]
    BY <1>0
  <2>1. ASSUME NEW a \in Actor, Abandon(a) PROVE FALSE
    BY <1>0, <2>1, <2>2 DEF Abandon, Return
  <2>3. ASSUME NEW o \in Browser, Browse(o), o # b PROVE FALSE
    <3>1. o \in Actor /\ \E q : req' = [req EXCEPT ![o] = q]
      <4>1. CASE UNCHANGED req
        BY <1>0, <4>1, <2>2
      <4>2. CASE \E l : Goto(o, l)
        BY <4>2, AuthTypes DEF Goto
      <4>3. CASE Return(o)
        BY <4>3, AuthTypes DEF Return
      <4> QED BY <2>3, <4>1, <4>2, <4>3, AuthTypes
              DEF Browse, Login, Logout, redirectToLogin, handleSettingsPassword,
                  SettingsAuthenticate, CreateSessionCleanup, CreateSessionInsert, handleAdminAdd,
                  AdminAddInsert, handleAdminDelete, AdminDeleteRow, requireAuth
    <3> QED BY <1>0, <2>2, <2>3, <3>1
  <2>4. ASSUME Browse(b) PROVE CreateSessionInsert(b)
    <3>1. ~CanStart(b)
      BY <1>0 DEF CanStart
    <3> QED BY <2>4, <3>1 DEF Browse, Login, Logout, redirectToLogin, handleSettingsPassword,
                SettingsAuthenticate, CreateSessionCleanup, handleAdminAdd, AdminAddInsert,
                handleAdminDelete, AdminDeleteRow, requireAuth, At
  <2>5. ASSUME NEW a \in Shell, Command(a) PROVE FALSE
    <3>1. a # b /\ a \in Actor
      BY <1>0, AuthTypes
    <3> QED BY <1>0, <2>2, <2>5, <3>1 DEF Command, WebadminAdd, WebadminPasswd, WebadminRemove
  <2>6. ASSUME NEW a \in Actor, ChangePassword(a) PROVE FALSE
    <3>1. a # b
      BY <2>6 DEF ChangePassword, ChangePasswordUpdate, ChangePasswordEndSessions, At
    <3> QED BY <1>0, <2>2, <2>6, <3>1
            DEF ChangePassword, ChangePasswordUpdate, ChangePasswordEndSessions, Goto, Return
  <2>7. ~Expire /\ ~UNCHANGED vars
    BY <2>2 DEF Expire, vars
  <2> QED BY <2>1, <2>3, <2>4, <2>5, <2>6, <2>7 DEF Next
<1>2. PICK t \in Token :
         /\ admin_sessions' = admin_sessions \cup
               {[user_id |-> req[b].id, token |-> t, expired |-> FALSE,
                 name |-> req[b].user, under |-> req[b].pw]}
         /\ cookie' = [cookie EXCEPT ![b] = t]
  BY <1>1 DEF CreateSessionInsert
<1>3. UNCHANGED admin_users /\ cookie'[b] = t
  BY <1>1, <1>2 DEF CreateSessionInsert, AdminInv, TypeOK
<1>4. PICK row : row = [user_id |-> req[b].id, token |-> t, expired |-> FALSE,
                        name |-> req[b].user, under |-> req[b].pw]
  OBVIOUS
<1>5. row \in admin_sessions' /\ row.user_id = req[b].id /\ row.token = t /\ ~row.expired
  BY <1>2, <1>4
<1>6. PICK u \in admin_users : u.id = req[b].id
  OBVIOUS
<1> QED BY <1>3, <1>5, <1>6 DEF SignedIn, VerifySession

\* The administrator who changed the password, or who has signed in, has a session that works:
\* the one CreateSession has inserted, whatever requests overlap.
THEOREM WhoChangesStaysSignedIn == Spec => StaysSignedIn
<1>1. AdminInv /\ [Next]_vars =>
         [\A b \in Browser :
             /\ req[b].at = "insert" /\ req'[b] = Idle /\ ~Abandon(b)
             /\ (\E t \in Token : FreshToken(t)) /\ (\E u \in admin_users : u.id = req[b].id)
             => SignedIn(b)']_vars
  BY InsertSignsIn
<1> QED BY <1>1, AdminInitOK, AdminNextOK, PTL DEF Spec, StaysSignedIn
=============================================================================
