------------------------------ MODULE Sessions ------------------------------
(***************************************************************************)
(* Sessions of Jivatax: the rows of auth_sessions and users, the API that   *)
(* creates, rotates and revokes sessions, the browser that holds the two    *)
(* cookies, and the HTTP client of the web application that refreshes them. *)
(*                                                                          *)
(* A refresh token is created once per session and signed, so a token is    *)
(* named by its session. What a handler does between two awaits of the      *)
(* database is one step; save(entity) writes the entity as it was read.     *)
(* The numbers of failed logins, of sessions and of what happens outside of *)
(* the handlers are bounded by MaxAttempts, SessionIds and MaxEvents.       *)
(***************************************************************************)
EXTENDS Naturals, FiniteSets

CONSTANTS
  Users,        \* rows of the table of users
  Visitors,     \* users who log in with the browser of the model
  Metausers,    \* users who start with the platform role metauser
  SessionIds,   \* rows the table of sessions can hold
  Tabs,         \* tabs of the browser, which share the cookies
  Calls,        \* API calls of the pages that need an access token
  Requests,     \* login, refresh and logout requests in progress
  Updates,      \* requests of the administration that update a user
  Changes,      \* what such a request may ask for
  LockLimit,    \* failed logins that lock a user: 5 in the code
  MaxAttempts,  \* bound on counted failed logins
  MaxEvents,    \* bound on lost responses, passing of time, and administration
  None          \* no session, no token, no request, no tab

ASSUME SessionsAssumption ==
  /\ Visitors \subseteq Users /\ Metausers \subseteq Users
  /\ LockLimit \in Nat \ {0} /\ MaxAttempts \in Nat /\ MaxEvents \in Nat
  /\ None \notin SessionIds \cup Requests \cup Tabs \cup Users
  /\ Changes \subseteq [status : {"active", "inactive", "blocked", "same"},
                        role : {"user", "metauser", "same"}]

VARIABLES
  users,      \* table of users
  sessions,   \* table of sessions
  jar,        \* cookies of the browser
  tab,        \* module state of lib/api.ts and the page of each tab
  call,       \* API calls in progress
  request,    \* login, refresh and logout requests in progress
  update,     \* user updates in progress
  lost,       \* a response was lost
  events      \* number of lost responses, of passings of time and of updates

vars == <<users, sessions, jar, tab, call, request, update, lost, events>>
-----------------------------------------------------------------------------
Statuses == {"active", "inactive", "blocked"}

\* lockedUntil is NULL, in the future or in the past.
Locks == {"none", "locked", "past"}

UserRow == [status : Statuses, role : {"user", "metauser"},
            attempts : 0 .. MaxAttempts, locked : Locks]

SessionRow == [user : Users \cup {None}, hash : {"none", "pending", "stored"},
               revoked : BOOLEAN, expired : BOOLEAN,
               replacedBy : SessionIds \cup {None}]

NoSession == [user |-> None, hash |-> "none", revoked |-> FALSE,
              expired |-> FALSE, replacedBy |-> None]

Jar == [access : SessionIds \cup {None}, refresh : SessionIds \cup {None}]

EmptyJar == [access |-> None, refresh |-> None]

\* refreshing is refreshPromise, leaving is logoutInProgress.
Tab == [page : {"login", "app"}, refreshing : Requests \cup {None}, leaving : BOOLEAN]

Call == [pc : {"idle", "sent", "ok", "unauthorized", "waiting"},
         tab : Tabs \cup {None}, token : SessionIds \cup {None}, retried : BOOLEAN]

IdleCall == [pc |-> "idle", tab |-> None, token |-> None, retried |-> FALSE]

RequestPCs == {"idle", "sent", "checking", "inserting", "hashing", "replacing",
               "reused", "ok", "failed"}

IdleUser == [status |-> "active", role |-> "user", attempts |-> 0, locked |-> "none"]

\* token is the refresh cookie that came along, entity and previous what was read.
Request == [kind : {"login", "refresh", "logout"}, pc : RequestPCs,
            tab : Tabs \cup {None}, user : Users \cup {None},
            token : SessionIds \cup {None}, next : SessionIds \cup {None},
            entity : UserRow, previous : SessionRow]

IdleRequest == [kind |-> "login", pc |-> "idle", tab |-> None, user |-> None,
                token |-> None, next |-> None, entity |-> IdleUser,
                previous |-> NoSession]

Update == [user : Users \cup {None}, row : UserRow]

IdleUpdate == [user |-> None, row |-> IdleUser]
-----------------------------------------------------------------------------
Init ==
  /\ users = [u \in Users |->
                [IdleUser EXCEPT !.role = IF u \in Metausers THEN "metauser" ELSE "user"]]
  /\ sessions = [s \in SessionIds |-> NoSession]
  /\ jar = EmptyJar
  /\ tab = [t \in Tabs |-> [page |-> "login", refreshing |-> None, leaving |-> FALSE]]
  /\ call = [c \in Calls |-> IdleCall]
  /\ request = [r \in Requests |-> IdleRequest]
  /\ update = [a \in Updates |-> IdleUpdate]
  /\ lost = FALSE
  /\ events = 0

Exists(s) == s # None /\ sessions[s].user # None

\* The row of a user is locked by an update of the administration.
Locked(u) == \E a \in Updates : update[a].user = u

\* authenticateAccess: what an access token must stand on.
Authenticates(s) ==
  /\ Exists(s)
  /\ ~sessions[s].revoked /\ ~sessions[s].expired
  /\ users[sessions[s].user].status = "active"

\* A response carries the new tokens or none; the locals of the handler are gone.
Answer(r, outcome) ==
  request' = [request EXCEPT ![r] =
                [IdleRequest EXCEPT !.kind = request[r].kind, !.pc = outcome, !.tab = request[r].tab,
                                    !.next = request[r].next]]

Proceed(r, pc) == request' = [request EXCEPT ![r].pc = pc, ![r].entity = IdleUser]

Event == events < MaxEvents /\ events' = events + 1

FreeIds == {s \in SessionIds : sessions[s].user = None}
-----------------------------------------------------------------------------
(* The web application: lib/api.ts, its hooks and providers.                *)

\* The pages send API calls, except while a logout is in progress.
SendCall(t, c) ==
  /\ tab[t].page = "app" /\ ~tab[t].leaving
  /\ call[c].pc = "idle"
  /\ call' = [call EXCEPT ![c] =
                [pc |-> "sent", tab |-> t, token |-> jar.access, retried |-> FALSE]]
  /\ UNCHANGED <<users, sessions, jar, tab, request, update, lost, events>>

\* JwtAuthGuard and authenticateAccess.
AnswerCall(c) ==
  /\ call[c].pc = "sent"
  /\ call' = [call EXCEPT ![c].pc =
                IF Authenticates(call[c].token) THEN "ok" ELSE "unauthorized"]
  /\ UNCHANGED <<users, sessions, jar, tab, request, update, lost, events>>

\* The response interceptor lets an answer through, or a second 401.
ReceiveCall(c) ==
  /\ \/ call[c].pc = "ok"
     \/ call[c].pc = "unauthorized" /\ (call[c].retried \/ tab[call[c].tab].leaving)
  /\ call' = [call EXCEPT ![c] = IdleCall]
  /\ UNCHANGED <<users, sessions, jar, tab, request, update, lost, events>>

Posted(kind, t, u, token) ==
  [IdleRequest EXCEPT !.kind = kind, !.pc = "sent", !.tab = t, !.user = u,
                      !.token = token]

\* Mutant: every 401 starts a refresh of its own.
AwaitOwnRefresh(c) ==
  LET t == call[c].tab IN
  /\ call[c].pc = "unauthorized" /\ ~call[c].retried /\ ~tab[t].leaving
  /\ call' = [call EXCEPT ![c].pc = "waiting", ![c].retried = TRUE]
  /\ \E r \in Requests :
       /\ request[r].pc = "idle"
       /\ request' = [request EXCEPT ![r] = Posted("refresh", t, None, jar.refresh)]
       /\ tab' = [tab EXCEPT ![t].refreshing = r]
  /\ UNCHANGED <<users, sessions, jar, update, lost, events>>

\* A first 401 waits for the refresh in progress, or starts one.
AwaitRefresh(c) ==
  LET t == call[c].tab IN
  /\ call[c].pc = "unauthorized" /\ ~call[c].retried /\ ~tab[t].leaving
  /\ call' = [call EXCEPT ![c].pc = "waiting", ![c].retried = TRUE]
  /\ IF tab[t].refreshing # None
       THEN UNCHANGED <<tab, request>>
       ELSE \E r \in Requests :
              /\ request[r].pc = "idle"
              /\ request' = [request EXCEPT ![r] = Posted("refresh", t, None, jar.refresh)]
              /\ tab' = [tab EXCEPT ![t].refreshing = r]
  /\ UNCHANGED <<users, sessions, jar, update, lost, events>>

Login(t, r, u) ==
  /\ tab[t].page = "login" /\ request[r].pc = "idle"
  /\ \A q \in Requests : request[q].tab = t => request[q].kind # "login"
  /\ request' = [request EXCEPT ![r] = Posted("login", t, u, None)]
  /\ tab' = [tab EXCEPT ![t].leaving = FALSE]
  /\ UNCHANGED <<users, sessions, jar, call, update, lost, events>>

Logout(t, r) ==
  /\ tab[t].page = "app" /\ ~tab[t].leaving /\ request[r].pc = "idle"
  /\ tab' = [tab EXCEPT ![t].leaving = TRUE]
  /\ request' = [request EXCEPT ![r] =
                   Posted("logout", t, None,
                          IF jar.access # None THEN jar.access ELSE jar.refresh)]
  /\ UNCHANGED <<users, sessions, jar, call, update, lost, events>>

\* The calls that waited for refresh r are sent again, or fail with it.
Settled(r, success, cookies) ==
  [c \in Calls |->
     IF call[c].pc = "waiting" /\ tab[call[c].tab].refreshing = r
       THEN IF success /\ ~tab[call[c].tab].leaving
              THEN [call[c] EXCEPT !.pc = "sent", !.token = cookies.access]
              ELSE IdleCall
       ELSE call[c]]

\* finally of refreshPromise, and the failure handler of the provider.
TabAfter(r, success, page) ==
  LET t == request[r].tab IN
  [tab EXCEPT ![t].refreshing = IF @ = r THEN None ELSE @,
              ![t].page = IF success THEN page
                          ELSE IF request[r].kind = "refresh" THEN "login" ELSE @]

Receive(r) ==
  LET q == request[r]
      success == q.pc = "ok"
      cookies == IF q.kind # "logout" /\ success
                   THEN [access |-> q.next, refresh |-> q.next]
                 ELSE IF q.kind = "login" THEN jar ELSE EmptyJar
      page == IF q.kind = "login" THEN "app"
              ELSE IF q.kind = "logout" THEN "login" ELSE tab[q.tab].page
  IN
  /\ q.pc \in {"ok", "failed"}
  /\ jar' = cookies
  /\ call' = IF q.kind = "refresh" THEN Settled(r, success, cookies) ELSE call
  /\ tab' = TabAfter(r, success, page)
  /\ request' = [request EXCEPT ![r] = IdleRequest]
  /\ UNCHANGED <<users, sessions, update, lost, events>>

\* The response never arrives: no cookie is set, and the client sees an error.
LoseResponse(r) ==
  /\ request[r].pc \in {"ok", "failed"}
  /\ lost' = TRUE
  /\ Event
  /\ call' = IF request[r].kind = "refresh" THEN Settled(r, FALSE, jar) ELSE call
  /\ tab' = TabAfter(r, FALSE, "login")
  /\ request' = [request EXCEPT ![r] = IdleRequest]
  /\ UNCHANGED <<users, sessions, jar, update>>

\* 15 minutes pass: the access cookie is gone.
AccessExpires ==
  /\ jar.access # None
  /\ jar' = [jar EXCEPT !.access = None]
  /\ Event
  /\ UNCHANGED <<users, sessions, tab, call, request, update, lost>>

\* 7 days pass: the session ends, and the token with it.
SessionExpires(s) ==
  /\ Exists(s) /\ ~sessions[s].expired
  /\ sessions' = [sessions EXCEPT ![s].expired = TRUE]
  /\ Event
  /\ UNCHANGED <<users, jar, tab, call, request, update, lost>>
-----------------------------------------------------------------------------
(* AuthService: login.                                                      *)

\* findForAuthentication.
ReadUser(r) ==
  /\ request[r].kind = "login" /\ request[r].pc = "sent"
  /\ request' = [request EXCEPT ![r].pc = "checking", ![r].entity = users[request[r].user]]
  /\ UNCHANGED <<users, sessions, jar, tab, call, update, lost, events>>

Accepted(row) ==
  [row EXCEPT !.attempts = 0, !.locked = "none"]

Refused(row) ==
  [row EXCEPT !.attempts = @ + 1,
              !.locked = IF row.attempts + 1 >= LockLimit THEN "locked" ELSE @]

\* validateCredentials after the password was verified: a right one opens
\* an active user who is not locked.
AcceptPassword(r) ==
  LET row == request[r].entity IN
  /\ request[r].kind = "login" /\ request[r].pc = "checking"
  /\ row.status = "active" /\ row.locked # "locked"
  /\ ~Locked(request[r].user)
  /\ users' = [users EXCEPT ![request[r].user] = Accepted(row)]
  /\ Proceed(r, "inserting")
  /\ UNCHANGED <<sessions, jar, tab, call, update, lost, events>>

\* A wrong password, or a locked user with any password, counts as a failure.
RefusePassword(r) ==
  LET row == request[r].entity IN
  /\ request[r].kind = "login" /\ request[r].pc = "checking"
  /\ IF row.status = "active"
       THEN /\ ~Locked(request[r].user)
            /\ row.attempts < MaxAttempts
            /\ users' = [users EXCEPT ![request[r].user] = Refused(row)]
       ELSE UNCHANGED users
  /\ Answer(r, "failed")
  /\ UNCHANGED <<sessions, jar, tab, call, update, lost, events>>

LockPasses(u) ==
  /\ users[u].locked = "locked" /\ ~Locked(u)
  /\ users' = [users EXCEPT ![u].locked = "past"]
  /\ Event
  /\ UNCHANGED <<sessions, jar, tab, call, request, update, lost>>

\* The command auth:set-password.
SetPassword(u) ==
  /\ ~Locked(u)
  /\ users' = [users EXCEPT ![u] = Accepted(@)]
  /\ Event
  /\ UNCHANGED <<sessions, jar, tab, call, request, update, lost>>
-----------------------------------------------------------------------------
(* AuthService: the session of a login or of a refresh, refresh, logout.    *)

Opened(u) == [NoSession EXCEPT !.user = u, !.hash = "pending"]

\* Rows are inserted with a hash that no token has.
InsertSession(r) ==
  /\ request[r].pc = "inserting"
  /\ \E s \in FreeIds :
       /\ sessions' = [sessions EXCEPT ![s] = Opened(request[r].user)]
       /\ request' = [request EXCEPT ![r].pc = "hashing", ![r].next = s]
  /\ UNCHANGED <<users, jar, tab, call, update, lost, events>>

\* Stands for an insert that fails: only when SessionIds are used up.
InsertFails(r) ==
  /\ request[r].pc = "inserting" /\ FreeIds = {}
  /\ Answer(r, "failed")
  /\ UNCHANGED <<users, sessions, jar, tab, call, update, lost, events>>

\* Mutant: a refresh forgets to save the hash of the new token.
StoreLoginHash(r) ==
  /\ request[r].pc = "hashing"
  /\ sessions' = IF request[r].kind = "login"
                   THEN [sessions EXCEPT ![request[r].next].hash = "stored"] ELSE sessions
  /\ IF request[r].kind = "login" THEN Answer(r, "ok") ELSE Proceed(r, "replacing")
  /\ UNCHANGED <<users, jar, tab, call, update, lost, events>>

\* The tokens are signed and the hash of the refresh token is saved, with
\* the rest of the row as it was inserted.
StoreHash(r) ==
  /\ request[r].pc = "hashing"
  /\ sessions' = [sessions EXCEPT ![request[r].next] =
                    [Opened(request[r].user) EXCEPT
                       !.hash = "stored", !.expired = sessions[request[r].next].expired]]
  /\ IF request[r].kind = "login" THEN Answer(r, "ok") ELSE Proceed(r, "replacing")
  /\ UNCHANGED <<users, jar, tab, call, update, lost, events>>

\* refresh: the session of the token is read and checked.
ReadSession(r) ==
  LET s == request[r].token
      usable == users[sessions[s].user].status = "active" /\ sessions[s].hash = "stored"
  IN
  /\ request[r].kind = "refresh" /\ request[r].pc = "sent"
  /\ IF s = None \/ sessions[s].expired THEN Answer(r, "failed")
     ELSE IF sessions[s].revoked
       THEN request' = [request EXCEPT ![r].pc = "reused", ![r].user = sessions[s].user]
     ELSE IF usable
       THEN request' = [request EXCEPT ![r].pc = "inserting", ![r].user = sessions[s].user,
                                       ![r].previous = sessions[s]]
     ELSE Answer(r, "failed")
  /\ UNCHANGED <<users, sessions, jar, tab, call, update, lost, events>>

\* A token of a revoked session: every session of the user is revoked.
RevokeSessions(r) ==
  /\ request[r].pc = "reused"
  /\ sessions' = [s \in SessionIds |->
                    IF sessions[s].user = request[r].user
                      THEN [sessions[s] EXCEPT !.revoked = TRUE] ELSE sessions[s]]
  /\ Answer(r, "failed")
  /\ UNCHANGED <<users, jar, tab, call, update, lost, events>>

\* Mutant: the replaced session is linked but not revoked.
ReplaceUnrevoked(r) ==
  /\ request[r].pc = "replacing"
  /\ sessions' = [sessions EXCEPT ![request[r].token] =
                    [request[r].previous EXCEPT
                       !.replacedBy = request[r].next,
                       !.expired = sessions[request[r].token].expired]]
  /\ Answer(r, "ok")
  /\ UNCHANGED <<users, jar, tab, call, update, lost, events>>

\* The session that was refreshed is revoked and linked to the new one.
ReplaceSession(r) ==
  /\ request[r].pc = "replacing"
  /\ sessions' = [sessions EXCEPT ![request[r].token] =
                    [request[r].previous EXCEPT
                       !.revoked = TRUE, !.replacedBy = request[r].next,
                       !.expired = sessions[request[r].token].expired]]
  /\ Answer(r, "ok")
  /\ UNCHANGED <<users, jar, tab, call, update, lost, events>>

RevokeOwn(r) ==
  /\ request[r].kind = "logout" /\ request[r].pc = "sent"
  /\ sessions' = IF request[r].token = None THEN sessions
                 ELSE [sessions EXCEPT ![request[r].token].revoked = TRUE]
  /\ Answer(r, "ok")
  /\ UNCHANGED <<users, jar, tab, call, update, lost, events>>
-----------------------------------------------------------------------------
(* AdminUsersService.update, on behalf of a metauser.                       *)

Changed(row, change) ==
  [row EXCEPT !.status = IF change.status = "same" THEN @ ELSE change.status,
              !.role = IF change.role = "same" THEN @ ELSE change.role]

IsMetauser(u) == users[u].role = "metauser" /\ users[u].status = "active"

\* The row of the user is locked; the other metausers are only counted.
BeginUpdate(a, actor, u, change) ==
  LET deactivates == change.status \notin {"same", "active"}
      demotes == change.role = "user"
  IN
  /\ update[a].user = None /\ IsMetauser(actor) /\ ~Locked(u)
  /\ ~(u = actor /\ deactivates)
  /\ IsMetauser(u) /\ (deactivates \/ demotes) =>
       Cardinality({v \in Users : IsMetauser(v)}) > 1
  /\ update' = [update EXCEPT ![a] = [user |-> u, row |-> Changed(users[u], change)]]
  /\ Event
  /\ UNCHANGED <<users, sessions, jar, tab, call, request, lost>>

CommitUpdate(a) ==
  /\ update[a].user # None
  /\ users' = [users EXCEPT ![update[a].user] = update[a].row]
  /\ update' = [update EXCEPT ![a] = IdleUpdate]
  /\ UNCHANGED <<sessions, jar, tab, call, request, lost, events>>
-----------------------------------------------------------------------------
Handle(r) ==
  \/ ReadUser(r) \/ AcceptPassword(r) \/ RefusePassword(r)
  \/ InsertSession(r) \/ InsertFails(r) \/ StoreHash(r)
  \/ ReadSession(r) \/ RevokeSessions(r) \/ ReplaceSession(r) \/ RevokeOwn(r)

Client ==
  \/ \E t \in Tabs, c \in Calls : SendCall(t, c)
  \/ \E c \in Calls : ReceiveCall(c) \/ AwaitRefresh(c)
  \/ \E t \in Tabs, r \in Requests, u \in Visitors : Login(t, r, u)
  \/ \E t \in Tabs, r \in Requests : Logout(t, r)
  \/ \E r \in Requests : Receive(r)

Administer ==
  \/ \E a \in Updates, actor, u \in Users, change \in Changes :
       BeginUpdate(a, actor, u, change)
  \/ \E a \in Updates : CommitUpdate(a)

Time ==
  \/ AccessExpires
  \/ \E s \in SessionIds : SessionExpires(s)
  \/ \E u \in Users : LockPasses(u)

Next ==
  \/ Client
  \/ \E c \in Calls : AnswerCall(c)
  \/ \E r \in Requests : Handle(r) \/ LoseResponse(r)
  \/ Administer \/ Time
  \/ \E u \in Users : SetPassword(u)

Spec == Init /\ [][Next]_vars
-----------------------------------------------------------------------------
\* Tables, cookies and requests in progress have their types.
TypeOK ==
  /\ users \in [Users -> UserRow]
  /\ sessions \in [SessionIds -> SessionRow]
  /\ jar \in Jar
  /\ tab \in [Tabs -> Tab]
  /\ call \in [Calls -> Call]
  /\ request \in [Requests -> Request]
  /\ update \in [Updates -> Update]
  /\ lost \in BOOLEAN
  /\ events \in 0 .. MaxEvents

\* A session that was replaced by a refresh is revoked and stays revoked, whatever
\* entities read before are saved later, and its successor is usable.
ReplacedIsRevoked ==
  \A s \in SessionIds :
    sessions[s].replacedBy # None =>
      /\ sessions[s].revoked
      /\ sessions[sessions[s].replacedBy].hash = "stored"
      /\ sessions[sessions[s].replacedBy].user = sessions[s].user

\* A session whose tokens have left the server.
Issued(s) == sessions[s].hash = "stored" /\ \A r \in Requests : request[r].next # s

\* The revocation of a session that a client can use is final: the second save
\* of login and refresh, which writes revokedAt as NULL, comes before the
\* tokens are handed out.
RevocationIsFinal ==
  [][\A s \in SessionIds :
       Issued(s) /\ sessions[s].revoked => sessions'[s].revoked]_vars

\* The refresh tokens of one tab are spent once: as long as no response is lost,
\* the server never takes the rotation of the client itself for a reuse.
RotationIsNotReuse ==
  \A r \in Requests :
    request[r].pc = "reused" /\ ~lost =>
      sessions[request[r].token].replacedBy = None

=============================================================================
