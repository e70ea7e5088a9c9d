--------------------------- MODULE SessionsProofs ---------------------------
(***************************************************************************)
(* Proofs about the sessions, for any users, tabs, calls and requests.      *)
(***************************************************************************)
EXTENDS Sessions, TLAPS
-----------------------------------------------------------------------------
(* The inductive invariant. *)

\* Rows of the table that are not used yet.
FreeRows == \A s \in SessionIds : sessions[s].user = None => sessions[s] = NoSession

\* The tokens of the cookies and of the requests are of sessions that exist.
TokensExist ==
  /\ jar.access # None => Exists(jar.access)
  /\ jar.refresh # None => Exists(jar.refresh)
  /\ \A r \in Requests :
       /\ request[r].token # None => Exists(request[r].token)
       /\ request[r].next # None => Exists(request[r].next)

\* A call belongs to a tab.
CallsHaveTabs == \A c \in Calls : call[c].pc # "idle" => call[c].tab \in Tabs

\* The session a request creates is known to nobody else until its response is
\* received, and is not replaced.
PrivateNext ==
  \A r \in Requests : request[r].next # None =>
    /\ \A q \in Requests \ {r} : request[q].next # request[r].next
    /\ \A q \in Requests : request[q].token # request[r].next
    /\ jar.access # request[r].next /\ jar.refresh # request[r].next
    /\ sessions[request[r].next].replacedBy = None

\* A request that creates a session does it for a user.
Creates(q, table) ==
  /\ q.kind = "login" /\ q.pc \in {"sent", "checking", "inserting", "hashing"} => q.user \in Users
  /\ q.pc \in {"hashing", "replacing"} =>
       /\ q.next \in SessionIds
       /\ table[q.next].user = q.user
  /\ q.pc = "replacing" => table[q.next].hash = "stored"

\* A refresh replaces the session it read by one of the same user.
Replaces(q, table) ==
  /\ q.pc \in {"reused", "replacing"} => q.kind = "refresh"
  /\ q.pc \in {"inserting", "hashing"} => q.kind # "logout"
  /\ q.kind = "refresh" /\ q.pc \in {"reused", "inserting", "hashing", "replacing"} =>
       /\ q.user \in Users
       /\ q.token \in SessionIds /\ table[q.token].user = q.user
  /\ q.kind = "refresh" /\ q.pc \in {"inserting", "hashing", "replacing"} =>
       /\ q.previous.user = q.user /\ q.previous.hash = "stored"
       /\ table[q.token].hash = "stored"

Handled == \A r \in Requests : Creates(request[r], sessions) /\ Replaces(request[r], sessions)

IInv == /\ TypeOK /\ FreeRows /\ TokensExist /\ PrivateNext /\ Handled
        /\ ReplacedIsRevoked

Refreshing(r) == request[r].kind = "refresh" /\ request[r].pc # "idle"

\* A refresh in progress is the one its tab waits for.
TabWaits ==
  \A r \in Requests : Refreshing(r) =>
    request[r].tab \in Tabs /\ tab[request[r].tab].refreshing = r

\* A token that is sent or held was not spent, but for the one that a refresh
\* has just replaced and the browser will get the answer of.
Unspent ==
  /\ \A r \in Requests :
       Refreshing(r) /\ request[r].token # None =>
         sessions[request[r].token].replacedBy = None
  /\ jar.refresh # None /\ sessions[jar.refresh].replacedBy # None =>
       \E r \in Requests : Refreshing(r) /\ request[r].pc = "ok"

RInv == CallsHaveTabs /\ (~lost => TabWaits /\ Unspent)
-----------------------------------------------------------------------------
(* The operators of the model. *)

\* The records that stand for nothing have their types.
LEMMA IdleTypes ==
  /\ IdleUser \in UserRow
  /\ NoSession \in SessionRow
  /\ EmptyJar \in Jar
  /\ IdleCall \in Call
  /\ IdleRequest \in Request
  /\ IdleUpdate \in Update
<1>1. IdleUser \in UserRow
  BY SessionsAssumption DEF IdleUser, UserRow, Statuses, Locks
<1>2. NoSession \in SessionRow
  BY DEF NoSession, SessionRow
<1>3. IdleRequest \in Request
  BY <1>1, <1>2 DEF IdleRequest, Request, RequestPCs
<1> QED
  BY <1>1, <1>2, <1>3 DEF EmptyJar, Jar, IdleCall, Call, IdleUpdate, Update

\* A session that is opened for a user is a row.
LEMMA OpenedIsRow ==
  ASSUME NEW u \in Users
  PROVE  /\ Opened(u) \in SessionRow
         /\ Opened(u).user = u /\ Opened(u).replacedBy = None /\ ~Opened(u).revoked
BY DEF Opened, NoSession, SessionRow

\* What a login makes of the row of a user is a row.
LEMMA LoginRows ==
  ASSUME NEW row \in UserRow
  PROVE  /\ Accepted(row) \in UserRow
         /\ row.attempts < MaxAttempts => Refused(row) \in UserRow
<1>1. 0 \in 0 .. MaxAttempts /\ "none" \in Locks /\ "locked" \in Locks
  BY SessionsAssumption DEF Locks
<1>2. Accepted(row) \in UserRow
  BY <1>1 DEF Accepted, UserRow
<1>3. ASSUME row.attempts < MaxAttempts
      PROVE  Refused(row) \in UserRow
  <2> DEFINE counted == row.attempts + 1
             lock == IF counted >= LockLimit THEN "locked" ELSE row.locked
  <2>1. counted \in 0 .. MaxAttempts
    BY <1>3, SessionsAssumption DEF UserRow
  <2>2. lock \in Locks
    BY <1>1 DEF UserRow
  <2>3. Refused(row) = [row EXCEPT !.attempts = counted, !.locked = lock]
    BY DEF Refused, UserRow
  <2> HIDE DEF lock, counted
  <2> QED
    BY <2>1, <2>2, <2>3 DEF UserRow
<1> QED
  BY <1>2, <1>3

\* What an answered request is.
LEMMA AnsweredRequest ==
  ASSUME TypeOK, NEW r \in Requests, NEW outcome \in {"ok", "failed"}, Answer(r, outcome)
  PROVE  /\ request' \in [Requests -> Request]
         /\ \A q \in Requests \ {r} : request'[q] = request[q]
         /\ request'[r].kind = request[r].kind /\ request'[r].pc = outcome
         /\ request'[r].tab = request[r].tab
         /\ request'[r].next = request[r].next /\ request'[r].token = None
<1> DEFINE q == [IdleRequest EXCEPT !.kind = request[r].kind, !.pc = outcome,
                    !.tab = request[r].tab, !.next = request[r].next]
<1>1. request[r] \in Request
  BY DEF TypeOK
<1>2. q \in Request
  BY <1>1, IdleTypes DEF Request, RequestPCs
<1>3. /\ q.kind = request[r].kind /\ q.pc = outcome /\ q.tab = request[r].tab
      /\ q.next = request[r].next /\ q.token = None
  BY DEF IdleRequest
<1>4. request' = [request EXCEPT ![r] = q]
  BY DEF Answer
<1> HIDE DEF q
<1> QED
  BY <1>2, <1>3, <1>4 DEF TypeOK

\* What a request that goes on is.
LEMMA ProceedingRequest ==
  ASSUME TypeOK, NEW r \in Requests, NEW pc \in RequestPCs, Proceed(r, pc)
  PROVE  /\ request' \in [Requests -> Request]
         /\ \A q \in Requests \ {r} : request'[q] = request[q]
         /\ request'[r].kind = request[r].kind /\ request'[r].pc = pc
         /\ request'[r].tab = request[r].tab /\ request'[r].user = request[r].user
         /\ request'[r].next = request[r].next /\ request'[r].token = request[r].token
         /\ request'[r].previous = request[r].previous
<1> DEFINE q == [request[r] EXCEPT !.pc = pc, !.entity = IdleUser]
<1>1. request[r] \in Request
  BY DEF TypeOK
<1>2. q \in Request
  BY <1>1, IdleTypes DEF Request
<1>3. /\ q.kind = request[r].kind /\ q.pc = pc /\ q.tab = request[r].tab
      /\ q.user = request[r].user /\ q.next = request[r].next
      /\ q.token = request[r].token /\ q.previous = request[r].previous
  BY <1>1 DEF Request
<1>4. request' = [request EXCEPT ![r] = q]
  BY <1>1 DEF Proceed, TypeOK, Request
<1> HIDE DEF q
<1> QED
  BY <1>2, <1>3, <1>4 DEF TypeOK

\* What a request that was just sent is.
LEMMA PostedRequest ==
  ASSUME NEW kind \in {"login", "refresh", "logout"}, NEW t \in Tabs,
         NEW u \in Users \cup {None}, NEW token \in SessionIds \cup {None}
  PROVE  LET q == Posted(kind, t, u, token) IN
         /\ q \in Request
         /\ q.kind = kind /\ q.pc = "sent" /\ q.tab = t /\ q.user = u /\ q.token = token
         /\ q.next = None
<1>1. IdleRequest \in Request
  BY IdleTypes
<1>2. Posted(kind, t, u, token) \in Request
  BY <1>1 DEF Posted, Request, RequestPCs
<1> QED
  BY <1>2 DEF Posted, IdleRequest

\* What the calls and the tabs are after the answer of a refresh.
LEMMA AfterTypes ==
  ASSUME TypeOK, NEW r \in Requests, NEW success \in BOOLEAN, NEW cookies \in Jar,
         NEW page, request[r].tab \in Tabs => page \in {"login", "app"}
  PROVE  /\ Settled(r, success, cookies) \in [Calls -> Call]
         /\ TabAfter(r, success, page) \in [Tabs -> Tab]
<1>1. ASSUME NEW c \in Calls
      PROVE  /\ call[c] \in Call /\ IdleCall \in Call
             /\ [call[c] EXCEPT !.pc = "sent", !.token = cookies.access] \in Call
  <2>1. call[c] \in Call /\ cookies.access \in SessionIds \cup {None}
    BY DEF TypeOK, Jar
  <2> QED
    BY <2>1, IdleTypes DEF Call
<1>2. Settled(r, success, cookies) \in [Calls -> Call]
  BY <1>1 DEF Settled
<1> DEFINE t == request[r].tab
           refreshing == IF tab[t].refreshing = r THEN None ELSE tab[t].refreshing
           shown == IF success THEN page
                    ELSE IF request[r].kind = "refresh" THEN "login" ELSE tab[t].page
           one == [tab[t] EXCEPT !.refreshing = refreshing]
           both == [one EXCEPT !.page = shown]
<1>3. ASSUME t \in Tabs
      PROVE  TabAfter(r, success, page) \in [Tabs -> Tab]
  <2>1. tab[t] \in Tab /\ refreshing \in Requests \cup {None} /\ shown \in {"login", "app"}
    BY <1>3 DEF TypeOK, Tab
  <2>2. both \in Tab
    BY <2>1 DEF Tab
  <2>3. TabAfter(r, success, page) = [tab EXCEPT ![t] = both]
    BY <1>3, <2>1 DEF TabAfter, TypeOK, Tab
  <2> HIDE DEF both
  <2> QED
    BY <2>2, <2>3 DEF TypeOK
<1>4. ASSUME t \notin Tabs
      PROVE  TabAfter(r, success, page) \in [Tabs -> Tab]
  <2>1. tab \in [Tabs -> Tab] /\ tab = [s \in Tabs |-> tab[s]]
    BY DEF TypeOK
  <2>2. \A v : [tab EXCEPT ![t] = v] = tab
    BY <1>4, <2>1
  <2>3. TabAfter(r, success, page) = tab
    BY <2>2 DEF TabAfter
  <2> QED
    BY <2>1, <2>3
<1> QED
  BY <1>2, <1>3, <1>4

-----------------------------------------------------------------------------
(* The types. *)

\* The steps of the browser keep the types.
LEMMA ClientTypes == TypeOK /\ CallsHaveTabs /\ Client => TypeOK'
<1> SUFFICES ASSUME TypeOK, CallsHaveTabs, Client
             PROVE  TypeOK'
  OBVIOUS
<1>1. ASSUME NEW t \in Tabs, NEW c \in Calls, SendCall(t, c)
      PROVE  TypeOK'
  BY <1>1 DEF SendCall, TypeOK, Call, Jar
<1>2. ASSUME NEW c \in Calls, ReceiveCall(c)
      PROVE  TypeOK'
  BY <1>2, IdleTypes DEF ReceiveCall, TypeOK
<1>3. ASSUME NEW c \in Calls, AwaitRefresh(c)
      PROVE  TypeOK'
  <2> DEFINE t == call[c].tab
             waiting == [call[c] EXCEPT !.pc = "waiting", !.retried = TRUE]
  <2>1. t \in Tabs
    BY <1>3 DEF AwaitRefresh, CallsHaveTabs
  <2>2. waiting \in Call
    BY DEF TypeOK, Call
  <2>3. call' = [call EXCEPT ![c] = waiting]
    BY <1>3 DEF AwaitRefresh, TypeOK, Call
  <2>4. call' \in [Calls -> Call]
    <3> HIDE DEF waiting
    <3> QED
      BY <2>2, <2>3 DEF TypeOK
  <2>5. ASSUME NEW r \in Requests,
               request' = [request EXCEPT ![r] = Posted("refresh", t, None, jar.refresh)],
               tab' = [tab EXCEPT ![t].refreshing = r]
        PROVE  request' \in [Requests -> Request] /\ tab' \in [Tabs -> Tab]
    <3>1. jar.refresh \in SessionIds \cup {None}
      BY DEF TypeOK, Jar
    <3>2. Posted("refresh", t, None, jar.refresh) \in Request
      BY <2>1, <3>1, PostedRequest
    <3>3. tab' \in [Tabs -> Tab]
      BY <2>1, <2>5 DEF TypeOK, Tab
    <3> QED
      BY <2>5, <3>2, <3>3 DEF TypeOK
  <2>6. UNCHANGED <<users, sessions, jar, update, lost, events>>
    BY <1>3 DEF AwaitRefresh
  <2>7. \/ UNCHANGED <<tab, request>>
        \/ \E r \in Requests :
             /\ request' = [request EXCEPT ![r] = Posted("refresh", t, None, jar.refresh)]
             /\ tab' = [tab EXCEPT ![t].refreshing = r]
    BY <1>3 DEF AwaitRefresh
  <2> QED
    BY <2>4, <2>5, <2>6, <2>7 DEF TypeOK
<1>4. ASSUME NEW t \in Tabs, NEW r \in Requests, NEW u \in Visitors, Login(t, r, u)
      PROVE  TypeOK'
  <2>1. Posted("login", t, u, None) \in Request
    BY PostedRequest, SessionsAssumption
  <2>2. tab' \in [Tabs -> Tab]
    BY <1>4 DEF Login, TypeOK, Tab
  <2> QED
    BY <1>4, <2>1, <2>2 DEF Login, TypeOK
<1>5. ASSUME NEW t \in Tabs, NEW r \in Requests, Logout(t, r)
      PROVE  TypeOK'
  <2> DEFINE token == IF jar.access # None THEN jar.access ELSE jar.refresh
  <2>1. token \in SessionIds \cup {None}
    BY DEF TypeOK, Jar
  <2>2. Posted("logout", t, None, token) \in Request
    BY <2>1, PostedRequest
  <2>3. tab' \in [Tabs -> Tab]
    BY <1>5 DEF Logout, TypeOK, Tab
  <2> QED
    BY <1>5, <2>2, <2>3 DEF Logout, TypeOK
<1>6. ASSUME NEW r \in Requests, Receive(r)
      PROVE  TypeOK'
  <2> DEFINE q == request[r]
             success == q.pc = "ok"
             cookies == IF q.kind # "logout" /\ success
                          THEN [access |-> q.next, refresh |-> q.next]
                        ELSE IF q.kind = "login" THEN jar ELSE EmptyJar
             page == IF q.kind = "login" THEN "app"
                     ELSE IF q.kind = "logout" THEN "login" ELSE tab[q.tab].page
  <2>1. q \in Request
    BY DEF TypeOK
  <2>2. cookies \in Jar
    BY <2>1, IdleTypes DEF TypeOK, Jar, Request
  <2>3. success \in BOOLEAN /\ (q.tab \in Tabs => page \in {"login", "app"})
    BY <2>1 DEF TypeOK, Tab
  <2>4. /\ jar' = cookies
        /\ call' = IF q.kind = "refresh" THEN Settled(r, success, cookies) ELSE call
        /\ tab' = TabAfter(r, success, page)
        /\ request' = [request EXCEPT ![r] = IdleRequest]
        /\ UNCHANGED <<users, sessions, update, lost, events>>
    BY <1>6 DEF Receive
  <2> HIDE DEF cookies, success, page
  <2>5. Settled(r, success, cookies) \in [Calls -> Call]
        /\ TabAfter(r, success, page) \in [Tabs -> Tab]
    BY <2>2, <2>3, AfterTypes
  <2> QED
    BY <2>2, <2>4, <2>5, IdleTypes DEF TypeOK
<1> QED
  BY <1>1, <1>2, <1>3, <1>4, <1>5, <1>6 DEF Client

\* The steps of the API keep the types.
LEMMA HandleTypes ==
  ASSUME TypeOK, FreeRows, TokensExist, Handled, NEW r \in Requests, Handle(r)
  PROVE  TypeOK'
<1>0. request[r] \in Request /\ IdleUser \in UserRow
  BY IdleTypes DEF TypeOK
<1>1. CASE ReadUser(r)
  <2>1. request[r].user \in Users
    BY <1>1 DEF ReadUser, Handled, Creates
  <2>2. [request[r] EXCEPT !.pc = "checking", !.entity = users[request[r].user]] \in Request
    BY <1>0, <2>1 DEF TypeOK, Request, RequestPCs
  <2>3. request' = [request EXCEPT ![r] =
                      [request[r] EXCEPT !.pc = "checking", !.entity = users[request[r].user]]]
    BY <1>0, <1>1 DEF ReadUser, TypeOK, Request
  <2> QED
    BY <1>1, <2>2, <2>3 DEF ReadUser, TypeOK
<1>2. CASE AcceptPassword(r)
  <2>1. request[r].entity \in UserRow
    BY <1>0 DEF Request
  <2>2. Accepted(request[r].entity) \in UserRow
    BY <2>1, LoginRows
  <2>3. request' \in [Requests -> Request]
    BY <1>2, ProceedingRequest DEF AcceptPassword, RequestPCs
  <2> QED
    BY <1>2, <2>2, <2>3 DEF AcceptPassword, TypeOK
<1>3. CASE RefusePassword(r)
  <2>1. request[r].entity \in UserRow
    BY <1>0 DEF Request
  <2>2. request[r].entity.attempts < MaxAttempts => Refused(request[r].entity) \in UserRow
    BY <2>1, LoginRows
  <2>3. request' \in [Requests -> Request]
    BY <1>3, AnsweredRequest DEF RefusePassword
  <2> QED
    BY <1>3, <2>2, <2>3 DEF RefusePassword, TypeOK
<1>4. CASE InsertSession(r)
  <2>1. PICK s \in FreeIds : /\ sessions' = [sessions EXCEPT ![s] = Opened(request[r].user)]
                             /\ request' = [request EXCEPT ![r].pc = "hashing", ![r].next = s]
    BY <1>4 DEF InsertSession
  <2>2. request[r].user \in Users
    BY <1>0, <1>4 DEF InsertSession, Handled, Creates, Replaces, Request
  <2>3. [request[r] EXCEPT !.pc = "hashing", !.next = s] \in Request
    BY <1>0, <2>1 DEF Request, RequestPCs, FreeIds
  <2>4. request' = [request EXCEPT ![r] = [request[r] EXCEPT !.pc = "hashing", !.next = s]]
    BY <1>0, <2>1 DEF TypeOK, Request
  <2>5. UNCHANGED <<users, jar, tab, call, update, lost, events>>
    BY <1>4 DEF InsertSession
  <2>6. Opened(request[r].user) \in SessionRow
    BY <2>2, OpenedIsRow
  <2> QED
    BY <2>1, <2>3, <2>4, <2>5, <2>6 DEF TypeOK
<1>5. CASE InsertFails(r)
  BY <1>5, AnsweredRequest DEF InsertFails, TypeOK
<1>6. CASE StoreHash(r)
  <2>1. request[r].user \in Users /\ request[r].next \in SessionIds
    BY <1>0, <1>6 DEF StoreHash, Handled, Creates, Replaces, Request
  <2>2. sessions[request[r].next].expired \in BOOLEAN
    BY <2>1 DEF TypeOK, SessionRow
  <2>3. [Opened(request[r].user) EXCEPT
           !.hash = "stored", !.expired = sessions[request[r].next].expired] \in SessionRow
    BY <2>1, <2>2, OpenedIsRow DEF SessionRow
  <2>4. request' \in [Requests -> Request]
    BY <1>6, AnsweredRequest, ProceedingRequest DEF StoreHash, RequestPCs
  <2> QED
    BY <1>6, <2>3, <2>4 DEF StoreHash, TypeOK
<1>7. CASE ReadSession(r)
  <2> DEFINE s == request[r].token
             reused == [request[r] EXCEPT !.pc = "reused", !.user = sessions[s].user]
             found == [request[r] EXCEPT !.pc = "inserting", !.user = sessions[s].user,
                                         !.previous = sessions[s]]
  <2>1. \/ Answer(r, "failed")
        \/ s # None /\ request' = [request EXCEPT ![r] = reused]
        \/ s # None /\ request' = [request EXCEPT ![r] = found]
    BY <1>0, <1>7 DEF ReadSession, TypeOK, Request
  <2>2. s # None => s \in SessionIds /\ sessions[s] \in SessionRow
    BY <1>0 DEF TypeOK, Request
  <2>3. s # None => reused \in Request /\ found \in Request
    BY <1>0, <2>2 DEF Request, SessionRow, RequestPCs
  <2>4. request' \in [Requests -> Request]
    <3> HIDE DEF reused, found
    <3> QED
      BY <2>1, <2>3, AnsweredRequest DEF TypeOK
  <2> QED
    BY <1>7, <2>4 DEF ReadSession, TypeOK
<1>8. CASE RevokeSessions(r)
  <2>1. \A s \in SessionIds : [sessions[s] EXCEPT !.revoked = TRUE] \in SessionRow
    BY DEF TypeOK, SessionRow
  <2>2. request' \in [Requests -> Request]
    BY <1>8, AnsweredRequest DEF RevokeSessions
  <2> QED
    BY <1>8, <2>1, <2>2 DEF RevokeSessions, TypeOK
<1>9. CASE ReplaceSession(r)
  <2>1. /\ request[r].token \in SessionIds /\ request[r].next \in SessionIds
        /\ request[r].previous \in SessionRow
    BY <1>0, <1>9 DEF ReplaceSession, Handled, Creates, Replaces, Request
  <2>2. sessions[request[r].token].expired \in BOOLEAN
    BY <2>1 DEF TypeOK, SessionRow
  <2>3. [request[r].previous EXCEPT
           !.revoked = TRUE, !.replacedBy = request[r].next,
           !.expired = sessions[request[r].token].expired] \in SessionRow
    BY <2>1, <2>2 DEF SessionRow
  <2>4. request' \in [Requests -> Request]
    BY <1>9, AnsweredRequest DEF ReplaceSession
  <2> QED
    BY <1>9, <2>3, <2>4 DEF ReplaceSession, TypeOK
<1>10. CASE RevokeOwn(r)
  <2>1. request' \in [Requests -> Request]
    BY <1>10, AnsweredRequest DEF RevokeOwn
  <2>2. sessions' \in [SessionIds -> SessionRow]
    BY <1>10 DEF RevokeOwn, TypeOK, SessionRow
  <2> QED
    BY <1>10, <2>1, <2>2 DEF RevokeOwn, TypeOK
<1> QED
  BY <1>1, <1>2, <1>3, <1>4, <1>5, <1>6, <1>7, <1>8, <1>9, <1>10 DEF Handle

\* Every step keeps the types.
LEMMA TypeStep == IInv /\ CallsHaveTabs /\ [Next]_vars => TypeOK'
<1> SUFFICES ASSUME IInv, CallsHaveTabs, [Next]_vars
             PROVE  TypeOK'
  OBVIOUS
<1>0. TypeOK
  BY DEF IInv
<1>1. Event => events' \in 0 .. MaxEvents
  BY <1>0, SessionsAssumption DEF Event, TypeOK
<1>2. CASE Client
  BY <1>0, <1>2, ClientTypes
<1>3. ASSUME NEW c \in Calls, AnswerCall(c)
      PROVE  TypeOK'
  BY <1>0, <1>3 DEF AnswerCall, TypeOK, Call
<1>4. ASSUME NEW r \in Requests, Handle(r)
      PROVE  TypeOK'
  BY <1>4, HandleTypes DEF IInv
<1>5. ASSUME NEW r \in Requests, LoseResponse(r)
      PROVE  TypeOK'
  <2>1. Settled(r, FALSE, jar) \in [Calls -> Call] /\ TabAfter(r, FALSE, "login") \in [Tabs -> Tab]
    BY <1>0, AfterTypes DEF TypeOK
  <2> QED
    BY <1>0, <1>1, <1>5, <2>1, IdleTypes DEF LoseResponse, TypeOK
<1>6. ASSUME NEW a \in Updates, NEW actor \in Users, NEW u \in Users, NEW change \in Changes,
             BeginUpdate(a, actor, u, change)
      PROVE  TypeOK'
  <2>1. Changed(users[u], change) \in UserRow
    BY <1>0, SessionsAssumption DEF Changed, TypeOK, UserRow, Statuses
  <2>2. [user |-> u, row |-> Changed(users[u], change)] \in Update
    BY <2>1 DEF Update
  <2> QED
    BY <1>0, <1>1, <1>6, <2>2 DEF BeginUpdate, TypeOK
<1>7. ASSUME NEW a \in Updates, CommitUpdate(a)
      PROVE  TypeOK'
  <2>1. update[a].row \in UserRow
    BY <1>0 DEF TypeOK, Update
  <2> QED
    BY <1>0, <1>7, <2>1, IdleTypes DEF CommitUpdate, TypeOK
<1>8. CASE AccessExpires
  BY <1>0, <1>1, <1>8 DEF AccessExpires, TypeOK, Jar
<1>9. ASSUME NEW s \in SessionIds, SessionExpires(s)
      PROVE  TypeOK'
  BY <1>0, <1>1, <1>9 DEF SessionExpires, TypeOK, SessionRow
<1>10. ASSUME NEW u \in Users, LockPasses(u)
       PROVE  TypeOK'
  BY <1>0, <1>1, <1>10 DEF LockPasses, TypeOK, UserRow, Locks
<1>11. ASSUME NEW u \in Users, SetPassword(u)
       PROVE  TypeOK'
  <2>1. Accepted(users[u]) \in UserRow
    BY <1>0, LoginRows DEF TypeOK
  <2> QED
    BY <1>0, <1>1, <1>11, <2>1 DEF SetPassword, TypeOK
<1>12. CASE UNCHANGED vars
  BY <1>0, <1>12 DEF vars, TypeOK
<1> QED
  BY <1>2, <1>3, <1>4, <1>5, <1>6, <1>7, <1>8, <1>9, <1>10, <1>11, <1>12 DEF Next, Administer, Time

-----------------------------------------------------------------------------
(* What the steps do to the sessions, the requests and the cookies. *)

\* The steps that write the table of sessions.
LEMMA SessionWriters ==
  ASSUME [Next]_vars
  PROVE  \/ UNCHANGED sessions
         \/ \E r \in Requests : \/ InsertSession(r) \/ StoreHash(r) \/ RevokeSessions(r)
                                \/ ReplaceSession(r) \/ RevokeOwn(r)
         \/ \E s \in SessionIds : SessionExpires(s)
<1>1. CASE Client
  BY <1>1 DEF Client, SendCall, ReceiveCall, AwaitRefresh, Login, Logout, Receive
<1>2. CASE \E r \in Requests : Handle(r)
  BY <1>2 DEF Handle, ReadUser, AcceptPassword, RefusePassword, InsertFails, ReadSession
<1>3. CASE (\E c \in Calls : AnswerCall(c)) \/ (\E r \in Requests : LoseResponse(r))
  BY <1>3 DEF AnswerCall, LoseResponse
<1>4. CASE Administer \/ AccessExpires \/ (\E u \in Users : LockPasses(u) \/ SetPassword(u))
  BY <1>4 DEF Administer, BeginUpdate, CommitUpdate, AccessExpires, LockPasses, SetPassword
<1>5. CASE UNCHANGED vars
  BY <1>5 DEF vars
<1> QED
  BY <1>1, <1>2, <1>3, <1>4, <1>5 DEF Next, Time

\* A session belongs to its user for ever; it is stored for ever; only a refresh
\* links it to another, and only the second save of the request that created
\* it takes its revocation back.
Stays(s) ==
  /\ sessions'[s].user = sessions[s].user
  /\ sessions[s].hash = "stored" => sessions'[s].hash = "stored"
  /\ \/ sessions'[s].replacedBy = sessions[s].replacedBy
     \/ \E r \in Requests : /\ ReplaceSession(r) /\ request[r].token = s
                            /\ sessions'[s].replacedBy = request[r].next
                            /\ sessions'[s].revoked
  /\ sessions[s].revoked =>
       \/ sessions'[s].revoked
       \/ \E r \in Requests : StoreHash(r) /\ request[r].next = s

\* The request that stores the hash of a session created it for its user.
LEMMA StoresOwn ==
  ASSUME IInv, NEW r \in Requests, StoreHash(r)
  PROVE  /\ request[r].next \in SessionIds /\ request[r].user \in Users
         /\ request[r].user # None
         /\ sessions[request[r].next].user = request[r].user
         /\ sessions[request[r].next].replacedBy = None
         /\ request[r].kind \in {"login", "refresh"}
<1>1. request[r].pc = "hashing" /\ request[r].kind \in {"login", "refresh", "logout"}
  BY DEF StoreHash, IInv, TypeOK, Request
<1>2. Creates(request[r], sessions) /\ Replaces(request[r], sessions)
  BY DEF IInv, Handled
<1>3. request[r].next \in SessionIds /\ request[r].next # None
  BY <1>1, <1>2, SessionsAssumption DEF Creates
<1>4. sessions[request[r].next].replacedBy = None
  BY <1>3 DEF IInv, PrivateNext
<1> QED
  BY <1>1, <1>2, <1>3, <1>4, SessionsAssumption DEF Creates, Replaces

\* The rows that are used stay.
LEMMA SessionsStay ==
  ASSUME IInv, [Next]_vars, NEW s \in SessionIds, sessions[s].user # None
  PROVE  Stays(s)
<1> USE DEF IInv
<1>0. sessions[s] \in SessionRow
  BY DEF TypeOK
<1>1. CASE UNCHANGED sessions
  BY <1>1 DEF Stays
<1>2. ASSUME NEW r \in Requests, InsertSession(r)
      PROVE  Stays(s)
  <2>1. sessions'[s] = sessions[s]
    BY <1>2 DEF InsertSession, FreeIds, TypeOK
  <2> QED
    BY <2>1 DEF Stays
<1>3. ASSUME NEW r \in Requests, StoreHash(r)
      PROVE  Stays(s)
  <2> DEFINE row == [Opened(request[r].user) EXCEPT
                       !.hash = "stored", !.expired = sessions[request[r].next].expired]
  <2>1. /\ request[r].next \in SessionIds /\ request[r].user \in Users
        /\ sessions[request[r].next].user = request[r].user
        /\ sessions[request[r].next].replacedBy = None
    BY <1>3, StoresOwn
  <2>2. row.user = request[r].user /\ row.hash = "stored" /\ row.replacedBy = None
    BY <2>1, OpenedIsRow DEF Opened, NoSession
  <2>3. sessions' = [sessions EXCEPT ![request[r].next] = row]
    BY <1>3 DEF StoreHash
  <2> HIDE DEF row
  <2>4. CASE request[r].next = s
    BY <1>3, <2>1, <2>2, <2>3, <2>4 DEF Stays, TypeOK
  <2>5. CASE request[r].next # s
    BY <2>3, <2>5 DEF Stays, TypeOK
  <2> QED
    BY <2>4, <2>5
<1>4. ASSUME NEW r \in Requests, RevokeSessions(r) \/ RevokeOwn(r)
      PROVE  Stays(s)
  <2>1. sessions'[s] \in {sessions[s], [sessions[s] EXCEPT !.revoked = TRUE]}
    BY <1>4 DEF RevokeSessions, RevokeOwn, TypeOK
  <2> QED
    BY <1>0, <2>1 DEF Stays, SessionRow
<1>5. ASSUME NEW r \in Requests, ReplaceSession(r)
      PROVE  Stays(s)
  <2> DEFINE row == [request[r].previous EXCEPT
                       !.revoked = TRUE, !.replacedBy = request[r].next,
                       !.expired = sessions[request[r].token].expired]
  <2>1. /\ request[r].token \in SessionIds
        /\ request[r].previous.user = sessions[request[r].token].user
        /\ request[r].previous.hash = "stored"
        /\ request[r].previous \in SessionRow
    BY <1>5 DEF ReplaceSession, TypeOK, Request, Handled, Replaces
  <2>2. /\ row.user = request[r].previous.user /\ row.hash = "stored" /\ row.revoked
        /\ row.replacedBy = request[r].next
    BY <2>1 DEF SessionRow
  <2>3. sessions' = [sessions EXCEPT ![request[r].token] = row]
    BY <1>5 DEF ReplaceSession
  <2> HIDE DEF row
  <2>4. CASE request[r].token = s
    BY <1>5, <2>1, <2>2, <2>3, <2>4 DEF Stays, TypeOK
  <2>5. CASE request[r].token # s
    BY <2>3, <2>5 DEF Stays, TypeOK
  <2> QED
    BY <2>4, <2>5
<1>6. ASSUME NEW t \in SessionIds, SessionExpires(t)
      PROVE  Stays(s)
  <2>1. sessions'[s] \in {sessions[s], [sessions[s] EXCEPT !.expired = TRUE]}
    BY <1>6 DEF SessionExpires, TypeOK
  <2> QED
    BY <1>0, <2>1 DEF Stays, SessionRow
<1> QED
  BY <1>1, <1>2, <1>3, <1>4, <1>5, <1>6, SessionWriters

\* A row that is free stays free, or is opened for the user of a request.
LEMMA FreeStays ==
  ASSUME IInv, [Next]_vars, NEW s \in SessionIds, sessions[s].user = None
  PROVE  \/ sessions'[s] = sessions[s]
         \/ \E r \in Requests :
              /\ InsertSession(r) /\ request'[r].next = s /\ request[r].user \in Users
              /\ sessions'[s] = Opened(request[r].user)
<1> USE DEF IInv
<1>1. ASSUME NEW r \in Requests, InsertSession(r), sessions'[s] # sessions[s]
      PROVE  /\ request'[r].next = s /\ request[r].user \in Users
             /\ sessions'[s] = Opened(request[r].user)
  <2>1. PICK t \in FreeIds : /\ sessions' = [sessions EXCEPT ![t] = Opened(request[r].user)]
                             /\ request' = [request EXCEPT ![r].pc = "hashing", ![r].next = t]
    BY <1>1 DEF InsertSession
  <2>2. t = s
    BY <1>1, <2>1 DEF TypeOK
  <2>3. request'[r].next = t
    BY <2>1 DEF TypeOK, Request
  <2>4. request[r].user \in Users
    BY <1>1 DEF InsertSession, TypeOK, Request, Handled, Creates, Replaces
  <2> QED
    BY <2>1, <2>2, <2>3, <2>4 DEF TypeOK
<1>2. ASSUME NEW r \in Requests, StoreHash(r)
      PROVE  sessions'[s] = sessions[s]
  <2>1. request[r].next # s
    BY <1>2, StoresOwn
  <2> QED
    BY <1>2, <2>1 DEF StoreHash, TypeOK
<1>3. ASSUME NEW r \in Requests, RevokeSessions(r)
      PROVE  sessions'[s] = sessions[s]
  <2>1. request[r].user # None
    BY <1>3, SessionsAssumption DEF RevokeSessions, Handled, Replaces
  <2> QED
    BY <1>3, <2>1 DEF RevokeSessions, TypeOK
<1>4. ASSUME NEW r \in Requests, RevokeOwn(r) \/ ReplaceSession(r)
      PROVE  sessions'[s] = sessions[s]
  <2>1. request[r].token # s
    <3>1. request[r].token # None => sessions[request[r].token].user # None
      BY DEF TokensExist, Exists
    <3>2. s # None
      BY SessionsAssumption
    <3> QED
      BY <3>1, <3>2
  <2> QED
    BY <1>4, <2>1 DEF RevokeOwn, ReplaceSession, TypeOK
<1>5. ASSUME NEW t \in SessionIds, SessionExpires(t)
      PROVE  sessions'[s] = sessions[s]
  BY <1>5 DEF SessionExpires, Exists, TypeOK
<1> QED
  BY <1>1, <1>2, <1>3, <1>4, <1>5, SessionWriters

\* Rows that are not used have nothing in them.
LEMMA FreeRowsStep == IInv /\ [Next]_vars => FreeRows'
<1> SUFFICES ASSUME IInv, [Next]_vars, NEW s \in SessionIds, sessions'[s].user = None
             PROVE  sessions'[s] = NoSession
  BY DEF FreeRows
<1>1. sessions[s].user = None
  BY SessionsStay DEF Stays
<1>2. sessions'[s] = sessions[s]
  <2>1. ASSUME NEW r \in Requests, request[r].user \in Users,
               sessions'[s] = Opened(request[r].user)
        PROVE  FALSE
    BY <2>1, OpenedIsRow, SessionsAssumption
  <2> QED
    BY <1>1, <2>1, FreeStays
<1> QED
  BY <1>1, <1>2 DEF IInv, FreeRows

\* What a step of the API does to its request.
LEMMA HandleEffects ==
  ASSUME IInv, NEW r \in Requests, Handle(r)
  PROVE  /\ UNCHANGED <<jar, tab, call, lost>>
         /\ \A q \in Requests \ {r} : request'[q] = request[q]
         /\ request'[r].kind = request[r].kind /\ request'[r].tab = request[r].tab
         /\ request[r].pc \notin {"idle", "ok", "failed"} /\ request'[r].pc # "idle"
         /\ request'[r].token \in {request[r].token, None}
         /\ \/ request'[r].next = request[r].next
            \/ /\ InsertSession(r) /\ request'[r].next \in FreeIds
               /\ sessions'[request'[r].next].user = request[r].user
               /\ sessions'[request'[r].next].replacedBy = None
<1> DEFINE Goal ==
      /\ UNCHANGED <<jar, tab, call, lost>>
      /\ \A q \in Requests \ {r} : request'[q] = request[q]
      /\ request'[r].kind = request[r].kind /\ request'[r].tab = request[r].tab
      /\ request[r].pc \notin {"idle", "ok", "failed"} /\ request'[r].pc # "idle"
      /\ request'[r].token \in {request[r].token, None}
      /\ \/ request'[r].next = request[r].next
         \/ /\ InsertSession(r) /\ request'[r].next \in FreeIds
            /\ sessions'[request'[r].next].user = request[r].user
            /\ sessions'[request'[r].next].replacedBy = None
<1>0. TypeOK /\ request[r] \in Request
  BY DEF IInv, TypeOK
<1>1. ASSUME NEW outcome \in {"ok", "failed"}, Answer(r, outcome),
             request[r].pc \notin {"idle", "ok", "failed"}, UNCHANGED <<jar, tab, call, lost>>
      PROVE  Goal
  BY <1>0, <1>1, AnsweredRequest
<1>2. ASSUME NEW pc \in RequestPCs \ {"idle"}, Proceed(r, pc),
             request[r].pc \notin {"idle", "ok", "failed"}, UNCHANGED <<jar, tab, call, lost>>
      PROVE  Goal
  BY <1>0, <1>2, ProceedingRequest
<1>3. CASE ReadUser(r)
  <2> DEFINE q == [request[r] EXCEPT !.pc = "checking", !.entity = users[request[r].user]]
  <2>1. request' = [request EXCEPT ![r] = q]
    BY <1>0, <1>3 DEF ReadUser, TypeOK, Request
  <2>2. /\ q.kind = request[r].kind /\ q.tab = request[r].tab /\ q.pc = "checking"
        /\ q.token = request[r].token /\ q.next = request[r].next
    BY <1>0 DEF Request
  <2> HIDE DEF q
  <2> QED
    BY <1>0, <1>3, <2>1, <2>2 DEF ReadUser, TypeOK
<1>4. CASE AcceptPassword(r)
  BY <1>2, <1>4 DEF AcceptPassword, RequestPCs
<1>5. CASE RefusePassword(r)
  BY <1>1, <1>5 DEF RefusePassword
<1>6. CASE InsertSession(r)
  <2>1. PICK s \in FreeIds : /\ sessions' = [sessions EXCEPT ![s] = Opened(request[r].user)]
                             /\ request' = [request EXCEPT ![r].pc = "hashing", ![r].next = s]
    BY <1>6 DEF InsertSession
  <2> DEFINE q == [request[r] EXCEPT !.pc = "hashing", !.next = s]
  <2>2. request' = [request EXCEPT ![r] = q]
    BY <1>0, <2>1 DEF TypeOK, Request
  <2>3. /\ q.kind = request[r].kind /\ q.tab = request[r].tab /\ q.pc = "hashing"
        /\ q.token = request[r].token /\ q.next = s
    BY <1>0 DEF Request
  <2>4. sessions'[s].user = request[r].user /\ sessions'[s].replacedBy = None
    BY <1>0, <2>1 DEF TypeOK, FreeIds, Opened, NoSession
  <2> HIDE DEF q
  <2> QED
    BY <1>0, <1>6, <2>1, <2>2, <2>3, <2>4 DEF InsertSession, TypeOK
<1>7. CASE InsertFails(r)
  BY <1>1, <1>7 DEF InsertFails
<1>8. CASE StoreHash(r)
  BY <1>1, <1>2, <1>8 DEF StoreHash, RequestPCs
<1>9. CASE ReadSession(r)
  <2> DEFINE s == request[r].token
             reused == [request[r] EXCEPT !.pc = "reused", !.user = sessions[s].user]
             found == [request[r] EXCEPT !.pc = "inserting", !.user = sessions[s].user,
                                         !.previous = sessions[s]]
  <2>1. \/ Answer(r, "failed")
        \/ request' = [request EXCEPT ![r] = reused]
        \/ request' = [request EXCEPT ![r] = found]
    BY <1>0, <1>9 DEF ReadSession, TypeOK, Request
  <2>2. /\ reused.kind = request[r].kind /\ reused.tab = request[r].tab
        /\ reused.pc = "reused" /\ reused.token = request[r].token
        /\ reused.next = request[r].next
        /\ found.kind = request[r].kind /\ found.tab = request[r].tab
        /\ found.pc = "inserting" /\ found.token = request[r].token
        /\ found.next = request[r].next
    BY <1>0 DEF Request
  <2>3. request[r].pc = "sent" /\ UNCHANGED <<jar, tab, call, lost>>
    BY <1>9 DEF ReadSession
  <2> HIDE DEF reused, found
  <2> QED
    BY <1>0, <1>1, <2>1, <2>2, <2>3 DEF TypeOK
<1>10. CASE RevokeSessions(r)
  BY <1>1, <1>10 DEF RevokeSessions
<1>11. CASE ReplaceSession(r)
  BY <1>1, <1>11 DEF ReplaceSession
<1>12. CASE RevokeOwn(r)
  BY <1>1, <1>12 DEF RevokeOwn
<1> QED
  BY <1>3, <1>4, <1>5, <1>6, <1>7, <1>8, <1>9, <1>10, <1>11, <1>12 DEF Handle

\* A request is sent by one of these steps of the browser.
Posts(r, kind, t, u, token) ==
  /\ request[r].pc = "idle" /\ t \in Tabs
  /\ request' = [request EXCEPT ![r] = Posted(kind, t, u, token)]
  /\ UNCHANGED <<sessions, jar, lost>>
  /\ \/ /\ kind = "login" /\ u \in Users /\ token = None
        /\ tab' = [tab EXCEPT ![t].leaving = FALSE]
     \/ /\ kind = "logout" /\ u = None /\ token \in {jar.access, jar.refresh}
        /\ tab' = [tab EXCEPT ![t].leaving = TRUE]
     \/ /\ kind = "refresh" /\ u = None /\ token = jar.refresh
        /\ tab[t].refreshing = None /\ tab' = [tab EXCEPT ![t].refreshing = r]

\* The steps that change a request: the browser sends it, the API handles it,
\* and the browser receives its answer, or nothing.
LEMMA RequestSteps ==
  ASSUME CallsHaveTabs, [Next]_vars
  PROVE  \/ UNCHANGED <<request, jar, tab>>
         \/ UNCHANGED <<request, tab>> /\ AccessExpires
         \/ \E r \in Requests, kind \in {"login", "refresh", "logout"} :
              \E t, u, token : Posts(r, kind, t, u, token)
         \/ \E r \in Requests : Handle(r) \/ Receive(r) \/ LoseResponse(r)
<1>1. CASE Client
  <2>1. ASSUME NEW t \in Tabs, NEW r \in Requests, NEW u \in Visitors, Login(t, r, u)
        PROVE  Posts(r, "login", t, u, None)
    BY <2>1, SessionsAssumption DEF Login, Posts
  <2>2. ASSUME NEW t \in Tabs, NEW r \in Requests, Logout(t, r)
        PROVE  \E token : Posts(r, "logout", t, None, token)
    BY <2>2 DEF Logout, Posts
  <2>3. ASSUME NEW c \in Calls, AwaitRefresh(c), ~UNCHANGED <<tab, request>>
        PROVE  \E r \in Requests : Posts(r, "refresh", call[c].tab, None, jar.refresh)
    BY <2>3 DEF AwaitRefresh, Posts, CallsHaveTabs
  <2>4. ASSUME NEW c \in Calls, AwaitRefresh(c)
        PROVE  UNCHANGED jar
    BY <2>4 DEF AwaitRefresh
  <2>5. ASSUME NEW t \in Tabs, NEW c \in Calls, SendCall(t, c)
        PROVE  UNCHANGED <<request, jar, tab>>
    BY <2>5 DEF SendCall
  <2>6. ASSUME NEW c \in Calls, ReceiveCall(c)
        PROVE  UNCHANGED <<request, jar, tab>>
    BY <2>6 DEF ReceiveCall
  <2> QED
    BY <1>1, <2>1, <2>2, <2>3, <2>4, <2>5, <2>6 DEF Client
<1>2. CASE \E c \in Calls : AnswerCall(c)
  BY <1>2 DEF AnswerCall
<1>3. CASE Administer \/ (\E u \in Users : LockPasses(u) \/ SetPassword(u))
           \/ (\E s \in SessionIds : SessionExpires(s))
  BY <1>3 DEF Administer, BeginUpdate, CommitUpdate, SessionExpires, LockPasses, SetPassword
<1>4. CASE AccessExpires
  BY <1>4 DEF AccessExpires
<1>5. CASE UNCHANGED vars
  BY <1>5 DEF vars
<1> QED
  BY <1>1, <1>2, <1>3, <1>4, <1>5 DEF Next, Time

\* What the browser does with an answer, or without one.
LEMMA ReceiveEffects ==
  ASSUME IInv, NEW r \in Requests, Receive(r) \/ LoseResponse(r)
  PROVE  /\ request' = [request EXCEPT ![r] = IdleRequest]
         /\ UNCHANGED sessions
         /\ request[r].pc \in {"ok", "failed"}
         /\ LoseResponse(r) => lost' /\ jar' = jar
         /\ Receive(r) =>
              /\ UNCHANGED lost
              /\ \/ jar' = [access |-> request[r].next, refresh |-> request[r].next]
                 \/ jar' = EmptyJar
                 \/ jar' = jar /\ request[r].kind = "login"
         /\ \A t \in Tabs : tab'[t].refreshing \in {tab[t].refreshing, None}
         /\ \A t \in Tabs : tab[t].refreshing # r => tab'[t].refreshing = tab[t].refreshing
<1> DEFINE t == request[r].tab
<1>1. ASSUME NEW success, NEW page
      PROVE  \A s \in Tabs :
               TabAfter(r, success, page)[s].refreshing =
                 IF s = t /\ tab[s].refreshing = r THEN None ELSE tab[s].refreshing
  <2> DEFINE refreshing == IF tab[t].refreshing = r THEN None ELSE tab[t].refreshing
             shown == IF success THEN page
                      ELSE IF request[r].kind = "refresh" THEN "login" ELSE tab[t].page
             both == [[tab[t] EXCEPT !.refreshing = refreshing] EXCEPT !.page = shown]
  <2>1. tab \in [Tabs -> Tab]
    BY DEF IInv, TypeOK
  <2>2. CASE t \in Tabs
    <3>1. TabAfter(r, success, page) = [tab EXCEPT ![t] = both]
      BY <2>1, <2>2 DEF TabAfter, Tab
    <3>2. both.refreshing = refreshing
      BY <2>1, <2>2 DEF Tab
    <3> HIDE DEF both
    <3> QED
      BY <2>1, <3>1, <3>2
  <2>3. CASE t \notin Tabs
    <3>1. \A v : [tab EXCEPT ![t] = v] = tab
      BY <2>1, <2>3
    <3>2. TabAfter(r, success, page) = tab
      BY <3>1 DEF TabAfter
    <3> QED
      BY <2>3, <3>2
  <2> QED
    BY <2>2, <2>3
<1>2. ASSUME Receive(r)
      PROVE  \E success, page : tab' = TabAfter(r, success, page)
  BY <1>2 DEF Receive
<1>3. ASSUME LoseResponse(r)
      PROVE  tab' = TabAfter(r, FALSE, "login")
  BY <1>3 DEF LoseResponse
<1>4. ASSUME Receive(r)
      PROVE  \/ jar' = [access |-> request[r].next, refresh |-> request[r].next]
             \/ jar' = EmptyJar
             \/ jar' = jar /\ request[r].kind = "login"
  BY <1>4 DEF Receive
<1>5. /\ request' = [request EXCEPT ![r] = IdleRequest]
      /\ UNCHANGED sessions
      /\ request[r].pc \in {"ok", "failed"}
      /\ LoseResponse(r) => lost' /\ jar' = jar
      /\ Receive(r) => UNCHANGED lost
  BY DEF Receive, LoseResponse
<1>6. PICK success, page : tab' = TabAfter(r, success, page)
  BY <1>2, <1>3
<1> QED
  BY <1>1, <1>4, <1>5, <1>6

\* A posted request changes nothing else.
LEMMA PostsEffects ==
  ASSUME IInv, NEW r \in Requests, NEW kind \in {"login", "refresh", "logout"},
         NEW t, NEW u, NEW token, Posts(r, kind, t, u, token)
  PROVE  /\ \A q \in Requests \ {r} : request'[q] = request[q]
         /\ request'[r].kind = kind /\ request'[r].pc = "sent" /\ request'[r].tab = t
         /\ request'[r].user = u /\ request'[r].token = token /\ request'[r].next = None
         /\ token \in {None, jar.access, jar.refresh}
<1>1. t \in Tabs /\ u \in Users \cup {None} /\ token \in SessionIds \cup {None}
  BY DEF Posts, IInv, TypeOK, Jar
<1>2. request'[r] = Posted(kind, t, u, token)
      /\ \A q \in Requests \ {r} : request'[q] = request[q]
  BY DEF Posts, IInv, TypeOK
<1>3. /\ Posted(kind, t, u, token).kind = kind /\ Posted(kind, t, u, token).pc = "sent"
      /\ Posted(kind, t, u, token).tab = t /\ Posted(kind, t, u, token).user = u
      /\ Posted(kind, t, u, token).token = token /\ Posted(kind, t, u, token).next = None
  BY DEF Posted, IdleRequest
<1> QED
  BY <1>2, <1>3 DEF Posts

\* The tokens of requests and cookies are old ones, come from the cookies or
\* from an answer; only the insert of a session makes a new one.
LEMMA TokensCome ==
  ASSUME IInv, CallsHaveTabs, [Next]_vars
  PROVE  /\ \A r \in Requests :
              request'[r].token \in {request[r].token, None, jar.access, jar.refresh}
         /\ \A r \in Requests :
              \/ request'[r].next \in {request[r].next, None}
              \/ /\ InsertSession(r) /\ request'[r].next \in FreeIds
                 /\ request[r].user \in Users
                 /\ sessions'[request'[r].next].user = request[r].user
                 /\ sessions'[request'[r].next].replacedBy = None
                 /\ \A q \in Requests \ {r} : request'[q] = request[q]
         /\ \/ jar' = jar \/ jar' = EmptyJar
            \/ jar'.access = None /\ jar'.refresh = jar.refresh
            \/ \E r \in Requests :
                 /\ jar' = [access |-> request[r].next, refresh |-> request[r].next]
                 /\ request'[r].next = None
<1> DEFINE Goal ==
         /\ \A r \in Requests :
              request'[r].token \in {request[r].token, None, jar.access, jar.refresh}
         /\ \A r \in Requests :
              \/ request'[r].next \in {request[r].next, None}
              \/ /\ InsertSession(r) /\ request'[r].next \in FreeIds
                 /\ request[r].user \in Users
                 /\ sessions'[request'[r].next].user = request[r].user
                 /\ sessions'[request'[r].next].replacedBy = None
                 /\ \A q \in Requests \ {r} : request'[q] = request[q]
         /\ \/ jar' = jar \/ jar' = EmptyJar
            \/ jar'.access = None /\ jar'.refresh = jar.refresh
            \/ \E r \in Requests :
                 /\ jar' = [access |-> request[r].next, refresh |-> request[r].next]
                 /\ request'[r].next = None
<1>0. TypeOK
  BY DEF IInv
<1>1. CASE UNCHANGED <<request, jar, tab>>
  BY <1>1
<1>2. CASE UNCHANGED <<request, tab>> /\ AccessExpires
  BY <1>0, <1>2 DEF AccessExpires, TypeOK, Jar
<1>3. ASSUME NEW r \in Requests, NEW kind \in {"login", "refresh", "logout"},
             NEW t, NEW u, NEW token, Posts(r, kind, t, u, token)
      PROVE  Goal
  <2>1. UNCHANGED jar
    BY <1>3 DEF Posts
  <2> QED
    BY <1>3, <2>1, PostsEffects
<1>4. ASSUME NEW r \in Requests, Handle(r)
      PROVE  Goal
  <2>1. InsertSession(r) => request[r].user \in Users
    BY <1>0 DEF InsertSession, TypeOK, Request, IInv, Handled, Creates, Replaces
  <2> QED
    BY <1>4, <2>1, HandleEffects
<1>5. ASSUME NEW r \in Requests, Receive(r) \/ LoseResponse(r)
      PROVE  Goal
  <2>1. request' = [request EXCEPT ![r] = IdleRequest]
    BY <1>5, ReceiveEffects
  <2>2. request'[r].token = None /\ request'[r].next = None
    BY <1>0, <2>1 DEF TypeOK, IdleRequest
  <2>3. \A q \in Requests \ {r} : request'[q] = request[q]
    BY <1>0, <2>1 DEF TypeOK
  <2> QED
    BY <1>5, <2>2, <2>3, ReceiveEffects
<1> QED
  BY <1>1, <1>2, <1>3, <1>4, <1>5, RequestSteps

\* A session exists after the step.
Lives(s) == s # None /\ sessions'[s].user # None

\* Sessions that exist go on existing.
LEMMA ExistsStays ==
  ASSUME IInv, [Next]_vars, NEW s \in SessionIds \cup {None}, Exists(s)
  PROVE  Lives(s)
BY SessionsStay DEF Stays, Exists, Lives

\* Every token goes on being of a session that exists.
LEMMA TokensExistStep == IInv /\ CallsHaveTabs /\ [Next]_vars => TokensExist'
<1> SUFFICES ASSUME IInv, CallsHaveTabs, [Next]_vars
             PROVE  TokensExist'
  OBVIOUS
<1>0. /\ jar.access \in SessionIds \cup {None} /\ jar.refresh \in SessionIds \cup {None}
      /\ \A r \in Requests : /\ request[r].token \in SessionIds \cup {None}
                             /\ request[r].next \in SessionIds \cup {None}
  BY DEF IInv, TypeOK, Jar, Request
<1>1. TokensExist
  BY DEF IInv
<1>2. (jar.access # None => Lives(jar.access)) /\ (jar.refresh # None => Lives(jar.refresh))
  BY <1>0, <1>1, ExistsStays DEF TokensExist
<1>3. \A r \in Requests : /\ request[r].token # None => Lives(request[r].token)
                          /\ request[r].next # None => Lives(request[r].next)
  BY <1>0, <1>1, ExistsStays DEF TokensExist
<1>4. ASSUME NEW r \in Requests, request'[r].token # None
      PROVE  Lives(request'[r].token)
  BY <1>2, <1>3, <1>4, TokensCome
<1>5. ASSUME NEW r \in Requests, request'[r].next # None
      PROVE  Lives(request'[r].next)
  BY <1>3, <1>5, TokensCome, SessionsAssumption DEF Lives
<1>6. /\ jar'.access # None => Lives(jar'.access)
      /\ jar'.refresh # None => Lives(jar'.refresh)
  BY <1>2, <1>3, TokensCome DEF EmptyJar
<1> QED
  BY <1>4, <1>5, <1>6 DEF TokensExist, Exists, Lives

\* The session a request creates stays private to it.
LEMMA PrivateNextStep == IInv /\ CallsHaveTabs /\ [Next]_vars => PrivateNext'
<1> SUFFICES ASSUME IInv, CallsHaveTabs, [Next]_vars,
                    NEW r \in Requests, request'[r].next # None
             PROVE  /\ \A q \in Requests \ {r} : request'[q].next # request'[r].next
                    /\ \A q \in Requests : request'[q].token # request'[r].next
                    /\ jar'.access # request'[r].next /\ jar'.refresh # request'[r].next
                    /\ sessions'[request'[r].next].replacedBy = None
  BY DEF PrivateNext
<1> DEFINE s == request'[r].next
<1>0. TokensExist /\ PrivateNext
  BY DEF IInv
<1>1. CASE request'[r].next = request[r].next
  <2>1. /\ \A q \in Requests \ {r} : request[q].next # s
        /\ \A q \in Requests : request[q].token # s
        /\ jar.access # s /\ jar.refresh # s
        /\ sessions[s].replacedBy = None /\ sessions[s].user # None
    BY <1>0, <1>1 DEF PrivateNext, TokensExist, Exists
  <2>2. s \in SessionIds
    BY <1>1 DEF IInv, TypeOK, Request
  <2>3. \A q \in Requests \ {r} : request'[q].next # s
    BY <2>1, <2>2, TokensCome DEF FreeIds
  <2>4. \A q \in Requests : request'[q].token # s
    BY <2>1, <2>2, TokensCome
  <2>5. jar'.access # s /\ jar'.refresh # s
    BY <2>1, <2>2, TokensCome DEF EmptyJar
  <2>6. sessions'[s].replacedBy = None
    BY <2>1, <2>2, SessionsStay DEF Stays
  <2> QED
    BY <2>3, <2>4, <2>5, <2>6
<1>2. CASE request'[r].next # request[r].next
  <2>1. /\ s \in FreeIds /\ \A q \in Requests \ {r} : request'[q] = request[q]
        /\ sessions'[s].replacedBy = None
    BY <1>2, TokensCome
  <2>2. ~Exists(s) /\ s # None
    BY <2>1 DEF Exists, FreeIds
  <2>3. \A q \in Requests \ {r} : request'[q].next # s
    BY <1>0, <2>1, <2>2 DEF TokensExist
  <2>4. \A q \in Requests : request'[q].token # s
    BY <1>0, <2>2, TokensCome DEF TokensExist
  <2>5. jar'.access # s /\ jar'.refresh # s
    BY <1>0, <2>2, TokensCome DEF TokensExist, EmptyJar
  <2> QED
    BY <2>1, <2>3, <2>4, <2>5
<1> QED
  BY <1>1, <1>2

-----------------------------------------------------------------------------
(* The requests in progress and the sessions they replace. *)

\* What a request needs of the sessions it creates and replaces, after a step.
HandledNext(q) == Creates(q, sessions') /\ Replaces(q, sessions')

\* A request that waits goes on having what it needs.
LEMMA WaitingIsHandled ==
  ASSUME IInv, [Next]_vars, NEW r \in Requests
  PROVE  HandledNext(request[r])
<1> DEFINE q == request[r]
<1>1. Creates(q, sessions) /\ Replaces(q, sessions) /\ TokensExist
  BY DEF IInv, Handled
<1>2. /\ q.next \in SessionIds => q.next # None /\ sessions[q.next].user # None
      /\ q.token \in SessionIds => q.token # None /\ sessions[q.token].user # None
  BY <1>1, SessionsAssumption DEF TokensExist, Exists
<1>3. /\ q.next \in SessionIds => Stays(q.next)
      /\ q.token \in SessionIds => Stays(q.token)
  BY <1>2, SessionsStay
<1> HIDE DEF q
<1>4. HandledNext(q)
  BY <1>1, <1>3 DEF Creates, Replaces, HandledNext, Stays
<1> QED
  BY <1>4 DEF q

\* A request that is answered, failed or idle needs nothing.
LEMMA AnsweredIsHandled ==
  ASSUME NEW q, q.pc \in {"ok", "failed", "idle"}
  PROVE  HandledNext(q)
BY DEF HandledNext, Creates, Replaces

\* The steps of the API leave their request what its next step needs.
LEMMA HandlingIsHandled ==
  ASSUME IInv, NEW r \in Requests, Handle(r), [Next]_vars
  PROVE  HandledNext(request'[r])
<1>0. /\ TypeOK /\ request[r] \in Request /\ HandledNext(request[r])
      /\ Creates(request[r], sessions) /\ Replaces(request[r], sessions)
  BY WaitingIsHandled DEF IInv, TypeOK, Handled
<1>1. ASSUME NEW outcome \in {"ok", "failed"}, Answer(r, outcome)
      PROVE  HandledNext(request'[r])
  BY <1>0, <1>1, AnsweredRequest, AnsweredIsHandled
<1>2. CASE ReadUser(r)
  <2> DEFINE q == [request[r] EXCEPT !.pc = "checking", !.entity = users[request[r].user]]
  <2>1. request'[r] = q
    BY <1>0, <1>2 DEF ReadUser, TypeOK, Request
  <2>2. /\ q.kind = request[r].kind /\ q.pc = "checking" /\ q.user = request[r].user
        /\ request[r].kind = "login" /\ request[r].pc = "sent"
    BY <1>0, <1>2 DEF ReadUser, Request
  <2> HIDE DEF q
  <2> QED
    BY <1>0, <2>1, <2>2 DEF HandledNext, Creates, Replaces
<1>3. CASE AcceptPassword(r)
  <2>1. /\ request'[r].kind = "login" /\ request'[r].pc = "inserting"
        /\ request'[r].user = request[r].user
        /\ request[r].kind = "login" /\ request[r].pc = "checking"
    BY <1>0, <1>3, ProceedingRequest DEF AcceptPassword, RequestPCs
  <2> QED
    BY <1>0, <2>1 DEF HandledNext, Creates, Replaces
<1>4. CASE InsertSession(r)
  <2>1. PICK s \in FreeIds : /\ sessions' = [sessions EXCEPT ![s] = Opened(request[r].user)]
                             /\ request' = [request EXCEPT ![r].pc = "hashing", ![r].next = s]
    BY <1>4 DEF InsertSession
  <2> DEFINE q == [request[r] EXCEPT !.pc = "hashing", !.next = s]
  <2>2. request'[r] = q
    BY <1>0, <2>1 DEF TypeOK, Request
  <2>3. /\ q.kind = request[r].kind /\ q.pc = "hashing" /\ q.user = request[r].user
        /\ q.token = request[r].token /\ q.next = s /\ q.previous = request[r].previous
        /\ request[r].pc = "inserting"
    BY <1>0, <1>4 DEF InsertSession, Request
  <2>4. s \in SessionIds /\ sessions'[s].user = request[r].user
    BY <1>0, <2>1 DEF TypeOK, FreeIds, Opened, NoSession
  <2> HIDE DEF q
  <2> QED
    BY <1>0, <2>2, <2>3, <2>4 DEF HandledNext, Creates, Replaces
<1>5. CASE StoreHash(r) /\ request[r].kind # "login"
  <2>1. /\ request[r].kind = "refresh" /\ request[r].pc = "hashing"
        /\ request[r].next \in SessionIds
    BY <1>5, StoresOwn DEF StoreHash
  <2>2. Proceed(r, "replacing")
    BY <1>5 DEF StoreHash
  <2>3. /\ request'[r].kind = "refresh" /\ request'[r].pc = "replacing"
        /\ request'[r].user = request[r].user /\ request'[r].token = request[r].token
        /\ request'[r].next = request[r].next /\ request'[r].previous = request[r].previous
    BY <1>0, <2>1, <2>2, ProceedingRequest DEF RequestPCs
  <2>4. sessions'[request[r].next].hash = "stored"
    BY <1>0, <1>5, <2>1 DEF StoreHash, TypeOK, Opened, NoSession
  <2> QED
    BY <1>0, <2>1, <2>3, <2>4 DEF HandledNext, Creates, Replaces
<1>6. CASE ReadSession(r)
  <2> DEFINE s == request[r].token
             reused == [request[r] EXCEPT !.pc = "reused", !.user = sessions[s].user]
             found == [request[r] EXCEPT !.pc = "inserting", !.user = sessions[s].user,
                                         !.previous = sessions[s]]
  <2>1. \/ Answer(r, "failed")
        \/ s # None /\ request'[r] = reused
        \/ s # None /\ request'[r] = found /\ sessions[s].hash = "stored"
    BY <1>0, <1>6 DEF ReadSession, TypeOK, Request
  <2>2. /\ reused.kind = "refresh" /\ reused.pc = "reused" /\ reused.user = sessions[s].user
        /\ reused.token = s
        /\ found.kind = "refresh" /\ found.pc = "inserting" /\ found.user = sessions[s].user
        /\ found.token = s /\ found.previous = sessions[s]
    BY <1>0, <1>6 DEF ReadSession, Request
  <2>3. s # None => s \in SessionIds /\ sessions[s].user \in Users
    BY <1>0 DEF Request, TypeOK, SessionRow, IInv, TokensExist, Exists
  <2>4. UNCHANGED sessions
    BY <1>6 DEF ReadSession
  <2> HIDE DEF reused, found
  <2> QED
    BY <1>1, <2>1, <2>2, <2>3, <2>4 DEF HandledNext, Creates, Replaces
<1>7. CASE \/ RefusePassword(r) \/ InsertFails(r) \/ (StoreHash(r) /\ request[r].kind = "login")
           \/ RevokeSessions(r) \/ ReplaceSession(r) \/ RevokeOwn(r)
  <2>1. Answer(r, "ok") \/ Answer(r, "failed")
    BY <1>7 DEF RefusePassword, InsertFails, StoreHash, RevokeSessions, ReplaceSession, RevokeOwn
  <2> QED
    BY <1>1, <2>1
<1> QED
  BY <1>2, <1>3, <1>4, <1>5, <1>6, <1>7 DEF Handle

\* Every request has what its next step needs.
LEMMA HandledStep == IInv /\ CallsHaveTabs /\ [Next]_vars => Handled'
<1> SUFFICES ASSUME IInv, CallsHaveTabs, [Next]_vars, NEW r \in Requests
             PROVE  HandledNext(request'[r])
  BY DEF Handled, HandledNext
<1>1. CASE request'[r] = request[r]
  BY <1>1, WaitingIsHandled
<1>2. CASE Handle(r)
  BY <1>2, HandlingIsHandled
<1>3. CASE request'[r] = IdleRequest
  BY <1>3, AnsweredIsHandled DEF IdleRequest
<1>4. ASSUME NEW kind \in {"login", "refresh", "logout"}, NEW t, NEW u, NEW token,
             Posts(r, kind, t, u, token)
      PROVE  HandledNext(request'[r])
  <2>1. request'[r].kind = kind /\ request'[r].pc = "sent" /\ request'[r].user = u
    BY <1>4, PostsEffects
  <2>2. kind = "login" => u \in Users
    BY <1>4 DEF Posts
  <2> QED
    BY <2>1, <2>2 DEF HandledNext, Creates, Replaces
<1>5. \/ request'[r] = request[r] \/ Handle(r) \/ request'[r] = IdleRequest
      \/ \E kind \in {"login", "refresh", "logout"} : \E t, u, token : Posts(r, kind, t, u, token)
  BY RequestSteps, PostsEffects, HandleEffects, ReceiveEffects DEF IInv, TypeOK
<1> QED
  BY <1>1, <1>2, <1>3, <1>4, <1>5

\* A replaced session stays revoked and its successor usable.
LEMMA ReplacedIsRevokedStep == IInv /\ [Next]_vars => ReplacedIsRevoked'
<1> SUFFICES ASSUME IInv, [Next]_vars, NEW s \in SessionIds,
                    sessions'[s].replacedBy # None
             PROVE  /\ sessions'[s].revoked
                    /\ sessions'[sessions'[s].replacedBy].hash = "stored"
                    /\ sessions'[sessions'[s].replacedBy].user = sessions'[s].user
  BY DEF ReplacedIsRevoked
<1>1. sessions[s].user # None
  <2>1. ASSUME sessions[s].user = None
        PROVE  FALSE
    <3>1. sessions[s].replacedBy = None
      BY <2>1 DEF IInv, FreeRows, NoSession
    <3> QED
      BY <2>1, <3>1, FreeStays, OpenedIsRow
  <2> QED
    BY <2>1
<1>2. Stays(s)
  BY <1>1, SessionsStay
<1>3. ASSUME NEW x \in SessionIds, sessions[x].hash = "stored"
      PROVE  sessions'[x].hash = "stored" /\ sessions'[x].user = sessions[x].user
  <2>1. sessions[x].user # None
    BY <1>3 DEF IInv, FreeRows, NoSession
  <2> QED
    BY <1>3, <2>1, SessionsStay DEF Stays
<1>4. CASE sessions'[s].replacedBy = sessions[s].replacedBy
  <2> DEFINE x == sessions[s].replacedBy
  <2>1. x \in SessionIds
    BY <1>4 DEF IInv, TypeOK, SessionRow
  <2>2. sessions[s].revoked /\ sessions[x].hash = "stored" /\ sessions[x].user = sessions[s].user
    BY <1>4 DEF IInv, ReplacedIsRevoked
  <2>3. ASSUME NEW r \in Requests, StoreHash(r), request[r].next = s
        PROVE  FALSE
    BY <1>4, <2>3, StoresOwn
  <2>4. sessions'[s].revoked
    BY <1>2, <2>2, <2>3 DEF Stays
  <2> QED
    BY <1>2, <1>3, <1>4, <2>1, <2>2, <2>4 DEF Stays
<1>5. ASSUME NEW r \in Requests, ReplaceSession(r), request[r].token = s,
             sessions'[s].replacedBy = request[r].next, sessions'[s].revoked
      PROVE  /\ sessions'[sessions'[s].replacedBy].hash = "stored"
             /\ sessions'[sessions'[s].replacedBy].user = sessions'[s].user
  <2> DEFINE x == request[r].next
  <2>1. request[r].pc = "replacing" /\ Creates(request[r], sessions) /\ Replaces(request[r], sessions)
    BY <1>5 DEF ReplaceSession, IInv, Handled
  <2>2. /\ x \in SessionIds /\ sessions[x].hash = "stored"
        /\ sessions[x].user = sessions[s].user
    BY <1>5, <2>1 DEF Creates, Replaces
  <2> QED
    BY <1>2, <1>3, <1>5, <2>2 DEF Stays
<1> QED
  BY <1>2, <1>4, <1>5 DEF Stays

-----------------------------------------------------------------------------
(* The rotation of the tokens of one tab. *)

\* Calls in progress go on belonging to a tab.
LEMMA CallsHaveTabsStep == IInv /\ CallsHaveTabs /\ [Next]_vars => CallsHaveTabs'
<1> SUFFICES ASSUME IInv, CallsHaveTabs, [Next]_vars
             PROVE  CallsHaveTabs'
  OBVIOUS
<1>0. /\ call \in [Calls -> Call]
      /\ \A c \in Calls : call[c] \in Call /\ (call[c].pc # "idle" => call[c].tab \in Tabs)
  BY DEF IInv, TypeOK, CallsHaveTabs
<1>1. ASSUME NEW t \in Tabs, NEW c \in Calls, SendCall(t, c)
      PROVE  CallsHaveTabs'
  BY <1>0, <1>1 DEF SendCall, CallsHaveTabs
<1>2. ASSUME NEW c \in Calls, ReceiveCall(c)
      PROVE  CallsHaveTabs'
  BY <1>0, <1>2 DEF ReceiveCall, CallsHaveTabs, IdleCall
<1>3. ASSUME NEW c \in Calls, AwaitRefresh(c) \/ AnswerCall(c)
      PROVE  CallsHaveTabs'
  <2>1. call[c].pc # "idle"
    BY <1>3 DEF AwaitRefresh, AnswerCall
  <2>2. /\ \A d \in Calls \ {c} : call'[d] = call[d]
        /\ call'[c].tab = call[c].tab
    <3>1. CASE AwaitRefresh(c)
      <4>1. call' = [call EXCEPT ![c].pc = "waiting", ![c].retried = TRUE]
        BY <3>1 DEF AwaitRefresh
      <4> QED
        BY <1>0, <4>1 DEF Call
    <3>2. CASE AnswerCall(c)
      BY <1>0, <3>2 DEF AnswerCall, Call
    <3> QED
      BY <1>3, <3>1, <3>2
  <2> QED
    BY <1>0, <2>1, <2>2 DEF CallsHaveTabs
<1>4. ASSUME NEW r, NEW success, NEW cookies, call' = Settled(r, success, cookies)
      PROVE  CallsHaveTabs'
  <2>1. ASSUME NEW c \in Calls
        PROVE  call'[c].pc # "idle" => call'[c].tab \in Tabs
    <3> DEFINE sent == [call[c] EXCEPT !.pc = "sent", !.token = cookies.access]
    <3>1. call'[c] \in {call[c], IdleCall} \/ (call'[c] = sent /\ call[c].pc = "waiting")
      BY <1>4 DEF Settled
    <3>2. sent.tab = call[c].tab
      BY <1>0 DEF Call
    <3> HIDE DEF sent
    <3> QED
      BY <1>0, <3>1, <3>2 DEF IdleCall
  <2> QED
    BY <2>1 DEF CallsHaveTabs
<1>5. ASSUME NEW r \in Requests, Receive(r) \/ LoseResponse(r)
      PROVE  UNCHANGED call \/ \E success, cookies : call' = Settled(r, success, cookies)
  BY <1>5 DEF Receive, LoseResponse
<1>6. ASSUME NEW r \in Requests, Handle(r)
      PROVE  UNCHANGED call
  BY <1>6, HandleEffects
<1>7. CASE UNCHANGED call
  BY <1>7 DEF CallsHaveTabs
<1>8. CASE \/ \E t \in Tabs, r \in Requests, u \in Visitors : Login(t, r, u)
           \/ \E t \in Tabs, r \in Requests : Logout(t, r)
  BY <1>7, <1>8 DEF Login, Logout
<1>9. CASE Administer \/ Time \/ (\E u \in Users : SetPassword(u)) \/ UNCHANGED vars
  BY <1>7, <1>9 DEF Administer, BeginUpdate, CommitUpdate, Time, AccessExpires,
                    SessionExpires, LockPasses, SetPassword, vars
<1> QED
  BY <1>1, <1>2, <1>3, <1>4, <1>5, <1>6, <1>7, <1>8, <1>9 DEF Next, Client

OneTab == \A t, u \in Tabs : t = u

\* A tab that waits for no refresh, or for another, has none in progress.
LEMMA OneRefresh ==
  ASSUME OneTab, TabWaits, NEW r \in Requests, NEW q \in Requests,
         Refreshing(r), Refreshing(q)
  PROVE  r = q
BY DEF OneTab, TabWaits

\* A tab waits for the refresh it started.
LEMMA TabWaitsStep == IInv /\ CallsHaveTabs /\ TabWaits /\ [Next]_vars => TabWaits'
<1> SUFFICES ASSUME IInv, CallsHaveTabs, TabWaits, [Next]_vars,
                    NEW r \in Requests, Refreshing(r)'
             PROVE  request'[r].tab \in Tabs /\ tab'[request'[r].tab].refreshing = r
  BY DEF TabWaits
<1>0. TypeOK /\ r # None
  BY SessionsAssumption DEF IInv
<1>1. ASSUME Refreshing(r), request'[r].tab = request[r].tab, 
             \A t \in Tabs : tab[t].refreshing = r => tab'[t].refreshing = r
      PROVE  request'[r].tab \in Tabs /\ tab'[request'[r].tab].refreshing = r
  BY <1>1 DEF TabWaits
<1>2. CASE UNCHANGED <<request, tab>>
  BY <1>1, <1>2 DEF Refreshing
<1>3. ASSUME NEW q \in Requests, NEW kind \in {"login", "refresh", "logout"},
             NEW t, NEW u, NEW token, Posts(q, kind, t, u, token)
      PROVE  request'[r].tab \in Tabs /\ tab'[request'[r].tab].refreshing = r
  <2>1. t \in Tabs /\ \A s \in Tabs \ {t} : tab'[s] = tab[s]
    BY <1>0, <1>3 DEF Posts, TypeOK
  <2>2. kind # "refresh" => tab'[t].refreshing = tab[t].refreshing
    BY <1>0, <1>3 DEF Posts, TypeOK, Tab
  <2>3. kind = "refresh" => tab[t].refreshing = None /\ tab'[t].refreshing = q
    BY <1>0, <1>3 DEF Posts, TypeOK, Tab
  <2>4. CASE q # r
    <3>1. Refreshing(r) /\ request'[r].tab = request[r].tab
      BY <1>3, <2>4, PostsEffects DEF Refreshing
    <3> QED
      BY <1>0, <1>1, <2>1, <2>2, <2>3, <3>1
  <2>5. CASE q = r
    <3>1. request'[r].kind = kind /\ request'[r].tab = t
      BY <1>3, <2>5, PostsEffects
    <3> QED
      BY <2>1, <2>3, <2>5, <3>1 DEF Refreshing
  <2> QED
    BY <2>4, <2>5
<1>4. ASSUME NEW q \in Requests, Handle(q)
      PROVE  request'[r].tab \in Tabs /\ tab'[request'[r].tab].refreshing = r
  BY <1>1, <1>4, HandleEffects DEF Refreshing
<1>5. ASSUME NEW q \in Requests, Receive(q) \/ LoseResponse(q)
      PROVE  request'[r].tab \in Tabs /\ tab'[request'[r].tab].refreshing = r
  <2>1. request' = [request EXCEPT ![q] = IdleRequest]
    BY <1>5, ReceiveEffects
  <2>2. q # r /\ request'[r] = request[r]
    BY <1>0, <2>1 DEF TypeOK, Refreshing, IdleRequest
  <2>3. \A t \in Tabs : tab[t].refreshing = r => tab'[t].refreshing = r
    BY <1>5, <2>2, ReceiveEffects
  <2> QED
    BY <1>1, <2>2, <2>3 DEF Refreshing
<1> QED
  BY <1>2, <1>3, <1>4, <1>5, RequestSteps

\* A response that was lost stays lost.
LEMMA LostStays == IInv /\ CallsHaveTabs /\ [Next]_vars /\ ~lost' => ~lost
<1> SUFFICES ASSUME IInv, CallsHaveTabs, [Next]_vars, ~lost'
             PROVE  ~lost
  OBVIOUS
<1>1. ASSUME NEW r \in Requests, Handle(r) \/ Receive(r) \/ LoseResponse(r)
      PROVE  ~lost
  BY <1>1, HandleEffects, ReceiveEffects
<1>2. CASE Client
  BY <1>1, <1>2 DEF Client, SendCall, ReceiveCall, AwaitRefresh, Login, Logout
<1>3. CASE (\E c \in Calls : AnswerCall(c)) \/ Administer \/ Time
           \/ (\E u \in Users : SetPassword(u)) \/ UNCHANGED vars
  BY <1>3 DEF AnswerCall, Administer, BeginUpdate, CommitUpdate, Time, AccessExpires,
              SessionExpires, LockPasses, SetPassword, vars
<1> QED
  BY <1>1, <1>2, <1>3 DEF Next

\* As long as no response is lost, no token is sent that was spent.
LEMMA UnspentStep ==
  ASSUME OneTab
  PROVE  IInv /\ CallsHaveTabs /\ TabWaits /\ Unspent /\ [Next]_vars /\ ~lost' => Unspent'
<1> SUFFICES ASSUME IInv, CallsHaveTabs, TabWaits, Unspent, [Next]_vars, ~lost'
             PROVE  Unspent'
  OBVIOUS
<1>0. TypeOK /\ TokensExist
  BY DEF IInv
<1>1. ASSUME NEW r \in Requests, ReplaceSession(r)
      PROVE  /\ Refreshing(r) /\ Refreshing(r)'
             /\ request'[r].pc = "ok" /\ request'[r].token = None
  <2>1. request[r].pc = "replacing" /\ request[r].kind = "refresh"
    BY <1>1 DEF ReplaceSession, IInv, Handled, Replaces
  <2>2. request'[r].kind = "refresh" /\ request'[r].pc = "ok" /\ request'[r].token = None
    BY <1>0, <1>1, <2>1, AnsweredRequest DEF ReplaceSession
  <2> QED
    BY <2>1, <2>2 DEF Refreshing
<1>2. ASSUME NEW s \in SessionIds, sessions[s].user # None
      PROVE  \/ sessions'[s].replacedBy = sessions[s].replacedBy
             \/ \E r \in Requests : ReplaceSession(r) /\ request[r].token = s
  BY <1>2, SessionsStay DEF Stays
<1>3. ASSUME NEW r \in Requests, Refreshing(r)', request'[r].token # None
      PROVE  sessions'[request'[r].token].replacedBy = None
  <2> DEFINE s == request'[r].token
  <2>1. CASE Refreshing(r) /\ request'[r].token = request[r].token
    <3>1. s \in SessionIds /\ sessions[s].user # None /\ sessions[s].replacedBy = None
      BY <1>0, <1>3, <2>1 DEF TypeOK, Request, TokensExist, Exists, Unspent
    <3>2. ASSUME NEW q \in Requests, ReplaceSession(q)
          PROVE  FALSE
      <4>1. q = r
        BY <1>1, <2>1, <3>2, OneRefresh
      <4> QED
        BY <1>1, <1>3, <3>2, <4>1
    <3> QED
      BY <1>2, <3>1, <3>2
  <2>2. CASE \E kind \in {"login", "refresh", "logout"} : \E t, u, token :
               Posts(r, kind, t, u, token)
    <3>1. PICK t, u, token : Posts(r, "refresh", t, u, token)
      <4>1. PICK kind \in {"login", "refresh", "logout"} : \E t, u, token :
                   Posts(r, kind, t, u, token)
        BY <2>2
      <4>2. request'[r].kind = kind
        BY <4>1, PostsEffects
      <4> QED
        BY <1>3, <4>1, <4>2 DEF Refreshing
    <3>2. t \in Tabs /\ tab[t].refreshing = None /\ UNCHANGED sessions
      BY <3>1 DEF Posts
    <3>3. ~\E q \in Requests : Refreshing(q)
      BY <3>2, SessionsAssumption DEF TabWaits, OneTab
    <3>4. token = jar.refresh
      BY <3>1 DEF Posts
    <3>5. request'[r].token = token
      BY <3>1, PostsEffects
    <3> QED
      BY <1>3, <3>2, <3>3, <3>4, <3>5 DEF Unspent
  <2>3. \/ Refreshing(r) /\ request'[r].token = request[r].token
        \/ \E kind \in {"login", "refresh", "logout"} : \E t, u, token :
             Posts(r, kind, t, u, token)
    <3>1. CASE request'[r] = request[r]
      BY <1>3, <3>1 DEF Refreshing
    <3>2. CASE Handle(r)
      BY <1>3, <3>2, HandleEffects DEF Refreshing
    <3>3. CASE request'[r] = IdleRequest
      BY <1>3, <3>3 DEF Refreshing, IdleRequest
    <3> QED
      BY <1>0, <3>1, <3>2, <3>3, RequestSteps, PostsEffects, HandleEffects, ReceiveEffects DEF TypeOK
  <2> QED
    BY <2>1, <2>2, <2>3
<1>4. ASSUME jar'.refresh # None, sessions'[jar'.refresh].replacedBy # None
      PROVE  \E r \in Requests : Refreshing(r)' /\ request'[r].pc = "ok"
  <2> DEFINE s == jar'.refresh
  <2>1. CASE s = jar.refresh
    <3>1. s \in SessionIds /\ sessions[s].user # None
      BY <1>0, <1>4, <2>1 DEF TypeOK, Jar, TokensExist, Exists
    <3>2. CASE sessions'[s].replacedBy = sessions[s].replacedBy
      <4>1. PICK r \in Requests : Refreshing(r) /\ request[r].pc = "ok"
        BY <1>4, <2>1, <3>2 DEF Unspent
      <4>2. ASSUME Receive(r)
            PROVE  FALSE
        <5>1. request[r].kind = "refresh"
          BY <4>1 DEF Refreshing
        <5>2. jar' = [access |-> request[r].next, refresh |-> request[r].next]
              \/ jar' = EmptyJar
          BY <4>2, <5>1, ReceiveEffects
        <5> QED
          BY <1>4, <2>1, <5>2 DEF EmptyJar, IInv, PrivateNext
      <4>3. ~LoseResponse(r)
        BY ReceiveEffects
      <4>4. request'[r] = request[r]
        <5>1. ~Handle(r) /\ \A kind \in {"login", "refresh", "logout"} : 
                ~\E t, u, token : Posts(r, kind, t, u, token)
          BY <4>1, HandleEffects DEF Posts
        <5> QED
          BY <1>0, <4>2, <4>3, <5>1, RequestSteps, PostsEffects, HandleEffects, ReceiveEffects
             DEF TypeOK
      <4> QED
        BY <4>1, <4>4 DEF Refreshing
    <3>3. CASE sessions'[s].replacedBy # sessions[s].replacedBy
      BY <1>1, <1>2, <3>1, <3>3
    <3> QED
      BY <3>2, <3>3
  <2>2. CASE s # jar.refresh
    <3>1. PICK r \in Requests : (Receive(r) \/ LoseResponse(r)) /\ s = request[r].next
      <4>1. jar' # jar /\ jar' # EmptyJar
        BY <1>4, <2>2 DEF EmptyJar
      <4>2. ~AccessExpires
        BY <1>0, <2>2 DEF AccessExpires, TypeOK, Jar
      <4>3. \E r \in Requests : Receive(r) \/ LoseResponse(r)
        BY <4>1, <4>2, RequestSteps, HandleEffects DEF Posts
      <4> QED
        BY <2>2, <4>1, <4>3, ReceiveEffects
    <3>2. UNCHANGED sessions
      BY <3>1, ReceiveEffects
    <3> QED
      BY <1>4, <3>1, <3>2 DEF IInv, PrivateNext
  <2> QED
    BY <2>1, <2>2
<1> QED
  BY <1>3, <1>4 DEF Unspent

-----------------------------------------------------------------------------
(* The theorems. *)

\* The inductive invariant holds at first,
LEMMA IInvInit == Init => IInv /\ RInv
<1> SUFFICES ASSUME Init
             PROVE  IInv /\ RInv
  OBVIOUS
<1>1. /\ \A r \in Requests : request[r] = IdleRequest
      /\ \A s \in SessionIds : sessions[s] = NoSession
      /\ \A c \in Calls : call[c] = IdleCall
      /\ jar = EmptyJar
  BY DEF Init
<1>2. \A u \in Users :
        [IdleUser EXCEPT !.role = IF u \in Metausers THEN "metauser" ELSE "user"] \in UserRow
  BY IdleTypes DEF UserRow
<1>3. TypeOK
  <2>1. users \in [Users -> UserRow] /\ sessions \in [SessionIds -> SessionRow] /\ jar \in Jar
    BY <1>2, IdleTypes DEF Init
  <2>2. tab \in [Tabs -> Tab] /\ call \in [Calls -> Call]
    BY IdleTypes DEF Init, Tab
  <2>3. request \in [Requests -> Request] /\ update \in [Updates -> Update]
    BY IdleTypes DEF Init
  <2>4. lost \in BOOLEAN
    BY DEF Init
  <2>5. events \in 0 .. MaxEvents
    <3>1. 0 \in 0 .. MaxEvents
      BY SessionsAssumption
    <3> QED
      BY <3>1 DEF Init
  <2> QED
    BY <2>1, <2>2, <2>3, <2>4, <2>5 DEF TypeOK
<1>4. FreeRows /\ ReplacedIsRevoked
  <2>1. \A s \in SessionIds : sessions[s].replacedBy = None
    BY <1>1 DEF NoSession
  <2> QED
    BY <1>1, <2>1 DEF FreeRows, ReplacedIsRevoked
<1>5. TokensExist /\ PrivateNext
  BY <1>1 DEF TokensExist, PrivateNext, IdleRequest, EmptyJar
<1>6. Handled
  BY <1>1 DEF Handled, Creates, Replaces, IdleRequest
<1>7. RInv
  BY <1>1 DEF RInv, CallsHaveTabs, TabWaits, Unspent, Refreshing, IdleRequest, IdleCall, EmptyJar
<1> QED
  BY <1>3, <1>4, <1>5, <1>6, <1>7 DEF IInv

\* and every step keeps it.
LEMMA IInvStep == IInv /\ CallsHaveTabs /\ [Next]_vars => IInv' /\ CallsHaveTabs'
BY TypeStep, FreeRowsStep, TokensExistStep, PrivateNextStep, HandledStep,
   ReplacedIsRevokedStep, CallsHaveTabsStep DEF IInv

\* The inductive invariant holds of every state the sessions reach.
THEOREM SessionsInvariant == Spec => [](IInv /\ CallsHaveTabs)
<1>1. Init => IInv /\ CallsHaveTabs
  BY IInvInit DEF RInv
<1> QED
  BY <1>1, IInvStep, PTL DEF Spec

\* Tables, cookies, calls and requests always have their types.
THEOREM TypesOfSessions == Spec => []TypeOK
<1>1. IInv => TypeOK
  BY DEF IInv
<1> QED
  BY <1>1, SessionsInvariant, PTL

\* For any number of tabs, lost responses and overlapping requests, a session
\* that was replaced is revoked and its successor usable.
THEOREM ReplacedSessionsAreRevoked == Spec => []ReplacedIsRevoked
<1>1. IInv => ReplacedIsRevoked
  BY DEF IInv
<1> QED
  BY <1>1, SessionsInvariant, PTL

\* No step takes back the revocation of a session whose tokens were handed out.
THEOREM RevocationsAreFinal == Spec => RevocationIsFinal
<1>1. IInv /\ [Next]_vars =>
        [\A s \in SessionIds : Issued(s) /\ sessions[s].revoked => sessions'[s].revoked]_vars
  <2> SUFFICES ASSUME IInv, [Next]_vars, NEW s \in SessionIds, Issued(s), sessions[s].revoked
               PROVE  sessions'[s].revoked
    OBVIOUS
  <2>1. sessions[s].user # None
    BY DEF Issued, IInv, FreeRows, NoSession
  <2> QED
    BY <2>1, SessionsStay DEF Stays, Issued
<1> QED
  BY <1>1, SessionsInvariant, PTL DEF Spec, RevocationIsFinal

\* In a browser with one tab, as long as no response is lost, the server never
\* takes the rotation of the client for a reuse. Two tabs share their cookies,
\* and each may send the token that the other one spends.
THEOREM RotationsAreNoReuse ==
  ASSUME OneTab
  PROVE  Spec => []RotationIsNotReuse
<1>1. Init => IInv /\ RInv
  BY IInvInit
<1>2. IInv /\ RInv /\ [Next]_vars => IInv' /\ RInv'
  <2> SUFFICES ASSUME IInv, RInv, [Next]_vars
               PROVE  IInv' /\ RInv'
    OBVIOUS
  <2>1. IInv' /\ CallsHaveTabs'
    BY IInvStep DEF RInv
  <2>2. ~lost' => ~lost
    BY LostStays DEF RInv
  <2>3. ~lost' => TabWaits' /\ Unspent'
    BY <2>2, TabWaitsStep, UnspentStep DEF RInv
  <2> QED
    BY <2>1, <2>3 DEF RInv
<1>3. IInv /\ RInv => RotationIsNotReuse
  <2> SUFFICES ASSUME IInv, RInv, NEW r \in Requests, request[r].pc = "reused", ~lost
               PROVE  sessions[request[r].token].replacedBy = None
    BY DEF RotationIsNotReuse
  <2>1. Refreshing(r) /\ request[r].token \in SessionIds
    BY DEF IInv, Handled, Replaces, Refreshing
  <2> QED
    BY <2>1, SessionsAssumption DEF RInv, Unspent
<1> QED
  BY <1>1, <1>2, <1>3, PTL DEF Spec

=============================================================================
