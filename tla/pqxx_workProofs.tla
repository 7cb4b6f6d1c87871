---------------------------- MODULE pqxx_workProofs ----------------------------
(***************************************************************************)
(* Proofs about pqxx_work, for any number of clients, calls and words:     *)
(* what libpqxx reports about a commit() is true of the server.            *)
(***************************************************************************)
EXTENDS pqxx_work, TLAPS

-------------------------------------------------------------------------------
(* The inductive invariant *)

\* The places with an open connection, up to the commit of the url or its
\* rollback, and after the commit; those where nothing is with the server.
Storing == {"begin", "insertUrl", "commitUrl", "rollback"}
Waiting == {"findKeyword", "commitKeyword", "commitEnd"}
Stored  == {"insertKeyword", "insertPair", "findKeyword", "commitKeyword", "commitEnd"}

Place == {"idle", "failed", "findUrl", "connect"} \cup Storing \cup Stored

Status == {"none", "active", "committed", "aborted", "in_doubt"}

Field == {"block", "pending", "request", "reply", "stored"}

WorkType ==
  /\ pc \in [Client -> Place]
  /\ calls \in [Client -> Nat]
  /\ \A c \in Client : calls[c] <= MaxCalls[c]
  /\ m_conn \in [Client -> BOOLEAN]
  /\ m_status \in [Client -> Status]
  /\ thrown = [c \in Client |-> thrown[c]]
  /\ session = [s \in Session |-> session[s]]
  /\ \A s \in Session : session[s] = [f \in Field |-> session[s][f]]

\* A session that has not executed its request has not answered it.
Answered(S) == S.request # <<>> => S.reply = "none"

\* The sessions a client has not opened yet are untouched.
SessionInv ==
  /\ \A s \in Session : Answered(session[s])
  /\ \A c \in Client : \A k \in (calls[c] + 1)..MaxCalls[c] : session[<<c, k>>] = NoSession

\* What the session S of a call has done, for every place of the client and
\* for what its connection, its work object and the exception say.
PlaceOk(place, conn, status, exception, S) ==
  /\ place = "idle" => status = "none"
  /\ conn <=> place \in Storing \cup Stored
  /\ place \in {"findUrl", "connect"} => status = "none" /\ S = NoSession
  /\ place = "begin" => status = "none"
  /\ place \in {"insertUrl", "commitUrl", "rollback"} => status = "active"
  /\ place \in {"begin", "insertUrl", "rollback"} => ~S.stored /\ S.request # <<"COMMIT">>
  /\ place = "commitUrl" =>
       /\ S.request \in {<<>>, <<"COMMIT">>}
       /\ S.reply = "ok" => S.stored
       /\ S.reply \in {"none", "error"} => ~S.stored
  /\ place \in Stored => status = "committed" /\ S.stored
  /\ place \in Waiting => S.request = <<>> /\ S.reply = "none"
  /\ place = "failed" =>
       /\ status = "committed" => S.stored
       /\ status = "aborted" =>
            \/ ~S.stored /\ S.request # <<"COMMIT">>
            \/ exception = <<"broken_connection", "commitUrl">>

PlaceInv(c) ==
  /\ pc[c] # "idle" => calls[c] > 0
  /\ PlaceOk(pc[c], m_conn[c], m_status[c], thrown[c], session[Mine(c)])

WorkInv == WorkType /\ SessionInv /\ \A c \in Client : PlaceInv(c)

-------------------------------------------------------------------------------
(* Sessions and requests *)

LEMMA SessionPair ==
  ASSUME NEW c \in Client, NEW k \in 1..MaxCalls[c]
  PROVE  <<c, k>> \in Session
BY DEF Session

LEMMA SessionParts ==
  ASSUME NEW s \in Session
  PROVE  \E c \in Client : \E k \in 1..MaxCalls[c] : s = <<c, k>>
BY DEF Session

LEMMA MineIsSession ==
  ASSUME WorkType, NEW c \in Client, calls[c] > 0
  PROVE  Mine(c) \in Session
<1>1. calls[c] \in 1..MaxCalls[c]
  BY WorkAssumption DEF WorkType
<1> QED BY <1>1, SessionPair DEF Mine

\* The requests are told apart.
LEMMA Requests ==
  /\ <<"BEGIN">> # <<>> /\ <<"COMMIT">> # <<>> /\ <<"ROLLBACK">> # <<>>
  /\ <<"BEGIN">> # <<"COMMIT">> /\ <<"ROLLBACK">> # <<"COMMIT">>
  /\ \A r \in Row : r # <<>> /\ r # <<"COMMIT">>
<1>1. /\ <<"BEGIN">> # <<>> /\ <<"COMMIT">> # <<>> /\ <<"ROLLBACK">> # <<>>
      /\ <<"BEGIN">> # <<"COMMIT">> /\ <<"ROLLBACK">> # <<"COMMIT">>
  OBVIOUS
<1>2. ASSUME NEW r \in Row PROVE r # <<>> /\ r # <<"COMMIT">>
  BY <1>2 DEF Row
<1> QED BY <1>1, <1>2

\* What a new session and the fields of a session are.
LEMMA NoSessionFields ==
  /\ NoSession = [f \in Field |-> NoSession[f]]
  /\ NoSession.block = "none" /\ NoSession.pending = {} /\ NoSession.request = <<>>
  /\ NoSession.reply = "none" /\ ~NoSession.stored
BY DEF NoSession, Field

LEMMA InitWork == Init => WorkInv
<1> SUFFICES ASSUME Init PROVE WorkInv OBVIOUS
<1>1. WorkType
  BY WorkAssumption, NoSessionFields DEF Init, WorkType, Place, Status
<1>2. SessionInv
  <2>1. \A s \in Session : Answered(session[s])
    BY NoSessionFields DEF Init, Answered
  <2>2. ASSUME NEW c \in Client, NEW k \in (calls[c] + 1)..MaxCalls[c]
        PROVE  session[<<c, k>>] = NoSession
    <3>1. k \in 1..MaxCalls[c]
      BY WorkAssumption DEF Init
    <3> QED BY <3>1, SessionPair DEF Init
  <2> QED BY <2>1, <2>2 DEF SessionInv
<1>3. \A c \in Client : PlaceInv(c)
  BY DEF Init, PlaceInv, PlaceOk, Storing, Stored, Waiting
<1> QED BY <1>1, <1>2, <1>3 DEF WorkInv


-------------------------------------------------------------------------------
(* A step of one client *)

\* The step of client c leaves the other clients and their sessions alone.
OnlyClient(c) ==
  /\ \A d \in Client \ {c} :
       pc'[d] = pc[d] /\ calls'[d] = calls[d] /\ m_conn'[d] = m_conn[d]
         /\ m_status'[d] = m_status[d] /\ thrown'[d] = thrown[d]
  /\ \A s \in Session : s # Mine(c) => session'[s] = session[s]

LEMMA Others ==
  ASSUME WorkInv, NEW c \in Client, OnlyClient(c), NEW d \in Client \ {c}
  PROVE  PlaceInv(d)'
<1>1. PlaceInv(d)
  BY DEF WorkInv
<1>2. /\ pc'[d] = pc[d] /\ calls'[d] = calls[d] /\ m_conn'[d] = m_conn[d]
      /\ m_status'[d] = m_status[d] /\ thrown'[d] = thrown[d]
  BY DEF OnlyClient
<1>3. CASE pc[d] = "idle"
  BY <1>1, <1>2, <1>3 DEF PlaceInv, PlaceOk, Storing, Stored, Waiting
<1>4. CASE pc[d] # "idle"
  <2>1. calls[d] > 0
    BY <1>1, <1>4 DEF PlaceInv
  <2>2. Mine(d) \in Session /\ Mine(d) # Mine(c)
    BY <2>1, MineIsSession DEF WorkInv, Mine
  <2>3. Mine(d)' = Mine(d) /\ session'[Mine(d)] = session[Mine(d)]
    BY <1>2, <2>2 DEF OnlyClient, Mine
  <2> QED BY <1>1, <1>2, <2>3 DEF PlaceInv
<1> QED BY <1>3, <1>4

\* It keeps the invariant when it does so for its own client and session.
LEMMA ClientStep ==
  ASSUME WorkInv, WorkType', NEW c \in Client, OnlyClient(c),
         pc[c] = "idle" => session' = session,
         calls'[c] >= calls[c],
         Mine(c) \in Session => Answered(session'[Mine(c)]),
         PlaceInv(c)'
  PROVE  WorkInv'
<1>1. \A d \in Client : PlaceInv(d)'
  BY Others
<1>2. \A s \in Session : Answered(session'[s])
  BY DEF WorkInv, SessionInv, OnlyClient, Answered
<1>3. ASSUME NEW d \in Client, NEW k \in (calls'[d] + 1)..MaxCalls[d]
      PROVE  session'[<<d, k>>] = NoSession
  <2>1. calls[d] \in Nat /\ calls'[d] \in Nat /\ calls'[d] >= calls[d] /\ MaxCalls[d] \in Nat
    BY WorkAssumption DEF WorkInv, WorkType, OnlyClient
  <2>2. k \in (calls[d] + 1)..MaxCalls[d] /\ k \in 1..MaxCalls[d]
    BY <2>1
  <2>3. session[<<d, k>>] = NoSession
    BY <2>2 DEF WorkInv, SessionInv
  <2>4. <<d, k>> \in Session /\ <<d, k>> # Mine(c)
    BY <2>1, <2>2, SessionPair DEF Mine
  <2> QED BY <2>3, <2>4 DEF OnlyClient
<1> QED BY <1>1, <1>2, <1>3 DEF WorkInv, SessionInv


\* The end of a connection leaves a session with what it has and has done.
LEMMA Disconnected ==
  ASSUME WorkType, NEW c \in Client, Disconnect(c),
         Mine(c) \in Session
  PROVE  LET S == session[Mine(c)]
             T == session'[Mine(c)]
         IN  /\ session' = [s \in Session |-> session'[s]]
             /\ \A s \in Session : s # Mine(c) => session'[s] = session[s]
             /\ T = [f \in Field |-> T[f]]
             /\ T.stored = S.stored /\ T.request = S.request /\ T.pending = S.pending
             /\ is_open(c) => T.reply = "none"
             /\ ~is_open(c) => T = S
<1> DEFINE S == session[Mine(c)]
           T == session'[Mine(c)]
<1>1. CASE ~is_open(c)
  BY <1>1 DEF Disconnect, WorkType
<1>2. CASE is_open(c) /\ S.request = <<>> /\ S.pending = {}
  <2>1. session' = [session EXCEPT ![Mine(c)] = [NoSession EXCEPT !.stored = S.stored]]
    BY <1>2 DEF Disconnect
  <2>2. T = [NoSession EXCEPT !.stored = S.stored]
    BY <2>1 DEF WorkType
  <2>3. /\ T = [f \in Field |-> T[f]] /\ T.stored = S.stored /\ T.request = <<>>
        /\ T.pending = {} /\ T.reply = "none"
    BY <2>2 DEF NoSession, Field
  <2> QED BY <1>2, <2>1, <2>3 DEF WorkType
<1>3. CASE is_open(c) /\ ~(S.request = <<>> /\ S.pending = {})
  <2>1. session' = [session EXCEPT ![Mine(c)] = [S EXCEPT !.reply = "none"]]
    BY <1>3 DEF Disconnect
  <2>2. T = [S EXCEPT !.reply = "none"]
    BY <2>1 DEF WorkType
  <2>3. /\ T = [f \in Field |-> T[f]] /\ T.stored = S.stored /\ T.request = S.request
        /\ T.pending = S.pending /\ T.reply = "none"
    BY <2>2 DEF WorkType, Field
  <2> QED BY <1>3, <2>1, <2>3 DEF WorkType
<1> QED BY <1>1, <1>2, <1>3

LEMMA CallStep ==
  ASSUME WorkInv, NEW c \in Client, NEW l \in Link, NEW t \in Texts, Call(c, l, t)
  PROVE  WorkInv'
<1>1. WorkType'
  <2>1. MaxCalls[c] \in Nat /\ calls[c] \in Nat /\ calls[c] < MaxCalls[c]
    BY WorkAssumption DEF WorkInv, WorkType, Call
  <2>2. calls' \in [Client -> Nat] /\ \A d \in Client : calls'[d] <= MaxCalls[d]
    BY <2>1 DEF WorkInv, WorkType, Call
  <2> QED BY <2>2 DEF WorkInv, WorkType, Call, Goto, pqxxVars, Place
<1>2. /\ OnlyClient(c) /\ session' = session /\ calls'[c] = calls[c] + 1
      /\ pc'[c] = "findUrl" /\ m_conn'[c] = m_conn[c] /\ m_status'[c] = m_status[c]
      /\ thrown'[c] = thrown[c]
  BY DEF WorkInv, WorkType, Call, Goto, pqxxVars, OnlyClient
<1>3. calls[c] \in Nat /\ Mine(c)' = <<c, calls[c] + 1>>
  BY <1>2 DEF WorkInv, WorkType, Mine
<1>4. session'[Mine(c)'] = NoSession
  BY <1>2, <1>3, WorkAssumption DEF WorkInv, SessionInv, Call
<1>5. PlaceOk("idle", m_conn[c], m_status[c], thrown[c], session[Mine(c)])
  BY DEF WorkInv, PlaceInv, Call
<1>6. PlaceOk("findUrl", m_conn[c], m_status[c], thrown[c], NoSession)
  BY <1>5 DEF PlaceOk, Storing, Stored, Waiting
<1>7. PlaceInv(c)'
  BY <1>2, <1>3, <1>4, <1>6 DEF PlaceInv
<1>8. Mine(c) \in Session => Answered(session'[Mine(c)])
  BY <1>2 DEF WorkInv, SessionInv
<1> QED BY <1>1, <1>2, <1>3, <1>7, <1>8, ClientStep

\* The steps that only move a client on: findUrl, findKeyword, commit() on a
\* work object that is committed already, and the restart of a crawler.
LEMMA QuietStep ==
  ASSUME WorkInv, NEW c \in Client,
         findUrl(c) \/ findKeyword(c) \/ commitAgain(c) \/ Restart(c)
  PROVE  WorkInv'
<1> DEFINE S == session[Mine(c)]
<1>1. /\ WorkType' /\ OnlyClient(c) /\ session' = session /\ calls' = calls
      /\ pc[c] \in {"findUrl", "findKeyword", "commitKeyword", "failed"}
      /\ pc[c] = "findUrl" => pc'[c] \in {"idle", "connect"}
      /\ pc[c] = "findKeyword" => pc'[c] \in {"commitEnd", "insertKeyword", "insertPair"}
      /\ pc[c] = "commitKeyword" => pc'[c] = "insertPair"
      /\ pc[c] = "failed" => pc'[c] = "idle" /\ m_status'[c] = "none"
      /\ pc[c] # "failed" => m_status'[c] = m_status[c] /\ thrown'[c] = thrown[c]
      /\ m_conn'[c] = m_conn[c]
  <2>1. CASE findUrl(c)
    BY <2>1 DEF findUrl, WorkInv, WorkType, Goto, OnlyClient, pqxxVars, Place
  <2>2. CASE findKeyword(c)
    <3>1. PICK place \in {"commitEnd", "insertKeyword", "insertPair"} : Goto(c, place)
      BY <2>2, Zenon DEF findKeyword
    <3> QED BY <2>2, <3>1 DEF findKeyword, WorkInv, WorkType, Goto, OnlyClient,
              pqxxVars, Place, Stored
  <2>3. CASE commitAgain(c)
    BY <2>3 DEF commitAgain, WorkInv, WorkType, Goto, OnlyClient, pqxxVars, Place, Stored
  <2>4. CASE Restart(c)
    BY <2>4 DEF Restart, WorkInv, WorkType, Goto, OnlyClient, Place, Status
  <2> QED BY <2>1, <2>2, <2>3, <2>4
<1>2. PlaceInv(c)
  BY DEF WorkInv
<1>3. Mine(c)' = Mine(c) /\ session'[Mine(c)] = S
  BY <1>1 DEF Mine
<1>4. PlaceOk(pc'[c], m_conn'[c], m_status'[c], thrown'[c], S)
  BY <1>1, <1>2 DEF PlaceInv, PlaceOk, Storing, Stored, Waiting
<1>5. PlaceInv(c)'
  BY <1>1, <1>2, <1>3, <1>4 DEF PlaceInv
<1>6. Mine(c) \in Session => Answered(session'[Mine(c)])
  BY <1>1 DEF WorkInv, SessionInv
<1>7. calls'[c] >= calls[c]
  BY <1>1 DEF WorkInv, WorkType
<1> QED BY <1>1, <1>5, <1>6, <1>7, ClientStep


LEMMA ConnectStep ==
  ASSUME WorkInv, NEW c \in Client, connect(c)
  PROVE  WorkInv'
<1> DEFINE S == session[Mine(c)]
           T == session'[Mine(c)]
<1>1. /\ PlaceInv(c) /\ WorkType /\ pc[c] = "connect"
      /\ PlaceOk("connect", m_conn[c], m_status[c], thrown[c], S)
  BY DEF WorkInv, PlaceInv, connect
<1>2. Mine(c) \in Session
  BY <1>1, MineIsSession DEF PlaceInv
<1>3. S = NoSession /\ m_status[c] = "none"
  BY <1>1 DEF PlaceOk
<1>4. T = [NoSession EXCEPT !.block = "idle"]
  BY <1>2, <1>3 DEF connect, WorkInv, WorkType
<1>5. /\ T = [f \in Field |-> T[f]] /\ ~T.stored /\ T.request = <<>> /\ T.reply = "none"
  BY <1>4 DEF NoSession, Field
<1>6. /\ OnlyClient(c) /\ calls' = calls /\ pc'[c] = "begin" /\ m_conn'[c]
      /\ m_status' = m_status /\ thrown' = thrown
  BY <1>1 DEF connect, WorkType, Goto, OnlyClient
<1>7. WorkType'
  <2>1. session' = [s \in Session |-> session'[s]]
    BY <1>1 DEF connect, WorkType
  <2>2. \A s \in Session : session'[s] = [f \in Field |-> session'[s][f]]
    BY <1>1, <1>5, <1>6 DEF WorkType, OnlyClient
  <2> QED BY <1>1, <2>1, <2>2 DEF connect, WorkType, Goto, Place, Storing
<1>8. PlaceOk("begin", TRUE, "none", thrown[c], T)
  BY <1>5, Requests DEF PlaceOk, Storing, Stored, Waiting
<1>9. PlaceInv(c)'
  BY <1>1, <1>3, <1>6, <1>8 DEF PlaceInv, Mine
<1>10. Answered(T)
  BY <1>5 DEF Answered
<1>11. calls'[c] >= calls[c]
  BY <1>1, <1>6 DEF WorkType
<1> QED BY <1>1, <1>6, <1>7, <1>9, <1>10, <1>11, ClientStep

\* What each place sends.
LEMMA StatementIs ==
  ASSUME NEW c \in Client, pc[c] \in Storing
  PROVE  /\ pc[c] = "commitUrl" => Statement(c) = <<"COMMIT">>
         /\ pc[c] # "commitUrl" => Statement(c) # <<"COMMIT">>
<1>1. CASE pc[c] = "begin"
  <2>1. Statement(c) = <<"BEGIN">>
    BY <1>1, Zenon DEF Statement
  <2> QED BY <1>1, <2>1
<1>2. CASE pc[c] = "insertUrl"
  <2>1. Statement(c) = <<"url", link[c]>>
    BY <1>2, Zenon DEF Statement
  <2> QED BY <1>2, <2>1
<1>3. CASE pc[c] = "rollback"
  <2>1. Statement(c) = <<"ROLLBACK">>
    BY <1>3, Zenon DEF Statement
  <2> QED BY <1>3, <2>1
<1>4. CASE pc[c] = "commitUrl"
  BY <1>4, Zenon DEF Statement
<1> QED BY <1>1, <1>2, <1>3, <1>4 DEF Storing

LEMMA SendStep ==
  ASSUME WorkInv, NEW c \in Client, Send(c)
  PROVE  WorkInv'
<1> DEFINE S == session[Mine(c)]
           T == session'[Mine(c)]
           X == Statement(c)
<1>1. /\ WorkType /\ pc[c] \in Talking /\ m_conn[c]
      /\ calls[c] > 0 /\ PlaceOk(pc[c], m_conn[c], m_status[c], thrown[c], S)
  BY DEF WorkInv, PlaceInv, Send, is_open, Talking
<1>2. Mine(c) \in Session
  BY <1>1, MineIsSession
<1>3. S.request = <<>> /\ S.reply = "none"
  BY DEF Send, Asked
<1>4. session' = [session EXCEPT ![Mine(c)].request = X]
  BY DEF Send
<1> HIDE DEF X
<1>5. /\ T = [f \in Field |-> T[f]] /\ T.stored = S.stored /\ T.request = X
      /\ T.pending = S.pending /\ T.reply = S.reply
  BY <1>1, <1>2, <1>4 DEF WorkType, Field
<1>6. OnlyClient(c) /\ UNCHANGED <<calls, pc, m_conn, m_status, thrown>>
  BY <1>1, <1>2, <1>4 DEF Send, WorkType, OnlyClient, callVars, pqxxVars
<1>7. WorkType'
  <2>1. session' = [s \in Session |-> session'[s]]
    BY <1>1, <1>4 DEF WorkType
  <2>2. \A s \in Session : session'[s] = [f \in Field |-> session'[s][f]]
    BY <1>1, <1>5, <1>6 DEF WorkType, OnlyClient
  <2> QED BY <1>1, <1>6, <2>1, <2>2 DEF WorkType
<1>8. PlaceOk(pc[c], m_conn[c], m_status[c], thrown[c], T)
  <2>1. CASE pc[c] \in Storing
    <3>1. /\ pc[c] = "commitUrl" => X = <<"COMMIT">>
          /\ pc[c] # "commitUrl" => X # <<"COMMIT">>
      BY <2>1, StatementIs DEF X
    <3> QED BY <1>1, <1>3, <1>5, <1>6, <2>1, <3>1 DEF PlaceOk, Storing, Stored, Waiting
  <2>2. CASE pc[c] \in {"insertKeyword", "insertPair"}
    BY <1>1, <1>3, <1>5, <1>6, <2>2 DEF PlaceOk, Storing, Stored, Waiting
  <2> QED BY <1>1, <2>1, <2>2 DEF Talking, Storing
<1>9. PlaceInv(c)'
  BY <1>1, <1>6, <1>8 DEF PlaceInv, Mine
<1>10. Answered(T)
  BY <1>3, <1>5 DEF Answered
<1>11. calls'[c] >= calls[c] /\ pc[c] # "idle"
  BY <1>1, <1>6 DEF WorkType, Talking
<1> QED BY <1>6, <1>7, <1>9, <1>10, <1>11, ClientStep


\* Where an answer takes a call.
LEMMA ReceivePlace ==
  ASSUME NEW c \in Client, Receive(c), pc = [d \in Client |-> pc[d]], pc[c] \in Talking
  PROVE  /\ pc'[c] \in {"insertUrl", "commitUrl", "findKeyword", "commitKeyword"}
         /\ pc'[c] = "insertUrl" <=> pc[c] = "begin"
         /\ pc'[c] = "commitUrl" <=> pc[c] = "insertUrl"
         /\ pc' = [pc EXCEPT ![c] = pc'[c]]
<1>1. PICK place \in {"insertUrl", "commitUrl", "findKeyword", "commitKeyword"} :
        /\ Goto(c, place)
        /\ place = "insertUrl" <=> pc[c] = "begin"
        /\ place = "commitUrl" <=> pc[c] = "insertUrl"
  <2>1. CASE pc[c] = "begin"
    <3>1. Goto(c, "insertUrl")
      BY <2>1, Zenon DEF Receive
    <3> QED BY <2>1, <3>1
  <2>2. CASE pc[c] = "insertUrl"
    <3>1. Goto(c, "commitUrl")
      BY <2>2, Zenon DEF Receive
    <3> QED BY <2>2, <3>1
  <2>3. CASE pc[c] = "commitUrl"
    <3>1. Goto(c, "findKeyword")
      BY <2>3, Zenon DEF Receive
    <3> QED BY <2>3, <3>1
  <2>4. CASE pc[c] = "insertKeyword"
    <3>1. Goto(c, "commitKeyword")
      BY <2>4, Zenon DEF Receive
    <3> QED BY <2>4, <3>1
  <2>5. CASE pc[c] = "insertPair"
    <3>1. Goto(c, "findKeyword")
      BY <2>5, Zenon DEF Receive
    <3> QED BY <2>5, <3>1
  <2> QED BY <2>1, <2>2, <2>3, <2>4, <2>5 DEF Talking, Receive
<1> QED BY <1>1 DEF Goto

LEMMA ReceiveStep ==
  ASSUME WorkInv, NEW c \in Client, Receive(c)
  PROVE  WorkInv'
<1> DEFINE S == session[Mine(c)]
           T == session'[Mine(c)]
<1>1. /\ WorkType /\ PlaceInv(c) /\ m_conn[c] /\ S.reply = "ok"
      /\ PlaceOk(pc[c], m_conn[c], m_status[c], thrown[c], S)
  BY DEF WorkInv, PlaceInv, Receive, is_open
<1>2. pc[c] \in Talking
  BY <1>1 DEF PlaceOk, Storing, Stored, Waiting, Talking
<1>3. calls[c] > 0
  BY <1>1, <1>2 DEF PlaceInv, Talking
<1>4. Mine(c) \in Session
  BY <1>1, <1>3, MineIsSession
<1>5. S.request = <<>>
  BY <1>1, <1>4 DEF WorkInv, SessionInv, Answered
<1>6. session' = [session EXCEPT ![Mine(c)].reply = "none"]
  BY DEF Receive
<1>7. /\ T = [f \in Field |-> T[f]] /\ T.stored = S.stored /\ T.request = S.request
      /\ T.pending = S.pending /\ T.reply = "none"
  BY <1>1, <1>4, <1>6 DEF WorkType, Field
<1>8. /\ pc'[c] \in {"insertUrl", "commitUrl", "findKeyword", "commitKeyword"}
      /\ pc'[c] = "insertUrl" <=> pc[c] = "begin"
      /\ pc'[c] = "commitUrl" <=> pc[c] = "insertUrl"
      /\ pc' = [pc EXCEPT ![c] = pc'[c]]
  BY <1>1, <1>2, ReceivePlace DEF WorkType
<1>9. /\ calls' = calls /\ m_conn' = m_conn /\ thrown' = thrown
      /\ m_status' = [m_status EXCEPT ![c] =
           IF pc[c] = "begin" THEN "active" ELSE IF pc[c] = "commitUrl" THEN "committed" ELSE @]
      /\ pc[c] # "rollback"
  BY DEF Receive
<1>10. OnlyClient(c)
  BY <1>1, <1>6, <1>8, <1>9 DEF OnlyClient, WorkType
<1>11. WorkType'
  <2>1. session' = [s \in Session |-> session'[s]]
    BY <1>1, <1>6 DEF WorkType
  <2>2. \A s \in Session : session'[s] = [f \in Field |-> session'[s][f]]
    BY <1>1, <1>7, <1>10 DEF WorkType, OnlyClient
  <2>3. pc' \in [Client -> Place]
    BY <1>1, <1>8 DEF WorkType, Place, Storing, Stored
  <2> QED BY <1>1, <1>9, <2>1, <2>2, <2>3 DEF WorkType, Status
<1>12. PlaceOk(pc'[c], m_conn[c], m_status'[c], thrown[c], T)
  <2>1. m_status'[c] = IF pc[c] = "begin" THEN "active"
                       ELSE IF pc[c] = "commitUrl" THEN "committed" ELSE m_status[c]
    BY <1>1, <1>9 DEF WorkType
  <2>2. T.request # <<"COMMIT">>
    BY <1>5, <1>7, Requests
  <2>3. CASE pc[c] \in {"begin", "insertUrl"}
    BY <1>1, <1>5, <1>7, <1>8, <2>1, <2>2, <2>3 DEF PlaceOk, Storing, Stored, Waiting
  <2>4. CASE pc[c] \in {"commitUrl", "insertKeyword", "insertPair"}
    BY <1>1, <1>5, <1>7, <1>8, <2>1, <2>4 DEF PlaceOk, Storing, Stored, Waiting
  <2> QED BY <1>2, <1>9, <2>3, <2>4 DEF Talking
<1>13. PlaceInv(c)'
  BY <1>3, <1>9, <1>12 DEF PlaceInv, Mine
<1>14. Answered(T)
  BY <1>7 DEF Answered
<1>15. calls'[c] >= calls[c] /\ pc[c] # "idle"
  BY <1>1, <1>2, <1>9 DEF WorkType, Talking
<1> QED BY <1>10, <1>11, <1>13, <1>14, <1>15, ClientStep

\* The INSERT of the url is refused and the work object is unwound.
LEMMA RefusalStep ==
  ASSUME WorkInv, NEW c \in Client, ReceiveRefusal(c)
  PROVE  WorkInv'
<1> DEFINE S == session[Mine(c)]
           T == session'[Mine(c)]
<1>1. /\ WorkType /\ m_conn[c] /\ pc[c] = "insertUrl" /\ calls[c] > 0
      /\ PlaceOk("insertUrl", m_conn[c], m_status[c], thrown[c], S)
  BY DEF WorkInv, PlaceInv, ReceiveRefusal, is_open
<1>2. Mine(c) \in Session
  BY <1>1, MineIsSession
<1>3. session' = [session EXCEPT ![Mine(c)].reply = "none"]
  BY DEF ReceiveRefusal
<1>4. /\ T = [f \in Field |-> T[f]] /\ T.stored = S.stored /\ T.request = S.request
      /\ T.pending = S.pending /\ T.reply = "none"
  BY <1>1, <1>2, <1>3 DEF WorkType, Field
<1>5. PICK e : thrown' = [thrown EXCEPT ![c] = e]
  BY <1>1 DEF ReceiveRefusal, Throw
<1>6. /\ UNCHANGED <<calls, m_conn, m_status>> /\ pc' = [pc EXCEPT ![c] = "rollback"]
      /\ pc'[c] = "rollback" /\ OnlyClient(c)
  BY <1>1, <1>3, <1>5 DEF ReceiveRefusal, Goto, WorkType, OnlyClient
<1>7. WorkType'
  <2>1. session' = [s \in Session |-> session'[s]]
    BY <1>1, <1>3 DEF WorkType
  <2>2. \A s \in Session : session'[s] = [f \in Field |-> session'[s][f]]
    BY <1>1, <1>4, <1>6 DEF WorkType, OnlyClient
  <2> QED BY <1>1, <1>5, <1>6, <2>1, <2>2 DEF WorkType, Place, Storing
<1>8. PlaceOk("rollback", m_conn[c], m_status[c], thrown'[c], T)
  BY <1>1, <1>4 DEF PlaceOk, Storing, Stored, Waiting
<1>9. PlaceInv(c)'
  BY <1>1, <1>6, <1>8 DEF PlaceInv, Mine
<1>10. Answered(T)
  BY <1>4 DEF Answered
<1>11. calls'[c] >= calls[c]
  BY <1>1, <1>6 DEF WorkType
<1> QED BY <1>1, <1>6, <1>7, <1>9, <1>10, <1>11, ClientStep

\* The steps that end a connection: with the call, with an exception or with
\* the process.
LEMMA EndStep ==
  ASSUME WorkInv, NEW c \in Client,
         \/ ReceiveError(c) \/ RolledBack(c) \/ Lose(c) \/ GiveUp(c)
         \/ Return(c) \/ Crash(c)
  PROVE  WorkInv'
<1> DEFINE S == session[Mine(c)]
           T == session'[Mine(c)]
<1>1. /\ WorkType /\ PlaceInv(c)
      /\ PlaceOk(pc[c], m_conn[c], m_status[c], thrown[c], S)
  BY DEF WorkInv, PlaceInv
<1>2. Disconnect(c)
  BY DEF ReceiveError, RolledBack, Lose, GiveUp, Return, Crash, Unwind
<1>3. PICK place \in {"idle", "failed"} : Goto(c, place)
  BY DEF ReceiveError, RolledBack, Lose, GiveUp, Return, Crash, Unwind
<1>4. PICK status \in Status : m_status' = [m_status EXCEPT ![c] = status]
  BY <1>1 DEF ReceiveError, RolledBack, Lose, GiveUp, Return, Crash, Unwind, WorkType, Status
<1>5. PICK e : thrown' = [thrown EXCEPT ![c] = e]
  <2>1. CASE Return(c) \/ Crash(c)
    BY <1>1, <2>1 DEF Return, Crash, WorkType
  <2>2. CASE ~(Return(c) \/ Crash(c))
    <3>1. PICK x : Throw(c, x)
      BY <2>2 DEF ReceiveError, RolledBack, Lose, GiveUp, Unwind
    <3>2. CASE pc[c] = "rollback"
      <4>1. thrown' = [thrown EXCEPT ![c] = thrown[c]]
        BY <1>1, <3>1, <3>2 DEF Throw, WorkType
      <4> QED BY <4>1
    <3>3. CASE pc[c] # "rollback"
      BY <3>1, <3>3 DEF Throw
    <3> QED BY <3>2, <3>3
  <2> QED BY <2>1, <2>2
<1>6. pc[c] # "idle" /\ calls[c] > 0
  BY <1>1 DEF ReceiveError, RolledBack, Lose, GiveUp, Return, Crash, is_open, PlaceInv,
              PlaceOk, Storing, Stored, Talking
<1>7. Mine(c) \in Session
  BY <1>1, <1>6, MineIsSession
<1>8. /\ session' = [s \in Session |-> session'[s]]
      /\ \A s \in Session : s # Mine(c) => session'[s] = session[s]
      /\ T = [f \in Field |-> T[f]]
      /\ T.stored = S.stored /\ T.request = S.request
      /\ is_open(c) => T.reply = "none"
      /\ ~is_open(c) => T = S
  BY <1>1, <1>2, <1>7, Disconnected
<1>9. m_conn' = [m_conn EXCEPT ![c] = FALSE] /\ calls' = calls
  BY <1>2 DEF Disconnect
<1>10. /\ pc'[c] = place /\ m_conn'[c] = FALSE /\ m_status'[c] = status
       /\ thrown'[c] = e
  BY <1>1, <1>3, <1>4, <1>5, <1>9 DEF Goto, WorkType
<1>11. OnlyClient(c)
  BY <1>1, <1>3, <1>4, <1>5, <1>8, <1>9 DEF Goto, WorkType, OnlyClient
<1>12. WorkType'
  <2>1. \A s \in Session : session'[s] = [f \in Field |-> session'[s][f]]
    BY <1>1, <1>8 DEF WorkType
  <2> QED BY <1>1, <1>3, <1>4, <1>5, <1>8, <1>9, <2>1 DEF WorkType, Goto, Place
<1> DEFINE Honest ==
             /\ status = "committed" => S.stored
             /\ status = "aborted" =>
                  \/ ~S.stored /\ S.request # <<"COMMIT">>
                  \/ e = <<"broken_connection", "commitUrl">>
<1>13. (place = "idle" => status = "none") /\ Honest
  <2>1. CASE Return(c) \/ Crash(c)
    <3>1. status = "none"
      BY <1>1, <1>10, <2>1 DEF Return, Crash, WorkType
    <3> QED BY <3>1
  <2>2. ASSUME NEW x, NEW outcome \in {"aborted", "in_doubt", "none"}, Unwind(c, x, outcome),
               m_conn[c],
               pc[c] = "commitUrl" /\ outcome = "aborted" =>
                 \/ x = "broken_connection"
                 \/ ~S.stored /\ S.request = <<>>
        PROVE  Honest
    <3>1. /\ status = IF pc[c] = "commitUrl" THEN outcome
                      ELSE IF m_status[c] = "active" THEN "aborted" ELSE m_status[c]
          /\ pc[c] # "rollback" => e = <<x, pc[c]>>
      BY <1>1, <1>10, <2>2 DEF Unwind, Throw, WorkType
    <3>2. CASE pc[c] = "commitUrl"
      BY <1>1, <2>2, <3>1, <3>2, Requests
    <3>3. CASE pc[c] # "commitUrl"
      BY <1>1, <2>2, <3>1, <3>3, Requests DEF PlaceOk, Storing, Stored, Waiting
    <3> QED BY <3>2, <3>3
  <2>3. ASSUME ReceiveError(c) PROVE Honest
    <3>1. m_conn[c] /\ S.reply \in {"error", "40003", "08"}
      BY <2>3 DEF ReceiveError, is_open
    <3>2. S.request = <<>>
      BY <1>7, <3>1 DEF WorkInv, SessionInv, Answered
    <3>3. pc[c] = "commitUrl" /\ S.reply = "error" => ~S.stored
      BY <1>1 DEF PlaceOk
    <3> HIDE DEF Honest
    <3> QED BY <2>2, <2>3, <3>1, <3>2, <3>3 DEF ReceiveError
  <2>4. RolledBack(c) => Honest
    <3> HIDE DEF Honest
    <3> QED BY <2>2 DEF RolledBack, is_open
  <2>5. Lose(c) => Honest
    <3> HIDE DEF Honest
    <3> QED BY <2>2 DEF Lose, is_open
  <2>6. GiveUp(c) => Honest
    <3> HIDE DEF Honest
    <3> QED BY <2>2 DEF GiveUp, is_open
  <2>7. ~(Return(c) \/ Crash(c)) => place = "failed"
    BY <1>1, <1>10 DEF ReceiveError, RolledBack, Lose, GiveUp, Unwind, Goto, WorkType
  <2> HIDE DEF Honest
  <2> QED BY <2>1, <2>3, <2>4, <2>5, <2>6, <2>7
<1>14. PlaceOk(place, FALSE, status, e, T)
  BY <1>8, <1>13 DEF PlaceOk, Storing, Stored, Waiting
<1>15. PlaceInv(c)'
  BY <1>6, <1>9, <1>10, <1>14 DEF PlaceInv, Mine
<1>16. Answered(T)
  BY <1>7, <1>8 DEF Answered, WorkInv, SessionInv
<1>17. calls'[c] >= calls[c]
  BY <1>1, <1>9 DEF WorkType
<1> QED BY <1>6, <1>11, <1>12, <1>15, <1>16, <1>17, ClientStep


-------------------------------------------------------------------------------
(* A step of the server *)

\* What a step of the server makes of the session S it works in: the answer
\* to the request, or the end of the session.
Served(S, T, reply) ==
  \/ /\ S.request # <<>> /\ T.request = <<>> /\ T.reply \in {reply, "none"}
     /\ \/ reply \in {"ok"} \cup Unclear /\ S.request = <<"COMMIT">> /\ T.stored
        \/ reply = "ok" /\ S.request # <<"COMMIT">> /\ T.stored = S.stored
        \/ reply \in {"error"} \cup Unclear /\ T.stored = S.stored
  \/ /\ T.request = <<>> /\ T.stored = S.stored
     /\ T.reply = S.reply /\ reply = S.reply

LEMMA ServeFields ==
  ASSUME WorkType, NEW s \in Session, Serve(s)
  PROVE  LET S == session[s]
             T == session'[s]
         IN  /\ session' = [x \in Session |-> session'[x]]
             /\ \A x \in Session : x # s => session'[x] = session[x]
             /\ T = [f \in Field |-> T[f]]
             /\ S # NoSession
             /\ \E reply : Served(S, T, reply) /\ (Attached(s) => T.reply = reply)
<1> DEFINE S == session[s]
           T == session'[s]
<1> S = [f \in Field |-> S[f]] /\ session = [x \in Session |-> session[x]]
  BY DEF WorkType
<1>1. CASE ExecBegin(s)
  <2>1. T = [S EXCEPT !.block = "open", !.request = <<>>, !.reply = Answer(s, "ok")]
    BY <1>1 DEF ExecBegin
  <2>2. /\ session' = [x \in Session |-> session'[x]]
        /\ \A x \in Session : x # s => session'[x] = session[x]
    BY <1>1 DEF ExecBegin
  <2>3. /\ T = [f \in Field |-> T[f]] /\ T.request = <<>> /\ T.stored = S.stored
        /\ T.reply = Answer(s, "ok")
    BY <2>1 DEF Field
  <2>4. S.request = <<"BEGIN">>
    BY <1>1 DEF ExecBegin
  <2>5. S # NoSession
    BY <2>4, NoSessionFields, Requests
  <2>6. Served(S, T, "ok")
    BY <2>3, <2>4, Requests DEF Served, Answer
  <2> QED BY <2>2, <2>3, <2>5, <2>6 DEF Answer
<1>2. CASE ExecCommit(s)
  <2>0. PICK reply \in {"ok"} \cup Unclear :
          session' = [session EXCEPT ![s].block = "idle", ![s].request = <<>>,
                        ![s].reply = Answer(s, reply), ![s].pending = {}, ![s].stored = TRUE]
    BY <1>2 DEF ExecCommit
  <2>1. T = [S EXCEPT !.block = "idle", !.request = <<>>, !.reply = Answer(s, reply),
                      !.pending = {}, !.stored = TRUE]
    BY <2>0
  <2>2. /\ session' = [x \in Session |-> session'[x]]
        /\ \A x \in Session : x # s => session'[x] = session[x]
    BY <2>0
  <2>3. /\ T = [f \in Field |-> T[f]] /\ T.request = <<>> /\ T.stored
        /\ T.reply = Answer(s, reply)
    BY <2>1 DEF Field
  <2>4. S.request = <<"COMMIT">>
    BY <1>2 DEF ExecCommit
  <2>5. S # NoSession
    BY <2>4, NoSessionFields, Requests
  <2>6. Served(S, T, reply)
    BY <2>3, <2>4, Requests DEF Served, Answer
  <2> QED BY <2>2, <2>3, <2>5, <2>6 DEF Answer
<1>r. CASE ExecRollback(s)
  <2>1. T = [S EXCEPT !.block = "idle", !.request = <<>>, !.reply = Answer(s, "ok"),
                      !.pending = {}]
    BY <1>r DEF ExecRollback
  <2>2. /\ session' = [x \in Session |-> session'[x]]
        /\ \A x \in Session : x # s => session'[x] = session[x]
    BY <1>r DEF ExecRollback
  <2>3. /\ T = [f \in Field |-> T[f]] /\ T.request = <<>> /\ T.stored = S.stored
        /\ T.reply = Answer(s, "ok")
    BY <2>1 DEF Field
  <2>4. S.request = <<"ROLLBACK">>
    BY <1>r DEF ExecRollback
  <2>5. S # NoSession
    BY <2>4, NoSessionFields, Requests
  <2>6. Served(S, T, "ok")
    BY <2>3, <2>4, Requests DEF Served, Answer
  <2> QED BY <2>2, <2>3, <2>5, <2>6 DEF Answer
<1>3. CASE ExecInsert(s)
  <2> DEFINE r == S.request
             reply == IF Taken(r) THEN "error" ELSE "ok"
             block == IF Taken(r) /\ S.block = "open" THEN "failed" ELSE S.block
             pending == IF Taken(r) THEN {}
                        ELSE IF S.block = "open" THEN S.pending \cup {r} ELSE S.pending
  <2>0. r \in Row /\ session' = [session EXCEPT
           ![s].block = block, ![s].request = <<>>, ![s].reply = Answer(s, reply),
           ![s].pending = pending]
    BY <1>3, Zenon DEF ExecInsert
  <2>r. reply \in {"ok", "error"}
    OBVIOUS
  <2> HIDE DEF reply, block, pending
  <2>1. T = [S EXCEPT !.block = block, !.request = <<>>, !.reply = Answer(s, reply),
                      !.pending = pending]
    BY <2>0
  <2>2. /\ session' = [x \in Session |-> session'[x]]
        /\ \A x \in Session : x # s => session'[x] = session[x]
    BY <2>0
  <2>3. /\ T = [f \in Field |-> T[f]] /\ T.request = <<>> /\ T.stored = S.stored
        /\ T.reply = Answer(s, reply) /\ T.pending = pending
    BY <2>1 DEF Field
  <2>4. r # <<>> /\ r # <<"COMMIT">>
    BY <2>0, Requests
  <2>5. S # NoSession
    BY <2>4, NoSessionFields
  <2>6. Served(S, T, reply)
    BY <2>r, <2>3, <2>4 DEF Served, Answer
  <2> QED BY <2>r, <2>2, <2>3, <2>5, <2>6 DEF Answer
<1>4. CASE Refuse(s)
  <2> DEFINE block == IF S.block = "open" /\ S.request # <<"COMMIT">> THEN "failed" ELSE "idle"
  <2>0. PICK reply \in {"error"} \cup Unclear :
          session' = [session EXCEPT
            ![s].block = block, ![s].request = <<>>, ![s].reply = Answer(s, reply),
            ![s].pending = {}]
    BY <1>4 DEF Refuse
  <2> HIDE DEF block
  <2>1. T = [S EXCEPT !.block = block, !.request = <<>>, !.reply = Answer(s, reply),
                      !.pending = {}]
    BY <2>0
  <2>2. /\ session' = [x \in Session |-> session'[x]]
        /\ \A x \in Session : x # s => session'[x] = session[x]
    BY <2>0
  <2>3. /\ T = [f \in Field |-> T[f]] /\ T.request = <<>> /\ T.stored = S.stored
        /\ T.reply = Answer(s, reply)
    BY <2>1 DEF Field
  <2>4. S.request # <<>>
    BY <1>4 DEF Refuse
  <2>5. S # NoSession
    BY <2>4, NoSessionFields
  <2>6. Served(S, T, reply)
    BY <2>3, <2>4 DEF Served, Answer
  <2> QED BY <2>2, <2>3, <2>5, <2>6 DEF Answer
<1>5. CASE Drop(s)
  <2>1. T = [NoSession EXCEPT !.reply = S.reply, !.stored = S.stored] /\ S.block # "none"
    BY <1>5 DEF Drop
  <2>2. /\ session' = [x \in Session |-> session'[x]]
        /\ \A x \in Session : x # s => session'[x] = session[x]
    BY <1>5 DEF Drop
  <2>3. /\ T = [f \in Field |-> T[f]] /\ T.request = <<>> /\ T.stored = S.stored
        /\ T.reply = S.reply /\ T.pending = {}
    BY <2>1 DEF Field, NoSession
  <2>5. S # NoSession
    BY <2>1, NoSessionFields
  <2>6. Served(S, T, S.reply)
    BY <2>3 DEF Served
  <2> QED BY <2>2, <2>3, <2>5, <2>6
<1> QED BY <1>1, <1>2, <1>r, <1>3, <1>4, <1>5 DEF Serve, Exec

\* The answer suits the client that waits for it, and what happens in the
\* session of a client that has gone does not contradict its work object.
LEMMA ServedOk ==
  ASSUME NEW place \in Place, NEW conn, NEW status, NEW S, NEW T, NEW reply,
         NEW exception, PlaceOk(place, conn, status, exception, S), Answered(S), S # NoSession,
         Served(S, T, reply), conn => T.reply = reply
  PROVE  PlaceOk(place, conn, status, exception, T) /\ Answered(T)
<1>1. Answered(T)
  BY DEF Served, Answered
<1>2. CASE place \in {"idle", "findUrl", "connect"}
  BY <1>1, <1>2 DEF PlaceOk, Storing, Stored, Waiting
<1>3. CASE place = "commitUrl"
  <2>1. /\ conn /\ status = "active" /\ T.reply = reply
        /\ S.request \in {<<>>, <<"COMMIT">>} /\ (S.reply = "ok" => S.stored)
        /\ S.reply \in {"none", "error"} => ~S.stored
    BY <1>3 DEF PlaceOk, Storing
  <2>2. /\ T.request = <<>> /\ (T.reply = "ok" => T.stored)
        /\ T.reply \in {"none", "error"} => ~T.stored
    BY <2>1, Requests DEF Served, Answered, Unclear
  <2> QED BY <1>1, <1>3, <2>1, <2>2 DEF PlaceOk, Storing, Stored, Waiting
<1>6. CASE place \in Storing \ {"commitUrl"}
  BY <1>1, <1>6, Requests DEF PlaceOk, Storing, Stored, Waiting, Served, Answered
<1>4. CASE place \in Stored
  BY <1>4, Requests DEF PlaceOk, Storing, Stored, Waiting, Served, Answered
<1>5. CASE place = "failed"
  BY <1>5, Requests DEF PlaceOk, Storing, Stored, Waiting, Served, Answered
<1> QED BY <1>1, <1>2, <1>3, <1>4, <1>5, <1>6 DEF Place

LEMMA ServeStep ==
  ASSUME WorkInv, NEW s \in Session, Serve(s)
  PROVE  WorkInv'
<1> DEFINE S == session[s]
           T == session'[s]
<1>1. /\ WorkType /\ pc' = pc /\ calls' = calls /\ m_conn' = m_conn
      /\ m_status' = m_status /\ thrown' = thrown
  BY DEF WorkInv, Serve, callVars, pqxxVars
<1>2. /\ session' = [x \in Session |-> session'[x]]
      /\ \A x \in Session : x # s => session'[x] = session[x]
      /\ T = [f \in Field |-> T[f]]
      /\ S # NoSession
  BY <1>1, ServeFields
<1>3. PICK reply : Served(S, T, reply) /\ (Attached(s) => T.reply = reply)
  BY <1>1, ServeFields
<1>4. Answered(S)
  BY DEF WorkInv, SessionInv
<1>5. WorkType'
  BY <1>1, <1>2 DEF WorkType
<1>6. Answered(T)
  BY <1>3, <1>4 DEF Served, Answered
<1>7. SessionInv'
  <2>1. \A x \in Session : Answered(session'[x])
    BY <1>2, <1>6 DEF WorkInv, SessionInv
  <2>2. ASSUME NEW c \in Client, NEW k \in (calls[c] + 1)..MaxCalls[c]
        PROVE  session'[<<c, k>>] = NoSession
    <3>1. session[<<c, k>>] = NoSession
      BY <2>2 DEF WorkInv, SessionInv
    <3>2. <<c, k>> \in Session
      BY <1>1, WorkAssumption, SessionPair DEF WorkType
    <3> QED BY <1>2, <3>1, <3>2
  <2> QED BY <1>1, <2>1, <2>2 DEF SessionInv
<1>8. ASSUME NEW c \in Client
      PROVE  PlaceInv(c)'
  <2>1. PlaceInv(c)
    BY DEF WorkInv
  <2>2. Mine(c)' = Mine(c)
    BY <1>1 DEF Mine
  <2>3. CASE pc[c] = "idle"
    BY <1>1, <2>1, <2>3 DEF PlaceInv, PlaceOk, Storing, Stored, Waiting
  <2>4. CASE pc[c] # "idle" /\ Mine(c) # s
    <3>1. Mine(c) \in Session
      BY <1>1, <2>1, <2>4, MineIsSession DEF PlaceInv
    <3> QED BY <1>1, <1>2, <2>1, <2>2, <2>4, <3>1 DEF PlaceInv
  <2>5. CASE Mine(c) = s
    <3>1. m_conn[c] => T.reply = reply
      BY <1>3, <2>5 DEF Attached, Mine, is_open
    <3>2. PlaceOk(pc[c], m_conn[c], m_status[c], thrown[c], T)
      BY <1>1, <1>2, <1>3, <1>4, <2>1, <2>5, <3>1, ServedOk DEF PlaceInv, WorkType
    <3> QED BY <1>1, <2>1, <2>2, <2>5, <3>2 DEF PlaceInv
  <2> QED BY <2>3, <2>4, <2>5
<1> QED BY <1>5, <1>7, <1>8 DEF WorkInv

-------------------------------------------------------------------------------
(* The theorem *)

LEMMA NextWork == WorkInv /\ [Next]_vars => WorkInv'
<1> SUFFICES ASSUME WorkInv, [Next]_vars PROVE WorkInv' OBVIOUS
<1>1. CASE UNCHANGED vars
  BY <1>1 DEF vars, callVars, pqxxVars, WorkInv, WorkType, SessionInv, PlaceInv, Mine
<1>2. ASSUME NEW c \in Client, Step(c) PROVE WorkInv'
  <2>1. CASE \E l \in Link, t \in Texts : Call(c, l, t)
    BY <2>1, CallStep
  <2>2. CASE findUrl(c) \/ findKeyword(c) \/ commitAgain(c) \/ Restart(c)
    BY <2>2, QuietStep
  <2>3. CASE connect(c)
    BY <2>3, ConnectStep
  <2>4. CASE Send(c)
    BY <2>4, SendStep
  <2>5. CASE Receive(c)
    BY <2>5, ReceiveStep
  <2>6. CASE ReceiveRefusal(c)
    BY <2>6, RefusalStep
  <2>7. CASE \/ ReceiveError(c) \/ RolledBack(c) \/ Lose(c) \/ GiveUp(c)
             \/ Return(c) \/ Crash(c)
    BY <2>7, EndStep
  <2> QED BY <1>2, <2>1, <2>2, <2>3, <2>4, <2>5, <2>6, <2>7 DEF Step, addLink
<1>3. ASSUME NEW s \in Session, Serve(s) PROVE WorkInv'
  BY <1>3, ServeStep
<1> QED BY <1>1, <1>2, <1>3 DEF Next

LEMMA WorkInvHonest == WorkInv => OutcomeHonest
BY DEF WorkInv, WorkType, PlaceInv, PlaceOk, Place, Storing, Stored, Waiting, OutcomeHonest,
       NotStored

\* What the work object has reported of its transaction is true of the session,
\* for any number of clients and calls, whatever code the server answers with,
\* and wherever a connection is lost, a wait given up, a session dropped or a
\* process ended: "committed" only when the server has stored the row,
\* "aborted" only when it has not and will not.  What this excepts is the case
\* in which transaction::do_commit rethrows a broken_connection because the
\* connection still tests as open.
THEOREM OutcomeIsHonest == Spec => []OutcomeHonest
BY InitWork, NextWork, WorkInvHonest, PTL DEF Spec
===============================================================================
