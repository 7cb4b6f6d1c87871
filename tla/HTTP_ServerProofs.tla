--------------------------- MODULE HTTP_ServerProofs ---------------------------
(***************************************************************************)
(* Proofs about HTTP_Server, for any number of sessions.                   *)
(*                                                                         *)
(* The argument goes through the socket: an operation is pending only on   *)
(* an open socket, an open socket has its timer running or its expiry in   *)
(* the queue, and a socket that is not open any more was closed by the     *)
(* deadline or shut down after the write (SocketInv).  What ended a        *)
(* session unanswered is then read off the operation it ended with         *)
(* (CauseInv).                                                             *)
(***************************************************************************)
EXTENDS HTTP_Server, TLAPS

TypeInv == TypeOK /\ RequestKnown

LEMMA TypeInvInit == Init => TypeInv
BY DEF Init, TypeInv, TypeOK, RequestKnown

LEMMA TypeInvStep == TypeInv /\ [Next]_vars => TypeInv'
<1> SUFFICES ASSUME TypeInv, [Next]_vars PROVE TypeInv'
  OBVIOUS
<1> USE SessionAssumption DEF TypeInv, TypeOK, RequestKnown, Becomes, historyVars
<1>1. ASSUME NEW s \in Session, Accept(s) PROVE TypeInv'
  BY <1>1 DEF Accept
<1>2. ASSUME NEW s \in Session, processRequest(s) PROVE TypeInv'
  <2>1. CASE req[s] # "search" /\ writeResponse(s, FixedPage[req[s]]) /\ busy' = busy
    <3>1. FixedPage[req[s]] \in Page
      BY <1>2, <2>1 DEF processRequest, FixedPage, Page, Request
    <3> QED BY <1>2, <2>1, <3>1 DEF processRequest, writeResponse
  <2>2. CASE req[s] = "search" /\ Becomes(op, s, "none") /\ busy' = s /\ reply' = reply
    BY <1>2, <2>2 DEF processRequest
  <2> QED BY <1>2, <2>1, <2>2 DEF processRequest
<1>3. ASSUME NEW s \in Session, SearchEnds(s) PROVE TypeInv'
  BY <1>3 DEF SearchEnds, SearchThrows, SearchReturns, writeResponse, Page
<1>4. ASSUME NEW s \in Session, ReadError(s) \/ Written(s) PROVE TypeInv'
  BY <1>4 DEF ReadError, Written
<1>5. ASSUME NEW s \in Session, checkDeadline(s) \/ DeadlineCancelled(s) PROVE TypeInv'
  BY <1>5 DEF checkDeadline, DeadlineCancelled
<1>6. ASSUME NEW s \in Session, Network(s) PROVE TypeInv'
  BY <1>6 DEF Network, ReadFails, Delivered, WriteFails, RequestRead
<1>7. ASSUME NEW s \in Session, Expire(s) PROVE TypeInv'
  BY <1>7 DEF Expire
<1>8. CASE UNCHANGED vars
  BY <1>8 DEF vars
<1> QED BY <1>1, <1>2, <1>3, <1>4, <1>5, <1>6, <1>7, <1>8 DEF Next, Handler

\* The variables of the server keep their types, and no request is processed
\* that was not read.
THEOREM TypeCorrect == Spec => []TypeOK
<1>1. TypeInv => TypeOK
  BY DEF TypeInv
<1> QED BY <1>1, TypeInvInit, TypeInvStep, PTL DEF Spec

-------------------------------------------------------------------------------
(* Sockets and deadlines *)

SessionInv == TypeInv /\ SocketInv

LEMMA SessionInvInit == Init => SessionInv
BY TypeInvInit, SessionAssumption DEF Init, SessionInv, SocketInv

LEMMA SessionInvStep == SessionInv /\ [Next]_vars => SessionInv'
<1> SUFFICES ASSUME SessionInv, [Next]_vars PROVE SocketInv'
  BY TypeInvStep DEF SessionInv
<1>0. TypeOK /\ SocketInv
  BY DEF SessionInv, TypeInv
<1> USE <1>0, SessionAssumption DEF TypeOK, SocketInv, Becomes, historyVars
<1>1. ASSUME NEW s \in Session, Accept(s) PROVE SocketInv'
  BY <1>1 DEF Accept, Free
<1>2. ASSUME NEW s \in Session, processRequest(s) PROVE SocketInv'
  BY <1>2 DEF processRequest, writeResponse, Free
<1>3. ASSUME NEW s \in Session, SearchEnds(s) PROVE SocketInv'
  BY <1>3 DEF SearchEnds, SearchThrows, SearchReturns, writeResponse
<1>4. ASSUME NEW s \in Session, ReadError(s) \/ Written(s) PROVE SocketInv'
  BY <1>4 DEF ReadError, Written, Free
<1>5. ASSUME NEW s \in Session, checkDeadline(s) PROVE SocketInv'
  BY <1>5 DEF checkDeadline, Free
<1>6. ASSUME NEW s \in Session, DeadlineCancelled(s) PROVE SocketInv'
  BY <1>6 DEF DeadlineCancelled, Free
<1>7. ASSUME NEW s \in Session, Network(s) PROVE SocketInv'
  BY <1>7 DEF Network, ReadFails, Delivered, WriteFails, RequestRead
<1>8. ASSUME NEW s \in Session, Expire(s) PROVE SocketInv'
  BY <1>8 DEF Expire
<1>9. CASE UNCHANGED vars
  BY <1>9 DEF vars
<1> QED BY <1>1, <1>2, <1>3, <1>4, <1>5, <1>6, <1>7, <1>8, <1>9 DEF Next, Handler

\* No session waits for its client without a deadline over it.
THEOREM AlwaysGuarded == Spec => []DeadlineGuards
<1>1. SessionInv => DeadlineGuards
  BY DEF SessionInv, SocketInv, DeadlineGuards
<1> QED BY <1>1, SessionInvInit, SessionInvStep, PTL DEF Spec

\* After the deadline has closed its session a client receives nothing.
THEOREM NoAnswerAfterDeadline == Spec => NoLateAnswer
<1>1. ASSUME SessionInv, [Next]_vars, NEW t \in timedOut PROVE got'[t] = got[t]
  <2>0. TypeOK /\ SocketInv /\ t \in Session
    BY <1>1 DEF SessionInv, TypeInv, TypeOK
  <2>1. ASSUME NEW s \in Session, Delivered(s) PROVE got'[t] = got[t]
    <3>1. s # t
      BY <2>0, <2>1 DEF Delivered, SocketInv
    <3> QED BY <2>0, <2>1, <3>1 DEF Delivered, Becomes, TypeOK
  <2>2. CASE got' = got
    BY <2>2
  <2>3. got' = got \/ \E s \in Session : Delivered(s)
    BY <1>1 DEF Next, Accept, Handler, processRequest, ReadError, Written, checkDeadline,
                DeadlineCancelled, SearchEnds, SearchThrows, SearchReturns, Network,
                ReadFails, WriteFails, RequestRead, Expire, vars
  <2> QED BY <2>1, <2>2, <2>3
<1>2. SessionInv /\ [Next]_vars => [\A s \in timedOut : got'[s] = got[s]]_vars
  BY <1>1
<1> QED BY <1>2, SessionInvInit, SessionInvStep, PTL DEF Spec, NoLateAnswer

-------------------------------------------------------------------------------
(* Why a session ends unanswered *)

LEMMA CauseInvStep == SessionInv /\ CauseInv /\ [Next]_vars => CauseInv'
<1> SUFFICES ASSUME SessionInv, CauseInv, [Next]_vars PROVE CauseInv'
  OBVIOUS
<1>0. TypeOK /\ RequestKnown /\ SocketInv
  BY DEF SessionInv, TypeInv
<1> USE <1>0, SessionAssumption DEF TypeOK, SocketInv, CauseInv, Becomes, historyVars
<1>1. ASSUME NEW s \in Session, Accept(s) PROVE CauseInv'
  BY <1>1 DEF Accept, Free
<1>2. ASSUME NEW s \in Session, processRequest(s) PROVE CauseInv'
  <2>1. CASE req[s] # "search" /\ writeResponse(s, FixedPage[req[s]]) /\ busy' = busy
    <3>1. FixedPage[req[s]] \in Page
      BY <1>2, <2>1 DEF processRequest, FixedPage, Page, Request, RequestKnown
    <3>2. sock[s] = "open" \/ s \in timedOut
      BY <1>2 DEF processRequest
    <3> QED BY <1>2, <2>1, <3>1, <3>2 DEF processRequest, writeResponse, Page, Free
  <2>2. CASE req[s] = "search" /\ Becomes(op, s, "none") /\ busy' = s /\ reply' = reply
    BY <1>2, <2>2 DEF processRequest, Free
  <2> QED BY <1>2, <2>1, <2>2 DEF processRequest
<1>3. ASSUME NEW s \in Session, SearchEnds(s) PROVE CauseInv'
  <2>1. CASE SearchThrows(s)
    BY <2>1 DEF SearchThrows
  <2>2. ASSUME NEW page \in {"results", "no_matches"}, SearchReturns(s, page)
        PROVE  CauseInv'
    <3>1. sock[s] = "open" \/ s \in timedOut
      BY <2>2 DEF SearchReturns
    <3> QED BY <2>2, <3>1 DEF SearchReturns, writeResponse
  <2> QED BY <1>3, <2>1, <2>2 DEF SearchEnds
<1>4. ASSUME NEW s \in Session, ReadError(s) \/ Written(s) PROVE CauseInv'
  BY <1>4 DEF ReadError, Written, Free
<1>5. ASSUME NEW s \in Session, checkDeadline(s) PROVE CauseInv'
  BY <1>5 DEF checkDeadline, Free
<1>6. ASSUME NEW s \in Session, DeadlineCancelled(s) \/ Expire(s) PROVE CauseInv'
  BY <1>6 DEF DeadlineCancelled, Expire
<1>7. ASSUME NEW s \in Session, Network(s) PROVE CauseInv'
  BY <1>7 DEF Network, ReadFails, Delivered, WriteFails, RequestRead
<1>8. CASE UNCHANGED vars
  BY <1>8 DEF vars
<1> QED BY <1>1, <1>2, <1>3, <1>4, <1>5, <1>6, <1>7, <1>8 DEF Next, Handler

\* A session that ended without an answer was cut by its deadline or broken
\* by its client: no handler, and no other session, loses a response.
THEOREM UnansweredForAReason == Spec => []CutForAReason
<1>1. Init => CauseInv
  BY DEF Init, CauseInv
<1>2. SessionInv /\ CauseInv => CutForAReason
  BY DEF CauseInv, CutForAReason, Released
<1> QED BY <1>1, <1>2, SessionInvInit, SessionInvStep, CauseInvStep, PTL DEF Spec
===============================================================================
