------------------------------ MODULE HTTP_Server ------------------------------
(***************************************************************************)
(* The sessions of the search server (Include/HTTP_Server.h and the accept *)
(* loop of Server/WebServer.cpp).  One thread runs the io_context, so      *)
(* completion handlers run one at a time; what happens between them, on    *)
(* the network and on the clock, goes on by itself and only queues a       *)
(* completion.                                                             *)
(*                                                                         *)
(* A session has two chains of handlers that know nothing of each other:   *)
(* read the request, process it, write the response; and the deadline of   *)
(* 60 seconds, which closes the socket.  Each pending handler owns a       *)
(* shared_ptr to the session; the session ends when none is left.  Closing *)
(* the socket or cancelling the timer completes a pending operation with   *)
(* an error, and does not recall a completion that is queued already.      *)
(*                                                                         *)
(* A search asks the database inside the handler: until it answers, no     *)
(* handler of any session runs, and if it throws, the exception leaves     *)
(* ioc.run() and main() ends the server.                                   *)
(***************************************************************************)
EXTENDS Integers

CONSTANTS
  Session,    \* the connections clients make
  NoSession

ASSUME SessionAssumption == NoSession \notin Session

VARIABLES
  server,     \* "up", or "down" once ioc.run() has thrown
  busy,       \* the session whose handler waits for the database
  accepted,   \* the sessions started so far
  op,         \* the read or write of a session: pending, or completed and queued
  timer,      \* its deadline: waiting, or completed and queued
  sock,       \* its socket
  req,        \* the request read
  reply,      \* the response being written
  got,        \* what the client has received in full
  timedOut,   \* history: sessions whose deadline closed the socket
  peerBroke   \* history: sessions whose client broke the connection or the protocol

historyVars == <<timedOut, peerBroke>>
vars == <<server, busy, accepted, op, timer, sock, req, reply, got, historyVars>>

\* What a request comes to, as processRequest and createResponse... tell them
\* apart: GET / and elsewhere, POST / with words, POST / without any, POST
\* elsewhere or without the parameter "search", and any other method.
Request == {"get", "get_other", "search", "no_words", "post_other", "method"}

Page == {"form", "not_found", "results", "no_matches", "bad_request", "invalid_method"}

\* The types: a client only ever receives a page, never part of a request.
TypeOK ==
  /\ server \in {"up", "down"}
  /\ busy \in Session \cup {NoSession}
  /\ accepted \subseteq Session
  /\ op \in [Session -> {"none", "read", "read_ok", "read_err", "write", "write_done"}]
  /\ timer \in [Session -> {"none", "waiting", "expired", "cancelled"}]
  /\ sock \in [Session -> {"none", "open", "shut", "closed"}]
  /\ req \in [Session -> Request \cup {"none"}]
  /\ reply \in [Session -> Page \cup {"none"}]
  /\ got \in [Session -> Page \cup {"none"}]
  /\ timedOut \subseteq Session
  /\ peerBroke \subseteq Session

Init ==
  /\ server = "up"
  /\ busy = NoSession
  /\ accepted = {}
  /\ op = [s \in Session |-> "none"]
  /\ timer = [s \in Session |-> "none"]
  /\ sock = [s \in Session |-> "none"]
  /\ req = [s \in Session |-> "none"]
  /\ reply = [s \in Session |-> "none"]
  /\ got = [s \in Session |-> "none"]
  /\ timedOut = {}
  /\ peerBroke = {}

-------------------------------------------------------------------------------
(* Handlers *)

\* The thread of the io_context is free to run the next handler.
Free == server = "up" /\ busy = NoSession

Becomes(f, s, value) == f' = [f EXCEPT ![s] = value]

\* The accept handler: start() begins the read and the deadline, and the next
\* accept is begun.  A failed accept only begins the next one.
Accept(s) ==
  /\ Free
  /\ s \notin accepted
  /\ accepted' = accepted \cup {s}
  /\ Becomes(op, s, "read")
  /\ Becomes(timer, s, "waiting")
  /\ Becomes(sock, s, "open")
  /\ UNCHANGED <<server, busy, req, reply, got, historyVars>>

\* Mutants of writeResponse: the request is sent back, and shutdown without
\* waiting for the write.
writeResponseEcho(s, page) ==
  /\ Becomes(reply, s, req[s])
  /\ Becomes(op, s, IF sock[s] = "open" THEN "write" ELSE "write_done")

writeResponseHasty(s, page) ==
  /\ Becomes(reply, s, page)
  /\ Becomes(op, s, "write_done")

\* A write on a socket the deadline has closed completes at once.
writeResponse(s, page) ==
  /\ Becomes(reply, s, page)
  /\ Becomes(op, s, IF sock[s] = "open" THEN "write" ELSE "write_done")

\* The requests answered without the database.
FixedPage ==
  [get |-> "form", get_other |-> "not_found", no_words |-> "bad_request",
   post_other |-> "not_found", method |-> "invalid_method"]

\* Mutant of processRequest: the deadline is cancelled once a request is there.
processRequestCancels(s) ==
  /\ Free
  /\ op[s] = "read_ok"
  /\ \/ /\ req[s] # "search"
        /\ writeResponse(s, FixedPage[req[s]])
        /\ busy' = busy
     \/ /\ req[s] = "search"
        /\ Becomes(op, s, "none")
        /\ busy' = s
        /\ reply' = reply
  /\ Becomes(timer, s, IF timer[s] = "waiting" THEN "cancelled" ELSE timer[s])
  /\ UNCHANGED <<server, accepted, sock, req, got, historyVars>>

\* The read handler calls processRequest; a search turns to the database.
processRequest(s) ==
  /\ Free
  /\ op[s] = "read_ok"
  /\ \/ /\ req[s] # "search"
        /\ writeResponse(s, FixedPage[req[s]])
        /\ busy' = busy
     \/ /\ req[s] = "search"
        /\ Becomes(op, s, "none")
        /\ busy' = s
        /\ reply' = reply
  /\ UNCHANGED <<server, accepted, timer, sock, req, got, historyVars>>

\* The database has answered and the handler goes on.
SearchReturns(s, page) ==
  /\ server = "up"
  /\ busy = s
  /\ busy' = NoSession
  /\ writeResponse(s, page)
  /\ UNCHANGED <<server, accepted, timer, sock, req, got, historyVars>>

SearchThrows(s) ==
  /\ server = "up"
  /\ busy = s
  /\ server' = "down"
  /\ UNCHANGED <<busy, accepted, op, timer, sock, req, reply, got, historyVars>>

\* The read handler does nothing about an error: the session stays until its
\* deadline.
ReadError(s) ==
  /\ Free
  /\ op[s] = "read_err"
  /\ Becomes(op, s, "none")
  /\ UNCHANGED <<server, busy, accepted, timer, sock, req, reply, got, historyVars>>

\* Mutant of Written: the timer is left running.
WrittenKeepsTimer(s) ==
  /\ Free
  /\ op[s] = "write_done"
  /\ Becomes(op, s, "none")
  /\ Becomes(sock, s, IF sock[s] = "open" THEN "shut" ELSE sock[s])
  /\ UNCHANGED <<server, busy, accepted, timer, req, reply, got, historyVars>>

\* The write handler, whatever became of the write: shutdown and cancel.
Written(s) ==
  /\ Free
  /\ op[s] = "write_done"
  /\ Becomes(op, s, "none")
  /\ Becomes(sock, s, IF sock[s] = "open" THEN "shut" ELSE sock[s])
  /\ Becomes(timer, s, IF timer[s] = "waiting" THEN "cancelled" ELSE timer[s])
  /\ UNCHANGED <<server, busy, accepted, req, reply, got, historyVars>>

\* Mutants of checkDeadline: nothing is closed, and only what is pending is
\* cancelled (socket_.cancel in place of close).
checkDeadlineIdle(s) ==
  /\ Free
  /\ timer[s] = "expired"
  /\ Becomes(timer, s, "none")
  /\ UNCHANGED <<server, busy, accepted, op, sock, req, reply, got, historyVars>>

checkDeadlineCancels(s) ==
  /\ Free
  /\ timer[s] = "expired"
  /\ Becomes(timer, s, "none")
  /\ Becomes(op, s, CASE op[s] = "read"  -> "read_err"
                      [] op[s] = "write" -> "write_done"
                      [] OTHER -> op[s])
  /\ timedOut' = timedOut \cup {s}
  /\ UNCHANGED <<server, busy, accepted, sock, req, reply, got, peerBroke>>

\* The deadline handler after expiry: close() aborts what is pending.
checkDeadline(s) ==
  /\ Free
  /\ timer[s] = "expired"
  /\ Becomes(timer, s, "none")
  /\ Becomes(sock, s, "closed")
  /\ Becomes(op, s, CASE op[s] = "read"  -> "read_err"
                      [] op[s] = "write" -> "write_done"
                      [] OTHER -> op[s])
  /\ timedOut' = timedOut \cup {s}
  /\ UNCHANGED <<server, busy, accepted, req, reply, got, peerBroke>>

\* The deadline handler of a cancelled timer.
DeadlineCancelled(s) ==
  /\ Free
  /\ timer[s] = "cancelled"
  /\ Becomes(timer, s, "none")
  /\ UNCHANGED <<server, busy, accepted, op, sock, req, reply, got, historyVars>>

-------------------------------------------------------------------------------
(* Network and clock *)

\* A complete request has been read.
RequestRead(s, r) ==
  /\ server = "up"
  /\ op[s] = "read"
  /\ Becomes(op, s, "read_ok")
  /\ Becomes(req, s, r)
  /\ UNCHANGED <<server, busy, accepted, timer, sock, reply, got, historyVars>>

\* The client hangs up, or sends what is not HTTP or too much of it.
ReadFails(s) ==
  /\ server = "up"
  /\ op[s] = "read"
  /\ Becomes(op, s, "read_err")
  /\ peerBroke' = peerBroke \cup {s}
  /\ UNCHANGED <<server, busy, accepted, timer, sock, req, reply, got, timedOut>>

\* The whole response has been sent.
Delivered(s) ==
  /\ server = "up"
  /\ op[s] = "write"
  /\ Becomes(op, s, "write_done")
  /\ Becomes(got, s, reply[s])
  /\ UNCHANGED <<server, busy, accepted, timer, sock, req, reply, historyVars>>

WriteFails(s) ==
  /\ server = "up"
  /\ op[s] = "write"
  /\ Becomes(op, s, "write_done")
  /\ peerBroke' = peerBroke \cup {s}
  /\ UNCHANGED <<server, busy, accepted, timer, sock, req, reply, got, timedOut>>

\* Sixty seconds have passed since the session was made.
Expire(s) ==
  /\ server = "up"
  /\ timer[s] = "waiting"
  /\ Becomes(timer, s, "expired")
  /\ UNCHANGED <<server, busy, accepted, op, sock, req, reply, got, historyVars>>

-------------------------------------------------------------------------------
SearchEnds(s) ==
  SearchThrows(s) \/ \E page \in {"results", "no_matches"} : SearchReturns(s, page)

Handler(s) ==
  \/ processRequest(s) \/ ReadError(s) \/ Written(s)
  \/ checkDeadline(s) \/ DeadlineCancelled(s)

Network(s) ==
  \/ ReadFails(s) \/ Delivered(s) \/ WriteFails(s)
  \/ \E r \in Request : RequestRead(s, r)

Next ==
  \E s \in Session :
    Accept(s) \/ Handler(s) \/ SearchEnds(s) \/ Network(s) \/ Expire(s)

Spec == Init /\ [][Next]_vars

\* The io_context runs every queued handler, in the order of the queue, and
\* the database answers a query or breaks it off.  Clients need do nothing,
\* not even read the response.
LoopSpec ==
  Spec /\ \A s \in Session : WF_vars(Handler(s)) /\ WF_vars(SearchEnds(s))

\* Time passes: a deadline that is not cancelled expires.
TimePasses == \A s \in Session : WF_vars(Expire(s))

FairSpec == LoopSpec /\ TimePasses

-------------------------------------------------------------------------------
(* Safety *)

\* No pending handler owns the session any more: it is destroyed.
Released(s) ==
  s \in accepted /\ busy # s /\ op[s] = "none" /\ timer[s] = "none"

\* A session never waits for its client without a deadline over it: while a
\* read or a write is pending, the timer has not been cancelled and its
\* handler has not run.
DeadlineGuards ==
  \A s \in Session : op[s] \in {"read", "write"} =>
    sock[s] = "open" /\ timer[s] \in {"waiting", "expired"}

\* A client that stays connected and speaks HTTP gets its page: a session
\* ends unanswered only if the deadline struck or the client broke it.
CutForAReason ==
  \A s \in Session : Released(s) /\ got[s] = "none" =>
    s \in timedOut \cup peerBroke

\* Once the deadline has closed a session its client receives nothing more,
\* although a request may still be in work or its completion in the queue.
NoLateAnswer ==
  [][\A s \in timedOut : got'[s] = got[s]]_vars

-------------------------------------------------------------------------------
(* The inductive invariants behind the safety properties *)

\* A request is processed only after it has been read.
RequestKnown == \A s \in Session : op[s] = "read_ok" => req[s] \in Request

\* The socket of a session tells what may still be pending.
SocketInv ==
  \A s \in Session :
    /\ s \notin accepted <=> sock[s] = "none"
    /\ s \notin accepted => op[s] = "none" /\ busy # s
    /\ op[s] \in {"read", "write"} => sock[s] = "open"
    /\ sock[s] = "open" => timer[s] \in {"waiting", "expired"}
    /\ timer[s] # "none" => s \in accepted
    /\ s \in timedOut <=> sock[s] = "closed"
    /\ sock[s] = "shut" => op[s] = "none" /\ busy # s
    /\ busy = s => op[s] = "none"

\* What is known of a session from the operation it ended with.
CauseInv ==
  \A s \in accepted :
    /\ op[s] \in {"none", "write_done"} /\ busy # s =>
         got[s] # "none" \/ s \in timedOut \cup peerBroke
    /\ op[s] = "read_err" => s \in timedOut \cup peerBroke
    /\ op[s] = "write" => reply[s] # "none"

-------------------------------------------------------------------------------
(* Liveness *)

\* A session whose write has ended, well or badly, does not stay for its
\* deadline: it is released without the clock's help.
WrittenIsReleased ==
  \A s \in Session : op[s] = "write_done" ~> Released(s) \/ server = "down"

\* No client can keep a session for ever: as time passes it ends, even if the
\* client neither sends a request nor reads the response.
EverySessionEnds ==
  TimePasses =>
    \A s \in Session : s \in accepted ~> Released(s) \/ server = "down"

\* What the project description says of errors: the client sees a page that
\* tells of an internal error.  So every search is answered by some page,
\* unless the session is cut.
ErrorShown ==
  \A s \in Session : busy = s ~>
    got[s] # "none" \/ s \in timedOut \cup peerBroke
===============================================================================
