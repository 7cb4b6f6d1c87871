------------------------------ MODULE pqxx_work -------------------------------
(***************************************************************************)
(* addLink as libpqxx carries it out: pqxx::connection and pqxx::work on   *)
(* the client's side (libpqxx-7.8.1, src/connection.cxx,                   *)
(* src/transaction_base.cxx, src/transaction.cxx, src/result.cxx), and a   *)
(* session of the PostgreSQL server for every connection.                  *)
(*                                                                         *)
(* A statement takes three steps: it is sent, the server executes it, the  *)
(* answer is read.  The connection can be lost between any two of them, or *)
(* libpq can report an error while it still takes the connection for open. *)
(* A statement that has been sent is then executed all the same or lost    *)
(* with its session, and the client learns of a loss only when it next     *)
(* uses the connection.  An exception unwinds addLink: the work object is  *)
(* closed, which sends ROLLBACK if it is still active, and the connection  *)
(* is destroyed.                                                           *)
(*                                                                         *)
(* DB_Client describes the same calls with one step per statement.  That   *)
(* the second and later exec_params of addLink commit by themselves, that  *)
(* its later commit() calls do nothing, and that what a failed call leaves *)
(* behind is at most one statement, is stated there and shown here.        *)
(***************************************************************************)
EXTENDS Integers, FiniteSetsExt

CONSTANTS
  Client,    \* the crawler processes
  Link,      \* urls
  Word,      \* keywords, numbered in the order std::map visits them
  Texts,     \* what a download may yield: word counts
  MaxCalls   \* bound: how many calls of addLink each client makes

ASSUME WorkAssumption ==
  /\ Word \subseteq Nat
  /\ Texts \subseteq [Word -> Nat]
  /\ MaxCalls \in [Client -> Nat]

VARIABLES
  urls, keywords, qty,           \* the committed rows
  pc, link, words, todo, calls,  \* addLink, as in DB_Client
  m_conn,     \* is the client's connection open, by PQstatus?
  m_status,   \* transaction_base::m_status of its work object, "none" without one
  thrown,     \* the exception that leaves addLink, and the place it comes from
  session,    \* the server's end of every connection a client may open
  text,       \* history: the words of the call that last inserted a url
  abandoned   \* history: urls whose inserting call failed before its end

tableVars == <<urls, keywords, qty>>
callVars == <<pc, link, words, todo, calls>>
pqxxVars == <<m_conn, m_status, thrown>>
historyVars == <<text, abandoned>>
vars == <<tableVars, callVars, pqxxVars, session, historyVars>>

\* A client opens one connection per call for its inserts.
Session == UNION {{c} \X (1..MaxCalls[c]) : c \in Client}

\* The places where addLink talks to the server, unwinding included; at the
\* others it is idle, has failed, or is in findUrl, connect, findKeyword or one
\* of the later commits.
Talking == {"begin", "insertUrl", "commitUrl", "insertKeyword", "insertPair", "rollback"}

\* Rows are tuples.  A request is a row, <<"BEGIN">>, <<"COMMIT">>,
\* <<"ROLLBACK">> or <<>>.
Row == ({"url"} \X Link) \cup ({"keyword"} \X Word)
         \cup {<<"pair", l, w, t[w]>> : l \in Link, w \in Word, t \in Texts}

\* Answers to COMMIT that leave open whether it was carried out: SQLSTATE 40003
\* and those of class 08, such as 08007, "transaction resolution unknown".
Unclear == {"40003", "08"}

\* A session that is over, or has not begun: block is "none", "idle", "open" or
\* "failed", reply "none", "ok", "error" or Unclear; stored records that it
\* stored a url.
NoSession == [block |-> "none", pending |-> {}, request |-> <<>>,
              reply |-> "none", stored |-> FALSE]

Init ==
  /\ urls = {}
  /\ keywords = {}
  /\ qty = [l \in Link |-> [w \in Word |-> 0]]
  /\ pc = [c \in Client |-> "idle"]
  /\ link \in [Client -> Link]
  /\ words = [c \in Client |-> [w \in Word |-> 0]]
  /\ todo = [c \in Client |-> {}]
  /\ calls = [c \in Client |-> 0]
  /\ m_conn = [c \in Client |-> FALSE]
  /\ m_status = [c \in Client |-> "none"]
  /\ thrown = [c \in Client |-> <<>>]
  /\ session = [s \in Session |-> NoSession]
  /\ text = [l \in Link |-> [w \in Word |-> 0]]
  /\ abandoned = {}

-------------------------------------------------------------------------------
(* The client *)

Mine(c) == <<c, calls[c]>>

is_open(c) == m_conn[c]

NextWord(c) == CHOOSE w \in todo[c] : \A v \in todo[c] : w <= v

Goto(c, place) == pc' = [pc EXCEPT ![c] = place]

\* The connection object is destroyed.  The server keeps the session while
\* there is something left to do in it.
Disconnect(c) ==
  /\ m_conn' = [m_conn EXCEPT ![c] = FALSE]
  /\ todo' = [todo EXCEPT ![c] = {}]
  /\ session' =
       IF ~is_open(c) THEN session
       ELSE [session EXCEPT ![Mine(c)] =
               IF @.request = <<>> /\ @.pending = {}
                 THEN [NoSession EXCEPT !.stored = session[Mine(c)].stored]
                 ELSE [@ EXCEPT !.reply = "none"]]
  /\ UNCHANGED <<tableVars, link, words, calls>>

\* The first exception is the one that leaves addLink: what goes wrong in the
\* ROLLBACK of the unwinding is only noticed.
Throw(c, exception) ==
  thrown' = IF pc[c] = "rollback" THEN thrown
            ELSE [thrown EXCEPT ![c] = <<exception, pc[c]>>]

\* An exception unwinds addLink.  commit() gives the work object the status
\* outcome; one that was never constructed or is committed keeps its status,
\* and one that is active is aborted.
Unwind(c, exception, outcome) ==
  /\ Throw(c, exception)
  /\ m_status' = [m_status EXCEPT ![c] =
       IF pc[c] = "commitUrl" THEN outcome ELSE IF @ = "active" THEN "aborted" ELSE @]
  /\ Goto(c, "failed")
  /\ Disconnect(c)

\* HTML_parser::parse calls addLink with the words of a page.
Call(c, l, t) ==
  /\ pc[c] = "idle"
  /\ calls[c] < MaxCalls[c]
  /\ calls' = [calls EXCEPT ![c] = @ + 1]
  /\ link' = [link EXCEPT ![c] = l]
  /\ words' = [words EXCEPT ![c] = t]
  /\ Goto(c, "findUrl")
  /\ UNCHANGED <<tableVars, todo, pqxxVars, session>>

\* findUrl and findKeyword read over a connection of their own.
findUrl(c) ==
  /\ pc[c] = "findUrl"
  /\ Goto(c, IF link[c] \in urls THEN "idle" ELSE "connect")
  /\ UNCHANGED <<tableVars, link, words, todo, calls, pqxxVars, session>>

findKeyword(c) ==
  /\ pc[c] = "findKeyword"
  /\ Goto(c, CASE todo[c] = {}              -> "commitEnd"
               [] NextWord(c) \in keywords  -> "insertPair"
               [] OTHER                     -> "insertKeyword")
  /\ UNCHANGED <<tableVars, link, words, todo, calls, pqxxVars, session>>

\* The constructor of connection.
connect(c) ==
  /\ pc[c] = "connect"
  /\ m_conn' = [m_conn EXCEPT ![c] = TRUE]
  /\ session' = [session EXCEPT ![Mine(c)].block = "idle"]
  /\ Goto(c, "begin")
  /\ UNCHANGED <<tableVars, link, words, todo, calls, m_status, thrown>>

\* What is sent: BEGIN by the constructor of work, COMMIT by commit(), the
\* INSERTs by exec_params, which does not look at m_status, and ROLLBACK by
\* abort().
Statement(c) ==
  CASE pc[c] = "begin"         -> <<"BEGIN">>
    [] pc[c] = "insertUrl"     -> <<"url", link[c]>>
    [] pc[c] = "commitUrl"     -> <<"COMMIT">>
    [] pc[c] = "rollback"      -> <<"ROLLBACK">>
    [] pc[c] = "insertKeyword" -> <<"keyword", NextWord(c)>>
    [] pc[c] = "insertPair"    ->
         <<"pair", link[c], NextWord(c), words[c][NextWord(c)]>>

Asked(c) == session[Mine(c)].request # <<>> \/ session[Mine(c)].reply # "none"

\* A statement leaves.  commit() first makes sure that the work object is
\* active and the connection open.
Send(c) ==
  /\ pc[c] \in Talking
  /\ is_open(c) /\ ~Asked(c) /\ session[Mine(c)].block # "none"
  /\ pc[c] = "commitUrl" => m_status[c] = "active"
  /\ session' = [session EXCEPT ![Mine(c)].request = Statement(c)]
  /\ UNCHANGED <<tableVars, callVars, pqxxVars>>

\* make_result accepts the answer: the call goes on.  BEGIN completes the
\* constructor of the work object, a COMMIT that succeeds closes it.
Receive(c) ==
  /\ is_open(c) /\ pc[c] # "rollback"
  /\ session[Mine(c)].reply = "ok"
  /\ session' = [session EXCEPT ![Mine(c)].reply = "none"]
  /\ Goto(c, CASE pc[c] = "begin"         -> "insertUrl"
               [] pc[c] = "insertUrl"     -> "commitUrl"
               [] pc[c] = "commitUrl"     -> "findKeyword"
               [] pc[c] = "insertKeyword" -> "commitKeyword"
               [] pc[c] = "insertPair"    -> "findKeyword")
  /\ todo' = [todo EXCEPT ![c] =
       CASE pc[c] = "commitUrl"  -> {w \in Word : words[c][w] > 0}
         [] pc[c] = "insertPair" -> @ \ {NextWord(c)}
         [] OTHER                -> @]
  /\ m_status' = [m_status EXCEPT ![c] =
       IF pc[c] = "begin" THEN "active" ELSE IF pc[c] = "commitUrl" THEN "committed" ELSE @]
  /\ UNCHANGED <<tableVars, link, words, calls, m_conn, thrown>>

\* The INSERT of the url is answered with an error: the work object is active
\* when the exception unwinds it, and ~transaction sends ROLLBACK.
ReceiveRefusal(c) ==
  /\ is_open(c) /\ pc[c] = "insertUrl"
  /\ session[Mine(c)].reply = "error"
  /\ session' = [session EXCEPT ![Mine(c)].reply = "none"]
  /\ Throw(c, "sql_error")
  /\ Goto(c, "rollback")
  /\ UNCHANGED <<tableVars, link, words, todo, calls, m_conn, m_status>>

\* Mutant of ReceiveError: do_commit does not single out SQLSTATE 40003.
ReceiveErrorAborts(c) ==
  /\ is_open(c) /\ pc[c] \notin {"insertUrl", "rollback"}
  /\ LET reply == session[Mine(c)].reply
     IN  \/ reply \in {"error", "40003"} /\ Unwind(c, "sql_error", "aborted")
         \/ reply = "08"                 /\ Unwind(c, "broken_connection", "aborted")

\* An error over a connection that works, as throw_sql_error classifies it.
\* do_commit turns SQLSTATE 40003 into in_doubt_error, but lets the
\* broken_connection of class 08 pass when the connection tests as open, and
\* commit() then sets aborted.
ReceiveError(c) ==
  /\ is_open(c) /\ pc[c] \notin {"insertUrl", "rollback"}
  /\ LET reply == session[Mine(c)].reply
     IN  \/ reply = "error" /\ Unwind(c, "sql_error", "aborted")
         \/ reply = "40003" /\ Unwind(c, "in_doubt_error", "in_doubt")
         \/ reply = "08"    /\ Unwind(c, "broken_connection", "aborted")

\* The ROLLBACK has been answered, however: the work object is aborted and the
\* exception goes on.
RolledBack(c) ==
  /\ is_open(c) /\ pc[c] = "rollback"
  /\ session[Mine(c)].reply # "none"
  /\ Unwind(c, "none", "none")

\* A statement cannot be sent, or its answer does not come: libpq gives the
\* connection up and the library throws broken_connection.  Out of COMMIT this
\* becomes in_doubt_error, whether the server has the COMMIT or not; a ROLLBACK
\* over the lost connection fails at once.
Lose(c) ==
  /\ pc[c] \in Talking
  /\ is_open(c)
  /\ Unwind(c, IF pc[c] = "commitUrl" THEN "in_doubt_error" ELSE "broken_connection",
            "in_doubt")

\* libpq ends the wait for an answer with an error of its own while PQstatus
\* still says that all is well (a socket timeout): an answer without SQLSTATE is
\* a broken_connection, no answer at all its base class failure, and both count
\* as broken_connection here.  do_commit takes this for a COMMIT that failed.
\* Using the connection again, for ROLLBACK, breaks it.
GiveUp(c) ==
  /\ pc[c] \in Talking
  /\ is_open(c) /\ Asked(c)
  /\ Unwind(c, "broken_connection", "aborted")

\* commit() on a work object that is committed already only prints a notice.
commitAgain(c) ==
  /\ pc[c] = "commitKeyword"
  /\ m_status[c] = "committed"
  /\ Goto(c, "insertPair")
  /\ UNCHANGED <<tableVars, link, words, todo, calls, pqxxVars, session>>

\* The last commit() likewise; addLink returns and the objects are destroyed.
Return(c) ==
  /\ pc[c] = "commitEnd"
  /\ m_status[c] = "committed"
  /\ Goto(c, "idle")
  /\ m_status' = [m_status EXCEPT ![c] = "none"]
  /\ UNCHANGED thrown
  /\ Disconnect(c)

\* The process ends, or a connection for findUrl, findKeyword or addLink
\* cannot be opened.
Crash(c) ==
  /\ pc[c] \notin {"idle", "failed"}
  /\ Goto(c, "failed")
  /\ m_status' = [m_status EXCEPT ![c] = "none"]
  /\ thrown' = [thrown EXCEPT ![c] = <<>>]
  /\ Disconnect(c)

\* The operator starts a failed crawler again.
Restart(c) ==
  /\ pc[c] = "failed"
  /\ Goto(c, "idle")
  /\ m_status' = [m_status EXCEPT ![c] = "none"]
  /\ thrown' = [thrown EXCEPT ![c] = <<>>]
  /\ UNCHANGED <<tableVars, link, words, todo, calls, m_conn, session>>

-------------------------------------------------------------------------------
(* The server *)

\* The client of the session listens to it.
Attached(s) == Mine(s[1]) = s /\ is_open(s[1])

Answer(s, reply) == IF Attached(s) THEN reply ELSE "none"

\* Rows become visible to everybody.
Publish(rows) ==
  LET counts(l, w) == {r[4] : r \in {x \in rows : x[1] = "pair" /\ x[2] = l /\ x[3] = w}}
  IN  /\ urls' = urls \cup {l \in Link : <<"url", l>> \in rows}
      /\ keywords' = keywords \cup {w \in Word : <<"keyword", w>> \in rows}
      /\ qty' = [l \in Link |-> [w \in Word |->
           IF counts(l, w) = {} THEN qty[l][w] ELSE CHOOSE n \in counts(l, w) : TRUE]]

\* What the constraints of the three tables say about a new row.
Taken(r) ==
  CASE r[1] = "url"     -> r[2] \in urls
    [] r[1] = "keyword" -> r[2] \in keywords
    [] r[1] = "pair"    -> r[2] \notin urls \/ r[3] \notin keywords \/ qty[r[2]][r[3]] > 0

\* BEGIN opens a transaction block.
ExecBegin(s) ==
  /\ session[s].request = <<"BEGIN">>
  /\ session' = [session EXCEPT ![s].block = "open", ![s].request = <<>>,
                                ![s].reply = Answer(s, "ok")]
  /\ UNCHANGED tableVars

\* Mutant of ExecCommit: COMMIT AND CHAIN, which opens the next block.
ExecCommitChained(s) ==
  /\ session[s].request = <<"COMMIT">>
  /\ Publish(session[s].pending)
  /\ session' = [session EXCEPT ![s].request = <<>>, ![s].reply = Answer(s, "ok"),
                                ![s].pending = {}, ![s].stored = TRUE]

\* COMMIT publishes the rows of the block.
ExecCommit(s) ==
  /\ session[s].request = <<"COMMIT">>
  /\ Publish(session[s].pending)
  /\ \E reply \in {"ok"} \cup Unclear :
       session' = [session EXCEPT ![s].block = "idle", ![s].request = <<>>,
                                  ![s].reply = Answer(s, reply), ![s].pending = {},
                                  ![s].stored = TRUE]

\* ROLLBACK drops them.
ExecRollback(s) ==
  /\ session[s].request = <<"ROLLBACK">>
  /\ session' = [session EXCEPT ![s].block = "idle", ![s].request = <<>>,
                                ![s].reply = Answer(s, "ok"), ![s].pending = {}]
  /\ UNCHANGED tableVars

\* INSERT waits for a transaction that holds an equal row.  In a block the row
\* stays with the session until COMMIT, otherwise it is published at once.
ExecInsert(s) ==
  LET r == session[s].request
      reply == IF Taken(r) THEN "error" ELSE "ok"
      inBlock == session[s].block = "open"
  IN  /\ r \in Row
      /\ \A t \in Session \ {s} : r \notin session[t].pending
      /\ session' = [session EXCEPT
           ![s].block   = IF Taken(r) /\ inBlock THEN "failed" ELSE @,
           ![s].request = <<>>,
           ![s].reply   = Answer(s, reply),
           ![s].pending = IF Taken(r) THEN {} ELSE IF inBlock THEN @ \cup {r} ELSE @]
      /\ Publish(IF Taken(r) \/ inBlock THEN {} ELSE {r})

Exec(s) == ExecBegin(s) \/ ExecCommit(s) \/ ExecRollback(s) \/ ExecInsert(s)

\* A statement fails for reasons of the server's own, such as a full disk.
Refuse(s) ==
  /\ session[s].request \notin {<<>>, <<"ROLLBACK">>}
  /\ \E reply \in {"error"} \cup (IF session[s].request = <<"COMMIT">> THEN Unclear ELSE {}) :
       session' = [session EXCEPT
         ![s].block   = IF @ = "open" /\ session[s].request # <<"COMMIT">> THEN "failed"
                        ELSE "idle",
         ![s].request = <<>>,
         ![s].reply   = Answer(s, reply),
         ![s].pending = {}]
  /\ UNCHANGED tableVars

\* Mutant of Drop: the server waits for the client to end its transaction.
DropIdle(s) ==
  /\ session[s].block # "none"
  /\ session[s].pending = {}
  /\ session' = [session EXCEPT ![s] =
       [NoSession EXCEPT !.reply = session[s].reply, !.stored = session[s].stored]]
  /\ UNCHANGED tableVars

\* The session ends: the server finds the client gone, or is shut down.  An
\* answer that has been given can still be read.
Drop(s) ==
  /\ session[s].block # "none"
  /\ session' = [session EXCEPT ![s] =
       [NoSession EXCEPT !.reply = session[s].reply, !.stored = session[s].stored]]
  /\ UNCHANGED tableVars

Serve(s) ==
  /\ Exec(s) \/ Refuse(s) \/ Drop(s)
  /\ UNCHANGED <<callVars, pqxxVars>>

-------------------------------------------------------------------------------
(* What DB_Client sees of it *)

\* The server has carried the client's statement out.
Executed(c) ==
  /\ is_open(c)
  /\ \/ session[Mine(c)].reply = "ok"
     \/ session[Mine(c)].reply \in Unclear /\ session[Mine(c)].stored

\* The session of the client is over, or has answered that it has not.
Doomed(c) ==
  /\ is_open(c)
  /\ \/ session[Mine(c)].block = "none"
     \/ session[Mine(c)].reply # "none" /\ ~Executed(c)

\* The place of DB_Client at which a client is: a statement counts when the
\* server has executed it, and a call is lost with its session.
AbstractPlace(c) ==
  CASE pc[c] \in {"idle", "failed", "findUrl"} -> pc[c]
    [] pc[c] = "rollback" \/ Doomed(c)         -> "failed"
    [] pc[c] \in {"connect", "begin"}          -> "insertUrl"
    [] pc[c] = "insertUrl"     -> IF Executed(c) THEN "commitUrl" ELSE "insertUrl"
    [] pc[c] = "commitUrl"     -> IF Executed(c) THEN "findKeyword" ELSE "commitUrl"
    [] pc[c] = "insertKeyword" -> IF Executed(c) THEN "insertPair" ELSE "insertKeyword"
    [] pc[c] = "commitKeyword" -> "insertPair"
    [] pc[c] = "insertPair"    -> IF Executed(c) THEN "findKeyword" ELSE "insertPair"
    [] pc[c] \in {"findKeyword", "commitEnd"} -> "findKeyword"

Filling(c) == AbstractPlace(c) \in {"findKeyword", "insertKeyword", "insertPair"}

AbstractTodo(c) ==
  CASE ~Filling(c)                              -> {}
    [] pc[c] = "commitUrl"                      -> {w \in Word : words[c][w] > 0}
    [] pc[c] = "insertPair" /\ Executed(c)      -> todo[c] \ {NextWord(c)}
    [] OTHER                                    -> todo[c]

\* The sessions with a request of a client that is gone, and the requests.
Outstanding == {s \in Session : ~Attached(s) /\ session[s].request # <<>>}
LateRequests == {session[s].request : s \in Outstanding}

\* The history variables follow DB_Client: the text of a url is that of the
\* call that inserted it, and a url is abandoned by a call that ends while it
\* fills the url, or when it is committed for a client that is gone.
History ==
  /\ text' = [l \in Link |->
       LET inserts == {c \in Client : link[c] = l /\ AbstractPlace(c) = "insertUrl"
                                        /\ AbstractPlace(c)' = "commitUrl"}
       IN  IF inserts = {} THEN text[l] ELSE words[CHOOSE c \in inserts : TRUE]]
  /\ abandoned' = abandoned
       \cup {link[c] : c \in {d \in Client : Filling(d) /\ AbstractPlace(d)' = "failed"}}
       \cup {l \in urls' \ urls : \A c \in Client : link[c] = l => ~Filling(c)'}

-------------------------------------------------------------------------------
(* The specification *)

addLink(c) ==
  \/ findUrl(c) \/ connect(c) \/ Send(c) \/ Receive(c)
  \/ ReceiveRefusal(c) \/ ReceiveError(c) \/ RolledBack(c)
  \/ findKeyword(c) \/ commitAgain(c) \/ Return(c)

Step(c) ==
  \/ addLink(c) \/ Lose(c) \/ GiveUp(c) \/ Crash(c) \/ Restart(c)
  \/ \E l \in Link, t \in Texts : Call(c, l, t)

Next ==
  /\ (\E c \in Client : Step(c)) \/ (\E s \in Session : Serve(s))
  /\ History

Spec == Init /\ [][Next]_vars

\* The process runs and notices that a session is over; the server works off
\* what it has been sent and finds out that a client is gone (TCP keepalive).
\* Nobody is obliged to call, to crash or to restart.
Notices(c) == is_open(c) /\ session[Mine(c)].block = "none" /\ ~Asked(c) /\ Lose(c)

FairSpec ==
  /\ Spec
  /\ \A c \in Client : WF_vars((addLink(c) \/ Notices(c)) /\ History)
  /\ \A s \in Session : /\ WF_vars(Exec(s) /\ UNCHANGED <<callVars, pqxxVars>> /\ History)
                        /\ WF_vars(~Attached(s) /\ Drop(s)
                                     /\ UNCHANGED <<callVars, pqxxVars>> /\ History)

-------------------------------------------------------------------------------
(* Properties *)

D == INSTANCE DB_Client WITH
  MaxCalls     <- Max({MaxCalls[c] : c \in Client}),
  pc           <- [c \in Client |-> AbstractPlace(c)],
  todo         <- [c \in Client |-> AbstractTodo(c)],
  lateUrls     <- {l \in Link : \E s \in Outstanding :
                     session[s].request = <<"COMMIT">> /\ <<"url", l>> \in session[s].pending},
  lateKeywords <- {r[2] : r \in {x \in LateRequests : x[1] = "keyword"}},
  latePairs    <- {<<r[2], r[3], r[4]>> : r \in {x \in LateRequests : x[1] = "pair"}}

\* libpqxx and the server do with addLink what DB_Client says: after the first
\* commit() every INSERT is a transaction of its own, the later commit() calls
\* change nothing, and a call that fails leaves behind at most the statement
\* it had sent.
ImplementsDB_Client == D!Spec

\* The url of the call is not stored, and nothing sent for it can store it yet.
NotStored(c) == ~session[Mine(c)].stored /\ session[Mine(c)].request # <<"COMMIT">>

\* What the work object has reported of its transaction when addLink is over is
\* true of the session: "committed" only when the row is stored, "aborted" only
\* when it is not and never will be.  From a broken_connection that leaves
\* commit() itself nothing can be told: do_commit lets it pass when the
\* connection tests as open, although the COMMIT may have been carried out.
OutcomeHonest ==
  \A c \in Client :
    /\ m_status[c] = "committed" => session[Mine(c)].stored
    /\ m_status[c] = "aborted" =>
         NotStored(c) \/ thrown[c] = <<"broken_connection", "commitUrl">>

\* A call that has come to connect ends, also when the row it wants to insert
\* is held by a session whose client is gone.
CallsReturn == \A c \in Client : pc[c] = "connect" ~> pc[c] \in {"idle", "failed"}
===============================================================================
