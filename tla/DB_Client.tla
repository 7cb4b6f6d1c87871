------------------------------- MODULE DB_Client -------------------------------
(***************************************************************************)
(* The index in PostgreSQL and the operation that fills it,                *)
(* DB_Client::addLink (Include/DB_Client.h).  A client of this module is a *)
(* crawler process: inside one process the global mutex of doWork lets a   *)
(* single thread call addLink, but nothing keeps a second crawler from     *)
(* working on the same database.                                           *)
(*                                                                         *)
(* Every SQL statement is a step.  addLink runs them in one pqxx::work and *)
(* commits that after the first INSERT.  From then on the transaction      *)
(* object is closed for libpqxx, its later exec_params go straight to the  *)
(* connection and commit by themselves, and its later commit() calls only  *)
(* print a notice.  findUrl and findKeyword open connections of their own, *)
(* so they see committed rows only.                                        *)
(*                                                                         *)
(* A client may fail between any two statements: the process is ended, the *)
(* connection breaks, or the text of a statement is not SQL because the    *)
(* url or word pasted into it holds a quote.  A statement that is on its   *)
(* way when the client fails is still carried out by the server, some time *)
(* later or never: the crawler may have been started again by then.        *)
(***************************************************************************)
EXTENDS Integers

CONSTANTS
  Client,    \* the crawler processes
  Link,      \* urls
  Word,      \* keywords, numbered in the order std::map visits them
  Texts,     \* what a download may yield: word counts, 0 for an absent word
  MaxCalls   \* bound: how many calls of addLink a client makes

ASSUME DBAssumption ==
  /\ Word \subseteq Nat
  /\ Texts \subseteq [Word -> Nat]
  /\ MaxCalls \in Nat

VARIABLES
  urls,      \* table urls, committed rows
  keywords,  \* table keywords
  qty,       \* table keyword_urs_qty: qty[l][w], 0 where there is no row
  pc,        \* where each client is in addLink
  link,      \* its argument link
  words,     \* its argument words
  todo,      \* the words its loop has still to visit
  calls,     \* calls made so far
  lateUrls,      \* urls whose COMMIT is with the server, its client gone
  lateKeywords,  \* the same for INSERT INTO keywords
  latePairs,     \* the same for INSERT INTO keyword_urs_qty: url, word, count
  text,      \* history: the words of the call that last inserted a url
  abandoned  \* history: urls whose inserting call failed before its end

tableVars == <<urls, keywords, qty>>
callVars == <<link, words, todo, calls>>
lateVars == <<lateUrls, lateKeywords, latePairs>>
historyVars == <<text, abandoned>>
vars == <<tableVars, pc, callVars, lateVars, historyVars>>

NoWords == [w \in Word |-> 0]

\* The places of addLink after the url's row has been committed.
Filling == {"findKeyword", "insertKeyword", "insertPair"}
Place   == {"idle", "failed", "findUrl", "insertUrl", "commitUrl"} \cup Filling

\* The types of the tables and of what each crawler has in hand.
TypeOK ==
  /\ urls \subseteq Link
  /\ keywords \subseteq Word
  /\ qty \in [Link -> [Word -> Nat]]
  /\ pc \in [Client -> Place]
  /\ link \in [Client -> Link]
  /\ words \in [Client -> [Word -> Nat]]
  /\ todo \in [Client -> SUBSET Word]
  /\ calls \in [Client -> 0..MaxCalls]
  /\ lateUrls \subseteq Link
  /\ lateKeywords \subseteq Word
  /\ latePairs \subseteq Link \X Word \X Nat
  /\ text \in [Link -> [Word -> Nat]]
  /\ abandoned \subseteq Link

-------------------------------------------------------------------------------
(* The operations *)

\* The constructor's CREATE TABLE IF NOT EXISTS, on a new database.
Init ==
  /\ urls = {}
  /\ keywords = {}
  /\ qty = [l \in Link |-> NoWords]
  /\ pc = [c \in Client |-> "idle"]
  /\ link \in [Client -> Link]
  /\ words = [c \in Client |-> NoWords]
  /\ todo = [c \in Client |-> {}]
  /\ calls = [c \in Client |-> 0]
  /\ lateUrls = {}
  /\ lateKeywords = {}
  /\ latePairs = {}
  /\ text = [l \in Link |-> NoWords]
  /\ abandoned = {}

Goto(c, place) == pc' = [pc EXCEPT ![c] = place]

\* An exception leaves addLink: its loop is over.
Throw(c) == Goto(c, "failed") /\ todo' = [todo EXCEPT ![c] = {}]

\* The word the loop over std::map visits next.
IsNext(c, w) == w \in todo[c] /\ \A v \in todo[c] : w <= v

\* HTML_parser::parse calls addLink with the words of a page.
Call(c, l, t) ==
  /\ pc[c] = "idle"
  /\ calls[c] < MaxCalls
  /\ calls' = [calls EXCEPT ![c] = @ + 1]
  /\ link' = [link EXCEPT ![c] = l]
  /\ words' = [words EXCEPT ![c] = t]
  /\ Goto(c, "findUrl")
  /\ UNCHANGED <<tableVars, todo, lateVars, historyVars>>

\* Mutant of FindUrl: a known url is emptied, to be indexed afresh.
FindUrlRefreshes(c) ==
  /\ pc[c] = "findUrl"
  /\ Goto(c, IF link[c] \in urls THEN "idle" ELSE "insertUrl")
  /\ qty' = [qty EXCEPT ![link[c]] = NoWords]
  /\ UNCHANGED <<urls, keywords, callVars, lateVars, historyVars>>

\* addLink returns at once when the url has a row.
FindUrl(c) ==
  /\ pc[c] = "findUrl"
  /\ Goto(c, IF link[c] \in urls THEN "idle" ELSE "insertUrl")
  /\ UNCHANGED <<tableVars, callVars, lateVars, historyVars>>

\* A row with this url is in a transaction that is not over.
RowPending(l) ==
  l \in lateUrls \/ \E d \in Client : pc[d] = "commitUrl" /\ link[d] = l

\* Mutants of InsertUrl: a url that exists already is taken for inserted
\* (ON CONFLICT DO NOTHING), and one that is tried until it is free.
InsertUrlIfNew(c) ==
  /\ pc[c] = "insertUrl"
  /\ ~RowPending(link[c])
  /\ text' = IF link[c] \in urls THEN text ELSE [text EXCEPT ![link[c]] = words[c]]
  /\ Goto(c, "commitUrl")
  /\ UNCHANGED <<tableVars, callVars, lateVars, abandoned>>

InsertUrlRetries(c) ==
  /\ pc[c] = "insertUrl"
  /\ ~RowPending(link[c])
  /\ link[c] \notin urls
  /\ text' = [text EXCEPT ![link[c]] = words[c]]
  /\ Goto(c, "commitUrl")
  /\ UNCHANGED <<tableVars, callVars, lateVars, abandoned>>

\* INSERT INTO urls, inside the transaction.  The server makes it wait while
\* another transaction holds an uncommitted row with the same url, and
\* refuses a url that was committed since findUrl: addLink throws.
InsertUrl(c) ==
  /\ pc[c] = "insertUrl"
  /\ ~RowPending(link[c])
  /\ IF link[c] \in urls
       THEN Goto(c, "failed") /\ text' = text
       ELSE Goto(c, "commitUrl") /\ text' = [text EXCEPT ![link[c]] = words[c]]
  /\ UNCHANGED <<tableVars, callVars, lateVars, abandoned>>

CommitUrl(c) ==
  /\ pc[c] = "commitUrl"
  /\ urls' = urls \cup {link[c]}
  /\ todo' = [todo EXCEPT ![c] = {w \in Word : words[c][w] > 0}]
  /\ Goto(c, "findKeyword")
  /\ UNCHANGED <<keywords, qty, link, words, calls, lateVars, historyVars>>

\* Mutant of FindKeyword: every word is taken for known.
FindKeywordAlways(c) ==
  /\ pc[c] = "findKeyword"
  /\ \E w \in todo[c] : IsNext(c, w) /\ Goto(c, "insertPair")
  /\ UNCHANGED <<tableVars, callVars, lateVars, historyVars>>

FindKeyword(c) ==
  /\ pc[c] = "findKeyword"
  /\ \E w \in todo[c] :
       /\ IsNext(c, w)
       /\ Goto(c, IF w \in keywords THEN "insertPair" ELSE "insertKeyword")
  /\ UNCHANGED <<tableVars, callVars, lateVars, historyVars>>

\* Mutant of InsertKeyword: the other string of addLink is stored.
InsertKeywordLink(c) ==
  /\ pc[c] = "insertKeyword"
  /\ \E w \in todo[c] :
       /\ IsNext(c, w)
       /\ keywords' = keywords \cup {link[c]}
       /\ IF link[c] \in keywords
            THEN Throw(c) /\ abandoned' = abandoned \cup {link[c]}
            ELSE Goto(c, "insertPair") /\ UNCHANGED <<todo, abandoned>>
  /\ UNCHANGED <<urls, qty, link, words, calls, lateVars, text>>

\* INSERT INTO keywords commits by itself; it throws when another client has
\* added the word since findKeyword.
InsertKeyword(c) ==
  /\ pc[c] = "insertKeyword"
  /\ \E w \in todo[c] :
       /\ IsNext(c, w)
       /\ keywords' = keywords \cup {w}
       /\ IF w \in keywords
            THEN Throw(c) /\ abandoned' = abandoned \cup {link[c]}
            ELSE Goto(c, "insertPair") /\ UNCHANGED <<todo, abandoned>>
  /\ UNCHANGED <<urls, qty, link, words, calls, lateVars, text>>

\* What the table refuses: a missing keyword or url (the columns of the
\* primary key are not null) and a second row for the same pair.
PairRefused(l, w) == w \notin keywords \/ l \notin urls \/ qty[l][w] > 0

InsertPair(c) ==
  /\ pc[c] = "insertPair"
  /\ \E w \in todo[c] :
       /\ IsNext(c, w)
       /\ IF PairRefused(link[c], w)
            THEN /\ Throw(c)
                 /\ abandoned' = abandoned \cup {link[c]}
                 /\ qty' = qty
            ELSE /\ qty' = [qty EXCEPT ![link[c]][w] = words[c][w]]
                 /\ todo' = [todo EXCEPT ![c] = @ \ {w}]
                 /\ Goto(c, "findKeyword")
                 /\ abandoned' = abandoned
  /\ UNCHANGED <<urls, keywords, link, words, calls, lateVars, text>>

\* Mutant of Return: the loop stops before the last word.
ReturnEarly(c) ==
  /\ pc[c] = "findKeyword"
  /\ \A v, w \in todo[c] : v = w
  /\ Goto(c, "idle")
  /\ UNCHANGED <<tableVars, callVars, lateVars, historyVars>>

\* The loop is over; the last commit() is a notice and addLink returns.
Return(c) ==
  /\ pc[c] = "findKeyword"
  /\ todo[c] = {}
  /\ Goto(c, "idle")
  /\ UNCHANGED <<tableVars, callVars, lateVars, historyVars>>

\* The call ends where it stands, and so does what it had sent.
Fail(c) ==
  /\ pc[c] \notin {"idle", "failed"}
  /\ Throw(c)
  /\ abandoned' = IF pc[c] \in Filling THEN abandoned \cup {link[c]} ELSE abandoned
  /\ UNCHANGED <<tableVars, link, words, calls, lateVars, text>>

\* The call ends while its statement is with the server: the process dies, or
\* the connection breaks before the answer (for COMMIT, an in_doubt_error).
FailLate(c) ==
  /\ \/ /\ pc[c] = "commitUrl"
        /\ lateUrls' = lateUrls \cup {link[c]}
        /\ UNCHANGED <<lateKeywords, latePairs, abandoned>>
     \/ /\ pc[c] = "insertKeyword"
        /\ \E w \in todo[c] : IsNext(c, w) /\ lateKeywords' = lateKeywords \cup {w}
        /\ abandoned' = abandoned \cup {link[c]}
        /\ UNCHANGED <<lateUrls, latePairs>>
     \/ /\ pc[c] = "insertPair"
        /\ \E w \in todo[c] :
             IsNext(c, w) /\ latePairs' = latePairs \cup {<<link[c], w, words[c][w]>>}
        /\ abandoned' = abandoned \cup {link[c]}
        /\ UNCHANGED <<lateUrls, lateKeywords>>
  /\ Throw(c)
  /\ UNCHANGED <<tableVars, link, words, calls, text>>

\* The server carries out, or drops, what a client that is gone had sent.
LateUrl(l) ==
  /\ l \in lateUrls
  /\ lateUrls' = lateUrls \ {l}
  /\ \/ urls' = urls \cup {l} /\ abandoned' = abandoned \cup {l}
     \/ UNCHANGED <<urls, abandoned>>
  /\ UNCHANGED <<keywords, qty, pc, callVars, lateKeywords, latePairs, text>>

LateKeyword(w) ==
  /\ w \in lateKeywords
  /\ lateKeywords' \in {lateKeywords, lateKeywords \ {w}}  \* two may be alike
  /\ keywords' \in {keywords, keywords \cup {w}}
  /\ UNCHANGED <<urls, qty, pc, callVars, lateUrls, latePairs, historyVars>>

\* The statement carries its count; the table may still refuse it.
LatePair(l, w, n) ==
  /\ <<l, w, n>> \in latePairs
  /\ latePairs' = latePairs \ {<<l, w, n>>}
  /\ \/ ~PairRefused(l, w) /\ qty' = [qty EXCEPT ![l][w] = n]
     \/ qty' = qty
  /\ UNCHANGED <<urls, keywords, pc, callVars, lateUrls, lateKeywords, historyVars>>

\* The operator starts a failed crawler again.
Restart(c) ==
  /\ pc[c] = "failed"
  /\ Goto(c, "idle")
  /\ UNCHANGED <<tableVars, callVars, lateVars, historyVars>>

addLink(c) ==
  \/ FindUrl(c) \/ InsertUrl(c) \/ CommitUrl(c)
  \/ FindKeyword(c) \/ InsertKeyword(c) \/ InsertPair(c) \/ Return(c)

Step(c) ==
  \/ addLink(c) \/ Fail(c) \/ FailLate(c) \/ Restart(c)
  \/ \E l \in Link, t \in Texts : Call(c, l, t)

Late ==
  \/ \E l \in Link : LateUrl(l)
  \/ \E w \in Word : LateKeyword(w)
  \/ \E p \in latePairs : LatePair(p[1], p[2], p[3])

Next == Late \/ \E c \in Client : Step(c)

Spec == Init /\ [][Next]_vars

\* The server answers every statement, so a call that has begun keeps going.
\* Nobody is obliged to call, to fail or to restart.
\* The server also ends, one way or the other, the transactions of clients
\* that are gone.
FairSpec ==
  /\ Spec
  /\ \A c \in Client : WF_vars(addLink(c))
  /\ \A l \in Link : WF_vars(LateUrl(l))

-------------------------------------------------------------------------------
(* Safety *)

FilledBy(c, l) == pc[c] \in Filling /\ link[c] = l

InWork(l) == \E c \in Client : FilledBy(c, l)

\* A pair of the url is still with the server.
PairOutstanding(l) == \E p \in latePairs : p[1] = l

\* However many crawlers index a page, and however its text differs between
\* their downloads, the rows of a url are counts from one download: the one
\* of the call that inserted the url.
OneVersion ==
  \A l \in Link : \A w \in Word : qty[l][w] \in {0, text[l][w]}

\* addLink never runs into the constraints of keyword_urs_qty: when it comes
\* to insert a pair, both rows it refers to exist and the pair does not, and
\* this stays so while the statement of a failed call is outstanding.
PairAccepted ==
  /\ \A c \in Client : pc[c] = "insertPair" =>
       \A w \in todo[c] : IsNext(c, w) => ~PairRefused(link[c], w)
  /\ \A p \in latePairs : ~PairRefused(p[1], p[2])

\* A url whose call returned normally has all its words in the index.
CompleteUnlessAbandoned ==
  \A l \in urls \ abandoned : InWork(l) \/ qty[l] = text[l]

\* What the project description promises of the index: the words of an
\* indexed page and their frequencies are saved in the database.
WordsSaved == \A l \in urls : InWork(l) \/ qty[l] = text[l]

-------------------------------------------------------------------------------
(* The inductive invariant behind the safety properties *)

\* A client past its commit owns the url: its text is the one on record, and
\* the rows stored so far are exactly those of the words already visited.
Owner ==
  \A c \in Client : pc[c] \in Filling =>
    /\ link[c] \in urls \ abandoned
    /\ text[link[c]] = words[c]
    /\ \A w \in Word : qty[link[c]][w] = IF w \in todo[c] THEN 0 ELSE words[c][w]

\* No two clients work on the same url once one has inserted it.
SoleOwner ==
  \A c, d \in Client :
    /\ pc[c] \in Filling \cup {"commitUrl"}
    /\ pc[d] \in Filling \cup {"commitUrl"}
    /\ link[c] = link[d]
    => c = d

\* An inserted row that is not committed is new, its text is the one on
\* record, and a url that is not committed has no rows and no abandoned call.
Unborn ==
  /\ abandoned \subseteq urls
  /\ lateUrls \cap urls = {}
  /\ \A c \in Client : pc[c] = "commitUrl" =>
       link[c] \notin urls \cup lateUrls /\ text[link[c]] = words[c]
  /\ \A l \in Link \ urls : qty[l] = NoWords

\* An outstanding pair belongs to a url that nobody fills any more, and its
\* count is the one of the call that inserted the url.
Leftover ==
  \A p \in latePairs :
    p[1] \in abandoned /\ qty[p[1]][p[2]] = 0 /\ p[3] = text[p[1]][p[2]]

\* Between finding or inserting a keyword and using it, the keyword stays.
KeywordKept ==
  /\ \A c \in Client : pc[c] = "insertPair" =>
       \A w \in todo[c] : IsNext(c, w) => w \in keywords
  /\ \A p \in latePairs : p[2] \in keywords

IndexInv ==
  /\ TypeOK /\ Owner /\ SoleOwner /\ Unborn /\ Leftover /\ KeywordKept
  /\ OneVersion /\ CompleteUnlessAbandoned

-------------------------------------------------------------------------------
(* Action and liveness properties *)

\* When no call is filling an indexed url and no statement of the call that
\* did is outstanding, its rows are final: no later call, restart or second
\* crawler changes or completes them.
RowsFinal ==
  [][\A l \in urls : ~InWork(l) /\ ~PairOutstanding(l) => qty'[l] = qty[l]]_vars

\* The index only grows, and a stored frequency is never altered.
OnlyGrows ==
  [][/\ urls \subseteq urls'
     /\ keywords \subseteq keywords'
     /\ \A l \in Link : \A w \in Word : qty[l][w] # 0 => qty'[l][w] = qty[l][w]]_vars

\* Every call of addLink ends, also one that had to wait for the row of
\* another client.
CallsEnd == \A c \in Client : pc[c] = "findUrl" ~> pc[c] \in {"idle", "failed"}
===============================================================================
