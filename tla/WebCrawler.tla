------------------------------ MODULE WebCrawler ------------------------------
(***************************************************************************)
(* The crawler process (Crawler/WebCrawler.cpp): main() spawns a pool of   *)
(* threads, pushes the start page and joins the pool; every thread runs    *)
(* doWork(), which takes links from the shared queue, downloads and        *)
(* indexes the page and queues the links found on it.                      *)
(*                                                                         *)
(* Three pieces of state are shared by the threads: the queue (a           *)
(* Safe_Queue, with its own inner mutex), the global `mutex` that doWork   *)
(* holds from before pop() until after the last push, and the database,    *)
(* here only its table of indexed urls (DB_Client has the other two).      *)
(* Note what the global mutex does not cover: the loop test queue.empty()  *)
(* and the push of the start page in main().                               *)
(*                                                                         *)
(* Environment: a download may fail (parse() returns false), any database  *)
(* call or a malformed link may throw (doWork has no handler, so the       *)
(* process dies), and the operator may end the process and start it again  *)
(* at any moment; only the database survives that.                         *)
(***************************************************************************)
EXTENDS Safe_Queue, Integers, FiniteSets

CONSTANTS
  Worker,          \* the pool, hardware_concurrency() threads (possibly none)
  NoWorker,        \* the owner of a free mutex
  Url,             \* the pages that exist
  StartPage,       \* Client.start_page
  RecursionDepth,  \* Client.recursion_depth, any int
  Links,           \* Links[u]: the links extractLink finds on page u, in order
  MaxRuns          \* bound: how many times the process may be started again

ASSUME CrawlerAssumption ==
  /\ NoWorker \notin Worker
  /\ StartPage \in Url
  /\ RecursionDepth \in Int
  /\ Links \in [Url -> Seq(Url)]
  /\ MaxRuns \in Nat

VARIABLES
  mutex,    \* the thread that holds the global std::mutex, or NoWorker
  pc,       \* where each pool thread is in doWork
  work,     \* the queue item each thread took last
  sub,      \* the links of that page a thread has still to look at
  mpc,      \* where main() is; "failed" when the process died
  urls,     \* the database: urls with a row in table urls
  runs,     \* restarts so far
  popped,   \* history: items taken from the queue by this process
  failed,   \* history: pages whose parse() returned false in this process
  prior     \* history: urls as they were when this process started

threadVars == <<pc, work, sub>>
historyVars == <<popped, failed, prior>>
vars == <<works, mutex, threadVars, mpc, urls, runs, historyVars>>

-------------------------------------------------------------------------------
(* Types *)

QueueItem == [url : Url, dept : Int]

FirstItem == [url |-> StartPage, dept |-> RecursionDepth]

\* The places of doWork at which the thread owns the global mutex.
Parsing  == {"parse", "add", "links", "push"}
Critical == {"pop", "wait", "unlock"} \cup Parsing
Place    == {"new", "test", "lock", "exit"} \cup Critical

\* The types: the queue holds items only, the database urls only, and the
\* counters stay within their bounds.
TypeOK ==
  /\ works \in Seq(QueueItem)
  /\ mutex \in Worker \cup {NoWorker}
  /\ pc \in [Worker -> Place]
  /\ work \in [Worker -> QueueItem]
  /\ sub \in [Worker -> Seq(Url)]
  /\ mpc \in {"connect", "spawn", "join", "done", "failed"}
  /\ urls \subseteq Url
  /\ runs \in 0..MaxRuns
  /\ popped \subseteq QueueItem
  /\ failed \subseteq Url
  /\ prior \subseteq Url

-------------------------------------------------------------------------------
(* main *)

Goto(w, place) == pc' = [pc EXCEPT ![w] = place]

\* A process begins with an empty queue and no threads.
Init ==
  /\ works = <<>>
  /\ mutex = NoWorker
  /\ pc = [w \in Worker |-> "new"]
  /\ work = [w \in Worker |-> FirstItem]
  /\ sub = [w \in Worker |-> <<>>]
  /\ mpc = "connect"
  /\ urls = {}
  /\ runs = 0
  /\ popped = {}
  /\ failed = {}
  /\ prior = {}

\* The settings are read and DB_Client's constructor creates the tables.
Connect ==
  /\ mpc = "connect"
  /\ mpc' = "spawn"
  /\ UNCHANGED <<works, mutex, threadVars, urls, runs, historyVars>>

\* An exception before the threads are joined ends main() and the process.
MainThrows ==
  /\ mpc \in {"connect", "spawn"}
  /\ mpc' = "failed"
  /\ UNCHANGED <<works, mutex, threadVars, urls, runs, historyVars>>

Spawn(w) ==
  /\ mpc = "spawn"
  /\ pc[w] = "new"
  /\ Goto(w, "test")
  /\ UNCHANGED <<works, mutex, work, sub, mpc, urls, runs, historyVars>>

PushFirst ==
  /\ mpc = "spawn"
  /\ \A w \in Worker : pc[w] # "new"
  /\ push(FirstItem)
  /\ mpc' = "join"
  /\ UNCHANGED <<mutex, threadVars, urls, runs, historyVars>>

Join ==
  /\ mpc = "join"
  /\ \A w \in Worker : pc[w] = "exit"
  /\ mpc' = "done"
  /\ UNCHANGED <<works, mutex, threadVars, urls, runs, historyVars>>

\* The operator ends the process, wherever it is, and starts it again.
Restart ==
  /\ runs < MaxRuns
  /\ runs' = runs + 1
  /\ works' = <<>>
  /\ mutex' = NoWorker
  /\ pc' = [w \in Worker |-> "new"]
  /\ work' = [w \in Worker |-> FirstItem]
  /\ sub' = [w \in Worker |-> <<>>]
  /\ mpc' = "connect"
  /\ popped' = {}
  /\ failed' = {}
  /\ prior' = urls
  /\ UNCHANGED urls

-------------------------------------------------------------------------------
(* doWork *)

Running == mpc # "failed"

\* The loop condition, read without the global mutex.
TestEmpty(w) ==
  /\ Running
  /\ pc[w] = "test"
  /\ Goto(w, IF empty THEN "exit" ELSE "lock")
  /\ UNCHANGED <<works, mutex, work, sub, mpc, urls, runs, historyVars>>

\* Mutant of Lock: the mutex is not waited for.
LockAnyway(w) ==
  /\ Running
  /\ pc[w] = "lock"
  /\ mutex' = w
  /\ Goto(w, "pop")
  /\ UNCHANGED <<works, work, sub, mpc, urls, runs, historyVars>>

Lock(w) ==
  /\ Running
  /\ pc[w] = "lock"
  /\ mutex = NoWorker
  /\ mutex' = w
  /\ Goto(w, "pop")
  /\ UNCHANGED <<works, work, sub, mpc, urls, runs, historyVars>>

\* queue.pop() finds an element, at once or when a sleeper wakes.
Pop(w) ==
  /\ Running
  /\ pc[w] \in {"pop", "wait"}
  /\ pop
  /\ work' = [work EXCEPT ![w] = front]
  /\ popped' = popped \cup {front}
  /\ Goto(w, "parse")
  /\ UNCHANGED <<mutex, sub, mpc, urls, runs, failed, prior>>

\* queue.pop() finds nothing: the thread sleeps inside cond_var.wait, which
\* releases the queue's inner mutex and not the global one.
Wait(w) ==
  /\ Running
  /\ pc[w] = "pop"
  /\ empty
  /\ Goto(w, "wait")
  /\ UNCHANGED <<works, mutex, work, sub, mpc, urls, runs, historyVars>>

\* parse(): a page with text that holds at least one word.
FetchOk(w) ==
  /\ Running
  /\ pc[w] = "parse"
  /\ Goto(w, "add")
  /\ UNCHANGED <<works, mutex, work, sub, mpc, urls, runs, historyVars>>

\* parse() returns false: no content, no text, or no word on the page.
FetchNothing(w) ==
  /\ Running
  /\ pc[w] = "parse"
  /\ failed' = failed \cup {work[w].url}
  /\ Goto(w, "unlock")
  /\ UNCHANGED <<works, mutex, work, sub, mpc, urls, runs, popped, prior>>

\* Mutant of AddLink: the host name is stored instead of the whole url.
AddLinkHost(w) ==
  /\ Running
  /\ pc[w] = "add"
  /\ urls' = urls \cup {"hostName"}
  /\ Goto(w, "links")
  /\ UNCHANGED <<works, mutex, work, sub, mpc, runs, historyVars>>

\* db.addLink: does nothing for a url that has a row already.  It gets
\* GetURL(), which is the queued url: UrlToLink splits a url of the form
\* LinkToURL builds and GetURL joins the parts again.  A start page of any
\* other form throws (Throw).
AddLink(w) ==
  /\ Running
  /\ pc[w] = "add"
  /\ urls' = urls \cup {work[w].url}
  /\ Goto(w, "links")
  /\ UNCHANGED <<works, mutex, work, sub, mpc, runs, historyVars>>

\* Mutants of ExtractLinks: one level too many, and the mutex given back before
\* the links are pushed.
ExtractLinksDeeper(w) ==
  /\ Running
  /\ pc[w] = "links"
  /\ IF work[w].dept >= 0
       THEN sub' = [sub EXCEPT ![w] = Links[work[w].url]] /\ Goto(w, "push")
       ELSE sub' = sub /\ Goto(w, "unlock")
  /\ UNCHANGED <<works, mutex, work, mpc, urls, runs, historyVars>>

ExtractLinksUnlocked(w) ==
  /\ Running
  /\ pc[w] = "links"
  /\ IF work[w].dept > 0
       THEN sub' = [sub EXCEPT ![w] = Links[work[w].url]] /\ Goto(w, "push")
       ELSE sub' = sub /\ Goto(w, "unlock")
  /\ mutex' = NoWorker
  /\ UNCHANGED <<works, work, mpc, urls, runs, historyVars>>

\* extractLink(), the end of parse(), and the test of the depth left.
ExtractLinks(w) ==
  /\ Running
  /\ pc[w] = "links"
  /\ IF work[w].dept > 0
       THEN sub' = [sub EXCEPT ![w] = Links[work[w].url]] /\ Goto(w, "push")
       ELSE sub' = sub /\ Goto(w, "unlock")
  /\ UNCHANGED <<works, mutex, work, mpc, urls, runs, historyVars>>

SubItem(w) == [url |-> Head(sub[w]), dept |-> work[w].dept - 1]

\* Mutant of PushSubLink: a link that is in the database is queued too.
PushSubLinkKnown(w) ==
  /\ Running
  /\ pc[w] = "push"
  /\ sub[w] # <<>>
  /\ push(SubItem(w))
  /\ sub' = [sub EXCEPT ![w] = Tail(@)]
  /\ UNCHANGED <<mutex, pc, work, mpc, urls, runs, historyVars>>

\* One round of the loop over the links of the page.
PushSubLink(w) ==
  /\ Running
  /\ pc[w] = "push"
  /\ sub[w] # <<>>
  /\ IF Head(sub[w]) \in urls THEN works' = works ELSE push(SubItem(w))
  /\ sub' = [sub EXCEPT ![w] = Tail(@)]
  /\ UNCHANGED <<mutex, pc, work, mpc, urls, runs, historyVars>>

\* Mutant of EndPush: the loop ends one link too early.
EndPushEarly(w) ==
  /\ Running
  /\ pc[w] = "push"
  /\ Len(sub[w]) <= 1
  /\ Goto(w, "unlock")
  /\ UNCHANGED <<works, mutex, work, sub, mpc, urls, runs, historyVars>>

EndPush(w) ==
  /\ Running
  /\ pc[w] = "push"
  /\ sub[w] = <<>>
  /\ Goto(w, "unlock")
  /\ UNCHANGED <<works, mutex, work, sub, mpc, urls, runs, historyVars>>

\* Mutants of Unlock: a thread that takes one link and leaves, and a loop
\* that goes round with the mutex held.
UnlockAndExit(w) ==
  /\ Running
  /\ pc[w] = "unlock"
  /\ mutex' = NoWorker
  /\ Goto(w, "exit")
  /\ UNCHANGED <<works, work, sub, mpc, urls, runs, historyVars>>

UnlockForgotten(w) ==
  /\ Running
  /\ pc[w] = "unlock"
  /\ Goto(w, "test")
  /\ UNCHANGED <<works, mutex, work, sub, mpc, urls, runs, historyVars>>

Unlock(w) ==
  /\ Running
  /\ pc[w] = "unlock"
  /\ mutex' = NoWorker
  /\ Goto(w, "test")
  /\ UNCHANGED <<works, work, sub, mpc, urls, runs, historyVars>>

\* An exception leaves doWork (a link without protocol or host, an empty
\* href, a database error): std::terminate ends the process.
Throw(w) ==
  /\ Running
  /\ pc[w] \in Parsing
  /\ mpc' = "failed"
  /\ UNCHANGED <<works, mutex, threadVars, urls, runs, historyVars>>

doWork(w) ==
  \/ TestEmpty(w) \/ Lock(w) \/ Pop(w) \/ Wait(w)
  \/ FetchOk(w) \/ FetchNothing(w) \/ AddLink(w) \/ ExtractLinks(w)
  \/ PushSubLink(w) \/ EndPush(w) \/ Unlock(w) \/ Throw(w)

main == Connect \/ MainThrows \/ PushFirst \/ Join \/ \E w \in Worker : Spawn(w)

Next == main \/ Restart \/ \E w \in Worker : doWork(w)

Spec == Init /\ [][Next]_vars

\* What the code drives by itself: main() and every thread keep running.
\* Throwing, restarting and waking spuriously are never obliged to happen,
\* and neither is the answer of a remote server: the blocking http::read of
\* getContent has no timeout (expires_after bounds asynchronous calls only).
mainRuns == Connect \/ PushFirst \/ Join \/ \E w \in Worker : Spawn(w)

threadRuns(w) ==
  \/ TestEmpty(w) \/ Lock(w) \/ (pc[w] = "pop" /\ Pop(w)) \/ Wait(w)
  \/ AddLink(w) \/ ExtractLinks(w) \/ PushSubLink(w) \/ EndPush(w) \/ Unlock(w)

FairSpec == Spec /\ WF_vars(mainRuns) /\ \A w \in Worker : WF_vars(threadRuns(w))

\* Every remote server answers, or its connection breaks.
ServersAnswer == \A w \in Worker : WF_vars(FetchOk(w) \/ FetchNothing(w))

AnsweredSpec == FairSpec /\ ServersAnswer

-------------------------------------------------------------------------------
(* Reachability in the graph of links *)

\* p follows links from the start page in k hops, and every page it leaves
\* from is outside `avoid`.
IsTrail(p, k, avoid) ==
  /\ p[0] = StartPage
  /\ \A i \in 0..(k - 1) :
       /\ p[i] \notin avoid
       /\ \E j \in DOMAIN Links[p[i]] : p[i + 1] = Links[p[i]][j]

\* The pages at most n hops from the start page, leaving no page of `avoid`.
Within(n, avoid) ==
  {u \in Url : \E k \in 0..n : \E p \in [0..k -> Url] :
                 IsTrail(p, k, avoid) /\ p[k] = u}

\* How far the code goes: doWork follows the links of a page "if its depth is
\* not 0 yet", so an item of depth d leads d hops further, and a depth of zero
\* or less still visits the start page.  The project description counts one
\* level less, see ReadmeDepth.
MaxHops == IF RecursionDepth > 0 THEN RecursionDepth ELSE 0

-------------------------------------------------------------------------------
(* Safety *)

\* Whatever is between lock() and unlock() in doWork runs in one thread at a
\* time, and the thread that runs it is the recorded owner of the mutex.
MutexInv == \A w \in Worker : pc[w] \in Critical <=> mutex = w

\* A thread that sleeps in pop() sleeps over an empty queue: it got there
\* because another thread took the item its loop condition had seen, and it
\* keeps every other thread from pushing since it sleeps with the mutex held.
SleeperSeesNothing == \A w \in Worker : pc[w] = "wait" => empty

\* Once the pool has taken the first item, no queued link is left without a
\* thread: threads leave doWork while others still collect links, and yet the
\* process never ends with links in its queue.
NoAbandonedLinks ==
  popped # {} /\ ~empty => \E w \in Worker : pc[w] \notin {"new", "exit"}

\* The queue holds at most two levels of the crawl, the nearer one first, and
\* the page in work is at the nearer one, so pages are taken in breadth-first
\* order although several threads take them.
BreadthFirst ==
  /\ \A i, j \in DOMAIN works :
       i < j => works[j].dept \in {works[i].dept, works[i].dept - 1}
  /\ \A w \in Worker : pc[w] \in Parsing =>
       \A i \in DOMAIN works : works[i].dept \in {work[w].dept, work[w].dept - 1}

\* A position of the crawl: a page and the depth left when it was found.
Position(item) ==
  /\ RecursionDepth - item.dept \in 0..MaxHops
  /\ item.url \in Within(RecursionDepth - item.dept, {})

\* Depth accounting, by doWork's own count: the page of an item is no farther
\* from the start page than the RecursionDepth - dept hops the item has used
\* up, and a page this process indexed is at most MaxHops hops away.  That this
\* is one hop more than the project description allows is ReadmeDepth.
DepthRespected ==
  /\ \A item \in popped : Position(item)
  /\ urls \ prior \subseteq Within(MaxHops, {})

\* A crawl that ran to its end has every page in the database as far as doWork's
\* count goes, MaxHops hops, and so every page the project description asks for,
\* but for what lies behind a failed download or, since doWork leaves out links
\* that are stored, behind a page an earlier run has stored (its own start page
\* is always expanded).
CrawlComplete ==
  mpc = "done" /\ popped # {} =>
    Within(MaxHops, failed \cup (prior \ {StartPage})) \ failed \subseteq urls

\* What the project description says of the recursion depth: with 1 the crawler
\* analyses the start page only, with 2 the pages it links to as well.
ReadmeDepth == urls \ prior \subseteq Within(RecursionDepth - 1, {})

-------------------------------------------------------------------------------
(* The inductive invariant behind the safety properties *)

\* Until main() pushes the start page there is nothing to take, so no thread
\* has come past its first loop test.
MainFirst ==
  mpc \in {"connect", "spawn"} =>
    /\ empty
    /\ popped = {}
    /\ \A w \in Worker : pc[w] \in {"new", "test", "exit"}

\* Every item in the queue or in work is a position of the crawl, and the
\* links in work are links of the page in work, which may be left.
ItemsReached ==
  /\ \A i \in DOMAIN works : Position(works[i])
  /\ \A w \in Worker :
       /\ pc[w] \in Parsing => Position(work[w])
       /\ pc[w] = "push" =>
            /\ work[w].dept > 0
            /\ \A k \in DOMAIN sub[w] : \E j \in DOMAIN Links[work[w].url] :
                 sub[w][k] = Links[work[w].url][j]

-------------------------------------------------------------------------------
(* The pool implements the crawl without threads (Crawl) *)

\* The links of a page, without their order.
LinkSet == [u \in Url |-> {Links[u][i] : i \in DOMAIN Links[u]}]

\* What a thread has in hand that is not in the queue: the item it has not
\* indexed yet, or the links of the indexed page it has still to push.
InHand(w) ==
  CASE pc[w] \in {"parse", "add"} -> {work[w]}
    [] pc[w] = "links" /\ work[w].dept > 0 ->
         {[url |-> l, dept |-> work[w].dept - 1] : l \in LinkSet[work[w].url] \ urls}
    [] pc[w] = "push" ->
         {[url |-> l, dept |-> work[w].dept - 1] :
            l \in {sub[w][i] : i \in DOMAIN sub[w]} \ urls}
    [] OTHER -> {}

ToVisit == {works[i] : i \in DOMAIN works} \cup UNION {InHand(w) : w \in Worker}

CrawlState ==
  CASE mpc \in {"connect", "spawn"} -> "new"
    [] mpc = "join" -> IF popped = {} THEN "begun" ELSE "running"
    [] mpc = "done" -> "ended"
    [] mpc = "failed" -> "dead"

C == INSTANCE Crawl WITH
       LinksOf <- LinkSet, todo <- ToVisit, indexed <- urls, state <- CrawlState

\* Seen from outside, the pool is one crawler that visits pages level by
\* level: whatever the threads interleave, no link of a visited page is lost
\* or made up between doWork's steps, a page is in the database before its
\* links are followed, and a crawl that began ends with nothing left to visit.
ImplementsCrawl == C!Spec

-------------------------------------------------------------------------------
(* Action and liveness properties *)

\* Nothing inside the process wakes a thread that sleeps in pop(): it sleeps
\* until the process is ended from outside.
SleepIsForever ==
  [][runs' = runs => \A w \in Worker : pc[w] = "wait" => pc'[w] = "wait"]_vars

\* Left alone the process settles: it ends, dies, or from some moment on has
\* a thread asleep in pop() or waiting for a remote server.
CrawlSettles ==
  <>[](\/ mpc \in {"done", "failed"}
       \/ \E w \in Worker : pc[w] \in {"wait", "parse"})

\* The only thread left, when it is not about to find the queue emptied
\* under it, brings the crawl to its end by itself, if the servers answer and
\* the operator does not interfere.
SoleWorkerFinishes ==
  ServersAnswer =>
    \A w \in Worker :
      (/\ pc[w] \in Place \ {"new", "wait", "exit"}
       /\ pc[w] \in {"lock", "pop"} => ~empty
       /\ \A v \in Worker \ {w} : pc[v] = "exit"
       /\ mpc = "join"
       /\ runs = MaxRuns)
      ~> mpc \in {"done", "failed"}

\* The crawl is not endless: the process ends.
CrawlEnds == <>(mpc \in {"done", "failed"})
===============================================================================
