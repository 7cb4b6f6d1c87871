------------------------------ MODULE CrawlProofs ------------------------------
(***************************************************************************)
(* The pool of threads implements the crawl without threads (Crawl), for   *)
(* every pool, site, start page and depth.                                 *)
(***************************************************************************)
EXTENDS WebCrawlerProofs, WellFoundedInduction

\* What the simulation needs beside the order of the queue: a thread is past
\* its first test of the queue only between main()'s push and its return, and
\* a page in work was taken.
RunInv ==
  /\ OrderInv
  /\ mpc = "done" => \A w \in Worker : pc[w] = "exit"
  /\ \A w \in Worker : pc[w] \in Parsing => popped # {}

LEMMA RunInvInit == Init => RunInv
BY PoolInvInit DEF RunInv, OrderInv, Init, BreadthFirst, Parsing

LEMMA RunInvStep == RunInv /\ [Next]_vars => RunInv'
<1> SUFFICES ASSUME RunInv, [Next]_vars PROVE RunInv'
  OBVIOUS
<1>0. OrderInv'
  BY PoolInvStep, BreadthFirstStep DEF RunInv, OrderInv
<1>1. pc \in [Worker -> Place] /\ MainFirst
  BY DEF RunInv, OrderInv, PoolInv, TypeOK
<1> USE <1>1 DEF RunInv, Goto, Parsing
<1>2. CASE main
  BY <1>0, <1>2 DEF main, Connect, MainThrows, PushFirst, Join, Spawn, threadVars,
                    historyVars
<1>3. CASE Restart
  BY <1>0, <1>3 DEF Restart
<1>4. ASSUME NEW w \in Worker, doWork(w) PROVE RunInv'
  <2>1. mpc' # "done" \/ (mpc = "done" /\ mpc' = mpc)
    BY <1>4 DEF doWork, TestEmpty, Lock, Pop, Wait, FetchOk, FetchNothing, AddLink,
                ExtractLinks, PushSubLink, EndPush, Unlock, Throw
  <2>2. pc[w] # "exit"
    BY <1>4 DEF doWork, TestEmpty, Lock, Pop, Wait, FetchOk, FetchNothing, AddLink,
                ExtractLinks, PushSubLink, EndPush, Unlock, Throw
  <2>3. \A v \in Worker : pc'[v] \in Parsing => popped' # {}
    BY <1>4 DEF doWork, TestEmpty, Lock, Pop, Wait, FetchOk, FetchNothing, AddLink,
                ExtractLinks, PushSubLink, EndPush, Unlock, Throw, threadVars,
                historyVars
  <2> QED BY <1>0, <2>1, <2>2, <2>3
<1>5. CASE UNCHANGED vars
  BY <1>0, <1>5 DEF vars, threadVars, historyVars
<1> QED BY <1>2, <1>3, <1>4, <1>5 DEF Next

-------------------------------------------------------------------------------
(* The positions to visit *)

Elements(s) == {s[i] : i \in DOMAIN s}

Queued == Elements(works)

\* The positions one level below the page of item for the links of a set.
Below(item, links) == {[url |-> l, dept |-> item.dept - 1] : l \in links}

\* InHand, place by place.
HandFacts ==
  \A w \in Worker :
    /\ pc[w] \in {"parse", "add"} => InHand(w) = {work[w]}
    /\ pc[w] = "links" /\ work[w].dept > 0 =>
         InHand(w) = Below(work[w], LinkSet[work[w].url] \ urls)
    /\ pc[w] = "links" /\ ~(work[w].dept > 0) => InHand(w) = {}
    /\ pc[w] = "push" =>
         InHand(w) = Below(work[w], Elements(sub[w]) \ urls)
    /\ pc[w] \notin Parsing => InHand(w) = {}

LEMMA HandByPlace == HandFacts /\ HandFacts'
<1>1. HandFacts
  BY Zenon DEF HandFacts, InHand, Parsing, Below, Elements
<1> QED BY <1>1, PTL

\* The thread in the critical section is the only one with something in hand,
\* and outside of it nobody has anything.
VisitFacts ==
  /\ \A w \in Worker : pc[w] \in Critical => ToVisit = Queued \cup InHand(w)
  /\ (\A w \in Worker : pc[w] \notin Parsing) => ToVisit = Queued

LEMMA VisitByPlace == RunInv => VisitFacts
<1> SUFFICES ASSUME RunInv PROVE VisitFacts
  OBVIOUS
<1>0. MutexInv BY DEF RunInv, OrderInv, PoolInv
<1>1. ASSUME NEW w \in Worker, pc[w] \in Critical
      PROVE  ToVisit = Queued \cup InHand(w)
  <2>1. ASSUME NEW v \in Worker, v # w PROVE InHand(v) = {}
    <3>1. pc[v] \notin Parsing
      BY <1>0, <1>1, <2>1 DEF MutexInv, Critical
    <3> QED BY <3>1, HandByPlace, Zenon DEF HandFacts
  <2> QED BY <2>1, Zenon DEF ToVisit, Queued, Elements
<1>2. ASSUME \A w \in Worker : pc[w] \notin Parsing
      PROVE  ToVisit = Queued
  <2>1. ASSUME NEW v \in Worker PROVE InHand(v) = {}
    BY <1>2, HandByPlace, Zenon DEF HandFacts
  <2> QED BY <2>1, Zenon DEF ToVisit, Queued, Elements
<1> QED BY <1>1, <1>2, Zenon DEF VisitFacts

LEMMA VisitByPlaceNext == RunInv' => VisitFacts'
BY VisitByPlace, PTL

-------------------------------------------------------------------------------
(* The simulation *)

StateFacts ==
  /\ mpc \in {"connect", "spawn"} => CrawlState = "new"
  /\ mpc = "join" /\ popped = {} => CrawlState = "begun"
  /\ mpc = "join" /\ popped # {} => CrawlState = "running"
  /\ mpc = "done" => CrawlState = "ended"
  /\ mpc = "failed" => CrawlState = "dead"

LEMMA StateByPlace == StateFacts /\ StateFacts'
<1>1. StateFacts
  BY Zenon DEF StateFacts, CrawlState
<1> QED BY <1>1, PTL

\* The elements of a sequence are its head and the elements of its tail.
LEMMA HeadAndTail ==
  ASSUME NEW S, NEW s \in Seq(S), s # <<>>
  PROVE  Elements(s) = {Head(s)} \cup Elements(Tail(s))
<1>1. /\ 1 \in DOMAIN s /\ Head(s) = s[1]
      /\ \A i \in DOMAIN Tail(s) : i + 1 \in DOMAIN s /\ Tail(s)[i] = s[i + 1]
      /\ \A i \in DOMAIN s : i = 1 \/ (i - 1 \in DOMAIN Tail(s) /\ Tail(s)[i - 1] = s[i])
  OBVIOUS
<1>2. ASSUME NEW i \in DOMAIN s
      PROVE  s[i] \in {Head(s)} \cup {Tail(s)[j] : j \in DOMAIN Tail(s)}
  BY <1>1
<1>3. ASSUME NEW i \in DOMAIN Tail(s) PROVE Tail(s)[i] \in {s[j] : j \in DOMAIN s}
  BY <1>1
<1>4. Head(s) \in {s[j] : j \in DOMAIN s}
  BY <1>1
<1> QED BY <1>2, <1>3, <1>4, Zenon DEF Elements

\* The elements after a push.
LEMMA AppendElements ==
  ASSUME NEW S, NEW s \in Seq(S), NEW e \in S
  PROVE  Elements(Append(s, e)) = Elements(s) \cup {e}
<1> DEFINE t == Append(s, e)
<1>1. /\ DOMAIN s = 1..Len(s) /\ Len(s) \in Nat
      /\ DOMAIN t = 1..(Len(s) + 1)
      /\ \A i \in DOMAIN s : i \in DOMAIN t /\ t[i] = s[i]
      /\ Len(s) + 1 \in DOMAIN t /\ t[Len(s) + 1] = e
      /\ \A i \in DOMAIN t : i = Len(s) + 1 \/ i \in DOMAIN s
  OBVIOUS
<1> HIDE DEF t
<1>2. Elements(t) = Elements(s) \cup {e}
  BY <1>1 DEF Elements
<1> QED BY <1>2 DEF t

\* Every step of the pool is a step of the crawl without threads, or none.
LEMMA Simulation == RunInv /\ RunInv' /\ [Next]_vars => [C!Next]_(C!vars)
<1> SUFFICES ASSUME RunInv, RunInv', [Next]_vars PROVE [C!Next]_(C!vars)
  OBVIOUS
<1>0. /\ works \in Seq(QueueItem)
      /\ pc \in [Worker -> Place]
      /\ work \in [Worker -> QueueItem]
      /\ sub \in [Worker -> Seq(Url)]
      /\ MainFirst
      /\ BreadthFirst
      /\ NoAbandonedLinks
  BY DEF RunInv, OrderInv, PoolInv, TypeOK
<1>a. VisitFacts /\ VisitFacts' /\ HandFacts /\ HandFacts' /\ StateFacts /\ StateFacts'
  BY VisitByPlace, VisitByPlaceNext, HandByPlace, StateByPlace
\* A thread past its first test runs after main()'s push and before its return.
<1>b. ASSUME NEW w \in Worker, Running, pc[w] \in Critical PROVE mpc = "join"
  BY <1>0, <1>b DEF RunInv, OrderInv, PoolInv, TypeOK, MainFirst, Running, Critical, Parsing
\* Nothing in the queue is above the page in work.
<1>f. ASSUME NEW w \in Worker, pc[w] \in Parsing
      PROVE  \A item \in Queued : item.dept <= work[w].dept
  <2> SUFFICES ASSUME NEW i \in DOMAIN works PROVE works[i].dept <= work[w].dept
    BY DEF Queued, Elements
  <2>1. works[i] \in QueueItem /\ work[w] \in QueueItem
    BY <1>0
  <2>2. works[i].dept \in Int /\ work[w].dept \in Int
    BY <2>1 DEF QueueItem
  <2>3. works[i].dept \in {work[w].dept, work[w].dept - 1}
    BY <1>0, <1>f, Zenon DEF BreadthFirst
  <2> QED BY <2>2, <2>3
\* Steps that move no thread into, out of or inside the page's part of doWork.
<1>c. ASSUME works' = works, work' = work, sub' = sub, urls' = urls,
             \A w \in Worker : \/ pc'[w] = pc[w]
                               \/ pc[w] \notin Parsing /\ pc'[w] \notin Parsing
                               \/ pc[w] = "parse" /\ pc'[w] = "add"
      PROVE  ToVisit' = ToVisit
  <2>1. ASSUME NEW w \in Worker PROVE InHand(w)' = InHand(w)
    <3>1. CASE pc'[w] = pc[w]
      BY <1>c, <3>1, Zenon DEF InHand
    <3>2. CASE pc[w] \notin Parsing /\ pc'[w] \notin Parsing
      BY <1>a, <3>2, Zenon DEF HandFacts
    <3>3. CASE pc[w] = "parse" /\ pc'[w] = "add"
      <4>1. InHand(w) = {work[w]}
        BY <1>a, <3>3 DEF HandFacts
      <4>2. InHand(w)' = {work[w]}
        BY <1>a, <1>c, <3>3 DEF HandFacts
      <4> QED BY <4>1, <4>2
    <3> QED BY <1>c, <3>1, <3>2, <3>3
  <2> QED BY <1>c, <2>1, Zenon DEF ToVisit
<1>d. ASSUME mpc' = mpc, popped' = popped PROVE CrawlState' = CrawlState
  BY <1>d, Zenon DEF CrawlState
<1>e. ASSUME ToVisit' = ToVisit, urls' = urls, CrawlState' = CrawlState
      PROVE  [C!Next]_(C!vars)
  BY <1>e, Zenon DEF C!vars
<1> HIDE DEF CrawlState, ToVisit, InHand
<1>1. CASE Connect
  <2>1. ToVisit' = ToVisit /\ urls' = urls
    BY <1>1, <1>c DEF Connect, threadVars
  <2>2. CrawlState' = CrawlState
    BY <1>1, <1>a DEF Connect, StateFacts
  <2> QED BY <1>e, <2>1, <2>2
<1>2. CASE MainThrows
  <2>1. ToVisit' = ToVisit /\ urls' = urls
    BY <1>2, <1>c DEF MainThrows, threadVars
  <2>2. CrawlState = "new" /\ CrawlState' = "dead"
    BY <1>2, <1>a DEF MainThrows, StateFacts
  <2> QED BY <2>1, <2>2 DEF C!Next, C!Die
<1>3. CASE PushFirst
  <2>1. works = <<>> /\ popped = {} /\ \A w \in Worker : pc[w] \notin Parsing
    BY <1>0, <1>3 DEF PushFirst, MainFirst, empty, Parsing
  <2>2. works' = <<FirstItem>> /\ popped' = {} /\ pc' = pc /\ urls' = urls
    BY <1>3, <2>1 DEF PushFirst, push, threadVars, historyVars
  <2>3. ToVisit' = {FirstItem}
    <3>1. Queued' = {FirstItem}
      BY <2>2 DEF Queued, Elements
    <3> QED BY <1>a, <2>1, <2>2, <3>1 DEF VisitFacts
  <2>4. CrawlState = "new" /\ CrawlState' = "begun"
    BY <1>3, <1>a, <2>2 DEF PushFirst, StateFacts
  <2> QED BY <2>2, <2>3, <2>4 DEF C!Next, C!Begin, C!First, FirstItem
<1>4. CASE Join
  <2>1. ToVisit' = ToVisit /\ urls' = urls
    BY <1>4, <1>c DEF Join, threadVars
  <2>2. CrawlState' = "ended"
    BY <1>4, <1>a DEF Join, StateFacts
  <2>3. CASE popped = {}
    BY <1>4, <1>a, <2>1, <2>2, <2>3 DEF Join, StateFacts, C!Next, C!End
  <2>4. CASE popped # {}
    <3>1. works = <<>>
      BY <1>0, <1>4, <2>4 DEF Join, NoAbandonedLinks, empty
    <3>2. ToVisit = Queued
      BY <1>a, <1>4 DEF Join, VisitFacts, Parsing
    <3>3. ToVisit = {}
      BY <3>1, <3>2 DEF Queued, Elements
    <3>4. CrawlState = "running"
      BY <1>4, <1>a, <2>4 DEF Join, StateFacts
    <3> QED BY <2>1, <2>2, <3>3, <3>4 DEF C!Next, C!End
  <2> QED BY <2>3, <2>4
<1>5. CASE Restart
  <2>1. CrawlState' = "new" /\ urls' = urls
    BY <1>5, <1>a DEF Restart, StateFacts
  <2>2. ToVisit' = Queued'
    BY <1>5, <1>a DEF Restart, VisitFacts, Parsing
  <2>3. Queued' = {}
    BY <1>5 DEF Restart, Queued, Elements
  <2> QED BY <2>1, <2>2, <2>3 DEF C!Next, C!Restart
<1>6. ASSUME NEW w \in Worker, Spawn(w) PROVE [C!Next]_(C!vars)
  <2>1. ToVisit' = ToVisit /\ urls' = urls
    BY <1>0, <1>6, <1>c DEF Spawn, Goto, Parsing
  <2> QED BY <1>6, <1>d, <1>e, <2>1 DEF Spawn, historyVars
<1>7. ASSUME NEW w \in Worker, doWork(w) PROVE [C!Next]_(C!vars)
  <2>1. CASE TestEmpty(w) \/ Lock(w) \/ Wait(w) \/ FetchOk(w) \/ Unlock(w)
    <3>1. UNCHANGED <<works, work, sub, urls, mpc, popped>>
      BY <2>1 DEF TestEmpty, Lock, Wait, FetchOk, Unlock, historyVars
    <3>2. ToVisit' = ToVisit
      BY <1>0, <1>c, <2>1, <3>1
         DEF TestEmpty, Lock, Wait, FetchOk, Unlock, Goto, Parsing
    <3> QED BY <1>d, <1>e, <3>1, <3>2
  <2>2. CASE Pop(w)
    <3>1. /\ works # <<>> /\ works' = Tail(works) /\ urls' = urls /\ mpc' = mpc
          /\ work'[w] = Head(works) /\ popped' = popped \cup {Head(works)}
          /\ pc[w] \in Critical /\ pc[w] \notin Parsing /\ pc'[w] = "parse"
          /\ mpc = "join"
      BY <1>0, <1>b, <2>2 DEF Pop, pop, front, empty, Goto, Critical, Parsing
    <3>2. ToVisit = Queued
      BY <1>a, <3>1 DEF VisitFacts, HandFacts
    <3>3. ToVisit' = Queued' \cup {Head(works)}
      BY <1>a, <3>1 DEF VisitFacts, HandFacts, Critical, Parsing
    <3>4. Queued = {Head(works)} \cup Queued'
      <4>1. Queued' = Elements(Tail(works))
        BY <3>1, Zenon DEF Queued
      <4> QED BY <1>0, <3>1, <4>1, HeadAndTail DEF Queued
    <3>5. ToVisit' = ToVisit
      BY <3>2, <3>3, <3>4
    <3>6. CASE popped = {}
      <4>1. CrawlState = "begun" /\ CrawlState' = "running"
        BY <1>a, <3>1, <3>6 DEF StateFacts
      <4> QED BY <3>1, <3>5, <4>1 DEF C!Next, C!Take
    <3>7. CASE popped # {}
      <4>1. CrawlState = "running" /\ CrawlState' = "running"
        BY <1>a, <3>1, <3>7 DEF StateFacts
      <4> QED BY <1>e, <3>1, <3>5, <4>1
    <3> QED BY <3>6, <3>7
  <2>3. CASE FetchNothing(w)
    <3>1. /\ pc[w] = "parse" /\ pc'[w] = "unlock" /\ works' = works /\ urls' = urls
          /\ mpc' = mpc /\ popped' = popped /\ mpc = "join" /\ popped # {}
      BY <1>0, <1>b, <2>3 DEF FetchNothing, Goto, Critical, Parsing, RunInv
    <3>2. ToVisit = Queued \cup {work[w]}
      BY <1>a, <3>1 DEF VisitFacts, HandFacts, Critical, Parsing
    <3>3. ToVisit' = Queued
      <4>1. ToVisit' = Queued'
        BY <1>a, <3>1 DEF VisitFacts, HandFacts, Critical, Parsing
      <4> QED BY <3>1, <4>1 DEF Queued
    <3>4. CrawlState = "running" /\ CrawlState' = "running"
      BY <1>a, <3>1 DEF StateFacts
    <3>5. C!Current(work[w])
      <4>1. \A item \in Queued : item.dept <= work[w].dept
        BY <1>f, <3>1 DEF Parsing
      <4>2. work[w].dept <= work[w].dept
        BY <1>0 DEF QueueItem
      <4>3. \A other \in ToVisit : other.dept <= work[w].dept
        BY <3>2, <4>1, <4>2
      <4> QED BY <3>2, <3>4, <4>3 DEF C!Current
    <3>6. ToVisit' \in C!Remaining(work[w])
      BY <3>2, <3>3 DEF C!Remaining
    <3>7. C!Miss(work[w])
      BY <3>1, <3>4, <3>5, <3>6 DEF C!Miss
    <3> QED BY <3>2, <3>7 DEF C!Next
  <2>4. CASE AddLink(w)
    <3>1. /\ pc[w] = "add" /\ pc'[w] = "links" /\ works' = works /\ work' = work
          /\ urls' = urls \cup {work[w].url}
          /\ mpc' = mpc /\ popped' = popped /\ mpc = "join" /\ popped # {}
      BY <1>0, <1>b, <2>4 DEF AddLink, Goto, Critical, Parsing, RunInv, historyVars
    <3>2. ToVisit = Queued \cup {work[w]}
      BY <1>a, <3>1 DEF VisitFacts, HandFacts, Critical, Parsing
    <3>3. CrawlState = "running" /\ CrawlState' = "running"
      BY <1>a, <3>1 DEF StateFacts
    <3>4. C!Current(work[w])
      <4>1. \A item \in Queued : item.dept <= work[w].dept
        BY <1>f, <3>1 DEF Parsing
      <4>2. work[w].dept <= work[w].dept
        BY <1>0 DEF QueueItem
      <4>3. \A other \in ToVisit : other.dept <= work[w].dept
        BY <3>2, <4>1, <4>2
      <4> QED BY <3>2, <3>3, <4>3 DEF C!Current
    <3>5. Queued \in C!Remaining(work[w])
      BY <3>2 DEF C!Remaining
    <3>6. ToVisit' = Queued \cup C!Found(work[w])
      <4>1. ToVisit' = Queued' \cup InHand(w)'
        BY <1>a, <3>1 DEF VisitFacts, Critical, Parsing
      <4>2. InHand(w)' = C!Found(work[w])
        <5>1. CASE work[w].dept > 0
          <6>1. InHand(w)' = Below(work[w], LinkSet[work[w].url] \ urls')
            <7>1. InHand(w)' = Below(work[w], LinkSet[work[w].url] \ urls)'
              BY <1>a, <3>1, <5>1 DEF HandFacts
            <7> QED BY <3>1, <7>1 DEF LinkSet
          <6> QED BY <5>1, <6>1, Zenon DEF C!Found, Below
        <5>2. CASE ~(work[w].dept > 0)
          BY <1>a, <3>1, <5>2, Zenon DEF HandFacts, C!Found
        <5> QED BY <5>1, <5>2
      <4> QED BY <3>1, <4>1, <4>2 DEF Queued
    <3>7. C!Visit(work[w])
      BY <3>1, <3>3, <3>4, <3>5, <3>6 DEF C!Visit
    <3> QED BY <3>2, <3>7 DEF C!Next
  <2>5. CASE ExtractLinks(w)
    <3>1. /\ pc[w] = "links" /\ pc'[w] \in {"push", "unlock"}
          /\ works' = works /\ work' = work /\ urls' = urls
          /\ mpc' = mpc /\ popped' = popped
          /\ work[w].dept > 0 => pc'[w] = "push" /\ sub'[w] = Links[work[w].url]
          /\ ~(work[w].dept > 0) => pc'[w] = "unlock"
      BY <1>0, <2>5 DEF ExtractLinks, Goto, historyVars
    <3>2. InHand(w)' = InHand(w)
      <4>1. CASE work[w].dept > 0
        <5>1. LinkSet[work[w].url] = Elements(sub'[w])
          BY <1>0, <3>1, <4>1 DEF LinkSet, QueueItem, Elements
        <5>2. InHand(w) = Below(work[w], LinkSet[work[w].url] \ urls)
          BY <1>a, <3>1, <4>1 DEF HandFacts
        <5>3. InHand(w)' = Below(work[w], Elements(sub[w]) \ urls)'
          BY <1>a, <3>1, <4>1 DEF HandFacts
        <5> QED BY <3>1, <5>1, <5>2, <5>3 DEF Below
      <4>2. CASE ~(work[w].dept > 0)
        BY <1>a, <3>1, <4>2 DEF HandFacts, Parsing
      <4> QED BY <4>1, <4>2
    <3>3. ToVisit = Queued \cup InHand(w) /\ ToVisit' = Queued' \cup InHand(w)'
      BY <1>a, <3>1 DEF VisitFacts, Critical, Parsing
    <3>4. Queued' = Queued
      BY <3>1 DEF Queued
    <3> QED BY <1>d, <1>e, <3>1, <3>2, <3>3, <3>4
  <2>6. CASE PushSubLink(w)
    <3> DEFINE Rest == Elements(Tail(sub[w]))
    <3>1. /\ pc[w] = "push" /\ pc' = pc /\ work' = work /\ urls' = urls
          /\ sub[w] # <<>> /\ sub'[w] = Tail(sub[w])
          /\ mpc' = mpc /\ popped' = popped
          /\ IF Head(sub[w]) \in urls
               THEN works' = works ELSE works' = Append(works, SubItem(w))
      BY <1>0, <2>6 DEF PushSubLink, push, historyVars
    <3>2. Elements(sub[w]) = {Head(sub[w])} \cup Rest
      BY <1>0, <3>1, HeadAndTail
    <3>3. ToVisit = Queued \cup Below(work[w], ({Head(sub[w])} \cup Rest) \ urls)
      BY <1>a, <3>1, <3>2 DEF VisitFacts, HandFacts, Critical, Parsing
    <3>4. ToVisit' = Queued' \cup Below(work[w], Rest \ urls)
      <4>1. ToVisit' = Queued' \cup InHand(w)'
        BY <1>a, <3>1 DEF VisitFacts, Critical, Parsing
      <4>2. InHand(w)' = Below(work[w], Elements(sub[w]) \ urls)'
        BY <1>a, <3>1 DEF HandFacts
      <4> QED BY <3>1, <4>1, <4>2, Zenon DEF Below
    <3>5. ToVisit' = ToVisit
      <4>1. CASE Head(sub[w]) \in urls
        <5>1. Queued' = Queued
          BY <3>1, <4>1 DEF Queued
        <5>2. ({Head(sub[w])} \cup Rest) \ urls = Rest \ urls
          BY <4>1
        <5> QED BY <3>3, <3>4, <5>1, <5>2
      <4>2. CASE Head(sub[w]) \notin urls
        <5>1. Head(sub[w]) \in Url /\ SubItem(w) \in QueueItem
          BY <1>0, <3>1 DEF SubItem, QueueItem
        <5>2. Queued' = Queued \cup {SubItem(w)}
          <6>1. Queued' = Elements(Append(works, SubItem(w)))
            BY <3>1, <4>2, Zenon DEF Queued
          <6> QED BY <1>0, <5>1, <6>1, AppendElements DEF Queued
        <5>3. Below(work[w], ({Head(sub[w])} \cup Rest) \ urls) =
                {SubItem(w)} \cup Below(work[w], Rest \ urls)
          BY <4>2 DEF Below, SubItem
        <5> QED BY <3>3, <3>4, <5>2, <5>3
      <4> QED BY <4>1, <4>2
    <3> QED BY <1>d, <1>e, <3>1, <3>5
  <2>7. CASE EndPush(w)
    <3>1. /\ pc[w] = "push" /\ pc'[w] = "unlock" /\ sub[w] = <<>>
          /\ works' = works /\ urls' = urls /\ mpc' = mpc /\ popped' = popped
      BY <1>0, <2>7 DEF EndPush, Goto, historyVars
    <3>2. InHand(w) = {}
      <4>1. Elements(sub[w]) = {}
        BY <3>1 DEF Elements
      <4> QED BY <1>a, <3>1, <4>1 DEF HandFacts, Below
    <3>3. InHand(w)' = {}
      BY <1>a, <3>1 DEF HandFacts, Parsing
    <3>4. ToVisit = Queued \cup InHand(w) /\ ToVisit' = Queued' \cup InHand(w)'
      BY <1>a, <3>1 DEF VisitFacts, Critical, Parsing
    <3>5. Queued' = Queued
      BY <3>1 DEF Queued
    <3> QED BY <1>d, <1>e, <3>1, <3>2, <3>3, <3>4, <3>5
  <2>8. CASE Throw(w)
    <3>1. /\ mpc = "join" /\ popped # {} /\ mpc' = "failed" /\ urls' = urls
      BY <1>b, <2>8 DEF Throw, Critical, RunInv
    <3>2. ToVisit' = ToVisit
      BY <1>c, <2>8 DEF Throw, threadVars
    <3>3. CrawlState = "running" /\ CrawlState' = "dead"
      BY <1>a, <3>1 DEF StateFacts
    <3> QED BY <3>1, <3>2, <3>3 DEF C!Next, C!Die
  <2> QED BY <1>7, <2>1, <2>2, <2>3, <2>4, <2>5, <2>6, <2>7, <2>8 DEF doWork
<1>8. CASE UNCHANGED vars
  <2>1. ToVisit' = ToVisit /\ urls' = urls
    BY <1>8, <1>c DEF vars, threadVars
  <2> QED BY <1>8, <1>d, <1>e, <2>1 DEF vars, historyVars
<1> QED
  BY <1>1, <1>2, <1>3, <1>4, <1>5, <1>6, <1>7, <1>8 DEF Next, main

\* The pool refines the crawl without threads: whatever doWork()'s threads and
\* main() interleave, positions are visited level by level, a page is stored
\* before its links are followed, no link is lost or invented between the
\* steps of doWork, and a crawl that took its start page ends only with
\* nothing left to visit.
THEOREM PoolImplementsCrawl == Spec => ImplementsCrawl
<1>1. Init => C!Init
  <2> SUFFICES ASSUME Init PROVE C!Init
    OBVIOUS
  <2>1. ToVisit = Queued
    BY RunInvInit, VisitByPlace DEF Init, VisitFacts, Parsing
  <2>2. Queued = {}
    BY DEF Init, Queued, Elements
  <2>3. CrawlState = "new"
    BY StateByPlace DEF Init, StateFacts
  <2> QED BY <2>1, <2>2, <2>3 DEF Init, C!Init
<1>2. Init => RunInv
  BY RunInvInit
<1>3. RunInv /\ [Next]_vars => RunInv' /\ [C!Next]_(C!vars)
  BY RunInvStep, Simulation
<1> QED BY <1>1, <1>2, <1>3, PTL DEF Spec, C!Spec, ImplementsCrawl

-------------------------------------------------------------------------------
(* Completeness *)

\* The items this process has queued so far.
Known == popped \cup Queued

\* The item a thread took and has neither stored nor given up yet.
Undecided(item) == \E w \in Worker : pc[w] \in {"parse", "add"} /\ work[w] = item

\* The link l of the page of item is still to be looked at.
Unseen(item, l) ==
  \E w \in Worker :
    /\ work[w] = item
    /\ pc[w] \in {"parse", "add", "links"} \/ (pc[w] = "push" /\ l \in Elements(sub[w]))

\* What was taken before is never deeper than what is in work or queued.
TakenAbove ==
  /\ \A item \in popped : \A other \in Queued : other.dept <= item.dept
  /\ \A w \in Worker : pc[w] \in Parsing =>
       \A item \in popped : work[w].dept <= item.dept

\* The page in work was taken.
HandTaken == \A w \in Worker : pc[w] \in Parsing => work[w] \in popped

\* The first item taken is the start page.
StartFirst ==
  /\ popped = {} /\ works # <<>> => Head(works) = FirstItem
  /\ popped # {} => FirstItem \in popped

\* Every page taken is stored, given up or in work, and every page stored was
\* taken or was there before the process began.
Decided ==
  /\ \A item \in popped : item.url \in urls \/ item.url \in failed \/ Undecided(item)
  /\ prior \subseteq urls
  /\ \A u \in urls \ prior : \E item \in popped : item.url = u

\* Every link of a page that was taken and stored, and that may be left, is
\* taken or queued with at least the depth the page leaves it, or still to be
\* looked at, or was stored before the process began.
LinksKept ==
  \A item \in popped : item.dept > 0 /\ item.url \notin failed =>
    \A l \in LinkSet[item.url] \ prior :
      \/ Unseen(item, l)
      \/ \E other \in Known : other.url = l /\ item.dept - 1 <= other.dept

CompleteInv ==
  RunInv /\ TakenAbove /\ HandTaken /\ StartFirst /\ Decided /\ LinksKept

\* The steps that touch neither the queue nor the item in work, and take nothing.
Quiet ==
  /\ works' = works /\ work' = work /\ popped' = popped
  /\ \A w \in Worker : pc'[w] \in Parsing => pc[w] \in Parsing

LEMMA StepCases ==
  RunInv /\ [Next]_vars =>
    \/ Restart \/ PushFirst \/ Quiet
    \/ \E w \in Worker : Pop(w) \/ PushSubLink(w)
<1> SUFFICES ASSUME RunInv, [Next]_vars
             PROVE  \/ Restart \/ PushFirst \/ Quiet
                    \/ \E w \in Worker : Pop(w) \/ PushSubLink(w)
  OBVIOUS
<1>0. pc \in [Worker -> Place]
  BY DEF RunInv, OrderInv, PoolInv, TypeOK
<1> USE <1>0 DEF Quiet, Goto, threadVars, historyVars
<1>1. CASE Connect \/ MainThrows \/ Join
  BY <1>1 DEF Connect, MainThrows, Join
<1>2. ASSUME NEW w \in Worker, Spawn(w) PROVE Quiet
  BY <1>2 DEF Spawn, Parsing
<1>3. ASSUME NEW w \in Worker,
             TestEmpty(w) \/ Lock(w) \/ Wait(w) \/ FetchOk(w) \/ FetchNothing(w)
      PROVE  Quiet
  BY <1>3 DEF TestEmpty, Lock, Wait, FetchOk, FetchNothing, Parsing
<1>4. ASSUME NEW w \in Worker,
             AddLink(w) \/ ExtractLinks(w) \/ EndPush(w) \/ Unlock(w) \/ Throw(w)
      PROVE  Quiet
  BY <1>4 DEF AddLink, ExtractLinks, EndPush, Unlock, Throw, Parsing
<1>5. CASE UNCHANGED vars
  BY <1>5 DEF vars
<1> QED BY <1>1, <1>2, <1>3, <1>4, <1>5 DEF Next, main, doWork

\* What a step does to the queue, as a set.
LEMMA QueueCases ==
  ASSUME RunInv
  PROVE  /\ works' = works => Queued' = Queued
         /\ PushFirst => Queued' = {FirstItem} /\ works = <<>> /\ popped = {}
         /\ \A w \in Worker : Pop(w) =>
              /\ works # <<>> /\ work' = [work EXCEPT ![w] = Head(works)]
              /\ popped' = popped \cup {Head(works)}
              /\ pc[w] \in Critical \ Parsing /\ pc' = [pc EXCEPT ![w] = "parse"]
              /\ Queued = Queued' \cup {Head(works)}
              /\ Head(works) \in QueueItem
         /\ \A w \in Worker : PushSubLink(w) =>
              /\ pc[w] = "push" /\ sub[w] # <<>>
              /\ SubItem(w) \in QueueItem
              /\ IF Head(sub[w]) \in urls
                   THEN Queued' = Queued ELSE Queued' = Queued \cup {SubItem(w)}
<1>0. /\ works \in Seq(QueueItem)
      /\ pc \in [Worker -> Place]
      /\ work \in [Worker -> QueueItem]
      /\ sub \in [Worker -> Seq(Url)]
      /\ MainFirst
  BY DEF RunInv, OrderInv, PoolInv, TypeOK
<1>1. works' = works => Queued' = Queued
  BY DEF Queued
<1>2. ASSUME PushFirst
      PROVE  Queued' = {FirstItem} /\ works = <<>> /\ popped = {}
  <2>1. works = <<>> /\ popped = {}
    BY <1>0, <1>2 DEF PushFirst, MainFirst, empty
  <2>2. works' = <<FirstItem>>
    BY <1>2, <2>1 DEF PushFirst, push
  <2> QED BY <2>1, <2>2 DEF Queued, Elements
<1>3. ASSUME NEW w \in Worker, Pop(w)
      PROVE  /\ works # <<>> /\ work' = [work EXCEPT ![w] = Head(works)]
             /\ popped' = popped \cup {Head(works)}
             /\ pc[w] \in Critical \ Parsing /\ pc' = [pc EXCEPT ![w] = "parse"]
             /\ Queued = Queued' \cup {Head(works)}
             /\ Head(works) \in QueueItem
  <2>1. /\ works # <<>> /\ works' = Tail(works)
        /\ work' = [work EXCEPT ![w] = Head(works)]
        /\ popped' = popped \cup {Head(works)}
        /\ pc[w] \in Critical \ Parsing /\ pc' = [pc EXCEPT ![w] = "parse"]
    BY <1>3 DEF Pop, pop, front, empty, Goto, Critical, Parsing
  <2>2. Queued' = Elements(Tail(works))
    BY <2>1, Zenon DEF Queued
  <2>3. Queued = {Head(works)} \cup Elements(Tail(works))
    BY <1>0, <2>1, HeadAndTail DEF Queued
  <2>4. Head(works) \in QueueItem
    BY <1>0, <2>1
  <2> QED BY <2>1, <2>2, <2>3, <2>4
<1>4. ASSUME NEW w \in Worker, PushSubLink(w)
      PROVE  /\ pc[w] = "push" /\ sub[w] # <<>>
             /\ SubItem(w) \in QueueItem
             /\ IF Head(sub[w]) \in urls
                  THEN Queued' = Queued ELSE Queued' = Queued \cup {SubItem(w)}
  <2>1. pc[w] = "push" /\ sub[w] # <<>>
    BY <1>4 DEF PushSubLink
  <2>2. SubItem(w) \in QueueItem
    BY <1>0, <2>1 DEF SubItem, QueueItem
  <2>3. CASE Head(sub[w]) \in urls
    BY <1>1, <1>4, <2>1, <2>2, <2>3 DEF PushSubLink
  <2>4. CASE Head(sub[w]) \notin urls
    <3>1. Queued' = Elements(Append(works, SubItem(w)))
      BY <1>4, <2>4, Zenon DEF Queued, PushSubLink, push
    <3>2. Queued' = Queued \cup {SubItem(w)}
      BY <1>0, <2>2, <3>1, AppendElements DEF Queued
    <3> QED BY <2>1, <2>2, <2>4, <3>2
  <2> QED BY <2>3, <2>4
<1> QED BY <1>1, <1>2, <1>3, <1>4

LEMMA TakenAboveStep == CompleteInv /\ [Next]_vars => TakenAbove'
<1> SUFFICES ASSUME CompleteInv, [Next]_vars PROVE TakenAbove'
  OBVIOUS
<1>0. /\ RunInv /\ TakenAbove
      /\ pc \in [Worker -> Place]
      /\ work \in [Worker -> QueueItem]
      /\ popped \subseteq QueueItem
      /\ works \in Seq(QueueItem)
      /\ BreadthFirst
      /\ MutexInv
  BY DEF CompleteInv, RunInv, OrderInv, PoolInv, TypeOK
<1>1. CASE Restart
  BY <1>1 DEF Restart, TakenAbove, Parsing
<1>2. CASE PushFirst
  <2>1. popped' = {}
    BY <1>0, <1>2, QueueCases DEF PushFirst, historyVars
  <2> QED BY <2>1 DEF TakenAbove
<1>3. CASE Quiet
  <2>1. Queued' = Queued
    BY <1>3 DEF Quiet, Queued
  <2> QED BY <1>0, <1>3, <2>1 DEF Quiet, TakenAbove
<1>4. ASSUME NEW w \in Worker, Pop(w) PROVE TakenAbove'
  <2> DEFINE f == Head(works)
  <2>1. /\ works # <<>> /\ work' = [work EXCEPT ![w] = f]
        /\ popped' = popped \cup {f}
        /\ pc[w] \in Critical \ Parsing /\ pc' = [pc EXCEPT ![w] = "parse"]
        /\ Queued = Queued' \cup {f}
        /\ f \in QueueItem
    BY <1>0, <1>4, QueueCases
  <2>2. \A item \in popped : f.dept <= item.dept
    BY <1>0, <2>1 DEF TakenAbove
  <2>3. \A other \in Queued : other.dept <= f.dept
    <3> SUFFICES ASSUME NEW i \in DOMAIN works PROVE works[i].dept <= f.dept
      BY DEF Queued, Elements
    <3>a. works[i] \in QueueItem
      BY <1>0
    <3>1. works[i].dept \in Int /\ f.dept \in Int
      BY <2>1, <3>a DEF QueueItem
    <3>2. 1 \in DOMAIN works /\ f = works[1] /\ i \in Nat /\ i >= 1
      BY <1>0, <2>1
    <3>3. CASE i = 1
      BY <3>1, <3>2, <3>3
    <3>4. CASE i # 1
      <4>1. works[i].dept \in {works[1].dept, works[1].dept - 1}
        BY <1>0, <3>2, <3>4 DEF BreadthFirst
      <4> QED BY <3>1, <3>2, <4>1
    <3> QED BY <3>3, <3>4
  <2>4. f.dept <= f.dept
    BY <2>1 DEF QueueItem
  <2>5. \A v \in Worker : pc'[v] \in Parsing => v = w
    BY <1>0, <2>1 DEF MutexInv, Critical
  <2> HIDE DEF f
  <2>6. \A item \in popped' : f.dept <= item.dept
    BY <2>1, <2>2, <2>4
  <2>7. \A item \in popped' : \A other \in Queued' : other.dept <= item.dept
    BY <1>0, <2>1, <2>3 DEF TakenAbove
  <2>8. work'[w] = f
    BY <1>0, <2>1
  <2> QED BY <2>5, <2>6, <2>7, <2>8, Zenon DEF TakenAbove
<1>5. ASSUME NEW w \in Worker, PushSubLink(w) PROVE TakenAbove'
  <2>1. /\ pc[w] = "push" /\ Queued' \subseteq Queued \cup {SubItem(w)}
        /\ popped' = popped /\ pc' = pc /\ work' = work
    BY <1>0, <1>5, QueueCases DEF PushSubLink, historyVars
  <2>2. \A item \in popped : SubItem(w).dept <= item.dept
    <3> SUFFICES ASSUME NEW item \in popped PROVE SubItem(w).dept <= item.dept
      OBVIOUS
    <3>1. work[w].dept \in Int /\ item.dept \in Int
      BY <1>0 DEF QueueItem
    <3>2. work[w].dept <= item.dept
      BY <1>0, <2>1 DEF TakenAbove, Parsing
    <3> QED BY <3>1, <3>2 DEF SubItem
  <2> QED BY <1>0, <2>1, <2>2 DEF TakenAbove
<1> QED BY <1>0, <1>1, <1>2, <1>3, <1>4, <1>5, StepCases

LEMMA HandTakenStep == CompleteInv /\ [Next]_vars => HandTaken'
<1> SUFFICES ASSUME CompleteInv, [Next]_vars PROVE HandTaken'
  OBVIOUS
<1>0. /\ RunInv /\ HandTaken
      /\ pc \in [Worker -> Place]
      /\ work \in [Worker -> QueueItem]
  BY DEF CompleteInv, RunInv, OrderInv, PoolInv, TypeOK
<1>1. CASE Restart
  BY <1>1 DEF Restart, HandTaken, Parsing
<1>2. CASE PushFirst
  BY <1>0, <1>2 DEF PushFirst, HandTaken, threadVars, historyVars
<1>3. CASE Quiet
  BY <1>0, <1>3 DEF Quiet, HandTaken
<1>4. ASSUME NEW w \in Worker, Pop(w) PROVE HandTaken'
  <2>1. /\ work' = [work EXCEPT ![w] = Head(works)]
        /\ popped' = popped \cup {Head(works)}
        /\ pc' = [pc EXCEPT ![w] = "parse"]
    BY <1>0, <1>4, QueueCases
  <2> QED BY <1>0, <2>1 DEF HandTaken
<1>5. ASSUME NEW w \in Worker, PushSubLink(w) PROVE HandTaken'
  BY <1>0, <1>5 DEF PushSubLink, HandTaken, historyVars
<1> QED BY <1>0, <1>1, <1>2, <1>3, <1>4, <1>5, StepCases

LEMMA StartFirstStep == CompleteInv /\ [Next]_vars => StartFirst'
<1> SUFFICES ASSUME CompleteInv, [Next]_vars PROVE StartFirst'
  OBVIOUS
<1>0. RunInv /\ StartFirst /\ works \in Seq(QueueItem)
  BY DEF CompleteInv, RunInv, OrderInv, PoolInv, TypeOK
<1>1. CASE Restart
  BY <1>1 DEF Restart, StartFirst
<1>2. CASE PushFirst
  <2>1. works = <<>> /\ popped = {}
    BY <1>0, <1>2, QueueCases
  <2>2. works' = <<FirstItem>> /\ popped' = {}
    BY <1>2, <2>1 DEF PushFirst, push, historyVars
  <2> QED BY <2>2 DEF StartFirst
<1>3. CASE Quiet
  BY <1>0, <1>3 DEF Quiet, StartFirst
<1>4. ASSUME NEW w \in Worker, Pop(w) PROVE StartFirst'
  <2>1. works # <<>> /\ popped' = popped \cup {Head(works)}
    BY <1>0, <1>4, QueueCases
  <2> QED BY <1>0, <2>1 DEF StartFirst
<1>5. ASSUME NEW w \in Worker, PushSubLink(w) PROVE StartFirst'
  <2>1. popped # {} /\ popped' = popped
    BY <1>0, <1>5 DEF PushSubLink, historyVars, RunInv, Parsing
  <2> QED BY <1>0, <2>1 DEF StartFirst
<1> QED BY <1>0, <1>1, <1>2, <1>3, <1>4, <1>5, StepCases

LEMMA DecidedStep == CompleteInv /\ [Next]_vars => Decided'
<1> SUFFICES ASSUME CompleteInv, [Next]_vars PROVE Decided'
  OBVIOUS
<1>0. /\ RunInv /\ Decided
      /\ pc \in [Worker -> Place]
      /\ work \in [Worker -> QueueItem]
  BY DEF CompleteInv, RunInv, OrderInv, PoolInv, TypeOK
<1> USE DEF Goto, threadVars, historyVars
\* Steps that decide nothing.
<1>d. ASSUME urls' = urls, failed' = failed, prior' = prior, popped' = popped,
             work' = work,
             \A w \in Worker : pc[w] \in {"parse", "add"} => pc'[w] \in {"parse", "add"}
      PROVE  Decided'
  BY <1>0, <1>d DEF Decided, Undecided
<1>1. CASE main
  <2>1. ASSUME NEW w \in Worker, Spawn(w) PROVE Decided'
    BY <1>0, <1>d, <2>1 DEF Spawn
  <2> QED BY <1>1, <1>d, <2>1 DEF main, Connect, MainThrows, PushFirst, Join
<1>2. CASE Restart
  BY <1>2 DEF Restart, Decided
<1>3. ASSUME NEW w \in Worker, doWork(w) PROVE Decided'
  <2>1. CASE TestEmpty(w) \/ Lock(w) \/ Wait(w) \/ FetchOk(w) \/ ExtractLinks(w)
    BY <1>0, <1>d, <2>1 DEF TestEmpty, Lock, Wait, FetchOk, ExtractLinks
  <2>2. CASE PushSubLink(w) \/ EndPush(w) \/ Unlock(w) \/ Throw(w)
    BY <1>0, <1>d, <2>2 DEF PushSubLink, EndPush, Unlock, Throw
  <2>3. CASE Pop(w)
    <3>1. /\ work' = [work EXCEPT ![w] = Head(works)]
          /\ popped' = popped \cup {Head(works)}
          /\ pc[w] \notin Parsing /\ pc' = [pc EXCEPT ![w] = "parse"]
          /\ urls' = urls /\ failed' = failed /\ prior' = prior
      BY <1>0, <2>3, QueueCases DEF Pop
    <3>2. \A v \in Worker : pc[v] \in {"parse", "add"} =>
            pc'[v] = pc[v] /\ work'[v] = work[v]
      BY <1>0, <3>1 DEF Parsing
    <3>3. pc'[w] = "parse" /\ work'[w] = Head(works)
      BY <1>0, <3>1
    <3>4. \A item \in popped' : item.url \in urls \/ item.url \in failed \/ Undecided(item)'
      BY <1>0, <3>1, <3>2, <3>3 DEF Decided, Undecided
    <3> QED BY <1>0, <3>1, <3>4 DEF Decided
  <2>4. CASE FetchNothing(w)
    <3>1. /\ work' = work /\ popped' = popped /\ urls' = urls /\ prior' = prior
          /\ failed' = failed \cup {work[w].url}
          /\ \A v \in Worker : v # w => pc'[v] = pc[v]
      BY <1>0, <2>4 DEF FetchNothing
    <3> QED BY <1>0, <3>1 DEF Decided, Undecided
  <2>5. CASE AddLink(w)
    <3>1. /\ work' = work /\ popped' = popped /\ prior' = prior /\ failed' = failed
          /\ urls' = urls \cup {work[w].url}
          /\ \A v \in Worker : v # w => pc'[v] = pc[v]
      BY <1>0, <2>5 DEF AddLink
    <3>2. work[w] \in popped
      BY <1>0, <2>5 DEF AddLink, CompleteInv, HandTaken, Parsing
    <3> QED BY <1>0, <3>1, <3>2 DEF Decided, Undecided
  <2> QED BY <1>3, <2>1, <2>2, <2>3, <2>4, <2>5 DEF doWork
<1>4. CASE UNCHANGED vars
  BY <1>0, <1>d, <1>4 DEF vars
<1> QED BY <1>1, <1>2, <1>3, <1>4 DEF Next

LEMMA LinksKeptStep == CompleteInv /\ [Next]_vars => LinksKept'
<1> SUFFICES ASSUME CompleteInv, [Next]_vars PROVE LinksKept'
  OBVIOUS
<1>0. /\ RunInv /\ LinksKept /\ Decided /\ TakenAbove
      /\ works \in Seq(QueueItem)
      /\ pc \in [Worker -> Place]
      /\ work \in [Worker -> QueueItem]
      /\ sub \in [Worker -> Seq(Url)]
      /\ popped \subseteq QueueItem
  BY DEF CompleteInv, RunInv, OrderInv, PoolInv, TypeOK
<1> USE DEF Goto, threadVars, historyVars
<1>a. CASE Restart
  BY <1>a DEF Restart, LinksKept
\* Nothing that was queued is forgotten.
<1>b. ASSUME ~Restart PROVE Known \subseteq Known'
  <2>1. CASE PushFirst
    <3>1. works = <<>> /\ popped = {}
      BY <1>0, <2>1, QueueCases
    <3> QED BY <3>1 DEF Known, Queued, Elements
  <2>2. CASE Quiet
    BY <1>0, <2>2, QueueCases DEF Known, Quiet
  <2>3. ASSUME NEW w \in Worker, Pop(w) PROVE Known \subseteq Known'
    <3>1. popped' = popped \cup {Head(works)} /\ Queued = Queued' \cup {Head(works)}
      BY <1>0, <2>3, QueueCases
    <3> QED BY <3>1 DEF Known
  <2>4. ASSUME NEW w \in Worker, PushSubLink(w) PROVE Known \subseteq Known'
    <3>1. popped' = popped /\ Queued \subseteq Queued'
      BY <1>0, <2>4, QueueCases DEF PushSubLink
    <3> QED BY <3>1 DEF Known
  <2> QED BY <1>0, <1>b, <2>1, <2>2, <2>3, <2>4, StepCases
\* It is enough to say what becomes of the links that were not looked at.
<1>c. ASSUME ~Restart, prior' = prior, failed \subseteq failed',
             \A item \in popped' \ popped : \A l \in LinkSet[item.url] : Unseen(item, l)',
             \A item \in popped : \A l \in LinkSet[item.url] \ prior :
               item.dept > 0 /\ item.url \notin failed' /\ Unseen(item, l) =>
                 \/ Unseen(item, l)'
                 \/ \E other \in Known' : other.url = l /\ item.dept - 1 <= other.dept
      PROVE  LinksKept'
  <2> SUFFICES ASSUME NEW item \in popped', item.dept > 0,
                      item.url \notin failed', NEW l \in LinkSet[item.url] \ prior
               PROVE  \/ Unseen(item, l)'
                      \/ \E other \in Known' : other.url = l /\ item.dept - 1 <= other.dept
    BY <1>c, Zenon DEF LinksKept
  <2>1. CASE item \in popped
    <3>1. \/ Unseen(item, l)
          \/ \E other \in Known : other.url = l /\ item.dept - 1 <= other.dept
      BY <1>0, <1>c, <2>1, Zenon DEF LinksKept
    <3>2. CASE Unseen(item, l)
      BY <1>c, <2>1, <3>2, Zenon
    <3>3. CASE \E other \in Known : other.url = l /\ item.dept - 1 <= other.dept
      BY <1>b, <1>c, <3>3, Zenon
    <3> QED BY <3>1, <3>2, <3>3
  <2>2. CASE item \notin popped
    BY <1>c, <2>2, Zenon
  <2> QED BY <2>1, <2>2
\* Steps that look at no link.
<1>d. ASSUME ~Restart, prior' = prior, failed \subseteq failed', popped' = popped,
             work' = work,
             \A w \in Worker :
               /\ pc[w] \in {"parse", "add", "links"} =>
                    \/ pc'[w] \in {"parse", "add", "links"}
                    \/ work[w].url \in failed'
               /\ pc[w] = "push" => pc'[w] = "push" /\ sub'[w] = sub[w]
      PROVE  LinksKept'
  <2>1. ASSUME NEW item, NEW l, Unseen(item, l), item.url \notin failed'
        PROVE  Unseen(item, l)'
    <3>1. PICK w \in Worker :
            /\ work[w] = item
            /\ \/ pc[w] \in {"parse", "add", "links"}
               \/ pc[w] = "push" /\ l \in Elements(sub[w])
      BY <2>1, Zenon DEF Unseen
    <3>2. work'[w] = item
      BY <1>d, <3>1
    <3>3. \/ pc'[w] \in {"parse", "add", "links"}
          \/ pc'[w] = "push" /\ l \in Elements(sub'[w])
      BY <1>d, <2>1, <3>1
    <3> QED BY <3>2, <3>3, Zenon DEF Unseen, Elements
  <2> QED BY <1>c, <1>d, <2>1
<1>1. CASE main /\ ~Restart
  <2>1. ASSUME NEW w \in Worker, Spawn(w) PROVE LinksKept'
    BY <1>0, <1>1, <1>d, <2>1 DEF Spawn
  <2> QED BY <1>1, <1>d, <2>1 DEF main, Connect, MainThrows, PushFirst, Join
<1>3. ASSUME NEW w \in Worker, doWork(w), ~Restart PROVE LinksKept'
  <2>1. CASE TestEmpty(w) \/ Lock(w) \/ Wait(w) \/ FetchOk(w) \/ FetchNothing(w)
    BY <1>0, <1>3, <1>d, <2>1 DEF TestEmpty, Lock, Wait, FetchOk, FetchNothing
  <2>2. CASE AddLink(w) \/ Unlock(w) \/ Throw(w)
    BY <1>0, <1>3, <1>d, <2>2 DEF AddLink, Unlock, Throw
  <2>3. CASE Pop(w)
    <3>1. /\ work' = [work EXCEPT ![w] = Head(works)]
          /\ popped' = popped \cup {Head(works)}
          /\ pc[w] \notin Parsing /\ pc' = [pc EXCEPT ![w] = "parse"]
          /\ sub' = sub /\ failed' = failed /\ prior' = prior
      BY <1>0, <2>3, QueueCases DEF Pop
    <3>2. \A v \in Worker : pc[v] \in Parsing => pc'[v] = pc[v] /\ work'[v] = work[v]
      BY <1>0, <3>1
    <3>3. pc'[w] = "parse" /\ work'[w] = Head(works)
      BY <1>0, <3>1
    <3>4. ASSUME NEW item, NEW l, Unseen(item, l) PROVE Unseen(item, l)'
      BY <3>1, <3>2, <3>4 DEF Unseen, Parsing, Elements
    <3>5. \A item \in popped' \ popped : \A l : Unseen(item, l)'
      BY <3>1, <3>3 DEF Unseen
    <3> QED BY <1>3, <1>c, <3>1, <3>4, <3>5
  <2>4. CASE ExtractLinks(w)
    <3>1. /\ pc[w] = "links" /\ work' = work /\ popped' = popped
          /\ failed' = failed /\ prior' = prior
          /\ work[w].dept > 0 => pc'[w] = "push" /\ sub'[w] = Links[work[w].url]
          /\ \A v \in Worker : v # w => pc'[v] = pc[v] /\ sub'[v] = sub[v]
      BY <1>0, <2>4 DEF ExtractLinks
    <3>2. ASSUME NEW item \in popped, NEW l \in LinkSet[item.url], item.dept > 0,
                 Unseen(item, l)
          PROVE  Unseen(item, l)'
      <4>1. PICK v \in Worker :
              /\ work[v] = item
              /\ \/ pc[v] \in {"parse", "add", "links"}
                 \/ pc[v] = "push" /\ l \in Elements(sub[v])
        BY <3>2, Zenon DEF Unseen
      <4>2. CASE v = w
        <5>1. LinkSet[work[w].url] = Elements(Links[work[w].url])
          BY <1>0 DEF LinkSet, QueueItem, Elements
        <5>2. pc'[w] = "push" /\ l \in Elements(sub'[w]) /\ work'[w] = item
          BY <3>1, <3>2, <4>1, <4>2, <5>1
        <5> QED BY <5>2, Zenon DEF Unseen, Elements
      <4>3. CASE v # w
        <5>1. pc'[v] = pc[v] /\ sub'[v] = sub[v] /\ work'[v] = item
          BY <3>1, <4>1, <4>3
        <5> QED BY <4>1, <5>1, Zenon DEF Unseen, Elements
      <4> QED BY <4>2, <4>3
    <3> QED BY <1>3, <1>c, <3>1, <3>2
  <2>5. CASE PushSubLink(w)
    <3>1. /\ pc[w] = "push" /\ sub[w] # <<>> /\ work' = work /\ pc' = pc
          /\ popped' = popped /\ failed' = failed /\ prior' = prior
          /\ sub' = [sub EXCEPT ![w] = Tail(sub[w])]
          /\ Head(sub[w]) \notin urls => SubItem(w) \in Queued'
      BY <1>0, <2>5, QueueCases DEF PushSubLink
    <3>2. Elements(sub[w]) = {Head(sub[w])} \cup Elements(sub'[w])
      BY <1>0, <3>1, HeadAndTail
    <3>3. ASSUME NEW item \in popped, NEW l, l \notin prior, Unseen(item, l)
          PROVE  \/ Unseen(item, l)'
                 \/ \E other \in Known' : other.url = l /\ item.dept - 1 <= other.dept
      <4>1. PICK v \in Worker :
              /\ work[v] = item
              /\ \/ pc[v] \in {"parse", "add", "links"}
                 \/ pc[v] = "push" /\ l \in Elements(sub[v])
        BY <3>3, Zenon DEF Unseen
      <4>2. CASE v # w \/ l \in Elements(sub'[w])
        <5>1. /\ pc'[v] = pc[v] /\ work'[v] = item
              /\ pc[v] = "push" => l \in Elements(sub'[v])
          BY <1>0, <3>1, <4>1, <4>2
        <5> QED BY <4>1, <5>1, Zenon DEF Unseen, Elements
      <4>3. CASE v = w /\ l = Head(sub[w]) /\ l \in urls
        <5>1. PICK other \in popped : other.url = l
          BY <1>0, <3>3, <4>3 DEF Decided
        <5>2. work[w].dept <= other.dept
          BY <1>0, <3>1 DEF TakenAbove, Parsing
        <5>3. work[w].dept \in Int /\ other.dept \in Int
          BY <1>0 DEF QueueItem
        <5>4. item.dept - 1 <= other.dept
          BY <4>1, <4>3, <5>2, <5>3
        <5> QED BY <3>1, <5>1, <5>4 DEF Known
      <4>4. CASE v = w /\ l = Head(sub[w]) /\ l \notin urls
        <5>1. SubItem(w).url = l /\ SubItem(w).dept = item.dept - 1
          BY <4>1, <4>4 DEF SubItem
        <5>2. item.dept - 1 <= item.dept - 1
          BY <1>0 DEF QueueItem
        <5> QED BY <3>1, <4>4, <5>1, <5>2 DEF Known
      <4> QED BY <3>1, <3>2, <4>1, <4>2, <4>3, <4>4
    <3> QED BY <1>3, <1>c, <3>1, <3>3
  <2>6. CASE EndPush(w)
    <3>1. /\ pc[w] = "push" /\ sub[w] = <<>> /\ work' = work /\ sub' = sub
          /\ popped' = popped /\ failed' = failed /\ prior' = prior
          /\ \A v \in Worker : v # w => pc'[v] = pc[v]
      BY <1>0, <2>6 DEF EndPush
    <3>2. Elements(sub[w]) = {}
      BY <3>1 DEF Elements
    <3>3. ASSUME NEW item, NEW l, Unseen(item, l) PROVE Unseen(item, l)'
      <4>1. PICK v \in Worker :
              /\ work[v] = item
              /\ \/ pc[v] \in {"parse", "add", "links"}
                 \/ pc[v] = "push" /\ l \in Elements(sub[v])
        BY <3>3, Zenon DEF Unseen
      <4>2. v # w
        BY <3>1, <3>2, <4>1
      <4>3. pc'[v] = pc[v] /\ sub'[v] = sub[v] /\ work'[v] = item
        BY <3>1, <4>1, <4>2
      <4> QED BY <4>1, <4>3, Zenon DEF Unseen, Elements
    <3> QED BY <1>3, <1>c, <3>1, <3>3
  <2> QED BY <1>3, <2>1, <2>2, <2>3, <2>4, <2>5, <2>6 DEF doWork
<1>4. CASE UNCHANGED vars /\ ~Restart
  BY <1>0, <1>d, <1>4 DEF vars
<1> QED BY <1>a, <1>1, <1>3, <1>4 DEF Next

LEMMA CompleteInvariant == Spec => []CompleteInv
<1>1. Init => CompleteInv
  BY RunInvInit DEF Init, CompleteInv, TakenAbove, HandTaken, StartFirst, Decided,
                    LinksKept, Parsing
<1>2. CompleteInv /\ [Next]_vars => CompleteInv'
  BY RunInvStep, TakenAboveStep, HandTakenStep, StartFirstStep, DecidedStep,
     LinksKeptStep DEF CompleteInv
<1> QED BY <1>1, <1>2, PTL DEF Spec

\* A nonempty set of naturals has a least element.
LEMMA LeastNatural ==
  ASSUME NEW T, T \subseteq Nat, T # {}
  PROVE  \E n \in T : \A m \in T : n <= m
<1>1. PICK n \in T : \A m \in T : ~(<<m, n>> \in OpToRel(<, Nat))
  BY NatLessThanWellFounded, WFMin
<1>2. \A m \in T : ~(m < n)
  BY <1>1 DEF OpToRel
<1> QED BY <1>2

\* When the crawl has ended, every page of a trail that leaves neither a failed
\* page nor one stored before was taken, at a depth no smaller than the hops to it
\* allow, unless it was stored before itself: the first page of the trail for
\* which this fails would be a link that its predecessor lost.
LEMMA TrailTaken ==
  ASSUME CompleteInv, mpc = "done", popped # {},
         NEW k \in 0..MaxHops, NEW p \in [0..k -> Url],
         IsTrail(p, k, failed \cup (prior \ {StartPage}))
  PROVE  \A i \in 0..k : p[i] \in prior \ {StartPage} \/ \E item \in popped :
           item.url = p[i] /\ RecursionDepth - i <= item.dept
<1> DEFINE Reached(i) == \E item \in popped :
                           item.url = p[i] /\ RecursionDepth - i <= item.dept
           Lost == {i \in 0..k : p[i] \notin prior \ {StartPage} /\ ~Reached(i)}
<1>0. /\ MaxHops \in Nat /\ k \in Nat /\ k <= MaxHops /\ RecursionDepth \in Int
      /\ popped \subseteq QueueItem
      /\ MaxHops > 0 => MaxHops = RecursionDepth
  BY MaxHopsNat, CrawlerAssumption DEF MaxHops, CompleteInv, RunInv, OrderInv, PoolInv, TypeOK
<1>1. \A w \in Worker : pc[w] = "exit"
  BY DEF CompleteInv, RunInv
<1>2. works = <<>>
  BY <1>1 DEF CompleteInv, RunInv, OrderInv, PoolInv, NoAbandonedLinks, empty
<1>3. Known = popped
  BY <1>2 DEF Known, Queued, Elements
<1>4. Reached(0)
  <2>1. FirstItem \in popped /\ FirstItem.url = p[0]
    BY DEF CompleteInv, StartFirst, IsTrail, FirstItem
  <2>2. RecursionDepth - 0 <= FirstItem.dept
    BY <1>0 DEF FirstItem
  <2> QED BY <2>1, <2>2
<1>5. ASSUME NEW i \in 0..(k - 1), Reached(i), p[i + 1] \notin prior
      PROVE  Reached(i + 1)
  <2>1. PICK item \in popped : item.url = p[i] /\ RecursionDepth - i <= item.dept
    BY <1>5
  <2>2. item.dept \in Int /\ item.dept > 0 /\ i \in Nat
    BY <1>0, <2>1 DEF QueueItem
  <2>3. i \in 0..k /\ p[i] \in Url
    BY <1>0
  <2>4. p[i] \notin failed /\ p[i + 1] \in LinkSet[p[i]]
    BY <2>3 DEF IsTrail, LinkSet
  <2>5. ~Unseen(item, p[i + 1])
    BY <1>1 DEF Unseen
  <2>6. PICK other \in popped : other.url = p[i + 1] /\ item.dept - 1 <= other.dept
    BY <1>3, <1>5, <2>1, <2>2, <2>4, <2>5 DEF CompleteInv, LinksKept
  <2>7. other.dept \in Int
    BY <1>0 DEF QueueItem
  <2>8. RecursionDepth - (i + 1) <= other.dept
    BY <1>0, <2>1, <2>2, <2>6, <2>7
  <2> QED BY <2>6, <2>8
\* Back at the start page, which was taken with the whole depth.
<1>s. ASSUME NEW i \in 0..k, p[i] = StartPage PROVE Reached(i)
  <2>1. FirstItem \in popped /\ FirstItem.url = p[i]
    BY <1>s DEF CompleteInv, StartFirst, FirstItem
  <2>2. RecursionDepth - i <= FirstItem.dept
    BY <1>0 DEF FirstItem
  <2> QED BY <2>1, <2>2
<1> HIDE DEF Reached
<1>6. Lost = {}
  <2> SUFFICES ASSUME Lost # {} PROVE FALSE
    OBVIOUS
  <2>1. PICK n \in Lost : \A m \in Lost : n <= m
    <3>1. Lost \subseteq Nat
      BY <1>0
    <3> HIDE DEF Lost
    <3> QED BY <3>1, LeastNatural
  <2>2. n \in 0..k /\ ~Reached(n) /\ n # 0 /\ p[n] \notin prior
    BY <1>4, <1>s, <2>1
  <2>3. n - 1 \in 0..(k - 1) /\ n - 1 \in 0..k /\ (n - 1) + 1 = n /\ ~(n <= n - 1)
    BY <1>0, <2>2
  <2>4. Reached(n - 1)
    <3>1. p[n - 1] \notin prior \ {StartPage}
      BY <2>3 DEF IsTrail
    <3> QED BY <2>1, <2>3, <3>1
  <2>5. Reached((n - 1) + 1)
    BY <1>5, <2>2, <2>3, <2>4
  <2> QED BY <2>2, <2>3, <2>5
<1>7. \A i \in 0..k : p[i] \in prior \ {StartPage} \/ Reached(i)
  BY <1>6
<1> QED BY <1>7, Zenon DEF Reached

\* A process that took its start page and ended has stored every page within
\* MaxHops hops, except what only a failed download or a page stored by an
\* earlier process could have led to, whatever the pool's threads interleaved.
THEOREM CrawlIsComplete == Spec => []CrawlComplete
<1>1. CompleteInv => CrawlComplete
  <2> DEFINE avoid == failed \cup (prior \ {StartPage})
  <2> SUFFICES ASSUME CompleteInv, mpc = "done", popped # {},
                      NEW u \in Within(MaxHops, avoid), u \notin failed
               PROVE  u \in urls
    BY DEF CrawlComplete
  <2>1. PICK k \in 0..MaxHops : \E p \in [0..k -> Url] :
          IsTrail(p, k, avoid) /\ p[k] = u
    BY DEF Within
  <2>2. PICK p \in [0..k -> Url] : IsTrail(p, k, avoid) /\ p[k] = u
    BY <2>1
  <2>3. k \in 0..k
    BY MaxHopsNat
  <2>4. CASE u \in prior
    BY <2>4 DEF CompleteInv, Decided
  <2>5. CASE u \notin prior
    <3>1. PICK item \in popped : item.url = u
      BY <2>2, <2>3, <2>5, TrailTaken
    <3>2. ~Undecided(item)
      BY DEF Undecided, CompleteInv, RunInv
    <3> QED BY <3>1, <3>2 DEF CompleteInv, Decided
  <2> QED BY <2>4, <2>5
<1> QED BY <1>1, CompleteInvariant, PTL
===============================================================================
