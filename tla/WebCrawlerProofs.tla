--------------------------- MODULE WebCrawlerProofs ---------------------------
(***************************************************************************)
(* Proofs about WebCrawler, for every pool, site, start page and depth.    *)
(***************************************************************************)
EXTENDS WebCrawler, TLAPS

-------------------------------------------------------------------------------
(* Type correctness *)

LEMMA TypeCorrectInit == Init => TypeOK
BY CrawlerAssumption
   DEF Init, TypeOK, QueueItem, FirstItem, Place, Critical, Parsing

LEMMA TypeCorrectStep == TypeOK /\ [Next]_vars => TypeOK'
<1> USE CrawlerAssumption
<1> SUFFICES ASSUME TypeOK, [Next]_vars PROVE TypeOK'
  OBVIOUS
<1> USE DEF TypeOK, Place, Critical, Parsing, Goto
<1>1. CASE Connect BY <1>1 DEF Connect, threadVars, historyVars
<1>2. CASE MainThrows BY <1>2 DEF MainThrows, threadVars, historyVars
<1>3. CASE PushFirst
  BY <1>3 DEF PushFirst, push, FirstItem, QueueItem, threadVars, historyVars
<1>4. CASE Join BY <1>4 DEF Join, threadVars, historyVars
<1>5. CASE Restart BY <1>5 DEF Restart, FirstItem, QueueItem
<1>6. ASSUME NEW w \in Worker, Spawn(w) PROVE TypeOK'
  BY <1>6 DEF Spawn, historyVars
<1>7. ASSUME NEW w \in Worker, doWork(w) PROVE TypeOK'
  <2>1. CASE TestEmpty(w) BY <2>1 DEF TestEmpty, historyVars
  <2>2. CASE Lock(w) BY <2>2 DEF Lock, historyVars
  <2>3. CASE Pop(w) BY <2>3 DEF Pop, pop, front, empty
  <2>4. CASE Wait(w) BY <2>4 DEF Wait, historyVars
  <2>5. CASE FetchOk(w) BY <2>5 DEF FetchOk, historyVars
  <2>6. CASE FetchNothing(w) BY <2>6 DEF FetchNothing, QueueItem
  <2>7. CASE AddLink(w) BY <2>7 DEF AddLink, historyVars, QueueItem
  <2>8. CASE ExtractLinks(w) BY <2>8 DEF ExtractLinks, historyVars, QueueItem
  <2>9. CASE PushSubLink(w)
    <3>1. sub[w] \in Seq(Url) /\ sub[w] # <<>>
      BY <2>9 DEF PushSubLink
    <3>2. Head(sub[w]) \in Url /\ Tail(sub[w]) \in Seq(Url)
      BY <3>1
    <3>3. SubItem(w) \in QueueItem
      BY <3>2 DEF SubItem, QueueItem
    <3>4. works' \in Seq(QueueItem)
      <4>1. works' = works \/ works' = Append(works, SubItem(w))
        BY <2>9 DEF PushSubLink, push
      <4>2. Append(works, SubItem(w)) \in Seq(QueueItem)
        BY <3>3
      <4> QED BY <4>1, <4>2
    <3>5. sub' \in [Worker -> Seq(Url)]
      BY <2>9, <3>2 DEF PushSubLink
    <3> QED BY <2>9, <3>4, <3>5 DEF PushSubLink, historyVars
  <2>10. CASE EndPush(w) BY <2>10 DEF EndPush, historyVars
  <2>11. CASE Unlock(w) BY <2>11 DEF Unlock, historyVars
  <2>12. CASE Throw(w) BY <2>12 DEF Throw, threadVars, historyVars
  <2> QED
    BY <1>7, <2>1, <2>2, <2>3, <2>4, <2>5, <2>6, <2>7, <2>8, <2>9, <2>10,
       <2>11, <2>12 DEF doWork
<1>8. CASE UNCHANGED vars BY <1>8 DEF vars, threadVars, historyVars
<1> QED
  BY <1>1, <1>2, <1>3, <1>4, <1>5, <1>6, <1>7, <1>8 DEF Next, main

\* Every step of main() and doWork() keeps the queue, the threads' program
\* counters and the database within their types.
THEOREM TypeCorrect == Spec => []TypeOK
BY TypeCorrectInit, TypeCorrectStep, PTL DEF Spec

-------------------------------------------------------------------------------
(* Mutual exclusion, sleepers and abandoned links *)

PoolInv ==
  TypeOK /\ MutexInv /\ MainFirst /\ SleeperSeesNothing /\ NoAbandonedLinks

LEMMA PoolInvInit == Init => PoolInv
BY TypeCorrectInit, CrawlerAssumption
   DEF PoolInv, Init, MutexInv, MainFirst, SleeperSeesNothing, NoAbandonedLinks,
       Critical, Parsing, empty

LEMMA PoolInvStep == PoolInv /\ [Next]_vars => PoolInv'
<1> USE CrawlerAssumption
<1> SUFFICES ASSUME PoolInv, [Next]_vars
             PROVE  /\ MutexInv' /\ MainFirst' /\ SleeperSeesNothing'
                    /\ NoAbandonedLinks'
  BY TypeCorrectStep DEF PoolInv
<1>0. TypeOK BY DEF PoolInv
<1> USE DEF PoolInv, MutexInv, MainFirst, SleeperSeesNothing, NoAbandonedLinks,
            Critical, Parsing, empty, Goto
<1>a. pc \in [Worker -> Place] /\ works \in Seq(QueueItem) BY <1>0 DEF TypeOK
<1> USE <1>a
<1>1. CASE Connect BY <1>1 DEF Connect, threadVars, historyVars
<1>2. CASE MainThrows BY <1>2 DEF MainThrows, threadVars, historyVars
<1>3. CASE PushFirst BY <1>3 DEF PushFirst, push, threadVars, historyVars
<1>4. CASE Join BY <1>4 DEF Join, threadVars, historyVars
<1>5. CASE Restart BY <1>5 DEF Restart
<1>6. ASSUME NEW w \in Worker, Spawn(w)
      PROVE  /\ MutexInv' /\ MainFirst' /\ SleeperSeesNothing'
             /\ NoAbandonedLinks'
  BY <1>6 DEF Spawn, historyVars
<1>7. ASSUME NEW w \in Worker, doWork(w)
      PROVE  /\ MutexInv' /\ MainFirst' /\ SleeperSeesNothing'
             /\ NoAbandonedLinks'
  <2>1. CASE TestEmpty(w) BY <2>1 DEF TestEmpty, historyVars
  <2>2. CASE Lock(w) BY <2>2 DEF Lock, historyVars
  <2>3. CASE Pop(w) BY <2>3 DEF Pop, pop, front
  <2>4. CASE Wait(w) BY <2>4 DEF Wait, historyVars
  <2>5. CASE FetchOk(w) BY <2>5 DEF FetchOk, historyVars
  <2>6. CASE FetchNothing(w) BY <2>6 DEF FetchNothing
  <2>7. CASE AddLink(w) BY <2>7 DEF AddLink, historyVars
  <2>8. CASE ExtractLinks(w) BY <2>8 DEF ExtractLinks, historyVars
  <2>9. CASE PushSubLink(w) BY <2>9 DEF PushSubLink, push, historyVars
  <2>10. CASE EndPush(w) BY <2>10 DEF EndPush, historyVars
  <2>11. CASE Unlock(w) BY <2>11 DEF Unlock, historyVars
  <2>12. CASE Throw(w) BY <2>12 DEF Throw, threadVars, historyVars
  <2> QED
    BY <1>7, <2>1, <2>2, <2>3, <2>4, <2>5, <2>6, <2>7, <2>8, <2>9, <2>10,
       <2>11, <2>12 DEF doWork
<1>8. CASE UNCHANGED vars BY <1>8 DEF vars, threadVars, historyVars
<1> QED
  BY <1>1, <1>2, <1>3, <1>4, <1>5, <1>6, <1>7, <1>8 DEF Next, main

LEMMA PoolInvariant == Spec => []PoolInv
BY PoolInvInit, PoolInvStep, PTL DEF Spec

\* The statements of doWork between lock() and unlock() run in one thread at
\* a time.
THEOREM MutualExclusion == Spec => []MutexInv
BY PoolInvariant, PTL DEF PoolInv

\* A thread asleep in Safe_Queue::pop sleeps over an empty queue.
THEOREM SleepersOverEmptyQueue == Spec => []SleeperSeesNothing
BY PoolInvariant, PTL DEF PoolInv

\* Once the first link was taken, a queued link always has a live thread.
THEOREM LinksNotAbandoned == Spec => []NoAbandonedLinks
BY PoolInvariant, PTL DEF PoolInv

\* No step of the process wakes a thread asleep in Safe_Queue::pop: the
\* sleeper would need a link in the queue, and the only threads that could
\* push one wait for the mutex the sleeper holds.
THEOREM SleepersNeverWake == Spec => SleepIsForever
<1>1. PoolInv /\ [Next]_vars =>
        [runs' = runs => \A w \in Worker : pc[w] = "wait" => pc'[w] = "wait"]_vars
  <2> SUFFICES ASSUME PoolInv, Next, runs' = runs,
                      NEW w \in Worker, pc[w] = "wait"
               PROVE  pc'[w] = "wait"
    OBVIOUS
  <2>1. pc \in [Worker -> Place] /\ runs \in Nat /\ empty
    BY CrawlerAssumption DEF PoolInv, TypeOK, SleeperSeesNothing
  <2>2. CASE main
    BY <2>1, <2>2 DEF main, Connect, MainThrows, PushFirst, Join, Spawn, Goto,
                      threadVars
  <2>3. CASE Restart
    BY <2>1, <2>3 DEF Restart
  <2>4. ASSUME NEW v \in Worker, doWork(v) PROVE pc'[w] = "wait"
    BY <2>1, <2>4
       DEF doWork, TestEmpty, Lock, Pop, pop, Wait, FetchOk, FetchNothing, AddLink,
           ExtractLinks, PushSubLink, EndPush, Unlock, Throw, Goto, threadVars
  <2> QED BY <2>2, <2>3, <2>4 DEF Next
<1> QED BY <1>1, PoolInvariant, PTL DEF Spec, SleepIsForever

-------------------------------------------------------------------------------
(* Breadth-first order *)

OrderInv == PoolInv /\ BreadthFirst

LEMMA BreadthFirstStep == OrderInv /\ [Next]_vars => BreadthFirst'
<1> SUFFICES ASSUME OrderInv, [Next]_vars PROVE BreadthFirst'
  OBVIOUS
<1>0. /\ works \in Seq(QueueItem)
      /\ pc \in [Worker -> Place]
      /\ work \in [Worker -> QueueItem]
  BY DEF OrderInv, PoolInv, TypeOK
<1>b. ASSUME NEW v \in Worker, NEW w \in Worker,
             pc[v] \in Critical, pc[w] \in Critical
      PROVE  v = w
  BY <1>b DEF OrderInv, PoolInv, MutexInv
<1>c. BreadthFirst BY DEF OrderInv
<1> USE <1>0 DEF Goto
\* Steps that leave the queue and the item in work alone, and start no work.
<1>d. ASSUME works' = works, work' = work,
             \A w \in Worker : pc'[w] \in Parsing => pc[w] \in Parsing
      PROVE  BreadthFirst'
  BY <1>c, <1>d DEF BreadthFirst
<1>1. CASE main
  <2>1. CASE PushFirst
    <3>1. works = <<>> /\ \A w \in Worker : pc[w] \notin Parsing
      BY <2>1 DEF PushFirst, OrderInv, PoolInv, MainFirst, empty, Parsing
    <3>2. DOMAIN works' = {1} /\ pc' = pc
      BY <2>1, <3>1 DEF PushFirst, push, threadVars
    <3> QED BY <3>1, <3>2 DEF BreadthFirst
  <2>2. CASE Connect \/ MainThrows \/ Join
    BY <1>d, <2>2 DEF Connect, MainThrows, Join, threadVars
  <2>3. ASSUME NEW w \in Worker, Spawn(w) PROVE BreadthFirst'
    BY <1>d, <2>3 DEF Spawn, Parsing
  <2> QED BY <1>1, <2>1, <2>2, <2>3 DEF main
<1>2. CASE Restart
  BY <1>2 DEF Restart, BreadthFirst, Parsing
<1>3. ASSUME NEW w \in Worker, doWork(w) PROVE BreadthFirst'
  <2>1. CASE Pop(w)
    <3>1. /\ works # <<>>
          /\ works' = Tail(works)
          /\ work' = [work EXCEPT ![w] = Head(works)]
          /\ pc' = [pc EXCEPT ![w] = "parse"]
          /\ pc[w] \in Critical
      BY <2>1 DEF Pop, pop, front, empty, Critical
    <3>2. /\ \A i \in DOMAIN works' : i + 1 \in DOMAIN works /\ i \in Int
          /\ \A i \in DOMAIN works' : works'[i] = works[i + 1]
      BY <3>1
    <3>3. 1 \in DOMAIN works /\ work'[w] = works[1]
      BY <3>1
    <3>4. \A i, j \in DOMAIN works' :
            i < j => works'[j].dept \in {works'[i].dept, works'[i].dept - 1}
      BY <1>c, <3>2 DEF BreadthFirst
    <3>5. \A i \in DOMAIN works' :
            works'[i].dept \in {work'[w].dept, work'[w].dept - 1}
      <4> SUFFICES ASSUME NEW i \in DOMAIN works'
                   PROVE  works'[i].dept \in {work'[w].dept, work'[w].dept - 1}
        OBVIOUS
      <4>1. i + 1 \in DOMAIN works /\ 1 < i + 1
        BY <3>1, <3>2
      <4> QED BY <1>c, <3>2, <3>3, <4>1 DEF BreadthFirst
    <3>6. \A v \in Worker : pc'[v] \in Parsing => v = w
      BY <1>b, <3>1 DEF Critical
    <3> QED BY <3>4, <3>5, <3>6 DEF BreadthFirst
  <2>2. CASE PushSubLink(w)
    <3>1. pc' = pc /\ work' = work /\ pc[w] \in Parsing
      BY <2>2 DEF PushSubLink, Parsing
    <3>2. CASE works' = works
      BY <1>d, <3>1, <3>2
    <3>3. CASE works' = Append(works, SubItem(w))
      <4>1. /\ DOMAIN works' = 1..(Len(works) + 1)
            /\ \A i \in DOMAIN works : works'[i] = works[i]
            /\ works'[Len(works) + 1] = SubItem(w)
            /\ DOMAIN works = 1..Len(works) /\ Len(works) \in Nat
        BY <3>3
      <4>2. SubItem(w).dept = work[w].dept - 1 /\ work[w].dept \in Int
        BY DEF SubItem, QueueItem
      <4>3. \A i \in DOMAIN works :
              works[i].dept \in {work[w].dept, work[w].dept - 1}
        BY <1>c, <3>1 DEF BreadthFirst
      <4>4. \A i \in DOMAIN works' :
              works'[i].dept \in {work[w].dept, work[w].dept - 1}
        BY <4>1, <4>2, <4>3
      <4>5. \A i, j \in DOMAIN works' :
              i < j => works'[j].dept \in {works'[i].dept, works'[i].dept - 1}
        <5> SUFFICES ASSUME NEW i \in DOMAIN works', NEW j \in DOMAIN works', i < j
                     PROVE  works'[j].dept \in {works'[i].dept, works'[i].dept - 1}
          OBVIOUS
        <5>1. CASE j = Len(works) + 1
          BY <4>1, <4>2, <4>4, <5>1
        <5>2. CASE j # Len(works) + 1
          <6>1. i \in DOMAIN works /\ j \in DOMAIN works
            BY <4>1, <5>2
          <6> QED BY <1>c, <4>1, <6>1 DEF BreadthFirst
        <5> QED BY <5>1, <5>2
      <4>6. \A v \in Worker : pc'[v] \in Parsing => v = w
        BY <1>b, <3>1 DEF Critical
      <4> QED BY <3>1, <4>4, <4>5, <4>6 DEF BreadthFirst
    <3> QED BY <2>2, <3>2, <3>3 DEF PushSubLink, push
  <2>3. CASE Lock(w) \/ TestEmpty(w) \/ Wait(w) \/ Unlock(w)
    BY <1>d, <2>3 DEF Lock, TestEmpty, Wait, Unlock, Parsing
  <2>4. CASE FetchOk(w) \/ FetchNothing(w) \/ AddLink(w)
    BY <1>d, <2>4 DEF FetchOk, FetchNothing, AddLink, Parsing
  <2>5. CASE ExtractLinks(w) \/ EndPush(w) \/ Throw(w)
    BY <1>d, <2>5 DEF ExtractLinks, EndPush, Throw, threadVars, Parsing
  <2> QED BY <1>3, <2>1, <2>2, <2>3, <2>4, <2>5 DEF doWork
<1>4. CASE UNCHANGED vars
  BY <1>d, <1>4 DEF vars, threadVars
<1> QED BY <1>1, <1>2, <1>3, <1>4 DEF Next

\* The pool takes pages in breadth-first order: at most two levels are queued,
\* the nearer first, and the page in work is at the nearer one.
THEOREM BreadthFirstOrder == Spec => []BreadthFirst
<1>1. Init => BreadthFirst
  BY DEF Init, BreadthFirst, Parsing
<1>2. OrderInv /\ [Next]_vars => OrderInv'
  BY PoolInvStep, BreadthFirstStep DEF OrderInv
<1>3. Init => OrderInv
  BY <1>1, PoolInvInit DEF OrderInv
<1>4. OrderInv => BreadthFirst
  BY DEF OrderInv
<1> QED BY <1>2, <1>3, <1>4, PTL DEF Spec

-------------------------------------------------------------------------------
(* Depth *)

LEMMA MaxHopsNat == MaxHops \in Nat /\ RecursionDepth <= MaxHops
BY CrawlerAssumption DEF MaxHops

\* The start page is reached without a hop.
LEMMA WithinStart == StartPage \in Within(0, {})
<1> DEFINE p == [i \in 0..0 |-> StartPage]
<1>1. p \in [0..0 -> Url] /\ p[0] = StartPage /\ IsTrail(p, 0, {})
  BY CrawlerAssumption DEF IsTrail
<1>2. 0 \in 0..0 OBVIOUS
<1> QED BY <1>1, <1>2, CrawlerAssumption DEF Within

\* Allowing more hops loses no page.
LEMMA WithinMonotone ==
  ASSUME NEW n \in Nat, NEW m \in Nat, n <= m
  PROVE  Within(n, {}) \subseteq Within(m, {})
<1>1. 0..n \subseteq 0..m OBVIOUS
<1> QED BY <1>1 DEF Within

\* A link of a page reached in n hops is reached in n + 1.
LEMMA WithinHop ==
  ASSUME NEW n \in Nat, NEW u \in Within(n, {}), NEW v \in Url,
         NEW j \in DOMAIN Links[u], v = Links[u][j]
  PROVE  v \in Within(n + 1, {})
<1>1. PICK k \in 0..n : \E p \in [0..k -> Url] : IsTrail(p, k, {}) /\ p[k] = u
  BY DEF Within
<1>2. PICK p \in [0..k -> Url] : IsTrail(p, k, {}) /\ p[k] = u
  BY <1>1
<1> DEFINE q == [i \in 0..(k + 1) |-> IF i = k + 1 THEN v ELSE p[i]]
<1>3. q \in [0..(k + 1) -> Url]
  <2> SUFFICES ASSUME NEW i \in 0..(k + 1), i # k + 1 PROVE p[i] \in Url
    OBVIOUS
  <2>1. i \in 0..k OBVIOUS
  <2> QED BY <2>1
<1>4. q[k + 1] = v OBVIOUS
<1>5. IsTrail(q, k + 1, {})
  <2>1. q[0] = StartPage
    BY <1>2 DEF IsTrail
  <2>2. ASSUME NEW i \in 0..k
        PROVE  \E l \in DOMAIN Links[q[i]] : q[i + 1] = Links[q[i]][l]
    <3>1. CASE i = k
      <4>1. q[i] = u /\ q[i + 1] = v
        BY <1>2, <3>1
      <4> QED BY <4>1
    <3>2. CASE i # k
      <4>1. i \in 0..(k - 1) /\ q[i] = p[i] /\ q[i + 1] = p[i + 1]
        BY <3>2
      <4> QED BY <1>2, <4>1 DEF IsTrail
    <3> QED BY <3>1, <3>2
  <2>3. (k + 1) - 1 = k OBVIOUS
  <2> QED BY <2>1, <2>2, <2>3 DEF IsTrail
<1>6. k + 1 \in 0..(n + 1) OBVIOUS
<1> HIDE DEF q
<1> QED BY <1>3, <1>4, <1>5, <1>6 DEF Within

LEMMA FirstPosition == Position(FirstItem)
BY WithinStart, MaxHopsNat, CrawlerAssumption DEF Position, FirstItem

\* The item doWork pushes for a link of a page that may be left.
LEMMA NextPosition ==
  ASSUME NEW item \in QueueItem, Position(item), item.dept > 0,
         NEW j \in DOMAIN Links[item.url]
  PROVE  Position([url |-> Links[item.url][j], dept |-> item.dept - 1])
<1> DEFINE n == RecursionDepth - item.dept
<1>1. n \in Nat /\ n + 1 \in 0..MaxHops /\ RecursionDepth - (item.dept - 1) = n + 1
  BY MaxHopsNat, CrawlerAssumption DEF Position, QueueItem
<1>2. Links[item.url][j] \in Url
  BY CrawlerAssumption DEF QueueItem
<1>3. item.url \in Within(n, {})
  BY DEF Position
<1>4. Links[item.url][j] \in Within(n + 1, {})
  BY <1>1, <1>2, <1>3, WithinHop
<1> QED BY <1>1, <1>4 DEF Position

DepthInv == PoolInv /\ ItemsReached /\ DepthRespected

LEMMA DepthInvStep ==
  DepthInv /\ [Next]_vars => ItemsReached' /\ DepthRespected'
<1> SUFFICES ASSUME DepthInv, [Next]_vars PROVE ItemsReached' /\ DepthRespected'
  OBVIOUS
<1>0. /\ works \in Seq(QueueItem)
      /\ pc \in [Worker -> Place]
      /\ work \in [Worker -> QueueItem]
      /\ sub \in [Worker -> Seq(Url)]
  BY DEF DepthInv, PoolInv, TypeOK
<1> USE <1>0 DEF Goto
<1>a. ItemsReached /\ DepthRespected BY DEF DepthInv
\* Steps that neither touch the queue nor begin or end a page.
<1>b. ASSUME works' = works, work' = work, sub' = sub, popped' = popped,
             urls' = urls, prior' = prior,
             \A w \in Worker : pc'[w] \in Parsing => pc[w] \in Parsing,
             \A w \in Worker : pc'[w] = "push" => pc[w] = "push"
      PROVE  ItemsReached' /\ DepthRespected'
  BY <1>a, <1>b DEF ItemsReached, DepthRespected, Position
<1>1. CASE main
  <2>1. CASE PushFirst
    <3>1. /\ works' = <<FirstItem>> /\ pc' = pc /\ work' = work /\ sub' = sub
          /\ popped' = popped /\ urls' = urls /\ prior' = prior
      BY <2>1 DEF PushFirst, push, threadVars, historyVars, DepthInv, PoolInv,
                  MainFirst, empty
    <3> QED BY <1>a, <3>1, FirstPosition DEF ItemsReached, DepthRespected, Position
  <2>2. CASE Connect \/ MainThrows \/ Join
    BY <1>b, <2>2 DEF Connect, MainThrows, Join, threadVars, historyVars
  <2>3. ASSUME NEW w \in Worker, Spawn(w) PROVE ItemsReached' /\ DepthRespected'
    BY <1>b, <2>3 DEF Spawn, Parsing, historyVars
  <2> QED BY <1>1, <2>1, <2>2, <2>3 DEF main
<1>2. CASE Restart
  BY <1>2 DEF Restart, ItemsReached, DepthRespected, Parsing
<1>3. ASSUME NEW w \in Worker, doWork(w) PROVE ItemsReached' /\ DepthRespected'
  <2>1. CASE Pop(w)
    <3>1. /\ works # <<>> /\ works' = Tail(works)
          /\ work' = [work EXCEPT ![w] = Head(works)]
          /\ pc' = [pc EXCEPT ![w] = "parse"]
          /\ popped' = popped \cup {Head(works)}
          /\ sub' = sub /\ urls' = urls /\ prior' = prior
      BY <2>1 DEF Pop, pop, front, empty
    <3>2. Position(Head(works))
      BY <1>a, <3>1 DEF ItemsReached
    <3>3. \A i \in DOMAIN works' : Position(works'[i])
      <4>1. \A i \in DOMAIN works' : i + 1 \in DOMAIN works /\ works'[i] = works[i + 1]
        BY <3>1
      <4> QED BY <1>a, <4>1 DEF ItemsReached
    <3> QED BY <1>a, <3>1, <3>2, <3>3 DEF ItemsReached, DepthRespected, Position
  <2>2. CASE AddLink(w)
    <3>1. /\ urls' = urls \cup {work[w].url} /\ prior' = prior
          /\ works' = works /\ work' = work /\ sub' = sub /\ popped' = popped
          /\ pc' = [pc EXCEPT ![w] = "links"] /\ pc[w] \in Parsing
      BY <2>2 DEF AddLink, historyVars, Parsing
    <3>2. work[w].url \in Within(MaxHops, {})
      <4> DEFINE n == RecursionDepth - work[w].dept
      <4>1. n \in 0..MaxHops /\ work[w].url \in Within(n, {})
        BY <1>a, <3>1 DEF ItemsReached, Position
      <4>2. n \in Nat /\ MaxHops \in Nat /\ n <= MaxHops
        BY <4>1, MaxHopsNat
      <4> HIDE DEF n
      <4> QED BY <4>1, <4>2, WithinMonotone
    <3>3. ItemsReached'
      BY <1>a, <3>1 DEF ItemsReached, Position
    <3> QED BY <1>a, <3>1, <3>2, <3>3 DEF DepthRespected, Position
  <2>3. CASE ExtractLinks(w)
    <3>1. /\ works' = works /\ work' = work /\ popped' = popped
          /\ urls' = urls /\ prior' = prior /\ pc[w] \in Parsing
          /\ \A v \in Worker : v # w => pc'[v] = pc[v] /\ sub'[v] = sub[v]
          /\ pc'[w] = "push" => work[w].dept > 0 /\ sub'[w] = Links[work[w].url]
      BY <2>3 DEF ExtractLinks, historyVars, Parsing
    <3>2. \A i \in DOMAIN works' : Position(works'[i])
      BY <1>a, <3>1 DEF ItemsReached
    <3>3. ASSUME NEW v \in Worker, pc'[v] \in Parsing PROVE Position(work'[v])
      <4>1. pc[v] \in Parsing
        BY <3>1, <3>3
      <4> QED BY <1>a, <3>1, <4>1 DEF ItemsReached
    <3>4. ASSUME NEW v \in Worker, pc'[v] = "push", NEW k \in DOMAIN sub'[v]
          PROVE  \E j \in DOMAIN Links[work'[v].url] :
                   sub'[v][k] = Links[work'[v].url][j]
      <4>1. CASE v = w
        BY <3>1, <3>4, <4>1
      <4>2. CASE v # w
        <5>1. pc[v] = "push" /\ sub'[v] = sub[v] /\ work'[v] = work[v]
          BY <3>1, <3>4, <4>2
        <5>2. \E j \in DOMAIN Links[work[v].url] : sub[v][k] = Links[work[v].url][j]
          BY <1>a, <3>4, <5>1 DEF ItemsReached
        <5> QED BY <5>1, <5>2
      <4> QED BY <4>1, <4>2
    <3>5. ASSUME NEW v \in Worker, pc'[v] = "push" PROVE work'[v].dept > 0
      BY <1>a, <3>1, <3>5 DEF ItemsReached
    <3>6. ItemsReached'
      BY <3>2, <3>3, <3>4, <3>5, Zenon DEF ItemsReached, Position
    <3> QED BY <1>a, <3>1, <3>6 DEF DepthRespected, Position
  <2>4. CASE PushSubLink(w)
    <3>1. /\ pc' = pc /\ work' = work /\ popped' = popped /\ urls' = urls
          /\ prior' = prior /\ sub' = [sub EXCEPT ![w] = Tail(sub[w])]
          /\ sub[w] # <<>> /\ pc[w] = "push"
          /\ works' = works \/ works' = Append(works, SubItem(w))
      BY <2>4 DEF PushSubLink, push, historyVars
    <3>2. Position(SubItem(w))
      <4>1. work[w] \in QueueItem /\ Position(work[w]) /\ work[w].dept > 0
        BY <1>a, <3>1 DEF ItemsReached, Parsing
      <4>2. PICK j \in DOMAIN Links[work[w].url] : sub[w][1] = Links[work[w].url][j]
        BY <1>a, <3>1 DEF ItemsReached
      <4>3. Head(sub[w]) = Links[work[w].url][j]
        BY <3>1, <4>2
      <4> QED BY <4>1, <4>3, NextPosition DEF SubItem
    <3>3. \A i \in DOMAIN works' : Position(works'[i])
      <4>1. CASE works' = works
        BY <1>a, <4>1 DEF ItemsReached
      <4>2. CASE works' = Append(works, SubItem(w))
        <5>1. ASSUME NEW i \in DOMAIN works'
              PROVE  (i \in DOMAIN works /\ works'[i] = works[i]) \/ works'[i] = SubItem(w)
          BY <4>2
        <5> QED BY <1>a, <3>2, <5>1 DEF ItemsReached
      <4> QED BY <3>1, <4>1, <4>2
    <3>4. \A v \in Worker : \A k \in DOMAIN sub'[v] : pc[v] = "push" =>
            \E l \in DOMAIN sub[v] : sub'[v][k] = sub[v][l]
      <4>1. \A k \in DOMAIN Tail(sub[w]) :
              k + 1 \in DOMAIN sub[w] /\ Tail(sub[w])[k] = sub[w][k + 1]
        BY <3>1
      <4> QED BY <3>1, <4>1
    <3>5. ASSUME NEW v \in Worker, pc[v] = "push", NEW k \in DOMAIN sub'[v]
          PROVE  \E j \in DOMAIN Links[work[v].url] : sub'[v][k] = Links[work[v].url][j]
      <4>1. PICK l \in DOMAIN sub[v] : sub'[v][k] = sub[v][l]
        BY <3>4, <3>5
      <4>2. \E j \in DOMAIN Links[work[v].url] : sub[v][l] = Links[work[v].url][j]
        BY <1>a, <3>5 DEF ItemsReached
      <4> QED BY <4>1, <4>2
    <3>6. \A v \in Worker :
            /\ pc[v] \in Parsing => Position(work[v])
            /\ pc[v] = "push" => work[v].dept > 0
      BY <1>a DEF ItemsReached
    <3>7. ItemsReached'
      <4>1. \A v \in Worker : pc'[v] = pc[v] /\ work'[v] = work[v]
        BY <3>1
      <4>2. ASSUME NEW v \in Worker, pc'[v] = "push", NEW k \in DOMAIN sub'[v]
            PROVE  \E j \in DOMAIN Links[work'[v].url] :
                     sub'[v][k] = Links[work'[v].url][j]
        <5>1. pc[v] = "push" /\ work'[v] = work[v]
          BY <4>1, <4>2
        <5>2. \E j \in DOMAIN Links[work[v].url] : sub'[v][k] = Links[work[v].url][j]
          BY <3>5, <5>1
        <5> QED BY <5>1, <5>2
      <4>3. \A v \in Worker : pc'[v] \in Parsing => Position(work'[v])
        BY <3>6, <4>1
      <4>4. \A v \in Worker : pc'[v] = "push" => work'[v].dept > 0
        BY <3>6, <4>1
      <4> QED BY <3>3, <4>2, <4>3, <4>4, Zenon DEF ItemsReached, Position
    <3> QED BY <1>a, <3>1, <3>7 DEF DepthRespected, Position
  <2>5. CASE Lock(w) \/ TestEmpty(w) \/ Wait(w) \/ Unlock(w)
    BY <1>b, <2>5 DEF Lock, TestEmpty, Wait, Unlock, Parsing, historyVars
  <2>6. CASE FetchOk(w) \/ FetchNothing(w)
    BY <1>b, <2>6 DEF FetchOk, FetchNothing, Parsing, historyVars
  <2>7. CASE EndPush(w) \/ Throw(w)
    BY <1>b, <2>7 DEF EndPush, Throw, threadVars, Parsing, historyVars
  <2> QED BY <1>3, <2>1, <2>2, <2>3, <2>4, <2>5, <2>6, <2>7 DEF doWork
<1>4. CASE UNCHANGED vars
  BY <1>b, <1>4 DEF vars, threadVars, historyVars
<1> QED BY <1>1, <1>2, <1>3, <1>4 DEF Next

\* The crawl stays within the configured depth: every page taken lies at
\* most as many hops away as its item says, and every page indexed lies within
\* MaxHops hops of the start page.
THEOREM DepthBound == Spec => []DepthRespected
<1>1. Init => DepthInv
  BY PoolInvInit DEF DepthInv, Init, ItemsReached, DepthRespected, Parsing
<1>2. DepthInv /\ [Next]_vars => DepthInv'
  BY PoolInvStep, DepthInvStep DEF DepthInv
<1>3. DepthInv => DepthRespected
  BY DEF DepthInv
<1> QED BY <1>1, <1>2, <1>3, PTL DEF Spec
===============================================================================
