---------------------------- MODULE DB_ClientProofs ----------------------------
(***************************************************************************)
(* Proofs about DB_Client, for any number of crawlers, pages and words.    *)
(*                                                                         *)
(* The argument is ownership.  A url is inserted by one call only, because *)
(* the row is unique and an uncommitted row keeps others waiting.  From    *)
(* its commit until it returns or fails, that call is the only one that    *)
(* writes rows of the url, and what it has written is determined by the    *)
(* words it has visited (Owner, SoleOwner, Unborn).  A statement that      *)
(* outlives its call can only add the next row of the url that call owned, *)
(* and nobody owns that url any more (Leftover).                           *)
(***************************************************************************)
EXTENDS DB_Client, TLAPS

\* What InsertPair does when the table accepts the pair.
StoresPair(c, w) ==
  /\ qty' = [qty EXCEPT ![link[c]][w] = words[c][w]]
  /\ todo' = [todo EXCEPT ![c] = @ \ {w}]
  /\ pc' = [pc EXCEPT ![c] = "findKeyword"]
  /\ abandoned' = abandoned

LEMMA PairCases ==
  ASSUME NEW c \in Client, InsertPair(c)
  PROVE  \/ /\ Throw(c)
            /\ abandoned' = abandoned \cup {link[c]}
            /\ qty' = qty
         \/ \E w \in todo[c] : IsNext(c, w) /\ ~PairRefused(link[c], w) /\ StoresPair(c, w)
BY DEF InsertPair, StoresPair, Goto

LEMMA TypeCorrectStep == TypeOK /\ [Next]_vars => TypeOK'
<1> SUFFICES ASSUME TypeOK, [Next]_vars PROVE TypeOK'
  OBVIOUS
<1> USE DBAssumption DEF TypeOK, Goto, Throw, Place, Filling, tableVars, callVars, lateVars, historyVars
<1>1. ASSUME NEW c \in Client, Step(c) PROVE TypeOK'
  <2>1. ASSUME NEW l \in Link, NEW t \in Texts, Call(c, l, t) PROVE TypeOK'
    BY <2>1 DEF Call
  <2>2. CASE FindUrl(c)
    BY <2>2 DEF FindUrl
  <2>3. CASE InsertUrl(c)
    BY <2>3 DEF InsertUrl
  <2>4. CASE CommitUrl(c)
    BY <2>4 DEF CommitUrl
  <2>5. CASE FindKeyword(c)
    BY <2>5 DEF FindKeyword
  <2>6. CASE InsertKeyword(c)
    <3>1. PICK w \in todo[c] :
            /\ keywords' = keywords \cup {w}
            /\ \/ Throw(c) /\ abandoned' = abandoned \cup {link[c]}
               \/ Goto(c, "insertPair") /\ UNCHANGED <<todo, abandoned>>
      BY <2>6 DEF InsertKeyword
    <3>2. urls' = urls /\ qty' = qty /\ UNCHANGED <<link, words, calls, lateVars, text>>
      BY <2>6 DEF InsertKeyword
    <3> QED BY <3>1, <3>2
  <2>7. CASE InsertPair(c)
    <3>1. UNCHANGED <<urls, keywords, link, words, calls, lateVars, text>>
      BY <2>7 DEF InsertPair
    <3>2. CASE /\ Throw(c)
               /\ abandoned' = abandoned \cup {link[c]}
               /\ qty' = qty
      BY <3>1, <3>2
    <3>3. ASSUME NEW w \in todo[c], StoresPair(c, w) PROVE TypeOK'
      <4>1. words[c][w] \in Nat /\ w \in Word /\ link[c] \in Link
        OBVIOUS
      <4>2. qty' \in [Link -> [Word -> Nat]]
        BY <3>3, <4>1 DEF StoresPair
      <4>3. todo' \in [Client -> SUBSET Word]
        BY <3>3 DEF StoresPair
      <4>4. pc' \in [Client -> Place] /\ abandoned' \subseteq Link
        BY <3>3 DEF StoresPair
      <4> QED BY <3>1, <4>2, <4>3, <4>4
    <3>4. \/ /\ Throw(c)
             /\ abandoned' = abandoned \cup {link[c]}
             /\ qty' = qty
          \/ \E w \in todo[c] : StoresPair(c, w)
      BY <2>7, PairCases, Zenon
    <3> QED BY <3>2, <3>3, <3>4, Zenon
  <2>8. CASE Return(c) \/ Restart(c)
    BY <2>8 DEF Return, Restart
  <2>9. CASE Fail(c)
    BY <2>9 DEF Fail
  <2>10. CASE FailLate(c)
    <3>1. UNCHANGED <<tableVars, link, words, calls, text>> /\ Throw(c)
      BY <2>10 DEF FailLate
    <3>2. \A w \in todo[c] :
            w \in Word /\ <<link[c], w, words[c][w]>> \in Link \X Word \X Nat
      OBVIOUS
    <3>3. lateUrls' \subseteq Link /\ lateKeywords' \subseteq Word
      BY <2>10, <3>2 DEF FailLate
    <3>4. \/ latePairs' = latePairs
          \/ \E w \in todo[c] : latePairs' = latePairs \cup {<<link[c], w, words[c][w]>>}
      BY <2>10 DEF FailLate
    <3>5. latePairs' \subseteq Link \X Word \X Nat
      BY <3>2, <3>4
    <3>6. abandoned' \subseteq Link
      BY <2>10 DEF FailLate
    <3> QED BY <3>1, <3>3, <3>5, <3>6
  <2> QED
    BY <1>1, <2>1, <2>2, <2>3, <2>4, <2>5, <2>6, <2>7, <2>8, <2>9, <2>10
       DEF Step, addLink
<1>2. ASSUME NEW l \in Link, LateUrl(l) PROVE TypeOK'
  BY <1>2 DEF LateUrl
<1>3. ASSUME NEW w \in Word, LateKeyword(w) PROVE TypeOK'
  BY <1>3 DEF LateKeyword
<1>4. ASSUME NEW p \in latePairs, LatePair(p[1], p[2], p[3]) PROVE TypeOK'
  <2>1. p[1] \in Link /\ p[2] \in Word /\ p[3] \in Nat
    OBVIOUS
  <2>2. qty' \in [Link -> [Word -> Nat]]
    <3>1. [qty EXCEPT ![p[1]][p[2]] = p[3]] \in [Link -> [Word -> Nat]]
      BY <2>1
    <3>2. qty' = qty \/ qty' = [qty EXCEPT ![p[1]][p[2]] = p[3]]
      BY <1>4 DEF LatePair
    <3> QED BY <3>1, <3>2
  <2>3. latePairs' \subseteq Link \X Word \X Nat
    BY <1>4 DEF LatePair
  <2> QED BY <1>4, <2>2, <2>3 DEF LatePair
<1>5. CASE UNCHANGED vars
  BY <1>5 DEF vars
<1> QED BY <1>1, <1>2, <1>3, <1>4, <1>5 DEF Next, Late

LEMMA TypeCorrectInit == Init => TypeOK
BY DBAssumption DEF Init, TypeOK, NoWords, Place

\* The tables, the clients' variables and the history keep their types
\* through every call, failure and restart.
THEOREM TypeCorrect == Spec => []TypeOK
BY TypeCorrectInit, TypeCorrectStep, PTL DEF Spec

-------------------------------------------------------------------------------
(* Ownership *)

OwnInv == TypeOK /\ Owner /\ SoleOwner /\ Unborn /\ Leftover

LEMMA OwnInvInit == Init => OwnInv
<1> SUFFICES ASSUME Init PROVE OwnInv
  OBVIOUS
<1>1. TypeOK BY TypeCorrectInit
<1>2. \A c \in Client : pc[c] = "idle"
  BY DEF Init
<1> QED BY <1>1, <1>2 DEF Init, OwnInv, Owner, SoleOwner, Unborn, Leftover, Filling

LEMMA OwnInvStep == OwnInv /\ [Next]_vars => OwnInv'
<1> SUFFICES ASSUME OwnInv, [Next]_vars PROVE OwnInv'
  OBVIOUS
<1>t. TypeOK /\ TypeOK'
  BY TypeCorrectStep DEF OwnInv
<1>0. /\ qty \in [Link -> [Word -> Nat]]
      /\ pc \in [Client -> Place]
      /\ link \in [Client -> Link]
      /\ words \in [Client -> [Word -> Nat]]
      /\ todo \in [Client -> SUBSET Word]
      /\ text \in [Link -> [Word -> Nat]]
  BY <1>t DEF TypeOK
<1>a. Owner /\ SoleOwner /\ Unborn /\ Leftover
  BY DEF OwnInv
<1> USE <1>0 DEF Goto, Throw
\* A step that writes no row of the index and claims no url.
<1>b. ASSUME urls' = urls, qty' = qty, text' = text, link' = link, words' = words,
             lateUrls' = lateUrls, latePairs' = latePairs,
             \A c \in Client : pc'[c] \in Filling => todo'[c] = todo[c],
             \A c \in Client : pc'[c] \in Filling => pc[c] \in Filling,
             \A c \in Client : pc'[c] = "commitUrl" => pc[c] = "commitUrl",
             \A c \in Client : pc'[c] \in Filling => link[c] \notin abandoned',
             abandoned \subseteq abandoned', abandoned' \subseteq urls
      PROVE  OwnInv'
  <2>1. Owner'
    BY <1>a, <1>b DEF Owner
  <2>2. SoleOwner'
    BY <1>a, <1>b DEF SoleOwner
  <2>3. Unborn'
    BY <1>a, <1>b DEF Unborn
  <2>4. Leftover'
    BY <1>a, <1>b DEF Leftover
  <2> QED BY <1>t, <2>1, <2>2, <2>3, <2>4 DEF OwnInv
\* The step of the owner of a url does not touch the url of another client.
<1>c. ASSUME NEW c \in Client, NEW d \in Client, c # d,
             pc[c] \in Filling \cup {"commitUrl"}, pc[d] \in Filling
      PROVE  link[c] # link[d]
  BY <1>a, <1>c DEF SoleOwner
\* A client gives up the url it owns, and may leave a pair behind.
<1>d. ASSUME NEW c \in Client, pc[c] \in Filling,
             pc' = [pc EXCEPT ![c] = "failed"],
             abandoned' = abandoned \cup {link[c]},
             UNCHANGED <<urls, qty, text, link, words, lateUrls>>,
             \A d \in Client : d # c => todo'[d] = todo[d],
             latePairs' \subseteq latePairs \cup {<<link[c], w, words[c][w]>> : w \in todo[c]}
      PROVE  OwnInv'
  <2>1. \A d \in Client : pc'[d] \in Filling => link[d] \notin abandoned'
    BY <1>a, <1>c, <1>d DEF Owner, Filling
  <2>2. abandoned' \subseteq urls
    BY <1>a, <1>d DEF Owner, Unborn
  <2>3. Owner'
    BY <1>a, <1>d, <2>1 DEF Owner, Filling
  <2>4. SoleOwner'
    BY <1>a, <1>d DEF SoleOwner, Filling
  <2>5. Unborn'
    BY <1>a, <1>d, <2>2 DEF Unborn
  <2>6. Leftover'
    BY <1>a, <1>d DEF Leftover, Owner
  <2> QED BY <1>t, <2>3, <2>4, <2>5, <2>6 DEF OwnInv
<1>1. ASSUME NEW c \in Client, Step(c) PROVE OwnInv'
  <2>1. ASSUME NEW l \in Link, NEW t \in Texts, Call(c, l, t) PROVE OwnInv'
    <3>1. /\ urls' = urls /\ qty' = qty /\ text' = text /\ abandoned' = abandoned
          /\ todo' = todo /\ pc' = [pc EXCEPT ![c] = "findUrl"]
          /\ lateUrls' = lateUrls /\ latePairs' = latePairs
          /\ \A d \in Client : d # c => link'[d] = link[d] /\ words'[d] = words[d]
      BY <2>1 DEF Call, tableVars, lateVars, historyVars
    <3>2. Owner'
      BY <1>a, <3>1 DEF Owner, Filling
    <3>3. SoleOwner'
      BY <1>a, <3>1 DEF SoleOwner, Filling
    <3>4. Unborn'
      BY <1>a, <3>1 DEF Unborn
    <3>5. Leftover'
      BY <1>a, <3>1 DEF Leftover
    <3> QED BY <1>t, <3>2, <3>3, <3>4, <3>5 DEF OwnInv
  <2>2. CASE FindUrl(c) \/ Return(c) \/ Restart(c)
    BY <1>a, <1>b, <2>2
       DEF FindUrl, Return, Restart, Filling, tableVars, callVars, lateVars, historyVars,
           Owner, Unborn
  <2>3. CASE InsertUrl(c)
    <3>1. /\ UNCHANGED <<urls, qty, link, words, todo, abandoned, lateUrls, latePairs>>
          /\ link[c] \notin lateUrls
          /\ \A d \in Client : ~(pc[d] = "commitUrl" /\ link[d] = link[c])
          /\ \/ /\ link[c] \in urls /\ pc' = [pc EXCEPT ![c] = "failed"]
                /\ text' = text
             \/ /\ link[c] \notin urls /\ pc' = [pc EXCEPT ![c] = "commitUrl"]
                /\ text' = [text EXCEPT ![link[c]] = words[c]]
      BY <2>3 DEF InsertUrl, RowPending, tableVars, callVars, lateVars
    <3>2. Owner'
      BY <1>a, <3>1 DEF Owner, Filling
    <3>3. SoleOwner'
      BY <1>a, <3>1 DEF SoleOwner, Owner, Filling
    <3>4. Unborn'
      BY <1>a, <3>1 DEF Unborn
    <3>5. Leftover'
      <4> SUFFICES ASSUME NEW p \in latePairs
                   PROVE  /\ p[1] \in abandoned /\ qty[p[1]][p[2]] = 0
                          /\ p[3] = text'[p[1]][p[2]]
        BY <3>1 DEF Leftover
      <4>1. /\ p[1] \in abandoned /\ p[1] \in urls /\ p[1] \in Link
            /\ qty[p[1]][p[2]] = 0 /\ p[3] = text[p[1]][p[2]]
        BY <1>t, <1>a DEF Leftover, Unborn, TypeOK
      <4>2. text'[p[1]] = text[p[1]]
        BY <3>1, <4>1
      <4> QED BY <4>1, <4>2
    <3> QED BY <1>t, <3>2, <3>3, <3>4, <3>5 DEF OwnInv
  <2>4. CASE CommitUrl(c)
    <3>1. /\ pc[c] = "commitUrl" /\ pc' = [pc EXCEPT ![c] = "findKeyword"]
          /\ urls' = urls \cup {link[c]}
          /\ todo' = [todo EXCEPT ![c] = {w \in Word : words[c][w] > 0}]
          /\ UNCHANGED <<qty, link, words, text, abandoned, lateUrls, latePairs>>
      BY <2>4 DEF CommitUrl, lateVars, historyVars
    <3>2. Owner'
      <4> SUFFICES ASSUME NEW d \in Client, pc'[d] \in Filling
                   PROVE /\ link[d] \in urls' \ abandoned
                         /\ text[link[d]] = words[d]
                         /\ \A w \in Word :
                              qty[link[d]][w] = IF w \in todo'[d] THEN 0 ELSE words[d][w]
        BY <3>1 DEF Owner
      <4>1. CASE d = c
        BY <1>a, <3>1, <4>1 DEF Unborn, NoWords
      <4>2. CASE d # c
        BY <1>a, <1>c, <3>1, <4>2 DEF Owner
      <4> QED BY <4>1, <4>2
    <3>3. SoleOwner'
      BY <1>a, <3>1 DEF SoleOwner, Filling
    <3>4. Unborn'
      BY <1>a, <3>1 DEF Unborn, SoleOwner
    <3>5. Leftover'
      BY <1>a, <3>1 DEF Leftover
    <3> QED BY <1>t, <3>2, <3>3, <3>4, <3>5 DEF OwnInv
  <2>5. CASE FindKeyword(c) \/ InsertKeyword(c)
    <3>1. /\ UNCHANGED <<urls, qty, link, words, text, lateUrls, latePairs>>
          /\ pc[c] \in Filling
          /\ \/ Throw(c) /\ abandoned' = abandoned \cup {link[c]}
             \/ /\ \E p \in {"insertPair", "insertKeyword"} : pc' = [pc EXCEPT ![c] = p]
                /\ UNCHANGED <<todo, abandoned>>
      BY <2>5 DEF FindKeyword, InsertKeyword, Filling, tableVars, callVars, lateVars,
                  historyVars
    <3> QED BY <1>a, <1>b, <1>c, <1>d, <3>1 DEF Filling, Owner, Unborn
  <2>6. CASE InsertPair(c)
    <3>1. UNCHANGED <<urls, link, words, text, lateUrls, latePairs>> /\ pc[c] = "insertPair"
      BY <2>6 DEF InsertPair, lateVars
    <3>2. CASE /\ Throw(c)
               /\ abandoned' = abandoned \cup {link[c]}
               /\ qty' = qty
      BY <1>d, <3>1, <3>2 DEF Filling
    <3>3. ASSUME NEW w \in todo[c], StoresPair(c, w) PROVE OwnInv'
      <4>1. /\ \A l \in Link : l # link[c] => qty'[l] = qty[l]
            /\ \A v \in Word : v # w => qty'[link[c]][v] = qty[link[c]][v]
            /\ qty'[link[c]][w] = words[c][w]
            /\ todo'[c] = todo[c] \ {w}
            /\ \A d \in Client : d # c => todo'[d] = todo[d]
            /\ pc' = [pc EXCEPT ![c] = "findKeyword"]
            /\ abandoned' = abandoned
        BY <3>3 DEF StoresPair
      <4>2. Owner'
        <5> SUFFICES ASSUME NEW d \in Client, pc'[d] \in Filling
                     PROVE /\ link[d] \in urls \ abandoned
                           /\ text[link[d]] = words[d]
                           /\ \A v \in Word :
                                qty'[link[d]][v] = IF v \in todo'[d] THEN 0 ELSE words[d][v]
          BY <3>1, <4>1 DEF Owner
        <5>1. CASE d = c
          BY <1>a, <3>1, <4>1, <5>1 DEF Owner, Filling
        <5>2. CASE d # c
          BY <1>a, <1>c, <3>1, <4>1, <5>2 DEF Owner, Filling
        <5> QED BY <5>1, <5>2
      <4>3. SoleOwner'
        BY <1>a, <3>1, <4>1 DEF SoleOwner, Filling
      <4>4. Unborn'
        BY <1>a, <3>1, <4>1 DEF Unborn, Owner, Filling
      <4>5. Leftover'
        <5> SUFFICES ASSUME NEW p \in latePairs
                     PROVE  /\ p[1] \in abandoned /\ qty'[p[1]][p[2]] = 0
                            /\ p[3] = text[p[1]][p[2]]
          BY <3>1, <4>1 DEF Leftover
        <5>1. /\ p[1] \in abandoned /\ p[1] \in urls /\ p[1] \in Link
              /\ qty[p[1]][p[2]] = 0 /\ p[3] = text[p[1]][p[2]]
          BY <1>t, <1>a DEF Leftover, Unborn, TypeOK
        <5>2. link[c] \notin abandoned
          BY <1>a, <3>1 DEF Owner, Filling
        <5> QED BY <4>1, <5>1, <5>2
      <4> QED BY <1>t, <4>2, <4>3, <4>4, <4>5 DEF OwnInv
    <3> QED BY <2>6, <3>2, <3>3, PairCases
  <2>7. CASE Fail(c)
    <3>1. CASE pc[c] \in Filling
      BY <1>d, <2>7, <3>1 DEF Fail, tableVars, callVars, lateVars
    <3>2. CASE pc[c] \notin Filling
      BY <1>a, <1>b, <2>7, <3>2 DEF Fail, tableVars, callVars, lateVars, Filling, Owner, Unborn
    <3> QED BY <3>1, <3>2
  <2>8. CASE FailLate(c)
    <3>1. UNCHANGED <<urls, qty, link, words, text>> /\ Throw(c)
      BY <2>8 DEF FailLate, tableVars
    <3>2. CASE pc[c] = "commitUrl"
      <4>1. /\ lateUrls' = lateUrls \cup {link[c]}
            /\ UNCHANGED <<latePairs, abandoned>>
        BY <2>8, <3>2 DEF FailLate
      <4>2. Owner'
        BY <1>a, <3>1, <4>1 DEF Owner, Filling
      <4>3. SoleOwner'
        BY <1>a, <3>1 DEF SoleOwner, Filling
      <4>4. Unborn'
        BY <1>a, <3>1, <3>2, <4>1 DEF Unborn, SoleOwner
      <4>5. Leftover'
        BY <1>a, <3>1, <4>1 DEF Leftover
      <4> QED BY <1>t, <4>2, <4>3, <4>4, <4>5 DEF OwnInv
    <3>3. CASE pc[c] # "commitUrl"
      <4>1. /\ pc[c] \in Filling /\ lateUrls' = lateUrls
            /\ abandoned' = abandoned \cup {link[c]}
            /\ latePairs' \subseteq latePairs
                             \cup {<<link[c], w, words[c][w]>> : w \in todo[c]}
        BY <2>8, <3>3 DEF FailLate, Filling
      <4> QED BY <1>d, <3>1, <4>1
    <3> QED BY <3>2, <3>3
  <2> QED BY <1>1, <2>1, <2>2, <2>3, <2>4, <2>5, <2>6, <2>7, <2>8 DEF Step, addLink
<1>2. ASSUME NEW l \in Link, LateUrl(l) PROVE OwnInv'
  <2>1. /\ UNCHANGED <<qty, pc, link, words, todo, text, latePairs>>
        /\ l \in lateUrls /\ lateUrls' = lateUrls \ {l}
        /\ \/ urls' = urls \cup {l} /\ abandoned' = abandoned \cup {l}
           \/ UNCHANGED <<urls, abandoned>>
    BY <1>2 DEF LateUrl, callVars
  <2>2. Owner'
    BY <1>a, <2>1 DEF Owner, Unborn
  <2>3. SoleOwner'
    BY <1>a, <2>1 DEF SoleOwner
  <2>4. Unborn'
    BY <1>a, <2>1 DEF Unborn
  <2>5. Leftover'
    BY <1>a, <2>1 DEF Leftover
  <2> QED BY <1>t, <2>2, <2>3, <2>4, <2>5 DEF OwnInv
<1>3. ASSUME NEW w \in Word, LateKeyword(w) PROVE OwnInv'
  BY <1>a, <1>b, <1>3 DEF LateKeyword, callVars, historyVars, Owner, Unborn
<1>4. ASSUME NEW p \in latePairs, LatePair(p[1], p[2], p[3]) PROVE OwnInv'
  <2> DEFINE l == p[1]
             w == p[2]
  <2>0. l \in Link /\ w \in Word /\ p = <<l, w, p[3]>>
    BY <1>t DEF TypeOK
  <2>1. /\ UNCHANGED <<urls, pc, link, words, todo, text, abandoned, lateUrls>>
        /\ latePairs' = latePairs \ {p}
        /\ qty' = qty \/ qty' = [qty EXCEPT ![l][w] = p[3]]
    BY <1>4, <2>0 DEF LatePair, callVars, historyVars
  <2> HIDE DEF l, w
  <2>2. l \in abandoned /\ l \in urls
    BY <1>a DEF Leftover, Unborn, l
  <2>3. \A m \in Link : \A v \in Word : m # l \/ v # w => qty'[m][v] = qty[m][v]
    BY <2>0, <2>1
  <2>4. Owner'
    BY <1>a, <2>1, <2>2, <2>3 DEF Owner
  <2>5. SoleOwner'
    BY <1>a, <2>1 DEF SoleOwner
  <2>6. \A m \in Link \ urls : qty'[m] = qty[m]
    BY <2>0, <2>1, <2>2
  <2>7. Unborn'
    BY <1>a, <2>1, <2>6 DEF Unborn
  <2>8. Leftover'
    <3> SUFFICES ASSUME NEW q \in latePairs, q # p
                 PROVE  q[1] \in abandoned /\ qty'[q[1]][q[2]] = 0 /\ q[3] = text[q[1]][q[2]]
      BY <2>1 DEF Leftover
    <3>1. /\ q[1] \in Link /\ q[2] \in Word /\ q = <<q[1], q[2], q[3]>>
          /\ p = <<p[1], p[2], p[3]>>
      BY <1>t DEF TypeOK
    <3>2. /\ q[1] \in abandoned /\ qty[q[1]][q[2]] = 0 /\ q[3] = text[q[1]][q[2]]
          /\ p[3] = text[p[1]][p[2]]
      BY <1>a DEF Leftover
    <3>3. q[1] # l \/ q[2] # w
      BY <3>1, <3>2 DEF l, w
    <3> QED BY <2>3, <3>1, <3>2, <3>3
  <2> QED BY <1>t, <2>4, <2>5, <2>7, <2>8 DEF OwnInv
<1>5. CASE UNCHANGED vars
  BY <1>a, <1>b, <1>5 DEF vars, tableVars, callVars, lateVars, historyVars, Owner, Unborn
<1> QED BY <1>1, <1>2, <1>3, <1>4, <1>5 DEF Next, Late

\* No two crawlers are ever past the insertion of the same url.
THEOREM OneOwner == Spec => []SoleOwner
<1>1. OwnInv => SoleOwner
  BY DEF OwnInv
<1> QED BY <1>1, OwnInvInit, OwnInvStep, PTL DEF Spec

-------------------------------------------------------------------------------
(* What the owner stores *)

LEMMA KeywordKeptStep == OwnInv /\ KeywordKept /\ [Next]_vars => KeywordKept'
<1> SUFFICES ASSUME OwnInv, KeywordKept, [Next]_vars PROVE KeywordKept'
  OBVIOUS
<1>0. /\ pc \in [Client -> Place]
      /\ todo \in [Client -> SUBSET Word]
      /\ link \in [Client -> Link]
      /\ Word \subseteq Nat
  BY DBAssumption DEF OwnInv, TypeOK
<1> USE <1>0 DEF Goto, Throw
\* A client that is not at insertPair afterwards has nothing to show.
<1>a. ASSUME NEW c \in Client, keywords \subseteq keywords',
             latePairs' \subseteq latePairs,
             \A d \in Client : d # c => pc'[d] = pc[d] /\ todo'[d] = todo[d],
             pc'[c] # "insertPair"
      PROVE  KeywordKept'
  BY <1>a DEF KeywordKept, IsNext
\* A client at insertPair has made sure of the word it comes to next.
<1>b. ASSUME NEW c \in Client, keywords \subseteq keywords', todo' = todo,
             latePairs' = latePairs,
             \A d \in Client : d # c => pc'[d] = pc[d],
             NEW w \in todo[c], IsNext(c, w), w \in keywords'
      PROVE  KeywordKept'
  <2>1. \A v \in todo[c] : IsNext(c, v) => v = w
    BY <1>b DEF IsNext
  <2> QED BY <1>b, <2>1 DEF KeywordKept, IsNext
<1>1. ASSUME NEW c \in Client, Step(c) PROVE KeywordKept'
  <2>1. ASSUME NEW l \in Link, NEW t \in Texts, Call(c, l, t) PROVE KeywordKept'
    BY <1>a, <2>1 DEF Call, tableVars, lateVars
  <2>2. CASE FindUrl(c)
    BY <1>a, <2>2 DEF FindUrl, tableVars, callVars, lateVars
  <2>3. CASE InsertUrl(c)
    BY <1>a, <2>3 DEF InsertUrl, tableVars, callVars, lateVars
  <2>4. CASE CommitUrl(c)
    BY <1>a, <2>4 DEF CommitUrl, lateVars
  <2>5. CASE FindKeyword(c)
    <3>1. PICK w \in todo[c] :
            /\ IsNext(c, w)
            /\ Goto(c, IF w \in keywords THEN "insertPair" ELSE "insertKeyword")
      BY <2>5 DEF FindKeyword
    <3>2. keywords' = keywords /\ todo' = todo /\ latePairs' = latePairs
      BY <2>5 DEF FindKeyword, tableVars, callVars, lateVars
    <3>3. CASE w \in keywords
      BY <1>b, <3>1, <3>2, <3>3
    <3>4. CASE w \notin keywords
      BY <1>a, <3>1, <3>2, <3>4
    <3> QED BY <3>3, <3>4
  <2>6. CASE InsertKeyword(c)
    <3>1. PICK w \in todo[c] :
            /\ IsNext(c, w) /\ keywords' = keywords \cup {w}
            /\ Throw(c) \/ (Goto(c, "insertPair") /\ todo' = todo)
      BY <2>6 DEF InsertKeyword
    <3>2. latePairs' = latePairs
      BY <2>6 DEF InsertKeyword, lateVars
    <3> QED BY <1>a, <1>b, <3>1, <3>2
  <2>7. CASE InsertPair(c)
    <3>1. keywords' = keywords /\ latePairs' = latePairs
      BY <2>7 DEF InsertPair, lateVars
    <3>2. CASE Throw(c)
      BY <1>a, <3>1, <3>2
    <3>3. ASSUME NEW w \in todo[c], StoresPair(c, w) PROVE KeywordKept'
      BY <1>a, <3>1, <3>3 DEF StoresPair
    <3>4. \/ Throw(c)
          \/ \E w \in todo[c] : StoresPair(c, w)
      BY <2>7, PairCases, Zenon
    <3> QED BY <3>2, <3>3, <3>4, Zenon
  <2>8. CASE Return(c) \/ Fail(c) \/ Restart(c)
    BY <1>a, <2>8 DEF Return, Fail, Restart, tableVars, callVars, lateVars
  <2>9. CASE FailLate(c)
    <3>1. keywords' = keywords /\ Throw(c)
      BY <2>9 DEF FailLate, tableVars
    <3>2. \A p \in latePairs' : p[2] \in keywords
      BY <2>9 DEF FailLate, KeywordKept
    <3> QED BY <3>1, <3>2 DEF KeywordKept, IsNext
  <2> QED
    BY <1>1, <2>1, <2>2, <2>3, <2>4, <2>5, <2>6, <2>7, <2>8, <2>9 DEF Step, addLink
<1>2. CASE Late \/ UNCHANGED vars
  <2>1. /\ keywords \subseteq keywords' /\ pc' = pc /\ todo' = todo
        /\ latePairs' \subseteq latePairs
    BY <1>2 DEF Late, LateUrl, LateKeyword, LatePair, vars, tableVars, callVars, lateVars
  <2> QED BY <2>1 DEF KeywordKept, IsNext
<1> QED BY <1>1, <1>2 DEF Next

\* addLink never fails on the constraints of keyword_urs_qty.
THEOREM PairsAccepted == Spec => []PairAccepted
<1>1. Init => KeywordKept
  BY DEF Init, KeywordKept
<1>2. OwnInv /\ KeywordKept => PairAccepted
  <2> SUFFICES ASSUME OwnInv, KeywordKept PROVE PairAccepted
    OBVIOUS
  <2>1. ASSUME NEW c \in Client, pc[c] = "insertPair", NEW w \in todo[c], IsNext(c, w)
        PROVE  ~PairRefused(link[c], w)
    <3>1. w \in keywords
      BY <2>1 DEF KeywordKept
    <3>2. w \in Word
      BY DEF OwnInv, TypeOK
    <3>3. link[c] \in urls /\ qty[link[c]][w] = 0
      BY <2>1, <3>2 DEF OwnInv, Owner, Filling
    <3> QED BY <3>1, <3>3 DEF PairRefused
  <2>2. ASSUME NEW p \in latePairs
        PROVE  ~PairRefused(p[1], p[2])
    BY <2>2 DEF KeywordKept, OwnInv, Leftover, Unborn, PairRefused
  <2> QED BY <2>1, <2>2 DEF PairAccepted
<1> QED BY <1>1, <1>2, OwnInvInit, OwnInvStep, KeywordKeptStep, PTL DEF Spec

-------------------------------------------------------------------------------
(* What is in the tables *)

\* The steps of a client that change qty or text.
LEMMA WriterCases ==
  ASSUME NEW c \in Client, Step(c)
  PROVE  InsertPair(c) \/ InsertUrl(c) \/ (qty' = qty /\ text' = text)
BY DEF Step, addLink, Call, FindUrl, CommitUrl, FindKeyword, InsertKeyword,
       Return, Fail, FailLate, Restart, tableVars, historyVars

\* What the server does for a client that is gone: it stores a pair nobody has
\* stored, or no pair at all.  The count that was sent with it is the one on
\* record.
LEMMA LateCases ==
  ASSUME OwnInv, Late
  PROVE  /\ text' = text
         /\ UNCHANGED <<pc, link, words, todo>>
         /\ \/ qty' = qty
            \/ \E p \in latePairs :
                 /\ p[1] \in Link /\ p[2] \in Word /\ qty[p[1]][p[2]] = 0
                 /\ qty' = [qty EXCEPT ![p[1]][p[2]] = text[p[1]][p[2]]]
                 /\ UNCHANGED <<urls, keywords, abandoned>>
<1>1. CASE \E l \in Link : LateUrl(l)
  BY <1>1 DEF LateUrl, callVars
<1>2. CASE \E w \in Word : LateKeyword(w)
  BY <1>2 DEF LateKeyword, callVars, historyVars
<1>3. ASSUME NEW p \in latePairs, LatePair(p[1], p[2], p[3])
      PROVE  /\ text' = text
             /\ UNCHANGED <<pc, link, words, todo>>
             /\ \/ qty' = qty
                \/ /\ p[1] \in Link /\ p[2] \in Word /\ qty[p[1]][p[2]] = 0
                   /\ qty' = [qty EXCEPT ![p[1]][p[2]] = text[p[1]][p[2]]]
                   /\ UNCHANGED <<urls, keywords, abandoned>>
  <2>1. p[1] \in Link /\ p[2] \in Word /\ qty[p[1]][p[2]] = 0 /\ p[3] = text[p[1]][p[2]]
    BY DEF OwnInv, TypeOK, Leftover
  <2> QED BY <1>3, <2>1 DEF LatePair, callVars, historyVars
<1> QED BY <1>1, <1>2, <1>3 DEF Late

LEMMA OneVersionStep == OwnInv /\ OneVersion /\ [Next]_vars => OneVersion'
<1> SUFFICES ASSUME OwnInv, OneVersion, [Next]_vars,
                    NEW l \in Link, NEW v \in Word
             PROVE  qty'[l][v] \in {0, text'[l][v]}
  BY DEF OneVersion
<1>0. TypeOK /\ Owner /\ SoleOwner /\ Unborn /\ qty[l][v] \in {0, text[l][v]}
  BY DEF OwnInv, OneVersion
<1>1. ASSUME NEW c \in Client, Step(c) PROVE qty'[l][v] \in {0, text'[l][v]}
  <2>1. CASE InsertPair(c)
    <3>1. pc[c] = "insertPair" /\ text' = text
      BY <2>1 DEF InsertPair
    <3>2. CASE qty' = qty
      BY <1>0, <3>1, <3>2
    <3>3. ASSUME NEW w \in todo[c], StoresPair(c, w)
          PROVE  qty'[l][v] \in {0, text'[l][v]}
      <4>1. qty' = [qty EXCEPT ![link[c]][w] = words[c][w]]
        BY <3>3 DEF StoresPair
      <4>2. text[link[c]] = words[c]
        BY <1>0, <3>1 DEF Owner, Filling
      <4>3. qty'[l][v] = IF l = link[c] /\ v = w THEN words[c][w] ELSE qty[l][v]
        BY <1>0, <4>1 DEF TypeOK
      <4> QED BY <1>0, <3>1, <4>2, <4>3
    <3>4. qty' = qty \/ \E w \in todo[c] : StoresPair(c, w)
      BY <2>1, PairCases
    <3> QED BY <3>2, <3>3, <3>4
  <2>2. CASE InsertUrl(c)
    <3>1. /\ qty' = qty
          /\ text' = text \/ (/\ link[c] \notin urls
                              /\ text' = [text EXCEPT ![link[c]] = words[c]])
      BY <2>2 DEF InsertUrl, tableVars
    <3>2. CASE l = link[c] /\ link[c] \notin urls
      BY <1>0, <3>1, <3>2 DEF Unborn, NoWords, TypeOK
    <3>3. CASE ~(l = link[c] /\ link[c] \notin urls)
      BY <1>0, <3>1, <3>3 DEF TypeOK
    <3> QED BY <3>2, <3>3
  <2>3. CASE qty' = qty /\ text' = text
    BY <1>0, <2>3
  <2> QED BY <1>1, <2>1, <2>2, <2>3, WriterCases
<1>2. CASE Late
  <2>1. CASE qty' = qty
    BY <1>0, <1>2, <2>1, LateCases
  <2>2. ASSUME NEW m \in Link, NEW w \in Word, qty' = [qty EXCEPT ![m][w] = text[m][w]]
        PROVE  qty'[l][v] \in {0, text'[l][v]}
    <3>1. qty'[l][v] = IF l = m /\ v = w THEN text[m][w] ELSE qty[l][v]
      BY <1>0, <2>2 DEF TypeOK
    <3> QED BY <1>0, <1>2, <3>1, LateCases
  <2> QED BY <1>2, <2>1, <2>2, LateCases
<1>3. CASE UNCHANGED vars
  BY <1>0, <1>3 DEF vars, tableVars, historyVars
<1> QED BY <1>1, <1>2, <1>3 DEF Next

\* The rows of a url come from one download of the page.
THEOREM RowsOfOneVersion == Spec => []OneVersion
<1>1. Init => OneVersion
  BY DEF Init, OneVersion, NoWords
<1> QED BY <1>1, OwnInvInit, OwnInvStep, OneVersionStep, PTL DEF Spec

LEMMA CompleteStep ==
  OwnInv /\ CompleteUnlessAbandoned /\ [Next]_vars => CompleteUnlessAbandoned'
<1> SUFFICES ASSUME OwnInv, CompleteUnlessAbandoned, [Next]_vars,
                    NEW l \in (urls \ abandoned)'
             PROVE  InWork(l)' \/ qty'[l] = text'[l]
  BY DEF CompleteUnlessAbandoned
<1>0. TypeOK /\ Owner /\ SoleOwner /\ Unborn /\ TypeOK'
  BY TypeCorrectStep DEF OwnInv
<1>0a. /\ pc \in [Client -> Place] /\ l \in Link
       /\ \A m \in urls \ abandoned : InWork(m) \/ qty[m] = text[m]
  BY <1>0 DEF TypeOK, CompleteUnlessAbandoned
<1> DEFINE Goal == InWork(l)' \/ qty'[l] = text'[l]
<1> USE <1>0a DEF Goto, Throw
\* Nothing happens to the url or to the call that fills it.
<1>a. ASSUME l \in urls \ abandoned, qty'[l] = qty[l], text'[l] = text[l],
             \A d \in Client : FilledBy(d, l) => FilledBy(d, l)'
      PROVE  Goal
  BY <1>a DEF InWork
<1>1. ASSUME NEW c \in Client, Step(c) PROVE Goal
  <2>1. CASE InsertPair(c)
    <3>1. UNCHANGED <<urls, link, text>> /\ pc[c] = "insertPair"
      BY <2>1 DEF InsertPair
    <3>2. CASE Throw(c) /\ abandoned' = abandoned \cup {link[c]} /\ qty' = qty
      BY <1>a, <3>1, <3>2 DEF FilledBy
    <3>3. ASSUME NEW w \in todo[c], StoresPair(c, w) PROVE Goal
      <4>1. CASE l = link[c]
        BY <3>1, <3>3, <4>1 DEF StoresPair, InWork, FilledBy, Filling
      <4>2. CASE l # link[c]
        BY <1>0, <1>a, <3>1, <3>3, <4>2 DEF StoresPair, FilledBy, TypeOK
      <4> QED BY <4>1, <4>2
    <3>4. \/ Throw(c) /\ abandoned' = abandoned \cup {link[c]} /\ qty' = qty
          \/ \E w \in todo[c] : StoresPair(c, w)
      BY <2>1, PairCases
    <3> QED BY <3>2, <3>3, <3>4
  <2>2. CASE CommitUrl(c)
    <3>1. /\ urls' = urls \cup {link[c]} /\ UNCHANGED <<qty, link, text, abandoned>>
          /\ pc[c] = "commitUrl" /\ pc' = [pc EXCEPT ![c] = "findKeyword"]
      BY <2>2 DEF CommitUrl, historyVars
    <3>2. CASE l = link[c]
      BY <3>1, <3>2 DEF InWork, FilledBy, Filling
    <3>3. CASE l # link[c]
      BY <1>0, <1>a, <3>1, <3>3 DEF FilledBy, Filling, TypeOK
    <3> QED BY <3>2, <3>3
  <2>3. CASE FailLate(c)
    <3>1. /\ UNCHANGED <<urls, qty, link, text>>
          /\ pc' = [pc EXCEPT ![c] = "failed"]
          /\ pc[c] \in Filling => abandoned' = abandoned \cup {link[c]}
          /\ pc[c] \notin Filling => abandoned' = abandoned
      BY <2>3 DEF FailLate, tableVars, callVars, Filling
    <3> QED BY <1>a, <3>1 DEF FilledBy
  <2>4. CASE Return(c)
    <3>1. /\ UNCHANGED <<urls, qty, link, text, abandoned>>
          /\ pc[c] = "findKeyword" /\ todo[c] = {}
          /\ pc' = [pc EXCEPT ![c] = "idle"]
      BY <2>4 DEF Return, tableVars, callVars, historyVars
    <3>2. CASE l = link[c]
      <4>1. text[l] = words[c] /\ \A w \in Word : qty[l][w] = words[c][w]
        BY <1>0, <3>1, <3>2 DEF Owner, Filling
      <4>2. qty[l] = text[l]
        BY <1>0, <4>1 DEF TypeOK
      <4> QED BY <3>1, <4>2
    <3>3. CASE l # link[c]
      BY <1>a, <3>1, <3>3 DEF FilledBy
    <3> QED BY <3>2, <3>3
  <2>5. CASE Fail(c)
    <3>1. /\ UNCHANGED <<urls, qty, link, text>>
          /\ pc' = [pc EXCEPT ![c] = "failed"]
          /\ pc[c] \in Filling => abandoned' = abandoned \cup {link[c]}
          /\ pc[c] \notin Filling => abandoned' = abandoned
      BY <2>5 DEF Fail, tableVars, callVars
    <3> QED BY <1>a, <3>1 DEF FilledBy
  <2>6. CASE InsertKeyword(c)
    <3>1. /\ UNCHANGED <<urls, qty, link, text>>
          /\ \/ Goto(c, "failed") /\ abandoned' = abandoned \cup {link[c]}
             \/ Goto(c, "insertPair") /\ abandoned' = abandoned
      BY <2>6 DEF InsertKeyword, callVars
    <3> QED BY <1>a, <3>1 DEF FilledBy, Filling
  <2>7. CASE FindUrl(c) \/ FindKeyword(c) \/ Restart(c)
    <3>1. /\ UNCHANGED <<urls, qty, link, text, abandoned>>
          /\ pc[c] \in Filling => pc[c] = "findKeyword" /\ pc'[c] \in Filling
          /\ \A d \in Client : d # c => pc'[d] = pc[d]
      BY <2>7 DEF FindUrl, FindKeyword, Restart, Filling,
                  tableVars, callVars, historyVars
    <3> QED BY <1>a, <3>1 DEF FilledBy
  <2>8. ASSUME NEW m \in Link, NEW t \in Texts, Call(c, m, t) PROVE Goal
    <3>1. /\ UNCHANGED <<urls, qty, text, abandoned>>
          /\ pc[c] = "idle"
          /\ \A d \in Client : d # c => pc'[d] = pc[d] /\ link'[d] = link[d]
      BY <1>0, <2>8 DEF Call, tableVars, historyVars, TypeOK
    <3> QED BY <1>a, <3>1 DEF FilledBy, Filling
  <2>9. CASE InsertUrl(c)
    <3>1. /\ UNCHANGED <<urls, qty, link, abandoned>>
          /\ pc[c] = "insertUrl" /\ \A d \in Client : d # c => pc'[d] = pc[d]
          /\ text' = text \/ (/\ link[c] \notin urls
                              /\ text' = [text EXCEPT ![link[c]] = words[c]])
      BY <2>9 DEF InsertUrl, tableVars, callVars
    <3>2. text'[l] = text[l]
      BY <1>0, <3>1 DEF TypeOK
    <3> QED BY <1>a, <3>1, <3>2 DEF FilledBy, Filling
  <2> QED BY <1>1, <2>1, <2>2, <2>3, <2>4, <2>5, <2>6, <2>7, <2>8, <2>9 DEF Step, addLink
\* The url of an outstanding pair, like one committed late, is abandoned.
<1>2. CASE Late
  <2>1. /\ text' = text /\ UNCHANGED <<pc, link>>
    BY <1>2, LateCases
  <2>2. l \in urls \ abandoned
    BY <1>2 DEF Late, LateUrl, LateKeyword, LatePair, historyVars
  <2>3. qty'[l] = qty[l]
    <3>1. ASSUME NEW p \in latePairs,
                 qty' = [qty EXCEPT ![p[1]][p[2]] = text[p[1]][p[2]]]
          PROVE  qty'[l] = qty[l]
      <4>1. p[1] # l
        BY <2>2, <3>1 DEF OwnInv, Leftover
      <4> QED BY <1>0, <3>1, <4>1 DEF TypeOK
    <3> QED BY <1>2, <3>1, LateCases
  <2> QED BY <1>a, <2>1, <2>2, <2>3 DEF FilledBy
<1>3. CASE UNCHANGED vars
  BY <1>a, <1>3 DEF vars, tableVars, callVars, historyVars, FilledBy
<1> QED BY <1>1, <1>2, <1>3 DEF Next

\* A url whose call returned has every word of its page in the index: only a
\* failure of the call that inserted it can leave it half indexed.
THEOREM IndexComplete == Spec => []CompleteUnlessAbandoned
<1>1. Init => CompleteUnlessAbandoned
  BY DEF Init, CompleteUnlessAbandoned
<1> QED BY <1>1, OwnInvInit, OwnInvStep, CompleteStep, PTL DEF Spec

-------------------------------------------------------------------------------
(* What a step may never do *)

\* A half-indexed url stays so for ever, and a complete one stays complete:
\* once no call is filling a url and no pair of it is outstanding, its rows
\* do not change.
THEOREM RowsAreFinal == Spec => RowsFinal
<1>1. ASSUME OwnInv, [Next]_vars, NEW l \in urls, ~InWork(l), ~PairOutstanding(l)
      PROVE  qty'[l] = qty[l]
  <2>0. TypeOK BY <1>1 DEF OwnInv
  <2>1. ASSUME NEW c \in Client, Step(c) PROVE qty'[l] = qty[l]
    <3>1. CASE InsertPair(c)
      <4>1. l # link[c]
        BY <1>1, <3>1 DEF InWork, FilledBy, Filling, InsertPair
      <4>2. ASSUME NEW w \in todo[c], StoresPair(c, w) PROVE qty'[l] = qty[l]
        BY <2>0, <4>1, <4>2 DEF StoresPair, TypeOK
      <4>3. qty' = qty \/ \E w \in todo[c] : StoresPair(c, w)
        BY <3>1, PairCases
      <4> QED BY <4>2, <4>3
    <3>2. CASE InsertUrl(c)
      BY <3>2 DEF InsertUrl, tableVars
    <3> QED BY <2>1, <3>1, <3>2, WriterCases
  <2>2. CASE Late
    <3>1. ASSUME NEW p \in latePairs,
                 qty' = [qty EXCEPT ![p[1]][p[2]] = text[p[1]][p[2]]]
          PROVE  qty'[l] = qty[l]
      BY <1>1, <2>0, <3>1 DEF PairOutstanding, TypeOK
    <3> QED BY <1>1, <2>2, <3>1, LateCases
  <2>3. CASE UNCHANGED vars
    BY <2>3 DEF vars, tableVars
  <2> QED BY <1>1, <2>1, <2>2, <2>3 DEF Next
<1>2. OwnInv /\ [Next]_vars =>
        [\A l \in urls : ~InWork(l) /\ ~PairOutstanding(l) => qty'[l] = qty[l]]_vars
  BY <1>1
<1> QED BY <1>2, OwnInvInit, OwnInvStep, PTL DEF Spec, RowsFinal

Grows ==
  /\ urls \subseteq urls'
  /\ keywords \subseteq keywords'
  /\ \A l \in Link : \A w \in Word : qty[l][w] # 0 => qty'[l][w] = qty[l][w]

LEMMA GrowsStep == OwnInv /\ [Next]_vars => Grows
<1> USE DEF Grows
<1>1. ASSUME OwnInv, [Next]_vars PROVE Grows
  <2>0. TypeOK /\ Owner BY <1>1 DEF OwnInv
  <2>1. ASSUME NEW c \in Client, Step(c) PROVE Grows
    <3>1. CASE InsertPair(c)
      <4>1. urls' = urls /\ keywords' = keywords /\ pc[c] = "insertPair"
        BY <3>1 DEF InsertPair
      <4>2. ASSUME NEW w \in todo[c], StoresPair(c, w) PROVE Grows
        <5>1. qty[link[c]][w] = 0
          BY <2>0, <4>1 DEF Owner, Filling, TypeOK
        <5>2. \A l \in Link : \A v \in Word :
                l # link[c] \/ v # w => qty'[l][v] = qty[l][v]
          BY <2>0, <4>2 DEF StoresPair, TypeOK
        <5> QED BY <4>1, <5>1, <5>2
      <4>3. qty' = qty \/ \E w \in todo[c] : StoresPair(c, w)
        BY <3>1, PairCases
      <4> QED BY <4>1, <4>2, <4>3
    <3>2. CASE qty' = qty
      <4>1. urls \subseteq urls' /\ keywords \subseteq keywords'
        BY <2>1 DEF Step, addLink, Call, FindUrl, InsertUrl, CommitUrl, FindKeyword,
                    InsertKeyword, InsertPair, Return, Fail, FailLate, Restart, tableVars
      <4> QED BY <3>2, <4>1
    <3>3. CASE InsertUrl(c)
      BY <3>2, <3>3 DEF InsertUrl, tableVars
    <3> QED BY <2>1, <3>1, <3>2, <3>3, WriterCases
  <2>2. CASE Late
    <3>1. CASE qty' = qty
      BY <2>2, <3>1 DEF Late, LateUrl, LateKeyword, LatePair
    <3>2. ASSUME NEW m \in Link, NEW v \in Word, qty[m][v] = 0,
                 qty' = [qty EXCEPT ![m][v] = text[m][v]], UNCHANGED <<urls, keywords>>
          PROVE  Grows
      <4>1. \A l \in Link : \A w \in Word : l # m \/ w # v => qty'[l][w] = qty[l][w]
        BY <2>0, <3>2 DEF TypeOK
      <4> QED BY <3>2, <4>1
    <3> QED BY <1>1, <2>2, <3>1, <3>2, LateCases
  <2>3. CASE UNCHANGED vars
    BY <2>3 DEF vars, tableVars
  <2> QED BY <1>1, <2>1, <2>2, <2>3 DEF Next
<1> QED BY <1>1

\* Nothing is deleted, and a stored frequency is never altered.
THEOREM IndexOnlyGrows == Spec => OnlyGrows
<1>1. OwnInv /\ [Next]_vars => [Grows]_vars
  BY GrowsStep
<1> QED BY <1>1, OwnInvInit, OwnInvStep, PTL DEF Spec, OnlyGrows, Grows
===============================================================================
