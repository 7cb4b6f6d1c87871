--------------------------- MODULE HTML_ParserProofs ---------------------------
(***************************************************************************)
(* Proofs about HTML_Parser and the parts below it, HTTP_HTTPs_Client and  *)
(* Utils, for pages, answers and urls of any length.                       *)
(***************************************************************************)
EXTENDS HTML_Parser, SequenceTheorems, WellFoundedInduction, TLAPS

-------------------------------------------------------------------------------
(* The download *)

\* Sequences of one and of two elements.
LEMMA ShortSequences ==
  /\ \A a, b : Append(<<a>>, b) = <<a, b>>
  /\ \A a : Len(<<a>>) = 1 /\ <<a>>[1] = a
  /\ \A a, b : Len(<<a, b>>) = 2 /\ <<a, b>>[1] = a /\ <<a, b>>[2] = b
<1>1. ASSUME NEW a, NEW b PROVE Append(<<a>>, b) = <<a, b>>
  <2> DEFINE s == Append(<<a>>, b)
             t == <<a, b>>
  <2>1. s \in Seq({a, b}) /\ Len(s) = 2 /\ s[1] = a /\ s[2] = b
    BY <<a>> \in Seq({a, b}), b \in {a, b}
  <2>2. t \in Seq({a, b}) /\ Len(t) = 2 /\ t[1] = a /\ t[2] = b
    OBVIOUS
  <2> HIDE DEF s, t
  <2>3. s = t
    BY <2>1, <2>2, SeqEqual
  <2> QED BY <2>3 DEF s, t
<1> QED BY <1>1

Idle    == asked = <<>> /\ answers = <<>>
Waiting == asked = <<link>> /\ answers = <<>>

\* The first request was answered with r.
Answered(r) ==
  /\ asked = <<link>> /\ answers = <<r>>
  /\ redirectLink = IF Redirects(r) THEN UrlToLink(r.location, link) ELSE NoLink

\* The answer r redirected, and is followed.
Redirected(r) ==
  /\ Redirects(r) /\ redirectLink = UrlToLink(r.location, link)
  /\ asked \in {<<link>>, <<link, redirectLink>>} /\ answers = <<r>>

\* What was asked, answered and kept, for every place of getContent.
ClientInv ==
  /\ at \in {"new", "connect"} => Idle /\ redirectLink = NoLink /\ content = NoPage
  /\ at = "read" => Waiting /\ redirectLink = NoLink /\ content = NoPage
  /\ at = "caught" =>
       \/ (Idle \/ Waiting) /\ redirectLink = NoLink /\ content = NoPage
       \/ \E r \in Response : Answered(r) /\ content = Text(r.page)
  /\ at \in {"connectRedirect", "readRedirect"} => content = NoPage
  /\ at = "connectRedirect" =>
       \E r \in Response : Redirected(r) /\ asked = <<link>>
  /\ at = "readRedirect" =>
       \E r \in Response : Redirected(r) /\ asked = <<link, redirectLink>>
  /\ at \notin Downloading \cup {"new"} =>
       \/ (Idle \/ Waiting) /\ content = NoPage
       \/ \E r \in Response : Answered(r) /\ content = Text(r.page)
       \/ \E r \in Response : Redirected(r) /\ content = NoPage
       \/ \E r, s \in Response :
            /\ Redirects(r) /\ redirectLink = UrlToLink(r.location, link)
            /\ asked = <<link, redirectLink>> /\ answers = <<r, s>>
            /\ content = Text(s.page)

LEMMA ClientInvStep == ClientInv /\ [Next]_vars => ClientInv'
<1> SUFFICES ASSUME ClientInv, [Next]_vars PROVE ClientInv'
  OBVIOUS
<1> USE DEF ClientInv, Idle, Waiting, Downloading, clientVars
\* Steps behind the download.
<1>a. ASSUME UNCHANGED <<link, clientVars>>, at \notin Downloading \cup {"new"},
             at' \notin Downloading \cup {"new"}
      PROVE  ClientInv'
  BY <1>a DEF Answered, Redirected
<1>1. CASE Construct
  BY <1>1 DEF Construct
<1>2. CASE ConstructThrows
  BY <1>2 DEF ConstructThrows
<1>3. CASE Request
  BY <1>3 DEF Request
<1>4. CASE Read
  <2>1. PICK r \in Response :
          /\ answers' = Append(answers, r)
          /\ redirectLink' = IF Redirects(r) THEN UrlToLink(r.location, link) ELSE redirectLink
          /\ content' = Text(r.page)
    BY <1>4 DEF Read
  <2>2. at = "read" /\ at' = "caught" /\ link' = link /\ asked' = asked
    BY <1>4 DEF Read
  <2>3. Answered(r)'
    BY <2>1, <2>2 DEF Answered
  <2> QED BY <2>1, <2>2, <2>3
<1>5. CASE Catch
  BY <1>5 DEF Catch
<1>6. CASE Follow
  <2>1. PICK r \in Response : Answered(r)
    BY <1>6 DEF Follow, NoLink
  <2>2. Redirects(r) /\ at' = "connectRedirect" /\ content' = NoPage
    BY <1>6, <2>1 DEF Follow, Answered, NoLink
  <2>3. Redirected(r)' /\ asked' = <<link'>>
    BY <1>6, <2>1, <2>2 DEF Follow, Answered, Redirected
  <2> QED BY <2>2, <2>3
<1>7. CASE RequestRedirect
  <2>1. PICK r \in Response : Redirected(r) /\ asked = <<link>>
    BY <1>7 DEF RequestRedirect
  <2>2. Redirected(r)' /\ asked' = <<link', redirectLink'>> /\ content' = NoPage
    BY <1>7, <2>1, ShortSequences DEF RequestRedirect, Redirected
  <2> QED BY <1>7, <2>2 DEF RequestRedirect
<1>8. CASE ReadRedirect
  <2>1. PICK r \in Response : Redirected(r) /\ asked = <<link, redirectLink>>
    BY <1>8 DEF ReadRedirect
  <2>2. PICK s \in Response : answers' = Append(answers, s) /\ content' = Text(s.page)
    BY <1>8 DEF ReadRedirect
  <2>3. answers' = <<r, s>>
    BY <2>1, <2>2, ShortSequences DEF Redirected
  <2>4. at' = "returned" /\ UNCHANGED <<link, redirectLink, asked>>
    BY <1>8 DEF ReadRedirect
  <2>5. /\ Redirects(r) /\ redirectLink' = UrlToLink(r.location, link')
        /\ asked' = <<link', redirectLink'>>
    BY <2>1, <2>4 DEF Redirected
  <2> QED BY <2>2, <2>3, <2>4, <2>5
<1>9. CASE CatchRedirect
  <2>1. PICK r \in Response : Redirected(r)
    BY <1>9 DEF CatchRedirect
  <2>2. Redirected(r)' /\ content' = NoPage /\ at' = "returned"
    BY <1>9, <2>1 DEF CatchRedirect, Redirected
  <2> QED BY <2>2
<1>10. CASE NoRedirect
  <2>1. at = "caught" /\ at' = "returned" /\ UNCHANGED <<link, clientVars>>
    BY <1>10 DEF NoRedirect
  <2>2. CASE (Idle \/ Waiting) /\ content = NoPage
    BY <2>1, <2>2
  <2>3. ASSUME NEW r \in Response, Answered(r), content = Text(r.page)
        PROVE  ClientInv'
    BY <2>1, <2>3 DEF Answered
  <2> QED BY <2>1, <2>2, <2>3
<1>11. CASE Scan \/ NoContent \/ AddLink \/ AddLinkThrows
  BY <1>11, <1>a DEF Scan, NoContent, AddLink, AddLinkThrows
<1>12. CASE extractWords
  BY <1>12, <1>a DEF extractWords, SkipTag, TagBegins, SkipCharacter, CountWord, GoOn
<1>13. CASE extractLink
  BY <1>13, <1>a DEF extractLink, HrefEmpty, HrefFragment, HrefTaken, LinksDone, HasNext
<1>14. CASE UNCHANGED vars
  BY <1>14 DEF vars, Answered, Redirected
<1> QED
  BY <1>1, <1>2, <1>3, <1>4, <1>5, <1>6, <1>7, <1>8, <1>9, <1>10, <1>11, <1>12,
     <1>13, <1>14 DEF Next, parse, Download, getContent, getContent_Redirect

LEMMA ClientInvariant == Spec => []ClientInv
<1>1. Init => ClientInv
  BY DEF Init, ClientInv, Idle, Downloading
<1> QED BY <1>1, ClientInvStep, PTL DEF Spec

\* However servers redirect, a download asks twice at most, and the second
\* time only for the link the first answer gave.
THEOREM RedirectsOnce == Spec => []OneRedirect
<1>1. ClientInv => OneRedirect
  <2> SUFFICES ASSUME ClientInv PROVE OneRedirect
    OBVIOUS
  <2>1. CASE Idle \/ Waiting
    BY <2>1, ShortSequences DEF Idle, Waiting, OneRedirect
  <2>2. ASSUME NEW r \in Response, Answered(r) PROVE OneRedirect
    BY <2>2, ShortSequences DEF Answered, OneRedirect
  <2>3. ASSUME NEW r \in Response, Redirected(r) PROVE OneRedirect
    BY <2>3, ShortSequences DEF Redirected, OneRedirect
  <2>4. ASSUME NEW r \in Response, NEW s \in Response, Redirects(r),
               redirectLink = UrlToLink(r.location, link),
               asked = <<link, redirectLink>>, answers = <<r, s>>
        PROVE  OneRedirect
    BY <2>4, ShortSequences DEF OneRedirect
  <2> QED BY <2>1, <2>2, <2>3, <2>4 DEF ClientInv, Downloading
<1> QED BY <1>1, ClientInvariant, PTL

\* getContent returns the text of the last answer or nothing: never the body
\* of an answer that redirected, and never one with a zero byte.
THEOREM ReturnsLastAnswer == Spec => []LastAnswerOnly
<1>1. ClientInv => LastAnswerOnly
  <2> SUFFICES ASSUME ClientInv, at \notin Downloading, content # NoPage
               PROVE  /\ content # Binary
                      /\ Len(answers) = Len(asked)
                      /\ content = answers[Len(answers)].page
    BY DEF LastAnswerOnly
  <2>1. CASE \E r \in Response : Answered(r) /\ content = Text(r.page)
    BY <2>1, ShortSequences DEF Answered, Text
  <2>2. CASE \E r, s \in Response :
               /\ asked = <<link, redirectLink>> /\ answers = <<r, s>>
               /\ content = Text(s.page)
    BY <2>2, ShortSequences DEF Text
  <2> QED BY <2>1, <2>2 DEF ClientInv, Downloading
<1> QED BY <1>1, ClientInvariant, PTL

-------------------------------------------------------------------------------
(* The text that is scanned *)

LEMMA LeastIsLeast ==
  ASSUME NEW T, T \subseteq Nat, T # {}
  PROVE  Least(T) \in T /\ \A j \in T : Least(T) <= j
<1>1. PICK i \in T : \A j \in T : ~(<<j, i>> \in OpToRel(<, Nat))
  BY NatLessThanWellFounded, WFMin
<1>2. \A j \in T : ~(j < i)
  BY <1>1 DEF OpToRel
<1>3. \A j \in T : i <= j
  BY <1>2
<1> QED BY <1>3 DEF Least

LEMMA SeparatedSubSeq ==
  ASSUME NEW t \in Seq(Token), Separated(t), NEW m \in 1..Len(t), NEW n \in m..Len(t)
  PROVE  SubSeq(t, m, n) \in Seq(Token) /\ Separated(SubSeq(t, m, n))
<1> DEFINE s == SubSeq(t, m, n)
<1>1. \A i \in m..n : t[i] \in Token
  OBVIOUS
<1>2. /\ s \in Seq(Token) /\ Len(s) = n - m + 1
      /\ \A i \in 1..(n - m + 1) : s[i] = t[m + i - 1]
  BY <1>1, SubSeqProperties
<1> HIDE DEF s
<1>3. ASSUME NEW i \in 1..(Len(s) - 1), s[i] \in Word PROVE s[i + 1] \notin Word
  <2>1. /\ m + i - 1 \in 1..(Len(t) - 1)
        /\ s[i] = t[m + i - 1] /\ s[i + 1] = t[(m + i - 1) + 1]
    BY <1>2
  <2> QED BY <1>3, <2>1 DEF Separated
<1>4. Separated(s)
  BY <1>3 DEF Separated
<1> QED BY <1>2, <1>4 DEF s

LEMMA SeparatedConcat ==
  ASSUME NEW s \in Seq(Token), NEW t \in Seq(Token), Separated(s), Separated(t),
         s # <<>> /\ t # <<>> => s[Len(s)] \notin Word \/ t[1] \notin Word
  PROVE  s \o t \in Seq(Token) /\ Separated(s \o t)
<1> DEFINE u == s \o t
<1>1. /\ u \in Seq(Token) /\ Len(u) = Len(s) + Len(t)
      /\ \A i \in 1..(Len(s) + Len(t)) : u[i] = IF i <= Len(s) THEN s[i] ELSE t[i - Len(s)]
  BY ConcatProperties
<1>2. Len(s) \in Nat /\ Len(t) \in Nat
  OBVIOUS
<1> HIDE DEF u
<1>3. ASSUME NEW i \in 1..(Len(u) - 1), u[i] \in Word PROVE u[i + 1] \notin Word
  <2>1. CASE i < Len(s)
    <3>1. i \in 1..(Len(s) - 1) /\ u[i] = s[i] /\ u[i + 1] = s[i + 1]
      BY <1>1, <1>2, <2>1
    <3> QED BY <1>3, <3>1 DEF Separated
  <2>2. CASE i = Len(s)
    <3>1. /\ i \in 1..(Len(s) + Len(t)) /\ i + 1 \in 1..(Len(s) + Len(t))
          /\ i <= Len(s) /\ ~(i + 1 <= Len(s)) /\ (i + 1) - Len(s) = 1
          /\ Len(s) # 0 /\ Len(t) # 0
      BY <1>1, <1>2, <2>2
    <3>2. u[i] = s[Len(s)] /\ u[i + 1] = t[1]
      BY <1>1, <2>2, <3>1
    <3>3. s # <<>> /\ t # <<>>
      BY <3>1
    <3> QED BY <1>3, <3>2, <3>3
  <2>3. CASE i > Len(s)
    <3>1. /\ i - Len(s) \in 1..(Len(t) - 1) /\ u[i] = t[i - Len(s)]
          /\ u[i + 1] = t[(i - Len(s)) + 1]
      BY <1>1, <1>2, <2>3
    <3> QED BY <1>3, <3>1 DEF Separated
  <2> QED BY <1>2, <2>1, <2>2, <2>3
<1>4. Separated(u)
  BY <1>3 DEF Separated
<1> QED BY <1>1, <1>4 DEF u

LEMMA BodyText ==
  ASSUME NEW t \in Seq(Token), Separated(t)
  PROVE  bodyStr(t) \in Seq(Token) /\ Separated(bodyStr(t))
<1> DEFINE bodies == {i \in DOMAIN t : At(t, i, <<"<", "body">>)}
<1>1. CASE bodies = {}
  <2>1. bodyStr(t) = <<>>
    BY <1>1 DEF bodyStr
  <2> QED BY <2>1 DEF Separated
<1>2. CASE bodies # {}
  <2>1. Least(bodies) \in bodies
    <3>1. bodies \subseteq Nat
      OBVIOUS
    <3> HIDE DEF bodies
    <3> QED BY <1>2, <3>1, LeastIsLeast
  <2>2. Least(bodies) \in 1..Len(t) /\ Len(t) \in Least(bodies)..Len(t)
    BY <2>1
  <2>3. bodyStr(t) = SubSeq(t, Least(bodies), Len(t))
    BY <1>2 DEF bodyStr
  <2> HIDE DEF bodies
  <2> QED BY <2>2, <2>3, SeparatedSubSeq
<1> QED BY <1>1, <1>2

LEMMA TitleText ==
  ASSUME NEW t \in Seq(Token), Separated(t)
  PROVE  /\ titleStr(t) \in Seq(Token) /\ Separated(titleStr(t))
         /\ titleStr(t) # <<>> => titleStr(t)[Len(titleStr(t))] = ">"
<1> DEFINE titles == {i \in DOMAIN t : At(t, i, <<"<", "title", ">">>)}
           i == Least(titles)
           ends == {j \in (i + 4)..Len(t) : t[j] = "<"}
           upper == IF ends = {} THEN Len(t) ELSE Least(ends) - 1
           tag == <<"<", "/", "title", ">">>
<1>1. CASE titles = {}
  <2>1. titleStr(t) = <<>>
    BY <1>1 DEF titleStr
  <2> QED BY <2>1 DEF Separated
<1>2. CASE titles # {}
  <2>1. i \in titles
    <3>1. titles \subseteq Nat
      OBVIOUS
    <3> HIDE DEF titles
    <3> QED BY <1>2, <3>1, LeastIsLeast
  <2>2. i \in 1..Len(t)
    BY <2>1
  <2>3. upper \in i..Len(t)
    <3>1. CASE ends = {}
      BY <2>2, <3>1
    <3>2. CASE ends # {}
      <4>1. ends \subseteq Nat
        <5>1. i + 4 \in Nat /\ Len(t) \in Nat
          BY <2>2
        <5> HIDE DEF i
        <5> QED BY <5>1
      <4>2. Least(ends) \in ends
        <5> HIDE DEF ends
        <5> QED BY <3>2, <4>1, LeastIsLeast
      <4>3. Least(ends) \in (i + 4)..Len(t)
        BY <4>2
      <4>4. upper = Least(ends) - 1
        BY <3>2
      <4> HIDE DEF ends, i, upper
      <4> QED BY <2>2, <4>3, <4>4
    <3> QED BY <3>1, <3>2
  <2>4. titleStr(t) = SubSeq(t, i, upper) \o tag
    BY <1>2 DEF titleStr
  <2> HIDE DEF i, upper
  <2>5. SubSeq(t, i, upper) \in Seq(Token) /\ Separated(SubSeq(t, i, upper))
    BY <2>2, <2>3, SeparatedSubSeq
  <2>a. tag \in Seq(Token)
    BY ParserAssumption DEF Token
  <2>6. /\ tag \in Seq(Token) /\ Len(tag) = 4
        /\ tag[1] = "<" /\ tag[2] = "/" /\ tag[3] = "title" /\ tag[4] = ">"
    BY <2>a
  <2> HIDE DEF tag
  <2>7. Separated(tag) /\ tag[1] \notin Word
    BY <2>6, ParserAssumption DEF Separated
  <2>8. SubSeq(t, i, upper) \o tag \in Seq(Token) /\ Separated(SubSeq(t, i, upper) \o tag)
    BY <2>5, <2>6, <2>7, SeparatedConcat
  <2>9. LET u == SubSeq(t, i, upper) \o tag IN u[Len(u)] = ">"
    <3> DEFINE s == SubSeq(t, i, upper)
    <3>a. s \in Seq(Token)
      BY <2>5
    <3> HIDE DEF s
    <3>b. Len(s) \in Nat /\ Len(s) + 4 \in 1..(Len(s) + 4) /\ ~(Len(s) + 4 <= Len(s))
      BY <3>a
    <3>c. /\ Len(s \o tag) = Len(s) + Len(tag)
          /\ \A k \in 1..(Len(s) + Len(tag)) :
               (s \o tag)[k] = IF k <= Len(s) THEN s[k] ELSE tag[k - Len(s)]
      BY <2>6, <3>a, ConcatProperties
    <3> DEFINE u == s \o tag
    <3> HIDE DEF u
    <3>1. Len(u) = Len(s) + 4 /\ u[Len(s) + 4] = tag[(Len(s) + 4) - Len(s)]
      BY <2>6, <3>b, <3>c DEF u
    <3>2. u[Len(u)] = ">"
      BY <2>6, <3>1, <3>b
    <3> QED BY <3>2 DEF s, u
  <2> QED BY <2>4, <2>8, <2>9
<1> QED BY <1>1, <1>2

\* What extractWords scans is separated like the page it is taken from.
LEMMA ScannedText ==
  ASSUME NEW t \in Seq(Token), Separated(t)
  PROVE  titleStr(t) \o bodyStr(t) \in Seq(Token) /\ Separated(titleStr(t) \o bodyStr(t))
<1>1. ">" \notin Word
  BY ParserAssumption
<1> QED BY <1>1, BodyText, TitleText, SeparatedConcat

\* A page that was kept is a page some server sent.
LEMMA ContentIsPage ==
  ASSUME ClientInv, at \notin Downloading \cup {"new"}, content # NoPage
  PROVE  /\ content \in [text : Seq(Token), hrefs : Seq(Seq(UrlToken))]
         /\ Separated(content.text)
<1>1. PICK r \in Response : content = Text(r.page)
  BY DEF ClientInv
<1>2. content = r.page /\ content # Binary
  BY <1>1 DEF Text
<1>3. content \in Page \ {NoPage, Binary}
  BY <1>2 DEF Page
<1> QED BY <1>3, PageAssumption

-------------------------------------------------------------------------------
(* extractWords *)

\* A tag whose '<' stands directly behind a word, position i being in it.
BehindHiddenTag(i) ==
  \E j \in 2..(i - 1) : /\ text[j] = "<" /\ text[j - 1] \in Word
                        /\ \A k \in (j + 1)..(i - 1) : text[k] \notin Bracket

\* What is counted stands behind a tag, or in one that begins behind a word.
CountedBehind ==
  \A i \in wordArray :
    i \in 1..Len(text) /\ LongWord(i) /\ (Behind(">", i) \/ BehindHiddenTag(i))

\* Brackets behind the next position.
LEMMA BehindNext ==
  ASSUME NEW i \in Nat \ {0}
  PROVE  /\ \A b \in Bracket :
              Behind(b, i + 1) <=> text[i] = b \/ (text[i] \notin Bracket /\ Behind(b, i))
         /\ text[i] \notin Bracket /\ BehindHiddenTag(i) => BehindHiddenTag(i + 1)
         /\ text[i + 1] = "<" /\ text[i] \in Word => BehindHiddenTag(i + 2)
<1>1. (i + 1) - 1 = i /\ i \in 1..i
  OBVIOUS
<1>2. ASSUME NEW b \in Bracket, Behind(b, i + 1), text[i] # b
      PROVE  text[i] \notin Bracket /\ Behind(b, i)
  <2>1. PICK j \in 1..i : text[j] = b /\ \A k \in (j + 1)..i : text[k] \notin Bracket
    BY <1>1, <1>2 DEF Behind
  <2>2. j \in 1..(i - 1) /\ i \in (j + 1)..i
    BY <1>2, <2>1
  <2>3. \A k \in (j + 1)..(i - 1) : k \in (j + 1)..i
    BY <2>2
  <2> QED BY <2>1, <2>2, <2>3 DEF Behind
<1>3. ASSUME NEW b \in Bracket, text[i] = b PROVE Behind(b, i + 1)
  <2>1. \A k \in (i + 1)..i : FALSE
    OBVIOUS
  <2> QED BY <1>1, <1>3, <2>1 DEF Behind
<1>4. ASSUME NEW b \in Bracket, text[i] \notin Bracket, Behind(b, i)
      PROVE  Behind(b, i + 1)
  <2>1. PICK j \in 1..(i - 1) :
          text[j] = b /\ \A k \in (j + 1)..(i - 1) : text[k] \notin Bracket
    BY <1>4 DEF Behind
  <2>2. j \in 1..i /\ \A k \in (j + 1)..i : k = i \/ k \in (j + 1)..(i - 1)
    OBVIOUS
  <2> QED BY <1>1, <1>4, <2>1, <2>2 DEF Behind
<1>5. ASSUME text[i] \notin Bracket, BehindHiddenTag(i) PROVE BehindHiddenTag(i + 1)
  <2>1. PICK j \in 2..(i - 1) :
          /\ text[j] = "<" /\ text[j - 1] \in Word
          /\ \A k \in (j + 1)..(i - 1) : text[k] \notin Bracket
    BY <1>5 DEF BehindHiddenTag
  <2>2. j \in 2..i /\ \A k \in (j + 1)..i : k = i \/ k \in (j + 1)..(i - 1)
    OBVIOUS
  <2> QED BY <1>1, <1>5, <2>1, <2>2 DEF BehindHiddenTag
<1>6. ASSUME text[i + 1] = "<", text[i] \in Word PROVE BehindHiddenTag(i + 2)
  <2>1. /\ i + 1 \in 2..((i + 2) - 1) /\ (i + 1) - 1 = i
        /\ \A k \in ((i + 1) + 1)..((i + 2) - 1) : FALSE
    OBVIOUS
  <2> QED BY <1>6, <2>1 DEF BehindHiddenTag
<1> QED BY <1>2, <1>3, <1>4, <1>5, <1>6

Unscanned == {"new", "returned"} \cup Downloading

\* What the iterator knows: outside of the text between tags the bracket
\* nearest behind it is not a '>', unless it stands on the '<' that ended the
\* text; inside of that text it is a '>', or the '<' of a tag that extractWords
\* has not seen.
ScanInv ==
  /\ text \in Seq(Token) /\ Separated(text)
  /\ pos \in Nat \ {0}
  /\ at \in Unscanned => wordArray = {} /\ pos = 1
  /\ at \in {"add", "links", "true"} => pos > Len(text)
  /\ at = "skip" => text[pos] = "<" \/ ~Behind(">", pos)
  /\ at = "text" => text[pos] = ">" \/ Behind(">", pos) \/ BehindHiddenTag(pos)
  /\ \A i \in 1..(Len(text) - 1) :
       LongWord(i) /\ Behind(">", i) /\ i < pos => i \in wordArray
  /\ InBounds
  /\ CountedBehind

LEMMA ScanInvInit == Init => ScanInv
BY DEF Init, ScanInv, Separated, Unscanned, Downloading, InBounds, Scanning,
       CountedBehind

\* A step of extractWords, by what it has to show of the new position p.
LEMMA GoOnKeeps ==
  ASSUME ScanInv, at \in Scanning, NEW p \in Nat \ {0}, NEW mode \in Scanning,
         GoOn(p, mode), wordArray \subseteq wordArray',
         p <= Len(text) => 
           /\ mode = "skip" => text[p] = "<" \/ ~Behind(">", p)
           /\ mode = "text" => text[p] = ">" \/ Behind(">", p) \/ BehindHiddenTag(p),
         \A i \in 1..(Len(text) - 1) :
           LongWord(i) /\ Behind(">", i) /\ i < p /\ pos <= i => i \in wordArray',
         \A i \in wordArray' \ wordArray :
           i \in 1..Len(text) /\ LongWord(i) /\ (Behind(">", i) \/ BehindHiddenTag(i))
  PROVE  ScanInv'
<1>1. /\ text' = text /\ pos' = p
      /\ p <= Len(text) => at' = mode
      /\ ~(p <= Len(text)) => at' \in {"false", "add"}
  BY DEF GoOn
<1>0. Len(text) \in Nat /\ pos \in Nat
  BY DEF ScanInv
<1>2. at' \notin Unscanned
  BY <1>1 DEF Unscanned, Downloading, Scanning
<1>3. \A i \in 1..(Len(text) - 1) :
        LongWord(i) /\ Behind(">", i) /\ i < p => i \in wordArray'
  <2> SUFFICES ASSUME NEW i \in 1..(Len(text) - 1), LongWord(i), Behind(">", i), i < p
               PROVE  i \in wordArray'
    OBVIOUS
  <2>1. CASE i < pos
    BY <2>1 DEF ScanInv
  <2>2. CASE pos <= i
    BY <2>2
  <2> QED BY <1>0, <2>1, <2>2
<1>4. InBounds'
  BY <1>0, <1>1 DEF InBounds, Scanning, ScanInv
<1>5. CountedBehind'
  BY <1>1 DEF CountedBehind, LongWord, Behind, BehindHiddenTag, ScanInv
<1>6. /\ at' \in {"add", "links", "true"} => pos' > Len(text')
      /\ at' = "skip" => text'[pos'] = "<" \/ ~Behind(">", pos)'
      /\ at' = "text" => text'[pos'] = ">" \/ Behind(">", pos)' \/ BehindHiddenTag(pos)'
  BY <1>0, <1>1 DEF Scanning, Behind, BehindHiddenTag
<1>7. \A i \in 1..(Len(text') - 1) :
        LongWord(i)' /\ Behind(">", i)' /\ i < pos' => i \in wordArray'
  BY <1>1, <1>3 DEF LongWord, Behind
<1> QED BY <1>1, <1>2, <1>4, <1>5, <1>6, <1>7, Zenon DEF ScanInv, Separated

LEMMA ScanInvStep == ClientInv /\ ScanInv /\ [Next]_vars => ScanInv'
<1> SUFFICES ASSUME ClientInv, ScanInv, [Next]_vars PROVE ScanInv'
  OBVIOUS
<1>0. Len(text) \in Nat /\ pos \in Nat \ {0} /\ text \in Seq(Token)
  BY DEF ScanInv
<1>z. Bracket \cap Word = {} /\ "<" \in Bracket /\ ">" \in Bracket /\ "<" # ">"
  BY ParserAssumption DEF Bracket
\* Steps that leave the scan alone.
<1>a. ASSUME UNCHANGED scanVars, at \notin Scanning, at' \notin Scanning,
             at' \in Unscanned => at \in Unscanned,
             at' \in {"add", "links", "true"} => at \in {"add", "links", "true"}
      PROVE  ScanInv'
  BY <1>a DEF ScanInv, scanVars, Separated, InBounds, CountedBehind, LongWord,
              Behind, BehindHiddenTag, Scanning
<1>1. CASE Construct \/ ConstructThrows
  BY <1>1, <1>a DEF Construct, ConstructThrows, Scanning, Unscanned, Downloading
<1>2. CASE Download
  <2>1. at \in Downloading /\ at' \in Downloading \cup {"returned"} /\ UNCHANGED scanVars
    BY <1>2 DEF Download, getContent, getContent_Redirect, Request, Read, Catch, Follow,
                NoRedirect, RequestRedirect, ReadRedirect, CatchRedirect, Downloading
  <2> QED BY <2>1, <1>a DEF Scanning, Unscanned, Downloading
<1>3. CASE Scan
  <2>1. /\ at = "returned" /\ content # NoPage
        /\ text' = titleStr(content.text) \o bodyStr(content.text)
        /\ pos' = 1 /\ wordArray' = wordArray
        /\ at' = IF text' = <<>> THEN "false" ELSE "skip"
    BY <1>3 DEF Scan
  <2>2. content.text \in Seq(Token) /\ Separated(content.text)
    BY <2>1, ContentIsPage DEF Downloading
  <2>3. text' \in Seq(Token) /\ Separated(text')
    BY <2>1, <2>2, ScannedText
  <2>4. wordArray' = {}
    BY <2>1 DEF ScanInv, Unscanned
  <2>5. InBounds'
    BY <2>1, <2>3 DEF InBounds, Scanning
  <2>6. ~Behind(">", pos)'
    BY <2>1 DEF Behind
  <2>7. CountedBehind'
    BY <2>4 DEF CountedBehind
  <2>8. \A i \in 1..(Len(text') - 1) : ~(i < pos')
    BY <2>1
  <2>9. at' \in {"false", "skip"}
    BY <2>1
  <2>10. pos' \in Nat \ {0} /\ (Separated(text))' /\ at' \notin Unscanned
    BY <2>1, <2>3, <2>9 DEF Separated, Unscanned, Downloading
  <2> QED BY <2>3, <2>5, <2>6, <2>7, <2>8, <2>9, <2>10 DEF ScanInv
<1>4. CASE NoContent \/ AddLink \/ AddLinkThrows
  BY <1>4, <1>a DEF NoContent, AddLink, AddLinkThrows, Scanning, Unscanned, Downloading
<1>5. CASE SkipTag
  <2>0. at = "skip" /\ wordArray' = wordArray
    BY <1>5 DEF SkipTag
  <2>1. text[pos] = "<" \/ ~Behind(">", pos)
    BY <2>0 DEF ScanInv
  <2>2. CASE text[pos] = ">"
    <3>1. GoOn(pos, "text")
      BY <1>5, <2>2 DEF SkipTag
    <3> QED BY <1>0, <2>0, <2>2, <3>1, GoOnKeeps DEF Scanning
  <2>3. CASE text[pos] # ">"
    <3>1. GoOn(pos + 1, "skip") /\ pos + 1 \in Nat \ {0}
      BY <1>0, <1>5, <2>3 DEF SkipTag
    <3>2. ~Behind(">", pos + 1)
      BY <1>0, <1>z, <2>1, <2>3, BehindNext
    <3>3. \A i \in 1..(Len(text) - 1) :
            LongWord(i) /\ Behind(">", i) /\ i < pos + 1 /\ pos <= i => FALSE
      <4> SUFFICES ASSUME LongWord(pos), Behind(">", pos) PROVE FALSE
        BY <1>0
      <4> QED BY <1>z, <2>1 DEF LongWord
    <3> QED BY <1>0, <2>0, <3>1, <3>2, <3>3, GoOnKeeps DEF Scanning
  <2> QED BY <2>2, <2>3
<1>6. CASE TagBegins
  <2>1. at = "text" /\ wordArray' = wordArray /\ text[pos] = "<" /\ GoOn(pos, "skip")
    BY <1>6 DEF TagBegins
  <2> QED BY <1>0, <2>1, GoOnKeeps DEF Scanning
<1>7. CASE SkipCharacter
  <2>1. /\ at = "text" /\ wordArray' = wordArray /\ text[pos] \notin Word \cup {"<"}
        /\ GoOn(pos + 1, "text") /\ pos + 1 \in Nat \ {0}
    BY <1>0, <1>7 DEF SkipCharacter
  <2>2. text[pos] = ">" \/ Behind(">", pos) \/ BehindHiddenTag(pos)
    BY <2>1 DEF ScanInv
  <2>3. Behind(">", pos + 1) \/ BehindHiddenTag(pos + 1)
    BY <1>0, <1>z, <2>1, <2>2, BehindNext DEF Bracket
  <2>4. \A i \in 1..(Len(text) - 1) :
          LongWord(i) /\ Behind(">", i) /\ i < pos + 1 /\ pos <= i => FALSE
    <3> SUFFICES ASSUME LongWord(pos) PROVE FALSE
      BY <1>0
    <3> QED BY <2>1 DEF LongWord
  <2> QED BY <1>0, <2>1, <2>3, <2>4, GoOnKeeps DEF Scanning
<1>8. CASE CountWord
  <2>1. /\ at = "text" /\ text[pos] \in Word
        /\ wordArray' = wordArray \cup {p \in {pos} : text[p] \notin Short /\ pos < Len(text)}
        /\ GoOn(pos + 2, "text") /\ pos + 2 \in Nat \ {0} /\ pos + 1 \in Nat \ {0}
        /\ (pos + 1) + 1 = pos + 2
    BY <1>0, <1>8 DEF CountWord
  <2>2. text[pos] # ">" /\ text[pos] \notin Bracket
    BY <1>z, <2>1
  <2>3. Behind(">", pos) \/ BehindHiddenTag(pos)
    BY <2>1, <2>2 DEF ScanInv
  <2>4. Behind(">", pos + 1) \/ BehindHiddenTag(pos + 1)
    BY <1>0, <1>z, <2>2, <2>3, BehindNext
  <2>5. Behind(">", pos + 2) \/ BehindHiddenTag(pos + 2)
    <3>1. CASE text[pos + 1] = ">"
      <4>1. Behind(">", (pos + 1) + 1)
        BY <1>z, <2>1, <3>1, BehindNext
      <4> QED BY <2>1, <4>1
    <3>2. CASE text[pos + 1] = "<"
      BY <1>0, <2>1, <3>2, BehindNext
    <3>3. CASE text[pos + 1] \notin Bracket
      <4>1. Behind(">", (pos + 1) + 1) \/ BehindHiddenTag((pos + 1) + 1)
        BY <1>z, <2>1, <2>4, <3>3, BehindNext
      <4> QED BY <2>1, <4>1
    <3> QED BY <3>1, <3>2, <3>3 DEF Bracket
  <2>6. ASSUME NEW i \in 1..(Len(text) - 1), LongWord(i), i < pos + 2, pos <= i
        PROVE  i \in wordArray'
    <3>1. CASE i = pos
      BY <1>0, <2>1, <2>6, <3>1 DEF LongWord
    <3>2. CASE i = pos + 1
      <4>1. pos \in 1..(Len(text) - 1)
        BY <1>0, <2>6, <3>2
      <4>2. text[pos + 1] \notin Word
        BY <2>1, <4>1 DEF ScanInv, Separated
      <4> QED BY <2>6, <3>2, <4>2 DEF LongWord
    <3> QED BY <1>0, <2>6, <3>1, <3>2
  <2>7. \A i \in wordArray' \ wordArray :
          i \in 1..Len(text) /\ LongWord(i) /\ (Behind(">", i) \/ BehindHiddenTag(i))
    BY <1>0, <2>1, <2>3 DEF LongWord
  <2>8. wordArray \subseteq wordArray'
    BY <2>1
  <2> QED BY <2>1, <2>5, <2>6, <2>7, <2>8, GoOnKeeps DEF Scanning
<1>9. CASE extractLink
  BY <1>9, <1>a DEF extractLink, HrefEmpty, HrefFragment, HrefTaken, LinksDone, HasNext,
                    Scanning, Unscanned, Downloading
<1>10. CASE UNCHANGED vars
  BY <1>10 DEF vars, scanVars, ScanInv, Separated, InBounds, CountedBehind, LongWord,
               Behind, BehindHiddenTag
<1> QED
  BY <1>1, <1>2, <1>3, <1>4, <1>5, <1>6, <1>7, <1>8, <1>9, <1>10
     DEF Next, parse, extractWords

LEMMA ScanInvariant == Spec => []ScanInv
BY ScanInvInit, ScanInvStep, ClientInvariant, PTL DEF Spec

\* extractWords dereferences its iterator only inside the text, though the
\* loop steps over the character behind a word without looking at it.
THEOREM IteratorInBounds == Spec => []InBounds
<1>1. ScanInv => InBounds
  BY DEF ScanInv
<1> QED BY <1>1, ScanInvariant, PTL

\* extractWords loses no long word that stands between tags, however tags and
\* words follow on each other, except the last one of the text.
THEOREM WordsNotLost == Spec => []NoWordLost
<1>1. ScanInv => NoWordLost
  BY DEF ScanInv, NoWordLost
<1> QED BY <1>1, ScanInvariant, PTL

\* In a text in which no tag touches the word before it, what extractWords counts
\* is a long word between tags: the only tags the scan takes for text are those
\* whose '<' it steps over behind a word.
THEOREM WordsCountedForAReason == Spec => []CountedForAReason
<1>1. ScanInv => CountedForAReason
  <2> SUFFICES ASSUME ScanInv, NEW i \in wordArray
               PROVE  LongWord(i) /\ (WordsApart => Behind(">", i))
    BY DEF CountedForAReason
  <2>1. i \in 1..Len(text) /\ LongWord(i) /\ (Behind(">", i) \/ BehindHiddenTag(i))
    BY DEF ScanInv, CountedBehind
  <2>2. Len(text) \in Nat
    BY DEF ScanInv
  <2>3. ASSUME WordsApart PROVE ~BehindHiddenTag(i)
    BY <2>1, <2>2, <2>3 DEF WordsApart, BehindHiddenTag
  <2> QED BY <2>1, <2>3
<1> QED BY <1>1, ScanInvariant, PTL

-------------------------------------------------------------------------------
(* What parse() has done when it ends *)

OutcomeInv ==
  /\ next \in Nat \ {0}
  /\ at \in Unscanned \cup Scanning \cup {"add", "false"} => ~stored
  /\ at = "add" \/ stored => wordArray # {}
  /\ at \in {"links", "true"} => stored
  /\ at \in Scanning \cup {"add", "links", "true"} => content # NoPage
  /\ at = "thrown" /\ stored => \E i \in DOMAIN content.hrefs : content.hrefs[i] = <<>>

LEMMA OutcomeInvStep == ClientInv /\ OutcomeInv /\ [Next]_vars => OutcomeInv'
<1> SUFFICES ASSUME ClientInv, OutcomeInv, [Next]_vars PROVE OutcomeInv'
  OBVIOUS
<1> USE DEF OutcomeInv, Unscanned, Scanning, Downloading, scanVars, linkVars, clientVars
<1>1. CASE Construct \/ ConstructThrows
  BY <1>1 DEF Construct, ConstructThrows
<1>2. CASE Download
  <2>1. /\ at \in Downloading /\ at' \in Downloading \cup {"returned"}
        /\ UNCHANGED <<wordArray, stored, next>>
    BY <1>2 DEF Download, getContent, getContent_Redirect, Request, Read, Catch, Follow,
                NoRedirect, RequestRedirect, ReadRedirect, CatchRedirect
  <2> QED BY <2>1
<1>3. CASE Scan
  BY <1>3 DEF Scan
<1>4. CASE NoContent \/ AddLink \/ AddLinkThrows
  BY <1>4 DEF NoContent, AddLink, AddLinkThrows
<1>5. CASE extractWords
  <2>1. /\ at \in Scanning /\ at' \in Scanning \cup {"false", "add"}
        /\ at' = "add" => wordArray' # {}
        /\ UNCHANGED <<content, stored, next>>
    BY <1>5 DEF extractWords, SkipTag, TagBegins, SkipCharacter, CountWord, GoOn
  <2> QED BY <2>1
<1>6. CASE HrefEmpty
  <2>1. /\ at = "links" /\ at' = "thrown" /\ next <= Len(content.hrefs)
        /\ content.hrefs[next] = <<>> /\ UNCHANGED <<content, wordArray, stored, next>>
    BY <1>6 DEF HrefEmpty, HasNext, href
  <2>2. content \in [text : Seq(Token), hrefs : Seq(Seq(UrlToken))]
    BY <2>1, ContentIsPage
  <2>3. content.hrefs \in Seq(Seq(UrlToken))
    BY <2>2
  <2>4. next \in DOMAIN content.hrefs
    BY <2>1, <2>3
  <2> QED BY <2>1, <2>4
<1>7. CASE HrefFragment \/ HrefTaken \/ LinksDone
  BY <1>7 DEF HrefFragment, HrefTaken, LinksDone, HasNext
<1>8. CASE UNCHANGED vars
  BY <1>8 DEF vars
<1> QED
  BY <1>1, <1>2, <1>3, <1>4, <1>5, <1>6, <1>7, <1>8 DEF Next, parse, extractLink

LEMMA OutcomeInvariant == Spec => []OutcomeInv
<1>1. Init => OutcomeInv
  BY DEF Init, OutcomeInv, Unscanned, Scanning, Downloading
<1> QED BY <1>1, OutcomeInvStep, ClientInvariant, PTL DEF Spec

\* parse() stores a page only with words, returns true only when it has stored
\* it, and after that fails only at an empty href.
THEOREM StoresThenLinks == Spec => []StoredThenLinked
<1>1. OutcomeInv => StoredThenLinked
  BY DEF OutcomeInv, StoredThenLinked
<1> QED BY <1>1, OutcomeInvariant, PTL

-------------------------------------------------------------------------------
(* How urls are read *)

LEMMA FirstSlashFacts ==
  ASSUME NEW u \in Seq(UrlToken), NEW i \in Nat \ {0}
  PROVE  /\ FirstSlash(u, i) # 0 => FirstSlash(u, i) \in i..Len(u) /\ u[FirstSlash(u, i)] = "/"
         /\ \A j \in i..Len(u) : u[j] = "/" =>
              /\ FirstSlash(u, i) # 0
              /\ (\A k \in i..(j - 1) : u[k] # "/") => FirstSlash(u, i) = j
<1> DEFINE slashes == {j \in i..Len(u) : u[j] = "/"}
<1>0. Len(u) \in Nat
  OBVIOUS
<1>1. CASE slashes = {}
  <2>1. FirstSlash(u, i) = 0
    BY <1>1 DEF FirstSlash
  <2> QED BY <1>1, <2>1
<1>2. CASE slashes # {}
  <2>1. FirstSlash(u, i) = Least(slashes)
    BY <1>2 DEF FirstSlash
  <2>2. slashes \subseteq Nat
    BY <1>0
  <2>3. Least(slashes) \in slashes /\ \A j \in slashes : Least(slashes) <= j
    <3> HIDE DEF slashes
    <3> QED BY <1>2, <2>2, LeastIsLeast
  <2> DEFINE l == Least(slashes)
  <2>4. /\ l \in i..Len(u) /\ u[l] = "/"
        /\ \A j \in i..Len(u) : u[j] = "/" => l <= j
    BY <2>3
  <2> HIDE DEF l
  <2>5. ASSUME NEW j \in i..Len(u), u[j] = "/", \A k \in i..(j - 1) : u[k] # "/"
        PROVE  l = j
    <3>1. l <= j
      BY <2>4, <2>5
    <3>2. ~(l \in i..(j - 1))
      BY <2>4, <2>5
    <3> QED BY <1>0, <2>4, <3>1, <3>2
  <2> QED BY <2>1, <2>4, <2>5 DEF l
<1> QED BY <1>1, <1>2

\* A reading of the host.
HostRead(u, i, tail, shape, query) ==
  /\ i <= Len(u)
  /\ shape \in {0, 1, 2} /\ query = FirstSlash(u, i + shape) /\ query > 0
  /\ shape = 0 => query = i
  /\ shape = 1 => u[i] \in Name \ {"s"}
  /\ shape = 2 => u[i] \in Name /\ query >= i + 2 + tail

LEMMA HostCases ==
  ASSUME NEW u, NEW i \in Nat, NEW tail, NEW shape, NEW query
  PROVE  HostRead(u, i, tail, shape, query) <=>
           [shape |-> shape, query |-> query] \in HostReadings(u, i, tail)
<1>1. i + 0 = i
  OBVIOUS
<1> DEFINE h == [shape |-> shape, query |-> query]
<1>2. h.shape = shape /\ h.query = query
  OBVIOUS
<1>3. h \in {[shape |-> 2, query |-> FirstSlash(u, i + 2)],
             [shape |-> 1, query |-> FirstSlash(u, i + 1)],
             [shape |-> 0, query |-> FirstSlash(u, i)]}
      <=> shape \in {0, 1, 2} /\ query = FirstSlash(u, i + shape)
  BY <1>1
<1> HIDE DEF h
<1>4. h \in HostReadings(u, i, tail) <=>
        /\ h \in {[shape |-> 2, query |-> FirstSlash(u, i + 2)],
                  [shape |-> 1, query |-> FirstSlash(u, i + 1)],
                  [shape |-> 0, query |-> FirstSlash(u, i)]}
        /\ i <= Len(u)
        /\ h.query > 0
        /\ h.shape = 0 => h.query = i
        /\ h.shape = 1 => u[i] \in Name \ {"s"}
        /\ h.shape = 2 => u[i] \in Name /\ h.query >= i + 2 + tail
  BY Zenon DEF HostReadings
<1>5. h \in HostReadings(u, i, tail) <=> HostRead(u, i, tail, shape, query)
  BY <1>2, <1>3, <1>4 DEF HostRead
<1> QED BY <1>5 DEF h

\* A reading of a url, with the fields of the record.
UrlRead(u, tail, r) ==
  /\ r.from \in 1..Len(u)
  /\ \/ /\ r.scheme = 0
        /\ r.host \in SeparatorEnds(u, r.from)
        /\ HostRead(u, r.host, tail, r.shape, r.query)
     \/ /\ r.scheme = 2 /\ u[r.from] \in Scheme
        /\ r.host \in SeparatorEnds(u, r.from + 1)
        /\ HostRead(u, r.host, tail, r.shape, r.query)
     \/ /\ r.scheme = 1 /\ u[r.from] = "https" /\ r.host = r.from
        /\ r.shape = 2 /\ r.query = FirstSlash(u, r.from + 2)
        /\ r.query >= r.from + 2 + tail

LEMMA SeparatorEndsNat ==
  ASSUME NEW u, NEW i \in Nat
  PROVE  SeparatorEnds(u, i) \subseteq Nat /\ \A b \in SeparatorEnds(u, i) : b >= i
BY DEF SeparatorEnds

LEMMA RestCases ==
  ASSUME NEW u, NEW i \in Nat, NEW tail, NEW x \in RestReadings(u, i, tail)
  PROVE  x.host \in SeparatorEnds(u, i) /\ HostRead(u, x.host, tail, x.shape, x.query)
<1>1. PICK b \in SeparatorEnds(u, i) : \E h \in HostReadings(u, b, tail) :
        x = [host |-> b, shape |-> h.shape, query |-> h.query]
  BY Zenon DEF RestReadings
<1>2. PICK h \in HostReadings(u, b, tail) :
        x = [host |-> b, shape |-> h.shape, query |-> h.query]
  BY <1>1
<1>3. x.host = b /\ x.shape = h.shape /\ x.query = h.query
  BY <1>2
<1>4. b \in Nat
  BY SeparatorEndsNat
<1>5. h = [shape |-> h.shape, query |-> h.query]
  BY DEF HostReadings
<1>6. HostRead(u, b, tail, h.shape, h.query)
  BY <1>4, <1>5, HostCases
<1> QED BY <1>3, <1>6

LEMMA UrlCases ==
  ASSUME NEW u, Len(u) \in Nat, NEW tail, NEW r \in Readings(u, tail)
  PROVE  UrlRead(u, tail, r)
<1> DEFINE With(i, scheme, R) ==
             {[from |-> i, scheme |-> scheme, host |-> x.host, shape |-> x.shape,
               query |-> x.query] : x \in R}
           split(i) == {[host |-> i, shape |-> 2, query |-> FirstSlash(u, i + 2)]}
<1>1. PICK i \in 1..Len(u) : r \in ReadingsFrom(u, i, tail)
  BY Zenon DEF Readings
<1>2. \/ r \in With(i, 0, RestReadings(u, i, tail))
      \/ u[i] \in Scheme /\ r \in With(i, 2, RestReadings(u, i + 1, tail))
      \/ r \in With(i, 1, split(i)) /\ u[i] = "https" /\ r.query >= i + 2 + tail
  BY <1>1 DEF ReadingsFrom
<1>3. CASE r \in With(i, 0, RestReadings(u, i, tail))
  <2>1. PICK x \in RestReadings(u, i, tail) :
          r = [from |-> i, scheme |-> 0, host |-> x.host, shape |-> x.shape,
               query |-> x.query]
    BY <1>3
  <2>2. /\ r.from = i /\ r.scheme = 0 /\ r.host = x.host /\ r.shape = x.shape
        /\ r.query = x.query
    BY <2>1
  <2> QED BY <2>2, RestCases DEF UrlRead
<1>4. CASE u[i] \in Scheme /\ r \in With(i, 2, RestReadings(u, i + 1, tail))
  <2>1. PICK x \in RestReadings(u, i + 1, tail) :
          r = [from |-> i, scheme |-> 2, host |-> x.host, shape |-> x.shape,
               query |-> x.query]
    BY <1>4
  <2>2. /\ r.from = i /\ r.scheme = 2 /\ r.host = x.host /\ r.shape = x.shape
        /\ r.query = x.query /\ i + 1 \in Nat
    BY <2>1
  <2> QED BY <1>4, <2>2, RestCases DEF UrlRead
<1>5. CASE r \in With(i, 1, split(i)) /\ u[i] = "https" /\ r.query >= i + 2 + tail
  <2>1. r = [from |-> i, scheme |-> 1, host |-> i, shape |-> 2,
             query |-> FirstSlash(u, i + 2)]
    BY <1>5
  <2>2. /\ r.from = i /\ r.scheme = 1 /\ r.host = i /\ r.shape = 2
        /\ r.query = FirstSlash(u, i + 2)
    BY <2>1
  <2> QED BY <1>5, <2>2 DEF UrlRead
<1> QED BY <1>2, <1>3, <1>4, <1>5

\* The converse, for readings with a scheme.
LEMMA SchemeReading ==
  ASSUME NEW u, NEW i \in 1..Len(u), Len(u) \in Nat, NEW tail, u[i] \in Scheme,
         NEW b \in SeparatorEnds(u, i + 1), NEW shape, NEW query,
         HostRead(u, b, tail, shape, query)
  PROVE  [from |-> i, scheme |-> 2, host |-> b, shape |-> shape, query |-> query]
           \in Readings(u, tail)
<1> DEFINE h == [shape |-> shape, query |-> query]
           x == [host |-> b, shape |-> shape, query |-> query]
           r == [from |-> i, scheme |-> 2, host |-> b, shape |-> shape, query |-> query]
<1>1. h \in HostReadings(u, b, tail)
  BY SeparatorEndsNat, HostCases
<1>2. x = [host |-> b, shape |-> h.shape, query |-> h.query]
  OBVIOUS
<1>3. r = [from |-> i, scheme |-> 2, host |-> x.host, shape |-> x.shape, query |-> x.query]
  OBVIOUS
<1> HIDE DEF h, x, r
<1>4. x \in RestReadings(u, i + 1, tail)
  <2> DEFINE R(c) == {[host |-> c, shape |-> y.shape, query |-> y.query] :
                        y \in HostReadings(u, c, tail)}
  <2>1. x \in R(b)
    BY <1>1, <1>2
  <2>2. R(b) \in {R(c) : c \in SeparatorEnds(u, i + 1)}
    OBVIOUS
  <2>3. RestReadings(u, i + 1, tail) = UNION {R(c) : c \in SeparatorEnds(u, i + 1)}
    BY Zenon DEF RestReadings
  <2> HIDE DEF R
  <2> QED BY <2>1, <2>2, <2>3
<1>5. r \in ReadingsFrom(u, i, tail)
  BY <1>3, <1>4 DEF ReadingsFrom
<1>6. r \in Readings(u, tail)
  BY <1>5, Zenon DEF Readings
<1> QED BY <1>6 DEF r

LEMMA SchemeOfCases ==
  ASSUME NEW u, NEW r, NEW default
  PROVE  /\ r.scheme = 2 => SchemeOf(u, r, default) = u[r.from]
         /\ r.scheme = 1 => SchemeOf(u, r, default) = "http"
         /\ r.scheme = 0 => SchemeOf(u, r, default) = default
BY DEF SchemeOf

LEMMA HostOfCases ==
  ASSUME NEW u, NEW r, NEW default, r.shape \in {0, 1, 2}
  PROVE  /\ r.scheme = 1 =>
              HostOf(u, r, default) = <<"s">> \o SubSeq(u, r.host + 1, r.query - 1)
         /\ r.scheme # 1 /\ r.shape > 0 => HostOf(u, r, default) = SubSeq(u, r.host, r.query - 1)
         /\ r.scheme # 1 /\ r.shape = 0 => HostOf(u, r, default) = default
<1>1. ~(r.shape > 0 /\ r.shape = 0)
  OBVIOUS
<1>2. r.scheme = 1 => HostOf(u, r, default) = <<"s">> \o SubSeq(u, r.host + 1, r.query - 1)
  BY Zenon DEF HostOf
<1>3. r.scheme # 1 /\ r.shape > 0 => HostOf(u, r, default) = SubSeq(u, r.host, r.query - 1)
  BY <1>1, Zenon DEF HostOf
<1>4. r.scheme # 1 /\ r.shape = 0 => HostOf(u, r, default) = default
  BY <1>1, Zenon DEF HostOf
<1> QED BY <1>2, <1>3, <1>4

\* Where the parts of a reading stand.
LEMMA ReadingFacts ==
  ASSUME NEW u \in Seq(UrlToken), NEW tail \in Nat, NEW r, UrlRead(u, tail, r)
  PROVE  /\ r.from \in 1..Len(u) /\ r.scheme \in {0, 1, 2} /\ r.shape \in {0, 1, 2}
         /\ r.host \in Nat \ {0} /\ r.host >= r.from
         /\ r.query \in (r.host + r.shape)..Len(u) /\ u[r.query] = "/"
         /\ r.scheme = 1 => r.shape = 2
         /\ r.scheme # 1 /\ r.shape > 0 => u[r.host] \in Name
         /\ r.scheme # 1 /\ r.shape = 1 => u[r.host] # "s"
<1>0. Len(u) \in Nat /\ r.from \in 1..Len(u) /\ r.from \in Nat /\ r.from + 1 \in Nat
  BY DEF UrlRead
<1>1. ASSUME r.host \in Nat, r.host >= r.from, HostRead(u, r.host, tail, r.shape, r.query)
      PROVE  /\ r.shape \in {0, 1, 2}
             /\ r.query \in (r.host + r.shape)..Len(u) /\ u[r.query] = "/"
             /\ r.shape > 0 => u[r.host] \in Name
             /\ r.shape = 1 => u[r.host] # "s"
  <2>1. r.shape \in {0, 1, 2} /\ r.query = FirstSlash(u, r.host + r.shape) /\ r.query > 0
    BY <1>1 DEF HostRead
  <2>2. r.host + r.shape \in Nat \ {0}
    BY <1>0, <1>1, <2>1
  <2>3. r.query # 0
    BY <2>1
  <2>4. r.query \in (r.host + r.shape)..Len(u) /\ u[r.query] = "/"
    BY <2>1, <2>2, <2>3, FirstSlashFacts
  <2> QED BY <1>1, <2>1, <2>4 DEF HostRead
<1>2. CASE /\ r.scheme = 0
           /\ r.host \in SeparatorEnds(u, r.from)
           /\ HostRead(u, r.host, tail, r.shape, r.query)
  <2>1. r.host \in Nat \ {0} /\ r.host >= r.from
    BY <1>0, <1>2, SeparatorEndsNat
  <2> QED BY <1>0, <1>1, <1>2, <2>1
<1>3. CASE /\ r.scheme = 2
           /\ r.host \in SeparatorEnds(u, r.from + 1)
           /\ HostRead(u, r.host, tail, r.shape, r.query)
  <2>1. r.host \in Nat /\ r.host >= r.from + 1
    BY <1>0, <1>3, SeparatorEndsNat
  <2>2. r.host \in Nat \ {0} /\ r.host >= r.from
    BY <1>0, <2>1
  <2> QED BY <1>0, <1>1, <1>3, <2>2
<1>4. CASE /\ r.scheme = 1 /\ r.host = r.from
           /\ r.shape = 2 /\ r.query = FirstSlash(u, r.from + 2)
           /\ r.query >= r.from + 2 + tail
  <2>1. r.from + 2 \in Nat \ {0}
    BY <1>0
  <2>2. r.query # 0
    BY <1>0, <1>4
  <2>3. r.query \in (r.from + 2)..Len(u) /\ u[r.query] = "/"
    BY <1>4, <2>1, <2>2, FirstSlashFacts
  <2> QED BY <1>0, <1>4, <2>3
<1> QED BY <1>2, <1>3, <1>4 DEF UrlRead

LEMMA MatchIsFirst ==
  ASSUME NEW u, NEW tail, NEW r \in Match(u, tail)
  PROVE  r \in Readings(u, tail) /\ \A s \in Readings(u, tail) : TriedBefore(r, s)
BY Zenon DEF Match

LEMMA FirstIsMatch ==
  ASSUME NEW u, NEW tail, NEW r \in Readings(u, tail),
         \A s \in Readings(u, tail) : TriedBefore(r, s)
  PROVE  r \in Match(u, tail)
BY Zenon DEF Match

-------------------------------------------------------------------------------
(* Urls are kept *)

\* The hosts and the links that UrlToLink makes.
GoodHost(host) ==
  /\ host \in Seq(UrlToken)
  /\ Len(host) > 0 /\ host[1] \in Name
  /\ Len(host) = 1 => host[1] # "s"

GoodLink ==
  {l \in [protocol : Scheme, host : Seq(UrlToken), query : Seq(UrlToken)] :
     GoodHost(l.host) /\ Len(l.query) > 0 /\ l.query[1] = "/"}

LEMMA SubUrl ==
  ASSUME NEW u \in Seq(UrlToken), NEW m \in Nat \ {0}, NEW n \in Int, n <= Len(u), m <= n + 1
  PROVE  /\ SubSeq(u, m, n) \in Seq(UrlToken) /\ Len(SubSeq(u, m, n)) = n - m + 1
         /\ \A i \in 1..(n - m + 1) : SubSeq(u, m, n)[i] = u[m + i - 1]
<1>1. \A i \in m..n : u[i] \in UrlToken
  OBVIOUS
<1>2. CASE m <= n
  BY <1>1, <1>2, SubSeqProperties
<1>3. CASE m = n + 1
  BY <1>1, <1>3, SubSeqProperties
<1> QED BY <1>2, <1>3

\* A reading makes such a link, if its defaults are good where it needs them.
LEMMA ReadLinkGood ==
  ASSUME NEW u \in Seq(UrlToken), NEW tail \in Nat, NEW r, UrlRead(u, tail, r),
         NEW scheme, NEW host,
         r.scheme = 0 => scheme \in Scheme,
         r.scheme # 1 /\ r.shape = 0 => GoodHost(host)
  PROVE  [protocol |-> SchemeOf(u, r, scheme), host |-> HostOf(u, r, host),
          query |-> QueryOf(u, r)] \in GoodLink
<1>0. Len(u) \in Nat
  OBVIOUS
<1>1. /\ r.from \in 1..Len(u) /\ r.scheme \in {0, 1, 2} /\ r.shape \in {0, 1, 2}
      /\ r.host \in Nat \ {0} /\ r.host >= r.from
      /\ r.query \in (r.host + r.shape)..Len(u) /\ u[r.query] = "/"
      /\ r.scheme = 1 => r.shape = 2
      /\ r.scheme # 1 /\ r.shape > 0 => u[r.host] \in Name
      /\ r.scheme # 1 /\ r.shape = 1 => u[r.host] # "s"
  BY ReadingFacts
<1>a. /\ r.query \in Int /\ r.host \in Int /\ r.query >= r.host
      /\ r.shape = 1 => r.query >= r.host + 1
      /\ r.shape = 2 => r.query >= r.host + 2
  BY <1>1
<1>b. r.shape > 0 => r.shape = 1 \/ r.shape = 2
  BY <1>1
<1>2. SchemeOf(u, r, scheme) \in Scheme
  <2>1. r.scheme = 2 => u[r.from] \in Scheme
    BY DEF UrlRead
  <2> QED BY <1>1, <2>1, SchemeOfCases DEF Scheme
<1>3. QueryOf(u, r) \in Seq(UrlToken) /\ Len(QueryOf(u, r)) > 0 /\ QueryOf(u, r)[1] = "/"
  <2> DEFINE q == r.query
             s == SubSeq(u, q, Len(u))
  <2>1. q \in Nat \ {0} /\ q <= Len(u) /\ q <= Len(u) + 1 /\ Len(u) \in Int
    BY <1>0, <1>1
  <2> HIDE DEF q
  <2>2. /\ s \in Seq(UrlToken) /\ Len(s) = Len(u) - q + 1
        /\ \A i \in 1..(Len(u) - q + 1) : s[i] = u[q + i - 1]
    BY <2>1, SubUrl
  <2> HIDE DEF s
  <2>3. Len(s) > 0 /\ s[1] = u[q]
    BY <1>0, <2>1, <2>2
  <2> QED BY <1>1, <2>2, <2>3 DEF QueryOf, s, q
<1>4. GoodHost(HostOf(u, r, host))
  <2>1. CASE r.scheme # 1 /\ r.shape = 0
    BY <1>1, <2>1, HostOfCases
  <2>2. CASE r.scheme # 1 /\ r.shape > 0
    <3> DEFINE h == SubSeq(u, r.host, r.query - 1)
    <3>1. r.query - 1 \in Int /\ r.query - 1 <= Len(u) /\ r.host <= (r.query - 1) + 1
      BY <1>0, <1>1
    <3>2. /\ h \in Seq(UrlToken) /\ Len(h) = (r.query - 1) - r.host + 1
          /\ \A i \in 1..((r.query - 1) - r.host + 1) : h[i] = u[r.host + i - 1]
      BY <1>1, <3>1, SubUrl
    <3>3. HostOf(u, r, host) = h
      BY <1>1, <2>2, HostOfCases
    <3> HIDE DEF h
    <3>4. Len(h) = r.query - r.host /\ Len(h) > 0 /\ (r.shape = 2 => Len(h) # 1)
      BY <1>a, <1>b, <2>2, <3>2
    <3>5. h[1] = u[r.host]
      BY <1>1, <3>2, <3>4
    <3> QED BY <1>1, <2>2, <3>2, <3>3, <3>4, <3>5 DEF GoodHost
  <2>3. CASE r.scheme = 1
    <3> DEFINE t == SubSeq(u, r.host + 1, r.query - 1)
               h == <<"s">> \o t
    <3>1. /\ r.host + 1 \in Nat \ {0} /\ r.query - 1 \in Int /\ r.query - 1 <= Len(u)
          /\ r.host + 1 <= (r.query - 1) + 1
      BY <1>0, <1>1, <2>3
    <3>2. t \in Seq(UrlToken) /\ Len(t) = (r.query - 1) - (r.host + 1) + 1
      BY <3>1, SubUrl
    <3>3. HostOf(u, r, host) = h
      BY <2>3, Zenon DEF HostOf
    <3>4. Len(t) > 0 /\ Len(t) \in Nat
      <4> HIDE DEF t
      <4> QED BY <1>1, <1>a, <2>3, <3>2
    <3> HIDE DEF t
    <3>5. "s" \in Name /\ "s" \in UrlToken
      BY UtilsAssumption DEF UrlToken
    <3>6. <<"s">> \in Seq(UrlToken) /\ Len(<<"s">>) = 1 /\ <<"s">>[1] = "s"
      BY <3>5
    <3>7. /\ h \in Seq(UrlToken) /\ Len(h) = Len(<<"s">>) + Len(t)
          /\ \A i \in 1..(Len(<<"s">>) + Len(t)) :
               h[i] = IF i <= Len(<<"s">>) THEN <<"s">>[i] ELSE t[i - Len(<<"s">>)]
      BY <3>2, <3>6, ConcatProperties
    <3> HIDE DEF h
    <3>8. Len(h) = 1 + Len(t) /\ h[1] = "s"
      BY <3>4, <3>6, <3>7
    <3> QED BY <3>3, <3>4, <3>5, <3>7, <3>8 DEF GoodHost
  <2> QED BY <1>1, <2>1, <2>2, <2>3
<1>5. HostOf(u, r, host) \in Seq(UrlToken)
  BY <1>4 DEF GoodHost
<1> QED BY <1>2, <1>3, <1>4, <1>5 DEF GoodLink

\* A link found on a page with such a link is such a link.
LEMMA FoundLinkGood ==
  ASSUME NEW u \in Seq(UrlToken), NEW parent \in GoodLink
  PROVE  UrlToLink(u, parent) \in GoodLink
<1>0. Len(u) \in Nat /\ parent.protocol \in Scheme /\ GoodHost(parent.host)
  BY DEF GoodLink
<1>1. CASE Match(u, 1) = {}
  <2>1. UrlToLink(u, parent) = [parent EXCEPT !.query = <<"/">>]
    BY <1>1 DEF UrlToLink
  <2>2. <<"/">> \in Seq(UrlToken) /\ Len(<<"/">>) > 0 /\ <<"/">>[1] = "/"
    BY DEF UrlToken
  <2>3. /\ parent \in [protocol : Scheme, host : Seq(UrlToken), query : Seq(UrlToken)]
        /\ GoodHost(parent.host)
    BY DEF GoodLink
  <2> DEFINE l == [parent EXCEPT !.query = <<"/">>]
  <2>4. /\ l \in [protocol : Scheme, host : Seq(UrlToken), query : Seq(UrlToken)]
        /\ l.host = parent.host /\ l.query = <<"/">>
    BY <2>2, <2>3
  <2> HIDE DEF l
  <2>5. l \in GoodLink
    BY <2>2, <2>3, <2>4 DEF GoodLink
  <2> QED BY <2>1, <2>5 DEF l
<1>2. CASE Match(u, 1) # {}
  <2> DEFINE Made(r) == [protocol |-> SchemeOf(u, r, parent.protocol),
                         host |-> HostOf(u, r, parent.host), query |-> QueryOf(u, r)]
  <2>1. \A r \in Match(u, 1) : Made(r) \in GoodLink
    <3> SUFFICES ASSUME NEW r \in Match(u, 1) PROVE Made(r) \in GoodLink
      OBVIOUS
    <3>1. UrlRead(u, 1, r)
      BY <1>0, MatchIsFirst, UrlCases
    <3> QED BY <1>0, <3>1, ReadLinkGood
  <2>2. UrlToLink(u, parent) = CHOOSE l \in {Made(r) : r \in Match(u, 1)} : TRUE
    BY <1>2 DEF UrlToLink
  <2> HIDE DEF Made
  <2>3. UrlToLink(u, parent) \in {Made(r) : r \in Match(u, 1)}
    BY <1>2, <2>2
  <2> QED BY <2>1, <2>3
<1> QED BY <1>1, <1>2

\* The constructor makes such a link of every url it accepts.
LEMMA FirstLinkGood ==
  ASSUME NEW u \in Seq(UrlToken), ~FirstUrlBad(u)
  PROVE  FirstUrlToLink(u) \in GoodLink
<1>0. Len(u) \in Nat
  OBVIOUS
<1> DEFINE Made(r) == [protocol |-> SchemeOf(u, r, ""), host |-> HostOf(u, r, <<>>),
                       query |-> QueryOf(u, r)]
<1>1. PICK s \in Match(u, 0) : s.scheme # 0 /\ s.shape # 0
  BY DEF FirstUrlBad
<1>2. ASSUME NEW r \in Match(u, 0) PROVE Made(r) \in GoodLink
  <2>1. UrlRead(u, 0, r) /\ UrlRead(u, 0, s)
    BY <1>0, MatchIsFirst, UrlCases
  <2>2. TriedBefore(r, s) /\ TriedBefore(s, r)
    BY MatchIsFirst
  <2>3. /\ r.from \in Nat /\ r.scheme \in Nat /\ r.host \in Nat /\ r.shape \in Nat
        /\ s.from \in Nat /\ s.scheme \in Nat /\ s.host \in Nat /\ s.shape \in Nat
    BY <1>0, <2>1, ReadingFacts
  <2>4. r.scheme = s.scheme /\ r.shape = s.shape
    BY <2>2, <2>3 DEF TriedBefore
  <2> QED BY <1>1, <2>1, <2>4, ReadLinkGood
<1>3. FirstUrlToLink(u) = CHOOSE l \in {Made(r) : r \in Match(u, 0)} : TRUE
  BY DEF FirstUrlToLink
<1> HIDE DEF Made
<1>4. FirstUrlToLink(u) \in {Made(r) : r \in Match(u, 0)}
  BY <1>1, <1>3
<1> QED BY <1>2, <1>4

\* The url of such a link, token by token.
LEMMA UrlOfLink ==
  ASSUME NEW l \in GoodLink
  PROVE  LET u == LinkToURL(l)
             n == Len(l.host)
         IN  /\ u \in Seq(UrlToken) /\ n \in Nat \ {0} /\ Len(u) \in Nat /\ Len(u) >= n + 5
             /\ u[1] = l.protocol /\ u[2] = ":" /\ u[3] = "/" /\ u[4] = "/"
             /\ u[5] = l.host[1] /\ u[n + 5] = "/"
             /\ u = <<u[1], ":", "/", "/">> \o SubSeq(u, 5, Len(u))
<1> DEFINE u == LinkToURL(l)
           n == Len(l.host)
           p == <<l.protocol, ":", "/", "/">>
           c == p \o l.host
<1>1. /\ l.protocol \in Scheme /\ l.host \in Seq(UrlToken) /\ l.query \in Seq(UrlToken)
      /\ Len(l.host) > 0 /\ Len(l.query) > 0 /\ l.query[1] = "/"
  BY DEF GoodLink, GoodHost
<1>2. n \in Nat \ {0} /\ Len(l.query) \in Nat \ {0}
  BY <1>1
<1>3. l.protocol \in UrlToken /\ ":" \in UrlToken /\ "/" \in UrlToken
  BY <1>1, UtilsAssumption DEF UrlToken
<1>4. /\ p \in Seq(UrlToken) /\ Len(p) = 4
      /\ p[1] = l.protocol /\ p[2] = ":" /\ p[3] = "/" /\ p[4] = "/"
  BY <1>3
<1> HIDE DEF p
<1>5. /\ c \in Seq(UrlToken) /\ Len(c) = Len(p) + Len(l.host)
      /\ \A i \in 1..(Len(p) + Len(l.host)) :
           c[i] = IF i <= Len(p) THEN p[i] ELSE l.host[i - Len(p)]
  BY <1>1, <1>4, ConcatProperties
<1> HIDE DEF c
<1>6. u = c \o l.query
  BY DEF LinkToURL, c, p
<1> DEFINE m == Len(l.query)
<1>a. m \in Nat \ {0}
  BY <1>2
<1>7. /\ u \in Seq(UrlToken) /\ Len(u) = Len(c) + m
      /\ \A i \in 1..(Len(c) + m) : u[i] = IF i <= Len(c) THEN c[i] ELSE l.query[i - Len(c)]
  <2> DEFINE q == l.query
  <2>0. c \in Seq(UrlToken) /\ q \in Seq(UrlToken) /\ u = c \o q
    BY <1>1, <1>5, <1>6
  <2> HIDE DEF q, u
  <2>1. /\ c \o q \in Seq(UrlToken) /\ Len(c \o q) = Len(c) + Len(q)
        /\ \A i \in 1..(Len(c) + Len(q)) :
             (c \o q)[i] = IF i <= Len(c) THEN c[i] ELSE q[i - Len(c)]
    BY <2>0, ConcatProperties
  <2>2. /\ u \in Seq(UrlToken) /\ Len(u) = Len(c) + Len(q)
        /\ \A i \in 1..(Len(c) + Len(q)) : u[i] = IF i <= Len(c) THEN c[i] ELSE q[i - Len(c)]
    BY <2>0, <2>1, Zenon
  <2> QED BY <2>2, Zenon DEF q, m
<1>b. Len(c) = 4 + n
  BY <1>2, <1>4, <1>5
<1> HIDE DEF u, n, m
<1>8. Len(c) = 4 + n /\ Len(u) \in Nat /\ Len(u) >= n + 5
  <2>1. Len(u) = 4 + n + m
    BY <1>7, <1>b
  <2> QED BY <1>2, <1>a, <1>b, <2>1
<1>9. /\ c[1] = p[1] /\ c[2] = p[2] /\ c[3] = p[3] /\ c[4] = p[4] /\ c[5] = l.host[1]
  BY <1>2, <1>4, <1>5, <1>8 DEF n
<1>10. /\ u[1] = c[1] /\ u[2] = c[2] /\ u[3] = c[3] /\ u[4] = c[4] /\ u[5] = c[5]
       /\ u[n + 5] = l.query[1]
  <2>1. /\ 1 \in 1..(4 + n + m) /\ 2 \in 1..(4 + n + m) /\ 3 \in 1..(4 + n + m)
        /\ 4 \in 1..(4 + n + m) /\ 5 \in 1..(4 + n + m) /\ n + 5 \in 1..(4 + n + m)
        /\ 1 <= 4 + n /\ 2 <= 4 + n /\ 3 <= 4 + n /\ 4 <= 4 + n /\ 5 <= 4 + n
        /\ ~(n + 5 <= 4 + n) /\ n + 5 - (4 + n) = 1
    BY <1>2, <1>a
  <2>2. \A i \in 1..(4 + n + m) : u[i] = IF i <= 4 + n THEN c[i] ELSE l.query[i - (4 + n)]
    BY <1>7, <1>8
  <2>3. u[n + 5] = l.query[1]
    BY <1>2, <2>1, <2>2
  <2> QED BY <1>2, <2>1, <2>2, <2>3
<1>11. u = p \o SubSeq(u, 5, Len(u))
  <2> DEFINE t == SubSeq(u, 5, Len(u))
             v == p \o t
  <2>1. 5 \in Nat \ {0} /\ Len(u) \in Int /\ Len(u) <= Len(u) /\ 5 <= Len(u) + 1
    BY <1>2, <1>8
  <2>2. /\ t \in Seq(UrlToken) /\ Len(t) = Len(u) - 5 + 1
        /\ \A i \in 1..(Len(u) - 5 + 1) : t[i] = u[5 + i - 1]
    BY <1>7, <2>1, SubUrl
  <2> HIDE DEF t
  <2>3. /\ v \in Seq(UrlToken) /\ Len(v) = Len(p) + Len(t)
        /\ \A i \in 1..(Len(p) + Len(t)) : v[i] = IF i <= Len(p) THEN p[i] ELSE t[i - Len(p)]
    BY <1>4, <2>2, ConcatProperties
  <2> HIDE DEF v
  <2>4. Len(v) = Len(u)
    BY <1>4, <1>8, <2>1, <2>2, <2>3
  <2>5. ASSUME NEW i \in 1..Len(v) PROVE v[i] = u[i]
    <3>1. CASE i > 4
      <4>1. v[i] = t[i - 4] /\ i - 4 \in 1..(Len(u) - 5 + 1) /\ 5 + (i - 4) - 1 = i
        BY <1>4, <1>8, <2>1, <2>2, <2>3, <2>4, <3>1
      <4> QED BY <2>2, <4>1
    <3>2. CASE i = 1 \/ i = 2 \/ i = 3 \/ i = 4
      <4>1. v[i] = p[i]
        BY <1>4, <2>1, <2>2, <2>3, <2>4, <3>2
      <4> QED BY <1>9, <1>10, <3>2, <4>1
    <3> QED BY <1>8, <2>4, <3>1, <3>2
  <2>6. u = v
    BY <1>7, <2>3, <2>4, <2>5, SeqEqual
  <2> QED BY <2>6 DEF v, t
<1>12. u = <<u[1], ":", "/", "/">> \o SubSeq(u, 5, Len(u))
  BY <1>4, <1>9, <1>10, <1>11 DEF p
<1>13. /\ u \in Seq(UrlToken) /\ n \in Nat \ {0} /\ Len(u) \in Nat /\ Len(u) >= n + 5
       /\ u[1] = l.protocol /\ u[2] = ":" /\ u[3] = "/" /\ u[4] = "/"
       /\ u[5] = l.host[1] /\ u[n + 5] = "/"
  BY <1>1, <1>2, <1>4, <1>7, <1>8, <1>9, <1>10
<1> QED BY <1>12, <1>13 DEF u, n

\* In such a url std::regex finds the scheme, "://" and a host behind it.
LEMMA UrlOfLinkRead ==
  ASSUME NEW l \in GoodLink
  PROVE  LET u == LinkToURL(l)
         IN  /\ Match(u, 0) # {}
             /\ \A r \in Match(u, 0) :
                  UrlRead(u, 0, r) /\ r.from = 1 /\ r.scheme = 2 /\ r.host = 5 /\ r.shape > 0
<1> DEFINE u == LinkToURL(l)
           n == Len(l.host)
<1>1. /\ u \in Seq(UrlToken) /\ n \in Nat \ {0} /\ Len(u) \in Nat /\ Len(u) >= n + 5
      /\ u[1] = l.protocol /\ u[2] = ":" /\ u[3] = "/" /\ u[4] = "/"
      /\ u[5] = l.host[1] /\ u[n + 5] = "/"
  BY UrlOfLink
<1>2. u[1] \in Scheme /\ u[5] \in Name /\ (n = 1 => u[5] # "s")
  BY <1>1 DEF GoodLink, GoodHost
<1> HIDE DEF u, n
<1>3. SeparatorEnds(u, 2) = {2, 5}
  <2>1. SubSeq(u, 2, 3) # <<"/", "/">>
    <3>1. SubSeq(u, 2, 3)[1] = u[2]
      BY <1>1, SubUrl
    <3>2. \A s : s = <<"/", "/">> => s[1] = "/"
      BY ShortSequences
    <3> QED BY <1>1, <3>1, <3>2, Zenon
  <2>2. ~At(u, 2, <<"/", "/">>)
    BY <2>1 DEF At
  <2>3. At(u, 2, <<":", "/", "/">>)
    <3> DEFINE s == SubSeq(u, 2, 4)
               t == <<":", "/", "/">>
    <3>1. s \in Seq(UrlToken) /\ Len(s) = 3 /\ s[1] = u[2] /\ s[2] = u[3] /\ s[3] = u[4]
      BY <1>1, SubUrl
    <3>2. t \in Seq(UrlToken) /\ Len(t) = 3 /\ t[1] = ":" /\ t[2] = "/" /\ t[3] = "/"
      BY DEF UrlToken
    <3> HIDE DEF s, t
    <3>3. s = t
      BY <1>1, <3>1, <3>2, SeqEqual
    <3>4. 2 + Len(t) - 1 = 4 /\ 4 <= Len(u)
      BY <1>1, <3>2
    <3> QED BY <3>3, <3>4 DEF At, s, t
  <2> QED BY <2>2, <2>3 DEF SeparatorEnds
<1> DEFINE shape == IF FirstSlash(u, 7) # 0 THEN 2 ELSE 1
           query == FirstSlash(u, 5 + shape)
           best == [from |-> 1, scheme |-> 2, host |-> 5, shape |-> shape, query |-> query]
<1>4. HostRead(u, 5, 0, shape, query)
  <2>1. CASE FirstSlash(u, 7) # 0
    <3>1. FirstSlash(u, 7) \in 7..Len(u)
      BY <1>1, <2>1, FirstSlashFacts
    <3> QED BY <1>1, <1>2, <2>1, <3>1 DEF HostRead
  <2>2. CASE FirstSlash(u, 7) = 0
    <3>1. n = 1
      <4> SUFFICES ASSUME n >= 2 PROVE FALSE
        BY <1>1
      <4>1. n + 5 \in 7..Len(u)
        BY <1>1
      <4> QED BY <1>1, <2>2, <4>1, FirstSlashFacts
    <3>2. FirstSlash(u, 6) # 0 /\ FirstSlash(u, 6) \in 6..Len(u)
      <4>1. 6 \in 6..Len(u) /\ u[6] = "/" /\ 6 \in Nat \ {0}
        BY <1>1, <3>1
      <4> QED BY <1>1, <4>1, FirstSlashFacts
    <3> QED BY <1>1, <1>2, <2>2, <3>1, <3>2 DEF HostRead
  <2> QED BY <2>1, <2>2
<1>5. best \in Readings(u, 0)
  <2>1. 1 \in 1..Len(u) /\ 5 \in SeparatorEnds(u, 1 + 1)
    BY <1>1, <1>3
  <2> HIDE DEF shape, query
  <2> QED BY <1>1, <1>2, <1>4, <2>1, SchemeReading
<1>6. /\ best.from = 1 /\ best.scheme = 2 /\ best.host = 5 /\ best.shape = shape
  OBVIOUS
<1>7. shape \in {1, 2} /\ (shape = 1 => FirstSlash(u, 7) = 0)
  OBVIOUS
<1> HIDE DEF best, shape, query
<1>8. ASSUME NEW s \in Readings(u, 0)
      PROVE  /\ UrlRead(u, 0, s)
             /\ s.from \in Nat /\ s.from >= 1 /\ s.scheme \in {0, 1, 2} /\ s.shape \in {0, 1, 2}
             /\ s.host \in Nat
             /\ s.from = 1 /\ s.scheme = 2 => s.host \in {2, 5}
             /\ s.from = 1 /\ s.scheme = 2 /\ s.host = 5 => shape >= s.shape
  <2>1. UrlRead(u, 0, s)
    BY <1>1, UrlCases
  <2>2. /\ s.from \in Nat /\ s.from >= 1 /\ s.scheme \in {0, 1, 2} /\ s.shape \in {0, 1, 2}
        /\ s.host \in Nat
    BY <1>1, <2>1, ReadingFacts
  <2>3. ASSUME s.from = 1, s.scheme = 2
        PROVE  s.host \in {2, 5} /\ (s.host = 5 => shape >= s.shape)
    <3>1. s.host \in SeparatorEnds(u, 2) /\ HostRead(u, s.host, 0, s.shape, s.query)
      BY <2>1, <2>3 DEF UrlRead
    <3>2. s.host = 5 /\ s.shape = 2 => FirstSlash(u, 7) # 0
      BY <3>1 DEF HostRead
    <3> QED BY <1>3, <1>7, <2>2, <3>1, <3>2
  <2> QED BY <2>1, <2>2, <2>3
<1>9. best \in Match(u, 0)
  <2>1. ASSUME NEW s \in Readings(u, 0) PROVE TriedBefore(best, s)
    BY <1>6, <1>7, <1>8 DEF TriedBefore
  <2> QED BY <1>5, <2>1, FirstIsMatch
<1>10. ASSUME NEW r \in Match(u, 0)
       PROVE  UrlRead(u, 0, r) /\ r.from = 1 /\ r.scheme = 2 /\ r.host = 5 /\ r.shape > 0
  <2>1. r \in Readings(u, 0) /\ TriedBefore(r, best)
    BY <1>5, MatchIsFirst
  <2>2. /\ UrlRead(u, 0, r)
        /\ r.from \in Nat /\ r.from >= 1 /\ r.scheme \in {0, 1, 2} /\ r.shape \in {0, 1, 2}
        /\ r.host \in Nat
        /\ r.from = 1 /\ r.scheme = 2 => r.host \in {2, 5}
    BY <1>8, <2>1
  <2> QED BY <1>6, <1>7, <2>1, <2>2 DEF TriedBefore
<1> QED BY <1>9, <1>10 DEF u

\* Such a link is found again in its own url, or one with the same url.
LEMMA UrlOfLinkKept ==
  ASSUME NEW l \in GoodLink
  PROVE  LET u == LinkToURL(l) IN ~FirstUrlBad(u) /\ LinkToURL(FirstUrlToLink(u)) = u
<1> DEFINE u == LinkToURL(l)
           Made(r) == [protocol |-> SchemeOf(u, r, ""), host |-> HostOf(u, r, <<>>),
                       query |-> QueryOf(u, r)]
<1>1. /\ Match(u, 0) # {}
      /\ \A r \in Match(u, 0) :
           UrlRead(u, 0, r) /\ r.from = 1 /\ r.scheme = 2 /\ r.host = 5 /\ r.shape > 0
  BY UrlOfLinkRead
<1>2. u \in Seq(UrlToken) /\ u = <<u[1], ":", "/", "/">> \o SubSeq(u, 5, Len(u))
      /\ Len(u) \in Nat
  BY UrlOfLink
<1> HIDE DEF u
<1>3. ~FirstUrlBad(u)
  BY <1>1 DEF FirstUrlBad
<1>4. PICK r \in Match(u, 0) : FirstUrlToLink(u) = Made(r)
  <2>1. FirstUrlToLink(u) = CHOOSE x \in {Made(r) : r \in Match(u, 0)} : TRUE
    BY DEF FirstUrlToLink
  <2> HIDE DEF Made
  <2> QED BY <1>1, <2>1
<1>5. UrlRead(u, 0, r) /\ r.from = 1 /\ r.scheme = 2 /\ r.host = 5 /\ r.shape > 0
  BY <1>1
<1>6. /\ r.shape \in {0, 1, 2}
      /\ r.query \in (r.host + r.shape)..Len(u)
  BY <1>2, <1>5, ReadingFacts
<1>7. r.query \in Int /\ r.query >= 6 /\ r.query <= Len(u)
  BY <1>2, <1>5, <1>6
<1>8. /\ Made(r).protocol = u[1]
      /\ Made(r).host = SubSeq(u, 5, r.query - 1)
      /\ Made(r).query = SubSeq(u, r.query, Len(u))
  <2>1. SchemeOf(u, r, "") = u[1]
    BY <1>5, SchemeOfCases
  <2>2. HostOf(u, r, <<>>) = SubSeq(u, 5, r.query - 1)
    BY <1>5, <1>6, HostOfCases
  <2>3. QueryOf(u, r) = SubSeq(u, r.query, Len(u))
    BY DEF QueryOf
  <2> QED BY <2>1, <2>2, <2>3
<1> HIDE DEF Made
<1>9. SubSeq(u, 5, r.query - 1) \o SubSeq(u, r.query, Len(u)) = SubSeq(u, 5, Len(u))
  <2> DEFINE k == r.query - 1
  <2>1. /\ 5 \in 1..(Len(u) + 1) /\ k \in (5 - 1)..Len(u) /\ Len(u) \in k..Len(u)
        /\ k + 1 = r.query
    BY <1>2, <1>7
  <2>2. SubSeq(u, 5, k) \o SubSeq(u, k + 1, Len(u)) = SubSeq(u, 5, Len(u))
    <3> HIDE DEF k
    <3> QED BY <1>2, <2>1, ConcatAdjacentSubSeq
  <2> QED BY <2>1, <2>2
<1>10. LinkToURL(Made(r)) = u
  <2> DEFINE p == <<u[1], ":", "/", "/">>
             h == SubSeq(u, 5, r.query - 1)
             q == SubSeq(u, r.query, Len(u))
  <2>1. LinkToURL(Made(r)) = (p \o h) \o q
    BY <1>8 DEF LinkToURL
  <2>2. h \in Seq(UrlToken) /\ q \in Seq(UrlToken)
    BY <1>2, <1>7, SubUrl
  <2>3. p \in Seq(UrlToken)
    BY <1>2, <1>7 DEF UrlToken
  <2>4. h \o q = SubSeq(u, 5, Len(u))
    BY <1>9
  <2> HIDE DEF p, h, q
  <2>5. (p \o h) \o q = p \o (h \o q)
    BY <2>2, <2>3, ConcatAssociative
  <2> QED BY <1>2, <2>1, <2>4, <2>5 DEF p
<1> QED BY <1>3, <1>4, <1>10 DEF u

\* The link of the page, and the links taken from it, are links of that kind.
UrlInv ==
  /\ url \in Seq(UrlToken)
  /\ at \notin {"new", "thrown"} => link \in GoodLink
  /\ \A i \in DOMAIN subLinks : \E l \in GoodLink : subLinks[i] = LinkToURL(l)
  /\ \E S : subLinks \in Seq(S)

LEMMA UrlInvStep == ClientInv /\ OutcomeInv /\ UrlInv /\ [Next]_vars => UrlInv'
<1> SUFFICES ASSUME ClientInv, OutcomeInv, UrlInv, [Next]_vars PROVE UrlInv'
  OBVIOUS
<1> USE DEF linkVars
\* Steps that touch none of it.
<1>a. ASSUME UNCHANGED <<url, link, subLinks>>,
             at' \notin {"new", "thrown"} => at \notin {"new", "thrown"}
      PROVE  UrlInv'
  BY <1>a DEF UrlInv
<1>1. CASE Construct
  <2>1. link' \in GoodLink
    BY <1>1, FirstLinkGood DEF Construct, UrlInv
  <2> QED BY <1>1, <2>1 DEF Construct, UrlInv
<1>2. CASE ConstructThrows
  BY <1>2, <1>a DEF ConstructThrows
<1>3. CASE Download
  BY <1>3, <1>a
     DEF Download, getContent, getContent_Redirect, Request, Read, Catch, Follow,
         NoRedirect, RequestRedirect, ReadRedirect, CatchRedirect
<1>4. CASE Scan \/ NoContent \/ AddLink \/ AddLinkThrows
  BY <1>4, <1>a DEF Scan, NoContent, AddLink, AddLinkThrows
<1>5. CASE extractWords
  BY <1>5, <1>a DEF extractWords, SkipTag, TagBegins, SkipCharacter, CountWord, GoOn
<1>6. CASE HrefEmpty \/ HrefFragment \/ LinksDone
  BY <1>6, <1>a DEF HrefEmpty, HrefFragment, LinksDone, HasNext
<1>7. CASE HrefTaken
  <2> DEFINE u == LinkToURL(UrlToLink(href, link))
  <2>1. /\ at = "links" /\ next <= Len(content.hrefs)
        /\ subLinks' = IF \E i \in DOMAIN subLinks : subLinks[i] = u
                         THEN subLinks ELSE Append(subLinks, u)
        /\ UNCHANGED <<at, link, url>>
    BY <1>7 DEF HrefTaken, HasNext
  <2>2. content.hrefs \in Seq(Seq(UrlToken))
    <3>1. content \in [text : Seq(Token), hrefs : Seq(Seq(UrlToken))]
      BY <2>1, ContentIsPage DEF OutcomeInv, Downloading
    <3> QED BY <3>1
  <2>3. href \in Seq(UrlToken)
    BY <2>1, <2>2 DEF OutcomeInv, href
  <2>4. \E l \in GoodLink : u = LinkToURL(l)
    BY <2>1, <2>3, FoundLinkGood DEF UrlInv
  <2> HIDE DEF u
  <2>5. CASE subLinks' = subLinks
    BY <2>1, <2>5 DEF UrlInv
  <2>6. CASE subLinks' = Append(subLinks, u)
    <3>1. PICK S : subLinks \in Seq(S)
      BY DEF UrlInv
    <3>2. subLinks \in Seq(S \cup {u}) /\ u \in S \cup {u}
      BY <3>1
    <3>3. /\ subLinks' \in Seq(S \cup {u})
          /\ DOMAIN subLinks' = 1..(Len(subLinks) + 1)
          /\ \A i \in 1..Len(subLinks) : subLinks'[i] = subLinks[i]
          /\ subLinks'[Len(subLinks) + 1] = u
          /\ DOMAIN subLinks = 1..Len(subLinks) /\ Len(subLinks) \in Nat
      BY <2>6, <3>2
    <3>4. \A i \in DOMAIN subLinks' : i \in DOMAIN subLinks \/ i = Len(subLinks) + 1
      BY <3>3
    <3>5. \A i \in DOMAIN subLinks' : \E l \in GoodLink : subLinks'[i] = LinkToURL(l)
      BY <2>4, <3>3, <3>4 DEF UrlInv
    <3> QED BY <2>1, <3>3, <3>5 DEF UrlInv
  <2> QED BY <2>1, <2>5, <2>6
<1>8. CASE UNCHANGED vars
  BY <1>8, <1>a DEF vars
<1> QED
  BY <1>1, <1>2, <1>3, <1>4, <1>5, <1>6, <1>7, <1>8 DEF Next, parse, extractLink

LEMMA UrlInvariant == Spec => []UrlInv
<1>1. Init => UrlInv
  <2> SUFFICES ASSUME Init PROVE UrlInv
    OBVIOUS
  <2>1. url \in Seq(UrlToken) /\ at = "new" /\ subLinks = <<>>
    BY ParserAssumption DEF Init
  <2>2. subLinks \in Seq(UrlToken) /\ DOMAIN subLinks = {}
    BY <2>1
  <2> QED BY <2>1, <2>2 DEF UrlInv
<1> QED BY <1>1, UrlInvStep, ClientInvariant, OutcomeInvariant, PTL DEF Spec

\* Every url extractLink hands to the crawler is accepted by the constructor of
\* HTML_parser, and GetURL() then gives it back unchanged, so that it is stored
\* under the name it was queued with.
THEOREM UrlsKept == Spec => []QueuedUrlsKeep
<1>1. UrlInv => QueuedUrlsKeep
  <2> SUFFICES ASSUME UrlInv, NEW u \in Collected
               PROVE  ~FirstUrlBad(u) /\ LinkToURL(FirstUrlToLink(u)) = u
    BY DEF QueuedUrlsKeep
  <2>1. PICK l \in GoodLink : u = LinkToURL(l)
    BY DEF UrlInv, Collected
  <2> QED BY <2>1, UrlOfLinkKept
<1> QED BY <1>1, UrlInvariant, PTL

-------------------------------------------------------------------------------
(* Usual hrefs *)

LEMMA AtTwo ==
  ASSUME NEW u \in Seq(UrlToken), NEW i \in Nat \ {0}, NEW a, NEW b
  PROVE  At(u, i, <<a, b>>) <=> i + 1 <= Len(u) /\ u[i] = a /\ u[i + 1] = b
<1> DEFINE t == <<a, b>>
           s == SubSeq(u, i, i + 1)
           T == UrlToken \cup {a, b}
<1>1. t \in Seq(T) /\ Len(t) = 2 /\ t[1] = a /\ t[2] = b
  OBVIOUS
<1>2. At(u, i, t) <=> i + 1 <= Len(u) /\ s = t
  <2>1. i + 2 - 1 = i + 1
    OBVIOUS
  <2> HIDE DEF t
  <2> QED BY <1>1, <2>1 DEF At
<1>3. ASSUME i + 1 <= Len(u) PROVE s = t <=> u[i] = a /\ u[i + 1] = b
  <2>1. /\ s \in Seq(UrlToken) /\ Len(s) = (i + 1) - i + 1
        /\ \A j \in 1..((i + 1) - i + 1) : s[j] = u[i + j - 1]
    BY <1>3, SubUrl
  <2>2. s \in Seq(T)
    BY <2>1
  <2> HIDE DEF s, t, T
  <2>3. Len(s) = 2 /\ s[1] = u[i] /\ s[2] = u[i + 1]
    BY <2>1
  <2>4. ASSUME s[1] = t[1], s[2] = t[2] PROVE s = t
    <3>1. \A j \in 1..Len(s) : s[j] = t[j]
      BY <2>3, <2>4
    <3> QED BY <1>1, <2>2, <2>3, <3>1, SeqEqual
  <2> QED BY <1>1, <2>3, <2>4
<1> QED BY <1>2, <1>3

LEMMA AtThree ==
  ASSUME NEW u \in Seq(UrlToken), NEW i \in Nat \ {0}, NEW a, NEW b, NEW c
  PROVE  At(u, i, <<a, b, c>>) <=>
           i + 2 <= Len(u) /\ u[i] = a /\ u[i + 1] = b /\ u[i + 2] = c
<1> DEFINE t == <<a, b, c>>
           s == SubSeq(u, i, i + 2)
           T == UrlToken \cup {a, b, c}
<1>1. t \in Seq(T) /\ Len(t) = 3 /\ t[1] = a /\ t[2] = b /\ t[3] = c
  OBVIOUS
<1>2. At(u, i, t) <=> i + 2 <= Len(u) /\ s = t
  <2>1. i + 3 - 1 = i + 2
    OBVIOUS
  <2> HIDE DEF t
  <2> QED BY <1>1, <2>1 DEF At
<1>3. ASSUME i + 2 <= Len(u) PROVE s = t <=> u[i] = a /\ u[i + 1] = b /\ u[i + 2] = c
  <2>1. /\ s \in Seq(UrlToken) /\ Len(s) = (i + 2) - i + 1
        /\ \A j \in 1..((i + 2) - i + 1) : s[j] = u[i + j - 1]
    BY <1>3, SubUrl
  <2>2. s \in Seq(T)
    BY <2>1
  <2> HIDE DEF s, t, T
  <2>3. Len(s) = 3 /\ s[1] = u[i] /\ s[2] = u[i + 1] /\ s[3] = u[i + 2]
    BY <2>1
  <2>4. ASSUME s[1] = t[1], s[2] = t[2], s[3] = t[3] PROVE s = t
    <3>1. \A j \in 1..Len(s) : s[j] = t[j]
      BY <2>3, <2>4
    <3> QED BY <1>1, <2>2, <2>3, <3>1, SeqEqual
  <2> QED BY <1>1, <2>3, <2>4
<1> QED BY <1>2, <1>3

LEMMA SeparatorCases ==
  ASSUME NEW u \in Seq(UrlToken), NEW i \in Nat \ {0}
  PROVE  LET two == i + 1 <= Len(u) /\ u[i] = "/" /\ u[i + 1] = "/"
             three == i + 2 <= Len(u) /\ u[i] = ":" /\ u[i + 1] = "/" /\ u[i + 2] = "/"
         IN  SeparatorEnds(u, i) = {i} \cup {j \in {i + 2} : two} \cup {j \in {i + 3} : three}
<1>1. At(u, i, <<"/", "/">>) <=> i + 1 <= Len(u) /\ u[i] = "/" /\ u[i + 1] = "/"
  BY AtTwo, Zenon
<1>2. At(u, i, <<":", "/", "/">>) <=>
        i + 2 <= Len(u) /\ u[i] = ":" /\ u[i + 1] = "/" /\ u[i + 2] = "/"
  BY AtThree, Zenon
<1> QED BY <1>1, <1>2 DEF SeparatorEnds

\* The url u has the three parts x, y and z.
HasParts(u, x, y, z) ==
  LET k == Len(x)
      n == Len(y)
  IN  /\ u \in Seq(UrlToken) /\ Len(u) \in Nat /\ Len(u) = k + n + Len(z)
      /\ \A i \in 1..k : u[i] = x[i]
      /\ \A i \in 1..n : u[k + i] = y[i]
      /\ \A i \in 1..Len(z) : u[k + n + i] = z[i]
      /\ SubSeq(u, k + 1, k + n) = y
      /\ SubSeq(u, k + n + 1, Len(u)) = z

LEMMA ThreeParts ==
  ASSUME NEW x \in Seq(UrlToken), NEW y \in Seq(UrlToken), NEW z \in Seq(UrlToken)
  PROVE  HasParts((x \o y) \o z, x, y, z)
<1> DEFINE v == x \o y
           u == v \o z
           k == Len(x)
           n == Len(y)
           m == Len(z)
<1>0. m \in Nat
  OBVIOUS
<1>a. k \in Nat /\ n \in Nat /\ k = Len(x) /\ n = Len(y)
  OBVIOUS
<1> HIDE DEF k, n
<1> USE <1>a
<1>1. /\ v \in Seq(UrlToken) /\ Len(v) = Len(x) + Len(y)
      /\ \A i \in 1..(Len(x) + Len(y)) : v[i] = IF i <= Len(x) THEN x[i] ELSE y[i - Len(x)]
  BY ConcatProperties
<1> HIDE DEF v
<1>b. v \in Seq(UrlToken)
  BY <1>1
<1>2. /\ u \in Seq(UrlToken) /\ Len(u) = Len(v) + Len(z)
      /\ \A i \in 1..(Len(v) + Len(z)) : u[i] = IF i <= Len(v) THEN v[i] ELSE z[i - Len(v)]
  BY <1>b, ConcatProperties
<1> HIDE DEF u
<1>3. Len(v) = k + n /\ Len(u) = k + n + m
  BY <1>1, <1>2
<1>4. /\ \A i \in 1..(k + n) : v[i] = IF i <= k THEN x[i] ELSE y[i - k]
      /\ \A i \in 1..(k + n + m) : u[i] = IF i <= k + n THEN v[i] ELSE z[i - (k + n)]
  BY <1>1, <1>2, <1>3
<1> HIDE DEF m
<1>5. \A i \in 1..k : u[i] = x[i]
  BY <1>0, <1>4
<1>6. ASSUME NEW i \in 1..n PROVE u[k + i] = y[i]
  <2>1. k + i \in 1..(k + n) /\ k + i \in 1..(k + n + m) /\ k + i <= k + n
        /\ ~(k + i <= k) /\ k + i - k = i
    BY <1>0
  <2>a. v[k + i] = IF k + i <= k THEN x[k + i] ELSE y[k + i - k]
    BY <1>4, <2>1
  <2>2. v[k + i] = y[i]
    BY <2>1, <2>a
  <2>3. u[k + i] = v[k + i]
    BY <1>4, <2>1
  <2> QED BY <2>2, <2>3
<1>7. ASSUME NEW i \in 1..m PROVE u[k + n + i] = z[i]
  <2>1. k + n + i \in 1..(k + n + m) /\ ~(k + n + i <= k + n) /\ k + n + i - (k + n) = i
    BY <1>0
  <2> QED BY <1>4, <2>1
<1>8. SubSeq(u, k + 1, k + n) = y
  <2> DEFINE s == SubSeq(u, k + 1, k + n)
  <2>1. k + 1 \in Nat \ {0} /\ k + n \in Int /\ k + n <= Len(u) /\ k + 1 <= (k + n) + 1
    BY <1>0, <1>3
  <2>2. /\ s \in Seq(UrlToken) /\ Len(s) = (k + n) - (k + 1) + 1
        /\ \A i \in 1..((k + n) - (k + 1) + 1) : s[i] = u[(k + 1) + i - 1]
    BY <1>2, <2>1, SubUrl
  <2> HIDE DEF s
  <2>3. Len(s) = Len(y) /\ \A i \in 1..Len(s) : s[i] = u[k + i]
    BY <2>2
  <2>4. \A i \in 1..Len(s) : s[i] = y[i]
    BY <1>6, <2>3
  <2>5. s = y
    BY <2>2, <2>3, <2>4, SeqEqual
  <2> QED BY <2>5 DEF s
<1>9. SubSeq(u, k + n + 1, Len(u)) = z
  <2> DEFINE s == SubSeq(u, k + n + 1, Len(u))
  <2>1. k + n + 1 \in Nat \ {0} /\ Len(u) \in Int /\ Len(u) <= Len(u) /\ k + n + 1 <= Len(u) + 1
    BY <1>0, <1>3
  <2>2. /\ s \in Seq(UrlToken) /\ Len(s) = Len(u) - (k + n + 1) + 1
        /\ \A i \in 1..(Len(u) - (k + n + 1) + 1) : s[i] = u[(k + n + 1) + i - 1]
    BY <1>2, <2>1, SubUrl
  <2> HIDE DEF s
  <2>a. Len(u) - (k + n + 1) + 1 = m /\ \A i \in 1..m : (k + n + 1) + i - 1 = k + n + i
    BY <1>0, <1>3
  <2>3. Len(s) = m /\ \A i \in 1..m : s[i] = u[k + n + i]
    BY <2>2, <2>a
  <2>4. \A i \in 1..Len(s) : s[i] = z[i]
    BY <1>7, <2>3
  <2>5. s = z
    BY <2>2, <2>3, <2>4, SeqEqual DEF m
  <2> QED BY <2>5 DEF s
<1>10. Len(u) \in Nat
  BY <1>0, <1>3
<1>11. HasParts(u, x, y, z)
  BY <1>2, <1>3, <1>5, <1>6, <1>7, <1>8, <1>9, <1>10 DEF m, k, n, HasParts
<1> QED BY <1>11 DEF u, v

\* The converse of UrlCases, for readings without a scheme.
LEMMA PlainReading ==
  ASSUME NEW u, NEW i \in 1..Len(u), Len(u) \in Nat, NEW tail,
         NEW b \in SeparatorEnds(u, i), NEW shape, NEW query,
         HostRead(u, b, tail, shape, query)
  PROVE  [from |-> i, scheme |-> 0, host |-> b, shape |-> shape, query |-> query]
           \in Readings(u, tail)
<1> DEFINE h == [shape |-> shape, query |-> query]
           x == [host |-> b, shape |-> shape, query |-> query]
           r == [from |-> i, scheme |-> 0, host |-> b, shape |-> shape, query |-> query]
<1>1. h \in HostReadings(u, b, tail)
  BY SeparatorEndsNat, HostCases
<1>2. x = [host |-> b, shape |-> h.shape, query |-> h.query]
  OBVIOUS
<1>3. r = [from |-> i, scheme |-> 0, host |-> x.host, shape |-> x.shape, query |-> x.query]
  OBVIOUS
<1> HIDE DEF h, x, r
<1>4. x \in RestReadings(u, i, tail)
  <2> DEFINE R(c) == {[host |-> c, shape |-> y.shape, query |-> y.query] :
                        y \in HostReadings(u, c, tail)}
  <2>1. x \in R(b)
    BY <1>1, <1>2
  <2>2. R(b) \in {R(c) : c \in SeparatorEnds(u, i)}
    OBVIOUS
  <2>3. RestReadings(u, i, tail) = UNION {R(c) : c \in SeparatorEnds(u, i)}
    BY Zenon DEF RestReadings
  <2> HIDE DEF R
  <2> QED BY <2>1, <2>2, <2>3
<1>5. r \in ReadingsFrom(u, i, tail)
  BY <1>3, <1>4 DEF ReadingsFrom
<1>6. r \in Readings(u, tail)
  BY <1>5, Zenon DEF Readings
<1> QED BY <1>6 DEF r

\* A reading that begins at the first token and is best in each part is the one
\* that is found, and UrlToLink makes its link of it.
LEMMA BestReading ==
  ASSUME NEW u \in Seq(UrlToken), NEW best \in Readings(u, 1), NEW parent,
         best.from = 1, best.scheme # 1,
         \A r \in Readings(u, 1) : r.from = 1 =>
           /\ r.scheme <= best.scheme
           /\ r.scheme = best.scheme => r.host <= best.host
           /\ r.scheme = best.scheme /\ r.host = best.host =>
                r.shape <= best.shape /\ (r.shape = best.shape => r.query = best.query)
  PROVE  UrlToLink(u, parent) =
           [protocol |-> IF best.scheme = 2 THEN u[1] ELSE parent.protocol,
            host |-> IF best.shape > 0 THEN SubSeq(u, best.host, best.query - 1)
                                       ELSE parent.host,
            query |-> SubSeq(u, best.query, Len(u))]
<1> DEFINE Made(r) == [protocol |-> SchemeOf(u, r, parent.protocol),
                       host |-> HostOf(u, r, parent.host), query |-> QueryOf(u, r)]
           l == [protocol |-> IF best.scheme = 2 THEN u[1] ELSE parent.protocol,
                 host |-> IF best.shape > 0 THEN SubSeq(u, best.host, best.query - 1)
                                            ELSE parent.host,
                 query |-> SubSeq(u, best.query, Len(u))]
<1>1. ASSUME NEW s \in Readings(u, 1)
      PROVE  /\ s.from \in Nat /\ s.from >= 1 /\ s.scheme \in {0, 1, 2}
             /\ s.shape \in {0, 1, 2} /\ s.host \in Nat
  <2>1. UrlRead(u, 1, s)
    BY UrlCases
  <2> QED BY <2>1, ReadingFacts
<1>2. best \in Match(u, 1)
  <2>1. ASSUME NEW s \in Readings(u, 1) PROVE TriedBefore(best, s)
    BY <1>1 DEF TriedBefore
  <2> QED BY <2>1, FirstIsMatch
<1>3. ASSUME NEW r \in Match(u, 1)
      PROVE  /\ r.from = 1 /\ r.scheme = best.scheme /\ r.host = best.host
             /\ r.shape = best.shape /\ r.query = best.query
  <2>1. r \in Readings(u, 1) /\ TriedBefore(r, best)
    BY MatchIsFirst
  <2>2. /\ r.from \in Nat /\ r.from >= 1 /\ r.scheme \in {0, 1, 2} /\ r.shape \in {0, 1, 2}
        /\ r.host \in Nat
        /\ best.scheme \in {0, 1, 2} /\ best.shape \in {0, 1, 2} /\ best.host \in Nat
    BY <1>1, <2>1
  <2>3. r.from = 1
    BY <2>1, <2>2 DEF TriedBefore
  <2>4. /\ r.scheme <= best.scheme
        /\ r.scheme = best.scheme => r.host <= best.host
        /\ r.scheme = best.scheme /\ r.host = best.host =>
             r.shape <= best.shape /\ (r.shape = best.shape => r.query = best.query)
    BY <2>1, <2>3
  <2>5. r.scheme = best.scheme /\ r.host = best.host /\ r.shape = best.shape
    BY <2>1, <2>2, <2>3, <2>4 DEF TriedBefore
  <2> QED BY <2>3, <2>4, <2>5
<1>4. ASSUME NEW r \in Match(u, 1) PROVE Made(r) = l
  <2>1. /\ r.from = 1 /\ r.scheme = best.scheme /\ r.host = best.host
        /\ r.shape = best.shape /\ r.query = best.query
    BY <1>3
  <2>2. /\ best.scheme \in {0, 2} /\ r.shape \in {0, 1, 2} /\ r.scheme # 1
        /\ best.shape > 0 \/ best.shape = 0
    BY <1>1, <2>1
  <2>3. SchemeOf(u, r, parent.protocol) = IF best.scheme = 2 THEN u[1] ELSE parent.protocol
    BY <2>1, <2>2, SchemeOfCases
  <2>4. HostOf(u, r, parent.host) =
          IF best.shape > 0 THEN SubSeq(u, best.host, best.query - 1) ELSE parent.host
    <3>1. /\ r.scheme # 1 /\ r.shape > 0 =>
               HostOf(u, r, parent.host) = SubSeq(u, r.host, r.query - 1)
          /\ r.scheme # 1 /\ r.shape = 0 => HostOf(u, r, parent.host) = parent.host
      BY <2>2, HostOfCases
    <3> QED BY <2>1, <2>2, <3>1
  <2>5. QueryOf(u, r) = SubSeq(u, best.query, Len(u))
    BY <2>1 DEF QueryOf
  <2> QED BY <2>3, <2>4, <2>5
<1>5. UrlToLink(u, parent) = CHOOSE x \in {Made(r) : r \in Match(u, 1)} : TRUE
  BY <1>2 DEF UrlToLink
<1> HIDE DEF Made, l
<1>6. UrlToLink(u, parent) \in {Made(r) : r \in Match(u, 1)}
  BY <1>2, <1>5
<1>7. UrlToLink(u, parent) = l
  BY <1>4, <1>6
<1> QED BY <1>7 DEF l

\* A host of n tokens without a slash, from b on, is read as a whole.
LEMMA HostBehind ==
  ASSUME NEW u \in Seq(UrlToken), NEW b \in Nat \ {0}, NEW n \in Nat, n >= 2,
         b + n <= Len(u), u[b] \in Name \ {"s"}, u[b + n] = "/",
         \A j \in b..(b + n - 1) : u[j] # "/"
  PROVE  /\ HostRead(u, b, 1, IF n >= 3 THEN 2 ELSE 1, b + n)
         /\ \A shape, query : HostRead(u, b, 1, shape, query) =>
              /\ shape \in {1, 2} /\ query = b + n
              /\ shape <= IF n >= 3 THEN 2 ELSE 1
<1>0. Len(u) \in Nat
  OBVIOUS
<1>1. ASSUME NEW i \in {0, 1, 2} PROVE FirstSlash(u, b + i) = b + n
  <2>1. b + i \in Nat \ {0} /\ b + n \in (b + i)..Len(u)
    BY <1>0
  <2>2. \A j \in (b + i)..(b + n - 1) : u[j] # "/"
    BY <2>1
  <2> QED BY <2>1, <2>2, FirstSlashFacts
<1>2. HostRead(u, b, 1, IF n >= 3 THEN 2 ELSE 1, b + n)
  BY <1>0, <1>1 DEF HostRead
<1>3. ASSUME NEW shape, NEW query, HostRead(u, b, 1, shape, query)
      PROVE  shape \in {1, 2} /\ query = b + n /\ shape <= IF n >= 3 THEN 2 ELSE 1
  <2>1. shape \in {0, 1, 2} /\ query = FirstSlash(u, b + shape)
    BY <1>3 DEF HostRead
  <2>2. query = b + n
    BY <1>1, <2>1
  <2>3. shape # 0
    BY <1>3, <2>2 DEF HostRead
  <2>4. shape = 2 => n >= 3
    BY <1>3, <2>2 DEF HostRead
  <2> QED BY <2>1, <2>2, <2>3, <2>4
<1> QED BY <1>2, <1>3

\* An href that usual readers would resolve.
Usual(p) ==
  /\ p.path # <<>> /\ p.path[1] = "/"
  /\ IF p.host = <<>> THEN p.scheme = "" ELSE Len(p.host) > 1 /\ p.host[2] = "."

LEMMA UsualPath ==
  ASSUME NEW p \in HrefParts, Usual(p), p.host = <<>>, NEW parent
  PROVE  /\ Written(p) = p.path /\ p.path \in Seq(UrlToken)
         /\ UrlToLink(p.path, parent) =
              [protocol |-> parent.protocol, host |-> parent.host, query |-> p.path]
<1> DEFINE u == p.path
<1>1. u \in Seq(UrlToken) /\ u # <<>> /\ u[1] = "/" /\ p.scheme = ""
  BY HrefAssumption DEF Usual
<1>b. ~At(u, 1, <<"/", "/">>)
  BY HrefAssumption
<1>3. Written(p) = u
  <2>1. <<>> \in Seq(UrlToken)
    OBVIOUS
  <2>2. <<>> \o <<>> = <<>> /\ <<>> \o u = u
    <3> HIDE DEF u
    <3> QED BY <1>1, <2>1, ConcatEmptySeq
  <2> QED BY <1>1, <2>2 DEF Written
<1> HIDE DEF u
<1>2. Len(u) \in Nat \ {0} /\ 1 \in Nat \ {0} /\ 1 \in 1..Len(u)
  <2>1. Len(u) # 0 /\ Len(u) \in Nat
    BY <1>1, EmptySeq
  <2> QED BY <2>1
<1>4. SeparatorEnds(u, 1) = {1}
  <2>1. ~(1 + 1 <= Len(u) /\ u[1] = "/" /\ u[1 + 1] = "/")
    <3>1. 1 \in Nat \ {0}
      OBVIOUS
    <3>2. At(u, 1, <<"/", "/">>) <=> 1 + 1 <= Len(u) /\ u[1] = "/" /\ u[1 + 1] = "/"
      BY <1>1, <3>1, AtTwo, Zenon
    <3> QED BY <1>b, <3>2, Zenon
  <2>2. ~(u[1] = ":")
    BY <1>1
  <2> QED BY <1>1, <1>2, <2>1, <2>2, SeparatorCases
<1>5. "/" \notin Name /\ "/" \notin Scheme
  BY UtilsAssumption DEF Scheme
<1>6. FirstSlash(u, 1) = 1
  <2>1. \A k \in 1..(1 - 1) : u[k] # "/"
    OBVIOUS
  <2> QED BY <1>1, <1>2, <2>1, FirstSlashFacts
<1>7. HostRead(u, 1, 1, 0, 1)
  BY <1>2, <1>6 DEF HostRead
<1> DEFINE best == [from |-> 1, scheme |-> 0, host |-> 1, shape |-> 0, query |-> 1]
<1>8. best \in Readings(u, 1)
  <2>1. 1 \in SeparatorEnds(u, 1)
    BY <1>4
  <2> QED BY <1>2, <1>7, <2>1, PlainReading
<1>a. /\ best.from = 1 /\ best.scheme = 0 /\ best.host = 1 /\ best.shape = 0
      /\ best.query = 1
  OBVIOUS
<1> HIDE DEF best
<1>9. ASSUME NEW r \in Readings(u, 1), r.from = 1
      PROVE  r.scheme = 0 /\ r.host = 1 /\ r.shape = 0 /\ r.query = 1
  <2>1. UrlRead(u, 1, r)
    BY <1>2, UrlCases
  <2>2. r.scheme = 0 /\ r.host = 1 /\ HostRead(u, 1, 1, r.shape, r.query)
    BY <1>1, <1>4, <1>5, <1>9, <2>1 DEF UrlRead, Scheme
  <2>3. r.shape = 0
    BY <1>1, <1>5, <2>2 DEF HostRead
  <2> QED BY <2>2, <2>3 DEF HostRead
<1>10. UrlToLink(u, parent) =
         [protocol |-> IF best.scheme = 2 THEN u[1] ELSE parent.protocol,
          host |-> IF best.shape > 0 THEN SubSeq(u, best.host, best.query - 1)
                                     ELSE parent.host,
          query |-> SubSeq(u, best.query, Len(u))]
  <2>1. best.from = 1 /\ best.scheme # 1
    BY <1>a
  <2>2. \A r \in Readings(u, 1) : r.from = 1 =>
           /\ r.scheme <= best.scheme
           /\ r.scheme = best.scheme => r.host <= best.host
           /\ r.scheme = best.scheme /\ r.host = best.host =>
                r.shape <= best.shape /\ (r.shape = best.shape => r.query = best.query)
    BY <1>9, <1>a
  <2> QED BY <1>1, <1>8, <2>1, <2>2, BestReading
<1>12. SubSeq(u, 1, Len(u)) = u
  BY <1>1, SubSeqFull
<1>13. UrlToLink(u, parent) =
         [protocol |-> parent.protocol, host |-> parent.host, query |-> u]
  BY <1>10, <1>12, <1>a
<1> QED BY <1>1, <1>3, <1>13 DEF u

\* A host behind a prefix x, with or without a scheme.
LEMMA UsualHost ==
  ASSUME NEW p \in HrefParts, Usual(p), p.host # <<>>, NEW x \in Seq(UrlToken),
         NEW s \in Scheme, x \in {<<"/", "/">>, <<s, ":", "/", "/">>}, NEW parent
  PROVE  LET u == (x \o p.host) \o p.path
         IN  /\ u \in Seq(UrlToken)
             /\ UrlToLink(u, parent) =
                  [protocol |-> IF Len(x) = 4 THEN s ELSE parent.protocol,
                   host |-> p.host, query |-> p.path]
<1> DEFINE host == p.host
           path == p.path
           u == (x \o host) \o path
           n == Len(host)
           k == Len(x)
           m == Len(path)
           b == k + 1
           c == IF k = 4 THEN 2 ELSE 0
           shape == IF n >= 3 THEN 2 ELSE 1
           best == [from |-> 1, scheme |-> c, host |-> b, shape |-> shape, query |-> b + n]
<1>1. /\ host \in Seq(UrlToken \ {"/"}) /\ path \in Seq(UrlToken) /\ path # <<>>
      /\ host[1] \in Name \ {"s"} /\ Len(host) > 1 /\ path[1] = "/"
  <2>1. /\ p \in [scheme : Scheme \cup {""}, host : Seq(UrlToken \ {"/"}), path : Seq(UrlToken)]
        /\ p.host[1] \in Name \ {"s"}
    BY HrefAssumption
  <2> QED BY <2>1 DEF Usual
<1>a. \/ k = 2 /\ x[1] = "/" /\ x[2] = "/"
      \/ k = 4 /\ x[1] = s /\ x[2] = ":" /\ x[3] = "/" /\ x[4] = "/"
  OBVIOUS
<1> HIDE DEF host, path
<1>2. n \in Nat /\ n >= 2 /\ m \in Nat \ {0}
  <2>1. Len(path) # 0 /\ Len(path) \in Nat
    BY <1>1, EmptySeq
  <2> QED BY <1>1, <2>1
<1>3. host \in Seq(UrlToken) /\ \A i \in 1..n : host[i] # "/"
  BY <1>1
<1>5. k \in Nat /\ b \in Nat \ {0} /\ shape \in {1, 2}
  BY <1>a
<1>6. /\ u \in Seq(UrlToken) /\ Len(u) \in Nat /\ Len(u) = k + n + m
      /\ \A i \in 1..k : u[i] = x[i]
      /\ \A i \in 1..n : u[k + i] = host[i]
      /\ \A i \in 1..m : u[k + n + i] = path[i]
      /\ SubSeq(u, k + 1, k + n) = host
      /\ SubSeq(u, k + n + 1, Len(u)) = path
  <2>2. x \in Seq(UrlToken) /\ host \in Seq(UrlToken) /\ path \in Seq(UrlToken)
    BY <1>1, <1>3
  <2>3. HasParts(u, x, host, path)
    BY <2>2, ThreeParts
  <2> HIDE DEF u
  <2> QED BY <2>3 DEF HasParts
<1> HIDE DEF u, n, k, m
<1>b. Len(u) >= b + n /\ Len(u) >= 2 /\ (b + n) - 1 = k + n /\ b + n = k + n + 1 /\ shape > 0
  <2>1. Len(u) = k + n + m
    BY <1>6
  <2> QED BY <1>2, <1>5, <2>1
<1>7. /\ u[b] = host[1] /\ u[b + n] = "/" /\ \A j \in b..(b + n - 1) : u[j] # "/"
  <2>1. 1 \in 1..m /\ 1 \in 1..n
    BY <1>2
  <2>2. ASSUME NEW j \in b..(b + n - 1) PROVE u[j] # "/"
    <3>1. j - k \in 1..n /\ k + (j - k) = j
      BY <1>2, <1>5
    <3> QED BY <1>3, <1>6, <3>1
  <2>3. u[k + n + 1] = path[1] /\ u[k + 1] = host[1]
    BY <1>6, <2>1
  <2> QED BY <1>1, <1>b, <2>2, <2>3
<1> HIDE DEF b, shape
<1>8. /\ HostRead(u, b, 1, shape, b + n)
      /\ \A h, q : HostRead(u, b, 1, h, q) => h \in {1, 2} /\ q = b + n /\ h <= shape
  BY <1>1, <1>2, <1>5, <1>6, <1>7, <1>b, HostBehind DEF shape
<1>c. /\ best.from = 1 /\ best.scheme = c /\ best.host = b /\ best.shape = shape
      /\ best.query = b + n
  OBVIOUS
<1> HIDE DEF best, c
<1>9. best \in Readings(u, 1) /\
      \A r \in Readings(u, 1) : r.from = 1 =>
           /\ r.scheme <= c
           /\ r.scheme = c => r.host <= b
           /\ r.scheme = c /\ r.host = b =>
                r.shape <= shape /\ (r.shape = shape => r.query = b + n)
  <2>0. "/" \notin Scheme /\ 1 \in 1..Len(u) /\ 1 \in Nat \ {0} /\ 2 \in Nat \ {0}
    BY <1>6, <1>b DEF Scheme
  <2>1. CASE k = 2
    <3>1. u[1] = "/" /\ u[2] = "/" /\ b = 3 /\ c = 0
      BY <1>6, <1>a, <2>1 DEF b, c
    <3>2. SeparatorEnds(u, 1) = {1, 3}
      <4>1. 1 + 1 <= Len(u) /\ u[1] = "/" /\ u[1 + 1] = "/" /\ u[1] # ":"
        BY <1>6, <1>b, <3>1
      <4> QED BY <1>6, <2>0, <4>1, SeparatorCases
    <3>3. best \in Readings(u, 1)
      <4>1. b \in SeparatorEnds(u, 1) /\ c = 0
        BY <3>1, <3>2
      <4> QED BY <1>6, <1>8, <2>0, <4>1, PlainReading DEF best
    <3>4. ASSUME NEW r \in Readings(u, 1), r.from = 1
          PROVE  /\ r.scheme = 0 /\ r.host <= 3
                 /\ r.host = b => r.shape <= shape /\ r.query = b + n
      <4>1. UrlRead(u, 1, r)
        BY <1>6, UrlCases
      <4>2. r.scheme = 0 /\ r.host \in {1, 3} /\ HostRead(u, r.host, 1, r.shape, r.query)
        BY <2>0, <3>1, <3>2, <3>4, <4>1 DEF UrlRead, Scheme
      <4> QED BY <1>8, <4>2
    <3> QED BY <3>1, <3>3, <3>4
  <2>2. CASE k = 4
    <3>1. u[1] = s /\ u[2] = ":" /\ u[3] = "/" /\ u[4] = "/" /\ b = 5 /\ c = 2
      <4>1. 1 \in 1..k /\ 2 \in 1..k /\ 3 \in 1..k /\ 4 \in 1..k
        BY <2>2
      <4>2. x[1] = s /\ x[2] = ":" /\ x[3] = "/" /\ x[4] = "/"
        BY <1>a, <2>2
      <4> QED BY <1>6, <2>2, <4>1, <4>2 DEF b, c
    <3>2. SeparatorEnds(u, 2) = {2, 5}
      <4>1. 2 + 2 <= Len(u) /\ u[2] = ":" /\ u[2 + 1] = "/" /\ u[2 + 2] = "/" /\ u[2] # "/"
        BY <1>2, <1>6, <1>b, <3>1
      <4> QED BY <1>6, <2>0, <4>1, SeparatorCases
    <3>3. best \in Readings(u, 1)
      <4>1. b \in SeparatorEnds(u, 1 + 1) /\ u[1] \in Scheme /\ c = 2
        BY <3>1, <3>2
      <4> QED BY <1>6, <1>8, <2>0, <4>1, SchemeReading DEF best
    <3>4. ASSUME NEW r \in Readings(u, 1), r.from = 1
          PROVE  /\ r.scheme <= 2
                 /\ r.scheme = 2 => r.host <= 5
                 /\ r.scheme = 2 /\ r.host = b => r.shape <= shape /\ r.query = b + n
      <4>1. UrlRead(u, 1, r)
        BY <1>6, UrlCases
      <4>2. r.scheme <= 2
        BY <4>1 DEF UrlRead
      <4>3. r.scheme = 2 => r.host \in {2, 5} /\ HostRead(u, r.host, 1, r.shape, r.query)
        BY <3>2, <3>4, <4>1 DEF UrlRead
      <4> QED BY <1>8, <4>2, <4>3
    <3> QED BY <3>1, <3>3, <3>4
  <2> QED BY <1>a, <2>1, <2>2
<1>10. UrlToLink(u, parent) =
         [protocol |-> IF best.scheme = 2 THEN u[1] ELSE parent.protocol,
          host |-> IF best.shape > 0 THEN SubSeq(u, best.host, best.query - 1)
                                     ELSE parent.host,
          query |-> SubSeq(u, best.query, Len(u))]
  <2>1. best.from = 1 /\ best.scheme # 1
    BY <1>c DEF c
  <2>2. \A r \in Readings(u, 1) : r.from = 1 =>
           /\ r.scheme <= best.scheme
           /\ r.scheme = best.scheme => r.host <= best.host
           /\ r.scheme = best.scheme /\ r.host = best.host =>
                r.shape <= best.shape /\ (r.shape = best.shape => r.query = best.query)
    BY <1>9, <1>c
  <2> QED BY <1>6, <1>9, <2>1, <2>2, BestReading
<1>11. SubSeq(u, best.host, best.query - 1) = host /\ SubSeq(u, best.query, Len(u)) = path
  <2>1. best.host = k + 1 /\ best.query - 1 = k + n /\ best.query = k + n + 1
    BY <1>b, <1>c DEF b
  <2> QED BY <1>6, <2>1
<1>12. (IF best.scheme = 2 THEN u[1] ELSE parent.protocol)
         = IF k = 4 THEN s ELSE parent.protocol
  <2>1. k = 4 => u[1] = s
    BY <1>6, <1>a
  <2> QED BY <1>c, <2>1 DEF c
<1>13. UrlToLink(u, parent) =
         [protocol |-> IF k = 4 THEN s ELSE parent.protocol, host |-> host, query |-> path]
  BY <1>10, <1>11, <1>12, <1>b, <1>c
<1> QED BY <1>6, <1>13 DEF u, k, host, path

\* UrlToLink makes of a usual href what it means.
LEMMA UsualLink ==
  ASSUME NEW p \in HrefParts, Usual(p), NEW parent
  PROVE  /\ UrlToLink(Written(p), parent) = Meant(p, parent)
         /\ Written(p) # <<>> /\ Written(p)[1] # "#"
<1>a. p \in [scheme : Scheme \cup {""}, host : Seq(UrlToken \ {"/"}), path : Seq(UrlToken)]
  BY HrefAssumption
<1>b. p.scheme \in Scheme \cup {""}
  BY <1>a
<1>0. /\ p.host \in Seq(UrlToken) /\ p.path \in Seq(UrlToken)
      /\ Len(p.host) \in Nat /\ Len(p.path) \in Nat
  <2> DEFINE host == p.host
             path == p.path
  <2>1. host \in Seq(UrlToken \ {"/"}) /\ path \in Seq(UrlToken)
    BY <1>a
  <2> HIDE DEF host, path
  <2>2. /\ host \in Seq(UrlToken) /\ path \in Seq(UrlToken)
        /\ Len(host) \in Nat /\ Len(path) \in Nat
    BY <2>1
  <2> QED BY <2>2 DEF host, path
<1>1. CASE p.host = <<>>
  <2>1. /\ Written(p) = p.path
        /\ UrlToLink(p.path, parent) =
             [protocol |-> parent.protocol, host |-> parent.host, query |-> p.path]
    BY <1>1, UsualPath
  <2>2. p.path # <<>> /\ p.path[1] = "/" /\ p.scheme = ""
    BY <1>1 DEF Usual
  <2> QED BY <1>1, <2>1, <2>2 DEF Meant
<1>2. ASSUME p.host # <<>>, NEW s \in Scheme, NEW x \in Seq(UrlToken),
             x \in {<<"/", "/">>, <<s, ":", "/", "/">>},
             Written(p) = (x \o p.host) \o p.path,
             Len(x) = 4 <=> p.scheme # "", p.scheme # "" => p.scheme = s
      PROVE  /\ UrlToLink(Written(p), parent) = Meant(p, parent)
             /\ Written(p) # <<>> /\ Written(p)[1] # "#"
  <2> DEFINE u == (x \o p.host) \o p.path
  <2>1. UrlToLink(u, parent) =
          [protocol |-> IF Len(x) = 4 THEN s ELSE parent.protocol,
           host |-> p.host, query |-> p.path]
    BY <1>2, UsualHost
  <2>2. HasParts(u, x, p.host, p.path)
    BY <1>0, <1>2, ThreeParts
  <2> HIDE DEF u
  <2>3. x[1] # "#" /\ Len(x) \in {2, 4}
    <3>1. CASE x = <<"/", "/">>
      BY <3>1
    <3>2. CASE x = <<s, ":", "/", "/">>
      BY <3>2 DEF Scheme
    <3> QED BY <1>2, <3>1, <3>2, Zenon
  <2>4. Len(p.host) \in Nat /\ Len(p.path) \in Nat
    BY <1>0, Zenon
  <2>5. /\ u \in Seq(UrlToken) /\ Len(u) = Len(x) + Len(p.host) + Len(p.path)
        /\ \A i \in 1..Len(x) : u[i] = x[i]
    BY <2>2 DEF HasParts
  <2>6. Len(u) # 0 /\ u[1] = x[1]
    <3> DEFINE k == Len(x)
               n == Len(p.host)
               m == Len(p.path)
    <3>1. k \in {2, 4} /\ n \in Nat /\ m \in Nat /\ Len(u) = k + n + m
      BY <2>3, <2>4, <2>5, Zenon
    <3>2. \A i \in 1..k : u[i] = x[i]
      BY <2>5, Zenon
    <3> HIDE DEF k, n, m
    <3> QED BY <3>1, <3>2
  <2>7. u # <<>>
    BY <2>6
  <2>8. UrlToLink(u, parent) = Meant(p, parent)
    BY <1>2, <2>1 DEF Meant
  <2> QED BY <1>2, <2>3, <2>6, <2>7, <2>8 DEF u
<1>3. CASE p.host # <<>> /\ p.scheme = ""
  <2>1. <<"/", "/">> \in Seq(UrlToken) /\ Len(<<"/", "/">>) = 2 /\ "http" \in Scheme
    BY DEF UrlToken, Scheme
  <2>2. <<>> \o <<"/", "/">> = <<"/", "/">>
    BY <2>1, ConcatEmptySeq
  <2>3. Written(p) = (<<"/", "/">> \o p.host) \o p.path
    BY <1>3, <2>2, Zenon DEF Written
  <2> DEFINE x == <<"/", "/">>
             s == "http"
  <2>4. /\ s \in Scheme /\ x \in Seq(UrlToken) /\ Len(x) # 4
        /\ x \in {<<"/", "/">>, <<s, ":", "/", "/">>}
    BY <2>1
  <2>5. Written(p) = (x \o p.host) \o p.path
    BY <2>3
  <2> HIDE DEF x, s
  <2> QED BY <1>2, <1>3, <2>4, <2>5
<1>4. CASE p.host # <<>> /\ p.scheme # ""
  <2> DEFINE s == p.scheme
             x == <<s, ":", "/", "/">>
  <2>1. s \in Scheme /\ s \in UrlToken /\ ":" \in UrlToken /\ "/" \in UrlToken
    BY <1>b, <1>4, UtilsAssumption DEF UrlToken
  <2> HIDE DEF s
  <2>2. x \in Seq(UrlToken) /\ Len(x) = 4 /\ x[1] = s /\ x[2] = ":" /\ x[3] = "/" /\ x[4] = "/"
    BY <2>1
  <2>3. <<s, ":">> \o <<"/", "/">> = x
    <3> DEFINE v == <<s, ":">>
               w == <<"/", "/">>
               y == v \o w
    <3>1. /\ v \in Seq(UrlToken) /\ Len(v) = 2 /\ v[1] = s /\ v[2] = ":"
          /\ w \in Seq(UrlToken) /\ Len(w) = 2 /\ w[1] = "/" /\ w[2] = "/"
      BY <2>1
    <3> HIDE DEF v, w, x
    <3>2. /\ y \in Seq(UrlToken) /\ Len(y) = Len(v) + Len(w)
          /\ \A i \in 1..(Len(v) + Len(w)) : y[i] = IF i <= Len(v) THEN v[i] ELSE w[i - Len(v)]
      BY <3>1, ConcatProperties
    <3> HIDE DEF y
    <3>3. Len(y) = 4 /\ y[1] = s /\ y[2] = ":" /\ y[3] = "/" /\ y[4] = "/"
      BY <3>1, <3>2
    <3>4. \A i \in 1..Len(y) : y[i] = x[i]
      BY <2>2, <3>3
    <3>5. y = x
      BY <2>2, <3>2, <3>3, <3>4, SeqEqual
    <3> QED BY <3>5 DEF y, v, w
  <2>4. Written(p) = (x \o p.host) \o p.path
    <3> HIDE DEF x
    <3> QED BY <1>4, <2>3, Zenon DEF Written, s
  <2>5. s = p.scheme /\ x \in {<<"/", "/">>, <<s, ":", "/", "/">>}
    BY DEF s
  <2> HIDE DEF x
  <2> QED BY <1>2, <1>4, <2>1, <2>2, <2>4, <2>5
<1> QED BY <1>1, <1>3, <1>4

\* Up to the href that is looked at, each one that is not a fragment was
\* resolved and taken, and none was taken twice.
TakenInv ==
  /\ \A i, j \in DOMAIN subLinks : subLinks[i] = subLinks[j] => i = j
  /\ at \in {"links", "true"} =>
       \A i \in DOMAIN content.hrefs :
         /\ i < next \/ at = "true"
         /\ content.hrefs[i] # <<>> /\ content.hrefs[i][1] # "#"
         => LinkToURL(UrlToLink(content.hrefs[i], link)) \in Collected
  /\ at \notin {"links", "true", "thrown"} => next = 1

LEMMA TakenInvStep ==
  ClientInv /\ OutcomeInv /\ UrlInv /\ TakenInv /\ [Next]_vars => TakenInv'
<1> SUFFICES ASSUME ClientInv, OutcomeInv, UrlInv, TakenInv, [Next]_vars PROVE TakenInv'
  OBVIOUS
<1> USE DEF linkVars, clientVars
<1>h. ASSUME at \in {"add", "links", "true"}
      PROVE  Len(content.hrefs) \in Nat /\ DOMAIN content.hrefs = 1..Len(content.hrefs)
  <2>1. content \in [text : Seq(Token), hrefs : Seq(Seq(UrlToken))]
    BY <1>h, ContentIsPage DEF OutcomeInv, Downloading
  <2>2. content.hrefs \in Seq(Seq(UrlToken))
    BY <2>1
  <2> QED BY <2>2
<1>n. next \in Nat \ {0}
  BY DEF OutcomeInv
\* Steps before the links, or away from them.
<1>a. ASSUME UNCHANGED <<next, subLinks>>, at \notin {"links", "true", "thrown"},
             at' \notin {"links", "true"}
      PROVE  TakenInv'
  BY <1>a DEF TakenInv
<1>1. CASE Construct \/ ConstructThrows
  BY <1>1, <1>a DEF Construct, ConstructThrows
<1>2. CASE Download
  <2>1. /\ at \in Downloading /\ at' \in Downloading \cup {"returned"}
        /\ UNCHANGED <<next, subLinks>>
    BY <1>2 DEF Download, getContent, getContent_Redirect, Request, Read, Catch, Follow,
                NoRedirect, RequestRedirect, ReadRedirect, CatchRedirect, Downloading
  <2> QED BY <2>1, <1>a DEF Downloading
<1>3. CASE Scan \/ NoContent \/ AddLinkThrows
  BY <1>3, <1>a DEF Scan, NoContent, AddLinkThrows
<1>4. CASE extractWords
  <2>1. /\ at \in Scanning /\ at' \in Scanning \cup {"false", "add"}
        /\ UNCHANGED <<next, subLinks>>
    BY <1>4 DEF extractWords, SkipTag, TagBegins, SkipCharacter, CountWord, GoOn, Scanning
  <2> QED BY <2>1, <1>a DEF Scanning
<1>5. CASE AddLink
  <2>1. /\ at = "add" /\ at' = "links" /\ UNCHANGED <<next, subLinks, content, link>>
    BY <1>5 DEF AddLink
  <2>2. next = 1 /\ \A i \in DOMAIN content.hrefs : ~(i < 1)
    BY <1>h, <2>1 DEF TakenInv
  <2> QED BY <2>1, <2>2 DEF TakenInv
<1>6. CASE HrefEmpty
  BY <1>6 DEF HrefEmpty, TakenInv
<1>7. CASE HrefFragment
  <2>1. /\ at = "links" /\ UNCHANGED <<at, subLinks, content, link>> /\ next' = next + 1
        /\ content.hrefs[next][1] = "#"
    BY <1>7 DEF HrefFragment, HasNext, href
  <2>2. \A i \in DOMAIN content.hrefs : i < next + 1 => i < next \/ i = next
    BY <1>h, <1>n, <2>1
  <2> QED BY <2>1, <2>2 DEF TakenInv, Collected
<1>8. CASE HrefTaken
  <2> DEFINE u == LinkToURL(UrlToLink(content.hrefs[next], link))
  <2>1. /\ at = "links" /\ UNCHANGED <<at, content, link>> /\ next' = next + 1
        /\ subLinks' = IF \E i \in DOMAIN subLinks : subLinks[i] = u
                         THEN subLinks ELSE Append(subLinks, u)
    BY <1>8 DEF HrefTaken, HasNext, href
  <2>2. \A i \in DOMAIN content.hrefs : i < next + 1 => i < next \/ i = next
    BY <1>h, <1>n, <2>1
  <2>3. /\ \A i, j \in DOMAIN subLinks' : subLinks'[i] = subLinks'[j] => i = j
        /\ Collected \subseteq Collected' /\ u \in Collected'
    <3> HIDE DEF u
    <3>1. CASE \E i \in DOMAIN subLinks : subLinks[i] = u
      BY <2>1, <3>1 DEF TakenInv, Collected
    <3>2. CASE ~\E i \in DOMAIN subLinks : subLinks[i] = u
      <4>1. PICK S : subLinks \in Seq(S)
        BY DEF UrlInv
      <4>2. subLinks \in Seq(S \cup {u}) /\ u \in S \cup {u} /\ subLinks' = Append(subLinks, u)
        BY <2>1, <3>2, <4>1
      <4>3. /\ DOMAIN subLinks' = 1..(Len(subLinks) + 1)
            /\ \A i \in 1..Len(subLinks) : subLinks'[i] = subLinks[i]
            /\ subLinks'[Len(subLinks) + 1] = u
            /\ DOMAIN subLinks = 1..Len(subLinks) /\ Len(subLinks) \in Nat
        BY <4>2
      <4>4. /\ DOMAIN subLinks' = DOMAIN subLinks \cup {Len(subLinks) + 1}
            /\ Len(subLinks) + 1 \notin DOMAIN subLinks
        BY <4>3
      <4>5. \A i, j \in DOMAIN subLinks' : subLinks'[i] = subLinks'[j] => i = j
        BY <3>2, <4>3, <4>4 DEF TakenInv
      <4>6. Collected \subseteq Collected' /\ u \in Collected'
        BY <4>3, <4>4 DEF Collected
      <4> QED BY <4>5, <4>6
    <3> QED BY <3>1, <3>2
  <2>4. ASSUME NEW i \in DOMAIN content.hrefs, i < next + 1,
               content.hrefs[i] # <<>>, content.hrefs[i][1] # "#"
        PROVE  LinkToURL(UrlToLink(content.hrefs[i], link)) \in Collected'
    <3>1. CASE i = next
      BY <2>3, <3>1
    <3>2. CASE i < next
      BY <2>1, <2>3, <2>4, <3>2 DEF TakenInv
    <3> QED BY <2>2, <2>4, <3>1, <3>2
  <2>5. at' = "links" /\ content' = content /\ link' = link
    BY <2>1
  <2> HIDE DEF u
  <2> QED BY <2>1, <2>3, <2>4, <2>5 DEF TakenInv
<1>9. CASE LinksDone
  <2>1. /\ at = "links" /\ at' = "true" /\ UNCHANGED <<next, subLinks, content, link>>
        /\ ~(next <= Len(content.hrefs))
    BY <1>9 DEF LinksDone, HasNext
  <2>2. \A i \in DOMAIN content.hrefs : i < next
    BY <1>h, <1>n, <2>1
  <2> QED BY <2>1, <2>2 DEF TakenInv, Collected
<1>10. CASE UNCHANGED vars
  BY <1>10 DEF vars, TakenInv, Collected
<1> QED
  BY <1>1, <1>2, <1>3, <1>4, <1>5, <1>6, <1>7, <1>8, <1>9, <1>10
     DEF Next, parse, extractLink

LEMMA TakenInvariant == Spec => []TakenInv
<1>1. Init => TakenInv
  BY DEF Init, TakenInv
<1> QED BY <1>1, TakenInvStep, ClientInvariant, OutcomeInvariant, UrlInvariant, PTL DEF Spec

\* When parse() returns true, every href with a host name that has a dot, or
\* with none, and with an absolute path was resolved against the link of the
\* page as it is meant, and is among the links handed to the crawler, once.
THEOREM UsualHrefsLead == Spec => []UsualHrefsResolve
<1>1. TakenInv => UsualHrefsResolve
  <2> SUFFICES ASSUME TakenInv PROVE UsualHrefsResolve
    OBVIOUS
  <2>1. ASSUME at = "true", NEW p \in HrefParts, NEW i \in DOMAIN content.hrefs,
               content.hrefs[i] = Written(p), Usual(p)
        PROVE  LinkToURL(Meant(p, link)) \in Collected
    <3>1. /\ UrlToLink(Written(p), link) = Meant(p, link)
          /\ Written(p) # <<>> /\ Written(p)[1] # "#"
      BY <2>1, UsualLink
    <3> QED BY <2>1, <3>1, Zenon DEF TakenInv
  <2> QED BY <2>1 DEF UsualHrefsResolve, Usual, TakenInv
<1> QED BY <1>1, TakenInvariant, PTL
===============================================================================
