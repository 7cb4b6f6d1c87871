------------------------------ MODULE HTML_Parser ------------------------------
(***************************************************************************)
(* HTML_Parser (Include/HTML_parser.h): from a queued url to the words and *)
(* links of its page.  The constructor takes the url apart, parse()        *)
(* downloads the page, counts its words, stores them and collects links.   *)
(*                                                                         *)
(* A page has a text and links.  Its text is a sequence of tokens: the     *)
(* angle brackets, words (runs of letters that no other word touches) and  *)
(* other characters.  Its links are the values of its href attributes, in  *)
(* the order in which the expression <a href="(.*?)" finds them.           *)
(***************************************************************************)
EXTENDS HTTP_HTTPs_Client, FiniteSets

CONSTANTS
  Word,       \* the words a text may hold
  Short,      \* those of them that have three letters at most
  Mark,       \* the other characters of a text, brackets apart
  Queued,     \* the urls the crawler may be asked to parse
  HrefParts   \* ways to write an href: [scheme, host, path]

ASSUME ParserAssumption ==
  /\ Short \subseteq Word
  /\ {"title", "body"} \subseteq Word \ Short
  /\ Word \cap (Mark \cup {"<", ">"}) = {}
  /\ Mark \cap {"<", ">"} = {}
  /\ "/" \in Mark
  /\ Queued \subseteq Seq(UrlToken)

Token == Word \cup Mark \cup {"<", ">"}

\* In a text no word touches another.
Separated(t) == \A i \in 1..(Len(t) - 1) : t[i] \in Word => t[i + 1] \notin Word

ASSUME PageAssumption ==
  \A page \in Page \ {NoPage, Binary} :
    /\ page \in [text : Seq(Token), hrefs : Seq(Seq(UrlToken))]
    /\ Separated(page.text)

\* A host name begins with a name; a path that stands by itself does not begin
\* with the two slashes that announce a host.
ASSUME HrefAssumption ==
  \A p \in HrefParts :
    /\ p \in [scheme : Scheme \cup {""}, host : Seq(UrlToken \ {"/"}), path : Seq(UrlToken)]
    /\ p.host # <<>> => p.host[1] \in Name \ {"s"}
    /\ p.host = <<>> => ~At(p.path, 1, <<"/", "/">>)

VARIABLES
  url,       \* the argument of the constructor
  text,      \* testString1: what extractWords scans
  pos,       \* its iterator `begin`
  wordArray, \* positions of the words counted; a word has a count of as many
             \* as there are positions that hold it, in either case of letters
  stored,    \* addLink was called
  next,      \* the href extractLink looks at
  subLinks   \* the urls it has collected

scanVars == <<text, pos, wordArray>>
linkVars == <<next, subLinks>>
vars == <<at, link, clientVars, url, scanVars, stored, linkVars>>

Scanning == {"skip", "text"}
-------------------------------------------------------------------------------
(* The constructor *)

Init ==
  /\ at = "new"
  /\ link = NoLink
  /\ redirectLink = NoLink
  /\ content = NoPage
  /\ asked = <<>>
  /\ answers = <<>>
  /\ url \in Queued
  /\ text = <<>>
  /\ pos = 1
  /\ wordArray = {}
  /\ stored = FALSE
  /\ next = 1
  /\ subLinks = <<>>

\* The other UrlToLink, for a url that must stand by itself.  Its expression
\* is (https?)?(:?//)?([[:alnum:]-_]+..*?)?(/.*), so that behind the first
\* name one character is enough.
FirstUrlBad(html) == \A r \in Match(html, 0) : r.scheme = 0 \/ r.shape = 0

FirstUrlToLink(html) ==
  CHOOSE l \in {[protocol |-> SchemeOf(html, r, ""),
                 host |-> HostOf(html, r, <<>>),
                 query |-> QueryOf(html, r)] : r \in Match(html, 0)} : TRUE

Construct ==
  /\ at = "new"
  /\ ~FirstUrlBad(url)
  /\ link' = FirstUrlToLink(url)
  /\ at' = "connect"
  /\ UNCHANGED <<clientVars, url, scanVars, stored, linkVars>>

\* "Bad first URL": no protocol or no host.
ConstructThrows ==
  /\ at = "new"
  /\ FirstUrlBad(url)
  /\ at' = "thrown"
  /\ UNCHANGED <<link, clientVars, url, scanVars, stored, linkVars>>

-------------------------------------------------------------------------------
(* extractWords *)

\* The title, found by <title>(.?)[^<]*, with an end tag put behind it.  The
\* character behind the tag is taken whatever it is, so an empty title takes
\* its own end tag and the text behind that.
titleStr(t) ==
  LET titles == {i \in DOMAIN t : At(t, i, <<"<", "title", ">">>)}
      i      == Least(titles)
      ends   == {j \in (i + 4)..Len(t) : t[j] = "<"}
  IN  IF titles = {} THEN <<>>
      ELSE SubSeq(t, i, IF ends = {} THEN Len(t) ELSE Least(ends) - 1)
             \o <<"<", "/", "title", ">">>

\* The page from "<body" on; all is erased when there is none.
bodyStr(t) ==
  LET bodies == {i \in DOMAIN t : At(t, i, <<"<", "body">>)}
  IN  IF bodies = {} THEN <<>> ELSE SubSeq(t, Least(bodies), Len(t))

\* parse() has its content.
Scan ==
  /\ at = "returned"
  /\ content # NoPage
  /\ text' = titleStr(content.text) \o bodyStr(content.text)
  /\ pos' = 1
  /\ at' = IF text' = <<>> THEN "false" ELSE "skip"
  /\ UNCHANGED <<link, clientVars, url, wordArray, stored, linkVars>>

\* An empty page, a dropped one, or a download that failed.
NoContent ==
  /\ at = "returned"
  /\ content = NoPage
  /\ at' = "false"
  /\ UNCHANGED <<link, clientVars, url, scanVars, stored, linkVars>>

\* Mutant of GoOn: a page without words is stored like any other.
GoOnUntested(p, mode) ==
  /\ pos' = p
  /\ at' = IF p <= Len(text) THEN mode ELSE "add"
  /\ UNCHANGED <<link, clientVars, url, text, stored, linkVars>>

\* The scan goes on at position p in the given mode, or is over at the end
\* of the text; then parse() returns false if no word was counted.
GoOn(p, mode) ==
  /\ pos' = p
  /\ at' = IF p <= Len(text) THEN mode
           ELSE IF wordArray' = {} THEN "false" ELSE "add"
  /\ UNCHANGED <<link, clientVars, url, text, stored, linkVars>>

\* Mutant of SkipTag: one character is taken for a whole tag.
SkipTagShort ==
  /\ at = "skip"
  /\ UNCHANGED wordArray
  /\ GoOn(pos + 1, "text")

\* Outside of the text between tags: look for the next '>'.
SkipTag ==
  /\ at = "skip"
  /\ UNCHANGED wordArray
  /\ IF text[pos] = ">" THEN GoOn(pos, "text") ELSE GoOn(pos + 1, "skip")

TagBegins ==
  /\ at = "text"
  /\ text[pos] = "<"
  /\ UNCHANGED wordArray
  /\ GoOn(pos, "skip")

SkipCharacter ==
  /\ at = "text"
  /\ text[pos] \notin Word \cup {"<"}
  /\ UNCHANGED wordArray
  /\ GoOn(pos + 1, "text")

\* Mutants of CountWord: a loop that does not step over the character behind
\* the word, nor over the word; and one that steps over two characters.
CountWordStays ==
  /\ at = "text"
  /\ text[pos] \in Word
  /\ wordArray' = wordArray \cup {p \in {pos} : text[p] \notin Short /\ pos < Len(text)}
  /\ GoOn(pos, "text")

CountWordTwoOn ==
  /\ at = "text"
  /\ text[pos] \in Word
  /\ wordArray' = wordArray \cup {p \in {pos} : text[p] \notin Short /\ pos < Len(text)}
  /\ GoOn(pos + 3, "text")

\* Mutant of CountWord: the end of the text is not tested behind the word.
CountWordUnchecked ==
  /\ at = "text"
  /\ text[pos] \in Word
  /\ wordArray' = wordArray \cup {p \in {pos} : text[p] \notin Short /\ pos < Len(text)}
  /\ pos' = pos + 2
  /\ at' = "text"
  /\ UNCHANGED <<link, clientVars, url, text, stored, linkVars>>

\* A word is read to its end.  At the end of the text it is dropped; else it
\* is counted if it is long enough, and the character behind it is stepped
\* over unseen, be it a '<'.
CountWord ==
  /\ at = "text"
  /\ text[pos] \in Word
  /\ wordArray' = wordArray \cup {p \in {pos} : text[p] \notin Short /\ pos < Len(text)}
  /\ GoOn(pos + 2, "text")

extractWords == SkipTag \/ TagBegins \/ SkipCharacter \/ CountWord

-------------------------------------------------------------------------------
(* addLink and extractLink *)

\* db.addLink(wordCount, GetURL()); DB_Client has its inner steps.
AddLink ==
  /\ at = "add"
  /\ stored' = TRUE
  /\ at' = "links"
  /\ UNCHANGED <<link, clientVars, url, scanVars, linkVars>>

\* A database error leaves parse().
AddLinkThrows ==
  /\ at = "add"
  /\ at' = "thrown"
  /\ UNCHANGED <<link, clientVars, url, scanVars, stored, linkVars>>

href == content.hrefs[next]

HasNext == at = "links" /\ next <= Len(content.hrefs)

\* at(0) of an empty href throws std::out_of_range.
HrefEmpty ==
  /\ HasNext
  /\ href = <<>>
  /\ at' = "thrown"
  /\ UNCHANGED <<link, clientVars, url, scanVars, stored, linkVars>>

HrefFragment ==
  /\ HasNext
  /\ href # <<>>
  /\ href[1] = "#"
  /\ next' = next + 1
  /\ UNCHANGED <<at, link, clientVars, url, scanVars, stored, subLinks>>

\* Mutant of HrefTaken: links are compared before they are completed.
HrefTakenRaw ==
  /\ HasNext
  /\ href # <<>>
  /\ href[1] # "#"
  /\ LET u == LinkToURL(UrlToLink(href, link))
     IN  subLinks' = IF \E i \in DOMAIN subLinks : subLinks[i] = href
                       THEN subLinks ELSE Append(subLinks, u)
  /\ next' = next + 1
  /\ UNCHANGED <<at, link, clientVars, url, scanVars, stored>>

\* A link is completed from the link of the page that was asked for, and
\* taken once.
HrefTaken ==
  /\ HasNext
  /\ href # <<>>
  /\ href[1] # "#"
  /\ LET u == LinkToURL(UrlToLink(href, link))
     IN  subLinks' = IF \E i \in DOMAIN subLinks : subLinks[i] = u
                       THEN subLinks ELSE Append(subLinks, u)
  /\ next' = next + 1
  /\ UNCHANGED <<at, link, clientVars, url, scanVars, stored>>

LinksDone ==
  /\ at = "links"
  /\ ~HasNext
  /\ at' = "true"
  /\ UNCHANGED <<link, clientVars, url, scanVars, stored, linkVars>>

extractLink == HrefEmpty \/ HrefFragment \/ HrefTaken \/ LinksDone

Download == getContent /\ UNCHANGED <<url, scanVars, stored, linkVars>>

parse ==
  \/ Download \/ Scan \/ NoContent \/ extractWords
  \/ AddLink \/ AddLinkThrows \/ extractLink

Next == Construct \/ ConstructThrows \/ parse

Spec == Init /\ [][Next]_vars

\* What the thread does by itself, once a download is over and between calls
\* of the database.  Nobody owes an answer to http::read, which has no timeout,
\* or to addLink.
FairSpec == Spec /\ WF_vars(Scan \/ NoContent \/ extractWords \/ extractLink)

-------------------------------------------------------------------------------
(* Words *)

Bracket == {"<", ">"}

\* Position i of the scanned text lies behind the bracket b, with no other
\* bracket in between.
Behind(b, i) ==
  \E j \in 1..(i - 1) : text[j] = b /\ \A k \in (j + 1)..(i - 1) : text[k] \notin Bracket

\* No '<' stands directly behind a word, whose '<' CountWord steps over unseen.
WordsApart == \A j \in 2..Len(text) : text[j] = "<" => text[j - 1] \notin Word

LongWord(i) == text[i] \in Word \ Short

\* The iterator is dereferenced only inside the text.
InBounds == at \in Scanning => pos \in DOMAIN text

\* No word of the text between tags is lost behind the iterator, except one
\* that ends the whole text; a scan that is over has passed the whole text.
NoWordLost ==
  \A i \in 1..(Len(text) - 1) :
    LongWord(i) /\ Behind(">", i) /\ (i < pos \/ at \in {"add", "links", "true"})
      => i \in wordArray

\* What the project description says of indexing, tags are removed and the words
\* of the text counted, for a text in which every word is followed by a blank or
\* a sign before the next tag: what is counted is a long word behind a closed
\* tag.  Where a tag touches the word before it, the code counts its name too.
CountedForAReason ==
  \A i \in wordArray : LongWord(i) /\ (WordsApart => Behind(">", i))

-------------------------------------------------------------------------------
(* Links *)

Collected == {subLinks[i] : i \in DOMAIN subLinks}

\* Every url that parse() hands to the crawler is its own link again: the
\* constructor accepts it, and GetURL() gives it back unchanged.  The crawler
\* relies on it when it looks up queued urls among the stored ones.
QueuedUrlsKeep ==
  \A u \in Collected : ~FirstUrlBad(u) /\ LinkToURL(FirstUrlToLink(u)) = u

\* How an href is written, and what it means on a page with link `parent`.
Written(p) ==
  (IF p.scheme = "" THEN <<>> ELSE <<p.scheme, ":">>)
    \o (IF p.host = <<>> THEN <<>> ELSE <<"/", "/">>) \o p.host \o p.path

Meant(p, parent) ==
  [protocol |-> IF p.scheme = "" THEN parent.protocol ELSE p.scheme,
   host |-> IF p.host = <<>> THEN parent.host ELSE p.host,
   query |-> p.path]

\* No link is taken twice, and an href with a host name that has a dot, or with
\* none, and with a path that begins with a slash, leads where it says.
UsualHrefsResolve ==
  /\ \A i, j \in DOMAIN subLinks : subLinks[i] = subLinks[j] => i = j
  /\ at = "true" => \A p \in HrefParts : \A i \in DOMAIN content.hrefs :
       /\ content.hrefs[i] = Written(p)
       /\ p.path # <<>> /\ p.path[1] = "/"
       /\ IF p.host = <<>> THEN p.scheme = "" ELSE Len(p.host) > 1 /\ p.host[2] = "."
       => LinkToURL(Meant(p, link)) \in Collected

-------------------------------------------------------------------------------
(* Outcome *)

\* A page is stored only with words counted, and only a call that failed at
\* the database or at an empty href keeps its links from the crawler.
StoredThenLinked ==
  /\ stored => wordArray # {}
  /\ at = "true" => stored
  /\ at = "thrown" /\ stored => \E i \in DOMAIN content.hrefs : content.hrefs[i] = <<>>

\* Once a download is over its page is scanned to the end, and once the page is
\* stored the loop over its links ends; what the download and the database take
\* is not in the thread's hands.
ParseEnds ==
  /\ at = "returned" ~> at \in {"add", "false"}
  /\ at = "links" ~> at \in {"true", "thrown"}
===============================================================================
