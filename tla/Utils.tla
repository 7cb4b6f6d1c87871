--------------------------------- MODULE Utils ---------------------------------
(***************************************************************************)
(* Links (Include/Utils.h): the structure Link, LinkToURL and UrlToLink.   *)
(* A url is a sequence of tokens: the punctuation marks the regular        *)
(* expression tells apart, and names, each a run of characters of          *)
(* [[:alnum:]_-] that no other name touches.  A name has three characters  *)
(* at least; the exception is "s", which the expression can split off      *)
(* "https".                                                                *)
(*                                                                         *)
(* The expression of UrlToLink is                                          *)
(*   (https?)?(:?//)?([[:alnum:]_-]+.[^/]+)?(/.*(#[^/]+$)?)                *)
(* where the dot after the first name is any character: the backslashes of *)
(* "\." and "\/" are lost in the C++ string.  The fragment group never     *)
(* takes part in a match, since the greedy .* before it takes everything.  *)
(***************************************************************************)
EXTENDS Integers, Sequences

CONSTANT Name   \* the names, the schemes "http" and "https" among them

Scheme == {"http", "https"}

ASSUME UtilsAssumption ==
  /\ Scheme \cup {"s"} \subseteq Name
  /\ Name \cap {":", "/", ".", "#"} = {}

UrlToken == Name \cup {":", "/", ".", "#"}

\* protocol is an element of Scheme, host and query are sequences of tokens.
NoLink == [protocol |-> "http", host |-> <<>>, query |-> <<>>]

LinkToURL(link) == <<link.protocol, ":", "/", "/">> \o link.host \o link.query

-------------------------------------------------------------------------------
(* How std::regex reads a url *)

\* The tokens s stand in u from position i on.
At(u, i, s) == i + Len(s) - 1 <= Len(u) /\ SubSeq(u, i, i + Len(s) - 1) = s

Least(S) == CHOOSE i \in S : \A j \in S : i <= j

\* The first slash of u at position i or behind it, 0 if there is none.
FirstSlash(u, i) ==
  LET slashes == {j \in i..Len(u) : u[j] = "/"}
  IN  IF slashes = {} THEN 0 ELSE Least(slashes)

SeparatorEnds(u, i) ==
  {i} \cup {j \in {i + 2} : At(u, i, <<"/", "/">>)}
      \cup {j \in {i + 3} : At(u, i, <<":", "/", "/">>)}

\* The group of the host, tried in this order: the whole first name, any one
\* character, and `tail` characters at least before the slash (2); the name
\* cut short to provide those characters itself (1); no host at all (0).
HostReadings(u, i, tail) ==
  {r \in {[shape |-> 2, query |-> FirstSlash(u, i + 2)],
          [shape |-> 1, query |-> FirstSlash(u, i + 1)],
          [shape |-> 0, query |-> FirstSlash(u, i)]} :
     /\ i <= Len(u)
     /\ r.query > 0
     /\ r.shape = 0 => r.query = i
     /\ r.shape = 1 => u[i] \in Name \ {"s"}
     /\ r.shape = 2 => u[i] \in Name /\ r.query >= i + 2 + tail}

\* The rest of a url behind its scheme: an optional separator, then the host.
RestReadings(u, i, tail) ==
  UNION {{[host |-> b, shape |-> r.shape, query |-> r.query] :
            r \in HostReadings(u, b, tail)} : b \in SeparatorEnds(u, i)}

\* All ways to read u from position i: with the scheme that stands there (2),
\* with "http" taken from "https" and a host that begins with the "s" (1),
\* or without a scheme (0).
ReadingsFrom(u, i, tail) ==
  LET With(scheme, R) ==
        {[from |-> i, scheme |-> scheme, host |-> r.host, shape |-> r.shape,
          query |-> r.query] : r \in R}
      split == {[host |-> i, shape |-> 2, query |-> FirstSlash(u, i + 2)]}
  IN  With(0, RestReadings(u, i, tail))
        \cup (IF u[i] \in Scheme THEN With(2, RestReadings(u, i + 1, tail)) ELSE {})
        \cup {r \in With(1, split) : u[i] = "https" /\ r.query >= i + 2 + tail}

Readings(u, tail) == UNION {ReadingsFrom(u, i, tail) : i \in 1..Len(u)}

\* The order of trial: leftmost first, then each optional group taken before
\* it is left out.
TriedBefore(r, s) ==
  \/ r.from < s.from
  \/ r.from = s.from /\ r.scheme > s.scheme
  \/ r.from = s.from /\ r.scheme = s.scheme /\ r.host > s.host
  \/ /\ r.from = s.from /\ r.scheme = s.scheme /\ r.host = s.host
     /\ r.shape >= s.shape

\* regex_search: the set of the one reading that is found, or the empty set.
Match(u, tail) ==
  UNION {{r \in R : \A s \in R : TriedBefore(r, s)} : R \in {Readings(u, tail)}}

\* The scheme and host of a reading, if it has them, and its query.
SchemeOf(u, r, default) ==
  CASE r.scheme = 2 -> u[r.from] [] r.scheme = 1 -> "http" [] r.scheme = 0 -> default

HostOf(u, r, default) ==
  CASE r.scheme = 1 -> <<"s">> \o SubSeq(u, r.host + 1, r.query - 1)
    [] r.scheme # 1 /\ r.shape > 0 -> SubSeq(u, r.host, r.query - 1)
    [] r.scheme # 1 /\ r.shape = 0 -> default

QueryOf(u, r) == SubSeq(u, r.query, Len(u))

\* Mutant of UrlToLink: the query without its slash.
UrlToLinkBare(html, parentUrl) ==
  IF Match(html, 1) = {}
    THEN [parentUrl EXCEPT !.query = <<"/">>]
    ELSE CHOOSE l \in {[protocol |-> SchemeOf(html, r, parentUrl.protocol),
                        host |-> HostOf(html, r, parentUrl.host),
                        query |-> Tail(QueryOf(html, r))] : r \in Match(html, 1)} : TRUE

\* A link found on a page: what it does not say is taken from the page's own
\* link.  Without a slash there is no match, and the link is the root of the
\* page's host.
UrlToLink(html, parentUrl) ==
  IF Match(html, 1) = {}
    THEN [parentUrl EXCEPT !.query = <<"/">>]
    ELSE CHOOSE l \in {[protocol |-> SchemeOf(html, r, parentUrl.protocol),
                        host |-> HostOf(html, r, parentUrl.host),
                        query |-> QueryOf(html, r)] : r \in Match(html, 1)} : TRUE
===============================================================================
