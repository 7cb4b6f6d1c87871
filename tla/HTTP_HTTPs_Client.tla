--------------------------- MODULE HTTP_HTTPs_Client ---------------------------
(***************************************************************************)
(* getContent and getContent_Redirect (Include/HTTP_HTTPs_Client.h): one   *)
(* request for a page and at most one more, for the page the answer        *)
(* redirects to.  Every exception of the library is caught inside the      *)
(* function that made the request, and what was read so far is kept.       *)
(*                                                                         *)
(* The remote servers are the environment: they answer with what they like *)
(* or not at all.  The https and the http branch differ in the handshake   *)
(* and in what a failing shutdown does; in the http branch it throws, but  *)
(* only after the body was kept, so no branch shows in the result.         *)
(***************************************************************************)
EXTENDS Utils

CONSTANTS
  Response,   \* what servers may answer: [status, field, location, page]
  NoPage,     \* the empty string
  Binary      \* a body with a zero byte

ASSUME ClientAssumption == NoPage # Binary

Page == {r.page : r \in Response}

VARIABLES
  at,           \* where the thread is
  link,         \* the argument of getContent
  redirectLink, \* the local of that name, NoLink until it is set
  content,      \* the result so far
  asked,        \* history: the links requested
  answers       \* history: the answers read

clientVars == <<redirectLink, content, asked, answers>>

\* isText: a body with a zero byte is dropped.
Text(page) == IF page = Binary THEN NoPage ELSE page

\* The answer makes getContent ask again: the status is 301 or 307, and a
\* field spelled exactly "location" says where.
Redirects(r) == r.status \in {301, 307} /\ r.field = "location"

\* resolve, connect, handshake and write.
Request ==
  /\ at = "connect"
  /\ asked' = Append(asked, link)
  /\ at' = "read"
  /\ UNCHANGED <<link, redirectLink, content, answers>>

\* http::read returns an answer.
Read ==
  /\ at = "read"
  /\ \E r \in Response :
       /\ answers' = Append(answers, r)
       /\ redirectLink' = IF Redirects(r) THEN UrlToLink(r.location, link) ELSE redirectLink
       /\ content' = Text(r.page)
  /\ at' = "caught"
  /\ UNCHANGED <<link, asked>>

\* An exception before the body was kept.
Catch ==
  /\ at \in {"connect", "read"}
  /\ at' = "caught"
  /\ UNCHANGED <<link, clientVars>>

\* Mutant of Follow: the redirect is followed by getContent itself.
FollowOnAndOn ==
  /\ at = "caught"
  /\ redirectLink.host # <<>>
  /\ content' = NoPage
  /\ link' = redirectLink
  /\ redirectLink' = NoLink
  /\ at' = "connect"
  /\ UNCHANGED <<asked, answers>>

\* The first body is forgotten and getContent_Redirect called.
Follow ==
  /\ at = "caught"
  /\ redirectLink.host # <<>>
  /\ content' = NoPage
  /\ at' = "connectRedirect"
  /\ UNCHANGED <<link, redirectLink, asked, answers>>

RequestRedirect ==
  /\ at = "connectRedirect"
  /\ asked' = Append(asked, redirectLink)
  /\ at' = "readRedirect"
  /\ UNCHANGED <<link, redirectLink, content, answers>>

ReadRedirect ==
  /\ at = "readRedirect"
  /\ \E r \in Response :
       /\ answers' = Append(answers, r)
       /\ content' = Text(r.page)
  /\ at' = "returned"
  /\ UNCHANGED <<link, redirectLink, asked>>

\* Mutant of CatchRedirect: the body of the redirecting answer is fallen
\* back on.
CatchRedirectFallsBack ==
  /\ at \in {"connectRedirect", "readRedirect"}
  /\ content' = Text(answers[1].page)
  /\ at' = "returned"
  /\ UNCHANGED <<link, redirectLink, asked, answers>>

CatchRedirect ==
  /\ at \in {"connectRedirect", "readRedirect"}
  /\ at' = "returned"
  /\ UNCHANGED <<link, clientVars>>

NoRedirect ==
  /\ at = "caught"
  /\ redirectLink.host = <<>>
  /\ at' = "returned"
  /\ UNCHANGED <<link, clientVars>>

getContent_Redirect == RequestRedirect \/ ReadRedirect \/ CatchRedirect

getContent ==
  Request \/ Read \/ Catch \/ Follow \/ NoRedirect \/ getContent_Redirect

Downloading == {"connect", "read", "caught", "connectRedirect", "readRedirect"}

-------------------------------------------------------------------------------
(* Safety *)

\* A download asks twice at most, however servers redirect, and the second
\* time only where the first answer pointed.
OneRedirect ==
  /\ Len(asked) <= 2
  /\ Len(asked) = 2 =>
       Redirects(answers[1]) /\ asked[2] = UrlToLink(answers[1].location, asked[1])

\* The text that is returned is that of the last answer: never the body of
\* an answer that redirected elsewhere, and nothing at all when the request
\* made last got no answer.  A body that is not text is never returned.
LastAnswerOnly ==
  at \notin Downloading /\ content # NoPage =>
    /\ content # Binary
    /\ Len(answers) = Len(asked)
    /\ content = answers[Len(answers)].page
===============================================================================
