----------------------------- MODULE MCWebCrawler -----------------------------
(***************************************************************************)
(* Instances of WebCrawler for TLC: small sites as link graphs.            *)
(***************************************************************************)
EXTENDS WebCrawler, TLC

CONSTANTS home, news, about, deep

\* A cycle (home, news), a page linked twice (about, first found one hop
\* from the start page and again two hops away), and a page two hops away.
SiteLinks ==
  (home  :> <<news, about>>) @@
  (news  :> <<about, deep, home>>) @@
  (about :> <<deep>>) @@
  (deep  :> <<home>>)

\* A chain, the shortest site on which a page is three hops away.
ChainLinks ==
  (home  :> <<news>>) @@
  (news  :> <<about>>) @@
  (about :> <<deep>>) @@
  (deep  :> <<>>)
===============================================================================
