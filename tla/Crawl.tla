--------------------------------- MODULE Crawl ---------------------------------
(***************************************************************************)
(* What the crawler promises, without its threads: a set of positions      *)
(* still to be visited, visited level by level, and the set of indexed     *)
(* pages.  There is no pool, no mutex, no queue order and no half-made     *)
(* list of links: a visit indexes the page and adds what it links to in    *)
(* one step.  WebCrawler states that doWork implements this specification. *)
(*                                                                         *)
(* Two things the code does are promises here, and worth knowing: a        *)
(* position may be visited twice, because the queue may hold it twice and  *)
(* is not searched before a push; and a crawl may end before its first     *)
(* visit, because the pool may leave before the start page is queued.      *)
(***************************************************************************)
EXTENDS Integers

CONSTANTS
  Url,
  StartPage,
  RecursionDepth,
  LinksOf         \* LinksOf[u]: the set of pages u links to

VARIABLES
  todo,     \* positions to visit: pages with the depth left for them
  indexed,  \* the pages in the database
  state     \* "new", "begun", "running", "ended" or "dead"

vars == <<todo, indexed, state>>

Position == [url : Url, dept : Int]

First == [url |-> StartPage, dept |-> RecursionDepth]

Init ==
  /\ todo = {}
  /\ indexed = {}
  /\ state = "new"

\* The start page is made known to the pool.
Begin ==
  /\ state = "new"
  /\ todo' = {First}
  /\ state' = "begun"
  /\ UNCHANGED indexed

\* The start page is taken.
Take ==
  /\ state = "begun"
  /\ state' = "running"
  /\ UNCHANGED <<todo, indexed>>

\* A position of the level in work, with all levels above it done.
Current(item) ==
  /\ state = "running"
  /\ item \in todo
  /\ \A other \in todo : other.dept <= item.dept

\* The position is done with, unless it is on the list a second time.
Remaining(item) == {todo, todo \ {item}}

\* What a visit adds: the links that are not indexed, one level down.
Found(item) ==
  IF item.dept > 0
    THEN {[url |-> l, dept |-> item.dept - 1] : l \in LinksOf[item.url] \ indexed'}
    ELSE {}

Visit(item) ==
  /\ Current(item)
  /\ indexed' = indexed \cup {item.url}
  /\ \E rest \in Remaining(item) : todo' = rest \cup Found(item)
  /\ UNCHANGED state

\* The page has no text: nothing is indexed and none of its links is known.
Miss(item) ==
  /\ Current(item)
  /\ todo' \in Remaining(item)
  /\ UNCHANGED <<indexed, state>>

\* The crawl ends when nothing is left to visit, or before it has begun to.
End ==
  /\ state = "begun" \/ (state = "running" /\ todo = {})
  /\ state' = "ended"
  /\ UNCHANGED <<todo, indexed>>

Die ==
  /\ state \in {"new", "running"}
  /\ state' = "dead"
  /\ UNCHANGED <<todo, indexed>>

\* A new process knows nothing but the database.
Restart ==
  /\ todo' = {}
  /\ state' = "new"
  /\ UNCHANGED indexed

Next ==
  \/ Begin \/ Take \/ End \/ Die \/ Restart
  \/ \E item \in todo : Visit(item) \/ Miss(item)

Spec == Init /\ [][Next]_vars
===============================================================================
