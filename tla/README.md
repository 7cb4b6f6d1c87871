# A TLA+ model of the web crawler and search engine

The repository holds two C++ programs and a database between them. The
**crawler** (`src/Crawler/WebCrawler.cpp`) downloads a start page, stores its
words in PostgreSQL and follows its links to a configured depth with a pool of
threads. The **server** (`src/Server/WebServer.cpp`) answers search requests from
that database over HTTP. This directory models their concurrent and
failure-prone parts in TLA+, checks the models with TLC, and proves the main
invariants with TLAPS.

## 1. Inventory

| Component | Source | State | Operations | Module |
|---|---|---|---|---|
| thread pool | `Crawler/WebCrawler.cpp` | queue, global mutex, each thread's place and item | `main`, `doWork` | `WebCrawler`, `Crawl` |
| thread-safe queue | `Include/Safe_Queue.h` | stored items, inner mutex, condition variable | `push`, `pop`, `empty`, `getSize` | `Safe_Queue` |
| index access | `Include/DB_Client.h` | three tables | constructor, `findUrl`, `findKeyword`, `addLink`, `getUrl` | `DB_Client`, `pqxx_work`, `Search` |
| database library | `libpqxx-7.8.1` (vendored) | connection, transaction object | `connection`, `work`, `exec_params`, `commit` | `pqxx_work` |
| search and ranking | `Include/HTTP_Server.h` | relevance map, sorted rows | `getKeyword`, `createResponsePost`, `print_result` | `Search` |
| server sessions | `Include/HTTP_Server.h`, `Server/WebServer.cpp` | socket, request, response, deadline | accept loop, read, process, write, `checkDeadline` | `HTTP_Server` |
| page parser | `Include/HTML_parser.h` | page text, word counts, sub-links | `parse`, `extractWords`, `extractLink`, `UrlToLink` | `HTML_Parser` |
| HTTP client | `Include/HTTP_HTTPs_Client.h` | none kept | `getContent`, `getContent_Redirect`, `isText` | `HTTP_HTTPs_Client` |
| links | `Include/Utils.h` | none | `LinkToURL`, `UrlToLink`, `trim`, ... | `Utils` |
| ini parser | `Include/INI_File.h`, `Ini/config.ini` | sections and values | constructor, `get_value` | `INI_File` |
| OpenSSL headers, root certificates | vendored | | | not modelled |

**How they interact.** The threads of one crawler share the queue, a global
`std::mutex` that `doWork` holds from before `pop()` until after its last
`push`, and the database. Two things are done without that mutex: the loop test
`while (!queue.empty())`, and the push of the start page by `main`, which
happens after the pool was started. `parse()` calls the HTTP client, the word
counter, `addLink` and the link extractor in that order, all under the mutex.
Several crawlers and the server share the database and nothing else. Inside the
server one thread runs the `io_context`; read, write and timer completions of
all sessions are handlers on it, and a search waits for the database inside its
handler.

**What is hard here.** The race between the loop test and `pop()`; the race
between the pool's first test and the first push; a condition variable that
nobody notifies; an operation (`addLink`) whose only real transaction ends after
its first statement; check-then-insert sequences between two crawlers; a restart
on a half-filled database; answers put together from several states of the
index; a deadline that races the completion it is to cut off; handlers that
throw; statements that the database carries out after their crawler is gone; a
hand-written scanner with one iterator and five end tests; urls that are put
together by one function and taken apart by another. `PROJECT.json` lists these hazards with their lines and with the
properties that watch them.

**What makes each part correct.**

* pool: one thread in the critical section; pages taken in breadth-first order;
  no queued link abandoned; the depth respected; a finished crawl complete;
* index: rows of a page from one download, complete unless a call failed, never
  altered;
* libpqxx under `addLink`: the statements after the first commit are transactions
  of their own, and what a commit reports is true;
* pages: words between tags are counted, and nothing else where no tag touches a
  word; links lead where they say, and a queued url is its own link
  again; a download is one answer's text;
* settings: the last value of an item; no crawl, and no listening server, without
  all of them;
* search, as the code understands a request (any of the words): the listed rows are
  the best ones, in order; their relevance is consistent with the index; "no
  matches" is honest;
* sessions: each is guarded by a deadline, ends, and is answered unless it was
  cut for a reason.

## 2. Modules

`Safe_Queue` has one variable, `works`, and the class's operations as operators.
`WebCrawler` EXTENDS it and is shown to implement `Crawl`. `DB_Client` stands
alone; `pqxx_work` is shown to implement it; `Search` EXTENDS it and runs one
search request beside the crawlers. `HTTP_Server` stands alone. `HTML_Parser`
EXTENDS `HTTP_HTTPs_Client`, which EXTENDS `Utils`. `INI_File` stands alone. The
`MC...` modules give TLC its constants, the `...Proofs` modules hold the theorems.
Operators marked "Mutant of" in their comments are not part of the
specifications: each is a plausible mistake in that operation, kept to show that
a property notices it.

### Safe_Queue and WebCrawler

Each method of `Safe_Queue` holds the inner mutex throughout, so a call is one
step, except that `pop()` sleeps in `cond_var.wait`. Whether a caller sleeps is
part of the caller's state (`pc[w] = "wait"`). No method notifies the condition
variable, so a sleeper can only be woken spuriously: `Pop` is enabled for it when
the queue is not empty, and never obliged to happen.

`WebCrawler` has a program counter per thread. Its places follow the lines of
`doWork`:

| `pc` | at | action |
|---|---|---|
| `test` | the loop condition, line 37 | `TestEmpty` |
| `lock` | construction of `unique_lock`, 40 | `Lock` |
| `pop`, `wait` | `queue.pop()`, 43 | `Pop`, `Wait` |
| `parse` | `getContent` and `extractWords` | `FetchOk`, `FetchNothing` |
| `add` | `db.addLink` | `AddLink` |
| `links` | `extractLink`, and the test of `work.dept`, 52 | `ExtractLinks` |
| `push` | the loop over the sub-links, 55-67 | `PushSubLink`, `EndPush` |
| `unlock` | `lock.unlock()`, 71 | `Unlock` |

`main` is `Connect`, `Spawn`, `PushFirst`, `Join` and `MainThrows`. `Throw` is an
exception that leaves `doWork`; there is no handler, so the process dies.
`Restart` ends the process at any moment and starts it again with the database as
it is. The database is the set of urls that have a row; `addLink` is one step
here because the global mutex is held across it, and its inner steps are the
subject of `DB_Client`. `popped`, `failed` and `prior` are history variables.

Urls are model values. The code compares a queued string with the string
`GetURL()` that `addLink` stored; that they agree is `QueuedUrlsKeep` of
`HTML_Parser`. A start page without protocol or host throws.

### Crawl

What the pool promises, without threads, mutex or queue: a set of positions
(page, depth left), visited level by level; a visit indexes the page and adds its
links that are not in the database, in one step. `ImplementsCrawl` maps the queue
and what the thread in the critical section has in hand to that set. A position
may be visited twice, because the queue is not searched before a push, and a
crawl may end before its first visit, because the pool may leave before the start
page is queued: both are written into `Crawl` since the code does them.

### DB_Client

A client is a crawler process, since inside one process the global mutex
serialises `addLink`. Each SQL statement is a step. `addLink` opens one
`pqxx::work` and commits it after the first INSERT. From then on libpqxx sends
the statements straight to the connection (`internal_exec_params` in
`libpqxx-7.8.1/src/transaction_base.cxx` does not look at the status of the
transaction), where each commits by itself, and a further `commit()` is only a
notice (lines 113-121 of that file). Hence there is no step for the later
`commit()` calls. An INSERT into `urls` waits while another transaction holds the
same url uncommitted, and throws if it finds it committed. `Fail` ends a call at
any statement and takes the statement with it. `FailLate` ends a call whose
statement is with the server already: it becomes a member of `lateUrls`,
`lateKeywords` or `latePairs`, a pair with the count it was sent with, and is carried out (`LateUrl`, `LateKeyword`,
`LatePair`) or dropped at some later time, when the crawler may have been started
again. `Restart` starts the crawler again. Quantities are a function `qty[l][w]`
with 0 for "no row". Words are numbered in the order of `std::map`, the order of
the loop. `text` and `abandoned` are history variables.

### pqxx_work

The same call one level down. A client has a connection (`m_conn`: what PQstatus
says), a work object (`m_status`), the exception that leaves `addLink` (`thrown`)
and, at the server, a session per connection with its transaction block, its
uncommitted rows, one request and one reply. A statement is sent (`Send`), executed
(`ExecBegin`, `ExecInsert`, `ExecCommit`, `ExecRollback`, `Refuse`) and answered
(`Receive`, `ReceiveRefusal`, `ReceiveError`, `RolledBack`); the session may end
(`Drop`) and the client may lose the connection (`Lose`), be given up by libpq
while PQstatus says that all is well (`GiveUp`) or die (`Crash`) between any two of
these. That later `exec_params` calls commit by themselves is not written down
here: it follows from the session's block being closed by the first `COMMIT`.

An exception unwinds `addLink` (`Unwind`): the work object is closed and the
connection destroyed. A refused INSERT of the url finds the work object active, so
`abort()` sends `ROLLBACK` first (the place `rollback`); what goes wrong there is
only noticed. Out of `commit()` the status depends on the exception, as in
`do_commit` and `commit`:

| answer to COMMIT | exception | `m_status` |
|---|---|---|
| none, and the connection tests as broken (`Lose`) | `in_doubt_error` | `in_doubt` |
| SQLSTATE 40003 | `in_doubt_error` | `in_doubt` |
| SQLSTATE of class 08, the connection tests as open | `broken_connection` | `aborted` |
| none or without SQLSTATE, the connection tests as open (`GiveUp`) | `broken_connection` | `aborted` |
| any other error | `sql_error` | `aborted` |

The server may answer 40003 or a code of class 08 whether it has carried the COMMIT
out (`ExecCommit`) or not (`Refuse`). For an answer that is missing altogether
`make_result` throws `failure`, the base class; the model calls both
`broken_connection`.

`ImplementsDB_Client` is `DB_Client!Spec` under a mapping that counts a statement
when the server has executed it and calls a client failed when its session is over
or its INSERT was refused. The PostgreSQL side is external and modelled as far as
`addLink` depends on it. `findUrl` and `findKeyword` read over connections of their
own and are one step each.

### Search

One request: `Post` splits the form value (`getKeyword`: lower case, words of
more than three letters, each once), `Ask` is one `getUrl` call with its rows
added to `db_result`, `Answer` sorts through the multimap and prints.
`MultimapInsert` is `std::multimap<int, string, greater<int>>::insert`, which puts
an element behind those of equal key, so ties stay in the order of `std::map`,
by url; the rows go in by rising url. Crawlers take their steps between the calls of `getUrl`. Tokens are model
values with a function to their lower-case word; the result of `urlDecode` is
computed by the code and not used, so it does not appear.

### HTTP_Server

Per session: the pending or queued operation (`op`), the deadline (`timer`), the
socket, the request, the response, and what the client received in full (`got`).
Handlers (`Accept`, `processRequest`, `ReadError`, `Written`, `checkDeadline`,
`DeadlineCancelled`) need the thread of the `io_context` (`Free`). Network and
clock (`RequestRead`, `ReadFails`, `Delivered`, `WriteFails`, `Expire`) run beside
them and only queue a completion. A search makes the server `busy` until
`SearchReturns` or `SearchThrows`; the latter is an exception through `ioc.run()`
that ends the program. A session is released when no handler holds its
`shared_ptr`. Requests are reduced to the six kinds the code tells apart, pages
to their kind.

### Utils, HTTP_HTTPs_Client and HTML_Parser

One call of `parse()` on a queued url. A url is a sequence of tokens: punctuation
and names. `Match` finds the reading `std::regex_search` finds: all readings of
the expression are enumerated and the first in the order of trial is taken
(leftmost, optional groups taken before they are left out). The backslashes of
`\.` and `\/` are lost in the C++ string literals, so the dot in a host is any
character; the expression of the first `UrlToLink` contains `[[:alnum:]-_]`, which
Microsoft's library, the one the project is built with, accepts (others reject
it when the program runs).

`HTTP_HTTPs_Client` is `getContent` step by step: request, answer or exception,
at most one redirect. Servers answer what they like out of `Response`.
`HTML_Parser` takes the text of the answer apart: `SkipTag`, `TagBegins`,
`SkipCharacter` and `CountWord` are the passages of the nested loops of
`extractWords` between two tests of the iterator, with a word as one token; what is
neither a word nor a bracket is a `Mark`.
The character behind a word is stepped over unseen. If it is a `<`, the tag is read
as text and its name counted; `WordsApart`, that no tag touches the word before it,
is therefore the premise under which `CountedForAReason` says that only the words
of the text are counted.
`HrefEmpty`, `HrefFragment`, `HrefTaken` and `LinksDone` are the loop of
`extractLink`. `addLink` is one step that may throw. Case is left out: a word is
counted in lower case, and tags are recognised in lower case only.

What the model makes visible without contradicting a document: an href without a
slash (`page.html`) becomes the root of the page's host; `https://host` without a
path is read as host `s:` of protocol http; fragments stay part of a url, so a
page is stored once per fragment it is linked with; a word that ends the whole
text is dropped; an empty title takes the text behind its end tag; after a
redirect the page is stored, and its relative links are completed, under the url
that was asked for.

### INI_File

The constructor line by line (`SkipLine`, `SectionLine`, `ItemLine`, `EndOfFile`)
and the calls of `get_value` in the order the programs make them. A line is a
sequence of elements of `Char`, of which the parser tells apart the blank (a space
or a tab, `Space`), `;` (`Semicolon`), `[`, `]`, `=` and `.`. Errors are thrown as `char*`, which neither
program catches, so `thrown` is the end of the program without its message. `Begin`
is the point at which a program has asked for all it needs: the crawler's
connection to the database (`WebCrawler.cpp:115`), the server's listening socket.
The server has connected to the database by then, because it asks for
`server_port` afterwards (`WebServer.cpp:56`, `:59`).

## 3. Runs

Passing runs:

| Run | Instance | Shows |
|---|---|---|
| `crawl` | 3 threads, 4 pages with a cycle and a page found at two depths, depth 2, 1 restart, fair | `ImplementsCrawl`, `SleeperSeesNothing`, `NoAbandonedLinks`, `BreadthFirst`, `DepthRespected`, `CrawlComplete`, `SleepIsForever`; `CrawlSettles`: the process ends, dies, or hangs in `pop()` or in a download; `CrawlComplete` covers the run after a restart too; `SoleWorkerFinishes`: if servers answer, the last thread ends the crawl unless the queue was emptied under it |
| `index_calls` | 2 crawlers, 2 urls, 2 words, 2 calls each, fair | `OneVersion`, `PairAccepted`, `SoleOwner`, `CompleteUnlessAbandoned`, `RowsFinal`, `CallsEnd` |
| `pqxx` | 2 crawlers on 1 page with 2 words, one of them calls twice, fair | `ImplementsDB_Client`, `OutcomeHonest`, `CallsReturn` |
| `page` | every text of up to 4 tokens behind `<body>`, titles of four kinds, 38 forms of href, answers with and without redirects, fair | `InBounds`, `NoWordLost`, `CountedForAReason`, `ParseEnds`; `QueuedUrlsKeep`, `UsualHrefsResolve`, `StoredThenLinked`; `OneRedirect`, `LastAnswerOnly` |
| `ini` | every line of up to 4 characters, every assignment of up to 4 more, every file of 4 lines out of 11 ordinary ones | `LastValueKept`, `SettingsComplete` |
| `search_answers` | 1 crawler, 3 urls, 2 words, 2 rows per answer | `RelevanceBounded`, `NoMatchesHonest`, `BestFirst` |
| `server_sessions` | 2 sessions, handlers run, time may stand still | `DeadlineGuards`, `CutForAReason`, `NoLateAnswer`, `WrittenIsReleased`; `EverySessionEnds` as time passes |

Runs in which TLC refutes what a document or comment of the repository says:

| Run | Claim | What happens |
|---|---|---|
| `crawl_ends` | the crawl is not endless (`readme.md:63`) | two threads pass the loop test on the last link; the second sleeps in `pop()` holding the global mutex, and `main` joins for ever |
| `crawl_depth` | a recursion depth of 1 is the start page only (`readme.md:63`) | `dept > 0` at `WebCrawler.cpp:52` lets depth 1 follow the links of the start page: a depth of n reaches n hops, not n - 1 |
| `index_half` | words and frequencies are saved (`readme.md:50`) | a failure after the first commit leaves a url without words, and later calls skip it |
| `search_all_words` | the documents in which all words of the request occur (`readme.md:78`, `HTTP_Server.h:206-208`) | the frequencies are added up word by word, and a page with one of two words is listed |
| `server_error_page` | an error is shown on a page (`readme.md:88`) | a database error ends the server |

Where such a claim and the code disagree, the passing runs check the code's own
reading, and say so where they state it. `DepthRespected` and `CrawlComplete` take
the depth as `RecursionDepth` hops (`MaxHops`): the accounting of the remaining
depth takes the crawler no farther and leaves out nothing within. How many hops a
setting should stand for is the separate question of `ReadmeDepth`.
`NoMatchesHonest` and `BestFirst` are about pages that hold any of the words;
`AllWordsHeld` is the documented request.

Four more disagreements have no run of their own. Each is the premise, or the
exception, of a property that is checked and proved, and is named there:

- The start page may never be downloaded, against the comment at
  `WebCrawler.cpp:140`: the threads run before `main` pushes the page, and each of
  them that finds the queue empty leaves. `CrawlComplete` says `popped # {}`.
- A crawl started again skips the links it finds in the database
  (`WebCrawler.cpp:57`), and with them what lies behind them, against
  `readme.md:63`. `CrawlComplete` excepts what is behind a page of `prior` other than
  the start page, and nothing else.
- The name of a tag that touches the word before it is counted
  (`HTML_parser.h:98`), against `readme.md:44`, `:47`: `word</strong>` counts
  `strong`. `CountedForAReason` has the premise `WordsApart`.
- `commit()` sets the status `aborted` when a `broken_connection` leaves
  `do_commit` over a connection that tests as open (`transaction.cxx:107-112`,
  `transaction_base.cxx:159-163`), although the server may have carried the COMMIT
  out; libpqxx promises an `in_doubt_error` (`transaction_base.hxx:104-108`).
  `OutcomeHonest` excepts `broken_connection` out of `commit()`.

`crawl_ends` shows one of the outcomes `CrawlSettles` leaves room for.
`WebCrawlerProofs` shows that it is final: once a thread sleeps in
`pop()`, no step of the process wakes it (`SleepersNeverWake`), for any number of
threads. A two-thread race on the last link is not rare in the code: a thread
that waits for the mutex has tested the queue before the wait, and the wait lasts
as long as a download.

**Bounds.** Three threads are the fewest with one in work, one on its way and one
gone; four pages and depth 2 give a cycle, a page queued at two depths and
pages taken with no depth left whose links must not be followed. `MaxRuns` bounds restarts: one suffices for a process that
meets its own leftovers. Two crawlers with two
calls each can collide, fail and come back to the same url; the texts share one
word and disagree on its count. In `pqxx` one page is enough for two sessions to
wait for each other's row, two words make the loop go round, and a second call
meets what the first one left at the server. The page has the same counts in all
downloads there; that rows of different counts never meet is `OneVersion`, checked
in `index_calls`, where late pairs carry the counts they were sent with, and proved
for every instance. Four tokens behind `<body>` hold a
word, a mark, a bracket and a name in that tag, or a tag, its end and two words
behind it: every order in which the scan can enter and leave a tag. Four characters of a value hold a value, a blank, a
comment sign and one character more, in every order. Three urls against two rows per answer put the
limit of `print_result` between equal and unequal rows. Two sessions let one wait
while the other has the thread. No run uses symmetry. Deadlock checking is off everywhere:
all programs may legitimately come to rest.

**Fairness.** In `WebCrawler!FairSpec` `main` and every thread keep running;
`FetchOk`/`FetchNothing` are excluded because the blocking `http::read` has no
time limit (`expires_after` bounds asynchronous operations only), and so is the
wake-up of a sleeper. `ServersAnswer` says that remote servers answer; it is the premise
of `SoleWorkerFinishes`, and `AnsweredSpec` adds it to `FairSpec`. `Throw`,
`MainThrows` and `Restart` are never obliged. Weak fairness of `Lock` is enough
for what is checked: no property relies on a particular thread winning a
contended mutex. In `DB_Client!FairSpec` the server executes each statement sent
to it, and ends the transactions of clients that are gone. In
`pqxx_work!FairSpec` a client notices when it uses a connection that is gone, the
server executes what it has received, and finds out that a client is gone (TCP
keepalive, which PostgreSQL has on by default); an error of libpq's own (`GiveUp`)
is never obliged. `HTML_Parser!FairSpec` keeps the scan and the loop over the links
running and nothing else: the answer of a server is not obliged, since `http::read`
may block for ever, and neither is `addLink`. `ParseEnds` accordingly says that a
scan that has begun ends, and so do the links; what a silent server does is in
`WebCrawler`. `HTTP_Server!LoopSpec` says that the `io_context` runs every queued
handler and that a query returns or throws; `TimePasses`, that timers expire, is
the premise of `EverySessionEnds` and part of `FairSpec`.
Clients are never assumed to do anything.

## 4. Proofs

All theorems hold for every value of the constants under the named assumptions
of the modules; the pool, the site, the tables, the set of sessions, the texts of
pages, the urls and the lines of files may be of any size, the recursion depth any
integer. The assumptions say what kind of values the constants are, and in three
places what the inputs look like: `PageAssumption`, that in the text of a page no
word touches another (a word is a longest run of letters); `HrefAssumption`, that
the host in a reference begins with a name and that a path without a host does not
begin with the two slashes that announce one; `UtilsAssumption`, that names are not
punctuation.

**WebCrawlerProofs.** `TypeCorrect` is inductive by itself. `PoolInv` adds
`MutexInv`, `MainFirst`, `SleeperSeesNothing` and `NoAbandonedLinks`. `MainFirst`
(before the start page is pushed nothing was taken and every thread is at its
first test) is needed because that push is not under the mutex: without it a
push could meet a sleeper, and `SleeperSeesNothing` would not be inductive. From
`PoolInv` follow `MutualExclusion`, `SleepersOverEmptyQueue`, `LinksNotAbandoned`
and the action property `SleepersNeverWake`. `OrderInv` is `PoolInv` with
`BreadthFirst`; mutual exclusion makes the page in work unique, so all pushes are
one level below it (`BreadthFirstOrder`). `DepthInv` adds `ItemsReached`: every
item queued or in work is reached by a trail of links as long as the depth it has
used up; the step that pushes a sub-link extends the trail by one
(`DepthBound`).

**CrawlProofs.** `PoolImplementsCrawl` is the refinement of `Crawl`: under
`RunInv` (`OrderInv`, and a thread works only between `main`'s push and its
return) every step of the pool maps to a step of `Crawl` or to nothing. The visit
is `AddLink`, because from then on the page's unseen links count as known;
`FetchNothing` is the miss; testing, locking, extracting and pushing map to
nothing. That the page in work is of the highest level is `BreadthFirst`.
`CrawlIsComplete` rests on `CompleteInv`, in which `LinksKept` says of every page
taken and stored, for every link of it, that it is still to be looked at, that it
was stored by an earlier run (`prior`), or that the link is queued or was taken
with at least the depth the page leaves for it. A link is skipped when its page is
in the database, and this costs nothing in a first run because what was taken
earlier is never deeper in the site (`TakenAbove`); in a run started again it costs
what lies behind `prior`. From there the theorem goes along a trail that avoids
failed downloads and `prior`: a first page on it that was not taken would follow a
page for which `LinksKept` fails.

**DB_ClientProofs.** `OwnInv` is `TypeOK` with `Owner`, `SoleOwner`, `Unborn` and
`Leftover`. `Owner` says that a client past its commit is the one whose words are
on record and that the rows stored so far are exactly those of the visited words;
`Unborn` that an uncommitted url, a late one included, has no rows and that its
inserting call's words are on record; `Leftover` that a pair outstanding belongs
to a url nobody fills any more, is not stored yet, and carries the count of the words
on record. `LatePair` stores the count that was sent, so that `OneVersion` holds of
a late row is a consequence of `Leftover` and not of the step. `OneVersion` and
`CompleteUnlessAbandoned` are not inductive without them. `KeywordKept` is added
for `PairAccepted`. `RowsFinal` and `OnlyGrows` (nothing is deleted, no stored
frequency altered) are proved from the same invariant.

**pqxx_workProofs.** `OutcomeIsHonest` from `WorkInv`: `PlaceOk` says for each
place of a client, and for what its connection and its work object claim, which
state the session at the server can be in. The property itself is about a client
that is told something; the invariant has to speak about the COMMIT that is on its
way, executed and unanswered, or answered and unread. The theorem makes the
exception of `OutcomeHonest` and no other: 40003, a lost connection, a refused
COMMIT and the ROLLBACK of a refused INSERT are reported as they are. A session depends on its own
client and on nobody else, so a step is treated once for the client that takes it
and once for all others.

**HTTP_ServerProofs.** `TypeInv` is `TypeOK` with `RequestKnown` (a request in
processing was read). `SocketInv` relates the socket to what may be pending, and
gives `AlwaysGuarded` and `NoAnswerAfterDeadline`. `CauseInv` records why a
session stands where it does, and gives `UnansweredForAReason`.

**HTML_ParserProofs.** `ClientInv` lists what was asked and answered at each place
of `getContent` (`RedirectsOnce`, `ReturnsLastAnswer`). `ScanInv` relates the
iterator of `extractWords` to the bracket nearest behind it: outside of the text
between tags that is not a `>`, unless the iterator stands on the `<` that ended
the text (`IteratorInBounds`, `WordsNotLost`, for texts of any length).
`WordsCountedForAReason` adds `CountedBehind`, the part of the invariant about words
already counted: each stands behind the `>` of a tag, or in a tag that touches the
word before it, which `WordsApart` excludes. `OutcomeInv` gives `StoresThenLinks`. For `UrlsKept` the links that
can occur are described (`GoodLink`: a host that begins with a name, other than
the single letter of `https`, and a query that begins with a slash), every way of
making a link is shown
to give one of them, and the reading `Match` finds for the url of such a link is
shown to be unique among the first ones: no reading begins further left, and none
at the same place is tried earlier. `UsualHrefsLead` adds `TakenInv`, a loop
invariant of `extractLink`.

**INI_FileProofs.** `ReadInv` says that after `n` lines the constructor is in the
section of the line that follows and holds exactly the items assigned in these
lines with the value of the last assignment (`ValuesKept`). Its lemmas are about
`trim` and `find` on lines of any length: what is cut off is blank, what is left
neither begins nor ends with a blank, and the first `=` and the first comment sign
are where the code looks for them. `AskInv` is the loop over `get_value`
(`SettingsAreComplete`).

**SearchProofs.** `AskInv` says that what `createResponsePost` has added up so far
lies between the sums of the index as it was when the request came in and of the
index now, over the keywords already asked for. It holds because the index only
grows (`GrowsStep`), because the join of `getUrl` leaves out no row of the third
table (`Rows`: every stored pair has its keyword and its url), and because
`getKeyword` names every word once (`KeywordsOnce`). From it follow
`RelevanceIsBounded` and `NoMatchesIsHonest`. `BestAreFirst` shows that inserting
the row of the greatest url into a ranked list leaves it ranked (`RankedStep`), and
that the first rows of a ranked list are a best choice (`PrintedIsBest`); that
finitely many urls are found is part of the invariant. The folds of the model are
recursive functions over the subsets of a finite set. `RecursionExists` proves once,
level by level, that such a function exists; sums, keywords and the sorted rows are
instances of it.

Where an argument runs over a sequence (a trail, the characters of a line, the
brackets behind a position), it is by least counterexample: the set of positions
where the claim fails is a set of numbers, a nonempty one has a least element
(`NatLessThanWellFounded` and `WFMin`), and there the claim holds after all. This
takes the place of induction, which the provers cannot instantiate.

`MutexInv` and `OnlyGrows` are not repeated in a run: the theorems
`MutualExclusion` and `IndexOnlyGrows` hold for every instance.

**Only model-checked.** All liveness properties (`CrawlSettles`,
`SoleWorkerFinishes`, `CallsEnd`, `CallsReturn`, `ParseEnds`, `EverySessionEnds`),
which TLAPS cannot reason about, and the refinement `ImplementsDB_Client`.

## 5. Plan

Done: all components of the two programs, two refinements, and eight proof
modules. Left: the step simulation of `ImplementsDB_Client` as a theorem, from
`WorkInv` with what the tables say about the rows of open blocks.

## 6. Not modelled

Console output, the wording of the HTML pages, `getSize` (a log line), the flag
`stop` (never read), `urlDecode` (its result is not used), the 200 ms and 2 s
sleeps (they change likelihoods and not what may happen), the conversion of
`server_port` (`stoi` and a cast that wraps around), TLS.

Most of the repository's lines are not its own: the OpenSSL headers
(declarations), `root_certificates.hpp` (data), and libpqxx. The programs have
about 1,700 lines, and every function of them that changes state is an action
of a module. Of libpqxx the path of `addLink` is modelled; its streams, pipelines,
cursors, large objects, notifications and string conversions are never called by
the programs, and its array parser and encoding tables have no state that a
property of this system could depend on.
