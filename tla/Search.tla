-------------------------------- MODULE Search --------------------------------
(***************************************************************************)
(* A search request of the server (HTTP_Server::createResponsePost,        *)
(* Include/HTTP_Server.h) over the index that crawlers are filling at the  *)
(* same time (DB_Client).                                                  *)
(*                                                                         *)
(* The handler asks the database once for every keyword, each time over a  *)
(* new connection, so the parts of one answer are read from different      *)
(* states of the index.  It adds up the frequencies per url, sorts the     *)
(* urls through a std::multimap and prints the first of them.              *)
(***************************************************************************)
EXTENDS DB_Client, SequencesExt

CONSTANTS
  Queries,     \* the values of the form field "search", split at '+'
  Keyword,     \* Keyword[t]: token t in lower case
  Rejected,    \* tokens with other characters than letters, or too short
  ResultSize   \* how many urls an answer lists, 10 in the code

ASSUME SearchAssumption ==
  /\ Link \subseteq Nat       \* urls, numbered in the order of std::string
  /\ Queries \subseteq Seq(DOMAIN Keyword \cup Rejected)
  /\ \A t \in DOMAIN Keyword : Keyword[t] \in Word
  /\ ResultSize \in Nat \ {0}

VARIABLES
  spc,        \* where the handler is
  query,      \* the request
  rest,       \* keywords it has still to ask for
  db_result,  \* relevance per url so far, 0 where the map has no entry
  page,       \* the kind of page answered
  table,      \* the rows of the page: url and relevance
  qtyBefore   \* history: the index when the request came in

searchVars == <<spc, query, rest, db_result, page, table, qtyBefore>>

-------------------------------------------------------------------------------
(* Pure parts *)

\* Mutant of getKeyword: repetitions are kept.
getKeywordRepeats(q) ==
  LET valid == SelectSeq(q, LAMBDA t : t \notin Rejected)
  IN  [i \in DOMAIN valid |-> Keyword[valid[i]]]

\* The tokens of the query that are words, in order, each once.
getKeyword(q) ==
  LET Add(result, t) ==
        IF t \in Rejected \/ Contains(result, Keyword[t])
          THEN result
          ELSE Append(result, Keyword[t])
  IN  FoldLeft(Add, <<>>, q)

\* The rows getUrl reads for a keyword: a join of the three tables.
getUrl(k) ==
  [l \in Link |-> IF l \in urls /\ k \in keywords THEN qty[l][k] ELSE 0]

\* Mutant of MultimapInsert: ascending order.
MultimapInsertLess(rows, row) ==
  LET behind == {i \in DOMAIN rows : rows[i].relevance > row.relevance}
  IN  InsertAt(rows, Min(behind \cup {Len(rows) + 1}), row)

\* std::multimap with std::greater: a row goes behind those of equal key.
MultimapInsert(rows, row) ==
  LET behind == {i \in DOMAIN rows : rows[i].relevance < row.relevance}
  IN  InsertAt(rows, Min(behind \cup {Len(rows) + 1}), row)

\* db_result is copied to the multimap in the order of its urls: the greatest
\* of them goes in last.
db_result_sort ==
  LET rowOf(l) == [url |-> l, relevance |-> db_result[l]]
  IN  MapThenFoldSet(LAMBDA row, rows : MultimapInsert(rows, row), <<>>, rowOf, Max,
                     {l \in Link : db_result[l] > 0})

\* Row after row, until the counter result_size is down to zero.
print_result(rows) ==
  IF Len(rows) <= ResultSize THEN rows ELSE SubSeq(rows, 1, ResultSize)

-------------------------------------------------------------------------------
(* The handler *)

SearchInit ==
  /\ spc = "idle"
  /\ query = <<>>
  /\ rest = <<>>
  /\ db_result = [l \in Link |-> 0]
  /\ page = "none"
  /\ table = <<>>
  /\ qtyBefore = qty

\* A POST to "/" with the parameter "search".  Without a keyword in it the
\* database is not asked.
Post(q) ==
  /\ spc = "idle"
  /\ query' = q
  /\ rest' = getKeyword(q)
  /\ qtyBefore' = qty
  /\ IF getKeyword(q) = <<>>
       THEN spc' = "answered" /\ page' = "bad_request"
       ELSE spc' = "asking" /\ page' = page
  /\ UNCHANGED <<db_result, table>>

\* One call of getUrl, and its rows added to db_result.
Ask ==
  /\ spc = "asking"
  /\ rest # <<>>
  /\ db_result' = [l \in Link |-> db_result[l] + getUrl(Head(rest))[l]]
  /\ rest' = Tail(rest)
  /\ UNCHANGED <<spc, query, page, table, qtyBefore>>

\* Mutant of Answer: it gives up at the first keyword without a page.
AnswerEarly ==
  /\ spc = "asking"
  /\ \A l \in Link : db_result[l] = 0
  /\ spc' = "answered"
  /\ page' = "no_matches"
  /\ UNCHANGED <<query, rest, db_result, table, qtyBefore>>

Answer ==
  /\ spc = "asking"
  /\ rest = <<>>
  /\ spc' = "answered"
  /\ IF \E l \in Link : db_result[l] > 0
       THEN page' = "results" /\ table' = print_result(db_result_sort)
       ELSE page' = "no_matches" /\ table' = table
  /\ UNCHANGED <<query, rest, db_result, qtyBefore>>

SearchNext == Ask \/ Answer \/ \E q \in Queries : Post(q)

SearchSpec ==
  /\ Init /\ SearchInit
  /\ [][\/ SearchNext /\ UNCHANGED vars
        \/ Next /\ UNCHANGED searchVars]_<<vars, searchVars>>

-------------------------------------------------------------------------------
(* Properties *)

\* The words of the request, each once whatever its case and repetitions.
QueryWords == {Keyword[t] : t \in ToSet(query) \ Rejected}

Relevance(index, l) == MapThenSumSet(LAMBDA k : index[l][k], QueryWords)

\* Although crawlers write between the calls of getUrl, the relevance of a
\* url lies between what the index held when the request came in and what it
\* holds when the answer is made; it is exact when no crawler interferes.
RelevanceBounded ==
  [][page' \in {"results", "no_matches"} /\ page = "none" =>
       \A l \in Link : db_result[l] \in Relevance(qtyBefore, l)..Relevance(qty, l)
    ]_<<vars, searchVars>>

\* The handler takes every url with any of the words ("all links with the
\* keywords", it adds up their frequencies): "no matches found" is only said of
\* words that were on no indexed page when the request came in.  That the
\* project description asks for the pages with all words is AllWordsHeld.
NoMatchesHonest ==
  page = "no_matches" => \A l \in Link : Relevance(qtyBefore, l) = 0

\* url a is ranked before url b.
Before(a, b) == db_result[a] > db_result[b] \/ (db_result[a] = db_result[b] /\ a < b)

\* The answer is a best choice of the urls the handler has found, those with
\* any of the words (see AllWordsHeld): as many rows as fit, no url twice,
\* ordered by falling relevance and then by url, and no url left out that is
\* ranked before one that is listed.
BestFirst ==
  page = "results" =>
    LET found == {l \in Link : db_result[l] > 0}
        shown == {table[i].url : i \in DOMAIN table}
    IN  /\ Len(table) = Cardinality(shown)
        /\ Len(table) = IF Cardinality(found) < ResultSize
                          THEN Cardinality(found) ELSE ResultSize
        /\ \A i \in DOMAIN table : table[i].relevance = db_result[table[i].url]
        /\ \A i, j \in DOMAIN table :
             i < j => Before(table[i].url, table[j].url)
        /\ \A s \in shown : \A l \in found \ shown : Before(s, l)

\* What the project description and the comment above the handler's loop say
\* of the answer: it lists documents in which all words of the request occur.
AllWordsHeld ==
  page = "results" =>
    \A i \in DOMAIN table : \A k \in QueryWords : qty[table[i].url][k] > 0
===============================================================================
