----------------------------- MODULE MCHTML_Parser -----------------------------
(***************************************************************************)
(* An instance of HTML_Parser for TLC: all short texts around the tags the *)
(* scanner knows, and hrefs put together from schemes, hosts and paths.    *)
(***************************************************************************)
EXTENDS HTML_Parser

Names  == {"http", "https", "s", "site", "org", "wiki", "page", "top"}
Words  == {"title", "body", "news", "b"}
Shorts == {"b"}

\* Texts of up to n tokens in which no word touches another.
Texts(n) ==
  {t \in UNION {[1..k -> {"<", ">", "/", "news", "b"}] : k \in 0..n} :
     \A i \in 1..(Len(t) - 1) : t[i] \in Words => t[i + 1] \notin Words}

\* A title that ends in a word, one that does not, an empty one with text
\* behind it, and one that is never closed.
Titles ==
  {<<"<", "title", ">", "news", "<", "/", "title", ">">>,
   <<"<", "title", ">", "news", "/", "<", "/", "title", ">">>,
   <<"<", "title", ">", "<", "/", "title", ">", "news", "/">>,
   <<"<", "title", ">", "news">>}

Body == <<"<", "body", ">">>

PageTexts ==
  {Body \o t : t \in Texts(4)} \cup {s \o Body \o t : s \in Titles, t \in Texts(1)}
    \cup Titles \cup Texts(1)

\* A scheme is followed by a host.
Parts ==
  {p \in [scheme : {"", "http", "https"},
          host : {<<>>, <<"site">>, <<"site", ".", "org">>},
          path : {<<>>, <<"/">>, <<"/", "wiki">>, <<"/", "wiki", "/", "page">>,
                  <<"/", "wiki", "#", "top">>, <<"wiki", ".", "page">>,
                  <<"wiki", "/", "page">>, <<".", ".", "/", "page">>}] :
     /\ p.scheme # "" => p.host # <<>>
     /\ p.host # <<>> => p.path = <<>> \/ p.path[1] = "/"}

Hrefs == {Written(p) : p \in Parts}

Wiki == <<"https", ":", "/", "/", "site", ".", "org", "/", "wiki">>
Relative == <<"/", "wiki">>

HrefLists ==
  {<<h>> : h \in Hrefs}
    \cup {<<h, Wiki>> : h \in Hrefs}
    \cup {<<Relative, <<"#", "top">>, h, Relative>> : h \in {Wiki, <<>>, <<"#">>}}

Pages ==
  {[text |-> t, hrefs |-> <<Relative>>] : t \in PageTexts}
    \cup {[text |-> Body \o <<"news", "/">>, hrefs |-> h] : h \in HrefLists}

OnePage == [text |-> Body \o <<"news", "/">>, hrefs |-> <<Relative>>]

Answer(s, f, l, p) == [status |-> s, field |-> f, location |-> l, page |-> p]

\* Pages, empty and binary bodies, redirects that are followed, and redirects
\* that are not for their status or their spelling, with a body of their own.
Answers ==
  {Answer(200, "none", <<>>, p) : p \in Pages \cup {NoPage, Binary}}
    \cup {Answer(s, f, l, OnePage) :
            s \in {301, 302}, f \in {"location", "Location"}, l \in {Wiki, Relative}}

\* A proper url, a host name without a dot, a start page without a protocol,
\* which is refused, and one without a slash behind the host, which is read
\* as the host "s:" of protocol http.
Urls ==
  {Wiki,
   <<"https", ":", "/", "/", "site", "/", "wiki", "/", "page">>,
   <<"site", ".", "org", "/", "wiki">>,
   <<"https", ":", "/", "/", "site", ".", "org">>}
===============================================================================
