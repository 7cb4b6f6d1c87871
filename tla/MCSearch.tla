------------------------------- MODULE MCSearch -------------------------------
(***************************************************************************)
(* An instance of Search for TLC.                                          *)
(***************************************************************************)
EXTENDS Search

\* Pages that hold both words or only the second.
BothOrOne == {<<2, 1>>, <<0, 2>>}

\* Pages that hold the second word only.
OnlySecond == {<<0, 2>>}

\* Two spellings of the first word, one of the second, one token that is no
\* word: the requests repeat words, mix case and hold nothing to look for.
Spelling == "search" :> 1 @@ "SEARCH" :> 1 @@ "engine" :> 2

Requests == {<<"search">>, <<"engine", "Search1", "SEARCH", "search">>, <<"a">>}
===============================================================================
