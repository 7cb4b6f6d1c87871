------------------------------ MODULE MCINI_File ------------------------------
(***************************************************************************)
(* An instance of INI_File for TLC: every line of up to five characters as *)
(* the only item of its section, and small files of ordinary lines.        *)
(***************************************************************************)
EXTENDS INI_File

\* Two items of one section, asked for one after the other.
Wishes == <<<<"s", ".", "a">>, <<"s", ".", "b">>>>

Characters == {" ", ";", "[", "]", "=", ".", "a", "b", "s", "1", "2"}

Header == <<"[", "s", "]">>

Lines(n) == UNION {[1..k -> {" ", ";", "[", "]", "=", "a"}] : k \in 0..n}

\* Assignments with values of up to four characters.
Assignments ==
  {<<"a", "=">> \o v : v \in UNION {[1..k -> {" ", ";", "1", "2"}] : k \in 0..4}}

\* What may stand before or behind a line: nothing, a header with or without
\* blanks, a second section, a broken header, an assignment, a comment.
Ordinary ==
  {<<>>, Header, <<" ", "[", "s", "]", " ">>, <<"[", "]">>,
   <<"[", "s", "]", " ", ";">>, <<"a", "=", "1">>, <<"b", " ", "=", " ", "2">>,
   <<"a", "=", "2", " ", ";">>, <<"a">>, <<"=", "1">>, <<";", "a", "=", "2">>}

AllFiles ==
  {<<Header, l>> : l \in Lines(4)}
    \cup {<<Header, l, <<"b", "=", "1">>>> : l \in Assignments}
    \cup {<<l1, l2, l3, l4>> : l1, l2, l3, l4 \in Ordinary}
===============================================================================
