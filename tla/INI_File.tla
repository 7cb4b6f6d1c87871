------------------------------- MODULE INI_File -------------------------------
(***************************************************************************)
(* The settings (Include/INI_File.h): the constructor of INI_file reads    *)
(* the file line by line, and both programs then ask get_value for their   *)
(* settings one after the other.  The crawler reads all of them before it  *)
(* does anything else.  The server connects to the database as soon as it  *)
(* has the settings for that, and reads server_port afterwards: it listens *)
(* with all its settings, but is no stranger to the database before.       *)
(*                                                                         *)
(* A line is a sequence of characters.  Only the ones the parser looks for *)
(* matter: the blank, ";", "[", "]", "=" and, in the argument of           *)
(* get_value, ".".                                                         *)
(*                                                                         *)
(* Every error is thrown as a char*.  Neither program catches that type:   *)
(* it ends in std::terminate, without the message the text was made for.   *)
(***************************************************************************)
EXTENDS Integers, Sequences

CONSTANTS
  Char,    \* characters
  Files,   \* the files the programs may find, sequences of lines
  Wanted   \* the arguments of get_value, in the order of the calls

ASSUME FileAssumption ==
  /\ Files \subseteq Seq(Seq(Char))
  /\ Wanted \in Seq(Seq(Char))

VARIABLES
  file,        \* the contents of config.ini
  at,          \* where the program is
  strNum,      \* lines read so far
  sectionName, \* the section the next item belongs to
  sections,    \* the keys of _values
  values,      \* _values[section][item], as a function of the pair
  settings     \* what get_value has returned so far

vars == <<file, at, strNum, sectionName, sections, values, settings>>

-------------------------------------------------------------------------------
(* Strings *)

\* Two of the characters the parser looks for.
Space == " "
Semicolon == ";"

Least(S) == CHOOSE i \in S : \A j \in S : i <= j
Greatest(S) == CHOOSE i \in S : \A j \in S : i >= j

trim(s) ==
  LET kept == {i \in DOMAIN s : s[i] # Space}
  IN  IF kept = {} THEN <<>> ELSE SubSeq(s, Least(kept), Greatest(kept))

\* The first character, nothing of an empty string.
Start(s) == IF s = <<>> THEN <<>> ELSE <<s[1]>>

\* find(): the first position of character c, 0 if there is none.
Find(s, c) ==
  LET found == {i \in DOMAIN s : s[i] = c}
  IN  IF found = {} THEN 0 ELSE Least(found)

\* What stands before and behind the first c; all and nothing without one.
Before(s, c) == IF Find(s, c) = 0 THEN s ELSE SubSeq(s, 1, Find(s, c) - 1)
After(s, c) == IF Find(s, c) = 0 THEN <<>> ELSE SubSeq(s, Find(s, c) + 1, Len(s))

\* Mutant of WithoutComment: the comment is cut at its last sign.
WithoutLastComment(value) ==
  LET signs == {i \in DOMAIN value : value[i] = Semicolon}
  IN  IF signs = {} THEN value
      ELSE IF signs = {1} THEN value
      ELSE trim(SubSeq(value, 1, Greatest(signs) - 2))

\* value.substr(0, flag - 1): the comment and the character before it.  With
\* the comment at the very start, flag - 1 wraps around and nothing is cut.
WithoutComment(value) ==
  CASE Find(value, Semicolon) = 0 -> value
    [] Find(value, Semicolon) = 1 -> value
    [] Find(value, Semicolon) > 1 -> trim(SubSeq(value, 1, Find(value, Semicolon) - 2))

-------------------------------------------------------------------------------
(* The constructor *)

Init ==
  /\ file \in Files
  /\ at = "open"
  /\ strNum = 0
  /\ sectionName = <<>>
  /\ sections = {}
  /\ values = <<>>
  /\ settings = <<>>

Open ==
  /\ at = "open"
  /\ at' = "lines"
  /\ UNCHANGED <<file, strNum, sectionName, sections, values, settings>>

\* The file cannot be opened.
OpenThrows ==
  /\ at = "open"
  /\ at' = "thrown"
  /\ UNCHANGED <<file, strNum, sectionName, sections, values, settings>>

HasLine == at = "lines" /\ strNum < Len(file)

str == trim(file[strNum + 1])

SkipLine ==
  /\ HasLine
  /\ Start(str) \in {<<>>, <<Semicolon>>}
  /\ strNum' = strNum + 1
  /\ UNCHANGED <<file, at, sectionName, sections, values, settings>>

\* "Section error": nothing may follow the closing bracket, no comment either.
SectionLine ==
  /\ HasLine
  /\ Start(str) = <<"[">>
  /\ strNum' = strNum + 1
  /\ IF str[Len(str)] = "]"
       THEN /\ sectionName' = SubSeq(str, 2, Len(str) - 1)
            /\ sections' = sections \cup {sectionName'}
            /\ at' = at
       ELSE at' = "thrown" /\ UNCHANGED <<sectionName, sections>>
  /\ UNCHANGED <<file, values, settings>>

Stored(key, value) ==
  [k \in DOMAIN values \cup {key} |-> IF k = key THEN value ELSE values[k]]

\* "Item error": no name before the equals sign.  A line without that sign
\* gives its item an empty value.
ItemLine ==
  /\ HasLine
  /\ Start(str) \notin {<<>>, <<Semicolon>>, <<"[">>}
  /\ strNum' = strNum + 1
  /\ LET item == trim(Before(str, "="))
     IN  IF item = <<>>
           THEN at' = "thrown" /\ UNCHANGED <<sections, values>>
           ELSE /\ values' = Stored(<<sectionName, item>>,
                                    WithoutComment(trim(After(str, "="))))
                /\ sections' = sections \cup {sectionName}
                /\ at' = at
  /\ UNCHANGED <<file, sectionName, settings>>

EndOfFile ==
  /\ at = "lines"
  /\ ~HasLine
  /\ at' = "ask"
  /\ UNCHANGED <<file, strNum, sectionName, sections, values, settings>>

-------------------------------------------------------------------------------
(* get_value *)

HasWish == at = "ask" /\ Len(settings) < Len(Wanted)

wish == Wanted[Len(settings) + 1]

KeyOf(sectionAndItem) == <<Before(sectionAndItem, "."), After(sectionAndItem, ".")>>

\* get_value throws without a dot, a section, an item in it or a value.
HasValue(sectionAndItem) ==
  /\ Find(sectionAndItem, ".") > 0
  /\ Before(sectionAndItem, ".") \in sections
  /\ KeyOf(sectionAndItem) \in DOMAIN values
  /\ values[KeyOf(sectionAndItem)] # <<>>

\* The stream operator >> takes the first word of the value.
GetValue ==
  /\ HasWish
  /\ HasValue(wish)
  /\ settings' = Append(settings, Before(values[KeyOf(wish)], Space))
  /\ UNCHANGED <<file, at, strNum, sectionName, sections, values>>

\* Mutant of GetValueThrows: a missing setting is an empty string.
GetValueDefaults ==
  /\ HasWish
  /\ ~HasValue(wish)
  /\ settings' = Append(settings, <<>>)
  /\ UNCHANGED <<file, at, strNum, sectionName, sections, values>>

GetValueThrows ==
  /\ HasWish
  /\ ~HasValue(wish)
  /\ at' = "thrown"
  /\ UNCHANGED <<file, strNum, sectionName, sections, values, settings>>

\* The program has its settings and begins its work: the crawler connects to
\* the database, the server, which has done that, listens on its port.
Begin ==
  /\ at = "ask"
  /\ ~HasWish
  /\ at' = "running"
  /\ UNCHANGED <<file, strNum, sectionName, sections, values, settings>>

INI_file == OpenThrows \/ Open \/ SkipLine \/ SectionLine \/ ItemLine \/ EndOfFile

get_value == GetValue \/ GetValueThrows

Next == INI_file \/ get_value \/ Begin

Spec == Init /\ [][Next]_vars

-------------------------------------------------------------------------------
(* What the file says *)

Line(i) == trim(file[i])

IsHeader(i) == Start(Line(i)) = <<"[">>

IsAssignment(i) == Start(Line(i)) \notin {<<>>, <<Semicolon>>, <<"[">>}

\* The section line i stands in, by the last header above it.
SectionAt(i) ==
  LET headers == {j \in 1..(i - 1) : IsHeader(j)}
      header  == Line(Greatest(headers))
  IN  IF headers = {} THEN <<>> ELSE SubSeq(header, 2, Len(header) - 1)

KeyAt(i) == <<SectionAt(i), trim(Before(Line(i), "="))>>

\* The value written on line i, without its comment.
Meant(i) == trim(Before(After(Line(i), "="), Semicolon))

\* The comment on line i, if there is one, has a value and a blank before it.
CommentApart(i) ==
  LET v    == trim(After(Line(i), "="))
      sign == Find(v, Semicolon)
  IN  sign = 0 \/ (sign > 1 /\ v[sign - 1] = Space)

Assigned(key, n) == {i \in 1..n : IsAssignment(i) /\ KeyAt(i) = key}

-------------------------------------------------------------------------------
(* Safety *)

\* While no line was refused, exactly the items assigned so far are stored,
\* each in the section it stands in and with its last value.  A comment sign
\* right behind that value or in its place damages that value and no more: one
\* character is lost, or the comment is taken for the value.
LastValueKept ==
  at # "thrown" =>
    /\ DOMAIN values = {KeyAt(i) : i \in {j \in 1..strNum : IsAssignment(j)}}
    /\ \A k \in DOMAIN values :
         LET i == Greatest(Assigned(k, strNum))
         IN  \/ CommentApart(i) /\ values[k] = Meant(i)
             \/ /\ ~CommentApart(i) /\ Meant(i) = <<>>
                /\ values[k] = trim(After(Line(i), "="))
             \/ /\ ~CommentApart(i) /\ Meant(i) # <<>>
                /\ values[k] = trim(SubSeq(Meant(i), 1, Len(Meant(i)) - 1))

\* A crawler that connects and a server that listens have every setting they
\* asked for: the first word of the value the file assigns last.
SettingsComplete ==
  at = "running" => \A n \in DOMAIN Wanted :
    LET lines == Assigned(KeyOf(Wanted[n]), Len(file))
    IN  /\ lines # {}
        /\ settings[n] # <<>>
        /\ CommentApart(Greatest(lines)) =>
             settings[n] = Before(Meant(Greatest(lines)), Space)
===============================================================================
