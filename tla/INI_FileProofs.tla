----------------------------- MODULE INI_FileProofs -----------------------------
(***************************************************************************)
(* Proofs about INI_File, for files, lines and values of any length.       *)
(***************************************************************************)
EXTENDS INI_File, SequenceTheorems, WellFoundedInduction, TLAPS

-------------------------------------------------------------------------------
(* Strings *)

LEMMA LeastIs ==
  ASSUME NEW T, T \subseteq Nat, T # {}
  PROVE  Least(T) \in T /\ \A m \in T : Least(T) <= m
<1>1. PICK n \in T : \A m \in T : ~(<<m, n>> \in OpToRel(<, Nat))
  BY NatLessThanWellFounded, WFMin
<1>2. \A m \in T : ~(m < n)
  BY <1>1 DEF OpToRel
<1>3. \A m \in T : n <= m
  BY <1>2
<1> QED BY <1>3 DEF Least

\* The greatest of some numbers up to n is the least distance to n.
LEMMA GreatestIs ==
  ASSUME NEW n \in Nat, NEW T, T \subseteq 1..n, T # {}
  PROVE  Greatest(T) \in T /\ \A m \in T : Greatest(T) >= m
<1> DEFINE D == {d \in 0..n : n - d \in T}
<1>1. D \subseteq Nat /\ D # {}
  <2>1. PICK m \in T : TRUE
    OBVIOUS
  <2>2. n - m \in D
    BY <2>1, n - (n - m) = m
  <2>3. D \subseteq Nat
    OBVIOUS
  <2> QED BY <2>2, <2>3
<1>2. Least(D) \in D /\ \A d \in D : Least(D) <= d
  BY <1>1, LeastIs
<1>3. PICK d \in D : \A e \in D : d <= e
  BY <1>2
<1>4. ASSUME NEW m \in T PROVE n - d >= m
  <2>1. m \in 1..n /\ n - m \in 0..n /\ n - (n - m) = m
    OBVIOUS
  <2>2. n - m \in D
    BY <2>1
  <2>3. d <= n - m /\ d \in Nat
    BY <1>3, <2>2
  <2> QED BY <2>1, <2>3
<1>5. n - d \in T
  OBVIOUS
<1> QED BY <1>4, <1>5 DEF Greatest

\* The greatest of the numbers up to n is n, if it is one of them.
LEMMA GreatestLast ==
  ASSUME NEW n \in Nat, NEW T, T \subseteq 1..n, n \in T
  PROVE  Greatest(T) = n
<1>1. Greatest(T) \in T /\ Greatest(T) >= n
  BY GreatestIs
<1>2. Greatest(T) \in 1..n
  BY <1>1
<1> QED BY <1>1, <1>2

Text == Seq(Char)

LEMMA SubText ==
  ASSUME NEW s \in Text, NEW m \in 1..(Len(s) + 1), NEW n \in (m - 1)..Len(s)
  PROVE  /\ SubSeq(s, m, n) \in Text
         /\ Len(SubSeq(s, m, n)) = n - m + 1
         /\ \A i \in 1..(n - m + 1) : SubSeq(s, m, n)[i] = s[m + i - 1]
<1>1. Len(s) \in Nat
  BY DEF Text
<1>2. m \in Int /\ n \in Int /\ (m <= n => n - m + 1 = n - m + 1) /\ (~(m <= n) => n - m + 1 = 0)
  BY <1>1
<1>3. \A i \in m..n : s[i] \in Char
  BY <1>1, ElementOfSeq DEF Text
<1>4. /\ SubSeq(s, m, n) \in Seq(Char)
      /\ Len(SubSeq(s, m, n)) = IF m <= n THEN n - m + 1 ELSE 0
      /\ \A i \in 1..(n - m + 1) : SubSeq(s, m, n)[i] = s[m + i - 1]
  BY <1>2, <1>3, SubSeqProperties
<1> HIDE DEF Text
<1>5. Len(SubSeq(s, m, n)) = n - m + 1
  BY <1>2, <1>4
<1> QED BY <1>4, <1>5 DEF Text

\* The first and the last character that trim keeps.
Kept(s, lo, hi) ==
  /\ lo \in 1..Len(s) /\ hi \in 1..Len(s) /\ lo <= hi
  /\ s[lo] # Space /\ s[hi] # Space
  /\ \A i \in 1..Len(s) : i < lo \/ i > hi => s[i] = Space

Blank(s) == \A i \in 1..Len(s) : s[i] = Space

LEMMA TrimBlank ==
  ASSUME NEW s \in Text, Blank(s)
  PROVE  trim(s) = <<>>
<1>1. DOMAIN s = 1..Len(s)
  BY DEF Text
<1> QED BY <1>1 DEF trim, Blank

LEMMA TrimKept ==
  ASSUME NEW s \in Text, NEW lo, NEW hi, Kept(s, lo, hi)
  PROVE  trim(s) = SubSeq(s, lo, hi)
<1> DEFINE K == {i \in DOMAIN s : s[i] # Space}
<1>1. DOMAIN s = 1..Len(s) /\ Len(s) \in Nat
  BY DEF Text
<1>2. K \subseteq 1..Len(s) /\ K \subseteq Nat /\ lo \in K /\ hi \in K
  BY <1>1 DEF Kept
<1>3. /\ Least(K) \in K /\ \A m \in K : Least(K) <= m
      /\ Greatest(K) \in K /\ \A m \in K : Greatest(K) >= m
  BY <1>1, <1>2, LeastIs, GreatestIs
<1>4. \A m \in K : m \in Nat /\ m >= lo /\ m <= hi
  BY <1>1 DEF Kept
<1> HIDE DEF K
<1>5. Least(K) = lo /\ Greatest(K) = hi
  <2>1. lo \in Nat /\ hi \in Nat
    BY <1>2
  <2>2. Least(K) \in Nat /\ Least(K) >= lo /\ Least(K) <= lo
    BY <1>2, <1>3, <1>4
  <2>3. Greatest(K) \in Nat /\ Greatest(K) <= hi /\ Greatest(K) >= hi
    BY <1>2, <1>3, <1>4
  <2> QED BY <2>1, <2>2, <2>3
<1> QED BY <1>2, <1>5 DEF trim, K

LEMMA TrimCases ==
  ASSUME NEW s \in Text
  PROVE  \/ Blank(s) /\ trim(s) = <<>>
         \/ \E lo, hi \in 1..Len(s) : Kept(s, lo, hi) /\ trim(s) = SubSeq(s, lo, hi)
<1> DEFINE K == {i \in DOMAIN s : s[i] # Space}
<1>1. DOMAIN s = 1..Len(s) /\ Len(s) \in Nat
  BY DEF Text
<1>2. CASE K = {}
  <2>1. Blank(s)
    BY <1>1, <1>2 DEF Blank
  <2> QED BY <2>1, TrimBlank
<1>3. CASE K # {}
  <2>1. K \subseteq 1..Len(s) /\ K \subseteq Nat
    BY <1>1
  <2>2. PICK lo \in K : \A m \in K : lo <= m
    BY <1>3, <2>1, LeastIs
  <2>3. PICK hi \in K : \A m \in K : hi >= m
    BY <1>1, <1>3, <2>1, GreatestIs
  <2>4. Kept(s, lo, hi)
    BY <1>1, <2>1, <2>2, <2>3 DEF Kept
  <2> QED BY <1>1, <2>4, TrimKept DEF Kept
<1> QED BY <1>2, <1>3

\* What trim returns is a string that neither begins nor ends with a blank.
LEMMA Trimmed ==
  ASSUME NEW s \in Text
  PROVE  /\ trim(s) \in Text
         /\ trim(s) # <<>> => trim(s)[1] # Space
<1>1. CASE trim(s) = <<>>
  BY <1>1, EmptySeq DEF Text
<1>2. ASSUME NEW lo \in 1..Len(s), NEW hi \in 1..Len(s), Kept(s, lo, hi),
             trim(s) = SubSeq(s, lo, hi)
      PROVE  trim(s) \in Text /\ trim(s)[1] # Space
  <2>1. Len(s) \in Nat
    BY DEF Text
  <2>2. lo \in 1..(Len(s) + 1) /\ hi \in (lo - 1)..Len(s) /\ 1 \in 1..(hi - lo + 1)
        /\ lo + 1 - 1 = lo
    BY <1>2, <2>1 DEF Kept
  <2>3. trim(s) \in Text /\ trim(s)[1] = s[lo]
    BY <1>2, <2>2, SubText
  <2> QED BY <1>2, <2>3 DEF Kept
<1> QED BY <1>1, <1>2, TrimCases

\* find() returns the first position, or 0.
LEMMA FindIs ==
  ASSUME NEW s \in Text, NEW c
  PROVE  /\ Find(s, c) \in 0..Len(s)
         /\ Find(s, c) = 0 => \A i \in 1..Len(s) : s[i] # c
         /\ Find(s, c) # 0 => s[Find(s, c)] = c /\ \A i \in 1..(Find(s, c) - 1) : s[i] # c
<1> DEFINE F == {i \in DOMAIN s : s[i] = c}
<1>1. DOMAIN s = 1..Len(s) /\ Len(s) \in Nat
  BY DEF Text
<1>2. CASE F = {}
  BY <1>1, <1>2 DEF Find
<1>3. CASE F # {}
  <2>1. F \subseteq Nat
    BY <1>1
  <2>2. Least(F) \in F /\ \A m \in F : Least(F) <= m
    BY <1>3, <2>1, LeastIs
  <2>3. Find(s, c) = Least(F)
    BY <1>3 DEF Find
  <2>4. PICK n \in F : n = Find(s, c) /\ \A m \in F : n <= m
    BY <2>2, <2>3
  <2>5. n \in 1..Len(s) /\ s[n] = c
    BY <1>1
  <2>6. ASSUME NEW i \in 1..(n - 1) PROVE s[i] # c
    <3>1. i \in 1..Len(s) /\ ~(n <= i)
      BY <1>1, <2>5
    <3> QED BY <1>1, <2>4, <3>1
  <2> QED BY <1>1, <2>4, <2>5, <2>6
<1> QED BY <1>2, <1>3

LEMMA FindUnique ==
  ASSUME NEW s \in Text, NEW c, NEW n \in 1..Len(s), s[n] = c,
         \A i \in 1..(n - 1) : s[i] # c
  PROVE  Find(s, c) = n
<1> DEFINE f == Find(s, c)
<1>1. /\ f \in 0..Len(s) /\ Len(s) \in Nat
      /\ f = 0 => \A i \in 1..Len(s) : s[i] # c
      /\ f # 0 => s[f] = c /\ \A i \in 1..(f - 1) : s[i] # c
  BY FindIs DEF Text
<1> HIDE DEF f
<1>2. f # 0
  BY <1>1
<1>3. ~(f < n)
  <2>1. f < n => f \in 1..(n - 1)
    BY <1>1, <1>2
  <2> QED BY <1>1, <1>2, <2>1
<1>4. ~(n < f)
  <2>1. n < f => n \in 1..(f - 1)
    BY <1>1, <1>2
  <2> QED BY <1>1, <1>2, <2>1
<1>5. f = n
  BY <1>1, <1>3, <1>4
<1> QED BY <1>5 DEF f

LEMMA BeforeAfter ==
  ASSUME NEW s \in Text, NEW c
  PROVE  Before(s, c) \in Text /\ After(s, c) \in Text
<1> DEFINE f == Find(s, c)
<1>1. f \in 0..Len(s) /\ Len(s) \in Nat
  BY FindIs DEF Text
<1>2. CASE f = 0
  BY <1>2, EmptySeq DEF Before, After, Text
<1>3. CASE f # 0
  <2>1. /\ 1 \in 1..(Len(s) + 1) /\ f - 1 \in (1 - 1)..Len(s)
        /\ f + 1 \in 1..(Len(s) + 1) /\ Len(s) \in (f + 1 - 1)..Len(s)
    BY <1>1, <1>3
  <2>2. SubSeq(s, 1, f - 1) \in Text /\ SubSeq(s, f + 1, Len(s)) \in Text
    BY <2>1, SubText
  <2> QED BY <1>3, <2>2 DEF Before, After
<1> QED BY <1>2, <1>3


-------------------------------------------------------------------------------
(* The value of a line *)

LEMMA OtherCharacter == Space # Semicolon
BY Zenon DEF Space, Semicolon

\* The constructor's substr: in one case at a time.
LEMMA WithoutCommentIs ==
  ASSUME NEW v
  PROVE  /\ Find(v, Semicolon) = 0 => WithoutComment(v) = v
         /\ Find(v, Semicolon) = 1 => WithoutComment(v) = v
<1>1. ASSUME Find(v, Semicolon) = 0 PROVE WithoutComment(v) = v
  BY <1>1, 0 # 1, ~(0 > 1), Zenon DEF WithoutComment
<1>2. ASSUME Find(v, Semicolon) = 1 PROVE WithoutComment(v) = v
  BY <1>2, 1 # 0, ~(1 > 1), Zenon DEF WithoutComment
<1> QED BY <1>1, <1>2

LEMMA WithoutCommentCuts ==
  ASSUME NEW v, NEW f \in Nat, f > 1, Find(v, Semicolon) = f
  PROVE  WithoutComment(v) = trim(SubSeq(v, 1, f - 2))
<1>1. f # 0 /\ f # 1
  OBVIOUS
<1> QED BY <1>1, Zenon DEF WithoutComment

\* What the text a behind the equals sign means, and whether its comment is
\* set apart.
Means(a) == trim(Before(a, Semicolon))

Apart(v) ==
  Find(v, Semicolon) = 0
    \/ (Find(v, Semicolon) > 1 /\ v[Find(v, Semicolon) - 1] = Space)

\* Without a comment sign nothing is cut.
LEMMA ValueWithoutSign ==
  ASSUME NEW a \in Text, Find(trim(a), Semicolon) = 0
  PROVE  WithoutComment(trim(a)) = Means(a)
<1>1. Find(a, Semicolon) = 0
  <2>1. CASE Blank(a)
    <3>1. /\ Find(a, Semicolon) # 0 => a[Find(a, Semicolon)] = Semicolon
          /\ Find(a, Semicolon) \in 0..Len(a) /\ Len(a) \in Nat
      BY FindIs DEF Text
    <3> QED BY <2>1, <3>1, OtherCharacter DEF Blank
  <2>2. ASSUME NEW lo \in 1..Len(a), NEW hi \in 1..Len(a), Kept(a, lo, hi),
               trim(a) = SubSeq(a, lo, hi)
        PROVE  Find(a, Semicolon) = 0
    <3> DEFINE v == SubSeq(a, lo, hi)
               p == Find(a, Semicolon)
    <3>1. lo \in 1..(Len(a) + 1) /\ hi \in (lo - 1)..Len(a) /\ Len(a) \in Nat
      BY <2>2 DEF Kept, Text
    <3>2. /\ v \in Text /\ Len(v) = hi - lo + 1
          /\ \A i \in 1..(hi - lo + 1) : v[i] = a[lo + i - 1]
      BY <3>1, SubText
    <3>3. Find(v, Semicolon) = 0
      BY <2>2
    <3> HIDE DEF v
    <3>4. \A i \in 1..Len(v) : v[i] # Semicolon
      BY <3>2, <3>3, FindIs
    <3>5. p \in 0..Len(a) /\ (p # 0 => a[p] = Semicolon)
      BY FindIs
    <3> HIDE DEF p
    <3>6. ASSUME p # 0 PROVE FALSE
      <4>1. p \in 1..Len(a) /\ a[p] = Semicolon /\ a[p] # Space
        BY <3>1, <3>5, <3>6, OtherCharacter
      <4>2. p >= lo /\ p <= hi
        BY <2>2, <3>1, <4>1 DEF Kept
      <4>3. p - lo + 1 \in 1..(hi - lo + 1) /\ lo + (p - lo + 1) - 1 = p
        BY <3>1, <4>1, <4>2
      <4>4. v[p - lo + 1] = Semicolon
        BY <3>2, <4>1, <4>3
      <4> QED BY <3>2, <3>4, <4>3, <4>4
    <3> QED BY <3>6 DEF p
  <2> QED BY <2>1, <2>2, TrimCases
<1> QED BY <1>1, WithoutCommentIs DEF Means, Before

\* With the sign at the start the line means nothing, and all of it is kept.
LEMMA ValueIsComment ==
  ASSUME NEW a \in Text, Find(trim(a), Semicolon) = 1
  PROVE  Means(a) = <<>> /\ WithoutComment(trim(a)) = trim(a)
<1> DEFINE v == trim(a)
<1>1. v \in Text
  BY Trimmed
<1>2. Len(v) > 0
  BY <1>1, FindIs
<1>3. PICK lo, hi \in 1..Len(a) : Kept(a, lo, hi) /\ v = SubSeq(a, lo, hi)
  BY <1>2, TrimCases
<1>4. lo \in 1..(Len(a) + 1) /\ hi \in (lo - 1)..Len(a) /\ Len(a) \in Nat
      /\ 1 \in 1..(hi - lo + 1) /\ lo + 1 - 1 = lo
  BY <1>3 DEF Kept, Text
<1>5. v[1] = Semicolon
  BY <1>1, FindIs
<1>6. v[1] = a[lo]
  BY <1>3, <1>4, SubText
<1>7. \A i \in 1..(lo - 1) : a[i] = Space
  BY <1>3, <1>4 DEF Kept
<1>8. Find(a, Semicolon) = lo
  BY <1>5, <1>6, <1>7, OtherCharacter, FindUnique
<1>9. Before(a, Semicolon) = SubSeq(a, 1, lo - 1)
  BY <1>4, <1>8 DEF Before
<1> DEFINE b == SubSeq(a, 1, lo - 1)
<1>10. 1 \in 1..(Len(a) + 1) /\ lo - 1 \in (1 - 1)..Len(a)
  BY <1>4
<1>11. /\ b \in Text /\ Len(b) = (lo - 1) - 1 + 1
       /\ \A i \in 1..((lo - 1) - 1 + 1) : b[i] = a[1 + i - 1]
  BY <1>10, SubText
<1> HIDE DEF b
<1>12. Blank(b)
  BY <1>4, <1>7, <1>11 DEF Blank
<1> QED BY <1>9, <1>11, <1>12, TrimBlank, WithoutCommentIs DEF Means, b


\* Where the pieces of a text are whose comment has something before it: lo and
\* hi are the ends of the trimmed text v, the sign is at p in a and at p - lo + 1
\* in v, and b is what stands before it.
Pieces(a, v, b, lo, hi, p) ==
  /\ v \in Text /\ b \in Text
  /\ Len(a) \in Nat /\ lo \in 1..Len(a) /\ hi \in 1..Len(a) /\ p \in 1..Len(a)
  /\ lo < p /\ p <= hi
  /\ Len(v) = hi - lo + 1 /\ \A i \in 1..Len(v) : v[i] = a[lo + i - 1]
  /\ Len(b) = p - 1 /\ \A i \in 1..Len(b) : b[i] = a[i]
  /\ a[lo] # Space /\ \A i \in 1..(lo - 1) : a[i] = Space

LEMMA PiecesOf ==
  ASSUME NEW a \in Text, Find(trim(a), Semicolon) > 1
  PROVE  \E lo, hi, p \in 1..Len(a) :
           /\ Pieces(a, trim(a), Before(a, Semicolon), lo, hi, p)
           /\ Find(trim(a), Semicolon) = p - lo + 1
<1> DEFINE v == trim(a)
           f == Find(v, Semicolon)
<1>1. v \in Text
  BY Trimmed
<1>2. f \in 1..Len(v) /\ Len(v) \in Nat /\ f > 1 /\ v[f] = Semicolon
      /\ \A i \in 1..(f - 1) : v[i] # Semicolon
  <2>1. Len(v) \in Nat
    BY <1>1 DEF Text
  <2>2. /\ f \in 0..Len(v)
        /\ f # 0 => v[f] = Semicolon /\ \A i \in 1..(f - 1) : v[i] # Semicolon
    BY <1>1, FindIs
  <2> QED BY <2>1, <2>2
<1>3. PICK lo, hi \in 1..Len(a) : Kept(a, lo, hi) /\ v = SubSeq(a, lo, hi)
  BY <1>2, TrimCases
<1>4. lo \in 1..(Len(a) + 1) /\ hi \in (lo - 1)..Len(a) /\ Len(a) \in Nat
  BY <1>3 DEF Kept, Text
<1>5. Len(v) = hi - lo + 1 /\ \A i \in 1..(hi - lo + 1) : v[i] = a[lo + i - 1]
  BY <1>3, <1>4, SubText
<1> HIDE DEF f, v
<1> DEFINE p == lo + f - 1
<1>6. p \in 1..Len(a) /\ lo < p /\ p <= hi /\ f = p - lo + 1
  BY <1>2, <1>4, <1>5
<1>7. a[p] = Semicolon
  BY <1>2, <1>5
<1>8. \A i \in 1..(lo - 1) : a[i] = Space
  BY <1>3, <1>4 DEF Kept
<1> HIDE DEF p
<1>9. ASSUME NEW i \in 1..(p - 1) PROVE a[i] # Semicolon
  <2>1. CASE i < lo
    <3>1. i \in 1..(lo - 1)
      BY <1>4, <1>6, <2>1
    <3> QED BY <1>8, <3>1, OtherCharacter
  <2>2. CASE i >= lo
    <3>1. i - lo + 1 \in 1..(f - 1) /\ i - lo + 1 \in 1..(hi - lo + 1)
          /\ lo + (i - lo + 1) - 1 = i
      BY <1>4, <1>6, <2>2
    <3>2. v[i - lo + 1] = a[i]
      BY <1>5, <3>1
    <3> QED BY <1>2, <3>1, <3>2
  <2> QED BY <1>4, <1>6, <2>1, <2>2
<1>10. Find(a, Semicolon) = p
  BY <1>6, <1>7, <1>9, FindUnique
<1> DEFINE b == SubSeq(a, 1, p - 1)
<1>11. Before(a, Semicolon) = b
  BY <1>6, <1>10 DEF Before
<1>12. 1 \in 1..(Len(a) + 1) /\ p - 1 \in (1 - 1)..Len(a)
  BY <1>4, <1>6
<1>13. /\ b \in Text /\ Len(b) = (p - 1) - 1 + 1
       /\ \A i \in 1..((p - 1) - 1 + 1) : b[i] = a[1 + i - 1]
  BY <1>12, SubText
<1> HIDE DEF b
<1>14. Len(b) = p - 1 /\ \A i \in 1..Len(b) : b[i] = a[i]
  BY <1>4, <1>6, <1>13
<1>15. a[lo] # Space
  BY <1>3 DEF Kept
<1>16. Pieces(a, v, b, lo, hi, p)
  BY <1>1, <1>4, <1>5, <1>6, <1>8, <1>13, <1>14, <1>15 DEF Pieces
<1> QED BY <1>6, <1>11, <1>16 DEF v, f

\* What trim keeps of b begins where v begins.
LEMMA PiecesTrim ==
  ASSUME NEW a \in Text, NEW v, NEW b, NEW lo, NEW hi, NEW p,
         Pieces(a, v, b, lo, hi, p)
  PROVE  \E top \in lo..(p - 1) : Kept(b, lo, top) /\ trim(b) = SubSeq(b, lo, top)
<1>1. /\ b \in Text /\ Len(a) \in Nat /\ lo \in 1..Len(a) /\ p \in 1..Len(a) /\ lo < p
      /\ Len(b) = p - 1 /\ b[lo] # Space /\ lo \in 1..Len(b)
      /\ \A i \in 1..(lo - 1) : b[i] = Space
  BY DEF Pieces
<1>2. ~Blank(b)
  BY <1>1 DEF Blank
<1>3. PICK low, top \in 1..Len(b) : Kept(b, low, top) /\ trim(b) = SubSeq(b, low, top)
  BY <1>1, <1>2, TrimCases
<1>4. low = lo
  BY <1>1, <1>3 DEF Kept
<1>5. top \in lo..(p - 1)
  BY <1>1, <1>3, <1>4 DEF Kept
<1> QED BY <1>3, <1>4, <1>5

\* A comment that is set apart is cut with its blank: nothing else is lost.
LEMMA ValueApart ==
  ASSUME NEW a \in Text, Find(trim(a), Semicolon) > 1,
         trim(a)[Find(trim(a), Semicolon) - 1] = Space
  PROVE  WithoutComment(trim(a)) = Means(a)
<1> DEFINE v == trim(a)
           b == Before(a, Semicolon)
           f == Find(v, Semicolon)
<1>1. PICK lo, hi, p \in 1..Len(a) : Pieces(a, v, b, lo, hi, p) /\ f = p - lo + 1
  BY PiecesOf
<1>2. PICK top \in lo..(p - 1) : Kept(b, lo, top) /\ trim(b) = SubSeq(b, lo, top)
  BY <1>1, PiecesTrim
<1>3. v[f - 1] = Space
  OBVIOUS
<1>4. f \in Nat /\ f > 1
  BY <1>1 DEF Pieces
<1>5. WithoutComment(v) = trim(SubSeq(v, 1, f - 2))
  BY <1>4, WithoutCommentCuts
<1>6. Means(a) = trim(b)
  BY DEF Means
<1> HIDE DEF v, b, f
<1> DEFINE w == SubSeq(v, 1, f - 2)
<1>7. /\ v \in Text /\ b \in Text /\ Len(a) \in Nat /\ lo < p /\ p <= hi
      /\ Len(v) = hi - lo + 1 /\ \A i \in 1..Len(v) : v[i] = a[lo + i - 1]
      /\ Len(b) = p - 1 /\ \A i \in 1..Len(b) : b[i] = a[i]
  BY <1>1 DEF Pieces
<1>8. 1 \in 1..(Len(v) + 1) /\ f - 2 \in (1 - 1)..Len(v)
  BY <1>1, <1>7
<1>9. /\ w \in Text /\ Len(w) = (f - 2) - 1 + 1
      /\ \A i \in 1..((f - 2) - 1 + 1) : w[i] = v[1 + i - 1]
  BY <1>7, <1>8, SubText
<1> HIDE DEF w
<1>10. Len(w) = p - lo - 1 /\ \A i \in 1..Len(w) : w[i] = a[lo + i - 1]
  <2>1. Len(w) = p - lo - 1 /\ Len(w) = f - 2 /\ Len(w) <= Len(v)
    BY <1>1, <1>7, <1>9
  <2>2. ASSUME NEW i \in 1..Len(w) PROVE w[i] = a[lo + i - 1]
    <3>1. i \in 1..((f - 2) - 1 + 1) /\ 1 + i - 1 = i /\ i \in 1..Len(v)
      BY <1>1, <1>7, <2>1
    <3> QED BY <1>7, <1>9, <3>1
  <2> QED BY <2>1, <2>2
<1>11. top # p - 1
  <2>1. f - 1 \in 1..Len(v) /\ lo + (f - 1) - 1 = p - 1 /\ p - 1 \in 1..Len(b)
    BY <1>1, <1>7
  <2>2. b[p - 1] = Space
    BY <1>3, <1>7, <2>1
  <2> QED BY <1>2, <2>2 DEF Kept
<1> DEFINE n == top - lo + 1
<1>12. n \in 1..Len(w) /\ 1 \in 1..Len(w) /\ top \in Nat /\ top <= p - 2
  BY <1>1, <1>2, <1>7, <1>10, <1>11
<1>13. Kept(w, 1, n)
  <2>1. w[1] = b[lo]
    <3>1. lo + 1 - 1 = lo /\ lo \in 1..Len(b)
      BY <1>1, <1>7
    <3> QED BY <1>7, <1>10, <1>12, <3>1
  <2>2. w[n] = b[top]
    <3>1. lo + n - 1 = top /\ top \in 1..Len(b)
      BY <1>1, <1>2, <1>7, <1>12
    <3> QED BY <1>7, <1>10, <1>12, <3>1
  <2>3. ASSUME NEW i \in 1..Len(w), i < 1 \/ i > n PROVE w[i] = Space
    <3>1. lo + i - 1 > top /\ lo + i - 1 \in 1..Len(b)
      BY <1>1, <1>2, <1>7, <1>10, <1>12, <2>3
    <3>2. b[lo + i - 1] = Space
      BY <1>2, <3>1 DEF Kept
    <3> QED BY <1>7, <1>10, <3>1, <3>2
  <2>4. b[lo] # Space /\ b[top] # Space
    BY <1>2 DEF Kept
  <2>5. 1 <= n
    BY <1>12
  <2> HIDE DEF n
  <2> QED BY <1>12, <2>1, <2>2, <2>3, <2>4, <2>5 DEF Kept
<1>14. trim(w) = SubSeq(w, 1, n)
  BY <1>9, <1>13, TrimKept
<1>15. SubSeq(w, 1, n) = SubSeq(b, lo, top)
  <2> DEFINE x == SubSeq(w, 1, n)
             y == SubSeq(b, lo, top)
  <2>1. 1 \in 1..(Len(w) + 1) /\ n \in (1 - 1)..Len(w)
    BY <1>12
  <2>2. x \in Text /\ Len(x) = n - 1 + 1 /\ \A i \in 1..(n - 1 + 1) : x[i] = w[1 + i - 1]
    BY <1>9, <2>1, SubText
  <2>3. lo \in 1..(Len(b) + 1) /\ top \in (lo - 1)..Len(b)
    BY <1>1, <1>2, <1>7
  <2>4. y \in Text /\ Len(y) = top - lo + 1 /\ \A i \in 1..(top - lo + 1) : y[i] = b[lo + i - 1]
    BY <1>7, <2>3, SubText
  <2> HIDE DEF x, y
  <2>5. Len(x) = Len(y)
    BY <1>1, <1>12, <2>2, <2>4
  <2>6. ASSUME NEW i \in 1..Len(x) PROVE x[i] = y[i]
    <3>1. /\ i \in 1..(n - 1 + 1) /\ 1 + i - 1 = i /\ i \in 1..Len(w)
          /\ i \in 1..(top - lo + 1) /\ lo + i - 1 \in 1..Len(b)
      BY <1>1, <1>2, <1>7, <1>12, <2>2
    <3>2. x[i] = w[i] /\ y[i] = b[lo + i - 1]
      BY <2>2, <2>4, <3>1
    <3> QED BY <1>7, <1>10, <3>1, <3>2
  <2>7. x = y
    BY <2>2, <2>4, <2>5, <2>6, SeqEqual DEF Text
  <2> QED BY <2>7 DEF x, y
<1> QED BY <1>2, <1>5, <1>6, <1>14, <1>15 DEF v, w

\* A sign right behind the value takes the last character with it.
LEMMA ValueTight ==
  ASSUME NEW a \in Text, Find(trim(a), Semicolon) > 1,
         trim(a)[Find(trim(a), Semicolon) - 1] # Space
  PROVE  /\ Means(a) # <<>>
         /\ WithoutComment(trim(a)) = trim(SubSeq(Means(a), 1, Len(Means(a)) - 1))
<1> DEFINE v == trim(a)
           b == Before(a, Semicolon)
           f == Find(v, Semicolon)
<1>1. PICK lo, hi, p \in 1..Len(a) : Pieces(a, v, b, lo, hi, p) /\ f = p - lo + 1
  BY PiecesOf
<1>2. PICK top \in lo..(p - 1) : Kept(b, lo, top) /\ trim(b) = SubSeq(b, lo, top)
  BY <1>1, PiecesTrim
<1>3. v[f - 1] # Space
  OBVIOUS
<1>4. f \in Nat /\ f > 1
  BY <1>1 DEF Pieces
<1>5. WithoutComment(v) = trim(SubSeq(v, 1, f - 2))
  BY <1>4, WithoutCommentCuts
<1> DEFINE m == Means(a)
<1>6. m = trim(b)
  BY DEF Means
<1> HIDE DEF v, b, f, m
<1>7. /\ v \in Text /\ b \in Text /\ Len(a) \in Nat /\ lo < p /\ p <= hi
      /\ Len(v) = hi - lo + 1 /\ \A i \in 1..Len(v) : v[i] = a[lo + i - 1]
      /\ Len(b) = p - 1 /\ \A i \in 1..Len(b) : b[i] = a[i]
  BY <1>1 DEF Pieces
<1>8. top = p - 1
  <2>1. f - 1 \in 1..Len(v) /\ lo + (f - 1) - 1 = p - 1 /\ p - 1 \in 1..Len(b)
    BY <1>1, <1>7
  <2>2. b[p - 1] # Space
    BY <1>3, <1>7, <2>1
  <2>3. ~(p - 1 > top)
    BY <1>2, <2>1, <2>2 DEF Kept
  <2> QED BY <1>1, <1>2, <2>3
<1>9. lo \in 1..(Len(b) + 1) /\ p - 1 \in (lo - 1)..Len(b)
  BY <1>1, <1>7
<1>10. /\ m \in Text /\ Len(m) = (p - 1) - lo + 1
       /\ \A i \in 1..((p - 1) - lo + 1) : m[i] = b[lo + i - 1]
  BY <1>2, <1>6, <1>7, <1>8, <1>9, SubText
<1>11. Len(m) = f - 1
  BY <1>1, <1>7, <1>10
<1>12. m # <<>>
  BY <1>4, <1>11, EmptySeq
<1> DEFINE x == SubSeq(v, 1, f - 2)
           y == SubSeq(m, 1, Len(m) - 1)
<1>13. /\ 1 \in 1..(Len(v) + 1) /\ f - 2 \in (1 - 1)..Len(v)
       /\ 1 \in 1..(Len(m) + 1) /\ Len(m) - 1 \in (1 - 1)..Len(m)
  BY <1>1, <1>7, <1>11
<1>14. /\ x \in Text /\ Len(x) = (f - 2) - 1 + 1
       /\ \A i \in 1..((f - 2) - 1 + 1) : x[i] = v[1 + i - 1]
  BY <1>7, <1>13, SubText
<1>15. /\ y \in Text /\ Len(y) = (Len(m) - 1) - 1 + 1
       /\ \A i \in 1..((Len(m) - 1) - 1 + 1) : y[i] = m[1 + i - 1]
  BY <1>10, <1>13, SubText
<1> HIDE DEF x, y
<1>16. Len(x) = Len(y)
  BY <1>4, <1>11, <1>14, <1>15
<1>17. ASSUME NEW i \in 1..Len(x) PROVE x[i] = y[i]
  <2>1. /\ i \in 1..((f - 2) - 1 + 1) /\ i \in 1..((Len(m) - 1) - 1 + 1) /\ 1 + i - 1 = i
        /\ i \in 1..Len(v) /\ i \in 1..((p - 1) - lo + 1) /\ lo + i - 1 \in 1..Len(b)
    BY <1>1, <1>4, <1>7, <1>11, <1>14
  <2>2. x[i] = v[i] /\ y[i] = m[i]
    BY <1>14, <1>15, <2>1
  <2>3. m[i] = b[lo + i - 1]
    BY <1>10, <2>1
  <2> QED BY <1>7, <2>1, <2>2, <2>3
<1>18. x = y
  BY <1>14, <1>15, <1>16, <1>17, SeqEqual DEF Text
<1> QED BY <1>5, <1>12, <1>18 DEF v, x, y, m

\* What the constructor makes of the text behind an equals sign.
LEMMA ValueOfText ==
  ASSUME NEW a \in Text
  PROVE  LET x == WithoutComment(trim(a))
             m == Means(a)
         IN  \/ Apart(trim(a)) /\ x = m
             \/ ~Apart(trim(a)) /\ m = <<>> /\ x = trim(a)
             \/ ~Apart(trim(a)) /\ m # <<>> /\ x = trim(SubSeq(m, 1, Len(m) - 1))
<1> DEFINE f == Find(trim(a), Semicolon)
<1>1. f \in Nat
  <2>1. trim(a) \in Text /\ Len(trim(a)) \in Nat
    BY Trimmed DEF Text
  <2> QED BY <2>1, FindIs
<1>2. CASE f = 0
  BY <1>2, ValueWithoutSign DEF Apart
<1>3. CASE f = 1
  BY <1>3, ValueIsComment DEF Apart
<1>4. CASE f > 1
  <2>1. f # 0
    BY <1>1, <1>4
  <2> HIDE DEF f
  <2> QED BY <1>4, <2>1, ValueApart, ValueTight DEF Apart, f
<1> QED BY <1>1, <1>2, <1>3, <1>4


-------------------------------------------------------------------------------
(* The lines read so far *)

\* Value x is what the parser makes of the assignment on line i.
ValueAt(i, x) ==
  \/ CommentApart(i) /\ x = Meant(i)
  \/ ~CommentApart(i) /\ Meant(i) = <<>> /\ x = trim(After(Line(i), "="))
  \/ ~CommentApart(i) /\ Meant(i) # <<>> /\ x = trim(SubSeq(Meant(i), 1, Len(Meant(i)) - 1))

\* What LastValueKept says of the first n lines and the values stored.
ReadValues(n, vals) ==
  /\ DOMAIN vals = {KeyAt(i) : i \in {j \in 1..n : IsAssignment(j)}}
  /\ \A k \in DOMAIN vals : ValueAt(Greatest(Assigned(k, n)), vals[k])

\* The constructor has read strNum lines: it is in the section of the next one
\* and has the values of these.  Before get_value is asked it has read them all.
ReadInv ==
  /\ file \in Seq(Text)
  /\ strNum \in 0..Len(file)
  /\ at \in {"open", "lines", "ask", "running", "thrown"}
  /\ at # "thrown" => sectionName = SectionAt(strNum + 1) /\ ReadValues(strNum, values)
  /\ at = "open" => strNum = 0
  /\ at \in {"ask", "running"} => strNum = Len(file)

LEMMA InitRead == Init => ReadInv
<1> SUFFICES ASSUME Init PROVE ReadInv OBVIOUS
<1>1. file \in Seq(Text)
  BY FileAssumption DEF Init, Text
<1>2. Len(file) \in Nat /\ strNum = 0 /\ at = "open" /\ values = <<>> /\ sectionName = <<>>
  BY <1>1 DEF Init
<1>3. 1..0 = {} /\ 1..(0 + 1 - 1) = {}
  OBVIOUS
<1>4. SectionAt(0 + 1) = <<>>
  BY <1>3, {j \in 1..(0 + 1 - 1) : IsHeader(j)} = {} DEF SectionAt
<1>5. DOMAIN values = {}
  BY <1>2
<1>6. {j \in 1..0 : IsAssignment(j)} = {}
  BY <1>3
<1>7. ReadValues(0, values)
  BY <1>5, <1>6 DEF ReadValues
<1> QED BY <1>1, <1>2, <1>4, <1>7 DEF ReadInv

\* Lines that are no assignments leave the values alone.
LEMMA KeptSkip ==
  ASSUME NEW n \in Nat, NEW vals, ReadValues(n, vals), ~IsAssignment(n + 1)
  PROVE  ReadValues(n + 1, vals)
<1>1. {j \in 1..(n + 1) : IsAssignment(j)} = {j \in 1..n : IsAssignment(j)}
  <2>1. 1..(n + 1) = (1..n) \cup {n + 1}
    OBVIOUS
  <2> QED BY <2>1
<1>2. ASSUME NEW k PROVE Assigned(k, n + 1) = Assigned(k, n)
  BY <1>1, Zenon DEF Assigned
<1> QED BY <1>1, <1>2, Zenon DEF ReadValues

\* An assignment gives its item the value of its own line.
LEMMA KeptItem ==
  ASSUME NEW n \in Nat, NEW vals, ReadValues(n, vals), IsAssignment(n + 1),
         NEW x, ValueAt(n + 1, x)
  PROVE  ReadValues(n + 1, [k \in DOMAIN vals \cup {KeyAt(n + 1)} |->
                         IF k = KeyAt(n + 1) THEN x ELSE vals[k]])
<1> DEFINE key == KeyAt(n + 1)
           new == [k \in DOMAIN vals \cup {key} |-> IF k = key THEN x ELSE vals[k]]
<1>1. 1..(n + 1) = (1..n) \cup {n + 1}
  OBVIOUS
<1>2. {j \in 1..(n + 1) : IsAssignment(j)} = {j \in 1..n : IsAssignment(j)} \cup {n + 1}
  BY <1>1
<1>3. DOMAIN new = {KeyAt(i) : i \in {j \in 1..(n + 1) : IsAssignment(j)}}
  <2>1. DOMAIN vals = {KeyAt(i) : i \in {j \in 1..n : IsAssignment(j)}}
    BY DEF ReadValues
  <2>2. DOMAIN new = DOMAIN vals \cup {key}
    OBVIOUS
  <2> HIDE DEF new
  <2> QED BY <1>2, <2>1, <2>2
<1>4. ASSUME NEW k \in DOMAIN new
      PROVE  ValueAt(Greatest(Assigned(k, n + 1)), new[k])
  <2>1. CASE k = key
    <3>1. n + 1 \in Nat /\ Assigned(k, n + 1) \subseteq 1..(n + 1) /\ n + 1 \in Assigned(k, n + 1)
      BY <2>1 DEF Assigned
    <3>2. Greatest(Assigned(k, n + 1)) = n + 1
      BY <3>1, GreatestLast
    <3> QED BY <2>1, <3>2
  <2>2. CASE k # key
    <3>1. Assigned(k, n + 1) = Assigned(k, n)
      BY <1>1, <2>2 DEF Assigned
    <3>2. k \in DOMAIN vals /\ new[k] = vals[k]
      BY <2>2
    <3> QED BY <3>1, <3>2 DEF ReadValues
  <2> QED BY <2>1, <2>2
<1> QED BY <1>3, <1>4 DEF ReadValues

\* The next line is in the section of this one, unless this one is a header.
LEMMA SectionSkip ==
  ASSUME NEW n \in Nat, ~IsHeader(n + 1)
  PROVE  SectionAt(n + 1 + 1) = SectionAt(n + 1)
<1>1. (n + 1 + 1) - 1 = n + 1 /\ (n + 1) - 1 = n /\ 1..(n + 1) = (1..n) \cup {n + 1}
  OBVIOUS
<1>2. {j \in 1..((n + 1 + 1) - 1) : IsHeader(j)} = {j \in 1..((n + 1) - 1) : IsHeader(j)}
  BY <1>1
<1> QED BY <1>2, Zenon DEF SectionAt

LEMMA SectionHeader ==
  ASSUME NEW n \in Nat, IsHeader(n + 1)
  PROVE  SectionAt(n + 1 + 1) = SubSeq(Line(n + 1), 2, Len(Line(n + 1)) - 1)
<1> DEFINE H == {j \in 1..((n + 1 + 1) - 1) : IsHeader(j)}
<1>1. (n + 1 + 1) - 1 = n + 1 /\ n + 1 \in Nat /\ H \subseteq 1..(n + 1) /\ n + 1 \in H
  OBVIOUS
<1>2. Greatest(H) = n + 1 /\ H # {}
  BY <1>1, GreatestLast
<1> QED BY <1>2, Zenon DEF SectionAt

\* A line is a header, an assignment or neither, by its first character.
LEMMA LineKinds ==
  ASSUME NEW i
  PROVE  /\ IsHeader(i) => ~IsAssignment(i)
         /\ Start(Line(i)) \in {<<>>, <<Semicolon>>} => ~IsHeader(i) /\ ~IsAssignment(i)
<1>1. <<"[">> # <<>> /\ <<Semicolon>> # <<"[">>
  <2>1. Semicolon # "["
    BY Zenon DEF Semicolon
  <2> QED BY <2>1
<1> QED BY <1>1 DEF IsHeader, IsAssignment

LEMMA ValueOfLine ==
  ASSUME NEW i, Line(i) \in Text
  PROVE  ValueAt(i, WithoutComment(trim(After(Line(i), "="))))
<1> DEFINE a == After(Line(i), "=")
<1>1. a \in Text
  BY BeforeAfter
<1>2. Meant(i) = Means(a) /\ (CommentApart(i) <=> Apart(trim(a)))
  BY DEF Meant, Means, CommentApart, Apart
<1> HIDE DEF a
<1>3. \/ Apart(trim(a)) /\ WithoutComment(trim(a)) = Means(a)
      \/ ~Apart(trim(a)) /\ Means(a) = <<>> /\ WithoutComment(trim(a)) = trim(a)
      \/ /\ ~Apart(trim(a)) /\ Means(a) # <<>>
         /\ WithoutComment(trim(a)) = trim(SubSeq(Means(a), 1, Len(Means(a)) - 1))
  BY <1>1, ValueOfText
<1> QED BY <1>2, <1>3 DEF ValueAt, a

\* While the file stays the same, ReadInv speaks about the same lines.
LEMMA SameFile ==
  ASSUME file' = file,
         file \in Seq(Text),
         strNum' \in 0..Len(file),
         at' \in {"open", "lines", "ask", "running", "thrown"},
         at' # "thrown" => sectionName' = SectionAt(strNum' + 1) /\ ReadValues(strNum', values'),
         at' = "open" => strNum' = 0,
         at' \in {"ask", "running"} => strNum' = Len(file)
  PROVE  ReadInv'
<1>1. \A i : Line(i)' = Line(i)
  BY DEF Line
<1>2. \A i : /\ IsHeader(i)' <=> IsHeader(i)
             /\ IsAssignment(i)' <=> IsAssignment(i)
             /\ Meant(i)' = Meant(i)
             /\ CommentApart(i)' <=> CommentApart(i)
  BY <1>1 DEF IsHeader, IsAssignment, Meant, CommentApart
<1>3. \A i : SectionAt(i)' = SectionAt(i)
  BY <1>1, <1>2 DEF SectionAt
<1>4. \A i : KeyAt(i)' = KeyAt(i)
  BY <1>1, <1>3 DEF KeyAt
<1>5. \A i, x : ValueAt(i, x)' <=> ValueAt(i, x)
  BY <1>1, <1>2 DEF ValueAt
<1>6. \A k, n : Assigned(k, n)' = Assigned(k, n)
  BY <1>2, <1>4 DEF Assigned
<1>7. ReadValues(strNum', values') => ReadValues(strNum, values)'
  BY <1>2, <1>4, <1>5, <1>6 DEF ReadValues
<1>8. SectionAt(strNum' + 1) = SectionAt(strNum + 1)'
  BY <1>1, <1>2 DEF SectionAt
<1> QED BY <1>7, <1>8 DEF ReadInv


LEMMA NextRead == ReadInv /\ [Next]_vars => ReadInv'
<1> SUFFICES ASSUME ReadInv, [Next]_vars PROVE ReadInv' OBVIOUS
<1>0. /\ file \in Seq(Text) /\ Len(file) \in Nat /\ strNum \in 0..Len(file)
      /\ at \in {"open", "lines", "ask", "running", "thrown"}
      /\ at # "thrown" => sectionName = SectionAt(strNum + 1) /\ ReadValues(strNum, values)
      /\ at = "open" => strNum = 0
      /\ at \in {"ask", "running"} => strNum = Len(file)
  BY DEF ReadInv
\* What a step over a line knows about it.
<1>a. ASSUME HasLine
      PROVE  /\ at = "lines" /\ strNum \in Nat /\ strNum + 1 \in 0..Len(file)
             /\ str = Line(strNum + 1) /\ Line(strNum + 1) \in Text
  <2>1. at = "lines" /\ strNum \in Nat /\ strNum + 1 \in 0..Len(file) /\ strNum + 1 \in 1..Len(file)
    BY <1>0, <1>a DEF HasLine
  <2>2. file[strNum + 1] \in Text
    BY <1>0, <2>1, ElementOfSeq
  <2> QED BY <2>1, <2>2, Trimmed DEF str, Line
<1>1. CASE SkipLine
  <2>1. HasLine /\ Start(str) \in {<<>>, <<Semicolon>>} /\ strNum' = strNum + 1
        /\ file' = file /\ at' = at /\ sectionName' = sectionName /\ values' = values
    BY <1>1 DEF SkipLine
  <2>2. ~IsHeader(strNum + 1) /\ ~IsAssignment(strNum + 1)
    BY <1>a, <2>1, LineKinds
  <2>3. /\ SectionAt(strNum + 1 + 1) = sectionName
        /\ ReadValues(strNum + 1, values)
    BY <1>0, <1>a, <2>1, <2>2, SectionSkip, KeptSkip
  <2> QED BY <1>0, <1>a, <2>1, <2>3, SameFile
<1>2. CASE SectionLine
  <2>1. HasLine /\ Start(str) = <<"[">> /\ strNum' = strNum + 1 /\ file' = file
        /\ values' = values
        /\ \/ at' = at /\ sectionName' = SubSeq(str, 2, Len(str) - 1)
           \/ at' = "thrown"
    BY <1>2 DEF SectionLine
  <2>2. IsHeader(strNum + 1) /\ ~IsAssignment(strNum + 1)
    BY <1>a, <2>1, LineKinds DEF IsHeader
  <2>3. /\ SectionAt(strNum + 1 + 1) = SubSeq(str, 2, Len(str) - 1)
        /\ ReadValues(strNum + 1, values)
    BY <1>0, <1>a, <2>1, <2>2, SectionHeader, KeptSkip
  <2> QED BY <1>0, <1>a, <2>1, <2>3, SameFile
<1>3. CASE ItemLine
  <2> DEFINE n    == strNum + 1
             item == trim(Before(str, "="))
             x    == WithoutComment(trim(After(str, "=")))
  <2>1. HasLine /\ strNum' = n /\ file' = file /\ sectionName' = sectionName
        /\ Start(str) \notin {<<>>, <<Semicolon>>, <<"[">>}
        /\ \/ at' = "thrown"
           \/ at' = at /\ values' = Stored(<<sectionName, item>>, x)
    BY <1>3 DEF ItemLine
  <2>2. IsAssignment(n) /\ ~IsHeader(n)
    BY <1>a, <2>1 DEF IsAssignment, IsHeader
  <2>3. KeyAt(n) = <<sectionName, item>>
    BY <1>0, <1>a, <2>1 DEF KeyAt
  <2>4. ValueAt(n, x)
    BY <1>a, <2>1, ValueOfLine
  <2> HIDE DEF item, x
  <2>5. ReadValues(n, Stored(<<sectionName, item>>, x))
    BY <1>0, <1>a, <2>1, <2>2, <2>3, <2>4, KeptItem DEF Stored
  <2>6. SectionAt(n + 1) = sectionName
    BY <1>0, <1>a, <2>1, <2>2, SectionSkip
  <2> QED BY <1>0, <1>a, <2>1, <2>5, <2>6, SameFile
<1>4. CASE EndOfFile
  <2>1. at = "lines" /\ at' = "ask" /\ UNCHANGED <<file, strNum, sectionName, values>>
        /\ ~(strNum < Len(file))
    BY <1>4 DEF EndOfFile, HasLine
  <2>2. strNum = Len(file)
    BY <1>0, <2>1
  <2> QED BY <1>0, <2>1, <2>2, SameFile
<1>5. CASE Open \/ OpenThrows \/ GetValue \/ GetValueThrows \/ Begin \/ UNCHANGED vars
  <2>1. /\ UNCHANGED <<file, strNum, sectionName, values>>
        /\ \/ at' = at
           \/ at' = "thrown"
           \/ at = "open" /\ at' = "lines"
           \/ at = "ask" /\ at' = "running"
    BY <1>5 DEF Open, OpenThrows, GetValue, GetValueThrows, Begin, vars
  <2> QED BY <1>0, <2>1, SameFile
<1> QED BY <1>1, <1>2, <1>3, <1>4, <1>5 DEF Next, INI_file, get_value

LEMMA ReadKeeps == ReadInv => LastValueKept
<1> SUFFICES ASSUME ReadInv, at # "thrown" PROVE LastValueKept
  BY DEF LastValueKept
<1>1. ReadValues(strNum, values)
  BY DEF ReadInv
<1> QED BY <1>1, Zenon DEF ReadValues, ValueAt, LastValueKept

\* For every file: while no line was refused, the constructor of INI_file has
\* stored exactly the items assigned so far, each in the section it stands in
\* and with its last value, and a comment sign right behind a value or in its
\* place damages that value and no more.
THEOREM ValuesKept == Spec => []LastValueKept
BY InitRead, NextRead, ReadKeeps, PTL DEF Spec

-------------------------------------------------------------------------------
(* The settings *)

\* Every setting returned so far had a value, and is its first word.
AskInv ==
  /\ settings \in Seq(Text)
  /\ Len(settings) \in 0..Len(Wanted)
  /\ at \in {"open", "lines"} => Len(settings) = 0
  /\ at = "running" => Len(settings) = Len(Wanted)
  /\ at # "thrown" => \A n \in 1..Len(settings) :
       HasValue(Wanted[n]) /\ settings[n] = Before(values[KeyOf(Wanted[n])], Space)


\* The line a stored value comes from, and what the value can be.
LEMMA ValueRead ==
  ASSUME ReadInv, at # "thrown", NEW k \in DOMAIN values
  PROVE  /\ Assigned(k, strNum) # {}
         /\ ValueAt(Greatest(Assigned(k, strNum)), values[k])
         /\ values[k] \in Text
         /\ values[k] # <<>> => values[k][1] # Space
<1> DEFINE A == Assigned(k, strNum)
           i == Greatest(A)
<1>1. ReadValues(strNum, values) /\ file \in Seq(Text) /\ strNum \in 0..Len(file) /\ Len(file) \in Nat
  BY DEF ReadInv
<1>2. A # {} /\ A \subseteq 1..strNum /\ strNum \in Nat
  BY <1>1 DEF ReadValues, Assigned
<1>3. i \in 1..Len(file)
  BY <1>1, <1>2, GreatestIs
<1>4. ValueAt(i, values[k])
  BY <1>1 DEF ReadValues
<1> HIDE DEF i
<1>5. file[i] \in Text
  BY <1>1, <1>3, ElementOfSeq
<1>6. Line(i) \in Text
  BY <1>5, Trimmed DEF Line
<1>7. After(Line(i), "=") \in Text
  BY <1>6, BeforeAfter
<1>8. Before(After(Line(i), "="), Semicolon) \in Text
  BY <1>7, BeforeAfter
<1> DEFINE m == Meant(i)
<1>9. m \in Text /\ (m # <<>> => m[1] # Space)
  BY <1>8, Trimmed DEF Meant
<1>10. m # <<>> => SubSeq(m, 1, Len(m) - 1) \in Text
  <2>1. Len(m) \in Nat /\ (m # <<>> => Len(m) # 0)
    BY <1>9, EmptySeq DEF Text
  <2> HIDE DEF m
  <2>2. m # <<>> => 1 \in 1..(Len(m) + 1) /\ Len(m) - 1 \in (1 - 1)..Len(m)
    BY <2>1
  <2> QED BY <1>9, <2>2, SubText
<1>11. values[k] \in Text /\ (values[k] # <<>> => values[k][1] # Space)
  <2>1. CASE values[k] = m
    BY <1>9, <2>1
  <2>2. CASE values[k] = trim(After(Line(i), "="))
    BY <1>7, <2>2, Trimmed
  <2>3. CASE m # <<>> /\ values[k] = trim(SubSeq(m, 1, Len(m) - 1))
    BY <1>10, <2>3, Trimmed
  <2> QED BY <1>4, <2>1, <2>2, <2>3 DEF ValueAt
<1> QED BY <1>2, <1>4, <1>11 DEF i

\* The first word of a value that does not begin with a blank.
LEMMA FirstWord ==
  ASSUME NEW v \in Text, v # <<>>, v[1] # Space
  PROVE  Before(v, Space) \in Text /\ Before(v, Space) # <<>>
<1> DEFINE f == Find(v, Space)
<1>1. Len(v) \in Nat /\ f \in 0..Len(v) /\ (f # 0 => v[f] = Space)
  BY FindIs DEF Text
<1>2. f # 1
  BY <1>1
<1>3. CASE f = 0
  BY <1>3 DEF Before
<1>4. CASE f # 0
  <2>1. 1 \in 1..(Len(v) + 1) /\ f - 1 \in (1 - 1)..Len(v) /\ (f - 1) - 1 + 1 > 0
    BY <1>1, <1>2, <1>4
  <2>2. Len(SubSeq(v, 1, f - 1)) = (f - 1) - 1 + 1
    BY <2>1, SubText
  <2>3. SubSeq(v, 1, f - 1) # <<>>
    BY <2>1, <2>2, EmptySeq
  <2> QED BY <1>4, <2>3, BeforeAfter DEF Before
<1> QED BY <1>3, <1>4

LEMMA InitAsk == Init => AskInv
<1> SUFFICES ASSUME Init PROVE AskInv OBVIOUS
<1>1. Len(Wanted) \in Nat
  BY FileAssumption
<1> QED BY <1>1 DEF Init, AskInv

LEMMA NextAsk == ReadInv /\ AskInv /\ [Next]_vars => AskInv'
<1> SUFFICES ASSUME ReadInv, AskInv, [Next]_vars PROVE AskInv' OBVIOUS
<1>0. /\ settings \in Seq(Text) /\ Len(settings) \in Nat /\ Len(Wanted) \in Nat
      /\ Len(settings) <= Len(Wanted)
  BY FileAssumption DEF AskInv
<1>1. CASE SkipLine \/ SectionLine \/ ItemLine \/ EndOfFile \/ Open \/ OpenThrows
  <2>1. /\ settings' = settings /\ at \in {"open", "lines"}
        /\ at' \in {"lines", "ask", "thrown"}
    BY <1>1 DEF SkipLine, SectionLine, ItemLine, EndOfFile, Open, OpenThrows, HasLine
  <2>2. Len(settings) = 0
    BY <2>1 DEF AskInv
  <2> QED BY <1>0, <2>1, <2>2 DEF AskInv
<1>2. CASE GetValue
  <2> DEFINE n == Len(settings) + 1
             x == Before(values[KeyOf(wish)], Space)
  <2>1. /\ at = "ask" /\ Len(settings) < Len(Wanted) /\ HasValue(wish)
        /\ settings' = Append(settings, x) /\ at' = at
        /\ UNCHANGED <<sections, values>> /\ wish = Wanted[n]
    BY <1>2 DEF GetValue, HasWish, wish
  <2>2. x \in Text
    <3>1. KeyOf(wish) \in DOMAIN values
      BY <2>1 DEF HasValue
    <3> QED BY <2>1, <3>1, ValueRead, BeforeAfter
  <2> HIDE DEF x
  <2>3. /\ settings' \in Seq(Text) /\ Len(settings') = n /\ settings'[n] = x
        /\ \A i \in 1..Len(settings) : settings'[i] = settings[i]
    BY <1>0, <2>1, <2>2
  <2>4. ASSUME NEW i \in 1..Len(settings')
        PROVE  HasValue(Wanted[i])' /\ settings'[i] = Before(values'[KeyOf(Wanted[i])], Space)
    <3>1. HasValue(Wanted[i])' <=> HasValue(Wanted[i])
      BY <2>1 DEF HasValue
    <3>2. CASE i = n
      BY <2>1, <2>3, <3>1, <3>2 DEF x
    <3>3. CASE i # n
      <4>1. i \in 1..Len(settings)
        BY <1>0, <2>3, <3>3
      <4> QED BY <2>1, <2>3, <3>1, <4>1 DEF AskInv
    <3> QED BY <3>2, <3>3
  <2>5. Len(settings') \in 0..Len(Wanted)
    BY <1>0, <2>1, <2>3
  <2> QED BY <2>1, <2>3, <2>4, <2>5 DEF AskInv
<1>3. CASE GetValueThrows
  BY <1>0, <1>3 DEF GetValueThrows, AskInv
<1>4. CASE Begin
  <2>1. at = "ask" /\ at' = "running" /\ UNCHANGED <<settings, sections, values>>
        /\ ~(Len(settings) < Len(Wanted))
    BY <1>4 DEF Begin, HasWish
  <2>2. Len(settings) = Len(Wanted)
    BY <1>0, <2>1
  <2> QED BY <2>1, <2>2 DEF AskInv, HasValue
<1>5. CASE UNCHANGED vars
  BY <1>5 DEF vars, AskInv, HasValue
<1> QED BY <1>1, <1>2, <1>3, <1>4, <1>5 DEF Next, INI_file, get_value

\* For every file and every list of settings: a program that begins its work
\* has every setting it asked get_value for, the first word of the value the
\* file assigns last; a missing one would have ended it.
THEOREM SettingsAreComplete == Spec => []SettingsComplete
<1>1. ReadInv /\ AskInv => SettingsComplete
  <2> SUFFICES ASSUME ReadInv, AskInv, at = "running", NEW n \in DOMAIN Wanted
               PROVE  LET lines == Assigned(KeyOf(Wanted[n]), Len(file))
                      IN  /\ lines # {}
                          /\ settings[n] # <<>>
                          /\ CommentApart(Greatest(lines)) =>
                               settings[n] = Before(Meant(Greatest(lines)), Space)
    BY DEF SettingsComplete
  <2> DEFINE k == KeyOf(Wanted[n])
  <2>1. n \in 1..Len(settings) /\ strNum = Len(file)
    BY FileAssumption DEF AskInv, ReadInv
  <2>2. HasValue(Wanted[n]) /\ settings[n] = Before(values[k], Space)
    BY <2>1 DEF AskInv
  <2>3. k \in DOMAIN values /\ values[k] # <<>>
    BY <2>2 DEF HasValue
  <2> HIDE DEF k
  <2>4. /\ Assigned(k, strNum) # {}
        /\ ValueAt(Greatest(Assigned(k, strNum)), values[k])
        /\ values[k] \in Text
        /\ values[k] # <<>> => values[k][1] # Space
    BY <2>3, ValueRead
  <2>5. settings[n] # <<>>
    BY <2>2, <2>3, <2>4, FirstWord
  <2> QED BY <2>1, <2>2, <2>4, <2>5 DEF ValueAt, k
<1> QED BY <1>1, InitRead, NextRead, InitAsk, NextAsk, PTL DEF Spec
===============================================================================
