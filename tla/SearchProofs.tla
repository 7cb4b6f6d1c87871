----------------------------- MODULE SearchProofs -----------------------------
(***************************************************************************)
(* Proofs about Search: whatever crawlers write between the calls of       *)
(* getUrl, for any index, any query and any size of the answer.            *)
(***************************************************************************)
EXTENDS Search, DB_ClientProofs, FiniteSetTheorems, SequenceTheorems

-------------------------------------------------------------------------------
(* Recursion over the subsets of a finite set *)

LEMMA LeastNumber ==
  ASSUME NEW T, T \subseteq Nat, T # {}
  PROVE  \E n \in T : \A m \in T : n <= m
<1>1. PICK n \in T : \A m \in T : ~(<<m, n>> \in OpToRel(<, Nat))
  BY NatLessThanWellFounded, WFMin
<1>2. \A m \in T : ~(m < n)
  BY <1>1 DEF OpToRel
<1> QED BY <1>2

\* Some member of a set of finite sets is a member with none of its elements
\* left out.
LEMMA LeastSubset ==
  ASSUME NEW S, IsFiniteSet(S), NEW B, B \subseteq SUBSET S, B # {}
  PROVE  \E s \in B : \A x \in s : s \ {x} \notin B
<1> DEFINE T == {Cardinality(s) : s \in B}
<1>1. \A s \in B : IsFiniteSet(s) /\ Cardinality(s) \in Nat
  BY FS_Subset, FS_CardinalityType
<1>2. T \subseteq Nat /\ T # {}
  BY <1>1
<1>3. PICK n \in T : \A m \in T : n <= m
  BY <1>2, LeastNumber
<1>4. PICK s \in B : Cardinality(s) = n
  BY <1>3
<1>5. ASSUME NEW x \in s, s \ {x} \in B PROVE FALSE
  <2>1. Cardinality(s \ {x}) = Cardinality(s) - 1
    BY <1>1, FS_RemoveElement
  <2>2. n <= Cardinality(s \ {x})
    BY <1>3, <1>5
  <2> QED BY <1>1, <1>4, <2>1, <2>2
<1> QED BY <1>5

\* Taking out the elements of s one by one, ch[s] first.
Recurs(S, base, ch, step, iter) ==
  \A s \in SUBSET S :
    iter[s] = IF s = {} THEN base ELSE step[<<s, iter[s \ {ch[s]}]>>]

LEMMA RecursionExists ==
  ASSUME NEW S, IsFiniteSet(S), NEW A, NEW base \in A,
         NEW ch, \A s \in SUBSET S : s # {} => ch[s] \in s,
         NEW step \in [(SUBSET S) \X A -> A]
  PROVE  \E iter \in [SUBSET S -> A] : Recurs(S, base, ch, step, iter)
<1> DEFINE Value(s, iter) == IF s = {} THEN base ELSE step[<<s, iter[s \ {ch[s]}]>>]
           UpTo(n, iter) == \A s \in SUBSET S : Cardinality(s) <= n => iter[s] = Value(s, iter)
           Failing == {n \in Nat : ~\E iter \in [SUBSET S -> A] : UpTo(n, iter)}
<1>1. \A s \in SUBSET S : IsFiniteSet(s) /\ Cardinality(s) \in Nat
  BY FS_Subset, FS_CardinalityType
<1>2. \A s \in SUBSET S : s # {} =>
        s \ {ch[s]} \in SUBSET S /\ Cardinality(s \ {ch[s]}) = Cardinality(s) - 1
  BY <1>1, FS_RemoveElement
<1>3. 0 \notin Failing
  <2> DEFINE iter == [s \in SUBSET S |-> base]
  <2>1. ASSUME NEW s \in SUBSET S, Cardinality(s) <= 0 PROVE iter[s] = Value(s, iter)
    BY <1>1, <2>1, FS_EmptySet
  <2>2. iter \in [SUBSET S -> A] /\ UpTo(0, iter)
    BY <2>1
  <2> QED BY <2>2
<1>4. ASSUME NEW n \in Nat, n \notin Failing PROVE n + 1 \notin Failing
  <2>1. PICK old \in [SUBSET S -> A] : UpTo(n, old)
    BY <1>4
  <2> DEFINE iter == [s \in SUBSET S |-> IF Cardinality(s) <= n THEN old[s] ELSE Value(s, old)]
  <2>2. iter \in [SUBSET S -> A]
    <3>1. ASSUME NEW s \in SUBSET S PROVE Value(s, old) \in A
      BY <1>2
    <3> QED BY <3>1
  <2>3. ASSUME NEW s \in SUBSET S, Cardinality(s) <= n + 1 PROVE iter[s] = Value(s, iter)
    <3>1. iter[s] = Value(s, old)
      BY <2>1
    <3>2. CASE s = {}
      BY <3>1, <3>2
    <3>3. CASE s # {}
      <4>1. Cardinality(s \ {ch[s]}) <= n /\ s \ {ch[s]} \in SUBSET S
        BY <1>1, <1>2, <2>3, <3>3
      <4>2. iter[s \ {ch[s]}] = old[s \ {ch[s]}]
        BY <4>1
      <4> QED BY <3>1, <4>2
    <3> QED BY <3>2, <3>3
  <2> HIDE DEF iter, Value
  <2>4. UpTo(n + 1, iter)
    BY <2>3
  <2> QED BY <2>2, <2>4
<1>5. Failing = {}
  <2>1. Failing \subseteq Nat
    OBVIOUS
  <2> HIDE DEF Failing
  <2> SUFFICES ASSUME Failing # {} PROVE FALSE
    OBVIOUS
  <2>2. PICK n \in Failing : \A m \in Failing : n <= m
    BY <2>1, LeastNumber
  <2>3. n - 1 \in Nat /\ n - 1 \notin Failing /\ (n - 1) + 1 = n
    BY <1>3, <2>1, <2>2
  <2> QED BY <1>4, <2>3
<1>6. Cardinality(S) \in Nat /\ \A s \in SUBSET S : Cardinality(s) <= Cardinality(S)
  BY FS_CardinalityType, FS_Subset
<1>7. PICK iter \in [SUBSET S -> A] : UpTo(Cardinality(S), iter)
  BY <1>5, <1>6
<1> QED BY <1>6, <1>7 DEF Recurs


-------------------------------------------------------------------------------
(* Sums *)

SumOver(c, T) == MapThenSumSet(LAMBDA k : c[k], T)

\* A sum is the value of a recursion, and it does not matter on how large a
\* set that recursion is defined.
LEMMA SumRecurs ==
  ASSUME NEW c, NEW S, IsFiniteSet(S), \A k \in S : c[k] \in Nat
  PROVE  \E iter \in [SUBSET S -> Nat] :
           /\ iter[{}] = 0
           /\ \A s \in SUBSET S : s # {} =>
                \E x \in s : iter[s] = c[x] + iter[s \ {x}]
           /\ iter[S] = SumOver(c, S)
<1> DEFINE ch == [s \in SUBSET S |-> CHOOSE x \in s : TRUE]
           step == [p \in (SUBSET S) \X Nat |->
                      IF p[1] = {} THEN 0 ELSE c[ch[p[1]]] + p[2]]
           Def(iter) == iter = [s \in SUBSET S |->
              IF s = {} THEN 0 ELSE c[CHOOSE x \in s : TRUE] + iter[s \ {CHOOSE x \in s : TRUE}]]
<1>1. \A s \in SUBSET S : s # {} => ch[s] \in s
  OBVIOUS
<1>2. step \in [(SUBSET S) \X Nat -> Nat]
  BY <1>1
<1>3. PICK iter \in [SUBSET S -> Nat] : Recurs(S, 0, ch, step, iter)
  <2> HIDE DEF ch, step
  <2> QED BY <1>1, <1>2, RecursionExists
<1>4. ASSUME NEW s \in SUBSET S
      PROVE  iter[s] = IF s = {} THEN 0 ELSE c[ch[s]] + iter[s \ {ch[s]}]
  <2> DEFINE before == iter[s \ {ch[s]}]
  <2>1. before \in Nat
    OBVIOUS
  <2> HIDE DEF ch, before
  <2>2. s # {} => step[<<s, before>>] = c[ch[s]] + before
    BY <2>1
  <2> HIDE DEF step
  <2> QED BY <1>3, <2>2 DEF Recurs, before
<1>5. Def(iter)
  BY <1>4
<1>6. SumOver(c, S) = (CHOOSE f : Def(f))[S]
  BY DEF SumOver, MapThenSumSet, MapThenFoldSet
<1> DEFINE chosen == CHOOSE f : Def(f)
<1>7. Def(chosen)
  BY <1>5
<1> HIDE DEF chosen
<1>8. \A s \in SUBSET S : chosen[s] = IF s = {} THEN 0 ELSE c[ch[s]] + chosen[s \ {ch[s]}]
  BY <1>7
<1>9. \A s \in SUBSET S : chosen[s] = iter[s]
  <2> DEFINE B == {s \in SUBSET S : chosen[s] # iter[s]}
  <2> SUFFICES ASSUME B # {} PROVE FALSE
    OBVIOUS
  <2>1. PICK s \in B : \A x \in s : s \ {x} \notin B
    <3> HIDE DEF B
    <3>1. B \subseteq SUBSET S
      BY DEF B
    <3> QED BY <3>1, LeastSubset
  <2>2. s # {}
    BY <1>4, <1>8, <2>1
  <2>3. chosen[s \ {ch[s]}] = iter[s \ {ch[s]}]
    BY <1>1, <2>1, <2>2
  <2> HIDE DEF ch
  <2> QED BY <1>4, <1>8, <2>1, <2>2, <2>3
<1>10. iter[S] = SumOver(c, S)
  BY <1>6, <1>9 DEF chosen
<1> HIDE DEF ch
<1> QED BY <1>1, <1>4, <1>10

LEMMA SumIs ==
  ASSUME NEW c, NEW S, IsFiniteSet(S), \A k \in S : c[k] \in Nat
  PROVE  /\ SumOver(c, S) \in Nat
         /\ S = {} => SumOver(c, S) = 0
         /\ \A x \in S : SumOver(c, S) = c[x] + SumOver(c, S \ {x})
<1>1. PICK iter \in [SUBSET S -> Nat] :
        /\ iter[{}] = 0
        /\ \A s \in SUBSET S : s # {} => \E x \in s : iter[s] = c[x] + iter[s \ {x}]
        /\ iter[S] = SumOver(c, S)
  BY SumRecurs
\* Any element may be taken out first.
<1>2. \A s \in SUBSET S : \A x \in s : iter[s] = c[x] + iter[s \ {x}]
  <2> DEFINE B == {s \in SUBSET S : \E x \in s : iter[s] # c[x] + iter[s \ {x}]}
  <2> SUFFICES ASSUME B # {} PROVE FALSE
    OBVIOUS
  <2>1. PICK s \in B : \A x \in s : s \ {x} \notin B
    <3>1. B \subseteq SUBSET S
      OBVIOUS
    <3> HIDE DEF B
    <3> QED BY <3>1, LeastSubset
  <2>2. PICK x \in s : iter[s] # c[x] + iter[s \ {x}]
    OBVIOUS
  <2>3. PICK y \in s : iter[s] = c[y] + iter[s \ {y}]
    BY <1>1, <2>2
  <2>4. x # y /\ x \in s \ {y} /\ y \in s \ {x}
    BY <2>2, <2>3
  <2>5. iter[s \ {y}] = c[x] + iter[(s \ {y}) \ {x}]
    BY <2>1, <2>4
  <2>6. iter[s \ {x}] = c[y] + iter[(s \ {x}) \ {y}]
    BY <2>1, <2>4
  <2>7. (s \ {x}) \ {y} = (s \ {y}) \ {x}
    OBVIOUS
  <2> DEFINE r == iter[(s \ {x}) \ {y}]
  <2>8. c[x] \in Nat /\ c[y] \in Nat /\ r \in Nat
    OBVIOUS
  <2>9. iter[s] = c[y] + (c[x] + r) /\ iter[s \ {x}] = c[y] + r
    BY <2>3, <2>5, <2>6, <2>7, Zenon
  <2> HIDE DEF B, r
  <2>10. c[y] + (c[x] + r) = c[x] + (c[y] + r)
    BY <2>8
  <2> QED BY <2>2, <2>9, <2>10, Zenon
\* The sum of a subset is the value of the same recursion.
<1>3. ASSUME NEW x \in S PROVE SumOver(c, S \ {x}) = iter[S \ {x}]
  <2> DEFINE R == S \ {x}
  <2>1. IsFiniteSet(R) /\ R \in SUBSET S
    BY FS_Subset
  <2> HIDE DEF R
  <2>2. \A k \in R : c[k] \in Nat
    BY <2>1
  <2>3. PICK part \in [SUBSET R -> Nat] :
          /\ part[{}] = 0
          /\ \A s \in SUBSET R : s # {} => \E y \in s : part[s] = c[y] + part[s \ {y}]
          /\ part[R] = SumOver(c, R)
    BY <2>1, <2>2, SumRecurs
  <2> DEFINE B == {s \in SUBSET R : part[s] # iter[s]}
  <2>4. B = {}
    <3> SUFFICES ASSUME B # {} PROVE FALSE
      OBVIOUS
    <3>1. PICK s \in B : \A y \in s : s \ {y} \notin B
      <4>1. B \subseteq SUBSET R
        OBVIOUS
      <4> HIDE DEF B
      <4> QED BY <2>1, <4>1, LeastSubset
    <3>2. s # {}
      BY <1>1, <2>3
    <3>3. PICK y \in s : part[s] = c[y] + part[s \ {y}]
      BY <2>3, <3>2
    <3>4. iter[s] = c[y] + iter[s \ {y}]
      BY <1>2, <2>1
    <3>5. part[s \ {y}] = iter[s \ {y}]
      BY <3>1
    <3> QED BY <3>1, <3>3, <3>4, <3>5
  <2>5. part[R] = iter[R]
    BY <2>4
  <2> QED BY <2>3, <2>5 DEF R
<1>4. \A x \in S : iter[S] = c[x] + iter[S \ {x}]
  BY <1>2
<1>5. \A x \in S : SumOver(c, S) = c[x] + SumOver(c, S \ {x})
  BY <1>1, <1>3, <1>4
<1> QED BY <1>1, <1>5

LEMMA SumMonotone ==
  ASSUME NEW c, NEW d, NEW S, IsFiniteSet(S),
         \A k \in S : c[k] \in Nat /\ d[k] \in Nat /\ c[k] <= d[k]
  PROVE  SumOver(c, S) <= SumOver(d, S)
<1> DEFINE B == {s \in SUBSET S : ~(SumOver(c, s) <= SumOver(d, s))}
<1>1. \A s \in SUBSET S :
        /\ SumOver(c, s) \in Nat /\ SumOver(d, s) \in Nat
        /\ s = {} => SumOver(c, s) = 0 /\ SumOver(d, s) = 0
        /\ \A x \in s : /\ SumOver(c, s) = c[x] + SumOver(c, s \ {x})
                        /\ SumOver(d, s) = d[x] + SumOver(d, s \ {x})
  <2> SUFFICES ASSUME NEW s \in SUBSET S
               PROVE  /\ SumOver(c, s) \in Nat /\ SumOver(d, s) \in Nat
                      /\ s = {} => SumOver(c, s) = 0 /\ SumOver(d, s) = 0
                      /\ \A x \in s : /\ SumOver(c, s) = c[x] + SumOver(c, s \ {x})
                                      /\ SumOver(d, s) = d[x] + SumOver(d, s \ {x})
    OBVIOUS
  <2>1. IsFiniteSet(s)
    BY FS_Subset
  <2>2. (\A k \in s : c[k] \in Nat) /\ \A k \in s : d[k] \in Nat
    OBVIOUS
  <2> QED BY <2>1, <2>2, SumIs
<1> SUFFICES ASSUME S \in B PROVE FALSE
  OBVIOUS
<1>2. PICK s \in B : \A x \in s : s \ {x} \notin B
  <2>1. B \subseteq SUBSET S
    OBVIOUS
  <2> HIDE DEF B
  <2> QED BY <2>1, LeastSubset
<1>3. s \in SUBSET S /\ ~(SumOver(c, s) <= SumOver(d, s))
  OBVIOUS
<1>4. PICK x \in s : TRUE
  BY <1>1, <1>3
<1>5. SumOver(c, s \ {x}) <= SumOver(d, s \ {x})
  BY <1>2, <1>4
<1>6. /\ SumOver(c, s) = c[x] + SumOver(c, s \ {x}) /\ SumOver(d, s) = d[x] + SumOver(d, s \ {x})
      /\ SumOver(c, s \ {x}) \in Nat /\ SumOver(d, s \ {x}) \in Nat
  BY <1>1, <1>3
<1>7. c[x] \in Nat /\ d[x] \in Nat /\ c[x] <= d[x]
  OBVIOUS
<1> HIDE DEF B
<1> QED BY <1>3, <1>5, <1>6, <1>7

-------------------------------------------------------------------------------
(* The keywords of a request *)

LEMMA MaxIs ==
  ASSUME NEW T, T \subseteq Nat, IsFiniteSet(T), T # {}
  PROVE  Max(T) \in T /\ \A m \in T : Max(T) >= m
<1> DEFINE B == {s \in SUBSET T : s # {} /\ ~\E n \in s : \A m \in s : n >= m}
<1>1. B = {}
  <2> SUFFICES ASSUME B # {} PROVE FALSE
    OBVIOUS
  <2>1. PICK s \in B : \A x \in s : s \ {x} \notin B
    <3>1. B \subseteq SUBSET T
      OBVIOUS
    <3> HIDE DEF B
    <3> QED BY <3>1, LeastSubset
  <2>2. PICK x \in s : TRUE
    OBVIOUS
  <2>3. s \subseteq Nat
    OBVIOUS
  <2>4. CASE s = {x}
    BY <2>3, <2>4
  <2>5. CASE s # {x}
    <3>1. PICK n \in s \ {x} : \A m \in s \ {x} : n >= m
      BY <2>1, <2>5
    <3>2. (\A m \in s : n >= m) \/ (\A m \in s : x >= m)
      BY <2>3, <3>1
    <3> QED BY <3>1, <3>2
  <2> QED BY <2>4, <2>5
<1>2. PICK n \in T : \A m \in T : n >= m
  BY <1>1
<1> QED BY <1>2 DEF Max

LEMMA MaxOfPrefix == \A n \in Nat \ {0} : Max(1..n) = n
<1> SUFFICES ASSUME NEW n \in Nat \ {0} PROVE Max(1..n) = n
  OBVIOUS
<1>1. IsFiniteSet(1..n) /\ 1..n \subseteq Nat /\ n \in 1..n
  BY FS_Interval
<1>2. Max(1..n) \in 1..n /\ Max(1..n) >= n
  BY <1>1, MaxIs
<1> QED BY <1>2

QueryToken == DOMAIN Keyword \cup Rejected

\* The words among the first n tokens of the query q.
WordsOf(q, n) == {Keyword[q[i]] : i \in {j \in 1..n : q[j] \notin Rejected}}

NoRepeats(s) == \A i, j \in 1..Len(s) : s[i] = s[j] => i = j

\* One round of the loop: the token t is added to the result.
AddToken(result, t) ==
  IF t \in Rejected \/ Contains(result, Keyword[t]) THEN result ELSE Append(result, Keyword[t])

LEMMA AddTokenType ==
  ASSUME NEW result \in Seq(Word), NEW t \in QueryToken
  PROVE  AddToken(result, t) \in Seq(Word)
BY SearchAssumption DEF AddToken, QueryToken

\* getKeyword is a loop over the tokens.
LEMMA KeywordLoop ==
  ASSUME NEW q \in Seq(QueryToken)
  PROVE  \E result \in [0..Len(q) -> Seq(Word)] :
           /\ result[0] = <<>>
           /\ \A n \in 1..Len(q) : result[n] = AddToken(result[n - 1], q[n])
           /\ result[Len(q)] = getKeyword(q)
<1> DEFINE S == DOMAIN q
           ch == [s \in SUBSET S |-> Max(s)]
           step == [p \in (SUBSET S) \X Seq(Word) |->
                      IF p[1] = {} THEN <<>> ELSE AddToken(p[2], q[ch[p[1]]])]
           Def(iter) == iter = [s \in SUBSET S |->
              IF s = {} THEN <<>> ELSE AddToken(iter[s \ {Max(s)}], q[Max(s)])]
<1>1. S = 1..Len(q) /\ IsFiniteSet(S) /\ S \subseteq Nat /\ Len(q) \in Nat
  <2>1. S = 1..Len(q) /\ Len(q) \in Nat
    OBVIOUS
  <2> QED BY <2>1, FS_Interval
<1> HIDE DEF S
<1>2. \A s \in SUBSET S : s # {} => ch[s] \in s
  <2> SUFFICES ASSUME NEW s \in SUBSET S, s # {} PROVE Max(s) \in s
    OBVIOUS
  <2>1. IsFiniteSet(s) /\ s \subseteq Nat
    BY <1>1, FS_Subset
  <2> QED BY <2>1, MaxIs
<1>3. \A i \in S : q[i] \in QueryToken
  BY <1>1
<1>4. step \in [(SUBSET S) \X Seq(Word) -> Seq(Word)]
  <2>1. ASSUME NEW p \in (SUBSET S) \X Seq(Word), p[1] # {}
        PROVE  AddToken(p[2], q[ch[p[1]]]) \in Seq(Word)
    <3> HIDE DEF ch
    <3>1. q[ch[p[1]]] \in QueryToken /\ p[2] \in Seq(Word)
      BY <1>2, <1>3, <2>1
    <3> QED BY <3>1, AddTokenType
  <2> HIDE DEF ch
  <2> QED BY <2>1
<1>5. PICK iter \in [SUBSET S -> Seq(Word)] : Recurs(S, <<>>, ch, step, iter)
  <2> HIDE DEF ch, step
  <2>1. <<>> \in Seq(Word)
    OBVIOUS
  <2> QED BY <1>1, <1>2, <1>4, <2>1, RecursionExists
<1>6. ASSUME NEW s \in SUBSET S
      PROVE  iter[s] = IF s = {} THEN <<>> ELSE AddToken(iter[s \ {Max(s)}], q[Max(s)])
  <2> DEFINE before == iter[s \ {ch[s]}]
  <2>1. before \in Seq(Word)
    OBVIOUS
  <2>2. ch[s] = Max(s)
    OBVIOUS
  <2> HIDE DEF ch, before
  <2>3. s # {} => step[<<s, before>>] = AddToken(before, q[ch[s]])
    BY <2>1
  <2> HIDE DEF step
  <2> QED BY <1>5, <2>2, <2>3 DEF Recurs, before
<1>7. Def(iter)
  BY <1>6
<1>8. getKeyword(q) = (CHOOSE f : Def(f))[S]
  BY DEF getKeyword, FoldLeft, MapThenFoldSet, AddToken, S
<1> DEFINE chosen == CHOOSE f : Def(f)
<1>9. Def(chosen)
  BY <1>7
<1> HIDE DEF chosen
<1>10. \A s \in SUBSET S :
         chosen[s] = IF s = {} THEN <<>> ELSE AddToken(chosen[s \ {Max(s)}], q[Max(s)])
  BY <1>9
<1> DEFINE result == [n \in 0..Len(q) |-> chosen[1..n]]
<1>11. result[0] = <<>>
  <2>1. chosen[{}] = <<>>
    <3>1. {} \in SUBSET S
      OBVIOUS
    <3> QED BY <1>10, <3>1, Zenon
  <2>2. 1..0 = {} /\ 0 \in 0..Len(q)
    BY <1>1
  <2>3. result[0] = chosen[1..0]
    BY <2>2
  <2> QED BY <2>1, <2>2, <2>3, Zenon
<1>12. ASSUME NEW n \in 1..Len(q) PROVE result[n] = AddToken(result[n - 1], q[n])
  <2>1. Max(1..n) = n /\ (1..n) \ {n} = 1..(n - 1) /\ 1..n \in SUBSET S /\ 1..n # {}
    BY <1>1, MaxOfPrefix
  <2>2. chosen[1..n] = AddToken(chosen[1..(n - 1)], q[n])
    BY <1>10, <2>1
  <2>3. n - 1 \in 0..Len(q) /\ n \in 0..Len(q)
    BY <1>1
  <2> QED BY <2>2, <2>3
<1>13. result \in [0..Len(q) -> Seq(Word)]
  <2> DEFINE Bad == {n \in 0..Len(q) : result[n] \notin Seq(Word)}
  <2>1. Bad \subseteq Nat
    BY <1>1
  <2>2. Bad = {}
    <3> SUFFICES ASSUME Bad # {} PROVE FALSE
      OBVIOUS
    <3>1. PICK n \in Bad : \A m \in Bad : n <= m
      <4> HIDE DEF Bad
      <4> QED BY <2>1, LeastNumber
    <3> HIDE DEF result
    <3>2. n # 0
      BY <1>11, <<>> \in Seq(Word)
    <3>3. n \in 1..Len(q) /\ n - 1 \in 0..Len(q) /\ n - 1 < n
      BY <1>1, <3>2
    <3>4. result[n - 1] \in Seq(Word)
      BY <3>1, <3>3
    <3>5. q[n] \in QueryToken
      BY <1>1, <1>3, <3>3
    <3> QED BY <1>12, <3>3, <3>4, <3>5, AddTokenType
  <2> QED BY <2>2
<1>14. result[Len(q)] = getKeyword(q)
  <2>1. Len(q) \in 0..Len(q)
    BY <1>1
  <2> QED BY <1>1, <1>8, <2>1 DEF chosen
<1> HIDE DEF result
<1> QED BY <1>11, <1>12, <1>13, <1>14

\* What AddToken does to a list without repetitions.
LEMMA AddTokenKeeps ==
  ASSUME NEW result \in Seq(Word), NEW t \in QueryToken, NoRepeats(result)
  PROVE  LET new == AddToken(result, t)
         IN  /\ NoRepeats(new)
             /\ ToSet(new) = ToSet(result) \cup (IF t \in Rejected THEN {} ELSE {Keyword[t]})
<1>1. ToSet(result) = {result[i] : i \in 1..Len(result)} /\ Len(result) \in Nat
  BY DEF ToSet
<1>2. CASE t \in Rejected \/ Contains(result, Keyword[t])
  BY <1>1, <1>2 DEF AddToken, Contains
<1>3. CASE ~(t \in Rejected \/ Contains(result, Keyword[t]))
  <2> DEFINE new == Append(result, Keyword[t])
  <2>1. Keyword[t] \in Word
    BY <1>3, SearchAssumption DEF QueryToken
  <2>2. /\ new \in Seq(Word) /\ Len(new) = Len(result) + 1
        /\ \A i \in 1..Len(result) : new[i] = result[i]
        /\ new[Len(result) + 1] = Keyword[t]
    BY <2>1, AppendProperties
  <2>3. DOMAIN new = 1..(Len(result) + 1)
    BY <2>2
  <2>4. \A i \in 1..Len(result) : result[i] # Keyword[t]
    BY <1>3 DEF Contains
  <2>5. AddToken(result, t) = new
    BY <1>3 DEF AddToken
  <2> HIDE DEF new
  <2>6. NoRepeats(new)
    BY <1>1, <2>2, <2>4 DEF NoRepeats
  <2>7. ToSet(new) = ToSet(result) \cup {Keyword[t]}
    BY <1>1, <2>2, <2>3 DEF ToSet
  <2> QED BY <1>3, <2>5, <2>6, <2>7
<1> QED BY <1>2, <1>3

\* getKeyword lists the words of the query, each once.
LEMMA KeywordsOnce ==
  ASSUME NEW q \in Seq(QueryToken)
  PROVE  /\ getKeyword(q) \in Seq(Word)
         /\ NoRepeats(getKeyword(q))
         /\ ToSet(getKeyword(q)) = {Keyword[t] : t \in ToSet(q) \ Rejected}
<1>1. PICK result \in [0..Len(q) -> Seq(Word)] :
        /\ result[0] = <<>>
        /\ \A n \in 1..Len(q) : result[n] = AddToken(result[n - 1], q[n])
        /\ result[Len(q)] = getKeyword(q)
  BY KeywordLoop
<1> DEFINE Good(n) == NoRepeats(result[n]) /\ ToSet(result[n]) = WordsOf(q, n)
           Bad == {n \in 0..Len(q) : ~Good(n)}
<1>2. Len(q) \in Nat
  OBVIOUS
<1>3. Good(0)
  <2>1. Len(<<>>) = 0 /\ 1..0 = {} /\ DOMAIN <<>> = {}
    OBVIOUS
  <2>2. WordsOf(q, 0) = {} /\ ToSet(<<>>) = {} /\ NoRepeats(<<>>)
    BY <2>1 DEF WordsOf, ToSet, NoRepeats
  <2> QED BY <1>1, <2>2
<1>4. ASSUME NEW n \in 1..Len(q), Good(n - 1) PROVE Good(n)
  <2>1. n - 1 \in 0..Len(q) /\ result[n - 1] \in Seq(Word) /\ q[n] \in QueryToken
    BY <1>2
  <2>2. /\ NoRepeats(result[n])
        /\ ToSet(result[n]) = ToSet(result[n - 1])
              \cup (IF q[n] \in Rejected THEN {} ELSE {Keyword[q[n]]})
    BY <1>1, <1>4, <2>1, AddTokenKeeps
  <2>3. 1..n = (1..(n - 1)) \cup {n}
    OBVIOUS
  <2>4. WordsOf(q, n) = WordsOf(q, n - 1)
              \cup (IF q[n] \in Rejected THEN {} ELSE {Keyword[q[n]]})
    BY <2>3 DEF WordsOf
  <2> QED BY <1>4, <2>2, <2>4
<1>5. Bad = {}
  <2>1. Bad \subseteq Nat
    BY <1>2
  <2> SUFFICES ASSUME Bad # {} PROVE FALSE
    OBVIOUS
  <2>2. PICK n \in Bad : \A m \in Bad : n <= m
    <3> HIDE DEF Bad
    <3> QED BY <2>1, LeastNumber
  <2> HIDE DEF Good
  <2>3. n # 0
    BY <1>3
  <2>4. n \in 1..Len(q) /\ n - 1 \in 0..Len(q) /\ n - 1 < n
    BY <1>2, <2>3
  <2>5. Good(n - 1)
    BY <2>2, <2>4
  <2> QED BY <1>4, <2>4, <2>5
<1>6. Good(Len(q))
  <2> HIDE DEF Good
  <2> QED BY <1>2, <1>5
<1>7. WordsOf(q, Len(q)) = {Keyword[t] : t \in ToSet(q) \ Rejected}
  <2>1. ToSet(q) = {q[i] : i \in 1..Len(q)}
    BY DEF ToSet
  <2> QED BY <2>1 DEF WordsOf
<1>8. getKeyword(q) \in Seq(Word)
  BY <1>1, <1>2
<1> QED BY <1>1, <1>6, <1>7, <1>8

-------------------------------------------------------------------------------
(* The index during a request *)

\* Every stored pair has its keyword, and there are finitely many urls.
Rows ==
  /\ OwnInv
  /\ \A l \in Link : \A w \in Word : qty[l][w] # 0 => w \in keywords
  /\ IsFiniteSet(urls)

LEMMA RowsInit == Init => Rows
BY OwnInvInit, FS_EmptySet DEF Init, Rows, NoWords

LEMMA RowsStep == Rows /\ [Next]_vars => Rows'
<1> SUFFICES ASSUME Rows, [Next]_vars PROVE Rows'
  OBVIOUS
<1>1. OwnInv /\ OwnInv' /\ Grows /\ TypeOK
  BY OwnInvStep, GrowsStep DEF Rows, OwnInv
<1>2. \A l \in Link : \A w \in Word : qty'[l][w] # 0 => w \in keywords'
  <2>1. CASE qty' = qty
    BY <1>1, <2>1 DEF Rows, Grows
  <2>2. ASSUME NEW m \in Link, NEW v \in Word, NEW n, ~PairRefused(m, v),
               qty' = [qty EXCEPT ![m][v] = n]
        PROVE  \A l \in Link : \A w \in Word : qty'[l][w] # 0 => w \in keywords'
    <3>1. \A l \in Link : \A w \in Word : l # m \/ w # v => qty'[l][w] = qty[l][w]
      BY <1>1, <2>2 DEF TypeOK
    <3>2. v \in keywords
      BY <2>2 DEF PairRefused
    <3> QED BY <1>1, <3>1, <3>2 DEF Rows, Grows
  <2>3. ASSUME NEW c \in Client, Step(c)
        PROVE  \A l \in Link : \A w \in Word : qty'[l][w] # 0 => w \in keywords'
    <3>1. CASE InsertPair(c)
      <4>1. ASSUME NEW w \in todo[c], ~PairRefused(link[c], w), StoresPair(c, w)
            PROVE  \A l \in Link : \A v \in Word : qty'[l][v] # 0 => v \in keywords'
        <5>1. w \in Word /\ link[c] \in Link
          BY <1>1 DEF TypeOK
        <5> QED BY <2>2, <4>1, <5>1 DEF StoresPair
      <4> QED BY <2>1, <3>1, <4>1, PairCases
    <3>2. CASE InsertUrl(c)
      BY <2>1, <3>2 DEF InsertUrl, tableVars
    <3> QED BY <2>1, <2>3, <3>1, <3>2, WriterCases
  <2>4. CASE Late
    <3>1. CASE \E p \in latePairs : LatePair(p[1], p[2], p[3])
      <4>1. PICK p \in latePairs : LatePair(p[1], p[2], p[3])
        BY <3>1
      <4>2. p[1] \in Link /\ p[2] \in Word
        BY <1>1 DEF TypeOK
      <4>3. \/ qty' = qty
            \/ ~PairRefused(p[1], p[2]) /\ qty' = [qty EXCEPT ![p[1]][p[2]] = p[3]]
        BY <4>1 DEF LatePair
      <4> QED BY <2>1, <2>2, <4>2, <4>3
    <3>2. CASE ~\E p \in latePairs : LatePair(p[1], p[2], p[3])
      BY <2>1, <2>4, <3>2 DEF Late, LateUrl, LateKeyword
    <3> QED BY <3>1, <3>2
  <2>5. CASE UNCHANGED vars
    BY <2>1, <2>5 DEF vars, tableVars
  <2> QED BY <2>3, <2>4, <2>5 DEF Next
<1>3. IsFiniteSet(urls')
  <2>1. urls' = urls \/ \E l : urls' = urls \cup {l}
    <3>1. ASSUME NEW c \in Client, Step(c) PROVE urls' = urls \/ \E l : urls' = urls \cup {l}
      BY <3>1 DEF Step, addLink, Call, FindUrl, InsertUrl, CommitUrl, FindKeyword,
                  InsertKeyword, InsertPair, Return, Fail, FailLate, Restart, tableVars
    <3>2. CASE Late
      BY <3>2 DEF Late, LateUrl, LateKeyword, LatePair
    <3>3. CASE UNCHANGED vars
      BY <3>3 DEF vars, tableVars
    <3> QED BY <3>1, <3>2, <3>3 DEF Next
  <2>2. IsFiniteSet(urls)
    BY DEF Rows
  <2> QED BY <2>1, <2>2, FS_AddElement
<1> QED BY <1>1, <1>2, <1>3 DEF Rows

\* The join of getUrl leaves out no row of the third table.
LEMMA GetUrlReads ==
  ASSUME Rows, NEW l \in Link, NEW k \in Word
  PROVE  /\ getUrl(k)[l] = qty[l][k] /\ qty[l][k] \in Nat
         /\ qty[l][k] > 0 => l \in urls
<1>1. qty[l][k] \in Nat /\ (l \notin urls => qty[l][k] = 0)
  BY DEF Rows, OwnInv, TypeOK, Unborn, NoWords
<1> QED BY <1>1 DEF Rows, getUrl

-------------------------------------------------------------------------------
(* The relevance of the urls *)

SearchType ==
  /\ spc \in {"idle", "asking", "answered"}
  /\ query \in Seq(QueryToken)
  /\ rest \in Seq(Word)
  /\ db_result \in [Link -> Nat]
  /\ page \in {"none", "bad_request", "no_matches", "results"}
  /\ qtyBefore \in [Link -> [Word -> Nat]]

\* The keywords getUrl was called with.
AskedFor == QueryWords \ ToSet(rest)

\* What was read so far lies between the index as it was at the beginning of
\* the request and as it is now.
AskInv ==
  /\ SearchType
  /\ spc # "answered" => page = "none"
  /\ spc = "idle" => db_result = [l \in Link |-> 0]
  /\ spc = "asking" =>
       /\ NoRepeats(rest) /\ ToSet(rest) \subseteq QueryWords
       /\ \A l \in Link : /\ SumOver(qtyBefore[l], AskedFor) <= db_result[l]
                          /\ db_result[l] <= SumOver(qty[l], AskedFor)
  /\ \A l \in Link : \A w \in Word : qtyBefore[l][w] <= qty[l][w]
  /\ \A l \in Link : db_result[l] > 0 => l \in urls
  /\ NoMatchesHonest

LEMMA FiniteRange ==
  ASSUME NEW A, NEW s \in Seq(A) PROVE IsFiniteSet(ToSet(s))
<1>1. Len(s) \in Nat /\ DOMAIN s = 1..Len(s)
  OBVIOUS
<1>2. IsFiniteSet(1..Len(s))
  BY <1>1, FS_Interval
<1>3. [i \in 1..Len(s) |-> s[i]] \in Surjection(1..Len(s), ToSet(s))
  BY <1>1 DEF Surjection, ToSet
<1> QED BY <1>2, <1>3, FS_Surjection

LEMMA QueryWordsFinite ==
  ASSUME query \in Seq(QueryToken)
  PROVE  /\ IsFiniteSet(QueryWords) /\ QueryWords \subseteq Word
         /\ QueryWords = ToSet(getKeyword(query))
         /\ \A T : IsFiniteSet(QueryWords \ T)
<1>1. QueryWords = ToSet(getKeyword(query)) /\ getKeyword(query) \in Seq(Word)
  BY KeywordsOnce DEF QueryWords
<1>2. IsFiniteSet(QueryWords)
  BY <1>1, FiniteRange
<1>3. QueryWords \subseteq Word
  BY <1>1 DEF ToSet
<1>4. ASSUME NEW T PROVE IsFiniteSet(QueryWords \ T)
  BY <1>2, FS_Subset
<1> QED BY <1>1, <1>2, <1>3, <1>4

\* Asking for the first keyword of a list without repetitions.
LEMMA NextKeyword ==
  ASSUME NEW s \in Seq(Word), s # <<>>, NoRepeats(s)
  PROVE  /\ Head(s) \in ToSet(s) /\ Head(s) \in Word
         /\ Tail(s) \in Seq(Word) /\ NoRepeats(Tail(s))
         /\ ToSet(Tail(s)) = ToSet(s) \ {Head(s)}
<1>1. /\ Len(s) \in Nat \ {0} /\ DOMAIN s = 1..Len(s) /\ Head(s) = s[1] /\ s[1] \in Word
      /\ Tail(s) \in Seq(Word) /\ Len(Tail(s)) = Len(s) - 1
      /\ \A i \in 1..(Len(s) - 1) : Tail(s)[i] = s[i + 1]
  BY HeadTailProperties
<1>2. DOMAIN Tail(s) = 1..(Len(s) - 1)
  BY <1>1
<1> DEFINE t == Tail(s)
<1> HIDE DEF t
<1>3. NoRepeats(t)
  BY <1>1 DEF t, NoRepeats
<1>4. ASSUME NEW x PROVE x \in ToSet(t) <=> x \in ToSet(s) /\ x # s[1]
  <2>1. ASSUME x \in ToSet(t) PROVE x \in ToSet(s) /\ x # s[1]
    <3>1. PICK i \in 1..(Len(s) - 1) : x = s[i + 1]
      BY <1>1, <1>2, <2>1 DEF t, ToSet
    <3>2. i + 1 \in 1..Len(s) /\ i + 1 # 1 /\ 1 \in 1..Len(s)
      BY <1>1
    <3> QED BY <1>1, <3>1, <3>2 DEF ToSet, NoRepeats
  <2>2. ASSUME x \in ToSet(s), x # s[1] PROVE x \in ToSet(t)
    <3>1. PICK i \in 1..Len(s) : x = s[i]
      BY <1>1, <2>2 DEF ToSet
    <3>2. i - 1 \in 1..(Len(s) - 1) /\ (i - 1) + 1 = i
      BY <1>1, <2>2, <3>1
    <3>3. t[i - 1] = x
      BY <1>1, <3>1, <3>2 DEF t
    <3> QED BY <1>2, <3>2, <3>3 DEF t, ToSet
  <2> QED BY <2>1, <2>2
<1>5. Head(s) \in ToSet(s)
  BY <1>1 DEF ToSet
<1>6. ToSet(t) = ToSet(s) \ {Head(s)}
  BY <1>1, <1>4
<1> QED BY <1>1, <1>3, <1>5, <1>6 DEF t

LEMMA AskInvInit == Init /\ SearchInit => AskInv
<1> SUFFICES ASSUME Init, SearchInit PROVE AskInv
  OBVIOUS
<1>1. qty \in [Link -> [Word -> Nat]]
  BY TypeCorrectInit DEF TypeOK
<1>2. SearchType
  BY <1>1, <<>> \in Seq(QueryToken), <<>> \in Seq(Word) DEF SearchInit, SearchType
<1>3. \A l \in Link : \A w \in Word : qtyBefore[l][w] <= qty[l][w]
  BY <1>1 DEF SearchInit
<1>4. spc = "idle" /\ page = "none" /\ db_result = [l \in Link |-> 0]
  BY DEF SearchInit
<1> QED BY <1>2, <1>3, <1>4 DEF AskInv, NoMatchesHonest

SearchStep == SearchNext /\ UNCHANGED vars

LEMMA PostKeeps ==
  ASSUME Rows, AskInv, NEW q \in Queries, Post(q), UNCHANGED vars
  PROVE  AskInv'
<1>1. q \in Seq(QueryToken)
  BY SearchAssumption DEF QueryToken
<1>2. /\ getKeyword(q) \in Seq(Word) /\ NoRepeats(getKeyword(q))
      /\ ToSet(getKeyword(q)) = {Keyword[t] : t \in ToSet(q) \ Rejected}
  BY <1>1, KeywordsOnce
<1>3. /\ query' = q /\ rest' = getKeyword(q) /\ qtyBefore' = qty /\ db_result' = db_result
      /\ qty' = qty /\ urls' = urls
      /\ db_result = [l \in Link |-> 0]
      /\ page = "none"
      /\ \/ spc' = "answered" /\ page' = "bad_request"
         \/ spc' = "asking" /\ page' = "none"
  BY DEF Post, AskInv, vars, tableVars
<1>4. qty \in [Link -> [Word -> Nat]]
  BY DEF Rows, OwnInv, TypeOK
<1>5. SearchType'
  BY <1>1, <1>2, <1>3, <1>4 DEF SearchType, AskInv
<1>6. QueryWords' = ToSet(rest')
  BY <1>2, <1>3 DEF QueryWords
<1>7. AskedFor' = {}
  BY <1>6 DEF AskedFor
<1>8. ASSUME NEW l \in Link
      PROVE  SumOver(qtyBefore'[l], AskedFor') <= db_result'[l] /\ db_result'[l] <= SumOver(qty'[l], AskedFor')
  <2>1. SumOver(qtyBefore'[l], {}) = 0 /\ SumOver(qty'[l], {}) = 0
    BY FS_EmptySet, SumIs
  <2>2. db_result'[l] = 0
    BY <1>3
  <2> QED BY <1>7, <2>1, <2>2
<1>9. \A l \in Link : \A w \in Word : qtyBefore'[l][w] <= qty'[l][w]
  BY <1>3, <1>4
<1>10. NoRepeats(rest') /\ ToSet(rest') \subseteq QueryWords'
  BY <1>2, <1>3, <1>6
<1>11. \A l \in Link : db_result'[l] > 0 => l \in urls'
  BY <1>3
<1>12. NoMatchesHonest' /\ (spc' # "answered" => page' = "none") /\ spc' # "idle"
  BY <1>3 DEF NoMatchesHonest
<1> QED BY <1>5, <1>8, <1>9, <1>10, <1>11, <1>12 DEF AskInv

LEMMA AskKeeps ==
  ASSUME Rows, AskInv, Ask, UNCHANGED vars
  PROVE  AskInv'
<1> DEFINE k == Head(rest)
<1>1. /\ rest \in Seq(Word) /\ rest # <<>> /\ NoRepeats(rest) /\ ToSet(rest) \subseteq QueryWords
      /\ spc = "asking" /\ spc' = spc /\ query' = query /\ page' = page /\ page = "none"
      /\ qtyBefore' = qtyBefore /\ rest' = Tail(rest) /\ qty' = qty /\ urls' = urls
  BY DEF Ask, AskInv, SearchType, vars, tableVars
<1>2. /\ k \in ToSet(rest) /\ k \in Word
      /\ Tail(rest) \in Seq(Word) /\ NoRepeats(Tail(rest))
      /\ ToSet(Tail(rest)) = ToSet(rest) \ {k}
  BY <1>1, NextKeyword
<1>3. \A l \in Link : db_result'[l] = db_result[l] + getUrl(k)[l]
  BY DEF Ask
<1>4. db_result' = [l \in Link |-> db_result'[l]]
  BY DEF Ask
<1> HIDE DEF k
<1>5. /\ qty \in [Link -> [Word -> Nat]] /\ qtyBefore \in [Link -> [Word -> Nat]]
      /\ db_result \in [Link -> Nat] /\ query \in Seq(QueryToken)
  BY DEF Rows, OwnInv, TypeOK, AskInv, SearchType
<1>6. ASSUME NEW l \in Link
      PROVE  /\ db_result'[l] = db_result[l] + qty[l][k]
             /\ db_result'[l] \in Nat
             /\ db_result'[l] > 0 => l \in urls
  <2>1. getUrl(k)[l] = qty[l][k] /\ qty[l][k] \in Nat /\ (qty[l][k] > 0 => l \in urls)
    BY <1>2, GetUrlReads
  <2>2. db_result[l] \in Nat /\ (db_result[l] > 0 => l \in urls)
    BY <1>5 DEF AskInv
  <2> QED BY <1>3, <2>1, <2>2
<1>7. QueryWords' = QueryWords
  BY <1>1 DEF QueryWords
<1>8. AskedFor' \ {k} = AskedFor /\ k \in AskedFor'
  BY <1>1, <1>2, <1>7 DEF AskedFor
<1>9. IsFiniteSet(AskedFor') /\ AskedFor' \subseteq Word
  BY <1>5, <1>7, QueryWordsFinite DEF AskedFor
<1>10. ASSUME NEW l \in Link
       PROVE  SumOver(qtyBefore'[l], AskedFor') <= db_result'[l] /\ db_result'[l] <= SumOver(qty'[l], AskedFor')
  <2>1. SumOver(qtyBefore[l], AskedFor') = qtyBefore[l][k] + SumOver(qtyBefore[l], AskedFor)
    BY <1>5, <1>8, <1>9, SumIs
  <2>2. SumOver(qty[l], AskedFor') = qty[l][k] + SumOver(qty[l], AskedFor)
    BY <1>5, <1>8, <1>9, SumIs
  <2>3. IsFiniteSet(AskedFor) /\ AskedFor \subseteq Word
    BY <1>8, <1>9, FS_RemoveElement
  <2>4. SumOver(qtyBefore[l], AskedFor) \in Nat /\ SumOver(qty[l], AskedFor) \in Nat
    BY <1>5, <2>3, SumIs
  <2>5. /\ SumOver(qtyBefore[l], AskedFor) <= db_result[l] /\ db_result[l] <= SumOver(qty[l], AskedFor)
        /\ qtyBefore[l][k] <= qty[l][k]
    BY <1>1, <1>2 DEF AskInv
  <2>6. db_result[l] \in Nat /\ qty[l][k] \in Nat /\ qtyBefore[l][k] \in Nat
    BY <1>2, <1>5
  <2>7. db_result'[l] = db_result[l] + qty[l][k]
    BY <1>6
  <2> QED BY <1>1, <2>1, <2>2, <2>4, <2>5, <2>6, <2>7
<1>11. SearchType'
  BY <1>1, <1>2, <1>4, <1>5, <1>6 DEF SearchType
<1>12. NoRepeats(rest') /\ ToSet(rest') \subseteq QueryWords'
  BY <1>1, <1>2, <1>7
<1>13. /\ \A l \in Link : \A w \in Word : qtyBefore'[l][w] <= qty'[l][w]
       /\ \A l \in Link : db_result'[l] > 0 => l \in urls'
  BY <1>1, <1>6 DEF AskInv
<1> QED BY <1>1, <1>10, <1>11, <1>12, <1>13 DEF AskInv, NoMatchesHonest

\* When all keywords have been asked for, the relevance of every url is
\* bounded by the index before and after.
LEMMA AllAsked ==
  ASSUME AskInv, spc = "asking", rest = <<>>, NEW l \in Link
  PROVE  Relevance(qtyBefore, l) <= db_result[l] /\ db_result[l] <= Relevance(qty, l)
<1>1. ToSet(rest) = {}
  BY DOMAIN <<>> = {} DEF ToSet
<1>2. AskedFor = QueryWords
  BY <1>1 DEF AskedFor
<1>3. Relevance(qtyBefore, l) = SumOver(qtyBefore[l], QueryWords) /\ Relevance(qty, l) = SumOver(qty[l], QueryWords)
  BY DEF Relevance, SumOver
<1> QED BY <1>2, <1>3 DEF AskInv

\* The relevance of a url in a fixed state of the index.
RelevanceSum == \A l \in Link : Relevance(qtyBefore, l) = SumOver(qtyBefore[l], QueryWords)

LEMMA RelevanceIsSum == RelevanceSum /\ RelevanceSum'
<1>1. RelevanceSum
  BY DEF RelevanceSum, Relevance, SumOver
<1> QED BY <1>1, PTL

LEMMA RelevanceNat ==
  ASSUME AskInv, NEW l \in Link
  PROVE  Relevance(qtyBefore, l) \in Nat
<1>1. IsFiniteSet(QueryWords) /\ QueryWords \subseteq Word
  BY QueryWordsFinite DEF AskInv, SearchType
<1>2. \A k \in QueryWords : qtyBefore[l][k] \in Nat
  BY <1>1 DEF AskInv, SearchType
<1>3. SumOver(qtyBefore[l], QueryWords) \in Nat
  BY <1>1, <1>2, SumIs
<1> QED BY <1>3 DEF Relevance, SumOver

LEMMA AnswerKeeps ==
  ASSUME Rows, AskInv, Answer, UNCHANGED vars
  PROVE  AskInv'
<1>1. /\ spc = "asking" /\ rest = <<>> /\ spc' = "answered"
      /\ page' \in {"results", "no_matches"}
      /\ page' = "no_matches" => \A l \in Link : ~(db_result[l] > 0)
      /\ UNCHANGED <<query, rest, db_result, qtyBefore, qty, urls>>
  BY DEF Answer, vars, tableVars
<1>2. NoMatchesHonest'
  <2> SUFFICES ASSUME page' = "no_matches", NEW l \in Link
               PROVE  Relevance(qtyBefore, l)' = 0
    BY DEF NoMatchesHonest
  <2>1. Relevance(qtyBefore, l)' = Relevance(qtyBefore, l)
    <3>1. QueryWords' = QueryWords
      BY <1>1 DEF QueryWords
    <3> QED BY <1>1, <3>1, RelevanceIsSum DEF RelevanceSum
  <2>2. Relevance(qtyBefore, l) <= db_result[l] /\ ~(db_result[l] > 0)
    BY <1>1, AllAsked
  <2>3. db_result[l] \in Nat /\ Relevance(qtyBefore, l) \in Nat
    BY RelevanceNat DEF AskInv, SearchType
  <2> QED BY <2>1, <2>2, <2>3
<1>3. SearchType'
  BY <1>1 DEF AskInv, SearchType
<1> QED BY <1>1, <1>2, <1>3 DEF AskInv

\* A crawler writes while the request is under way.
LEMMA CrawlerKeeps ==
  ASSUME Rows, Rows', AskInv, [Next]_vars, UNCHANGED searchVars
  PROVE  AskInv'
<1>1. UNCHANGED <<spc, query, rest, db_result, page, table, qtyBefore>>
  BY DEF searchVars
<1>2. Grows
  BY GrowsStep DEF Rows
<1>3. qty \in [Link -> [Word -> Nat]] /\ qty' \in [Link -> [Word -> Nat]]
  BY DEF Rows, OwnInv, TypeOK
<1>4. \A l \in Link : \A w \in Word : qty[l][w] <= qty'[l][w]
  BY <1>2, <1>3 DEF Grows
<1>5. QueryWords' = QueryWords /\ AskedFor' = AskedFor
  BY <1>1 DEF QueryWords, AskedFor
<1>6. SearchType /\ SearchType'
  BY <1>1 DEF AskInv, SearchType
<1>7. IsFiniteSet(AskedFor) /\ AskedFor \subseteq Word
  BY <1>6, QueryWordsFinite DEF AskedFor, SearchType
<1>8. ASSUME NEW l \in Link, spc = "asking"
      PROVE  /\ SumOver(qtyBefore'[l], AskedFor') <= db_result'[l]
             /\ db_result'[l] <= SumOver(qty'[l], AskedFor')
  <2>1. SumOver(qtyBefore[l], AskedFor) <= db_result[l] /\ db_result[l] <= SumOver(qty[l], AskedFor)
    BY <1>8 DEF AskInv
  <2>2. \A k \in AskedFor : qty[l][k] \in Nat /\ qty'[l][k] \in Nat /\ qty[l][k] <= qty'[l][k]
    BY <1>3, <1>4, <1>7
  <2>3. SumOver(qty[l], AskedFor) <= SumOver(qty'[l], AskedFor)
    BY <1>7, <2>2, SumMonotone
  <2>4. SumOver(qty[l], AskedFor) \in Nat /\ SumOver(qty'[l], AskedFor) \in Nat
    BY <1>7, <2>2, SumIs
  <2>5. db_result[l] \in Nat
    BY <1>6 DEF SearchType
  <2> QED BY <1>1, <1>5, <2>1, <2>3, <2>4, <2>5
<1>9. \A l \in Link : \A w \in Word : qtyBefore'[l][w] <= qty'[l][w]
  <2>1. \A l \in Link : \A w \in Word : qtyBefore[l][w] <= qty[l][w] /\ qtyBefore[l][w] \in Nat
    BY <1>6 DEF AskInv, SearchType
  <2> QED BY <1>1, <1>3, <1>4, <2>1
<1>10. \A l \in Link : db_result'[l] > 0 => l \in urls'
  BY <1>1, <1>2 DEF AskInv, Grows
<1>11. NoMatchesHonest'
  BY <1>1, <1>5, RelevanceIsSum DEF AskInv, NoMatchesHonest, RelevanceSum
<1>12. spc' = "asking" => NoRepeats(rest') /\ ToSet(rest') \subseteq QueryWords'
  BY <1>1, <1>5 DEF AskInv
<1>13. (spc' # "answered" => page' = "none") /\ (spc' = "idle" => db_result' = [l \in Link |-> 0])
  BY <1>1 DEF AskInv
<1> QED BY <1>1, <1>6, <1>8, <1>9, <1>10, <1>11, <1>12, <1>13 DEF AskInv

SearchAction ==
  [\/ SearchNext /\ UNCHANGED vars
   \/ Next /\ UNCHANGED searchVars]_<<vars, searchVars>>

LEMMA AskInvStep == Rows /\ AskInv /\ SearchAction => Rows' /\ AskInv'
<1> SUFFICES ASSUME Rows, AskInv, SearchAction PROVE Rows' /\ AskInv'
  OBVIOUS
<1>1. [Next]_vars
  BY DEF SearchAction
<1>2. Rows'
  BY <1>1, RowsStep
<1>3. CASE SearchNext /\ UNCHANGED vars
  BY <1>2, <1>3, PostKeeps, AskKeeps, AnswerKeeps DEF SearchNext
<1>4. CASE UNCHANGED searchVars
  BY <1>1, <1>2, <1>4, CrawlerKeeps
<1> QED BY <1>2, <1>3, <1>4 DEF SearchAction

LEMMA AskInvariant == SearchSpec => [](Rows /\ AskInv)
<1>1. Init /\ SearchInit => Rows /\ AskInv
  BY RowsInit, AskInvInit
<1> QED BY <1>1, AskInvStep, PTL DEF SearchSpec, SearchAction

\* "No matches found" is said only when no indexed page had a requested word
\* at the time the request came in, whatever crawlers wrote meanwhile.
THEOREM NoMatchesIsHonest == SearchSpec => []NoMatchesHonest
<1>1. AskInv => NoMatchesHonest
  BY DEF AskInv
<1> QED BY <1>1, AskInvariant, PTL

\* An answer put together from several states of the index is bounded by the
\* first and by the last of them, for any number of crawlers and keywords.
THEOREM RelevanceIsBounded == SearchSpec => RelevanceBounded
<1> DEFINE Bounded ==
      page' \in {"results", "no_matches"} /\ page = "none" =>
        \A l \in Link : db_result[l] \in Relevance(qtyBefore, l)..Relevance(qty, l)
<1>1. ASSUME Rows, AskInv, SearchAction PROVE [Bounded]_<<vars, searchVars>>
  <2> SUFFICES ASSUME page' \in {"results", "no_matches"}, page = "none", NEW l \in Link
               PROVE  db_result[l] \in Relevance(qtyBefore, l)..Relevance(qty, l)
    OBVIOUS
  <2>1. Answer
    BY <1>1 DEF SearchAction, SearchNext, Post, Ask, searchVars
  <2>2. Relevance(qtyBefore, l) <= db_result[l] /\ db_result[l] <= Relevance(qty, l)
    BY <1>1, <2>1, AllAsked DEF Answer
  <2>3. Relevance(qtyBefore, l) \in Nat /\ db_result[l] \in Nat
    BY <1>1, RelevanceNat DEF AskInv, SearchType
  <2>4. Relevance(qty, l) \in Nat
    <3>1. IsFiniteSet(QueryWords) /\ QueryWords \subseteq Word
      BY <1>1, QueryWordsFinite DEF AskInv, SearchType
    <3>2. \A k \in QueryWords : qty[l][k] \in Nat
      BY <1>1, <3>1 DEF Rows, OwnInv, TypeOK
    <3>3. SumOver(qty[l], QueryWords) \in Nat
      BY <3>1, <3>2, SumIs
    <3> QED BY <3>3 DEF Relevance, SumOver
  <2> QED BY <2>2, <2>3, <2>4
<1>2. Rows /\ AskInv /\ SearchAction => [Bounded]_<<vars, searchVars>>
  BY <1>1
<1> QED BY <1>2, AskInvariant, PTL DEF SearchSpec, SearchAction, RelevanceBounded

-------------------------------------------------------------------------------
(* The order of the answer *)

LEMMA MinIs ==
  ASSUME NEW T, T \subseteq Nat, T # {}
  PROVE  Min(T) \in T /\ \A m \in T : Min(T) <= m
<1>1. PICK n \in T : \A m \in T : n <= m
  BY LeastNumber
<1> QED BY <1>1 DEF Min

AnswerRow == [url : Link, relevance : Nat]

rowOf(l) == [url |-> l, relevance |-> db_result[l]]

LEMMA InsertAtIs ==
  ASSUME NEW A, NEW s \in Seq(A), NEW e \in A, NEW p \in 1..(Len(s) + 1)
  PROVE  /\ InsertAt(s, p, e) \in Seq(A)
         /\ Len(InsertAt(s, p, e)) = Len(s) + 1
         /\ \A i \in 1..(p - 1) : InsertAt(s, p, e)[i] = s[i]
         /\ InsertAt(s, p, e)[p] = e
         /\ \A i \in (p + 1)..(Len(s) + 1) : InsertAt(s, p, e)[i] = s[i - 1]
<1> DEFINE a == SubSeq(s, 1, p - 1)
           b == SubSeq(s, p, Len(s))
           m == <<e>>
           am == a \o m
           all == am \o b
<1>0. Len(s) \in Nat /\ p \in Nat /\ p >= 1 /\ p <= Len(s) + 1 /\ \A i \in 1..Len(s) : s[i] \in A
  OBVIOUS
<1>1. a \in Seq(A) /\ Len(a) = p - 1 /\ \A i \in 1..(p - 1) : a[i] = s[i]
  <2>1. \A i \in 1..(p - 1) : s[i] \in A
    BY <1>0
  <2>2. CASE p = 1
    BY <2>2
  <2>3. CASE p # 1
    <3>1. 1 <= p - 1
      BY <1>0, <2>3
    <3> QED BY <1>0, <2>1, <3>1, SubSeqProperties
  <2> QED BY <2>2, <2>3
<1>2. b \in Seq(A) /\ Len(b) = Len(s) + 1 - p /\ \A i \in 1..(Len(s) + 1 - p) : b[i] = s[p + i - 1]
  <2>1. \A i \in p..Len(s) : s[i] \in A
    BY <1>0
  <2>2. CASE p = Len(s) + 1
    BY <1>0, <2>2
  <2>3. CASE p # Len(s) + 1
    <3>1. p <= Len(s)
      BY <1>0, <2>3
    <3> QED BY <1>0, <2>1, <3>1, SubSeqProperties
  <2> QED BY <2>2, <2>3
<1>3. m \in Seq(A) /\ Len(m) = 1 /\ m[1] = e
  OBVIOUS
<1>4. InsertAt(s, p, e) = all
  BY DEF InsertAt
<1> HIDE DEF a, b, m
<1>5. am \in Seq(A) /\ Len(am) = p /\ (\A i \in 1..(p - 1) : am[i] = s[i]) /\ am[p] = e
  <2>1. am \in Seq(A) /\ Len(am) = Len(a) + Len(m)
          /\ \A i \in 1..(Len(a) + Len(m)) : am[i] = IF i <= Len(a) THEN a[i] ELSE m[i - Len(a)]
    BY <1>1, <1>3, ConcatProperties
  <2> HIDE DEF am
  <2>2. Len(am) = p
    BY <1>0, <1>1, <1>3, <2>1
  <2>3. \A i \in 1..(p - 1) : am[i] = s[i]
    BY <1>0, <1>1, <1>3, <2>1
  <2>4. p \in 1..(Len(a) + Len(m)) /\ ~(p <= Len(a)) /\ p - Len(a) = 1
    BY <1>0, <1>1, <1>3
  <2>5. am[p] = e
    BY <1>3, <2>1, <2>4
  <2> QED BY <2>1, <2>2, <2>3, <2>5
<1> HIDE DEF am
<1>6. all \in Seq(A) /\ Len(all) = Len(am) + Len(b)
        /\ \A i \in 1..(Len(am) + Len(b)) : all[i] = IF i <= Len(am) THEN am[i] ELSE b[i - Len(am)]
  BY <1>2, <1>5, ConcatProperties
<1> HIDE DEF all
<1>7. Len(all) = Len(s) + 1
  BY <1>0, <1>2, <1>5, <1>6
<1>8. \A i \in 1..p : all[i] = am[i]
  BY <1>0, <1>2, <1>5, <1>6
<1>9. ASSUME NEW i \in (p + 1)..(Len(s) + 1) PROVE all[i] = s[i - 1]
  <2>1. i \in 1..(Len(am) + Len(b)) /\ ~(i <= Len(am)) /\ i - Len(am) = i - p
        /\ i - p \in 1..(Len(s) + 1 - p) /\ p + (i - p) - 1 = i - 1
    BY <1>0, <1>2, <1>5
  <2> QED BY <1>2, <1>6, <2>1
<1>10. p \in 1..p /\ \A i \in 1..(p - 1) : i \in 1..p
  BY <1>0
<1> QED BY <1>4, <1>5, <1>6, <1>7, <1>8, <1>9, <1>10

\* A row goes behind those with at least its relevance, and before the first
\* one with less.
LEMMA MultimapInsertIs ==
  ASSUME NEW rows \in Seq(AnswerRow), NEW row \in AnswerRow
  PROVE  \E p \in 1..(Len(rows) + 1) :
           /\ MultimapInsert(rows, row) \in Seq(AnswerRow)
           /\ Len(MultimapInsert(rows, row)) = Len(rows) + 1
           /\ \A i \in 1..(p - 1) : MultimapInsert(rows, row)[i] = rows[i]
           /\ MultimapInsert(rows, row)[p] = row
           /\ \A i \in (p + 1)..(Len(rows) + 1) : MultimapInsert(rows, row)[i] = rows[i - 1]
           /\ \A i \in 1..(p - 1) : rows[i].relevance >= row.relevance
           /\ p <= Len(rows) => rows[p].relevance < row.relevance
<1> DEFINE behind == {i \in DOMAIN rows : rows[i].relevance < row.relevance}
           p == Min(behind \cup {Len(rows) + 1})
<1>1. Len(rows) \in Nat /\ DOMAIN rows = 1..Len(rows)
  OBVIOUS
<1>2. behind \cup {Len(rows) + 1} \subseteq 1..(Len(rows) + 1)
  BY <1>1
<1>3. p \in behind \cup {Len(rows) + 1} /\ \A i \in behind \cup {Len(rows) + 1} : p <= i
  <2> HIDE DEF behind
  <2>1. behind \cup {Len(rows) + 1} \subseteq Nat /\ behind \cup {Len(rows) + 1} # {}
    BY <1>1, <1>2
  <2> QED BY <2>1, MinIs
<1>4. MultimapInsert(rows, row) = InsertAt(rows, p, row)
  BY DEF MultimapInsert
<1> HIDE DEF p
<1>5. \A i \in 1..(p - 1) : rows[i].relevance >= row.relevance
  <2> SUFFICES ASSUME NEW i \in 1..(p - 1) PROVE rows[i].relevance >= row.relevance
    OBVIOUS
  <2>1. p \in 1..(Len(rows) + 1)
    BY <1>2, <1>3
  <2>2. i \in 1..Len(rows) /\ ~(p <= i)
    BY <1>1, <2>1
  <2>3. i \notin behind
    BY <1>3, <2>2
  <2>4. rows[i] \in AnswerRow
    BY <2>2
  <2>5. rows[i].relevance \in Nat /\ row.relevance \in Nat
    BY <2>4 DEF AnswerRow
  <2> QED BY <1>1, <2>2, <2>3, <2>5
<1>6. p <= Len(rows) => rows[p].relevance < row.relevance
  BY <1>1, <1>3
<1>7. p \in 1..(Len(rows) + 1)
  BY <1>2, <1>3
<1> HIDE DEF behind
<1> DEFINE new == InsertAt(rows, p, row)
<1>8. /\ new \in Seq(AnswerRow)
      /\ Len(new) = Len(rows) + 1
      /\ \A i \in 1..(p - 1) : new[i] = rows[i]
      /\ new[p] = row
      /\ \A i \in (p + 1)..(Len(rows) + 1) : new[i] = rows[i - 1]
  <2>1. PICK A : A = AnswerRow
    OBVIOUS
  <2>2. rows \in Seq(A) /\ row \in A
    BY <2>1
  <2>3. /\ new \in Seq(A)
        /\ Len(new) = Len(rows) + 1
        /\ \A i \in 1..(p - 1) : new[i] = rows[i]
        /\ new[p] = row
        /\ \A i \in (p + 1)..(Len(rows) + 1) : new[i] = rows[i - 1]
    BY <1>7, <2>2, InsertAtIs
  <2> HIDE DEF new
  <2> QED BY <2>1, <2>3
<1> HIDE DEF new
<1>9. MultimapInsert(rows, row) = new
  BY <1>4 DEF new
<1> QED BY <1>5, <1>6, <1>7, <1>8, <1>9

Found == {l \in Link : db_result[l] > 0}

\* The rows of the urls of s, ranked.
Ranked(rows, s) ==
  /\ rows \in Seq(AnswerRow)
  /\ Len(rows) = Cardinality(s)
  /\ \A i \in 1..Len(rows) : rows[i].url \in s /\ rows[i].relevance = db_result[rows[i].url]
  /\ \A l \in s : \E i \in 1..Len(rows) : rows[i].url = l
  /\ \A i, j \in 1..Len(rows) : i < j => Before(rows[i].url, rows[j].url)

LEMMA RankedStep ==
  ASSUME db_result \in [Link -> Nat], NEW s, s \subseteq Link, IsFiniteSet(s),
         NEW x \in s, \A l \in s : x >= l,
         NEW rows, Ranked(rows, s \ {x})
  PROVE  Ranked(MultimapInsert(rows, rowOf(x)), s)
<1>0. s \subseteq Nat /\ x \in Link
  BY SearchAssumption
<1>1. rowOf(x) \in AnswerRow /\ rowOf(x).url = x /\ rowOf(x).relevance = db_result[x]
  BY <1>0 DEF rowOf, AnswerRow
<1>2. rows \in Seq(AnswerRow) /\ Len(rows) \in Nat /\ Len(rows) = Cardinality(s \ {x})
  BY DEF Ranked
<1>3. Cardinality(s) = Len(rows) + 1
  <2>1. Cardinality(s) \in Nat /\ Cardinality(s \ {x}) = Cardinality(s) - 1
    BY FS_RemoveElement, FS_CardinalityType
  <2> QED BY <1>2, <2>1
<1> DEFINE new == MultimapInsert(rows, rowOf(x))
           n == Len(rows)
<1>4. PICK p \in 1..(Len(rows) + 1) :
        /\ new \in Seq(AnswerRow)
        /\ Len(new) = Len(rows) + 1
        /\ \A i \in 1..(p - 1) : new[i] = rows[i]
        /\ new[p] = rowOf(x)
        /\ \A i \in (p + 1)..(Len(rows) + 1) : new[i] = rows[i - 1]
        /\ \A i \in 1..(p - 1) : rows[i].relevance >= rowOf(x).relevance
        /\ p <= Len(rows) => rows[p].relevance < rowOf(x).relevance
  BY <1>1, <1>2, MultimapInsertIs
<1>5. /\ new \in Seq(AnswerRow)
      /\ Len(new) = n + 1
      /\ \A i \in 1..(p - 1) : new[i] = rows[i]
      /\ new[p] = rowOf(x)
      /\ \A i \in (p + 1)..(n + 1) : new[i] = rows[i - 1]
  BY <1>4
<1> HIDE DEF new
<1>6. p \in Nat /\ p >= 1 /\ p <= n + 1 /\ n \in Nat
  BY <1>2
<1>7. \A i \in 1..n : /\ rows[i].url \in s \ {x}
                      /\ rows[i].relevance = db_result[rows[i].url]
                      /\ rows[i].url \in Nat /\ rows[i].url \in Link
                      /\ db_result[rows[i].url] \in Nat
  BY <1>0 DEF Ranked
<1>13. \A i, j \in 1..n : i < j => Before(rows[i].url, rows[j].url)
  BY DEF Ranked, n
<1> HIDE DEF n
\* Rows before the new one, and behind it.
<1>8. ASSUME NEW i \in 1..(p - 1) PROVE i \in 1..n /\ Before(rows[i].url, x)
  <2>1. i \in 1..n
    BY <1>6
  <2>2. rows[i].relevance >= db_result[x]
    BY <1>1, <1>4
  <2>3. rows[i].url # x /\ rows[i].url \in s /\ x >= rows[i].url
    BY <1>7, <2>1
  <2>4. rows[i].url < x
    BY <1>0, <1>7, <2>1, <2>3
  <2>5. db_result[x] \in Nat
    BY <1>0
  <2> QED BY <1>7, <2>1, <2>2, <2>4, <2>5 DEF Before
<1>9. ASSUME NEW i \in p..n PROVE i \in 1..n /\ Before(x, rows[i].url)
  <2>1. i \in 1..n /\ p \in 1..n
    BY <1>6
  <2>2. rows[p].relevance < db_result[x]
    BY <1>1, <1>4, <1>6, <2>1 DEF n
  <2>3. i = p \/ Before(rows[p].url, rows[i].url)
    BY <1>13, <2>1
  <2>4. db_result[rows[i].url] <= db_result[rows[p].url]
    BY <1>7, <2>1, <2>3 DEF Before
  <2>5. db_result[x] \in Nat
    BY <1>0
  <2>6. db_result[rows[i].url] < db_result[x]
    BY <1>7, <2>1, <2>2, <2>4, <2>5
  <2> QED BY <2>1, <2>5, <2>6, <1>7 DEF Before
\* Where the rows have gone.
<1>10. ASSUME NEW i \in 1..(n + 1)
       PROVE  \/ i \in 1..(p - 1) /\ new[i] = rows[i]
              \/ i = p /\ new[i] = rowOf(x)
              \/ i \in (p + 1)..(n + 1) /\ i - 1 \in p..n /\ new[i] = rows[i - 1]
  <2>1. i \in 1..(p - 1) \/ i = p \/ (i \in (p + 1)..(n + 1) /\ i - 1 \in p..n)
    BY <1>6
  <2> QED BY <1>5, <2>1
<1>11. \A i \in 1..(n + 1) : new[i].url \in s /\ new[i].relevance = db_result[new[i].url]
  <2> SUFFICES ASSUME NEW i \in 1..(n + 1)
               PROVE  new[i].url \in s /\ new[i].relevance = db_result[new[i].url]
    OBVIOUS
  <2>1. CASE i \in 1..(p - 1) /\ new[i] = rows[i]
    BY <1>7, <1>8, <2>1
  <2>2. CASE i = p /\ new[i] = rowOf(x)
    BY <1>1, <2>2
  <2>3. CASE i - 1 \in p..n /\ new[i] = rows[i - 1]
    BY <1>7, <1>9, <2>3
  <2> QED BY <1>10, <2>1, <2>2, <2>3
<1>12. \A l \in s : \E i \in 1..(n + 1) : new[i].url = l
  <2> SUFFICES ASSUME NEW l \in s PROVE \E i \in 1..(n + 1) : new[i].url = l
    OBVIOUS
  <2>1. CASE l = x
    <3>1. p \in 1..(n + 1) /\ new[p].url = x
      BY <1>1, <1>5, <1>6
    <3> QED BY <2>1, <3>1
  <2>2. CASE l # x
    <3>1. PICK j \in 1..n : rows[j].url = l
      BY <2>2 DEF Ranked, n
    <3>2. CASE j < p
      <4>1. j \in 1..(p - 1) /\ j \in 1..(n + 1)
        BY <1>6, <3>2
      <4> QED BY <1>5, <3>1, <4>1
    <3>3. CASE ~(j < p)
      <4>1. j + 1 \in (p + 1)..(n + 1) /\ j + 1 \in 1..(n + 1) /\ (j + 1) - 1 = j
        BY <1>6, <3>3
      <4>2. new[j + 1] = rows[j]
        BY <1>5, <4>1
      <4> QED BY <3>1, <4>1, <4>2
    <3> QED BY <3>2, <3>3
  <2> QED BY <2>1, <2>2
<1>14. ASSUME NEW i \in 1..(n + 1), NEW j \in 1..(n + 1), i < j
       PROVE  Before(new[i].url, new[j].url)
  <2>1. CASE i = p
    <3>1. j - 1 \in p..n /\ new[j] = rows[j - 1]
      BY <1>6, <1>10, <1>14, <2>1
    <3> QED BY <1>1, <1>5, <1>9, <2>1, <3>1
  <2>2. CASE j = p
    <3>1. i \in 1..(p - 1) /\ new[i] = rows[i]
      BY <1>6, <1>10, <1>14, <2>2
    <3> QED BY <1>1, <1>5, <1>8, <2>2, <3>1
  <2>3. CASE i # p /\ j # p
    <3>1. ASSUME NEW k \in 1..(n + 1), k # p
          PROVE  \E a \in 1..n : /\ new[k] = rows[a]
                                 /\ (a = k /\ k < p) \/ (a = k - 1 /\ k > p)
      <4>1. CASE k < p
        <5>1. k \in 1..(p - 1) /\ k \in 1..n
          BY <1>6, <4>1
        <5> QED BY <1>5, <4>1, <5>1
      <4>2. CASE k > p
        <5>1. k \in (p + 1)..(n + 1) /\ k - 1 \in 1..n
          BY <1>6, <4>2
        <5> QED BY <1>5, <4>2, <5>1
      <4> QED BY <1>6, <3>1, <4>1, <4>2
    <3>2. PICK a \in 1..n : /\ new[i] = rows[a]
                            /\ (a = i /\ i < p) \/ (a = i - 1 /\ i > p)
      BY <2>3, <3>1
    <3>3. PICK b \in 1..n : /\ new[j] = rows[b]
                            /\ (b = j /\ j < p) \/ (b = j - 1 /\ j > p)
      BY <2>3, <3>1
    <3>4. a < b
      BY <1>6, <1>14, <3>2, <3>3
    <3> QED BY <1>13, <3>2, <3>3, <3>4
  <2> QED BY <2>1, <2>2, <2>3
<1>15. Len(new) = Cardinality(s) /\ Len(new) = n + 1
  BY <1>3, <1>5 DEF n
<1> QED BY <1>5, <1>11, <1>12, <1>14, <1>15 DEF Ranked, new

\* Copying db_result to the multimap is a recursion over the urls found.
LEMMA SortRecurs ==
  ASSUME db_result \in [Link -> Nat], IsFiniteSet(Found)
  PROVE  \E iter : /\ iter[{}] = <<>>
                   /\ \A s \in SUBSET Found : s # {} =>
                        iter[s] = MultimapInsert(iter[s \ {Max(s)}], rowOf(Max(s)))
                   /\ iter[Found] = db_result_sort
<1>1. PICK S : S = Found
  OBVIOUS
<1>2. PICK row : row = [l \in S |-> rowOf(l)]
  OBVIOUS
<1>3. IsFiniteSet(S) /\ S \subseteq Link /\ S \subseteq Nat
  BY <1>1, SearchAssumption DEF Found
<1>4. \A l \in S : row[l] = rowOf(l) /\ row[l] \in AnswerRow
  BY <1>2, <1>3 DEF rowOf, AnswerRow
<1> DEFINE ch == [s \in SUBSET S |-> Max(s)]
           step == [p \in (SUBSET S) \X Seq(AnswerRow) |->
                      IF p[1] = {} THEN <<>> ELSE MultimapInsert(p[2], row[ch[p[1]]])]
           Def(iter) == iter = [s \in SUBSET S |->
              IF s = {} THEN <<>> ELSE MultimapInsert(iter[s \ {Max(s)}], rowOf(Max(s)))]
<1>5. \A s \in SUBSET S : s # {} => ch[s] \in s
  <2> SUFFICES ASSUME NEW s \in SUBSET S, s # {} PROVE Max(s) \in s
    OBVIOUS
  <2>1. IsFiniteSet(s) /\ s \subseteq Nat
    BY <1>3, FS_Subset
  <2> QED BY <2>1, MaxIs
<1>6. step \in [(SUBSET S) \X Seq(AnswerRow) -> Seq(AnswerRow)]
  <2>1. ASSUME NEW p \in (SUBSET S) \X Seq(AnswerRow), p[1] # {}
        PROVE  MultimapInsert(p[2], row[ch[p[1]]]) \in Seq(AnswerRow)
    <3> HIDE DEF ch
    <3>1. row[ch[p[1]]] \in AnswerRow /\ p[2] \in Seq(AnswerRow)
      BY <1>4, <1>5, <2>1
    <3> QED BY <3>1, MultimapInsertIs
  <2> HIDE DEF ch
  <2> QED BY <2>1
<1>7. PICK iter \in [SUBSET S -> Seq(AnswerRow)] : Recurs(S, <<>>, ch, step, iter)
  <2> HIDE DEF ch, step
  <2>1. <<>> \in Seq(AnswerRow)
    OBVIOUS
  <2> QED BY <1>3, <1>5, <1>6, <2>1, RecursionExists
<1>8. ASSUME NEW s \in SUBSET S
      PROVE  iter[s] = IF s = {} THEN <<>> ELSE MultimapInsert(iter[s \ {Max(s)}], rowOf(Max(s)))
  <2> DEFINE before == iter[s \ {ch[s]}]
  <2>1. before \in Seq(AnswerRow)
    OBVIOUS
  <2>2. ch[s] = Max(s)
    OBVIOUS
  <2> HIDE DEF ch, before
  <2>3. s # {} => step[<<s, before>>] = MultimapInsert(before, row[ch[s]])
    BY <2>1
  <2>4. s # {} => row[ch[s]] = rowOf(ch[s])
    BY <1>4, <1>5
  <2> HIDE DEF step
  <2> QED BY <1>7, <2>2, <2>3, <2>4 DEF Recurs, before
<1>9. Def(iter)
  BY <1>8
<1>10. db_result_sort = (CHOOSE f : Def(f))[S]
  BY <1>1 DEF db_result_sort, MapThenFoldSet, rowOf, Found
<1> DEFINE chosen == CHOOSE f : Def(f)
<1>11. Def(chosen)
  BY <1>9
<1> HIDE DEF chosen
<1>12. ASSUME NEW s \in SUBSET S
       PROVE  chosen[s] =
                IF s = {} THEN <<>> ELSE MultimapInsert(chosen[s \ {Max(s)}], rowOf(Max(s)))
  BY <1>11
<1>13. chosen[{}] = <<>>
  <2>1. {} \in SUBSET S
    OBVIOUS
  <2> QED BY <1>12, <2>1, Zenon
<1>14. \A s \in SUBSET Found : s # {} =>
         chosen[s] = MultimapInsert(chosen[s \ {Max(s)}], rowOf(Max(s)))
  BY <1>1, <1>12
<1>15. chosen[Found] = db_result_sort
  BY <1>1, <1>10 DEF chosen
<1> QED BY <1>13, <1>14, <1>15

LEMMA SortedRanked ==
  ASSUME db_result \in [Link -> Nat], IsFiniteSet(Found)
  PROVE  Ranked(db_result_sort, Found)
<1>1. PICK iter :
        /\ iter[{}] = <<>>
        /\ \A s \in SUBSET Found : s # {} =>
             iter[s] = MultimapInsert(iter[s \ {Max(s)}], rowOf(Max(s)))
        /\ iter[Found] = db_result_sort
  BY SortRecurs
<1> DEFINE B == {s \in SUBSET Found : ~Ranked(iter[s], s)}
<1>2. B = {}
  <2> SUFFICES ASSUME B # {} PROVE FALSE
    OBVIOUS
  <2>1. PICK s \in B : \A x \in s : s \ {x} \notin B
    <3>1. B \subseteq SUBSET Found
      OBVIOUS
    <3> HIDE DEF B
    <3> QED BY <3>1, LeastSubset
  <2>2. s \in SUBSET Found /\ ~Ranked(iter[s], s)
    OBVIOUS
  <2>3. IsFiniteSet(s) /\ s \subseteq Link /\ s \subseteq Nat
    BY <2>2, FS_Subset, SearchAssumption DEF Found
  <2>4. CASE s = {}
    <3>1. Ranked(<<>>, {})
      <4>1. <<>> \in Seq(AnswerRow) /\ Len(<<>>) = 0 /\ 1..0 = {}
        OBVIOUS
      <4> QED BY <4>1, FS_EmptySet DEF Ranked
    <3> QED BY <1>1, <2>2, <2>4, <3>1
  <2>5. CASE s # {}
    <3>1. Max(s) \in s /\ \A l \in s : Max(s) >= l
      BY <2>3, <2>5, MaxIs
    <3>2. Ranked(iter[s \ {Max(s)}], s \ {Max(s)})
      BY <2>1, <2>2, <3>1
    <3>3. Ranked(MultimapInsert(iter[s \ {Max(s)}], rowOf(Max(s))), s)
      BY <2>3, <3>1, <3>2, RankedStep
    <3> QED BY <1>1, <2>2, <2>5, <3>3
  <2> QED BY <2>4, <2>5
<1>3. Ranked(iter[Found], Found)
  BY <1>2
<1> QED BY <1>1, <1>3

\* The first rows of the ranked ones are the best choice.
LEMMA PrintedIsBest ==
  ASSUME db_result \in [Link -> Nat], IsFiniteSet(Found), table' = print_result(db_result_sort),
         db_result' = db_result
  PROVE  BestFirst'
<1>1. Ranked(db_result_sort, Found)
  BY SortedRanked
<1>2. PICK rows : rows = db_result_sort
  OBVIOUS
<1>3. PICK n : n = Cardinality(Found)
  OBVIOUS
<1>4. /\ rows \in Seq(AnswerRow) /\ Len(rows) = n /\ n \in Nat
      /\ \A i \in 1..n : rows[i].url \in Found /\ rows[i].relevance = db_result[rows[i].url]
      /\ \A l \in Found : \E i \in 1..n : rows[i].url = l
      /\ \A i, j \in 1..n : i < j => Before(rows[i].url, rows[j].url)
  BY <1>1, <1>2, <1>3 DEF Ranked
<1>5. PICK m : m = IF n < ResultSize THEN n ELSE ResultSize
  OBVIOUS
<1>6. m \in Nat /\ m <= n
  BY <1>4, <1>5, SearchAssumption
<1>7. table' \in Seq(AnswerRow) /\ Len(table') = m /\ \A i \in 1..m : table'[i] = rows[i]
  <2>1. CASE n <= ResultSize
    BY <1>2, <1>4, <1>5, <2>1, SearchAssumption DEF print_result
  <2>2. CASE ~(n <= ResultSize)
    <3>1. table' = SubSeq(rows, 1, ResultSize) /\ m = ResultSize /\ 1 <= ResultSize
          /\ ResultSize <= n /\ ResultSize \in Nat
      BY <1>2, <1>4, <1>5, <2>2, SearchAssumption DEF print_result
    <3>2. \A i \in 1..ResultSize : rows[i] \in AnswerRow
      BY <1>4, <3>1
    <3>3. /\ SubSeq(rows, 1, ResultSize) \in Seq(AnswerRow)
          /\ Len(SubSeq(rows, 1, ResultSize)) = ResultSize - 1 + 1
          /\ \A i \in 1..(ResultSize - 1 + 1) : SubSeq(rows, 1, ResultSize)[i] = rows[1 + i - 1]
      BY <1>4, <3>1, <3>2, SubSeqProperties
    <3> QED BY <3>1, <3>3
  <2> QED BY <1>4, <2>1, <2>2, SearchAssumption
<1>8. DOMAIN table' = 1..m
  BY <1>7
<1> DEFINE shown == {table'[i].url : i \in 1..m}
\* A row is ranked before another one, so no url is listed twice.
<1>9. \A i, j \in 1..m : rows[i].url = rows[j].url => i = j
  <2>1. \A l \in Found : ~Before(l, l)
    BY SearchAssumption DEF Before, Found
  <2>2. \A i \in 1..m : i \in 1..n
    BY <1>4, <1>6
  <2>3. \A i, j \in 1..m : i = j \/ i < j \/ j < i
    BY <1>6
  <2> QED BY <1>4, <2>1, <2>2, <2>3
<1>10. Cardinality(shown) = m
  <2> DEFINE f == [i \in 1..m |-> table'[i].url]
  <2>1. f \in Bijection(1..m, shown)
    <3>1. f \in [1..m -> shown] /\ \A l \in shown : \E i \in 1..m : f[i] = l
      OBVIOUS
    <3>2. \A i, j \in 1..m : f[i] = f[j] => i = j
      BY <1>7, <1>9
    <3> HIDE DEF f, shown
    <3> QED BY <3>1, <3>2 DEF Bijection, Injection, IsInjective, Surjection
  <2>2. ExistsBijection(1..m, shown)
    <3> HIDE DEF f, shown
    <3> QED BY <2>1 DEF ExistsBijection
  <2>3. IsFiniteSet(1..m) /\ Cardinality(1..m) = m
    BY <1>6, FS_Interval
  <2> HIDE DEF shown
  <2> QED BY <2>2, <2>3, FS_Bijection
<1>11. shown = {rows[i].url : i \in 1..m}
  BY <1>7
<1>12. ASSUME NEW s \in shown, NEW l \in Found \ shown PROVE Before(s, l)
  <2>1. PICK i \in 1..m : s = rows[i].url
    BY <1>11
  <2>2. PICK j \in 1..n : l = rows[j].url
    BY <1>4
  <2>3. j \notin 1..m
    BY <1>11, <2>2
  <2>4. i \in 1..n /\ i < j
    BY <1>4, <1>6, <2>3
  <2> QED BY <1>4, <2>1, <2>2, <2>4
<1>13. /\ Found' = Found
       /\ \A a, b : Before(a, b)' <=> Before(a, b)
  BY DEF Found, Before
<1> HIDE DEF shown
<1>14. \A i \in 1..m : table'[i].relevance = db_result'[table'[i].url]
  BY <1>4, <1>6, <1>7
<1>15. \A i, j \in 1..m : i < j => Before(table'[i].url, table'[j].url)
  BY <1>4, <1>6, <1>7
<1>16. shown = {table'[i].url : i \in DOMAIN table'}
  BY <1>8 DEF shown
<1> QED BY <1>3, <1>5, <1>7, <1>8, <1>10, <1>12, <1>13, <1>14, <1>15, <1>16
        DEF BestFirst, Found

\* The rows shown are the best ones in the right order, for any number of urls
\* found and any size of the answer: the multimap's insertion, the walk over
\* db_result by url and the countdown of print_result agree on what "best" is.
THEOREM BestAreFirst == SearchSpec => []BestFirst
<1>1. Init /\ SearchInit => BestFirst
  BY DEF SearchInit, BestFirst
<1>2. Rows /\ AskInv /\ BestFirst /\ SearchAction => BestFirst'
  <2> SUFFICES ASSUME Rows, AskInv, BestFirst, SearchAction PROVE BestFirst'
    OBVIOUS
  <2>1. CASE Answer
    <3>1. db_result' = db_result /\ db_result \in [Link -> Nat]
      BY <2>1 DEF Answer, AskInv, SearchType
    <3>2. IsFiniteSet(Found)
      <4>1. Found \subseteq urls /\ IsFiniteSet(urls)
        BY DEF AskInv, Rows, Found
      <4> QED BY <4>1, FS_Subset
    <3>3. CASE table' = print_result(db_result_sort)
      BY <3>1, <3>2, <3>3, PrintedIsBest
    <3>4. CASE page' = "no_matches"
      BY <3>4 DEF BestFirst
    <3> QED BY <2>1, <3>3, <3>4 DEF Answer
  <2>2. CASE page' # "results"
    BY <2>2 DEF BestFirst
  <2>3. CASE UNCHANGED searchVars
    <3>1. UNCHANGED <<page, table, db_result>>
      BY <2>3 DEF searchVars
    <3>2. \A a, b : Before(a, b)' <=> Before(a, b)
      BY <3>1 DEF Before
    <3> QED BY <3>1, <3>2 DEF BestFirst
  <2>4. Answer \/ page' # "results" \/ UNCHANGED searchVars
    BY DEF SearchAction, SearchNext, Post, Ask, AskInv
  <2> QED BY <2>1, <2>2, <2>3, <2>4
<1> QED BY <1>1, <1>2, AskInvariant, PTL DEF SearchSpec, SearchAction
===============================================================================
