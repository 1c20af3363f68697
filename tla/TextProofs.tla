------------------------------ MODULE TextProofs ------------------------------
(***************************************************************************)
(* Safety of the line splitter for every alphabet, text and way of cutting *)
(* the text into chunks, of the conversions of a message for the log file  *)
(* and for the body of a frame for every message, and of parse_URL for     *)
(* every URL that is made of parts.                                        *)
(*                                                                         *)
(* Facts about recursive definitions are proved by the least               *)
(* counterexample, facts about sequences position by position.             *)
(***************************************************************************)
EXTENDS Text, SequenceTheorems, FiniteSetTheorems, WellFoundedInduction, TLAPS

\* A set of natural numbers has a least element.
LEMMA Least ==
    ASSUME NEW T \in SUBSET Nat, T # {}
    PROVE  \E m \in T : \A n \in T : m <= n
<1>1. PICK R : R = OpToRel(<, Nat)
  OBVIOUS
<1>2. IsWellFoundedOn(R, Nat)
  BY <1>1, NatLessThanWellFounded, Zenon
<1>3. \A m, n \in Nat : n < m => <<n, m>> \in R
  <2>1. R = {ss \in Nat \X Nat : ss[1] < ss[2]}
    BY <1>1, Zenon DEF OpToRel
  <2> QED
    BY <2>1
<1>4. PICK m \in T : \A n \in T : ~ (<<n, m>> \in R)
  BY <1>2, WFMin
<1>5. ASSUME NEW n \in T PROVE m <= n
  <2>1. m \in Nat /\ n \in Nat
    OBVIOUS
  <2>2. ~(n < m)
    BY <1>3, <1>4, <2>1
  <2> QED
    BY <2>1, <2>2
<1> QED
  BY <1>5

\* The equation of the recursive function in FlattenSeq.
Flattens(f, ss, n) == f = [i \in 1..n |-> IF i = 1 THEN ss[i] ELSE f[i - 1] \o ss[i]]

\* The equation, at one index.
LEMMA FlattensAt ==
    ASSUME NEW f, NEW ss, NEW n, Flattens(f, ss, n), NEW i \in 1..n
    PROVE  f[i] = IF i = 1 THEN ss[i] ELSE f[i - 1] \o ss[i]
  BY DEF Flattens

\* A function that satisfies the equation exists for every length.
LEMMA FlattenExists ==
    ASSUME NEW ss, NEW n \in Nat
    PROVE  \E f : Flattens(f, ss, n)
<1> DEFINE T == {k \in Nat : ~ \E f : Flattens(f, ss, k)}
<1> SUFFICES T = {}
  OBVIOUS
<1> SUFFICES ASSUME T # {} PROVE FALSE
  OBVIOUS
<1>1. PICK k \in T : \A j \in T : k <= j
  BY Least
<1>2. k # 0
  <2>1. Flattens(<<>>, ss, 0)
    BY DEF Flattens
  <2> QED
    BY <2>1
<1>3. k - 1 \in Nat /\ k - 1 \notin T
  BY <1>1, <1>2
<1>4. PICK g : Flattens(g, ss, k - 1)
  BY <1>3
<1> DEFINE f == [i \in 1..k |-> IF i = k THEN (IF k = 1 THEN ss[k] ELSE g[k - 1] \o ss[k])
                                ELSE g[i]]
<1>5. ASSUME NEW i \in 1..k PROVE f[i] = IF i = 1 THEN ss[i] ELSE f[i - 1] \o ss[i]
  <2>1. CASE i = k
    BY <2>1, <1>2
  <2>2. CASE i # k
    <3>1. i \in 1..(k - 1)
      BY <2>2
    <3>2. g[i] = IF i = 1 THEN ss[i] ELSE g[i - 1] \o ss[i]
      BY <3>1, <1>4 DEF Flattens
    <3> QED
      BY <2>2, <3>1, <3>2
  <2> QED
    BY <2>1, <2>2
<1>6. f = [i \in 1..k |-> f[i]]
  OBVIOUS
<1>7. Flattens(f, ss, k)
  BY <1>5, <1>6 DEF Flattens
<1> QED
  BY <1>7

\* The equation for a prefix determines the same values.
LEMMA FlattenUnique ==
    ASSUME NEW ss, NEW n \in Nat, NEW m \in Nat, n <= m, NEW f, NEW g, Flattens(f, ss, n), NEW tt,
           Flattens(g, tt, m), \A i \in 1..n : ss[i] = tt[i]
    PROVE  \A i \in 1..n : f[i] = g[i]
<1> DEFINE T == {i \in 1..n : f[i] # g[i]}
<1> SUFFICES ASSUME T # {} PROVE FALSE
  OBVIOUS
<1>1. T \in SUBSET Nat
  OBVIOUS
<1>2. PICK k \in T : \A j \in T : k <= j
  BY <1>1, Least
<1>3. /\ f[k] = IF k = 1 THEN ss[k] ELSE f[k - 1] \o ss[k]
      /\ g[k] = IF k = 1 THEN ss[k] ELSE g[k - 1] \o ss[k]
  <2>1. k \in 1..n /\ k \in 1..m /\ ss[k] = tt[k]
    OBVIOUS
  <2> QED
    BY <2>1, FlattensAt
<1>4. CASE k = 1
  BY <1>3, <1>4
<1>5. CASE k # 1
  <2>1. k - 1 \in 1..n /\ k - 1 \notin T
    BY <1>2, <1>5
  <2> QED
    BY <1>3, <1>5, <2>1
<1> QED
  BY <1>4, <1>5

\* A sequence of texts flattens to a text.
LEMMA FlattenType ==
    ASSUME NEW S, NEW ss \in Seq(Seq(S))
    PROVE  FlattenSeq(ss) \in Seq(S)
<1>1. PICK n \in Nat : n = Len(ss)
  BY LenProperties
<1>2. CASE n = 0
  BY <1>1, <1>2, EmptySeq DEF FlattenSeq
<1>3. CASE n # 0
  <2>1. PICK f : f = CHOOSE h : Flattens(h, ss, n)
    OBVIOUS
  <2>2. Flattens(f, ss, n)
    BY <2>1, FlattenExists
  <2>3. FlattenSeq(ss) = f[n]
    BY <1>1, <1>3, <2>1 DEF FlattenSeq, Flattens
  <2> DEFINE T == {i \in 1..n : f[i] \notin Seq(S)}
  <2>4. ASSUME T # {} PROVE FALSE
    <3>1. T \in SUBSET Nat
      OBVIOUS
    <3>2. PICK k \in T : \A j \in T : k <= j
      BY <2>4, <3>1, Least
    <3>3. k \in 1..n /\ ss[k] \in Seq(S)
      BY <1>1, ElementOfSeq
    <3>4. f[k] = IF k = 1 THEN ss[k] ELSE f[k - 1] \o ss[k]
      BY <2>2, <3>3, FlattensAt
    <3>5. CASE k = 1
      BY <3>3, <3>4, <3>5
    <3>6. CASE k # 1
      <4>1. k - 1 \in 1..n /\ k - 1 \notin T
        BY <3>2, <3>3, <3>6
      <4>2. f[k - 1] \o ss[k] \in Seq(S)
        BY <3>3, <4>1, ConcatProperties
      <4> QED
        BY <3>4, <3>6, <4>2
    <3> QED
      BY <3>5, <3>6
  <2> QED
    BY <1>3, <2>3, <2>4
<1> QED
  BY <1>2, <1>3

\* One more text is added at the end.
LEMMA FlattenAppend ==
    ASSUME NEW S, NEW ss \in Seq(Seq(S)), NEW x \in Seq(S)
    PROVE  FlattenSeq(Append(ss, x)) = FlattenSeq(ss) \o x
<1>1. PICK tt : tt = Append(ss, x)
  OBVIOUS
<1>2. PICK n \in Nat : n = Len(ss)
  BY LenProperties
<1>3. PICK m \in Nat : m = n + 1
  OBVIOUS
<1>4. Len(tt) = m /\ tt[m] = x /\ \A i \in 1..n : ss[i] = tt[i]
  BY <1>1, <1>2, <1>3, AppendProperties
<1>5. m \in 1..m /\ m # 0 /\ n <= m /\ m - 1 = n /\ (m = 1 <=> n = 0)
  BY <1>3
<1>6. PICK g : g = CHOOSE h : Flattens(h, tt, m)
  OBVIOUS
<1>7. Flattens(g, tt, m)
  BY <1>6, FlattenExists
<1>8. FlattenSeq(tt) = g[m]
  BY <1>4, <1>5, <1>6 DEF FlattenSeq, Flattens
<1>9. g[m] = IF m = 1 THEN x ELSE g[n] \o x
  BY <1>4, <1>5, <1>7, FlattensAt
<1>10. CASE n = 0
  <2>1. FlattenSeq(ss) = <<>>
    BY <1>2, <1>10, EmptySeq DEF FlattenSeq
  <2>2. <<>> \o x = x
    BY ConcatEmptySeq
  <2> QED
    BY <1>1, <1>5, <1>8, <1>9, <1>10, <2>1, <2>2
<1>11. CASE n # 0
  <2>1. PICK f : f = CHOOSE h : Flattens(h, ss, n)
    OBVIOUS
  <2>2. Flattens(f, ss, n)
    BY <2>1, FlattenExists
  <2>3. FlattenSeq(ss) = f[n]
    BY <1>2, <1>11, <2>1 DEF FlattenSeq, Flattens
  <2>4. f[n] = g[n]
    BY <1>4, <1>5, <1>7, <1>11, <2>2, FlattenUnique
  <2> QED
    BY <1>1, <1>5, <1>8, <1>9, <1>11, <2>3, <2>4
<1> QED
  BY <1>10, <1>11
-----------------------------------------------------------------------------
\* A set of numbers has one increasing enumeration.
LEMMA EnumerationUnique ==
    ASSUME NEW n \in Nat, NEW P \in SUBSET Nat,
           NEW d \in [1..n -> P], \A i, j \in 1..n : i < j => d[i] < d[j],
           NEW e \in [1..n -> P], \A i, j \in 1..n : i < j => e[i] < e[j],
           \A p \in P : (\E i \in 1..n : d[i] = p) /\ (\E i \in 1..n : e[i] = p)
    PROVE  d = e
<1> DEFINE T == {i \in 1..n : d[i] # e[i]}
<1> SUFFICES ASSUME T # {} PROVE FALSE
  OBVIOUS
<1>1. T \in SUBSET Nat
  OBVIOUS
<1>2. PICK k \in T : \A j \in T : k <= j
  BY <1>1, Least
<1>3. \A i \in 1..n : d[i] \in Nat /\ e[i] \in Nat
  OBVIOUS
<1>4. k \in 1..n /\ k \in Nat /\ d[k] \in P /\ e[k] \in P /\ d[k] # e[k]
  OBVIOUS
<1>5. \A j \in 1..n : j < k => d[j] = e[j]
  BY <1>2
<1>6. CASE d[k] < e[k]
  <2>1. PICK i \in 1..n : e[i] = d[k]
    BY <1>4
  <2>2. i < k
    <3>1. i # k
      BY <1>3, <1>4, <1>6, <2>1
    <3>2. ~(k < i)
      BY <1>3, <1>4, <1>6, <2>1
    <3> QED
      BY <1>4, <3>1, <3>2
  <2>3. d[i] = d[k] /\ d[i] < d[k]
    BY <1>4, <1>5, <2>1, <2>2
  <2> QED
    BY <1>3, <1>4, <2>3
<1>7. CASE e[k] < d[k]
  <2>1. PICK i \in 1..n : d[i] = e[k]
    BY <1>4
  <2>2. i < k
    <3>1. i # k
      BY <1>3, <1>4, <1>7, <2>1
    <3>2. ~(k < i)
      BY <1>3, <1>4, <1>7, <2>1
    <3> QED
      BY <1>4, <3>1, <3>2
  <2>3. e[i] = e[k] /\ e[i] < e[k]
    BY <1>4, <1>5, <2>1, <2>2
  <2> QED
    BY <1>3, <1>4, <2>3
<1> QED
  BY <1>3, <1>4, <1>6, <1>7

\* An increasing sequence has no value twice.
LEMMA IncreasingInjective ==
    ASSUME NEW n \in Nat, NEW P \in SUBSET Nat, NEW d \in [1..n -> P],
           \A i, j \in 1..n : i < j => d[i] < d[j]
    PROVE  \A i, j \in 1..n : d[i] = d[j] => i = j
<1> SUFFICES ASSUME NEW i \in 1..n, NEW j \in 1..n, d[i] = d[j], i # j PROVE FALSE
  OBVIOUS
<1>1. d[i] \in Nat /\ d[j] \in Nat
  OBVIOUS
<1>2. i < j \/ j < i
  OBVIOUS
<1> QED
  BY <1>1, <1>2

\* An increasing sequence of all members of P is what Sorted chooses.
LEMMA EnumerationChosen ==
    ASSUME NEW n \in Nat, NEW P \in SUBSET Nat, NEW d \in [1..n -> P],
           \A i, j \in 1..n : i < j => d[i] < d[j],
           \A p \in P : \E i \in 1..n : d[i] = p
    PROVE  /\ Cardinality(P) = n
           /\ Sorted(P) = d
<1>1. IsFiniteSet(1..n) /\ Cardinality(1..n) = n
  BY FS_Interval
<1>2. \A i, j \in 1..n : d[i] = d[j] => i = j
  BY IncreasingInjective
<1>3. d \in Bijection(1..n, P)
  BY <1>2 DEF Bijection, Injection, Surjection, IsInjective
<1>4. IsFiniteSet(P) /\ Cardinality(P) = n
  BY <1>1, <1>3, FS_Bijection DEF ExistsBijection
<1> DEFINE Up(c) == \A i, j \in DOMAIN c : i < j => c[i] < c[j]
<1>5. \A c \in [1..n -> P] : DOMAIN c = 1..n
  OBVIOUS
<1>6. Up(d)
  BY <1>5
<1>7. PICK e : e = CHOOSE c \in [1..n -> P] : Up(c)
  OBVIOUS
<1>8. e \in [1..n -> P] /\ Up(e)
  <2> HIDE DEF Up
  <2> QED
    BY <1>6, <1>7
<1>9. \A i, j \in 1..n : i < j => e[i] < e[j]
  BY <1>5, <1>8
<1>10. \A i, j \in 1..n : e[i] = e[j] => i = j
  BY <1>8, <1>9, IncreasingInjective
<1>11. e \in Injection(1..n, P)
  BY <1>8, <1>10 DEF Injection, IsInjective
<1>12. e \in Surjection(1..n, P)
  BY <1>1, <1>4, <1>11, FS_Injection
<1>13. \A p \in P : \E i \in 1..n : e[i] = p
  BY <1>12 DEF Surjection
<1>14. d = e
  BY <1>8, <1>9, <1>13, EnumerationUnique
<1>15. Sorted(P) = e
  BY <1>4, <1>7 DEF Sorted
<1> QED
  BY <1>4, <1>14, <1>15
-----------------------------------------------------------------------------
\* Texts that agree from m to n have the same piece there.
LEMMA SubSeqSame ==
    ASSUME NEW s, NEW t, NEW m \in Nat, NEW n \in Int, \A i \in m..n : s[i] = t[i]
    PROVE  SubSeq(s, m, n) = SubSeq(t, m, n)
  OBVIOUS

\* The end of a concatenation.
LEMMA TailOfConcat ==
    ASSUME NEW S, NEW s \in Seq(S), NEW t \in Seq(S), NEW k \in Nat, k = Len(s), NEW l \in Nat,
           l = Len(t)
    PROVE  t = SubSeq(s \o t, k + 1, k + l)
<1>1. PICK u \in Seq(S) : u = s \o t
  BY ConcatProperties
<1>2. Len(u) = k + l /\ \A i \in 1..(k + l) : u[i] = IF i <= k THEN s[i] ELSE t[i - k]
  BY <1>1, ConcatProperties
<1>3. \A i \in (k + 1)..(k + l) : u[i] \in S
  BY <1>2, ElementOfSeq
<1>4. PICK v : v = SubSeq(u, k + 1, k + l)
  OBVIOUS
<1>5. /\ v \in Seq(S) /\ Len(v) = l
      /\ \A i \in 1..l : v[i] = u[(k + 1) + i - 1]
  <2>1. PICK a \in Nat, b \in Nat : a = k + 1 /\ b = k + l
    OBVIOUS
  <2>2. /\ v \in Seq(S) /\ Len(v) = IF a <= b THEN b - a + 1 ELSE 0
        /\ \A i \in 1..(b - a + 1) : v[i] = u[a + i - 1]
    BY <1>3, <1>4, <2>1, SubSeqProperties
  <2> QED
    BY <2>1, <2>2
<1>6. ASSUME NEW i \in 1..l PROVE v[i] = t[i]
  <2>1. (k + 1) + i - 1 \in 1..(k + l) /\ ~((k + 1) + i - 1 <= k) /\ ((k + 1) + i - 1) - k = i
    OBVIOUS
  <2> QED
    BY <1>2, <1>5, <2>1
<1> QED
  BY <1>1, <1>4, <1>5, <1>6, SeqEqual

\* What is before p and what is behind p are texts.
LEMMA PartsAt ==
    ASSUME NEW S, NEW s \in Seq(S), NEW l \in Nat, l = Len(s), NEW p \in 1..l
    PROVE  /\ SubSeq(s, 1, p - 1) \in Seq(S) /\ SubSeq(s, p + 1, l) \in Seq(S)
           /\ Len(SubSeq(s, p + 1, l)) = l - p
<1>1. \A i \in 1..l : s[i] \in S
  BY ElementOfSeq
<1>2. SubSeq(s, 1, p - 1) \in Seq(S)
  BY <1>1, SubSeqProperties
<1>3. SubSeq(s, p + 1, l) \in Seq(S) /\ Len(SubSeq(s, p + 1, l)) = l - p
  <2>1. PICK a \in Nat : a = p + 1
    OBVIOUS
  <2>2. SubSeq(s, a, l) \in Seq(S) /\ Len(SubSeq(s, a, l)) = IF a <= l THEN l - a + 1 ELSE 0
    BY <1>1, <2>1, SubSeqProperties
  <2> QED
    BY <2>1, <2>2
<1> QED
  BY <1>2, <1>3

\* A text is put together from its parts.
LEMMA SplitAt ==
    ASSUME NEW S, NEW s \in Seq(S), NEW l \in Nat, l = Len(s), NEW p \in 1..l
    PROVE  s = (SubSeq(s, 1, p - 1) \o <<s[p]>>) \o SubSeq(s, p + 1, l)
<1>1. SubSeq(s, 1, p) = SubSeq(s, 1, p - 1) \o <<s[p]>>
  BY SubSeqRecursiveSecond
<1>2. SubSeq(s, 1, p) \o SubSeq(s, p + 1, l) = SubSeq(s, 1, l)
  BY ConcatAdjacentSubSeq
<1> QED
  BY <1>1, <1>2, SubSeqFull

\* A piece of the end of a text, character by character.
LEMMA PieceAt ==
    ASSUME NEW S, NEW t \in Seq(S), NEW n \in Nat, NEW l \in Nat, n + l = Len(t),
           NEW s, s = SubSeq(t, n + 1, Len(t)), NEW i \in 1..l
    PROVE  t[n + i] = s[i]
<1>1. \A j \in 1..(n + l) : t[j] \in S
  BY ElementOfSeq
<1>2. PICK a \in Nat, b \in Nat : a = n + 1 /\ b = n + l
  OBVIOUS
<1>3. /\ \A j \in a..b : t[j] \in S
      /\ b = Len(t) /\ b - a + 1 = l /\ a + i - 1 = n + i
  BY <1>1, <1>2
<1>4. \A j \in 1..(b - a + 1) : SubSeq(t, a, b)[j] = t[a + j - 1]
  BY <1>3, SubSeqProperties
<1> QED
  BY <1>2, <1>3, <1>4

\* A piece of the end of a text is a piece of the text.
LEMMA PieceOfPiece ==
    ASSUME NEW S, NEW t \in Seq(S), NEW n \in Nat, NEW l \in Nat, n + l = Len(t),
           NEW s, s = SubSeq(t, n + 1, Len(t)), NEW i \in 1..(l + 1), NEW j \in 0..l
    PROVE  SubSeq(s, i, j) = SubSeq(t, n + i, n + j)
<1>1. \A k \in 1..(n + l) : t[k] \in S
  BY ElementOfSeq
<1>2. \A k \in i..j : s[k] = t[n + k] /\ t[n + k] \in S
  BY <1>1, PieceAt
<1>3. /\ SubSeq(s, i, j) \in Seq(S)
      /\ Len(SubSeq(s, i, j)) = IF i <= j THEN j - i + 1 ELSE 0
      /\ \A k \in 1..(j - i + 1) : SubSeq(s, i, j)[k] = s[i + k - 1]
  BY <1>2, SubSeqProperties
<1>4. PICK a \in Nat, b \in Nat : a = n + i /\ b = n + j
  OBVIOUS
<1>5. \A k \in a..b : t[k] \in S
  BY <1>1, <1>4
<1>6. /\ SubSeq(t, a, b) \in Seq(S)
      /\ Len(SubSeq(t, a, b)) = IF a <= b THEN b - a + 1 ELSE 0
      /\ \A k \in 1..(b - a + 1) : SubSeq(t, a, b)[k] = t[a + k - 1]
  BY <1>5, SubSeqProperties
<1>7. Len(SubSeq(s, i, j)) = Len(SubSeq(t, a, b))
  BY <1>3, <1>4, <1>6
<1>8. ASSUME NEW k \in 1..Len(SubSeq(s, i, j)) PROVE SubSeq(s, i, j)[k] = SubSeq(t, a, b)[k]
  <2>1. /\ k \in 1..(j - i + 1) /\ k \in 1..(b - a + 1) /\ i + k - 1 \in i..j
        /\ n + (i + k - 1) = a + k - 1
    BY <1>3, <1>4
  <2> QED
    BY <1>2, <1>3, <1>6, <2>1
<1> QED
  BY <1>3, <1>4, <1>6, <1>7, <1>8, SeqEqual

Chars == Others \cup {LF}

\* c are the cuts of t up to n: 0 and the line feeds; lines are between them.
Cuts(c, t, n, lines) ==
    /\ c \in Seq(Nat) /\ Len(c) = Len(lines) + 1 /\ c[1] = 0
    /\ \A i, j \in 1..Len(c) : i < j => c[i] < c[j]
    /\ \A i \in 2..Len(c) : c[i] \in 1..n /\ t[c[i]] = LF
    /\ \A p \in 1..n : t[p] = LF => \E i \in 2..Len(c) : c[i] = p
    /\ \A k \in 1..Len(lines) : lines[k] = SubSeq(t, c[k] + 1, c[k + 1] - 1)

\* The last cut is within the text.
LEMMA LastCut ==
    ASSUME NEW c, NEW t, NEW n \in Nat, NEW lines \in Seq(Seq(Chars)), Cuts(c, t, n, lines)
    PROVE  /\ Len(lines) \in Nat /\ Len(c) \in Nat \ {0} /\ c[Len(c)] \in 0..n
           /\ \A i \in 1..Len(c) : c[i] \in 0..n
           /\ Len(c) = Len(lines) + 1 /\ c \in Seq(Nat)
<1>1. Len(lines) \in Nat /\ Len(c) = Len(lines) + 1 /\ c \in Seq(Nat)
  BY LenProperties DEF Cuts
<1>2. ASSUME NEW i \in 1..Len(c) PROVE c[i] \in 0..n
  <2>1. CASE i = 1
    BY <2>1 DEF Cuts
  <2>2. CASE i # 1
    <3>1. i \in 2..Len(c)
      BY <1>1, <2>2
    <3> QED
      BY <3>1 DEF Cuts
  <2> QED
    BY <2>1, <2>2
<1> QED
  BY <1>1, <1>2

\* What comes behind n changes nothing, nor does a part without line feeds.
LEMMA CutsKept ==
    ASSUME NEW c, NEW t, NEW n \in Nat, NEW lines \in Seq(Seq(Chars)), Cuts(c, t, n, lines),
           NEW u, NEW m \in Nat, n <= m, \A i \in 1..n : t[i] = u[i],
           \A i \in (n + 1)..m : u[i] # LF
    PROVE  Cuts(c, u, m, lines)
<1>1. /\ Len(lines) \in Nat /\ Len(c) = Len(lines) + 1
      /\ \A i \in 1..Len(c) : c[i] \in 0..n
  BY LastCut
<1>2. ASSUME NEW i \in 2..Len(c) PROVE c[i] \in 1..m /\ u[c[i]] = LF
  <2>1. c[i] \in 1..n /\ t[c[i]] = LF
    BY DEF Cuts
  <2> QED
    BY <2>1
<1>3. ASSUME NEW p \in 1..m, u[p] = LF PROVE \E i \in 2..Len(c) : c[i] = p
  <2>1. p \in 1..n
    BY <1>3
  <2> QED
    BY <1>3, <2>1 DEF Cuts
<1>4. ASSUME NEW k \in 1..Len(lines) PROVE lines[k] = SubSeq(u, c[k] + 1, c[k + 1] - 1)
  <2>1. k \in 1..Len(c) /\ k + 1 \in 1..Len(c)
    BY <1>1
  <2>2. c[k] \in 0..n /\ c[k + 1] \in 0..n
    BY <1>1, <2>1
  <2>3. PICK a \in 1..(n + 1) : a = c[k] + 1
    BY <2>2
  <2>4. PICK b \in (-1)..(n - 1) : b = c[k + 1] - 1
    BY <2>2, SMTT(30)
  <2>5. ASSUME NEW i \in a..b PROVE t[i] = u[i]
    <3>1. i \in 1..n
      OBVIOUS
    <3> QED
      BY <3>1
  <2>6. SubSeq(t, a, b) = SubSeq(u, a, b)
    <3>1. a \in Nat /\ b \in Int
      OBVIOUS
    <3> QED
      BY <2>5, <3>1, SubSeqSame
  <2>7. lines[k] = SubSeq(t, a, b)
    BY <2>3, <2>4, Zenon DEF Cuts
  <2> QED
    BY <2>3, <2>4, <2>6, <2>7, Zenon
<1> QED
  BY <1>2, <1>3, <1>4 DEF Cuts

\* What lies between the last cut and n.
LastPart(t, c, n) == SubSeq(t, c[Len(c)] + 1, n)

\* The next line feed ends the next line.
LEMMA CutsNext ==
    ASSUME NEW c, NEW t, NEW n \in Nat, NEW lines \in Seq(Seq(Chars)), Cuts(c, t, n, lines),
           NEW m \in Nat, n < m, \A i \in (n + 1)..(m - 1) : t[i] # LF, t[m] = LF,
           NEW line \in Seq(Chars), line = LastPart(t, c, m - 1)
    PROVE  Cuts(Append(c, m), t, m, Append(lines, line))
<1>1. PICK d : d = Append(c, m)
  OBVIOUS
<1>2. PICK l : l = Append(lines, line)
  OBVIOUS
<1>3. /\ Len(lines) \in Nat /\ Len(c) = Len(lines) + 1 /\ c \in Seq(Nat)
      /\ \A i \in 1..Len(c) : c[i] \in 0..n
  BY LastCut
<1>4. PICK k \in Nat : k = Len(c)
  BY <1>3
<1>5. /\ d \in Seq(Nat) /\ Len(d) = k + 1 /\ d[k + 1] = m
      /\ \A i \in 1..k : d[i] = c[i]
  BY <1>1, <1>3, <1>4, AppendProperties
<1>6. /\ Len(l) = k /\ l[k] = line
      /\ \A i \in 1..(k - 1) : l[i] = lines[i]
  <2>1. PICK j \in Nat : j = Len(lines)
    BY <1>3
  <2>2. Len(l) = j + 1 /\ l[j + 1] = line /\ \A i \in 1..j : l[i] = lines[i]
    BY <1>2, <2>1, AppendProperties
  <2>3. j + 1 = k /\ k - 1 = j
    BY <1>3, <1>4, <2>1
  <2> QED
    BY <2>2, <2>3
<1>7. k # 0 /\ Len(lines) = k - 1
  BY <1>3, <1>4
<1>8. d[1] = 0
  BY <1>4, <1>5, <1>7 DEF Cuts
<1>9. ASSUME NEW i \in 1..(k + 1), NEW j \in 1..(k + 1), i < j PROVE d[i] < d[j]
  <2>1. i \in 1..k
    BY <1>9
  <2>2. d[i] = c[i] /\ c[i] \in 0..n
    BY <1>3, <1>4, <1>5, <2>1
  <2>3. CASE j = k + 1
    BY <1>5, <2>2, <2>3
  <2>4. CASE j \in 1..k
    BY <1>4, <1>5, <1>9, <2>1, <2>4, <2>2 DEF Cuts
  <2> QED
    BY <2>3, <2>4
<1>10. ASSUME NEW i \in 2..(k + 1) PROVE d[i] \in 1..m /\ t[d[i]] = LF
  <2>1. CASE i = k + 1
    BY <1>5, <2>1
  <2>2. CASE i \in 2..k
    <3>1. c[i] \in 1..n /\ t[c[i]] = LF
      BY <1>4, <2>2 DEF Cuts
    <3> QED
      BY <1>5, <2>2, <3>1, SMTT(30)
  <2> QED
    BY <2>1, <2>2
<1>11. ASSUME NEW p \in 1..m, t[p] = LF PROVE \E i \in 2..(k + 1) : d[i] = p
  <2>1. CASE p = m
    BY <1>5, <1>7, <2>1
  <2>2. CASE p # m
    <3>1. p \in 1..n
      BY <1>11, <2>2
    <3>2. PICK i \in 2..k : c[i] = p
      BY <1>4, <1>11, <3>1 DEF Cuts
    <3> QED
      BY <1>5, <3>2
  <2> QED
    BY <2>1, <2>2
<1>12. ASSUME NEW i \in 1..k PROVE l[i] = SubSeq(t, d[i] + 1, d[i + 1] - 1)
  <2>1. CASE i = k
    BY <1>4, <1>5, <1>6, <2>1 DEF LastPart
  <2>2. CASE i # k
    <3>1. i \in 1..(k - 1) /\ i \in 1..k /\ i + 1 \in 1..k
      BY <2>2
    <3>2. lines[i] = SubSeq(t, c[i] + 1, c[i + 1] - 1)
      BY <1>7, <3>1 DEF Cuts
    <3> QED
      BY <1>5, <1>6, <3>1, <3>2
  <2> QED
    BY <2>1, <2>2
<1>13. Cuts(d, t, m, l)
  BY <1>5, <1>6, <1>8, <1>9, <1>10, <1>11, <1>12 DEF Cuts
<1> QED
  BY <1>1, <1>2, <1>13

\* c divides the whole text into lines and a last piece.
Divided(t, c, lines, part) ==
    /\ t \in Seq(Chars) /\ lines \in Seq(Seq(Chars)) /\ part \in Seq(Chars)
    /\ Cuts(c, t, Len(t), lines)
    /\ part = LastPart(t, c, Len(t))

AllLines(lines, part) == IF part = <<>> THEN lines ELSE Append(lines, part)

\* The lines are those between the cuts, and the last piece if it is not empty.
LEMMA LinesDivided ==
    ASSUME NEW t, NEW c, NEW lines, NEW part, Divided(t, c, lines, part)
    PROVE  Lines(t) = AllLines(lines, part)
<1>1. t \in Seq(Chars) /\ lines \in Seq(Seq(Chars)) /\ part \in Seq(Chars)
  BY DEF Divided
<1>2. PICK n \in Nat : n = Len(t)
  BY <1>1, LenProperties
<1>3. Cuts(c, t, n, lines) /\ part = LastPart(t, c, n)
  BY <1>2, Zenon DEF Divided
<1> USE <1>1, <1>2, <1>3
<1>4. /\ Len(lines) \in Nat /\ Len(c) = Len(lines) + 1 /\ c \in Seq(Nat)
      /\ \A i \in 1..Len(c) : c[i] \in 0..n
  BY LastCut
<1>5. PICK k \in Nat : k = Len(c)
  BY <1>4
<1>6. PICK d : d = Append(c, n + 1)
  OBVIOUS
<1>7. PICK m \in Nat : m = k + 1
  OBVIOUS
<1>8. /\ d \in Seq(Nat) /\ Len(d) = m /\ d[m] = n + 1 /\ k # 0
      /\ \A i \in 1..k : d[i] = c[i]
  <2>1. PICK last \in Nat : last = n + 1
    OBVIOUS
  <2>2. d = Append(c, last) /\ c \in Seq(Nat)
    BY <1>4, <1>6, <2>1
  <2>3. /\ d \in Seq(Nat) /\ Len(d) = Len(c) + 1 /\ d[Len(c) + 1] = last
        /\ \A i \in 1..Len(c) : d[i] = c[i]
    BY <2>2, AppendProperties
  <2> QED
    BY <1>4, <1>5, <1>7, <2>1, <2>3
<1>9. PICK ends : ends = Ends(t)
  OBVIOUS
<1>10. ends = {i \in DOMAIN t : t[i] = LF} \cup {0, n + 1}
  BY <1>9 DEF Ends
<1>11. ends \in SUBSET Nat /\ DOMAIN t = 1..n
  BY <1>10, LenProperties
<1>12. ASSUME NEW i \in 1..m PROVE d[i] \in ends
  <2>1. CASE i = m
    BY <1>8, <1>10, <2>1
  <2>2. CASE i = 1
    BY <1>5, <1>8, <1>10, <2>2 DEF Cuts
  <2>3. CASE i \in 2..k
    <3>1. c[i] \in 1..n /\ t[c[i]] = LF
      BY <1>5, <2>3 DEF Cuts
    <3> QED
      BY <1>8, <1>10, <1>11, <2>3, <3>1
  <2> QED
    BY <1>7, <2>1, <2>2, <2>3
<1>13. ASSUME NEW p \in ends PROVE \E i \in 1..m : d[i] = p
  <2>1. CASE p = 0
    <3>1. 1 \in 1..m /\ d[1] = 0
      BY <1>5, <1>7, <1>8 DEF Cuts
    <3> QED
      BY <2>1, <3>1
  <2>2. CASE p = n + 1
    BY <1>7, <1>8, <2>2
  <2>3. CASE p \in 1..n /\ t[p] = LF
    <3>1. PICK i \in 2..k : c[i] = p
      BY <1>5, <2>3 DEF Cuts
    <3> QED
      BY <1>7, <1>8, <3>1
  <2> QED
    BY <1>10, <1>11, <2>1, <2>2, <2>3
<1>14. ASSUME NEW i \in 1..m, NEW j \in 1..m, i < j PROVE d[i] < d[j]
  <2>1. i \in 1..k
    BY <1>7, <1>14
  <2>2. d[i] = c[i] /\ c[i] \in 0..n
    BY <1>4, <1>5, <1>8, <2>1
  <2>3. CASE j = m
    BY <1>8, <2>2, <2>3
  <2>4. CASE j \in 1..k
    BY <1>5, <1>8, <1>14, <2>1, <2>2, <2>4 DEF Cuts
  <2> QED
    BY <1>7, <2>3, <2>4
<1>15. d \in [1..m -> ends]
  BY <1>8, <1>12, LenProperties
<1>16. /\ Cardinality(ends) = m
       /\ Sorted(ends) = d
  BY <1>11, <1>13, <1>14, <1>15, EnumerationChosen
<1>17. PICK pieces : pieces = [i \in 1..k |-> SubSeq(t, d[i] + 1, d[i + 1] - 1)]
  OBVIOUS
<1>18. m - 1 = k
  BY <1>7
<1>19. Lines(t) = IF Last(pieces) = <<>> THEN Front(pieces) ELSE pieces
  <2>1. pieces = [i \in 1..Cardinality(Ends(t)) - 1 |->
                     SubSeq(t, Sorted(Ends(t))[i] + 1, Sorted(Ends(t))[i + 1] - 1)]
    BY <1>9, <1>16, <1>17, <1>18
  <2> QED
    BY <2>1, Zenon DEF Lines
<1>20. PICK l : l = Append(lines, part)
  OBVIOUS
<1>21. /\ l \in Seq(Seq(Chars)) /\ Len(l) = k /\ l[k] = part /\ Len(lines) = k - 1
       /\ \A i \in 1..(k - 1) : l[i] = lines[i]
  BY <1>4, <1>5, <1>20, AppendProperties
<1>22. pieces = l
  <2>1. ASSUME NEW i \in 1..k PROVE pieces[i] = l[i]
    <3>1. CASE i = k
      <4>1. d[i] = c[Len(c)] /\ d[i + 1] = n + 1 /\ (n + 1) - 1 = n
        BY <1>5, <1>7, <1>8, <3>1
      <4> QED
        BY <1>17, <1>21, <3>1, <4>1, Zenon DEF LastPart
    <3>2. CASE i # k
      <4>1. i \in 1..Len(lines) /\ i \in 1..(k - 1) /\ i \in 1..k /\ i + 1 \in 1..k
        BY <1>21, <3>2
      <4>2. d[i] = c[i] /\ d[i + 1] = c[i + 1]
        BY <1>8, <4>1
      <4>3. lines[i] = SubSeq(t, c[i] + 1, c[i + 1] - 1)
        BY <4>1 DEF Cuts
      <4> QED
        BY <1>17, <1>21, <4>1, <4>2, <4>3
    <3> QED
      BY <3>1, <3>2
  <2>2. l = [i \in 1..k |-> l[i]]
    BY <1>21, LenProperties
  <2> QED
    BY <1>17, <2>1, <2>2
<1>23. Last(pieces) = part
  BY <1>21, <1>22 DEF Last
<1>24. Front(pieces) = lines
  <2>1. Len(pieces) - 1 = Len(lines) /\ Len(lines) \in Nat
    BY <1>4, <1>21, <1>22
  <2>2. \A i \in 1..Len(lines) : pieces[i] = lines[i]
    BY <1>21, <1>22
  <2>3. SubSeq(pieces, 1, Len(lines)) = SubSeq(lines, 1, Len(lines))
    BY <2>1, <2>2, SubSeqSame
  <2> QED
    BY <2>1, <2>3, SubSeqFull DEF Front
<1> QED
  BY <1>19, <1>22, <1>23, <1>24, <1>20, Zenon DEF AllLines
-----------------------------------------------------------------------------
(***************************************************************************)
(* The line splitter.                                                      *)
(***************************************************************************)
SplitTypeOK ==
    /\ pc \in {"idle", "loop", "dead"}
    /\ rest \in Seq(Chars) /\ m_active_line \in Seq(Chars) /\ given \in Seq(Chars)
    /\ forwarded \in Seq(Seq(Chars))
    /\ pc # "loop" => rest = <<>>

\* The forwarded lines lie between the cuts of what was looked at so far; the
\* line begun and the rest of the chunk are what follows.
CutInv ==
    pc # "dead" =>
        \E n \in Nat : \E c :
            /\ n + Len(rest) = Len(given)
            /\ Cuts(c, given, n, forwarded)
            /\ m_active_line = SubSeq(given, c[Len(c)] + 1, n)
            /\ rest = SubSeq(given, n + 1, Len(given))

SplitInv == SplitTypeOK /\ TextPreserved /\ CutInv /\ ChunkingInvisible

\* Nothing is given, begun or forwarded at first.
LEMMA SplitInitEstablishes == Init => SplitInv
<1> SUFFICES ASSUME Init PROVE SplitInv
  OBVIOUS
<1>1. /\ pc = "idle" /\ rest = <<>> /\ m_active_line = <<>> /\ given = <<>> /\ forwarded = <<>>
  BY DEF Init
<1>2. SplitTypeOK
  BY <1>1, EmptySeq DEF SplitTypeOK
<1>3. TextPreserved
  <2>1. [i \in DOMAIN forwarded |-> Append(forwarded[i], LF)] = <<>>
    BY <1>1
  <2>2. FlattenSeq(<<>>) = <<>>
    BY EmptySeq DEF FlattenSeq
  <2>3. <<>> \o <<>> = <<>>
    BY EmptySeq, ConcatEmptySeq
  <2> QED
    BY <1>1, <2>1, <2>2, <2>3 DEF TextPreserved
<1>4. CutInv
  <2>1. /\ <<0>> \in Seq(Nat) /\ Len(<<0>>) = 1 /\ <<0>>[1] = 0
        /\ Len(<<>>) = 0
    OBVIOUS
  <2>2. Cuts(<<0>>, <<>>, 0, <<>>)
    BY <2>1 DEF Cuts
  <2>3. SubSeq(<<>>, <<0>>[Len(<<0>>)] + 1, 0) = <<>> /\ SubSeq(<<>>, 0 + 1, Len(<<>>)) = <<>>
    BY <2>1, SubSeqEmpty
  <2> QED
    BY <1>1, <2>1, <2>2, <2>3 DEF CutInv
<1> QED
  BY <1>1, <1>2, <1>3, <1>4 DEF SplitInv, ChunkingInvisible

\* std::find finds the first line feed of the rest, if there is one.
LEMMA FindProperties ==
    ASSUME SplitTypeOK
    PROVE  /\ find \in 0..Len(rest) /\ Len(rest) \in Nat
           /\ find # 0 => rest[find] = LF /\ \A i \in 1..(find - 1) : rest[i] # LF
           /\ find = 0 => \A i \in 1..Len(rest) : rest[i] # LF
<1> DEFINE I == {i \in 1..Len(rest) : rest[i] = LF}
<1>1. Len(rest) \in Nat
  BY LenProperties DEF SplitTypeOK
<1>2. find = IF I # {} THEN Min(I) ELSE 0
  BY DEF find, SelectInSeq
<1>3. CASE I = {}
  BY <1>1, <1>2, <1>3
<1>4. CASE I # {}
  <2>1. I \in SUBSET Nat
    OBVIOUS
  <2>2. \E m \in I : \A i \in I : m <= i
    BY <1>4, <2>1, Least
  <2>3. Min(I) \in I /\ \A i \in I : Min(I) <= i
    BY <2>2 DEF Min
  <2>4. find \in I /\ \A i \in I : find <= i
    BY <1>2, <1>4, <2>3
  <2>5. find \in 1..Len(rest) /\ rest[find] = LF
    BY <2>4
  <2>6. ASSUME NEW i \in 1..(find - 1) PROVE rest[i] # LF
    <3>1. i \in 1..Len(rest) /\ i \in Nat /\ find \in Nat /\ ~(find <= i)
      BY <1>1, <2>5
    <3> QED
      BY <2>4, <3>1
  <2> HIDE DEF I
  <2> QED
    BY <1>1, <2>5, <2>6
<1> QED
  BY <1>3, <1>4

\* The lines with their line feeds, as one text.
Terminated(lines) == [i \in DOMAIN lines |-> Append(lines[i], LF)]

\* They are as many texts.
LEMMA TerminatedType ==
    ASSUME NEW lines \in Seq(Seq(Chars))
    PROVE  /\ Terminated(lines) \in Seq(Seq(Chars))
           /\ Len(Terminated(lines)) = Len(lines)
<1>1. Len(lines) \in Nat /\ DOMAIN lines = 1..Len(lines)
  BY LenProperties
<1>2. LF \in Chars
  BY DEF Chars
<1>3. \A i \in 1..Len(lines) : Append(lines[i], LF) \in Seq(Chars)
  BY <1>2, ElementOfSeq, AppendProperties
<1> QED
  BY <1>1, <1>3, IsASeq DEF Terminated

\* One more line is one more text.
LEMMA TerminatedAppend ==
    ASSUME NEW lines \in Seq(Seq(Chars)), NEW line \in Seq(Chars)
    PROVE  Terminated(Append(lines, line)) = Append(Terminated(lines), Append(line, LF))
<1>1. PICK l \in Seq(Seq(Chars)) : l = Append(lines, line)
  BY AppendProperties
<1>2. PICK k \in Nat : k = Len(lines)
  BY LenProperties
<1>3. Len(l) = k + 1 /\ l[k + 1] = line /\ \A i \in 1..k : l[i] = lines[i]
  BY <1>1, <1>2, AppendProperties
<1>4. PICK x \in Seq(Chars) : x = Append(line, LF)
  BY AppendProperties DEF Chars
<1>5. PICK r : r = Append(Terminated(lines), x)
  OBVIOUS
<1>6. /\ r \in Seq(Seq(Chars)) /\ Len(r) = k + 1 /\ r[k + 1] = x
      /\ \A i \in 1..k : r[i] = Terminated(lines)[i]
  BY <1>2, <1>5, TerminatedType, AppendProperties
<1>7. DOMAIN lines = 1..k /\ DOMAIN l = 1..(k + 1) /\ DOMAIN r = 1..(k + 1)
  BY <1>2, <1>3, <1>6, LenProperties
<1>8. ASSUME NEW i \in 1..(k + 1) PROVE Append(l[i], LF) = r[i]
  <2>1. CASE i = k + 1
    BY <1>3, <1>4, <1>6, <2>1
  <2>2. CASE i \in 1..k
    BY <1>3, <1>6, <1>7, <2>2 DEF Terminated
  <2> QED
    BY <2>1, <2>2
<1>9. r = [i \in 1..(k + 1) |-> r[i]]
  BY <1>6, <1>7, LenProperties
<1> QED
  BY <1>1, <1>4, <1>5, <1>7, <1>8, <1>9 DEF Terminated

\* Texts can be put together in any grouping.  With the two operators kept
\* closed, the steps that only regroup are first-order.
Texts == Seq(Chars)
Cat(s, t) == s \o t

\* Texts are closed under concatenation, which is associative.
LEMMA TextConcat ==
    \A s, t, u \in Texts : Cat(s, t) \in Texts /\ Cat(Cat(s, t), u) = Cat(s, Cat(t, u))
<1>1. \A s, t \in Texts : Cat(s, t) \in Texts
  BY ConcatProperties DEF Texts, Cat
<1>2. \A s, t, u \in Texts : Cat(Cat(s, t), u) = Cat(s, Cat(t, u))
  BY ConcatAssociative, SMTT(30) DEF Texts, Cat
<1> QED
  BY <1>1, <1>2

\* The line begun, what is before the line feed, and what is behind it.
LEMMA Regroup ==
    ASSUME NEW f \in Texts, NEW a \in Texts, NEW b \in Texts, NEW e \in Texts, NEW r \in Texts
    PROVE  Cat(Cat(f, Cat(Cat(a, b), e)), r) = Cat(Cat(f, a), Cat(Cat(b, e), r))
<1>1. PICK be \in Texts : be = Cat(b, e)
  BY TextConcat
<1>2. PICK fa \in Texts : fa = Cat(f, a)
  BY TextConcat
<1>3. Cat(Cat(a, b), e) = Cat(a, be)
  BY <1>1, TextConcat
<1>4. Cat(f, Cat(a, be)) = Cat(fa, be)
  BY <1>1, <1>2, TextConcat
<1>5. Cat(Cat(fa, be), r) = Cat(fa, Cat(be, r))
  BY <1>1, <1>2, TextConcat
<1> QED
  BY <1>1, <1>2, <1>3, <1>4, <1>5

\* A chunk is the text behind what was given before it.
LEMMA TailOfText ==
    \A s, t \in Texts : t = SubSeq(s \o t, Len(s) + 1, Len(s) + Len(t))
  BY TailOfConcat DEF Texts

\* A text is what is before one of its characters, that, and what follows.
LEMMA TextSplit ==
    \A t \in Texts : \A p \in 1..Len(t) :
        t = (SubSeq(t, 1, p - 1) \o <<t[p]>>) \o SubSeq(t, p + 1, Len(t))
<1> SUFFICES ASSUME NEW t \in Texts, NEW p \in 1..Len(t)
             PROVE  t = (SubSeq(t, 1, p - 1) \o <<t[p]>>) \o SubSeq(t, p + 1, Len(t))
  OBVIOUS
<1>1. PICK l \in Nat : l = Len(t)
  BY LenProperties DEF Texts
<1>2. t \in Seq(Chars) /\ p \in 1..l
  BY <1>1 DEF Texts
<1>3. t = (SubSeq(t, 1, p - 1) \o <<t[p]>>) \o SubSeq(t, p + 1, l)
  BY <1>1, <1>2, SplitAt
<1> QED
  BY <1>1, <1>3

\* What TextPreserved says of the forwarded lines.
LEMMA PreservedText ==
    ASSUME SplitTypeOK
    PROVE  /\ FlattenSeq(Terminated(forwarded)) \in Seq(Chars)
           /\ TextPreserved <=>
                (pc # "dead" =>
                   (FlattenSeq(Terminated(forwarded)) \o m_active_line) \o rest = given)
  BY TerminatedType, FlattenType DEF SplitTypeOK, TextPreserved, Terminated

\* A chunk is taken up when the last one is done with.
LEMMA ReadKeeps ==
    ASSUME SplitInv, NEW chunk \in Seq(Chars), read_and_forward(chunk)
    PROVE  SplitInv'
<1> USE DEF SplitInv
<1>1. /\ pc = "idle" /\ pc' = "loop" /\ rest = <<>> /\ rest' = chunk /\ given' = given \o chunk
      /\ UNCHANGED <<m_active_line, forwarded>>
  BY DEF read_and_forward, SplitTypeOK
<1>2. PICK g \in Seq(Chars) : g = given \o chunk
  BY ConcatProperties DEF SplitTypeOK
<1>3. PICK k \in Nat, l \in Nat : k = Len(given) /\ l = Len(chunk)
  BY LenProperties DEF SplitTypeOK
<1>4. /\ Len(g) = k + l
      /\ \A i \in 1..(k + l) : g[i] = IF i <= k THEN given[i] ELSE chunk[i - k]
  BY <1>2, <1>3, ConcatProperties DEF SplitTypeOK
<1>5. SplitTypeOK'
  BY <1>1, <1>2 DEF SplitTypeOK
<1>6. TextPreserved'
  <2>1. PICK f \in Seq(Chars) : f = FlattenSeq(Terminated(forwarded))
    BY PreservedText
  <2>2. f \o m_active_line = given
    <3>1. f \o m_active_line \in Seq(Chars)
      BY ConcatProperties DEF SplitTypeOK
    <3> QED
      BY <1>1, <2>1, <3>1, PreservedText, ConcatEmptySeq
  <2> QED
    BY <1>1, <2>1, <2>2 DEF TextPreserved, Terminated
<1>7. CutInv'
  <2>1. PICK n \in Nat : \E c :
            /\ n + Len(rest) = Len(given)
            /\ Cuts(c, given, n, forwarded)
            /\ m_active_line = SubSeq(given, c[Len(c)] + 1, n)
    BY <1>1 DEF CutInv
  <2>2. PICK c :
            /\ n + Len(rest) = Len(given)
            /\ Cuts(c, given, n, forwarded)
            /\ m_active_line = SubSeq(given, c[Len(c)] + 1, n)
    BY <2>1
  <2>3. n = k
    BY <1>1, <1>3, <2>2, EmptySeq
  <2>4. \A i \in 1..n : given[i] = g[i]
    BY <1>4, <2>3
  <2>5. Cuts(c, g, n, forwarded)
    <3>1. forwarded \in Seq(Seq(Chars)) /\ n <= n /\ \A i \in (n + 1)..n : g[i] # LF
      BY DEF SplitTypeOK
    <3> QED
      BY <2>2, <2>4, <3>1, CutsKept
  <2>6. c[Len(c)] \in 0..n
    BY <2>2, LastCut DEF SplitTypeOK
  <2>7. PICK a \in 1..(n + 1) : a = c[Len(c)] + 1
    BY <2>6
  <2>8. SubSeq(given, a, n) = SubSeq(g, a, n)
    <3>1. \A i \in a..n : given[i] = g[i]
      BY <2>4
    <3>2. a \in Nat /\ n \in Int
      OBVIOUS
    <3> QED
      BY <3>1, <3>2, SubSeqSame
  <2>9. chunk = SubSeq(g, n + 1, k + l)
    <3>1. chunk = SubSeq(given \o chunk, k + 1, k + l)
      <4>1. given \in Texts /\ chunk \in Texts
        BY DEF SplitTypeOK, Texts
      <4> QED
        BY <1>3, <4>1, TailOfText, Zenon
    <3> QED
      BY <1>2, <2>3, <3>1
  <2>10. n + Len(rest') = Len(given')
    BY <1>1, <1>2, <1>3, <1>4, <2>3
  <2> QED
    BY <1>1, <1>2, <1>4, <2>2, <2>5, <2>7, <2>8, <2>9, <2>10 DEF CutInv
<1> QED
  BY <1>1, <1>5, <1>6, <1>7 DEF ChunkingInvisible

\* A line feed is found: the line is what was begun and what is before it.
LEMMA ForwardKeeps ==
    ASSUME SplitInv, ForwardLine
    PROVE  SplitInv'
<1> USE DEF SplitInv
<1>1. PICK p \in Nat : p = find
  BY FindProperties
<1>2. PICK l \in Nat : l = Len(rest)
  BY FindProperties
<1>3. /\ p \in 1..l /\ rest[p] = LF /\ \A i \in 1..(p - 1) : rest[i] # LF
  BY <1>1, <1>2, FindProperties DEF ForwardLine
<1>4. PICK before : before = SubSeq(rest, 1, p - 1)
  OBVIOUS
<1>5. PICK after : after = SubSeq(rest, p + 1, l)
  OBVIOUS
<1>6. /\ before \in Seq(Chars) /\ after \in Seq(Chars) /\ Len(after) = l - p
  BY <1>2, <1>3, <1>4, <1>5, PartsAt DEF SplitTypeOK
<1>7. rest = (before \o <<LF>>) \o after
  <2>1. rest \in Texts
    BY DEF SplitTypeOK, Texts
  <2> QED
    BY <1>2, <1>3, <1>4, <1>5, <2>1, TextSplit, Zenon
<1>8. PICK line \in Seq(Chars) : line = m_active_line \o before
  BY <1>6, ConcatProperties DEF SplitTypeOK
<1>9. /\ pc = "loop" /\ pc' \in {"idle", "loop"} /\ (pc' = "idle" => rest' = <<>>)
      /\ forwarded' = Append(forwarded, line) /\ m_active_line' = <<>>
      /\ rest' = after /\ given' = given
  BY <1>1, <1>2, <1>4, <1>5, <1>8 DEF ForwardLine
<1>10. SplitTypeOK'
  <2>1. /\ rest' \in Seq(Chars) /\ m_active_line' \in Seq(Chars)
        /\ forwarded' \in Seq(Seq(Chars))
    BY <1>6, <1>9, EmptySeq, AppendProperties DEF SplitTypeOK
  <2> QED
    BY <1>9, <2>1 DEF SplitTypeOK
<1>11. TextPreserved'
  <2>1. PICK f \in Seq(Chars) : f = FlattenSeq(Terminated(forwarded))
    BY PreservedText
  <2>2. (f \o m_active_line) \o rest = given
    BY <1>9, <2>1, PreservedText
  <2>3. PICK end \in Seq(Chars) : end = <<LF>>
    <3>1. PICK ch \in Chars : ch = LF
      BY DEF Chars
    <3>2. <<ch>> \in Seq(Chars)
      OBVIOUS
    <3> QED
      BY <3>1, <3>2
  <2>4. Append(line, LF) = line \o end
    BY <2>3, AppendIsConcat DEF Chars
  <2>5. FlattenSeq(Terminated(forwarded')) = f \o (line \o end)
    <3>1. Append(line, LF) \in Seq(Chars)
      BY AppendProperties DEF Chars
    <3>2. Terminated(forwarded) \in Seq(Seq(Chars))
      BY TerminatedType DEF SplitTypeOK
    <3>3. FlattenSeq(Append(Terminated(forwarded), Append(line, LF))) = f \o Append(line, LF)
      BY <2>1, <3>1, <3>2, FlattenAppend
    <3> QED
      BY <1>9, <2>4, <3>3, TerminatedAppend DEF SplitTypeOK
  <2>6. (f \o (line \o end)) \o after = (f \o m_active_line) \o rest
    <3>1. /\ f \in Texts /\ m_active_line \in Texts /\ before \in Texts /\ end \in Texts
          /\ after \in Texts
      BY <1>6 DEF SplitTypeOK, Texts
    <3>2. Cat(Cat(f, Cat(Cat(m_active_line, before), end)), after)
            = Cat(Cat(f, m_active_line), Cat(Cat(before, end), after))
      BY <3>1, Regroup
    <3> QED
      BY <1>8, <1>7, <2>3, <3>2, Zenon DEF Cat
  <2>7. (f \o (line \o end)) \o <<>> = f \o (line \o end)
    BY ConcatProperties, ConcatEmptySeq
  <2>8. (FlattenSeq(Terminated(forwarded')) \o m_active_line') \o rest' = given'
    BY <1>9, <2>2, <2>5, <2>6, <2>7
  <2> QED
    BY <2>8 DEF TextPreserved, Terminated
<1>12. CutInv'
  <2>1. PICK n \in Nat : \E c :
            /\ n + l = Len(given)
            /\ Cuts(c, given, n, forwarded)
            /\ m_active_line = SubSeq(given, c[Len(c)] + 1, n)
            /\ rest = SubSeq(given, n + 1, Len(given))
    BY <1>2, <1>9 DEF CutInv
  <2>2. PICK c :
            /\ n + l = Len(given)
            /\ Cuts(c, given, n, forwarded)
            /\ m_active_line = SubSeq(given, c[Len(c)] + 1, n)
            /\ rest = SubSeq(given, n + 1, Len(given))
    BY <2>1
  <2>3. PICK m \in Nat : m = n + p
    BY <1>3
  <2>4. n < m /\ m <= n + l
    BY <1>3, <2>3
  <2>5. ASSUME NEW i \in 1..l PROVE given[n + i] = rest[i]
    BY <2>2, <2>5, PieceAt DEF SplitTypeOK
  <2>6. given[m] = LF
    BY <1>3, <2>3, <2>5
  <2>7. ASSUME NEW i \in (n + 1)..(m - 1) PROVE given[i] # LF
    <3>1. i - n \in 1..(p - 1) /\ i - n \in 1..l /\ n + (i - n) = i
      BY <1>3, <2>3
    <3>2. given[n + (i - n)] = rest[i - n] /\ rest[i - n] # LF
      BY <1>3, <2>5, <3>1
    <3> QED
      BY <3>1, <3>2
  <2>8. c[Len(c)] \in 0..n
    BY <2>2, LastCut DEF SplitTypeOK
  <2>9. PICK a \in 1..(n + 1) : a = c[Len(c)] + 1
    BY <2>8
  <2>10. before = SubSeq(given, n + 1, m - 1)
    BY <1>2, <1>3, <1>4, <2>2, <2>3, PieceOfPiece DEF SplitTypeOK
  <2>11. line = SubSeq(given, a, m - 1)
    <3>1. a \in 1..(Len(given) + 1) /\ n \in (a - 1)..Len(given) /\ m - 1 \in n..Len(given)
      BY <1>3, <2>2, <2>3, <2>9, SMTT(30)
    <3> QED
      BY <1>8, <2>2, <2>9, <2>10, <3>1, ConcatAdjacentSubSeq DEF SplitTypeOK
  <2>12. Cuts(Append(c, m), given, m, Append(forwarded, line))
    <3>1. line = LastPart(given, c, m - 1)
      BY <2>9, <2>11, Zenon DEF LastPart
    <3>2. forwarded \in Seq(Seq(Chars))
      BY DEF SplitTypeOK
    <3> QED
      BY <2>2, <2>4, <2>6, <2>7, <3>1, <3>2, CutsNext
  <2>13. Append(c, m)[Len(Append(c, m))] = m
    BY <2>2, AppendProperties DEF Cuts
  <2>14. SubSeq(given, m + 1, m) = <<>>
    BY SubSeqEmpty
  <2>15. after = SubSeq(given, m + 1, Len(given))
    <3>1. after = SubSeq(given, n + (p + 1), n + l)
      <4>1. PICK q \in 1..(l + 1) : q = p + 1
        BY <1>3
      <4>2. l \in 0..l
        OBVIOUS
      <4>3. SubSeq(rest, q, l) = SubSeq(given, n + q, n + l)
        BY <2>2, <4>2, PieceOfPiece DEF SplitTypeOK
      <4> QED
        BY <1>5, <4>1, <4>3
    <3>2. n + (p + 1) = m + 1 /\ n + l = Len(given)
      BY <2>2, <2>3
    <3> QED
      BY <3>1, <3>2
  <2>16. m + Len(rest') = Len(given')
    <3>1. Len(rest') = l - p /\ Len(given') = n + l
      BY <1>6, <1>9, <2>2
    <3> QED
      BY <1>3, <2>3, <3>1
  <2> QED
    BY <1>9, <2>12, <2>13, <2>14, <2>15, <2>16 DEF CutInv
<1> QED
  BY <1>9, <1>10, <1>11, <1>12 DEF ChunkingInvisible


\* No line feed is left: the rest of the chunk is added to the line begun.
LEMMA KeepKeeps ==
    ASSUME SplitInv, KeepPart
    PROVE  SplitInv'
<1> USE DEF SplitInv
<1>1. /\ pc = "loop" /\ pc' = "idle" /\ rest' = <<>> /\ m_active_line' = m_active_line \o rest
      /\ UNCHANGED <<forwarded, given>>
  BY DEF KeepPart
<1>2. PICK l \in Nat : l = Len(rest)
  BY FindProperties
<1>3. \A i \in 1..l : rest[i] # LF
  BY <1>2, FindProperties DEF KeepPart
<1>4. PICK part \in Seq(Chars) : part = m_active_line \o rest
  BY ConcatProperties DEF SplitTypeOK
<1>5. SplitTypeOK'
  BY <1>1, <1>4, EmptySeq DEF SplitTypeOK
<1>6. TextPreserved'
  <2>1. PICK f \in Texts : f = FlattenSeq(Terminated(forwarded))
    BY PreservedText DEF Texts
  <2>2. Cat(Cat(f, m_active_line), rest) = given
    BY <1>1, <2>1, PreservedText DEF Cat
  <2>3. m_active_line \in Texts /\ rest \in Texts
    BY DEF SplitTypeOK, Texts
  <2>4. Cat(f, Cat(m_active_line, rest)) = given
    BY <2>2, <2>3, TextConcat
  <2>5. f \o part = given
    BY <1>4, <2>4, Zenon DEF Cat
  <2>6. (f \o part) \o <<>> = f \o part
    <3>1. f \o part \in Seq(Chars)
      BY <2>5, Zenon DEF SplitTypeOK
    <3> QED
      BY <3>1, ConcatEmptySeq
  <2> QED
    BY <1>1, <1>4, <2>1, <2>5, <2>6 DEF TextPreserved, Terminated
<1>7. CutInv'
  <2>1. PICK n \in Nat : \E c :
            /\ n + l = Len(given)
            /\ Cuts(c, given, n, forwarded)
            /\ m_active_line = SubSeq(given, c[Len(c)] + 1, n)
            /\ rest = SubSeq(given, n + 1, Len(given))
    BY <1>1, <1>2 DEF CutInv
  <2>2. PICK c :
            /\ n + l = Len(given)
            /\ Cuts(c, given, n, forwarded)
            /\ m_active_line = SubSeq(given, c[Len(c)] + 1, n)
            /\ rest = SubSeq(given, n + 1, Len(given))
    BY <2>1
  <2>3. PICK m \in Nat : m = n + l
    OBVIOUS
  <2>4. ASSUME NEW i \in 1..l PROVE given[n + i] = rest[i]
    BY <1>2, <2>2, <2>4, PieceAt DEF SplitTypeOK
  <2>5. ASSUME NEW i \in (n + 1)..m PROVE given[i] # LF
    <3>1. i - n \in 1..l /\ n + (i - n) = i
      BY <2>3
    <3>2. given[n + (i - n)] = rest[i - n] /\ rest[i - n] # LF
      BY <1>3, <2>4, <3>1
    <3> QED
      BY <3>1, <3>2
  <2>6. Cuts(c, given, m, forwarded)
    <3>1. /\ forwarded \in Seq(Seq(Chars)) /\ n <= m
          /\ \A i \in 1..n : given[i] = given[i]
      BY <2>3 DEF SplitTypeOK
    <3> QED
      BY <2>2, <2>5, <3>1, CutsKept
  <2>7. c[Len(c)] \in 0..n
    BY <2>2, LastCut DEF SplitTypeOK
  <2>8. PICK a \in 1..(n + 1) : a = c[Len(c)] + 1
    BY <2>7
  <2>9. part = SubSeq(given, a, m)
    <3>1. a \in 1..(Len(given) + 1) /\ n \in (a - 1)..Len(given) /\ m \in n..Len(given)
      BY <2>2, <2>3, <2>8, SMTT(30)
    <3> QED
      BY <1>4, <2>2, <2>3, <2>8, <3>1, ConcatAdjacentSubSeq DEF SplitTypeOK
  <2>10. SubSeq(given, m + 1, m) = <<>>
    BY SubSeqEmpty
  <2>11. m + Len(<<>>) = Len(given) /\ m = Len(given)
    BY <2>2, <2>3, EmptySeq
  <2> QED
    <3>1. m + Len(rest') = Len(given') /\ Cuts(c, given', m, forwarded')
      BY <1>1, <2>6, <2>11
    <3>2. /\ m_active_line' = SubSeq(given', c[Len(c)] + 1, m)
          /\ rest' = SubSeq(given', m + 1, Len(given'))
      BY <1>1, <1>4, <2>8, <2>9, <2>10, <2>11, Zenon
    <3> QED
      BY <3>1, <3>2, Zenon DEF CutInv
<1> QED
  BY <1>1, <1>5, <1>6, <1>7 DEF ChunkingInvisible

\* The destructor forwards the line begun, which is the last line of the text.
LEMMA DestroyKeeps ==
    ASSUME SplitInv, Destroy
    PROVE  SplitInv'
<1> USE DEF SplitInv
<1>1. /\ pc = "idle" /\ pc' = "dead" /\ rest = <<>>
      /\ forwarded' = IF m_active_line = <<>> THEN forwarded
                      ELSE Append(forwarded, m_active_line)
      /\ UNCHANGED <<rest, m_active_line, given>>
  BY DEF Destroy, SplitTypeOK
<1>2. SplitTypeOK'
  <2>1. Append(forwarded, m_active_line) \in Seq(Seq(Chars))
    BY AppendProperties DEF SplitTypeOK
  <2> QED
    BY <1>1, <2>1 DEF SplitTypeOK
<1>3. ChunkingInvisible'
  <2>1. PICK n \in Nat : \E c :
            /\ n + Len(rest) = Len(given)
            /\ Cuts(c, given, n, forwarded)
            /\ m_active_line = SubSeq(given, c[Len(c)] + 1, n)
    BY <1>1 DEF CutInv
  <2>2. PICK c :
            /\ n + Len(rest) = Len(given)
            /\ Cuts(c, given, n, forwarded)
            /\ m_active_line = SubSeq(given, c[Len(c)] + 1, n)
    BY <2>1
  <2>3. n = Len(given)
    BY <1>1, <2>2, EmptySeq
  <2>4. Divided(given, c, forwarded, m_active_line)
    BY <2>2, <2>3, Zenon DEF SplitTypeOK, Divided, LastPart
  <2>5. forwarded' = Lines(given')
    <3>1. Lines(given) = AllLines(forwarded, m_active_line)
      BY <2>4, LinesDivided
    <3> QED
      BY <1>1, <3>1, Zenon DEF AllLines
  <2> QED
    BY <2>5 DEF ChunkingInvisible
<1> QED
  BY <1>1, <1>2, <1>3 DEF TextPreserved, CutInv

\* The chunks of the model are texts.
LEMMA ChunkType ==
    ASSUME NEW chunk \in BoundedSeq(Others \cup {LF}, MaxChunk)
    PROVE  chunk \in Seq(Chars)
  BY DEF BoundedSeq, SeqOf, Chars

\* Every step of the splitter keeps the invariant.
LEMMA SplitNextPreserves == SplitInv /\ [Next]_vars => SplitInv'
<1> SUFFICES ASSUME SplitInv, [Next]_vars
             PROVE  SplitInv'
  OBVIOUS
<1>1. CASE \E chunk \in BoundedSeq(Others \cup {LF}, MaxChunk) : read_and_forward(chunk)
  BY <1>1, ChunkType, ReadKeeps
<1>2. CASE ForwardLine
  BY <1>2, ForwardKeeps
<1>3. CASE KeepPart
  BY <1>3, KeepKeeps
<1>4. CASE Destroy
  BY <1>4, DestroyKeeps
<1>5. CASE UNCHANGED vars
  <2>1. SplitTypeOK'
    BY <1>5 DEF vars, SplitInv, SplitTypeOK
  <2>2. TextPreserved'
    BY <1>5 DEF vars, SplitInv, TextPreserved
  <2>3. CutInv'
    BY <1>5 DEF vars, SplitInv, CutInv
  <2>4. ChunkingInvisible'
    BY <1>5 DEF vars, SplitInv, ChunkingInvisible
  <2> QED
    BY <2>1, <2>2, <2>3, <2>4 DEF SplitInv
<1> QED
  BY <1>1, <1>2, <1>3, <1>4, <1>5 DEF Next

\* A conversion leaves the splitter alone.
LEMMA TextNextSplits ==
    /\ TextInit => Init
    /\ [TextNext]_<<vars, textVars>> => [Next]_vars
<1>1. TextInit => Init
  BY DEF TextInit
<1>2. ASSUME [TextNext]_<<vars, textVars>> PROVE [Next]_vars
  <2>1. CASE WriteCData
    BY <2>1 DEF WriteCData, Convert
  <2>2. CASE WriteBody
    BY <2>2 DEF WriteBody, Convert
  <2>3. CASE Configure
    BY <2>3 DEF Configure, Convert
  <2>4. CASE Next
    BY <2>4
  <2>5. CASE UNCHANGED vars
    BY <2>5
  <2> QED
    BY <1>2, <2>1, <2>2, <2>3, <2>4, <2>5 DEF TextNext
<1> QED
  BY <1>1, <1>2

\* The invariant holds in every state, conversions included.
LEMMA SplitInvariant == TextSpec => []SplitInv
<1>1. TextInit => SplitInv
  BY TextNextSplits, SplitInitEstablishes
<1>2. SplitInv /\ [TextNext]_<<vars, textVars>> => SplitInv'
  BY TextNextSplits, SplitNextPreserves
<1> QED
  BY <1>1, <1>2, PTL DEF TextSpec

\* read_and_forward and the code behind it neither lose nor double nor move a
\* character: the forwarded lines, each with its line feed, the line begun and
\* the rest of the chunk are the text so far, however it was cut into chunks.
THEOREM NothingIsLost == TextSpec => []TextPreserved
<1>1. SplitInv => TextPreserved
  BY DEF SplitInv
<1> QED
  BY <1>1, SplitInvariant, PTL

\* When the destructor of line_splitter has run, the sink was called with the
\* lines of the text, the last one also if no line feed ended it, whatever the
\* chunks were that read_and_forward got.
THEOREM LinesOfTheText == TextSpec => []ChunkingInvisible
<1>1. SplitInv => ChunkingInvisible
  BY DEF SplitInv
<1> QED
  BY <1>1, SplitInvariant, PTL

-----------------------------------------------------------------------------
(***************************************************************************)
(* formatCData and its reader.                                             *)
(***************************************************************************)
\* The equation of a recursive function that moves forward to a stop.
Forward(f, n, stop, a, b, next) ==
    f = [p \in 1..n |-> IF p \in stop THEN a[p] ELSE b[p] \o f[next[p]]]

\* Such a function exists, whatever the texts are.
LEMMA ForwardExists ==
    ASSUME NEW n \in Nat, NEW stop, NEW a, NEW b, NEW next,
           \A p \in 1..n : p \notin stop => next[p] \in (p + 1)..n
    PROVE  \E f : Forward(f, n, stop, a, b, next)
<1> DEFINE At(g, p) == g[p] = IF p \in stop THEN a[p] ELSE b[p] \o g[next[p]]
           T == {k \in 1..(n + 1) : \E g : \A p \in k..n : At(g, p)}
<1>1. n + 1 \in T
  OBVIOUS
<1>2. PICK k \in T : \A j \in T : k <= j
  <2>1. T \in SUBSET Nat /\ T # {}
    BY <1>1
  <2> QED
    BY <2>1, Least
<1>3. k = 1
  <2> SUFFICES ASSUME k # 1 PROVE FALSE
    OBVIOUS
  <2>1. PICK j \in 1..n : k = j + 1
    <3>1. k - 1 \in 1..n /\ k = (k - 1) + 1
      OBVIOUS
    <3> QED
      BY <3>1
  <2>2. PICK g : \A p \in k..n : At(g, p)
    OBVIOUS
  <2>3. PICK e : e = IF j \in stop THEN a[j] ELSE b[j] \o g[next[j]]
    OBVIOUS
  <2>4. PICK h : h = [p \in 1..n |-> IF p = j THEN e ELSE g[p]]
    OBVIOUS
  <2>5. ASSUME NEW p \in j..n PROVE At(h, p)
    <3>1. p \in 1..n /\ (p \notin stop => next[p] \in 1..n /\ next[p] # j)
      BY <2>1
    <3>2. CASE p = j
      BY <2>3, <2>4, <3>1, <3>2
    <3>3. CASE p # j
      <4>1. p \in k..n
        BY <2>1, <3>3
      <4> QED
        BY <2>2, <2>4, <3>1, <3>3, <4>1
    <3> QED
      BY <3>2, <3>3
  <2>6. j \in T
    <3>1. j \in 1..(n + 1)
      BY <2>1
    <3> QED
      BY <2>5, <3>1
  <2>7. k <= j
    BY <1>2, <2>6
  <2> QED
    BY <2>1, <2>7
<1>4. PICK g : \A p \in 1..n : At(g, p)
  BY <1>3
<1>5. PICK f : f = [p \in 1..n |-> g[p]]
  OBVIOUS
<1>6. ASSUME NEW p \in 1..n
      PROVE  f[p] = IF p \in stop THEN a[p] ELSE b[p] \o f[next[p]]
  <2>1. f[p] = g[p] /\ (p \notin stop => f[next[p]] = g[next[p]])
    BY <1>5
  <2> QED
    BY <1>4, <2>1
<1>7. f = [p \in 1..n |-> IF p \in stop THEN a[p] ELSE b[p] \o f[next[p]]]
  BY <1>5, <1>6
<1> QED
  BY <1>7 DEF Forward

\* Its values are in a set of texts if the pieces are.
LEMMA ForwardType ==
    ASSUME NEW n \in Nat, NEW stop, NEW a, NEW b, NEW next,
           \A p \in 1..n : p \notin stop => next[p] \in (p + 1)..n,
           NEW f, Forward(f, n, stop, a, b, next),
           NEW L, \A s, t \in L : s \o t \in L,
           \A p \in 1..n : IF p \in stop THEN a[p] \in L ELSE b[p] \in L
    PROVE  \A p \in 1..n : f[p] \in L
<1> DEFINE T == {k \in 1..n : f[n + 1 - k] \notin L}
<1>1. ASSUME T # {} PROVE FALSE
  <2>1. PICK k \in T : \A j \in T : k <= j
    <3>1. T \in SUBSET Nat
      OBVIOUS
    <3> HIDE DEF T
    <3> QED
      BY <1>1, <3>1, Least
  <2>2. PICK p \in 1..n : p = n + 1 - k
    OBVIOUS
  <2>3. p \notin stop
    BY <2>1, <2>2 DEF Forward
  <2>4. PICK q \in (p + 1)..n : q = next[p]
    BY <2>3
  <2>5. f[p] = b[p] \o f[q]
    BY <2>3, <2>4 DEF Forward
  <2>6. f[q] \in L
    <3>1. PICK j \in 1..n : j = n + 1 - q
      BY <2>2
    <3>2. j < k /\ n + 1 - j = q
      BY <2>2, <3>1
    <3>3. j \notin T
      BY <2>1, <3>2
    <3> QED
      BY <3>1, <3>2, <3>3
  <2>7. b[p] \in L
    BY <2>3
  <2>8. f[p] \in L
    BY <2>5, <2>6, <2>7
  <2> QED
    BY <2>1, <2>2, <2>8
<1>2. ASSUME NEW p \in 1..n PROVE f[p] \in L
  <2>1. PICK k \in 1..n : k = n + 1 - p
    OBVIOUS
  <2>2. n + 1 - k = p
    BY <2>1
  <2>3. k \notin T
    BY <1>1
  <2> QED
    BY <2>1, <2>2, <2>3
<1> QED
  BY <1>2

\* The end mark of a section is at j.
CloseAt(t, j) == j + 2 <= Len(t) /\ t[j] = "]" /\ t[j + 1] = "]" /\ t[j + 2] = ">"

\* i is the first end mark from p on, or behind the end.
FirstClose(t, p, i) ==
    /\ i \in p..(Len(t) + 1)
    /\ i # Len(t) + 1 => CloseAt(t, i)
    /\ \A j \in p..(i - 1) : ~CloseAt(t, j)

\* There is one first end mark.
LEMMA FirstCloseUnique ==
    ASSUME NEW t, Len(t) \in Nat, NEW p \in Nat, NEW i, NEW k,
           FirstClose(t, p, i), FirstClose(t, p, k)
    PROVE  i = k
<1>1. ASSUME NEW v, NEW w, FirstClose(t, p, v), FirstClose(t, p, w), v < w PROVE FALSE
  <2>1. v \in p..(w - 1) /\ v # Len(t) + 1
    BY <1>1 DEF FirstClose
  <2> QED
    BY <1>1, <2>1 DEF FirstClose
<1>2. i \in Nat /\ k \in Nat
  BY DEF FirstClose
<1>3. CASE i < k
  BY <1>1, <1>3
<1>4. CASE k < i
  BY <1>1, <1>4
<1> QED
  BY <1>2, <1>3, <1>4

\* substr finds the end mark where its characters are.
LEMMA SubstrClose ==
    ASSUME NEW S, NEW t \in Seq(S), NEW n \in Nat, n = Len(t), NEW i \in 1..n
    PROVE  substr(t, i, Len(Close)) = Close <=> CloseAt(t, i)
<1>1. Len(Close) = 3 /\ Close[1] = "]" /\ Close[2] = "]" /\ Close[3] = ">"
      /\ Close \in Seq({"]", ">"})
  BY DEF Close
<1>2. PICK m \in Nat : m = Min({i + 3 - 1, n})
  <2>1. \E v \in {i + 3 - 1, n} : \A w \in {i + 3 - 1, n} : v <= w
    OBVIOUS
  <2>2. Min({i + 3 - 1, n}) \in {i + 3 - 1, n}
    BY <2>1 DEF Min
  <2> QED
    BY <2>2
<1>3. m = IF i + 2 <= n THEN i + 2 ELSE n
  <2>1. \E v \in {i + 3 - 1, n} : \A w \in {i + 3 - 1, n} : v <= w
    OBVIOUS
  <2>2. m \in {i + 3 - 1, n} /\ \A w \in {i + 3 - 1, n} : m <= w
    BY <1>2, <2>1 DEF Min
  <2> QED
    BY <2>2
<1>4. PICK s : s = SubSeq(t, i, m)
  OBVIOUS
<1>5. substr(t, i, Len(Close)) = s
  BY <1>1, <1>2, <1>4, Zenon DEF substr
<1>6. /\ s \in Seq(S) /\ Len(s) = m - i + 1
      /\ \A j \in 1..(m - i + 1) : s[j] = t[i + j - 1]
  <2>1. \A j \in i..m : t[j] \in S
    BY <1>3, ElementOfSeq
  <2> QED
    BY <1>3, <1>4, <2>1, SubSeqProperties, SMTT(30)
<1>7. ASSUME CloseAt(t, i) PROVE s = Close
  <2>1. m = i + 2 /\ t[i] = "]" /\ t[i + 1] = "]" /\ t[i + 2] = ">"
    BY <1>3, <1>7, SMTT(30) DEF CloseAt
  <2>2. Len(s) = 3
    BY <1>6, <2>1
  <2>3. s[1] = "]" /\ s[2] = "]" /\ s[3] = ">"
    <3>1. i + 1 - 1 = i /\ i + 2 - 1 = i + 1 /\ i + 3 - 1 = i + 2
      OBVIOUS
    <3>2. 1 \in 1..(m - i + 1) /\ 2 \in 1..(m - i + 1) /\ 3 \in 1..(m - i + 1)
      BY <2>1
    <3> QED
      BY <1>6, <2>1, <3>1, <3>2
  <2>4. \A j \in 1..3 : s[j] = Close[j]
    BY <1>1, <2>3
  <2> QED
    BY <1>1, <1>6, <2>2, <2>4, SeqEqual, SMTT(30)
<1>8. ASSUME s = Close PROVE CloseAt(t, i)
  <2>1. m - i + 1 = 3
    BY <1>1, <1>6, <1>8
  <2>2. m = i + 2 /\ i + 2 <= n
    BY <1>3, <2>1
  <2>3. s[1] = t[i] /\ s[2] = t[i + 1] /\ s[3] = t[i + 2]
    <3>1. i + 1 - 1 = i /\ i + 2 - 1 = i + 1 /\ i + 3 - 1 = i + 2
      OBVIOUS
    <3> QED
      BY <1>6, <2>1, <3>1
  <2> QED
    BY <1>1, <1>8, <2>2, <2>3 DEF CloseAt
<1> QED
  BY <1>5, <1>7, <1>8

\* find returns the first end mark.
LEMMA FindClose ==
    ASSUME NEW S, NEW t \in Seq(S), NEW p \in 1..(Len(t) + 1)
    PROVE  FirstClose(t, p, FindAny(t, Close, p))
<1>1. PICK n \in Nat : n = Len(t)
  BY LenProperties
<1>2. PICK at : at = {i \in p..n : substr(t, i, Len(Close)) = Close}
  OBVIOUS
<1>3. FindAny(t, Close, p) = IF at = {} THEN n + 1 ELSE Min(at)
  BY <1>1, <1>2 DEF FindAny, npos
<1>4. at = {i \in p..n : CloseAt(t, i)}
  <2>1. \A i \in p..n : substr(t, i, Len(Close)) = Close <=> CloseAt(t, i)
    <3>1. \A i \in p..n : i \in 1..n
      BY <1>1
    <3> QED
      BY <1>1, <3>1, SubstrClose
  <2> QED
    BY <1>2, <2>1
<1>5. CASE at = {}
  BY <1>1, <1>3, <1>4, <1>5 DEF FirstClose
<1>6. CASE at # {}
  <2>1. at \in SUBSET Nat
    BY <1>1, <1>4
  <2>2. PICK m \in at : \A i \in at : m <= i
    BY <1>6, <2>1, Least
  <2>3. Min(at) \in at /\ \A i \in at : Min(at) <= i
    BY <2>2 DEF Min
  <2>4. PICK k : k = FindAny(t, Close, p)
    OBVIOUS
  <2>5. k \in at /\ \A i \in at : k <= i
    BY <1>3, <1>6, <2>3, <2>4
  <2>6. k \in p..n /\ CloseAt(t, k) /\ k # n + 1
    BY <1>1, <1>4, <2>5
  <2>7. ASSUME NEW j \in p..(k - 1), CloseAt(t, j) PROVE FALSE
    <3>1. j \in at
      BY <1>1, <1>4, <2>6, <2>7
    <3>2. k <= j
      BY <2>5, <3>1
    <3> QED
      BY <1>1, <2>6, <3>2
  <2> QED
    BY <1>1, <2>4, <2>6, <2>7 DEF FirstClose
<1> QED
  BY <1>5, <1>6

\* The equations of the recursive functions in formatCData and CData.
Sections(f, t) ==
    f = [pos \in 1..npos(t) |->
            LET i == FindAny(t, Close, pos)
            IN  IF i = npos(t) THEN Rest(t, pos)
                ELSE SubSeq(t, pos, i + 1) \o Close \o <<Open>> \o f[i + 2]]

Reads(g, x) ==
    g = [pos \in 1..npos(x) |->
            IF pos = npos(x) THEN <<>>
            ELSE LET end == FindAny(x, Close, pos + 1)
                 IN  IF x[pos] # Open \/ end = npos(x) THEN <<"malformed">>
                     ELSE SubSeq(x, pos + 1, end - 1) \o g[end + 3]]

\* The characters of a formatted text.
Marked(S) == S \cup {Open, "]", ">"}

\* formatCData frames the value of such a function.
LEMMA SectionsChosen ==
    ASSUME NEW S, NEW t \in Seq(S)
    PROVE  \E f : /\ Sections(f, t)
                  /\ \A p \in 1..npos(t) : f[p] \in Seq(Marked(S))
                  /\ formatCData(t) = (<<Open>> \o f[1]) \o Close
<1>1. PICK n \in Nat : n = npos(t)
  BY LenProperties DEF npos
<1>2. PICK at : at = [p \in 1..n |-> FindAny(t, Close, p)]
  OBVIOUS
<1>3. PICK stop : stop = {p \in 1..n : at[p] = n}
  OBVIOUS
<1>4. PICK a : a = [p \in 1..n |-> Rest(t, p)]
  OBVIOUS
<1>5. PICK b : b = [p \in 1..n |-> (SubSeq(t, p, at[p] + 1) \o Close) \o <<Open>>]
  OBVIOUS
<1>6. PICK next : next = [p \in 1..n |-> at[p] + 2]
  OBVIOUS
<1>7. ASSUME NEW p \in 1..n
      PROVE  /\ at[p] \in p..n
             /\ at[p] # n => at[p] + 2 \in (p + 1)..n
  <2>1. n = Len(t) + 1
    BY <1>1 DEF npos
  <2>2. FirstClose(t, p, at[p])
    BY <1>2, <2>1, FindClose
  <2> QED
    BY <1>1, <2>1, <2>2, SMTT(30) DEF FirstClose, CloseAt
<1>8. \A p \in 1..n : p \notin stop => next[p] \in (p + 1)..n
  BY <1>3, <1>6, <1>7
<1>9. ASSUME NEW f PROVE Sections(f, t) <=> Forward(f, n, stop, a, b, next)
  <2>1. ASSUME NEW p \in 1..n
        PROVE  (IF p \in stop THEN a[p] ELSE b[p] \o f[next[p]])
                 = (LET i == FindAny(t, Close, p)
                    IN  IF i = npos(t) THEN Rest(t, p)
                        ELSE SubSeq(t, p, i + 1) \o Close \o <<Open>> \o f[i + 2])
    <3>1. FindAny(t, Close, p) = at[p] /\ (p \in stop <=> at[p] = npos(t))
      BY <1>1, <1>2, <1>3
    <3>2. a[p] = Rest(t, p) /\ b[p] = (SubSeq(t, p, at[p] + 1) \o Close) \o <<Open>>
          /\ next[p] = at[p] + 2
      BY <1>4, <1>5, <1>6
    <3> QED
      BY <3>1, <3>2, Zenon
  <2> QED
    BY <1>1, <2>1, Zenon DEF Sections, Forward
<1>10. PICK f : f = CHOOSE h : Sections(h, t)
  OBVIOUS
<1>11. \E h : Forward(h, n, stop, a, b, next)
  BY <1>8, ForwardExists
<1>12. Sections(f, t)
  BY <1>9, <1>10, <1>11, Zenon
<1>13. formatCData(t) = (<<Open>> \o f[1]) \o Close
  BY <1>10, Zenon DEF formatCData, Sections
<1>14. PICK M : M = Marked(S)
  OBVIOUS
<1>15. /\ t \in Seq(M) /\ Close \in Seq(M) /\ Open \in M
       /\ \A k \in 1..Len(t) : t[k] \in M
  BY <1>14, ElementOfSeq DEF Marked, Close
<1>16. ASSUME NEW p \in 1..n, NEW k \in Nat, k <= Len(t) PROVE SubSeq(t, p, k) \in Seq(M)
  <2>1. \A j \in p..k : t[j] \in M
    BY <1>15, <1>16
  <2> QED
    BY <2>1, SubSeqProperties
<1>17. ASSUME NEW p \in 1..n PROVE a[p] \in Seq(M)
  <2>1. Len(t) \in Nat /\ Len(t) <= Len(t)
    BY LenProperties
  <2>2. SubSeq(t, p, Len(t)) \in Seq(M)
    BY <1>16, <2>1
  <2> QED
    BY <1>4, <2>2 DEF Rest
<1>18. ASSUME NEW p \in 1..n, p \notin stop PROVE b[p] \in Seq(M)
  <2>1. at[p] # n /\ at[p] + 2 \in (p + 1)..n /\ n = Len(t) + 1 /\ at[p] \in p..n
    BY <1>1, <1>3, <1>7, <1>18 DEF npos
  <2>2. PICK k \in Nat : k = at[p] + 1
    BY <2>1
  <2>3. k <= Len(t)
    BY <1>1, <2>1, <2>2, LenProperties
  <2>4. PICK r \in Seq(M) : r = SubSeq(t, p, k)
    BY <1>16, <2>3
  <2>5. PICK m \in M : m = Open
    BY <1>15
  <2>6. b[p] = (r \o Close) \o <<m>>
    BY <1>5, <2>2, <2>4, <2>5
  <2>7. PICK c \in Seq(M) : c = Close
    BY <1>15
  <2>8. PICK rc \in Seq(M) : rc = r \o c
    BY ConcatProperties
  <2>9. rc \o <<m>> \in Seq(M)
    BY ConcatProperties
  <2> QED
    BY <2>6, <2>7, <2>8, <2>9
<1>19. \A p \in 1..n : IF p \in stop THEN a[p] \in Seq(M) ELSE b[p] \in Seq(M)
  BY <1>17, <1>18
<1>20. \A p \in 1..n : f[p] \in Seq(M)
  <2>1. Forward(f, n, stop, a, b, next)
    BY <1>9, <1>12
  <2>2. PICK L : L = Seq(M)
    OBVIOUS
  <2>3. \A s, u \in L : s \o u \in L
    BY <2>2, ConcatProperties
  <2>4. \A p \in 1..n : IF p \in stop THEN a[p] \in L ELSE b[p] \in L
    BY <1>19, <2>2
  <2>5. \A p \in 1..n : f[p] \in L
    BY <1>8, <2>1, <2>3, <2>4, ForwardType, ZenonT(30)
  <2> QED
    BY <2>2, <2>5
<1> QED
  BY <1>1, <1>12, <1>13, <1>14, <1>20

\* CData is the value of such a function.
LEMMA ReadsChosen ==
    ASSUME NEW S, NEW x \in Seq(S)
    PROVE  \E g : Reads(g, x) /\ CData(x) = g[1]
<1>1. PICK n \in Nat : n = npos(x)
  BY LenProperties DEF npos
<1>2. PICK at : at = [p \in 1..n |-> FindAny(x, Close, p + 1)]
  OBVIOUS
<1>3. PICK stop : stop = {p \in 1..n : p = n \/ x[p] # Open \/ at[p] = n}
  OBVIOUS
<1>4. PICK a : a = [p \in 1..n |-> IF p = n THEN <<>> ELSE <<"malformed">>]
  OBVIOUS
<1>5. PICK b : b = [p \in 1..n |-> SubSeq(x, p + 1, at[p] - 1)]
  OBVIOUS
<1>6. PICK next : next = [p \in 1..n |-> at[p] + 3]
  OBVIOUS
<1>7. ASSUME NEW p \in 1..n, p \notin stop
      PROVE  next[p] \in (p + 1)..n
  <2>1. n = Len(x) + 1 /\ p # n /\ at[p] # n
    BY <1>1, <1>3, <1>7 DEF npos
  <2>2. PICK q \in 1..n : q = p + 1
    BY <2>1
  <2>3. FirstClose(x, q, at[p])
    BY <1>2, <2>1, <2>2, FindClose
  <2> QED
    BY <1>1, <1>6, <2>1, <2>2, <2>3, SMTT(30) DEF FirstClose, CloseAt
<1>8. ASSUME NEW g PROVE Reads(g, x) <=> Forward(g, n, stop, a, b, next)
  <2>1. ASSUME NEW p \in 1..n
        PROVE  (IF p \in stop THEN a[p] ELSE b[p] \o g[next[p]])
                 = (IF p = npos(x) THEN <<>>
                    ELSE LET end == FindAny(x, Close, p + 1)
                         IN  IF x[p] # Open \/ end = npos(x) THEN <<"malformed">>
                             ELSE SubSeq(x, p + 1, end - 1) \o g[end + 3])
    <3>1. /\ FindAny(x, Close, p + 1) = at[p]
          /\ p \in stop <=> p = npos(x) \/ x[p] # Open \/ at[p] = npos(x)
      BY <1>1, <1>2, <1>3
    <3>2. /\ a[p] = IF p = npos(x) THEN <<>> ELSE <<"malformed">>
          /\ b[p] = SubSeq(x, p + 1, at[p] - 1)
          /\ next[p] = at[p] + 3
      BY <1>1, <1>4, <1>5, <1>6
    <3> QED
      BY <3>1, <3>2, Zenon
  <2> QED
    BY <1>1, <2>1, Zenon DEF Reads, Forward
<1>9. PICK g : g = CHOOSE h : Reads(h, x)
  OBVIOUS
<1>10. \E h : Forward(h, n, stop, a, b, next)
  BY <1>7, ForwardExists
<1>11. Reads(g, x)
  BY <1>8, <1>9, <1>10, Zenon
<1>12. CData(x) = g[1]
  BY <1>9, Zenon DEF CData, Reads
<1> QED
  BY <1>11, <1>12

\* Closed, so that steps that only name texts do not look into them.
TextsOver(S) == Seq(S)

\* v is s and t, one behind the other.
Joined(s, t, v) ==
    /\ Len(v) = Len(s) + Len(t)
    /\ \A i \in 1..Len(s) : v[i] = s[i]
    /\ \A i \in 1..Len(t) : v[Len(s) + i] = t[i]

\* That is what concatenation does.
LEMMA CatJoins ==
    ASSUME NEW M, NEW s \in Seq(M), NEW t \in Seq(M)
    PROVE  s \o t \in Seq(M) /\ Joined(s, t, s \o t)
<1>1. PICK k \in Nat, l \in Nat : k = Len(s) /\ l = Len(t)
  BY LenProperties
<1>2. PICK v \in Seq(M) : v = s \o t
  BY ConcatProperties
<1>3. Len(v) = k + l /\ \A i \in 1..(k + l) : v[i] = IF i <= k THEN s[i] ELSE t[i - k]
  BY <1>1, <1>2, ConcatProperties
<1>4. \A i \in 1..k : v[i] = s[i]
  BY <1>3
<1>5. ASSUME NEW i \in 1..l PROVE v[k + i] = t[i]
  <2>1. k + i \in 1..(k + l) /\ ~(k + i <= k) /\ (k + i) - k = i
    OBVIOUS
  <2> QED
    BY <1>3, <2>1
<1>6. Joined(s, t, v)
  BY <1>1, <1>3, <1>4, <1>5 DEF Joined
<1> QED
  BY <1>2, <1>6

\* A section, its end mark and the begin of the next one, then u.
Chain(r, u) == ((r \o Close) \o <<Open>>) \o u

\* v is made of these, d and l characters being in r and u.
Chained(v, r, d, u, l) ==
    /\ Len(v) = d + 4 + l
    /\ \A j \in 1..d : v[j] = r[j]
    /\ v[d + 1] = "]" /\ v[d + 2] = "]" /\ v[d + 3] = ">" /\ v[d + 4] = Open
    /\ \A j \in 1..l : v[(d + 4) + j] = u[j]

\* The characters of a section and of what follows, by position.
LEMMA SectionAndNext ==
    ASSUME NEW M, NEW r \in TextsOver(M), NEW u \in TextsOver(M), Close \in TextsOver(M),
           Open \in M, NEW d \in Nat, d = Len(r), NEW l \in Nat, l = Len(u)
    PROVE  Chained(Chain(r, u), r, d, u, l)
<1>1. PICK v : v = Chain(r, u)
  OBVIOUS
<1> USE DEF TextsOver
<1>2. PICK c \in Seq(M) : c = Close
  OBVIOUS
<1>3. Len(c) = 3 /\ c[1] = "]" /\ c[2] = "]" /\ c[3] = ">"
  BY <1>2 DEF Close
<1>4. PICK rc \in Seq(M) : rc = r \o c /\ Joined(r, c, rc)
  BY CatJoins
<1>5. PICK o \in Seq(M) : o = <<Open>> /\ Len(o) = 1 /\ o[1] = Open
  <2>1. PICK m \in M : m = Open
    OBVIOUS
  <2>2. <<m>> \in Seq(M) /\ Len(<<m>>) = 1 /\ <<m>>[1] = m
    OBVIOUS
  <2> QED
    BY <2>1, <2>2
<1>6. PICK rco \in Seq(M) : rco = rc \o o /\ Joined(rc, o, rco)
  BY CatJoins
<1>7. PICK w \in Seq(M) : w = rco \o u /\ Joined(rco, u, w)
  BY CatJoins
<1>8. v = w
  BY <1>2, <1>4, <1>5, <1>6, <1>7, <1>1, Zenon DEF Chain
<1>9. /\ Len(rc) = d + 3
      /\ \A j \in 1..d : rc[j] = r[j]
      /\ \A j \in 1..3 : rc[d + j] = c[j]
  BY <1>3, <1>4 DEF Joined
<1>10. /\ Len(rco) = d + 4
       /\ \A j \in 1..(d + 3) : rco[j] = rc[j]
       /\ rco[d + 4] = Open
  <2>1. /\ Len(rco) = (d + 3) + 1
        /\ \A j \in 1..(d + 3) : rco[j] = rc[j]
        /\ \A j \in 1..1 : rco[(d + 3) + j] = o[j]
    BY <1>5, <1>6, <1>9 DEF Joined
  <2>2. 1 \in 1..1 /\ (d + 3) + 1 = d + 4
    OBVIOUS
  <2>3. rco[(d + 3) + 1] = o[1]
    BY <2>1, <2>2
  <2> QED
    BY <1>5, <2>1, <2>2, <2>3
<1>11. /\ Len(w) = d + 4 + l
       /\ \A j \in 1..(d + 4) : w[j] = rco[j]
       /\ \A j \in 1..l : w[(d + 4) + j] = u[j]
  BY <1>7, <1>10 DEF Joined
<1>12. \A j \in 1..d : w[j] = r[j]
  BY <1>9, <1>10, <1>11, SMTT(30)
<1>13. w[d + 1] = "]" /\ w[d + 2] = "]" /\ w[d + 3] = ">" /\ w[d + 4] = Open
  <2>1. /\ d + 1 \in 1..(d + 3) /\ d + 2 \in 1..(d + 3) /\ d + 3 \in 1..(d + 3)
        /\ d + 1 \in 1..(d + 4) /\ d + 2 \in 1..(d + 4) /\ d + 3 \in 1..(d + 4)
        /\ d + 4 \in 1..(d + 4) /\ 1 \in 1..3 /\ 2 \in 1..3 /\ 3 \in 1..3
    OBVIOUS
  <2>2. rc[d + 1] = "]" /\ rc[d + 2] = "]" /\ rc[d + 3] = ">"
    BY <1>3, <1>9, <2>1
  <2>3. rco[d + 1] = "]" /\ rco[d + 2] = "]" /\ rco[d + 3] = ">"
    BY <1>10, <2>1, <2>2
  <2> QED
    BY <1>10, <1>11, <2>1, <2>3
<1>14. Chained(w, r, d, u, l)
  BY <1>11, <1>12, <1>13 DEF Chained
<1> QED
  BY <1>8, <1>1, <1>14, Zenon

\* The characters of t from p to m.
Piece(t, p, m) == SubSeq(t, p, m)

\* A section of x holds d characters of t from p on, no end mark among them.
Holds(x, q, t, p, d) ==
    /\ q \in Nat \ {0} /\ p \in Nat \ {0} /\ d \in Nat
    /\ p + d - 1 <= Len(t) /\ q + d + 3 <= Len(x)
    /\ x[q] = Open /\ \A j \in 1..d : x[q + j] = t[p + j - 1]
    /\ x[q + d + 1] = "]" /\ x[q + d + 2] = "]" /\ x[q + d + 3] = ">"
    /\ \A j \in p..(p + d - 3) : ~CloseAt(t, j)

\* Such a section is read.
LEMMA ReadSection ==
    ASSUME NEW S, NEW t \in TextsOver(S), NEW M, NEW x \in TextsOver(M), NEW g, Reads(g, x),
           NEW q, NEW p, NEW d, Holds(x, q, t, p, d)
    PROVE  g[q] = Cat(Piece(t, p, p + d - 1), g[q + d + 4])
<1> USE DEF TextsOver
<1>1. /\ q \in Nat \ {0} /\ p \in Nat \ {0} /\ d \in Nat
      /\ p + d - 1 <= Len(t) /\ q + d + 3 <= Len(x)
      /\ x[q] = Open /\ \A j \in 1..d : x[q + j] = t[p + j - 1]
      /\ x[q + d + 1] = "]" /\ x[q + d + 2] = "]" /\ x[q + d + 3] = ">"
      /\ \A j \in p..(p + d - 3) : ~CloseAt(t, j)
  BY DEF Holds
<1>2. PICK n \in Nat : n = Len(x)
  BY LenProperties
<1> USE <1>1, <1>2
<1>3. PICK e \in Nat : e = q + d + 1
  OBVIOUS
<1>4. FirstClose(x, q + 1, e)
  <2>1. e \in (q + 1)..(n + 1) /\ e # n + 1
    BY <1>3
  <2>2. CloseAt(x, e)
    <3>1. e + 1 = q + d + 2 /\ e + 2 = q + d + 3
      BY <1>3
    <3> QED
      BY <1>3, <3>1 DEF CloseAt
  <2>3. ASSUME NEW j \in (q + 1)..(e - 1), CloseAt(x, j) PROVE FALSE
    <3>1. PICK k \in 1..d : j = q + k
      <4>1. j - q \in 1..d /\ j = q + (j - q)
        BY <1>3
      <4> QED
        BY <4>1
    <3>2. x[j + 2] = ">"
      BY <2>3 DEF CloseAt
    <3>3. CASE k + 2 = d + 1
      <4>1. j + 2 = q + d + 1
        BY <3>1, <3>3
      <4> QED
        BY <3>2, <4>1
    <3>4. CASE k + 2 = d + 2
      <4>1. j + 2 = q + d + 2
        BY <3>1, <3>4
      <4> QED
        BY <3>2, <4>1
    <3>5. CASE k + 2 <= d
      <4>1. k \in 1..d /\ k + 1 \in 1..d /\ k + 2 \in 1..d
        BY <3>5
      <4>2. x[q + k] = t[p + k - 1] /\ x[q + (k + 1)] = t[p + (k + 1) - 1]
            /\ x[q + (k + 2)] = t[p + (k + 2) - 1]
        BY <4>1
      <4>3. PICK i \in p..(p + d - 3) : i = p + k - 1
        BY <3>5
      <4>4. /\ p + (k + 1) - 1 = i + 1 /\ p + (k + 2) - 1 = i + 2
            /\ q + (k + 1) = j + 1 /\ q + (k + 2) = j + 2 /\ i + 2 <= Len(t)
        <5>1. Len(t) \in Nat
          BY LenProperties
        <5> QED
          BY <3>1, <3>5, <4>3, <5>1
      <4>5. CloseAt(t, i)
        BY <2>3, <3>1, <4>2, <4>3, <4>4 DEF CloseAt
      <4> QED
        BY <4>5
    <3> QED
      BY <3>3, <3>4, <3>5
  <2> QED
    BY <2>1, <2>2, <2>3 DEF FirstClose
<1>5. FindAny(x, Close, q + 1) = e
  <2>1. PICK k \in 1..(Len(x) + 1) : k = q + 1
    OBVIOUS
  <2>2. FirstClose(x, k, FindAny(x, Close, k))
    BY FindClose
  <2>3. Len(x) \in Nat /\ k \in Nat
    OBVIOUS
  <2>4. FindAny(x, Close, k) = e
    BY <1>4, <2>1, <2>2, <2>3, FirstCloseUnique
  <2> QED
    BY <2>1, <2>4
<1>6. npos(x) = n + 1 /\ q \in 1..npos(x) /\ q # npos(x) /\ e # npos(x) /\ e - 1 = q + d
      /\ e + 3 = q + d + 4
  BY <1>3 DEF npos
<1>7. g[q] = SubSeq(x, q + 1, q + d) \o g[q + d + 4]
  <2>1. g[q] = SubSeq(x, q + 1, e - 1) \o g[e + 3]
    BY <1>5, <1>6, Zenon DEF Reads
  <2> QED
    BY <1>6, <2>1
<1>8. SubSeq(x, q + 1, q + d) = SubSeq(t, p, p + d - 1)
  <2>1. PICK a \in Nat, b \in Nat, c \in Int : a = q + 1 /\ b = q + d /\ c = p + d - 1
    OBVIOUS
  <2>2. \A i \in a..b : x[i] \in M
    BY <2>1, ElementOfSeq
  <2>3. \A i \in p..c : t[i] \in S
    <3>1. PICK m \in Nat : m = Len(t)
      BY LenProperties
    <3>2. \A i \in p..c : i \in 1..m
      BY <2>1, <3>1
    <3> QED
      BY <3>1, <3>2, ElementOfSeq
  <2>4. PICK v : v = SubSeq(x, a, b)
    OBVIOUS
  <2>5. PICK w : w = SubSeq(t, p, c)
    OBVIOUS
  <2>6. v \in Seq(M) /\ Len(v) = d /\ \A i \in 1..d : v[i] = x[a + i - 1]
    <3>1. /\ v \in Seq(M) /\ Len(v) = IF a <= b THEN b - a + 1 ELSE 0
          /\ \A i \in 1..(b - a + 1) : v[i] = x[a + i - 1]
      BY <2>2, <2>4, SubSeqProperties
    <3> QED
      BY <2>1, <3>1
  <2>7. w \in Seq(S) /\ Len(w) = d /\ \A i \in 1..d : w[i] = t[p + i - 1]
    <3>1. /\ w \in Seq(S) /\ Len(w) = IF p <= c THEN c - p + 1 ELSE 0
          /\ \A i \in 1..(c - p + 1) : w[i] = t[p + i - 1]
      BY <2>3, <2>5, SubSeqProperties
    <3> QED
      BY <2>1, <3>1
  <2>8. ASSUME NEW i \in 1..d PROVE v[i] = w[i]
    <3>1. a + i - 1 = q + i
      BY <2>1
    <3> QED
      BY <2>6, <2>7, <3>1
  <2>9. v = w
    BY <2>6, <2>7, <2>8, SeqEqual
  <2> QED
    BY <2>1, <2>4, <2>5, <2>9
<1> QED
  BY <1>7, <1>8, Zenon DEF Cat, Piece

\* From q on, x is a section that begins with u, up to its last end mark.
Follows(x, q, u) ==
    /\ q \in Nat \ {0} /\ Len(x) = q + Len(u) + 3
    /\ x[q] = Open /\ \A j \in 1..Len(u) : x[q + j] = u[j]
    /\ x[q + Len(u) + 1] = "]" /\ x[q + Len(u) + 2] = "]" /\ x[q + Len(u) + 3] = ">"

Frame(u) == (<<Open>> \o u) \o Close

\* The result of formatCData is such a section.
LEMMA FrameFollows ==
    ASSUME NEW M, NEW u \in Seq(M), Close \in Seq(M), Open \in M
    PROVE  Frame(u) \in Seq(M) /\ Follows(Frame(u), 1, u)
<1>1. PICK c \in Seq(M) : c = Close
  OBVIOUS
<1>2. Len(c) = 3 /\ c[1] = "]" /\ c[2] = "]" /\ c[3] = ">"
  BY <1>1 DEF Close
<1>3. PICK o \in Seq(M) : o = <<Open>> /\ Len(o) = 1 /\ o[1] = Open
  <2>1. PICK m \in M : m = Open
    OBVIOUS
  <2>2. <<m>> \in Seq(M) /\ Len(<<m>>) = 1 /\ <<m>>[1] = m
    OBVIOUS
  <2> QED
    BY <2>1, <2>2
<1>4. PICK l \in Nat : l = Len(u)
  BY LenProperties
<1>5. PICK ou \in Seq(M) : ou = o \o u /\ Joined(o, u, ou)
  BY CatJoins
<1>6. PICK x \in Seq(M) : x = ou \o c /\ Joined(ou, c, x)
  BY CatJoins
<1>7. x = Frame(u)
  BY <1>1, <1>3, <1>5, <1>6, Zenon DEF Frame
<1>8. Len(ou) = 1 + l /\ ou[1] = Open /\ \A j \in 1..l : ou[1 + j] = u[j]
  <2>1. /\ Len(ou) = 1 + l
        /\ \A j \in 1..1 : ou[j] = o[j]
        /\ \A j \in 1..l : ou[1 + j] = u[j]
    BY <1>3, <1>4, <1>5 DEF Joined
  <2>2. 1 \in 1..1
    OBVIOUS
  <2> QED
    BY <1>3, <2>1, <2>2
<1>9. /\ Len(x) = (1 + l) + 3
      /\ \A j \in 1..(1 + l) : x[j] = ou[j]
      /\ \A j \in 1..3 : x[(1 + l) + j] = c[j]
  BY <1>2, <1>6, <1>8 DEF Joined
<1>10. x[1] = Open /\ \A j \in 1..l : x[1 + j] = u[j]
  BY <1>8, <1>9
<1>11. x[1 + l + 1] = "]" /\ x[1 + l + 2] = "]" /\ x[1 + l + 3] = ">"
  <2>1. 1 \in 1..3 /\ 2 \in 1..3 /\ 3 \in 1..3
    OBVIOUS
  <2> QED
    BY <1>2, <1>9, <2>1
<1>12. Follows(x, 1, u)
  BY <1>4, <1>9, <1>10, <1>11 DEF Follows
<1> QED
  BY <1>7, <1>12

\* The characters of t from p to m are as many, in the same order.
LEMMA PieceChars ==
    ASSUME NEW S, NEW t \in TextsOver(S), NEW p \in Nat \ {0}, NEW m \in Nat, m <= Len(t),
           NEW d \in Nat, d = m + 1 - p
    PROVE  /\ Piece(t, p, m) \in TextsOver(S) /\ Len(Piece(t, p, m)) = d
           /\ \A j \in 1..d : Piece(t, p, m)[j] = t[p + j - 1]
<1> USE DEF TextsOver
<1>1. PICK n \in Nat : n = Len(t)
  BY LenProperties
<1>2. \A j \in p..m : t[j] \in S
  <2>1. \A j \in p..m : j \in 1..n
    BY <1>1
  <2> QED
    BY <1>1, <2>1, ElementOfSeq
<1>3. PICK s : s = SubSeq(t, p, m)
  OBVIOUS
<1>4. /\ s \in Seq(S) /\ Len(s) = IF p <= m THEN m - p + 1 ELSE 0
      /\ \A j \in 1..(m - p + 1) : s[j] = t[p + j - 1]
  BY <1>2, <1>3, SubSeqProperties
<1>5. m - p + 1 = d /\ (~(p <= m) => d = 0)
  OBVIOUS
<1>6. s \in Seq(S) /\ Len(s) = d /\ \A j \in 1..d : s[j] = t[p + j - 1]
  BY <1>4, <1>5
<1> QED
  BY <1>3, <1>6, Zenon DEF Piece

\* At q, x has the section before the end mark at i, which is divided.
AtMark(M, t, x, g, q, p, i, r, u) ==
    /\ t \in TextsOver(M) /\ Close \in TextsOver(M) /\ Open \in M
    /\ x \in TextsOver(M) /\ Reads(g, x) /\ Follows(x, q, Chain(r, u))
    /\ p \in Nat \ {0} /\ i \in Nat /\ FirstClose(t, p, i) /\ i # Len(t) + 1
    /\ r \in TextsOver(M) /\ u \in TextsOver(M) /\ r = Piece(t, p, i + 1)

\* The section is read, and the next one follows.
LEMMA ReadDivided ==
    ASSUME NEW M, NEW t, NEW x, NEW g, NEW q, NEW p, NEW i, NEW r, NEW u,
           AtMark(M, t, x, g, q, p, i, r, u)
    PROVE  \E k : g[q] = Cat(r, g[k]) /\ Follows(x, k, u)
<1>1. /\ t \in TextsOver(M) /\ Close \in TextsOver(M) /\ Open \in M
      /\ x \in TextsOver(M) /\ Reads(g, x) /\ Follows(x, q, Chain(r, u))
      /\ p \in Nat \ {0} /\ i \in Nat /\ FirstClose(t, p, i) /\ i # Len(t) + 1
      /\ r \in TextsOver(M) /\ u \in TextsOver(M) /\ r = Piece(t, p, i + 1)
  BY DEF AtMark
<1> USE <1>1
<1>2. PICK n \in Nat : n = Len(t)
  BY LenProperties DEF TextsOver
<1>3. i \in p..n /\ i + 2 <= n /\ \A j \in p..(i - 1) : ~CloseAt(t, j)
  BY <1>2 DEF FirstClose, CloseAt
<1>4. PICK d \in Nat : d = i + 2 - p
  BY <1>3
<1>5. PICK b \in Nat : b = i + 1
  OBVIOUS
<1>6. Len(r) = d /\ \A j \in 1..d : r[j] = t[p + j - 1]
  <2>1. b <= Len(t) /\ d = b + 1 - p
    BY <1>2, <1>3, <1>4, <1>5
  <2>2. Len(Piece(t, p, b)) = d /\ \A j \in 1..d : Piece(t, p, b)[j] = t[p + j - 1]
    BY <2>1, PieceChars
  <2> QED
    BY <1>5, <2>2, Zenon
<1>7. PICK l \in Nat : l = Len(u)
  BY LenProperties DEF TextsOver
<1>8. PICK v : v = Chain(r, u)
  OBVIOUS
<1>9. /\ Len(v) = d + 4 + l
      /\ \A j \in 1..d : v[j] = r[j]
      /\ v[d + 1] = "]" /\ v[d + 2] = "]" /\ v[d + 3] = ">" /\ v[d + 4] = Open
      /\ \A j \in 1..l : v[(d + 4) + j] = u[j]
  <2>1. Chained(Chain(r, u), r, d, u, l)
    BY <1>6, <1>7, SectionAndNext
  <2> QED
    BY <1>8, <2>1 DEF Chained
<1>10. /\ q \in Nat \ {0} /\ Len(x) = q + (d + 4 + l) + 3 /\ x[q] = Open
       /\ \A j \in 1..(d + 4 + l) : x[q + j] = v[j]
       /\ x[q + (d + 4 + l) + 1] = "]" /\ x[q + (d + 4 + l) + 2] = "]"
       /\ x[q + (d + 4 + l) + 3] = ">"
  BY <1>8, <1>9 DEF Follows
<1>11. q \in Nat \ {0} /\ Len(x) = q + (d + 4 + l) + 3
  BY <1>10
<1>12. PICK k \in Nat \ {0} : k = q + d + 4
  BY <1>11
<1>13. g[q] = Cat(r, g[k])
  <2>1. p + d - 1 <= Len(t) /\ q + d + 3 <= Len(x) /\ p + d - 1 = i + 1 /\ p + d - 3 = i - 1
    BY <1>2, <1>3, <1>4, <1>10
  <2>2. ASSUME NEW j \in 1..d PROVE x[q + j] = t[p + j - 1]
    <3>1. j \in 1..(d + 4 + l)
      BY <1>7
    <3>2. x[q + j] = v[j]
      BY <1>10, <3>1
    <3>3. v[j] = r[j] /\ r[j] = t[p + j - 1]
      BY <1>6, <1>9
    <3> QED
      BY <3>2, <3>3
  <2>3. x[q + d + 1] = "]" /\ x[q + d + 2] = "]" /\ x[q + d + 3] = ">"
    <3>1. /\ d + 1 \in 1..(d + 4 + l) /\ d + 2 \in 1..(d + 4 + l) /\ d + 3 \in 1..(d + 4 + l)
          /\ q + (d + 1) = q + d + 1 /\ q + (d + 2) = q + d + 2 /\ q + (d + 3) = q + d + 3
      BY <1>10
    <3> QED
      BY <1>9, <1>10, <3>1
  <2>4. \A j \in p..(p + d - 3) : ~CloseAt(t, j)
    BY <1>3, <2>1
  <2>5. Holds(x, q, t, p, d)
    BY <1>10, <2>1, <2>2, <2>3, <2>4 DEF Holds
  <2>6. g[q] = Cat(Piece(t, p, p + d - 1), g[q + d + 4])
    BY <2>5, ReadSection
  <2> QED
    BY <1>12, <2>1, <2>6
<1>14. Follows(x, k, u)
  <2>1. Len(x) = k + l + 3 /\ k + l + 1 = q + (d + 4 + l) + 1
        /\ k + l + 2 = q + (d + 4 + l) + 2 /\ k + l + 3 = q + (d + 4 + l) + 3
    BY <1>11, <1>12
  <2>2. x[k] = Open
    <3>1. d + 4 \in 1..(d + 4 + l) /\ q + (d + 4) = k
      BY <1>10, <1>12
    <3> QED
      BY <1>9, <1>10, <3>1
  <2>3. ASSUME NEW j \in 1..l PROVE x[k + j] = u[j]
    <3>1. (d + 4) + j \in 1..(d + 4 + l) /\ q + ((d + 4) + j) = k + j
      BY <1>10, <1>12
    <3>2. x[q + ((d + 4) + j)] = v[(d + 4) + j]
      BY <1>10, <3>1, Zenon
    <3>3. v[(d + 4) + j] = u[j]
      BY <1>9, Zenon
    <3> QED
      BY <3>1, <3>2, <3>3, Zenon
  <2> QED
    BY <1>7, <1>10, <2>1, <2>2, <2>3 DEF Follows
<1> QED
  BY <1>13, <1>14

\* No end mark is left: the last section is read.
LEMMA ReadLast ==
    ASSUME NEW S, NEW t \in TextsOver(S), NEW M, NEW x \in TextsOver(M), NEW g, Reads(g, x),
           NEW q, NEW p \in 1..(Len(t) + 1), FirstClose(t, p, Len(t) + 1),
           NEW r \in TextsOver(S), r = Piece(t, p, Len(t)), Follows(x, q, r)
    PROVE  g[q] = r
<1>1. PICK n \in Nat : n = Len(t)
  BY LenProperties DEF TextsOver
<1>2. p \in 1..(n + 1) /\ \A j \in p..n : ~CloseAt(t, j)
  BY <1>1 DEF FirstClose
<1>3. PICK d \in Nat : d = n + 1 - p
  BY <1>2
<1>4. Len(r) = d /\ \A j \in 1..d : r[j] = t[p + j - 1]
  <2>1. p \in Nat \ {0} /\ n <= Len(t)
    BY <1>1, <1>2
  <2>2. Len(Piece(t, p, n)) = d /\ \A j \in 1..d : Piece(t, p, n)[j] = t[p + j - 1]
    BY <1>3, <2>1, PieceChars
  <2> QED
    BY <1>1, <2>2, Zenon
<1>5. /\ q \in Nat \ {0} /\ Len(x) = q + d + 3 /\ x[q] = Open
      /\ \A j \in 1..d : x[q + j] = r[j]
      /\ x[q + d + 1] = "]" /\ x[q + d + 2] = "]" /\ x[q + d + 3] = ">"
  BY <1>4 DEF Follows
<1>6. g[q] = Cat(r, g[q + d + 4])
  <2>1. p + d - 1 <= Len(t) /\ q + d + 3 <= Len(x) /\ p + d - 1 = Len(t) /\ p \in Nat \ {0}
    BY <1>1, <1>2, <1>3, <1>5
  <2>2. \A j \in 1..d : x[q + j] = t[p + j - 1]
    BY <1>4, <1>5, ZenonT(30)
  <2>3. \A j \in p..(p + d - 3) : ~CloseAt(t, j)
    BY <1>2, <1>3
  <2>4. Holds(x, q, t, p, d)
    BY <1>5, <2>1, <2>2, <2>3 DEF Holds
  <2>5. g[q] = Cat(Piece(t, p, p + d - 1), g[q + d + 4])
    BY <2>4, ReadSection
  <2> QED
    BY <2>1, <2>5
<1>7. g[q + d + 4] = <<>>
  <2>1. q + d + 4 = npos(x) /\ npos(x) \in 1..npos(x)
    BY <1>5 DEF npos
  <2> QED
    BY <2>1, Zenon DEF Reads
<1> QED
  BY <1>6, <1>7, ConcatEmptySeq DEF TextsOver, Cat

\* Two pieces that meet are one.
LEMMA PiecesJoin ==
    ASSUME NEW S, NEW t \in TextsOver(S), NEW n \in Nat, n = Len(t),
           NEW p \in 1..n, NEW i \in p..n, i + 2 <= n
    PROVE  Cat(Piece(t, p, i + 1), Piece(t, i + 2, n)) = Piece(t, p, n)
<1>1. PICK b \in p..n : b = i + 1
  OBVIOUS
<1>2. PICK c \in 1..(n + 1) : c = b + 1 /\ c = i + 2
  BY <1>1
<1>3. SubSeq(t, p, b) \o SubSeq(t, b + 1, n) = SubSeq(t, p, n)
  <2>1. t \in Seq(S) /\ p \in 1..(Len(t) + 1) /\ b \in (p - 1)..Len(t) /\ n \in b..Len(t)
    BY DEF TextsOver
  <2> QED
    BY <2>1, ConcatAdjacentSubSeq
<1> QED
  BY <1>1, <1>2, <1>3, Zenon DEF Cat, Piece

\* From every position on, what formatCData made of the text is read back.
LEMMA AllRead ==
    ASSUME NEW S, NEW t \in TextsOver(S), NEW M, t \in TextsOver(M),
           Close \in TextsOver(M), Open \in M,
           NEW f, Sections(f, t), \A p \in 1..npos(t) : f[p] \in TextsOver(M),
           NEW x \in TextsOver(M), NEW g, Reads(g, x), NEW n \in Nat, n = Len(t)
    PROVE  \A p \in 1..(n + 1) : \A q : Follows(x, q, f[p]) => g[q] = Piece(t, p, n)
<1> DEFINE Bad(p) == \E q : Follows(x, q, f[p]) /\ g[q] # Piece(t, p, n)
           T == {m \in 0..n : Bad(n + 1 - m)}
<1>1. ASSUME T # {} PROVE FALSE
  <2>1. PICK m \in T : \A j \in T : m <= j
    <3>1. T \in SUBSET Nat
      OBVIOUS
    <3> HIDE DEF T
    <3> QED
      BY <1>1, <3>1, Least
  <2>2. m \in 0..n
    OBVIOUS
  <2>3. PICK p \in 1..(n + 1) : p = n + 1 - m
    BY <2>2
  <2>4. PICK q : Follows(x, q, f[p]) /\ g[q] # Piece(t, p, n)
    BY <2>1, <2>3
  <2>5. ASSUME NEW k \in (p + 1)..(n + 1) PROVE ~Bad(k)
    <3> HIDE DEF T, Bad
    <3>1. k \in 2..(n + 1)
      OBVIOUS
    <3>2. PICK j \in 0..n : j = n + 1 - k
      <4>1. n + 1 - k \in 0..n
        BY <3>1
      <4> QED
        BY <4>1, Zenon
    <3>3. j < m /\ n + 1 - j = k
      BY <2>2, <2>3, <3>1, <3>2, SMTT(30)
    <3>4. j \notin T
      BY <2>1, <2>2, <3>3
    <3> QED
      BY <3>2, <3>3, <3>4 DEF T
  <2> HIDE DEF T, Bad
  <2>6. npos(t) = n + 1
    BY DEF npos
  <2>7. PICK i : i = FindAny(t, Close, p) /\ FirstClose(t, p, i)
    BY FindClose DEF TextsOver
  <2>8. i \in p..(n + 1) /\ (i # n + 1 => i + 2 <= n)
    BY <2>7 DEF FirstClose, CloseAt
  <2>9. CASE i = n + 1
    <3>1. f[p] = Piece(t, p, n)
      BY <2>6, <2>7, <2>9, Zenon DEF Sections, Rest, Piece
    <3>2. Piece(t, p, n) \in TextsOver(S)
      <4>1. PICK d \in Nat : d = n + 1 - p
        OBVIOUS
      <4>2. p \in Nat \ {0} /\ n <= Len(t)
        OBVIOUS
      <4> QED
        BY <4>1, <4>2, PieceChars
    <3>3. PICK r \in TextsOver(S) : r = Piece(t, p, Len(t))
      BY <3>2
    <3>4. p \in 1..(Len(t) + 1) /\ FirstClose(t, p, Len(t) + 1) /\ Follows(x, q, r)
      BY <2>4, <2>7, <2>9, <3>1, <3>3
    <3>5. g[q] = r
      BY <3>3, <3>4, ReadLast
    <3> QED
      BY <2>4, <3>3, <3>5
  <2>10. CASE i # n + 1
    <3>1. f[p] = Chain(Piece(t, p, i + 1), f[i + 2])
      BY <2>6, <2>7, <2>10, Zenon DEF Sections, Chain, Piece
    <3>2. Piece(t, p, i + 1) \in TextsOver(M)
      <4>1. PICK b \in Nat : b = i + 1
        BY <2>8
      <4>2. PICK d \in Nat : d = b + 1 - p
        BY <2>8, <4>1
      <4>3. p \in Nat \ {0} /\ b <= Len(t)
        BY <2>8, <2>10, <4>1
      <4>4. Piece(t, p, b) \in TextsOver(M)
        BY <4>2, <4>3, PieceChars
      <4> QED
        BY <4>1, <4>4
    <3>3. PICK r \in TextsOver(M) : r = Piece(t, p, i + 1)
      BY <3>2
    <3>4. PICK k \in (p + 1)..(n + 1) : k = i + 2
      BY <2>8, <2>10
    <3>5. PICK u \in TextsOver(M) : u = f[k]
      BY <2>6
    <3>6. p \in Nat \ {0} /\ i \in Nat /\ i # Len(t) + 1 /\ Follows(x, q, Chain(r, u))
      BY <2>4, <2>8, <2>10, <3>1, <3>3, <3>4, <3>5
    <3>7. PICK e : g[q] = Cat(r, g[e]) /\ Follows(x, e, u)
      <4>1. AtMark(M, t, x, g, q, p, i, r, u)
        BY <2>7, <3>3, <3>6 DEF AtMark
      <4> QED
        BY <4>1, ReadDivided
    <3>8. g[e] = Piece(t, k, n)
      BY <2>5, <3>5, <3>7 DEF Bad
    <3>9. Cat(Piece(t, p, i + 1), Piece(t, i + 2, n)) = Piece(t, p, n)
      <4>1. p \in 1..n /\ i \in p..n /\ i + 2 <= n
        BY <2>8, <2>10
      <4> QED
        BY <4>1, PiecesJoin
    <3> QED
      BY <2>4, <3>3, <3>4, <3>7, <3>8, <3>9
  <2> QED
    BY <2>9, <2>10
<1>2. ASSUME NEW p \in 1..(n + 1) PROVE ~Bad(p)
  <2>1. PICK m \in 0..n : m = n + 1 - p
    <3>1. n + 1 - p \in 0..n
      OBVIOUS
    <3> QED
      BY <3>1, Zenon
  <2>2. n + 1 - m = p
    BY <2>1
  <2>3. m \notin T
    BY <1>1
  <2> HIDE DEF Bad
  <2> QED
    BY <2>1, <2>2, <2>3
<1> QED
  BY <1>2

\* A reader of the file gets back what was formatted, whatever the text.
LEMMA ReadBack ==
    ASSUME NEW S, NEW t \in Seq(S)
    PROVE  CData(formatCData(t)) = t
<1>1. PICK M : M = Marked(S)
  OBVIOUS
<1>2. Close \in TextsOver(M) /\ Open \in M /\ t \in TextsOver(M) /\ t \in TextsOver(S)
  <2>1. Close \in Seq(M) /\ Open \in M /\ t \in Seq(M)
    BY <1>1 DEF Marked, Close
  <2> QED
    BY <2>1 DEF TextsOver
<1>3. PICK n \in Nat : n = Len(t)
  BY LenProperties
<1>4. npos(t) = n + 1
  BY <1>3 DEF npos
<1>5. PICK f : /\ Sections(f, t)
               /\ \A p \in 1..npos(t) : f[p] \in Seq(M)
               /\ formatCData(t) = (<<Open>> \o f[1]) \o Close
  BY <1>1, SectionsChosen
<1>6. PICK u \in Seq(M) : u = f[1]
  BY <1>4, <1>5
<1>7. PICK x : x = Frame(u)
  OBVIOUS
<1>8. x \in Seq(M) /\ Follows(x, 1, u)
  BY <1>2, <1>7, FrameFollows DEF TextsOver
<1>9. formatCData(t) = x
  BY <1>5, <1>6, <1>7, Zenon DEF Frame
<1>10. PICK g : Reads(g, x) /\ CData(x) = g[1]
  BY <1>8, ReadsChosen
<1>11. g[1] = Piece(t, 1, n)
  <2>1. x \in TextsOver(M) /\ \A p \in 1..npos(t) : f[p] \in TextsOver(M)
    BY <1>5, <1>8 DEF TextsOver
  <2>2. \A p \in 1..(n + 1) : \A q : Follows(x, q, f[p]) => g[q] = Piece(t, p, n)
    BY <1>2, <1>3, <1>5, <1>10, <2>1, AllRead, SMTT(60)
  <2> QED
    BY <1>6, <1>8, <2>2
<1>12. Piece(t, 1, n) = t
  BY <1>3, SubSeqFull DEF Piece
<1> QED
  BY <1>9, <1>10, <1>11, <1>12

-----------------------------------------------------------------------------
(***************************************************************************)
(* replace_all, sanitize_string and the reader of a frame's body.          *)
(***************************************************************************)
\* Texts over M, without looking into them.
LEMMA CatTexts ==
    ASSUME NEW M
    PROVE  /\ \A s, t \in TextsOver(M) : Cat(s, t) \in TextsOver(M)
           /\ \A s, t, u \in TextsOver(M) : Cat(Cat(s, t), u) = Cat(s, Cat(t, u))
           /\ <<>> \in TextsOver(M)
           /\ \A s \in TextsOver(M) : Cat(s, <<>>) = s /\ Cat(<<>>, s) = s
<1>1. \A s, t \in TextsOver(M) : Cat(s, t) \in TextsOver(M)
  BY ConcatProperties DEF TextsOver, Cat
<1>2. \A s, t, u \in TextsOver(M) : Cat(Cat(s, t), u) = Cat(s, Cat(t, u))
  BY ConcatAssociative DEF TextsOver, Cat
<1>3. <<>> \in TextsOver(M)
  BY EmptySeq DEF TextsOver
<1>4. \A s \in TextsOver(M) : Cat(s, <<>>) = s /\ Cat(<<>>, s) = s
  BY ConcatEmptySeq DEF TextsOver, Cat
<1> QED
  BY <1>1, <1>2, <1>3, <1>4

\* Texts of one and two characters, and one more character.
LEMMA CharTexts ==
    ASSUME NEW M
    PROVE  /\ \A c \in M : <<c>> \in TextsOver(M)
           /\ \A c, d \in M : <<c, d>> \in TextsOver(M) /\ <<c, d>> = Cat(<<c>>, <<d>>)
           /\ \A s \in TextsOver(M), c \in M : Append(s, c) = Cat(s, <<c>>)
<1>1. \A c \in M : <<c>> \in TextsOver(M)
  BY DEF TextsOver
<1>2. \A s \in TextsOver(M), c \in M : Append(s, c) = Cat(s, <<c>>)
  BY AppendIsConcat DEF TextsOver, Cat
<1>3. \A c, d \in M : <<c, d>> \in TextsOver(M) /\ <<c, d>> = Append(<<c>>, d)
  BY DEF TextsOver
<1>4. \A c, d \in M : <<c, d>> \in TextsOver(M) /\ <<c, d>> = Cat(<<c>>, <<d>>)
  BY <1>1, <1>2, <1>3
<1> QED
  BY <1>1, <1>2, <1>4

\* What the characters of a text become, one behind the other.
Flat(f, t) == FlattenSeq([i \in DOMAIN t |-> f[t[i]]])

\* The pieces are texts.
LEMMA PiecesType ==
    ASSUME NEW D, NEW M, NEW f \in [D -> TextsOver(M)], NEW t \in TextsOver(D)
    PROVE  [i \in DOMAIN t |-> f[t[i]]] \in Seq(Seq(M))
<1> USE DEF TextsOver
<1>1. PICK n \in Nat : n = Len(t) /\ DOMAIN t = 1..n
  BY LenProperties
<1>2. PICK ss : ss = [i \in 1..n |-> f[t[i]]]
  OBVIOUS
<1>3. ASSUME NEW i \in 1..n PROVE f[t[i]] \in Seq(M)
  <2>1. t[i] \in D
    BY <1>1, ElementOfSeq
  <2> QED
    BY <2>1
<1>4. ss \in Seq(Seq(M))
  BY <1>2, <1>3
<1> QED
  BY <1>1, <1>2, <1>4

\* The result is a text, of the characters that the pieces have.
LEMMA FlatType ==
    ASSUME NEW D, NEW M, NEW f \in [D -> TextsOver(M)], NEW t \in TextsOver(D)
    PROVE  Flat(f, t) \in TextsOver(M)
<1>1. PICK ss \in Seq(Seq(M)) : ss = [i \in DOMAIN t |-> f[t[i]]]
  BY PiecesType
<1>2. FlattenSeq(ss) \in Seq(M)
  BY FlattenType
<1> QED
  BY <1>1, <1>2 DEF Flat, TextsOver

\* One more character adds its piece.
LEMMA FlatAppend ==
    ASSUME NEW D, NEW M, NEW f \in [D -> TextsOver(M)], NEW t \in TextsOver(D), NEW c \in D
    PROVE  Flat(f, Append(t, c)) = Cat(Flat(f, t), f[c])
<1> USE DEF TextsOver, Cat
<1>1. PICK u \in Seq(D) : u = Append(t, c)
  BY AppendProperties
<1>2. PICK n \in Nat : n = Len(t) /\ DOMAIN t = 1..n
  BY LenProperties
<1>3. PICK m \in Nat : m = n + 1
  OBVIOUS
<1>4. Len(u) = m /\ u[m] = c /\ \A i \in 1..n : u[i] = t[i]
  BY <1>1, <1>2, <1>3, AppendProperties
<1>5. DOMAIN u = 1..m
  BY <1>4, LenProperties
<1>6. PICK ss : ss = [i \in 1..n |-> f[t[i]]]
  OBVIOUS
<1>7. PICK tt : tt = [i \in 1..m |-> f[u[i]]]
  OBVIOUS
<1>8. ss \in Seq(Seq(M)) /\ Len(ss) = n
  <2>1. ss \in Seq(Seq(M))
    BY <1>2, <1>6, PiecesType
  <2> QED
    BY <1>6, <2>1
<1>9. tt \in Seq(Seq(M)) /\ Len(tt) = m
  <2>1. tt \in Seq(Seq(M))
    BY <1>5, <1>7, PiecesType
  <2> QED
    BY <1>7, <2>1
<1>10. PICK b \in Seq(M) : b = f[c]
  OBVIOUS
<1>11. PICK vv : vv = Append(ss, b)
  OBVIOUS
<1>12. vv \in Seq(Seq(M)) /\ Len(vv) = m /\ vv[m] = b /\ \A i \in 1..n : vv[i] = ss[i]
  <2>1. PICK L : L = Seq(M)
    OBVIOUS
  <2>2. ss \in Seq(L) /\ b \in L
    BY <1>8, <2>1
  <2>3. vv \in Seq(L) /\ Len(vv) = m /\ vv[m] = b /\ \A i \in 1..n : vv[i] = ss[i]
    BY <1>3, <1>8, <1>11, <2>2, AppendProperties
  <2> QED
    BY <2>1, <2>3
<1>13. ASSUME NEW i \in 1..m PROVE tt[i] = vv[i]
  <2>1. CASE i = m
    BY <1>4, <1>7, <1>10, <1>12, <2>1
  <2>2. CASE i # m
    <3>1. i \in 1..n
      BY <1>3, <2>2
    <3> QED
      BY <1>4, <1>6, <1>7, <1>12, <3>1
  <2> QED
    BY <2>1, <2>2
<1>14. tt = vv
  BY <1>9, <1>12, <1>13, SeqEqual
<1>15. FlattenSeq(vv) = FlattenSeq(ss) \o b
  BY <1>8, <1>11, FlattenAppend
<1>16. Flat(f, u) = FlattenSeq(tt) /\ Flat(f, t) = FlattenSeq(ss)
  BY <1>2, <1>5, <1>6, <1>7 DEF Flat
<1> QED
  BY <1>1, <1>10, <1>14, <1>15, <1>16

\* Nothing becomes nothing.
LEMMA FlatEmpty ==
    ASSUME NEW f
    PROVE  Flat(f, <<>>) = <<>>
<1>1. [i \in DOMAIN <<>> |-> f[<<>>[i]]] = <<>>
  OBVIOUS
<1>2. Flat(f, <<>>) = FlattenSeq(<<>>)
  BY <1>1 DEF Flat
<1> QED
  BY <1>2, EmptySeq DEF FlattenSeq

\* Two texts are treated one by one.
LEMMA FlatJoins ==
    ASSUME NEW D, NEW M, NEW f \in [D -> TextsOver(M)], NEW t \in TextsOver(D),
           NEW s \in TextsOver(D)
    PROVE  Flat(f, Cat(t, s)) = Cat(Flat(f, t), Flat(f, s))
<1> DEFINE Bad(v) == Flat(f, Cat(t, v)) # Cat(Flat(f, t), Flat(f, v))
           T == {n \in Nat : \E v \in TextsOver(D) : Len(v) = n /\ Bad(v)}
<1>1. ASSUME NEW n \in T, \A m \in T : n <= m PROVE FALSE
  <2>1. PICK v \in TextsOver(D) : Len(v) = n /\ Bad(v)
    OBVIOUS
  <2>2. PICK r \in TextsOver(M) : r = Flat(f, t)
    BY FlatType
  <2>3. CASE v = <<>>
    BY <2>1, <2>2, <2>3, CatTexts, FlatEmpty
  <2>4. CASE v # <<>>
    <3>1. PICK w \in TextsOver(D), c \in D : v = Append(w, c)
      BY <2>4, SequenceEmptyOrAppend DEF TextsOver
    <3>2. PICK k \in Nat : k = Len(w) /\ n = k + 1
      BY <2>1, <3>1, LenProperties, AppendProperties DEF TextsOver
    <3>3. k \notin T
      BY <1>1, <3>2
    <3>4. Flat(f, Cat(t, w)) = Cat(r, Flat(f, w))
      BY <2>2, <3>2, <3>3
    <3> HIDE DEF T
    <3>5. PICK q \in TextsOver(M) : q = Flat(f, w)
      BY FlatType
    <3>6. PICK b \in TextsOver(M) : b = f[c]
      OBVIOUS
    <3>7. PICK x \in TextsOver(D) : x = Cat(t, w)
      BY CatTexts
    <3>8. Cat(t, v) = Append(x, c)
      <4>1. <<c>> \in TextsOver(D) /\ v = Cat(w, <<c>>) /\ Append(x, c) = Cat(x, <<c>>)
        <5>1. <<c>> \in TextsOver(D)
          BY CharTexts
        <5>2. \A a \in TextsOver(D) : Append(a, c) = Cat(a, <<c>>)
          BY CharTexts
        <5> QED
          BY <3>1, <5>1, <5>2
      <4> QED
        BY <3>7, <4>1, CatTexts
    <3>9. Flat(f, Cat(t, v)) = Cat(Cat(r, q), b)
      BY <3>4, <3>5, <3>6, <3>7, <3>8, FlatAppend
    <3>10. Flat(f, v) = Cat(q, b)
      BY <3>1, <3>5, <3>6, FlatAppend
    <3>11. Cat(Cat(r, q), b) = Cat(r, Cat(q, b))
      BY CatTexts
    <3> QED
      BY <2>1, <2>2, <3>9, <3>10, <3>11
  <2> QED
    BY <2>3, <2>4
<1>2. T = {}
  <2>1. T \in SUBSET Nat
    OBVIOUS
  <2> HIDE DEF T
  <2> QED
    BY <1>1, <2>1, Least
<1>3. PICK n \in Nat : n = Len(s)
  BY LenProperties DEF TextsOver
<1> QED
  BY <1>2, <1>3

\* A text of one character becomes its piece.
LEMMA FlatOne ==
    ASSUME NEW D, NEW M, NEW f \in [D -> TextsOver(M)], NEW c \in D
    PROVE  Flat(f, <<c>>) = f[c]
<1>1. PICK e \in TextsOver(D) : e = <<>> /\ Append(e, c) = <<c>>
  <2>1. <<>> \in TextsOver(D) /\ <<c>> \in TextsOver(D)
    BY CatTexts, CharTexts
  <2>2. \A s \in TextsOver(D) : Append(s, c) = Cat(s, <<c>>)
    BY CharTexts
  <2>3. \A s \in TextsOver(D) : Cat(<<>>, s) = s
    BY CatTexts
  <2>4. PICK e \in TextsOver(D), s \in TextsOver(D) : e = <<>> /\ s = <<c>>
    BY <2>1
  <2>5. Append(e, c) = s
    BY <2>2, <2>3, <2>4
  <2> QED
    BY <2>4, <2>5
<1>2. Flat(f, Append(e, c)) = Cat(Flat(f, e), f[c])
  BY FlatAppend
<1>3. PICK b \in TextsOver(M) : b = f[c]
  OBVIOUS
<1> QED
  BY <1>1, <1>2, <1>3, FlatEmpty, CatTexts

\* What one character becomes.
Block(c, p, new) == IF c = p THEN new ELSE <<c>>

\* A replacement treats every character for itself.
LEMMA ReplaceFlat ==
    ASSUME NEW M, NEW p, NEW new \in TextsOver(M)
    PROVE  \E f \in [M -> TextsOver(M)] :
               /\ \A c \in M : f[c] = Block(c, p, new)
               /\ \A t \in TextsOver(M) : replace_all(t, p, new) = Flat(f, t)
<1>1. PICK f : f = [c \in M |-> Block(c, p, new)]
  OBVIOUS
<1>2. f \in [M -> TextsOver(M)]
  BY <1>1, CharTexts DEF Block
<1>3. ASSUME NEW t \in TextsOver(M) PROVE replace_all(t, p, new) = Flat(f, t)
  <2>1. \A i \in DOMAIN t : t[i] \in M
    BY LenProperties, ElementOfSeq DEF TextsOver
  <2>2. \A i \in DOMAIN t : f[t[i]] = IF t[i] = p THEN new ELSE <<t[i]>>
    BY <1>1, <2>1 DEF Block
  <2>3. [i \in DOMAIN t |-> f[t[i]]] = [i \in DOMAIN t |-> IF t[i] = p THEN new ELSE <<t[i]>>]
    BY <2>2
  <2> QED
    BY <2>3 DEF Flat, replace_all
<1> QED
  BY <1>1, <1>2, <1>3

\* The result is a text.
LEMMA ReplaceType ==
    ASSUME NEW M, NEW t \in TextsOver(M), NEW p, NEW new \in TextsOver(M)
    PROVE  replace_all(t, p, new) \in TextsOver(M)
<1>1. PICK f \in [M -> TextsOver(M)] : \A u \in TextsOver(M) : replace_all(u, p, new) = Flat(f, u)
  <2>1. \E f \in [M -> TextsOver(M)] :
            /\ \A c \in M : f[c] = Block(c, p, new)
            /\ \A u \in TextsOver(M) : replace_all(u, p, new) = Flat(f, u)
    BY ReplaceFlat
  <2> QED
    BY <2>1
<1> QED
  BY <1>1, FlatType

\* Nothing becomes nothing.
LEMMA ReplaceEmpty ==
    ASSUME NEW p, NEW new
    PROVE  replace_all(<<>>, p, new) = <<>>
<1>1. replace_all(<<>>, p, new) = FlattenSeq(<<>>)
  BY DEF replace_all
<1> QED
  BY <1>1, EmptySeq DEF FlattenSeq

\* Two texts are replaced one by one.
LEMMA ReplaceJoins ==
    ASSUME NEW M, NEW t \in TextsOver(M), NEW s \in TextsOver(M), NEW p, NEW new \in TextsOver(M)
    PROVE  replace_all(Cat(t, s), p, new) = Cat(replace_all(t, p, new), replace_all(s, p, new))
<1>1. PICK f \in [M -> TextsOver(M)] : \A u \in TextsOver(M) : replace_all(u, p, new) = Flat(f, u)
  <2>1. \E f \in [M -> TextsOver(M)] :
            /\ \A c \in M : f[c] = Block(c, p, new)
            /\ \A u \in TextsOver(M) : replace_all(u, p, new) = Flat(f, u)
    BY ReplaceFlat
  <2> QED
    BY <2>1
<1>2. Cat(t, s) \in TextsOver(M)
  BY CatTexts
<1>3. Flat(f, Cat(t, s)) = Cat(Flat(f, t), Flat(f, s))
  BY FlatJoins
<1> QED
  BY <1>1, <1>2, <1>3

\* A text of one character becomes its block.
LEMMA ReplaceOne ==
    ASSUME NEW M, NEW c \in M, NEW p, NEW new \in TextsOver(M)
    PROVE  replace_all(<<c>>, p, new) = Block(c, p, new)
<1>1. PICK f \in [M -> TextsOver(M)] :
          /\ \A d \in M : f[d] = Block(d, p, new)
          /\ \A u \in TextsOver(M) : replace_all(u, p, new) = Flat(f, u)
  BY ReplaceFlat
<1> QED
  BY <1>1, CharTexts, FlatOne

\* Two characters that are not the pattern stay.
LEMMA ReplaceTwo ==
    ASSUME NEW M, NEW c \in M, NEW d \in M, NEW p, NEW new \in TextsOver(M), c # p, d # p
    PROVE  replace_all(<<c, d>>, p, new) = <<c, d>>
<1>1. /\ <<c>> \in TextsOver(M) /\ <<d>> \in TextsOver(M)
      /\ <<c, d>> = Cat(<<c>>, <<d>>)
  BY CharTexts
<1>2. replace_all(<<c>>, p, new) = <<c>> /\ replace_all(<<d>>, p, new) = <<d>>
  BY ReplaceOne DEF Block
<1> QED
  BY <1>1, <1>2, ReplaceJoins

\* What a message is made of, and what its characters may become.
Body(S) == S \cup DOMAIN Entities \cup
           {"&", "amp;", "lt;", "gt;", "apos;", "quot;", "\\", "0", "malformed"}

\* One round of the loop in sanitize_string.
Round(u, c) == replace_all(u, c, <<"&", Entities[c]>>)

\* What a character becomes, and what a reader makes of it.
Sanitized(c) ==
    IF c = "&" THEN <<"&", "amp;">>
    ELSE IF c \in DOMAIN Entities THEN <<"&", Entities[c]>>
    ELSE IF c = "NUL" THEN <<"\\", "0">> ELSE <<c>>
Visible(t) == replace_all(t, "NUL", <<"\\", "0">>)

\* The entities and the orders of the map.
LEMMA EntityFacts ==
    ASSUME NEW o \in Orders
    PROVE  /\ DOMAIN Entities = {"<", ">", "'", "quote"}
           /\ \A c \in DOMAIN Entities : Entities[c] \in {"lt;", "gt;", "apos;", "quot;"}
           /\ \A c, d \in DOMAIN Entities : Entities[c] = Entities[d] => c = d
           /\ \A i \in 1..4 : o[i] \in DOMAIN Entities
           /\ \A c \in DOMAIN Entities : \E i \in 1..4 : c = o[i]
           /\ \A i, j \in 1..4 : o[i] = o[j] => i = j
<1>1. DOMAIN Entities = {"<", ">", "'", "quote"}
  BY DEF Entities
<1>2. /\ Entities["<"] = "lt;" /\ Entities[">"] = "gt;"
      /\ Entities["'"] = "apos;" /\ Entities["quote"] = "quot;"
  BY DEF Entities
<1>3. o \in [1..4 -> DOMAIN Entities] /\ \A i, j \in 1..4 : o[i] = o[j] => i = j
  BY DEF Orders, IsInjective
<1>4. ASSUME NEW c \in DOMAIN Entities PROVE \E i \in 1..4 : c = o[i]
  <2>1. /\ o[1] \in DOMAIN Entities /\ o[2] \in DOMAIN Entities
        /\ o[3] \in DOMAIN Entities /\ o[4] \in DOMAIN Entities
    BY <1>3
  <2>2. /\ o[1] # o[2] /\ o[1] # o[3] /\ o[1] # o[4]
        /\ o[2] # o[3] /\ o[2] # o[4] /\ o[3] # o[4]
    BY <1>3
  <2>3. c = o[1] \/ c = o[2] \/ c = o[3] \/ c = o[4]
    BY <1>1, <2>1, <2>2
  <2> QED
    BY <2>3
<1> QED
  BY <1>1, <1>2, <1>3, <1>4

\* sanitize_string is six replacements.
LEMMA SixRounds ==
    ASSUME NEW t, NEW o
    PROVE  sanitize_string(t, o)
             = Visible(Round(Round(Round(Round(
                   replace_all(t, "&", <<"&", "amp;">>), o[1]), o[2]), o[3]), o[4]))
  BY DEF sanitize_string, Visible, Round

\* The texts that are put in.
LEMMA NewTexts ==
    ASSUME NEW S, NEW M, M = Body(S)
    PROVE  /\ <<"&", "amp;">> \in TextsOver(M) /\ <<"\\", "0">> \in TextsOver(M)
           /\ \A c \in DOMAIN Entities : Entities[c] \in M /\ <<"&", Entities[c]>> \in TextsOver(M)
           /\ "&" \in M
<1>1. "&" \in M /\ "amp;" \in M /\ "\\" \in M /\ "0" \in M
  BY DEF Body
<1>2. \A c \in DOMAIN Entities : Entities[c] \in M
  BY DEF Body, Entities
<1> QED
  BY <1>1, <1>2, CharTexts

\* Texts are sanitized one by one, and the result is a text.
LEMMA SanitizeJoins ==
    ASSUME NEW S, NEW M, M = Body(S), NEW o \in Orders,
           NEW t \in TextsOver(M), NEW s \in TextsOver(M)
    PROVE  /\ sanitize_string(t, o) \in TextsOver(M) /\ Visible(t) \in TextsOver(M)
           /\ sanitize_string(Cat(t, s), o) = Cat(sanitize_string(t, o), sanitize_string(s, o))
           /\ Visible(Cat(t, s)) = Cat(Visible(t), Visible(s))
<1> DEFINE Amp(u) == replace_all(u, "&", <<"&", "amp;">>)
<1>1. ASSUME NEW u \in TextsOver(M), NEW c \in DOMAIN Entities
      PROVE  /\ Round(u, c) \in TextsOver(M)
             /\ \A v \in TextsOver(M) : Round(Cat(u, v), c) = Cat(Round(u, c), Round(v, c))
  <2>1. PICK new \in TextsOver(M) : new = <<"&", Entities[c]>>
    BY NewTexts
  <2>2. replace_all(u, c, new) \in TextsOver(M)
    BY ReplaceType
  <2>3. \A v \in TextsOver(M) :
            replace_all(Cat(u, v), c, new) = Cat(replace_all(u, c, new), replace_all(v, c, new))
    BY ReplaceJoins
  <2> QED
    BY <2>1, <2>2, <2>3 DEF Round
<1>2. ASSUME NEW u \in TextsOver(M)
      PROVE  /\ Amp(u) \in TextsOver(M) /\ Visible(u) \in TextsOver(M)
             /\ \A v \in TextsOver(M) : /\ Amp(Cat(u, v)) = Cat(Amp(u), Amp(v))
                                        /\ Visible(Cat(u, v)) = Cat(Visible(u), Visible(v))
  <2>1. PICK amp \in TextsOver(M), nul \in TextsOver(M) :
            amp = <<"&", "amp;">> /\ nul = <<"\\", "0">>
    BY NewTexts
  <2>2. replace_all(u, "&", amp) \in TextsOver(M) /\ replace_all(u, "NUL", nul) \in TextsOver(M)
    BY ReplaceType
  <2>3. \A v \in TextsOver(M) :
            replace_all(Cat(u, v), "&", amp)
              = Cat(replace_all(u, "&", amp), replace_all(v, "&", amp))
    BY ReplaceJoins
  <2>4. \A v \in TextsOver(M) :
            replace_all(Cat(u, v), "NUL", nul)
              = Cat(replace_all(u, "NUL", nul), replace_all(v, "NUL", nul))
    BY ReplaceJoins
  <2> QED
    BY <2>1, <2>2, <2>3, <2>4 DEF Visible
<1>3. /\ o[1] \in DOMAIN Entities /\ o[2] \in DOMAIN Entities
      /\ o[3] \in DOMAIN Entities /\ o[4] \in DOMAIN Entities
  <2>1. \A i \in 1..4 : o[i] \in DOMAIN Entities
    BY EntityFacts
  <2> QED
    BY <2>1
<1>4. PICK t0 \in TextsOver(M), s0 \in TextsOver(M) :
          t0 = Amp(t) /\ s0 = Amp(s) /\ Amp(Cat(t, s)) = Cat(t0, s0)
  <2> HIDE DEF Amp
  <2> QED
    BY <1>2
<1>5. PICK t1 \in TextsOver(M), s1 \in TextsOver(M) :
          t1 = Round(t0, o[1]) /\ s1 = Round(s0, o[1]) /\ Round(Cat(t0, s0), o[1]) = Cat(t1, s1)
  BY <1>1, <1>3
<1>6. PICK t2 \in TextsOver(M), s2 \in TextsOver(M) :
          t2 = Round(t1, o[2]) /\ s2 = Round(s1, o[2]) /\ Round(Cat(t1, s1), o[2]) = Cat(t2, s2)
  BY <1>1, <1>3
<1>7. PICK t3 \in TextsOver(M), s3 \in TextsOver(M) :
          t3 = Round(t2, o[3]) /\ s3 = Round(s2, o[3]) /\ Round(Cat(t2, s2), o[3]) = Cat(t3, s3)
  BY <1>1, <1>3
<1>8. PICK t4 \in TextsOver(M), s4 \in TextsOver(M) :
          t4 = Round(t3, o[4]) /\ s4 = Round(s3, o[4]) /\ Round(Cat(t3, s3), o[4]) = Cat(t4, s4)
  BY <1>1, <1>3
<1>9. Visible(t4) \in TextsOver(M) /\ Visible(Cat(t4, s4)) = Cat(Visible(t4), Visible(s4))
  BY <1>2
<1>10. sanitize_string(t, o) = Visible(t4) /\ sanitize_string(s, o) = Visible(s4)
  <2>1. t4 = Round(Round(Round(Round(t0, o[1]), o[2]), o[3]), o[4])
    BY <1>5, <1>6, <1>7, <1>8
  <2>2. s4 = Round(Round(Round(Round(s0, o[1]), o[2]), o[3]), o[4])
    BY <1>5, <1>6, <1>7, <1>8
  <2> QED
    BY <1>4, <2>1, <2>2, SixRounds
<1>11. sanitize_string(Cat(t, s), o) = Visible(Cat(t4, s4))
  <2>1. Cat(t4, s4) = Round(Round(Round(Round(Cat(t0, s0), o[1]), o[2]), o[3]), o[4])
    BY <1>5, <1>6, <1>7, <1>8
  <2> QED
    BY <1>4, <2>1, SixRounds
<1>12. Visible(t) \in TextsOver(M) /\ Visible(Cat(t, s)) = Cat(Visible(t), Visible(s))
  BY <1>2
<1> QED
  BY <1>9, <1>10, <1>11, <1>12

\* A character is either none of the map's, or one of its rounds turns it into
\* an entity, which the others leave alone.
LEMMA SanitizeOne ==
    ASSUME NEW S, NEW M, M = Body(S), NEW o \in Orders, NEW c \in M
    PROVE  /\ sanitize_string(<<c>>, o) = Sanitized(c)
           /\ Visible(<<c>>) = IF c = "NUL" THEN <<"\\", "0">> ELSE <<c>>
<1> DEFINE E == DOMAIN Entities
<1>1. /\ \A d \in E : <<"&", Entities[d]>> \in TextsOver(M) /\ Entities[d] \in M
      /\ <<"&", "amp;">> \in TextsOver(M) /\ <<"\\", "0">> \in TextsOver(M) /\ "&" \in M
      /\ "amp;" \in M
  BY NewTexts DEF Body
<1>2. /\ "&" \notin E /\ "amp;" \notin E /\ "NUL" \notin E
      /\ \A d \in E : Entities[d] \notin E /\ Entities[d] # "NUL"
      /\ o[1] \in E /\ o[2] \in E /\ o[3] \in E /\ o[4] \in E
      /\ \A d \in E : d = o[1] \/ d = o[2] \/ d = o[3] \/ d = o[4]
  <2>1. E = {"<", ">", "'", "quote"}
    BY EntityFacts
  <2>2. \A d \in E : Entities[d] \in {"lt;", "gt;", "apos;", "quot;"}
    BY EntityFacts
  <2>3. \A i \in 1..4 : o[i] \in E
    BY EntityFacts
  <2>4. \A d \in E : \E i \in 1..4 : d = o[i]
    BY EntityFacts
  <2>5. \A d \in E : d = o[1] \/ d = o[2] \/ d = o[3] \/ d = o[4]
    BY <2>4
  <2> HIDE DEF E
  <2> QED
    BY <2>1, <2>2, <2>3, <2>5
<1>3. ASSUME NEW d \in E
      PROVE  /\ Round(<<c>>, d) = IF c = d THEN <<"&", Entities[d]>> ELSE <<c>>
             /\ \A e \in M : e \notin E => Round(<<"&", e>>, d) = <<"&", e>>
  <2>1. PICK new \in TextsOver(M) : new = <<"&", Entities[d]>>
    BY <1>1
  <2>2. replace_all(<<c>>, d, new) = Block(c, d, new)
    BY ReplaceOne
  <2>3. Round(<<c>>, d) = IF c = d THEN <<"&", Entities[d]>> ELSE <<c>>
    BY <2>1, <2>2 DEF Round, Block
  <2>4. ASSUME NEW e \in M, e \notin E PROVE Round(<<"&", e>>, d) = <<"&", e>>
    <3>1. PICK a \in M : a = "&" /\ a # d /\ e # d
      BY <1>1, <1>2, <2>4
    <3>2. replace_all(<<a, e>>, d, new) = <<a, e>>
      BY <3>1, ReplaceTwo
    <3> QED
      BY <2>1, <3>1, <3>2 DEF Round
  <2> QED
    BY <2>3, <2>4
<1> HIDE DEF E
<1>4. Visible(<<c>>) = IF c = "NUL" THEN <<"\\", "0">> ELSE <<c>>
  <2>1. PICK nul \in TextsOver(M) : nul = <<"\\", "0">>
    BY <1>1
  <2>2. replace_all(<<c>>, "NUL", nul) = Block(c, "NUL", nul)
    BY ReplaceOne
  <2> QED
    BY <2>1, <2>2 DEF Visible, Block
<1>5. ASSUME NEW e \in M, e # "NUL" PROVE Visible(<<"&", e>>) = <<"&", e>>
  <2>1. PICK nul \in TextsOver(M) : nul = <<"\\", "0">>
    BY <1>1
  <2>2. PICK a \in M : a = "&" /\ a # "NUL"
    BY <1>1
  <2>3. replace_all(<<a, e>>, "NUL", nul) = <<a, e>>
    BY <1>5, <2>2, ReplaceTwo
  <2> QED
    BY <2>1, <2>2, <2>3 DEF Visible
<1>6. PICK t0 : t0 = replace_all(<<c>>, "&", <<"&", "amp;">>)
  OBVIOUS
<1>7. t0 = IF c = "&" THEN <<"&", "amp;">> ELSE <<c>>
  <2>1. PICK amp \in TextsOver(M) : amp = <<"&", "amp;">>
    BY <1>1
  <2>2. replace_all(<<c>>, "&", amp) = Block(c, "&", amp)
    BY ReplaceOne
  <2> QED
    BY <1>6, <2>1, <2>2 DEF Block
<1>8. sanitize_string(<<c>>, o) = Visible(Round(Round(Round(Round(t0, o[1]), o[2]), o[3]), o[4]))
  BY <1>6, SixRounds
<1>9. CASE c = "&"
  <2>1. \A d \in E : Round(t0, d) = t0
    BY <1>1, <1>2, <1>3, <1>7, <1>9
  <2>2. sanitize_string(<<c>>, o) = Visible(t0)
    BY <1>2, <1>8, <2>1
  <2> QED
    BY <1>1, <1>2, <1>4, <1>5, <1>7, <1>9, <2>2 DEF Sanitized
<1>10. CASE c \in E
  <2>1. PICK e \in M : e = Entities[c] /\ e \notin E /\ e # "NUL"
    BY <1>1, <1>2, <1>10
  <2>2. PICK u : u = <<"&", e>>
    OBVIOUS
  <2>3. \A d \in E : Round(t0, d) = (IF c = d THEN u ELSE t0) /\ Round(u, d) = u
    BY <1>2, <1>3, <1>7, <1>10, <2>1, <2>2
  <2>4. Round(Round(Round(Round(t0, o[1]), o[2]), o[3]), o[4]) = u
    BY <1>2, <1>10, <2>3
  <2>5. Visible(u) = u
    BY <1>5, <2>1, <2>2
  <2>6. c # "&"
    BY <1>2, <1>10
  <2> QED
    BY <1>4, <1>8, <1>10, <2>1, <2>2, <2>4, <2>5, <2>6 DEF Sanitized, E
<1>11. CASE c # "&" /\ c \notin E
  <2>1. \A d \in E : Round(t0, d) = t0
    BY <1>3, <1>7, <1>11
  <2>2. sanitize_string(<<c>>, o) = Visible(t0)
    BY <1>2, <1>8, <2>1
  <2> QED
    BY <1>4, <1>7, <1>11, <2>2 DEF Sanitized, E
<1> QED
  BY <1>9, <1>10, <1>11

\* The names of entities and what they stand for.
Names == [name \in {Entities[c] : c \in DOMAIN Entities} \cup {"amp;"} |->
             IF name = "amp;" THEN "&" ELSE CHOOSE c \in DOMAIN Entities : Entities[c] = name]

\* The equation of the recursive function in CharData.
Resolves(g, x) ==
    g = [pos \in 1..npos(x) |->
            IF pos = npos(x) THEN <<>>
            ELSE IF x[pos] # "&" THEN <<x[pos]>> \o g[pos + 1]
            ELSE IF pos < Len(x) /\ x[pos + 1] \in DOMAIN Names
                 THEN <<Names[x[pos + 1]]>> \o g[pos + 2] ELSE <<"malformed">>]

\* Every entity has a name that is resolved.
LEMMA NamesResolved ==
    /\ DOMAIN Names = {Entities[c] : c \in DOMAIN Entities} \cup {"amp;"}
    /\ Names["amp;"] = "&"
    /\ \A c \in DOMAIN Entities : Entities[c] \in DOMAIN Names /\ Names[Entities[c]] = c
    /\ \A e \in DOMAIN Names : Names[e] \in DOMAIN Entities \cup {"&"}
<1>1. DOMAIN Names = {Entities[c] : c \in DOMAIN Entities} \cup {"amp;"}
  BY DEF Names
<1>2. Names["amp;"] = "&"
  BY DEF Names
<1>3. DOMAIN Entities = {"<", ">", "'", "quote"}
  BY DEF Entities
<1>4. /\ Entities["<"] = "lt;" /\ Entities[">"] = "gt;"
      /\ Entities["'"] = "apos;" /\ Entities["quote"] = "quot;"
  BY DEF Entities
<1>5. ASSUME NEW c \in DOMAIN Entities
      PROVE  Entities[c] \in DOMAIN Names /\ Names[Entities[c]] = c
  <2>1. PICK e : e = Entities[c] /\ e # "amp;"
    BY <1>3, <1>4
  <2>2. e \in DOMAIN Names /\ Names[e] = CHOOSE d \in DOMAIN Entities : Entities[d] = e
    BY <1>1, <2>1 DEF Names
  <2>3. \A d \in DOMAIN Entities : Entities[d] = e => d = c
    BY <1>3, <1>4, <2>1
  <2> QED
    BY <2>1, <2>2, <2>3
<1>6. ASSUME NEW e \in DOMAIN Names PROVE Names[e] \in DOMAIN Entities \cup {"&"}
  <2>1. e = "amp;" \/ \E c \in DOMAIN Entities : e = Entities[c]
    BY <1>1
  <2> QED
    BY <1>2, <1>5, <2>1
<1> QED
  BY <1>1, <1>2, <1>5, <1>6

\* CharData is the value of such a function, and its values are texts.
LEMMA ResolvesChosen ==
    ASSUME NEW S, NEW M, M = Body(S), NEW x \in TextsOver(M)
    PROVE  \E g : /\ Resolves(g, x) /\ CharData(x) = g[1]
                  /\ \A p \in 1..npos(x) : g[p] \in TextsOver(M)
<1>1. PICK n \in Nat : n = npos(x) /\ n = Len(x) + 1
  BY LenProperties DEF npos, TextsOver
<1> DEFINE Entity(p) == p < Len(x) /\ x[p + 1] \in DOMAIN Names
<1>2. PICK stop : stop = {p \in 1..n : p = n \/ (x[p] = "&" /\ ~Entity(p))}
  OBVIOUS
<1>3. PICK a : a = [p \in 1..n |-> IF p = n THEN <<>> ELSE <<"malformed">>]
  OBVIOUS
<1>4. PICK b : b = [p \in 1..n |-> IF x[p] = "&" THEN <<Names[x[p + 1]]>> ELSE <<x[p]>>]
  OBVIOUS
<1>5. PICK next : next = [p \in 1..n |-> IF x[p] = "&" THEN p + 2 ELSE p + 1]
  OBVIOUS
<1>6. \A p \in 1..n : p \notin stop => next[p] \in (p + 1)..n
  <2>1. ASSUME NEW p \in 1..n, p \notin stop PROVE next[p] \in (p + 1)..n
    <3>1. p # n /\ (x[p] = "&" => p + 1 < n)
      BY <1>1, <1>2, <2>1
    <3>2. next[p] = IF x[p] = "&" THEN p + 2 ELSE p + 1
      BY <1>5
    <3> QED
      BY <3>1, <3>2
  <2> QED
    BY <2>1
<1>7. ASSUME NEW g PROVE Resolves(g, x) <=> Forward(g, n, stop, a, b, next)
  <2>1. ASSUME NEW p \in 1..n
        PROVE  (IF p \in stop THEN a[p] ELSE b[p] \o g[next[p]])
                 = (IF p = npos(x) THEN <<>>
                    ELSE IF x[p] # "&" THEN <<x[p]>> \o g[p + 1]
                    ELSE IF p < Len(x) /\ x[p + 1] \in DOMAIN Names
                         THEN <<Names[x[p + 1]]>> \o g[p + 2] ELSE <<"malformed">>)
    <3>1. p \in stop <=> p = npos(x) \/ (x[p] = "&" /\ ~Entity(p))
      BY <1>1, <1>2
    <3>2. /\ a[p] = IF p = npos(x) THEN <<>> ELSE <<"malformed">>
          /\ b[p] = IF x[p] = "&" THEN <<Names[x[p + 1]]>> ELSE <<x[p]>>
          /\ next[p] = IF x[p] = "&" THEN p + 2 ELSE p + 1
      BY <1>1, <1>3, <1>4, <1>5
    <3> QED
      BY <3>1, <3>2, Zenon
  <2> QED
    BY <1>1, <2>1, Zenon DEF Resolves, Forward
<1>8. PICK g : g = CHOOSE h : Resolves(h, x)
  OBVIOUS
<1>9. \E h : Forward(h, n, stop, a, b, next)
  BY <1>6, ForwardExists
<1>10. Resolves(g, x)
  BY <1>7, <1>8, <1>9, Zenon
<1>11. CharData(x) = g[1]
  BY <1>8, Zenon DEF CharData, Resolves, Names
<1>12. ASSUME NEW p \in 1..n
       PROVE  IF p \in stop THEN a[p] \in TextsOver(M) ELSE b[p] \in TextsOver(M)
  <2>1. a[p] \in TextsOver(M)
    <3>1. <<>> \in TextsOver(M) /\ <<"malformed">> \in TextsOver(M)
      BY CatTexts, CharTexts DEF Body
    <3> QED
      BY <1>3, <3>1
  <2>2. ASSUME p \notin stop PROVE b[p] \in TextsOver(M)
    <3>1. p \in 1..Len(x) /\ (x[p] = "&" => x[p + 1] \in DOMAIN Names)
      BY <1>1, <1>2, <2>2
    <3>2. x[p] \in M
      BY <3>1, ElementOfSeq DEF TextsOver
    <3>3. \A e \in DOMAIN Names : Names[e] \in M
      BY NamesResolved DEF Body
    <3>4. \A e \in M : <<e>> \in TextsOver(M)
      BY CharTexts
    <3>5. b[p] = IF x[p] = "&" THEN <<Names[x[p + 1]]>> ELSE <<x[p]>>
      BY <1>4
    <3> QED
      BY <3>1, <3>2, <3>3, <3>4, <3>5
  <2> QED
    BY <2>1, <2>2
<1>13. \A p \in 1..n : g[p] \in TextsOver(M)
  <2>1. PICK L : L = TextsOver(M)
    OBVIOUS
  <2>2. \A s, t \in L : s \o t \in L
    BY <2>1, CatTexts DEF Cat
  <2>3. Forward(g, n, stop, a, b, next)
    BY <1>7, <1>10
  <2>4. \A p \in 1..n : IF p \in stop THEN a[p] \in L ELSE b[p] \in L
    BY <1>12, <2>1
  <2>5. \A p \in 1..n : g[p] \in L
    BY <1>6, <2>2, <2>3, <2>4, ForwardType, ZenonT(30)
  <2> QED
    BY <2>1, <2>5
<1> QED
  BY <1>1, <1>10, <1>11, <1>13

\* b is in x behind k characters, and v is what ends with it.
Spans(x, v, k, b, m) ==
    k + m <= Len(x) /\ Len(v) = k + m /\ \A j \in 1..m : x[k + j] = b[j]

\* The characters of a text between two others.
LEMMA Between ==
    ASSUME NEW M, NEW a \in TextsOver(M), NEW b \in TextsOver(M), NEW d \in TextsOver(M),
           NEW k \in Nat, k = Len(a), NEW m \in Nat, m = Len(b)
    PROVE  Spans(Cat(a, Cat(b, d)), Cat(a, b), k, b, m)
<1> USE DEF TextsOver, Cat
<1>1. PICK x : x = Cat(a, Cat(b, d))
  OBVIOUS
<1>2. PICK w \in Seq(M) : w = b \o d
  BY ConcatProperties
<1>3. Len(d) \in Nat
  BY LenProperties
<1>4. Len(w) = m + Len(d) /\ \A j \in 1..m : w[j] = b[j]
  BY <1>2, ConcatProperties
<1>5. Len(x) = k + Len(w) /\ \A j \in 1..Len(w) : x[k + j] = w[j]
  <2>1. x = a \o w
    BY <1>1, <1>2
  <2>2. /\ Len(a \o w) = Len(a) + Len(w)
        /\ \A i \in 1..(Len(a) + Len(w)) : (a \o w)[i] = IF i <= Len(a) THEN a[i] ELSE w[i - Len(a)]
    BY ConcatProperties
  <2>3. ASSUME NEW j \in 1..Len(w) PROVE x[k + j] = w[j]
    <3>1. k + j \in 1..(Len(a) + Len(w)) /\ ~(k + j <= Len(a)) /\ k + j - Len(a) = j
      BY <1>3, <1>4
    <3> QED
      BY <2>1, <2>2, <3>1
  <2> QED
    BY <2>1, <2>2, <2>3
<1>6. Len(a \o b) = k + m
  BY ConcatProperties
<1>7. \A j \in 1..m : x[k + j] = b[j]
  BY <1>3, <1>4, <1>5
<1> QED
  BY <1>1, <1>3, <1>4, <1>5, <1>6, <1>7 DEF Spans

\* At q, x has what c becomes.
Shows(x, q, c) ==
    /\ q \in Nat \ {0} /\ q + Len(Sanitized(c)) - 1 <= Len(x)
    /\ \A j \in 1..Len(Sanitized(c)) : x[q + j - 1] = Sanitized(c)[j]

\* A reader resolves what a character became to what is visible of it.
LEMMA ResolveOne ==
    ASSUME NEW S, NEW M, M = Body(S), NEW x \in TextsOver(M), NEW c \in M, NEW q, Shows(x, q, c),
           NEW g, Resolves(g, x), \A p \in 1..npos(x) : g[p] \in TextsOver(M)
    PROVE  g[q] = Cat(IF c = "NUL" THEN <<"\\", "0">> ELSE <<c>>, g[q + Len(Sanitized(c))])
<1>1. PICK n \in Nat : n = npos(x) /\ n = Len(x) + 1
  BY LenProperties DEF npos, TextsOver
<1>2. ASSUME NEW p \in 1..Len(x), x[p] # "&" PROVE g[p] = Cat(<<x[p]>>, g[p + 1])
  <2>1. p \in 1..n /\ p # n
    BY <1>1
  <2> QED
    BY <1>1, <1>2, <2>1 DEF Resolves, Cat
<1>3. ASSUME NEW p \in 1..Len(x), p + 1 <= Len(x), x[p] = "&", x[p + 1] \in DOMAIN Names
      PROVE  g[p] = Cat(<<Names[x[p + 1]]>>, g[p + 2])
  <2>1. p \in 1..n /\ p # n /\ p < Len(x)
    BY <1>1, <1>3
  <2> QED
    BY <1>1, <1>3, <2>1 DEF Resolves, Cat
<1>4. q \in Nat \ {0}
  BY DEF Shows
<1>5. ASSUME NEW e, Sanitized(c) = <<"&", e>>, e \in DOMAIN Names, Names[e] = c, c # "NUL"
      PROVE  g[q] = Cat(IF c = "NUL" THEN <<"\\", "0">> ELSE <<c>>, g[q + Len(Sanitized(c))])
  <2>1. Len(Sanitized(c)) = 2 /\ Sanitized(c)[1] = "&" /\ Sanitized(c)[2] = e
    BY <1>5
  <2>2. q + 1 <= Len(x) /\ x[q + 1 - 1] = "&" /\ x[q + 2 - 1] = e
    BY <2>1 DEF Shows
  <2>3. q \in 1..Len(x) /\ x[q] = "&" /\ x[q + 1] = e
    BY <1>1, <1>4, <2>2
  <2>4. g[q] = Cat(<<c>>, g[q + 2])
    BY <1>3, <1>5, <2>2, <2>3
  <2> QED
    BY <1>5, <2>1, <2>4
<1>6. DOMAIN Entities = {"<", ">", "'", "quote"}
  BY DEF Entities
<1>7. CASE c = "&"
  <2>1. Sanitized(c) = <<"&", "amp;">> /\ "amp;" \in DOMAIN Names /\ Names["amp;"] = c /\ c # "NUL"
    BY <1>7, NamesResolved DEF Sanitized
  <2> QED
    BY <1>5, <2>1
<1>8. CASE c \in DOMAIN Entities
  <2>1. c # "&" /\ c # "NUL"
    BY <1>6, <1>8
  <2>2. Sanitized(c) = <<"&", Entities[c]>>
    BY <1>8, <2>1 DEF Sanitized
  <2>3. Entities[c] \in DOMAIN Names /\ Names[Entities[c]] = c
    BY <1>8, NamesResolved
  <2> QED
    BY <1>5, <2>1, <2>2, <2>3
<1>9. CASE c = "NUL"
  <2>1. Sanitized(c) = <<"\\", "0">>
    BY <1>6, <1>9 DEF Sanitized
  <2>2. Len(Sanitized(c)) = 2 /\ Sanitized(c)[1] = "\\" /\ Sanitized(c)[2] = "0"
    BY <2>1
  <2>3. q + 1 <= Len(x) /\ x[q + 1 - 1] = "\\" /\ x[q + 2 - 1] = "0"
    BY <2>2 DEF Shows
  <2>4. PICK p \in 1..Len(x) : p = q + 1 /\ p + 1 = q + 2 /\ q \in 1..Len(x)
    BY <1>1, <1>4, <2>3
  <2>5. x[q] = "\\" /\ x[p] = "0"
    BY <1>4, <2>3, <2>4
  <2>6. g[q] = Cat(<<"\\">>, g[p])
    BY <1>2, <2>4, <2>5
  <2>7. g[p] = Cat(<<"0">>, g[q + 2])
    BY <1>2, <2>4, <2>5
  <2>8. PICK h \in TextsOver(M) : h = g[q + 2]
    <3>1. q + 2 \in 1..npos(x)
      BY <1>1, <1>4, <2>4
    <3> QED
      BY <3>1
  <2>9. PICK v \in TextsOver(M), w \in TextsOver(M) :
            v = <<"\\">> /\ w = <<"0">> /\ Cat(v, w) = <<"\\", "0">>
    <3>1. PICK d \in M, e \in M : d = "\\" /\ e = "0"
      BY DEF Body
    <3>2. <<d>> \in TextsOver(M) /\ <<e>> \in TextsOver(M) /\ Cat(<<d>>, <<e>>) = <<d, e>>
      BY CharTexts
    <3> QED
      BY <3>1, <3>2
  <2>10. Cat(v, Cat(w, h)) = Cat(Cat(v, w), h)
    BY CatTexts
  <2> QED
    BY <1>9, <2>2, <2>6, <2>7, <2>8, <2>9, <2>10
<1>10. CASE c # "&" /\ c \notin DOMAIN Entities /\ c # "NUL"
  <2>1. Sanitized(c) = <<c>>
    BY <1>10 DEF Sanitized
  <2>2. Len(Sanitized(c)) = 1 /\ Sanitized(c)[1] = c
    BY <2>1
  <2>3. q <= Len(x) /\ x[q + 1 - 1] = c
    BY <1>4, <2>2 DEF Shows
  <2>4. q \in 1..Len(x) /\ x[q] = c
    BY <1>1, <1>4, <2>3
  <2> QED
    BY <1>2, <1>10, <2>2, <2>4
<1> QED
  BY <1>7, <1>8, <1>9, <1>10

\* A text that is not empty has a first character.
LEMMA FirstAndRest ==
    ASSUME NEW M, NEW v \in TextsOver(M), v # <<>>
    PROVE  \E c \in M : \E w \in TextsOver(M) : v = Cat(<<c>>, w)
<1> USE DEF TextsOver
<1>1. PICK c \in M, w \in Seq(M) : c = Head(v) /\ w = Tail(v)
  BY HeadTailProperties
<1>2. PICK n \in Nat : n = Len(v) /\ n >= 1
  BY LenProperties, EmptySeq
<1>3. Len(w) = n - 1 /\ \A i \in 1..(n - 1) : w[i] = v[i + 1]
  BY <1>1, <1>2, HeadTailProperties
<1>4. PICK s \in Seq(M) : s = <<c>>
  <2>1. \A d \in M : <<d>> \in Seq(M)
    BY CharTexts
  <2> QED
    BY <2>1
<1>5. Len(s) = 1 /\ s[1] = c /\ c = v[1]
  BY <1>1, <1>4
<1>6. PICK x \in Seq(M) : x = s \o w
  BY ConcatProperties
<1>7. Len(x) = n /\ \A i \in 1..n : x[i] = IF i <= 1 THEN s[i] ELSE w[i - 1]
  <2>1. /\ Len(s \o w) = Len(s) + Len(w)
        /\ \A i \in 1..(Len(s) + Len(w)) :
               (s \o w)[i] = IF i <= Len(s) THEN s[i] ELSE w[i - Len(s)]
    BY ConcatProperties
  <2>2. Len(s) = 1 /\ Len(w) = n - 1 /\ Len(s) + Len(w) = n
    BY <1>2, <1>3, <1>5
  <2> QED
    BY <1>6, <2>1, <2>2
<1>8. ASSUME NEW i \in 1..n PROVE x[i] = v[i]
  <2>1. CASE i = 1
    BY <1>5, <1>7, <2>1
  <2>2. CASE i # 1
    <3>1. i - 1 \in 1..(n - 1) /\ (i - 1) + 1 = i /\ ~(i <= 1)
      BY <1>2, <2>2
    <3> QED
      BY <1>3, <1>7, <3>1
  <2> QED
    BY <2>1, <2>2
<1>9. x = v
  BY <1>2, <1>7, <1>8, SeqEqual
<1> QED
  BY <1>4, <1>6, <1>9 DEF Cat

\* From the place on that any part of the text begins at, this part is read.
LEMMA BodyRead ==
    ASSUME NEW S, NEW M, M = Body(S), NEW o \in Orders, NEW t \in TextsOver(M),
           NEW x, x = sanitize_string(t, o), NEW g, Resolves(g, x),
           \A p \in 1..npos(x) : g[p] \in TextsOver(M)
    PROVE  g[1] = Visible(t)
<1> DEFINE San(u) == sanitize_string(u, o)
           Bad(v) == \E u \in TextsOver(M) : Cat(u, v) = t /\ g[Len(San(u)) + 1] # Visible(v)
           T == {n \in Nat : \E v \in TextsOver(M) : Len(v) = n /\ Bad(v)}
<1>1. x \in TextsOver(M)
  BY SanitizeJoins
<1>2. PICK n \in Nat : n = Len(x)
  BY <1>1, LenProperties DEF TextsOver
<1>3. Visible(<<>>) = <<>>
  BY ReplaceEmpty DEF Visible
<1>4. ASSUME NEW l \in T, \A m \in T : l <= m PROVE FALSE
  <2>1. PICK v \in TextsOver(M), u \in TextsOver(M) :
            Len(v) = l /\ Cat(u, v) = t /\ g[Len(San(u)) + 1] # Visible(v)
    OBVIOUS
  <2>2. PICK a \in TextsOver(M) : a = San(u)
    BY SanitizeJoins
  <2>3. PICK k \in Nat : k = Len(a)
    BY <2>2, LenProperties DEF TextsOver
  <2>4. CASE v = <<>>
    <3>1. u = t
      BY <2>1, <2>4, CatTexts
    <3>2. k + 1 = npos(x) /\ k + 1 \in 1..npos(x)
      BY <1>2, <2>2, <2>3, <3>1 DEF npos
    <3>3. g[k + 1] = <<>>
      BY <3>2 DEF Resolves
    <3> QED
      BY <1>3, <2>1, <2>2, <2>3, <2>4, <3>3
  <2>5. CASE v # <<>>
    <3>1. PICK c \in M, w \in TextsOver(M) : v = Cat(<<c>>, w) /\ Len(w) + 1 = l
      <4>1. PICK c \in M, w \in TextsOver(M) : v = Cat(<<c>>, w)
        BY <2>5, FirstAndRest
      <4>2. Len(v) = 1 + Len(w) /\ Len(w) \in Nat
        BY <4>1, ConcatProperties, LenProperties DEF TextsOver, Cat
      <4> QED
        BY <2>1, <4>1, <4>2
    <3>2. PICK y \in TextsOver(M) : y = <<c>>
      BY CharTexts
    <3>3. PICK z \in TextsOver(M) : z = Cat(u, y)
      BY CatTexts
    <3>4. Cat(z, w) = t
      BY <2>1, <3>1, <3>2, <3>3, CatTexts
    <3>5. Len(w) \in Nat /\ Len(w) \notin T
      <4>1. Len(w) \in Nat
        BY LenProperties DEF TextsOver
      <4> HIDE DEF T
      <4> QED
        BY <1>4, <3>1, <4>1
    <3>6. g[Len(San(z)) + 1] = Visible(w)
      BY <3>4, <3>5
    <3>7. PICK b \in TextsOver(M) : b = San(y) /\ b = Sanitized(c)
      BY <3>2, SanitizeJoins, SanitizeOne
    <3>8. PICK d \in TextsOver(M) : d = San(w)
      BY SanitizeJoins
    <3>9. San(z) = Cat(a, b)
      <4>1. San(Cat(u, y)) = Cat(San(u), San(y))
        BY SanitizeJoins
      <4> QED
        BY <2>2, <3>3, <3>7, <4>1
    <3>10. x = Cat(a, Cat(b, d))
      <4>1. x = Cat(San(z), d)
        BY <3>4, <3>8, SanitizeJoins
      <4> QED
        BY <3>9, <4>1, CatTexts
    <3>11. PICK m \in Nat : m = Len(b)
      BY LenProperties DEF TextsOver
    <3>12. /\ k + m <= Len(x) /\ Len(Cat(a, b)) = k + m
           /\ \A j \in 1..m : x[k + j] = b[j]
      <4>1. /\ k + m <= Len(Cat(a, Cat(b, d))) /\ Len(Cat(a, b)) = k + m
            /\ \A j \in 1..m : Cat(a, Cat(b, d))[k + j] = b[j]
        <5>1. Spans(Cat(a, Cat(b, d)), Cat(a, b), k, b, m)
          BY <2>3, <3>11, Between
        <5> QED
          BY <5>1 DEF Spans
      <4> QED
        BY <3>10, <4>1
    <3>13. PICK q \in Nat \ {0} : q = k + 1
      OBVIOUS
    <3>14. Shows(x, q, c)
      <4>1. q + m - 1 <= Len(x)
        BY <1>2, <3>12, <3>13
      <4>2. \A j \in 1..m : q + j - 1 = k + j
        BY <3>13
      <4>3. \A j \in 1..m : x[q + j - 1] = b[j]
        BY <3>12, <4>2
      <4> QED
        BY <3>7, <3>11, <4>1, <4>3 DEF Shows
    <3>15. g[q] = Cat(IF c = "NUL" THEN <<"\\", "0">> ELSE <<c>>, g[q + m])
      BY <1>1, <3>7, <3>11, <3>14, ResolveOne
    <3>16. q + m = Len(San(z)) + 1
      BY <3>9, <3>12, <3>13
    <3>17. Visible(v) = Cat(Visible(y), Visible(w))
      BY <3>1, <3>2, SanitizeJoins
    <3>18. Visible(y) = IF c = "NUL" THEN <<"\\", "0">> ELSE <<c>>
      BY <3>2, SanitizeOne
    <3>19. g[q] = Visible(v)
      BY <3>6, <3>15, <3>16, <3>17, <3>18
    <3> QED
      BY <2>1, <2>2, <2>3, <3>13, <3>19
  <2> QED
    BY <2>4, <2>5
<1>5. T = {}
  <2>1. T \in SUBSET Nat
    OBVIOUS
  <2> HIDE DEF T
  <2> QED
    BY <1>4, <2>1, Least
<1>6. PICK e \in TextsOver(M) : e = <<>> /\ Cat(e, t) = t
  BY CatTexts
<1>7. Len(San(e)) = 0
  <2>1. replace_all(<<>>, "&", <<"&", "amp;">>) = <<>> /\ \A d : Round(<<>>, d) = <<>>
    BY ReplaceEmpty DEF Round
  <2>2. San(e) = <<>>
    BY <1>3, <1>6, <2>1, SixRounds
  <2> QED
    BY <2>2
<1>8. PICK l \in Nat : l = Len(t)
  BY LenProperties DEF TextsOver
<1>9. ~Bad(t)
  BY <1>5, <1>8
<1> QED
  BY <1>6, <1>7, <1>9

\* A reader of a frame gets back what was sanitized, with NUL made visible.
LEMMA BodyReadBack ==
    ASSUME NEW S, NEW t \in Seq(S), NEW o \in Orders
    PROVE  CharData(sanitize_string(t, o)) = Visible(t)
<1>1. PICK M : M = Body(S)
  OBVIOUS
<1>2. t \in TextsOver(M)
  BY <1>1, SeqMonotonic DEF Body, TextsOver
<1>3. PICK x \in TextsOver(M) : x = sanitize_string(t, o)
  BY <1>1, <1>2, SanitizeJoins
<1>4. PICK g : /\ Resolves(g, x) /\ CharData(x) = g[1]
               /\ \A p \in 1..npos(x) : g[p] \in TextsOver(M)
  BY <1>1, ResolvesChosen
<1> QED
  BY <1>1, <1>2, <1>3, <1>4, BodyRead

-----------------------------------------------------------------------------
(***************************************************************************)
(* The places that find returns.                                           *)
(***************************************************************************)
\* pattern is in t at i.
PatternAt(t, pattern, i) ==
    i + Len(pattern) - 1 <= Len(t) /\ \A j \in 1..Len(pattern) : t[i + j - 1] = pattern[j]

\* substr finds a pattern where its characters are.
LEMMA SubstrIs ==
    ASSUME NEW S, NEW t \in Seq(S), NEW n \in Nat, n = Len(t), NEW i \in 1..(n + 1),
           NEW R, NEW pattern \in Seq(R), NEW k \in Nat \ {0}, k = Len(pattern)
    PROVE  substr(t, i, k) = pattern <=> PatternAt(t, pattern, i)
<1>1. PICK m \in Nat : m = Min({i + k - 1, n})
  <2>1. \E v \in {i + k - 1, n} : \A w \in {i + k - 1, n} : v <= w
    OBVIOUS
  <2>2. Min({i + k - 1, n}) \in {i + k - 1, n}
    BY <2>1 DEF Min
  <2> QED
    BY <2>2
<1>2. m = IF i + k - 1 <= n THEN i + k - 1 ELSE n
  <2>1. \E v \in {i + k - 1, n} : \A w \in {i + k - 1, n} : v <= w
    OBVIOUS
  <2>2. m \in {i + k - 1, n} /\ \A w \in {i + k - 1, n} : m <= w
    BY <1>1, <2>1 DEF Min
  <2> QED
    BY <2>2
<1>3. PICK s : s = SubSeq(t, i, m)
  OBVIOUS
<1>4. substr(t, i, k) = s
  BY <1>1, <1>3, Zenon DEF substr
<1>5. /\ s \in Seq(S) /\ Len(s) = m - i + 1
      /\ \A j \in 1..(m - i + 1) : s[j] = t[i + j - 1]
  <2>1. \A j \in i..m : t[j] \in S
    BY <1>2, ElementOfSeq
  <2>2. PICK a \in Nat : a = i
    OBVIOUS
  <2>3. /\ s \in Seq(S) /\ Len(s) = IF a <= m THEN m - a + 1 ELSE 0
        /\ \A j \in 1..(m - a + 1) : s[j] = t[a + j - 1]
    BY <1>3, <2>1, <2>2, SubSeqProperties
  <2>4. i <= m \/ m - i + 1 = 0
    BY <1>2
  <2> QED
    BY <2>2, <2>3, <2>4
<1>6. ASSUME PatternAt(t, pattern, i) PROVE s = pattern
  <2>1. m = i + k - 1 /\ \A j \in 1..k : t[i + j - 1] = pattern[j]
    BY <1>2, <1>6 DEF PatternAt
  <2>2. Len(s) = k /\ \A j \in 1..k : s[j] = pattern[j]
    BY <1>5, <2>1
  <2> QED
    BY <1>5, <2>2, SeqEqual
<1>7. ASSUME s = pattern PROVE PatternAt(t, pattern, i)
  <2>1. m - i + 1 = k
    BY <1>5, <1>7
  <2>2. i + k - 1 <= n
    BY <1>2, <2>1
  <2> QED
    BY <1>5, <1>7, <2>1, <2>2 DEF PatternAt
<1> QED
  BY <1>4, <1>6, <1>7

\* i is the first place from p on where pattern is, or behind the end.
FirstAt(t, pattern, p, i) ==
    /\ i \in p..(Len(t) + 1)
    /\ i # Len(t) + 1 => PatternAt(t, pattern, i)
    /\ \A j \in p..(i - 1) : ~PatternAt(t, pattern, j)

\* find returns it.
LEMMA FindFirst ==
    ASSUME NEW S, NEW t \in Seq(S), NEW p \in 1..(Len(t) + 1),
           NEW R, NEW pattern \in Seq(R), pattern # <<>>
    PROVE  FirstAt(t, pattern, p, FindAny(t, pattern, p))
<1>1. PICK n \in Nat : n = Len(t)
  BY LenProperties
<1>2. PICK l \in Nat \ {0} : l = Len(pattern)
  BY LenProperties, EmptySeq
<1>3. PICK at : at = {i \in p..n : substr(t, i, l) = pattern}
  OBVIOUS
<1>4. FindAny(t, pattern, p) = IF at = {} THEN n + 1 ELSE Min(at)
  BY <1>1, <1>2, <1>3 DEF FindAny, npos
<1>5. at = {i \in p..n : PatternAt(t, pattern, i)}
  <2>1. \A i \in p..n : substr(t, i, l) = pattern <=> PatternAt(t, pattern, i)
    <3>1. \A i \in p..n : i \in 1..(n + 1)
      BY <1>1
    <3> QED
      BY <1>1, <1>2, <3>1, SubstrIs
  <2> QED
    BY <1>3, <2>1
<1>6. CASE at = {}
  BY <1>1, <1>4, <1>5, <1>6 DEF FirstAt
<1>7. CASE at # {}
  <2>1. at \in SUBSET Nat
    BY <1>1, <1>5
  <2>2. PICK m \in at : \A i \in at : m <= i
    BY <1>7, <2>1, Least
  <2>3. Min(at) \in at /\ \A i \in at : Min(at) <= i
    BY <2>2 DEF Min
  <2>4. PICK k : k = FindAny(t, pattern, p)
    OBVIOUS
  <2>5. k \in at /\ \A i \in at : k <= i
    BY <1>4, <1>7, <2>3, <2>4
  <2>6. k \in p..n /\ PatternAt(t, pattern, k) /\ k # n + 1
    BY <1>1, <1>5, <2>5
  <2>7. ASSUME NEW j \in p..(k - 1), PatternAt(t, pattern, j) PROVE FALSE
    <3>1. j \in at
      BY <1>1, <1>5, <2>6, <2>7
    <3>2. k <= j
      BY <2>5, <3>1
    <3> QED
      BY <1>1, <2>6, <3>2
  <2> QED
    BY <1>1, <2>4, <2>6, <2>7 DEF FirstAt
<1> QED
  BY <1>6, <1>7

\* There is only one first place.
LEMMA FirstUnique ==
    ASSUME NEW t, Len(t) \in Nat, NEW pattern, NEW p \in Nat, NEW i, NEW k,
           FirstAt(t, pattern, p, i), FirstAt(t, pattern, p, k)
    PROVE  i = k
<1>1. ASSUME NEW v, NEW w, FirstAt(t, pattern, p, v), FirstAt(t, pattern, p, w), v < w PROVE FALSE
  <2>1. v \in p..(w - 1) /\ v # Len(t) + 1
    BY <1>1 DEF FirstAt
  <2> QED
    BY <1>1, <2>1 DEF FirstAt
<1>2. i \in Nat /\ k \in Nat
  BY DEF FirstAt
<1>3. CASE i < k
  BY <1>1, <1>3
<1>4. CASE k < i
  BY <1>1, <1>4
<1> QED
  BY <1>2, <1>3, <1>4

\* A character is found at i, or nowhere.
LEMMA FindChar ==
    ASSUME NEW S, NEW t \in Seq(S), NEW c, NEW p \in 1..(Len(t) + 1), NEW i \in p..(Len(t) + 1),
           \A j \in p..(i - 1) : t[j] # c, i = Len(t) + 1 \/ t[i] = c
    PROVE  FindAny(t, <<c>>, p) = i
<1>1. PICK n \in Nat : n = Len(t)
  BY LenProperties
<1>2. <<c>> \in Seq({c}) /\ Len(<<c>>) = 1 /\ <<c>>[1] = c /\ <<c>> # <<>>
  OBVIOUS
<1>3. \A j \in 1..n : PatternAt(t, <<c>>, j) <=> t[j] = c
  BY <1>1, <1>2 DEF PatternAt
<1>4. FirstAt(t, <<c>>, p, i)
  BY <1>1, <1>3 DEF FirstAt
<1>5. FirstAt(t, <<c>>, p, FindAny(t, <<c>>, p))
  BY <1>2, FindFirst
<1> QED
  BY <1>1, <1>4, <1>5, FirstUnique
-----------------------------------------------------------------------------
(***************************************************************************)
(* Encode and decode_hex_byte: what is encoded is read back.               *)
(***************************************************************************)
\* The characters of escape sequences.
EscapeDigits == {"0", "1", "2", "3", "4", "5", "6", "A", "B", "F"}

\* The escape sequences, each of which stands for one character.
LEMMA EscapeFacts ==
    /\ DOMAIN Escape = {"@", ":", "/", "%", "+", "a"}
    /\ \A c \in DOMAIN Escape : \E d, e \in EscapeDigits : Escape[c] = <<d, e>>
    /\ \A c \in DOMAIN Escape : Unescape(Escape[c]) = <<c>>
<1>1. DOMAIN Escape = {"@", ":", "/", "%", "+", "a"}
  BY DEF Escape
<1>2. /\ Escape["@"] = <<"4", "0">> /\ Escape[":"] = <<"3", "A">> /\ Escape["/"] = <<"2", "F">>
      /\ Escape["%"] = <<"2", "5">> /\ Escape["+"] = <<"2", "B">> /\ Escape["a"] = <<"6", "1">>
  BY DEF Escape
<1>3. ASSUME NEW c \in DOMAIN Escape PROVE \E d, e \in EscapeDigits : Escape[c] = <<d, e>>
  BY <1>1, <1>2 DEF EscapeDigits
<1>4. ASSUME NEW c \in DOMAIN Escape PROVE Unescape(Escape[c]) = <<c>>
  <2>1. ASSUME NEW d \in DOMAIN Escape, Escape[d] = Escape[c] PROVE d = c
    BY <1>1, <1>2, <2>1
  <2>2. {d \in DOMAIN Escape : Escape[d] = Escape[c]} = {c}
    BY <2>1
  <2>3. (CHOOSE d \in {c} : TRUE) = c
    OBVIOUS
  <2> QED
    BY <2>2, <2>3 DEF Unescape
<1> QED
  BY <1>1, <1>3, <1>4

\* What no character is written as stands for no character.
LEMMA UnescapeType ==
    ASSUME NEW code
    PROVE  /\ Unescape(code) = Invalid \/ \E c \in DOMAIN Escape : Unescape(code) = <<c>>
           /\ (\A c \in DOMAIN Escape : Escape[c] # code) => Unescape(code) = Invalid
<1>1. PICK of : of = {c \in DOMAIN Escape : Escape[c] = code}
  OBVIOUS
<1>2. Unescape(code) = IF of = {} THEN Invalid ELSE <<CHOOSE c \in of : TRUE>>
  BY <1>1 DEF Unescape
<1>3. of # {} => (CHOOSE c \in of : TRUE) \in of
  OBVIOUS
<1> QED
  BY <1>1, <1>2, <1>3

\* Reserved characters; "%" and "+" always are.
Reserves(R) == R \subseteq DOMAIN Escape /\ "%" \in R /\ "+" \in R

\* What texts over M are encoded in: no reserved character, and no mark for a
\* stray one, is left.
CodeChars(M, R) == ((M \cup EscapeDigits \cup {"%", "+"}) \ {"stray"}) \ (R \ {"%", "+"})

\* The code of a character.
LEMMA CodeType ==
    ASSUME NEW M, NEW c \in M, NEW R, Reserves(R)
    PROVE  Code(c, R) \in TextsOver(CodeChars(M, R))
<1>1. PICK N : N = CodeChars(M, R)
  OBVIOUS
<1>2. "%" \in N /\ "+" \in N /\ EscapeDigits \subseteq N
  BY <1>1, EscapeFacts DEF CodeChars, EscapeDigits, Reserves
<1>3. \A d \in N : <<d>> \in TextsOver(N)
  BY CharTexts
<1>4. CASE c \in R
  <2>1. PICK d \in N, e \in N : Escape[c] = <<d, e>>
    BY <1>2, <1>4, EscapeFacts DEF Reserves
  <2>2. <<d, e>> \in TextsOver(N)
    BY CharTexts
  <2>3. Cat(<<"%">>, <<d, e>>) \in TextsOver(N)
    BY <1>2, <1>3, <2>2, CatTexts
  <2> QED
    BY <1>1, <1>4, <2>1, <2>3 DEF Code, Cat
<1>5. CASE c \notin R
  <2>1. c # "stray" => c \in N
    BY <1>1, <1>5 DEF CodeChars
  <2> QED
    BY <1>1, <1>2, <1>3, <1>5, <2>1 DEF Code
<1> QED
  BY <1>4, <1>5

\* Encoding treats every character for itself.
LEMMA EncodeFlat ==
    ASSUME NEW M, NEW R, Reserves(R)
    PROVE  \E f \in [M -> TextsOver(CodeChars(M, R))] :
               /\ \A c \in M : f[c] = Code(c, R)
               /\ \A t \in TextsOver(M) : Encode(t, R) = Flat(f, t)
<1>1. PICK f : f = [c \in M |-> Code(c, R)]
  OBVIOUS
<1>2. f \in [M -> TextsOver(CodeChars(M, R))]
  BY <1>1, CodeType
<1>3. ASSUME NEW t \in TextsOver(M) PROVE Encode(t, R) = Flat(f, t)
  <2>1. \A i \in DOMAIN t : t[i] \in M
    BY LenProperties, ElementOfSeq DEF TextsOver
  <2>2. \A i \in DOMAIN t : f[t[i]] = Code(t[i], R)
    BY <1>1, <2>1
  <2>3. [i \in DOMAIN t |-> f[t[i]]] = [i \in DOMAIN t |-> Code(t[i], R)]
    BY <2>2
  <2> QED
    BY <2>3 DEF Flat, Encode
<1> QED
  BY <1>1, <1>2, <1>3

\* Hence it gives a text, joins and leaves nothing nothing.
LEMMA EncodeJoins ==
    ASSUME NEW M, NEW R, Reserves(R), NEW N, N = CodeChars(M, R)
    PROVE  /\ \A t \in TextsOver(M) : Encode(t, R) \in TextsOver(N)
           /\ Encode(<<>>, R) = <<>>
           /\ \A t, s \in TextsOver(M) : Encode(Cat(t, s), R) = Cat(Encode(t, R), Encode(s, R))
           /\ \A c \in M : Encode(<<c>>, R) = Code(c, R)
<1>1. PICK f \in [M -> TextsOver(N)] :
          /\ \A c \in M : f[c] = Code(c, R)
          /\ \A t \in TextsOver(M) : Encode(t, R) = Flat(f, t)
  BY EncodeFlat
<1>2. ASSUME NEW t \in TextsOver(M) PROVE Encode(t, R) \in TextsOver(N)
  <2>1. Flat(f, t) \in TextsOver(N)
    BY FlatType
  <2> QED
    BY <1>1, <2>1
<1>3. Encode(<<>>, R) = <<>>
  <2>1. <<>> \in TextsOver(M)
    BY CatTexts
  <2> QED
    BY <1>1, <2>1, FlatEmpty
<1>4. ASSUME NEW t \in TextsOver(M), NEW s \in TextsOver(M)
      PROVE  Encode(Cat(t, s), R) = Cat(Encode(t, R), Encode(s, R))
  <2>1. Cat(t, s) \in TextsOver(M)
    BY CatTexts
  <2>2. Flat(f, Cat(t, s)) = Cat(Flat(f, t), Flat(f, s))
    BY FlatJoins
  <2> QED
    BY <1>1, <2>1, <2>2
<1>5. ASSUME NEW c \in M PROVE Encode(<<c>>, R) = Code(c, R)
  <2>1. <<c>> \in TextsOver(M)
    BY CharTexts
  <2>2. Flat(f, <<c>>) = f[c]
    BY FlatOne
  <2> QED
    BY <1>1, <2>1, <2>2
<1> QED
  BY <1>2, <1>3, <1>4, <1>5

\* The equation of the recursive function in decode_hex_byte.
Decodes(g, x) ==
    g = [pos \in 1..npos(x) + 2 |->
            IF pos >= npos(x) THEN <<>>
            ELSE IF x[pos] = "%" THEN Unescape(substr(x, pos + 1, 2)) \o g[pos + 3]
            ELSE <<IF x[pos] = "+" THEN " " ELSE x[pos]>> \o g[pos + 1]]

\* What texts over N may be decoded to.
Decoded(N) == N \cup DOMAIN Escape \cup {" ", "invalid"}

\* decode_hex_byte is the value of such a function, and its values are texts.
LEMMA DecodesChosen ==
    ASSUME NEW N, NEW x \in TextsOver(N)
    PROVE  \E g : /\ Decodes(g, x) /\ decode_hex_byte(x) = g[1]
                  /\ \A p \in 1..(npos(x) + 2) : g[p] \in TextsOver(Decoded(N))
<1>1. PICK l \in Nat : l = npos(x) /\ l = Len(x) + 1
  BY LenProperties DEF npos, TextsOver
<1>2. PICK n \in Nat : n = l + 2
  OBVIOUS
<1>3. PICK stop : stop = {p \in 1..n : p >= l}
  OBVIOUS
<1>4. PICK a : a = [p \in 1..n |-> <<>>]
  OBVIOUS
<1>5. PICK b : b = [p \in 1..n |-> IF x[p] = "%" THEN Unescape(substr(x, p + 1, 2))
                                    ELSE <<IF x[p] = "+" THEN " " ELSE x[p]>>]
  OBVIOUS
<1>6. PICK next : next = [p \in 1..n |-> IF x[p] = "%" THEN p + 3 ELSE p + 1]
  OBVIOUS
<1>7. \A p \in 1..n : p \notin stop => next[p] \in (p + 1)..n
  <2>1. ASSUME NEW p \in 1..n, p \notin stop PROVE next[p] \in (p + 1)..n
    <3>1. p + 3 <= n
      BY <1>1, <1>2, <1>3, <2>1
    <3>2. next[p] = IF x[p] = "%" THEN p + 3 ELSE p + 1
      BY <1>6
    <3> QED
      BY <3>1, <3>2
  <2> QED
    BY <2>1
<1>8. ASSUME NEW g PROVE Decodes(g, x) <=> Forward(g, n, stop, a, b, next)
  <2>1. ASSUME NEW p \in 1..n
        PROVE  (IF p \in stop THEN a[p] ELSE b[p] \o g[next[p]])
                 = (IF p >= npos(x) THEN <<>>
                    ELSE IF x[p] = "%" THEN Unescape(substr(x, p + 1, 2)) \o g[p + 3]
                    ELSE <<IF x[p] = "+" THEN " " ELSE x[p]>> \o g[p + 1])
    <3>1. p \in stop <=> p >= npos(x)
      BY <1>1, <1>3
    <3>2. /\ a[p] = <<>>
          /\ b[p] = IF x[p] = "%" THEN Unescape(substr(x, p + 1, 2))
                    ELSE <<IF x[p] = "+" THEN " " ELSE x[p]>>
          /\ next[p] = IF x[p] = "%" THEN p + 3 ELSE p + 1
      BY <1>4, <1>5, <1>6
    <3> QED
      BY <3>1, <3>2, Zenon
  <2>2. 1..n = 1..npos(x) + 2
    BY <1>1, <1>2
  <2> QED
    BY <2>1, <2>2, Zenon DEF Decodes, Forward
<1>9. PICK g : g = CHOOSE h : Decodes(h, x)
  OBVIOUS
<1>10. \E h : Forward(h, n, stop, a, b, next)
  BY <1>7, ForwardExists
<1>11. Decodes(g, x)
  BY <1>8, <1>9, <1>10, Zenon
<1>12. decode_hex_byte(x) = g[1]
  BY <1>9, Zenon DEF decode_hex_byte, Decodes
<1>13. PICK K : K = Decoded(N)
  OBVIOUS
<1>14. ASSUME NEW p \in 1..n
       PROVE  IF p \in stop THEN a[p] \in TextsOver(K) ELSE b[p] \in TextsOver(K)
  <2>1. a[p] \in TextsOver(K)
    BY <1>4, CatTexts
  <2>2. \A e \in K : <<e>> \in TextsOver(K)
    BY CharTexts
  <2>3. ASSUME p \notin stop PROVE b[p] \in TextsOver(K)
    <3>1. p \in 1..Len(x)
      BY <1>1, <1>3, <2>3
    <3>2. x[p] \in N
      BY <3>1, ElementOfSeq DEF TextsOver
    <3>3. x[p] \in K /\ " " \in K /\ "invalid" \in K /\ DOMAIN Escape \subseteq K
      BY <1>13, <3>2 DEF Decoded
    <3>4. \A code : Unescape(code) \in TextsOver(K)
      BY <2>2, <3>3, UnescapeType DEF Invalid
    <3>5. b[p] = IF x[p] = "%" THEN Unescape(substr(x, p + 1, 2))
                 ELSE <<IF x[p] = "+" THEN " " ELSE x[p]>>
      BY <1>5
    <3>6. CASE x[p] = "%"
      BY <3>4, <3>5, <3>6
    <3>7. CASE x[p] # "%"
      BY <2>2, <3>3, <3>5, <3>7
    <3> QED
      BY <3>6, <3>7
  <2> QED
    BY <2>1, <2>3
<1>15. \A p \in 1..n : g[p] \in TextsOver(K)
  <2>1. PICK L : L = TextsOver(K)
    OBVIOUS
  <2>2. \A s, t \in L : s \o t \in L
    BY <2>1, CatTexts DEF Cat
  <2>3. Forward(g, n, stop, a, b, next)
    BY <1>8, <1>11
  <2>4. \A p \in 1..n : IF p \in stop THEN a[p] \in L ELSE b[p] \in L
    BY <1>14, <2>1
  <2>5. \A p \in 1..n : g[p] \in L
    BY <1>7, <2>2, <2>3, <2>4, ForwardType, ZenonT(30)
  <2> QED
    BY <2>1, <2>5
<1> QED
  BY <1>1, <1>2, <1>11, <1>12, <1>13, <1>15

\* What a character is encoded as stands behind what those before it are.
LEMMA CodeAt ==
    ASSUME NEW M, NEW R, Reserves(R), NEW u \in TextsOver(M), NEW c \in M, NEW w \in TextsOver(M),
           NEW x, x = Encode(Cat(u, Cat(<<c>>, w)), R),
           NEW k \in Nat, k = Len(Encode(u, R)), NEW m \in Nat, m = Len(Code(c, R))
    PROVE  Spans(x, Encode(Cat(u, <<c>>), R), k, Code(c, R), m)
<1>1. PICK N : N = CodeChars(M, R)
  OBVIOUS
<1>2. PICK s \in TextsOver(M) : s = <<c>>
  BY CharTexts
<1>3. PICK a \in TextsOver(N), b \in TextsOver(N), d \in TextsOver(N) :
          a = Encode(u, R) /\ b = Encode(s, R) /\ d = Encode(w, R)
  BY <1>1, EncodeJoins
<1>4. b = Code(c, R)
  BY <1>1, <1>2, <1>3, EncodeJoins
<1>5. PICK v \in TextsOver(M) : v = Cat(s, w)
  BY CatTexts
<1>6. Encode(v, R) = Cat(b, d)
  BY <1>1, <1>3, <1>5, EncodeJoins
<1>7. x = Cat(a, Cat(b, d))
  <2>1. Encode(Cat(u, v), R) = Cat(Encode(u, R), Encode(v, R))
    BY <1>1, EncodeJoins
  <2> QED
    BY <1>2, <1>3, <1>5, <1>6, <2>1
<1>8. Encode(Cat(u, s), R) = Cat(a, b)
  BY <1>1, <1>3, EncodeJoins
<1>9. Spans(Cat(a, Cat(b, d)), Cat(a, b), k, b, m)
  BY <1>3, <1>4, Between
<1> QED
  BY <1>2, <1>4, <1>7, <1>8, <1>9

\* At q, x has what c is encoded as; behind a stray "%" there is no escape sequence.
Encoded(x, q, c, R) ==
    /\ q \in Nat \ {0} /\ q + Len(Code(c, R)) - 1 <= Len(x)
    /\ \A j \in 1..Len(Code(c, R)) : x[q + j - 1] = Code(c, R)[j]
    /\ c = "stray" => q + 2 > Len(x) \/ x[q + 1] \notin HexDigits \/ x[q + 2] \notin HexDigits

\* Texts of one and two characters.
LEMMA ShortTexts ==
    ASSUME NEW M, NEW c \in M, NEW d \in M
    PROVE  /\ \E s \in Seq(M) : s = <<c>> /\ Len(s) = 1 /\ s[1] = c
           /\ \E s \in Seq(M) : s = <<c, d>> /\ Len(s) = 2 /\ s[1] = c /\ s[2] = d
<1>1. <<c>> \in Seq(M) /\ Len(<<c>>) = 1 /\ <<c>>[1] = c
  OBVIOUS
<1>2. <<c, d>> \in Seq(M) /\ Len(<<c, d>>) = 2 /\ <<c, d>>[1] = c /\ <<c, d>>[2] = d
  OBVIOUS
<1>3. \E s \in Seq(M) : s = <<c>> /\ Len(s) = 1 /\ s[1] = c
  BY <1>1, Zenon
<1>4. \E s \in Seq(M) : s = <<c, d>> /\ Len(s) = 2 /\ s[1] = c /\ s[2] = d
  BY <1>2, Zenon
<1> QED
  BY <1>3, <1>4

\* substr(t, p, 2) is an escape sequence where this is in t.
LEMMA SubstrTwo ==
    ASSUME NEW N, NEW t \in Seq(N), NEW p \in 1..(Len(t) + 1), NEW M, NEW s \in Seq(M), Len(s) = 2
    PROVE  substr(t, p, 2) = s <=> PatternAt(t, s, p)
<1>1. PICK n \in Nat : n = Len(t)
  BY LenProperties
<1>2. PICK k \in Nat \ {0} : k = 2
  OBVIOUS
<1>3. p \in 1..(n + 1) /\ k = Len(s)
  BY <1>1, <1>2
<1>4. substr(t, p, k) = s <=> PatternAt(t, s, p)
  BY <1>1, <1>2, <1>3, SubstrIs
<1> QED
  BY <1>2, <1>4

\* A text that begins with the mark of a failed conversion.
Marks(y, N) == \E r \in TextsOver(Decoded(N)) : y = Cat(Invalid, r)

\* A character is decoded, or a stray one is found invalid.
LEMMA DecodeOne ==
    ASSUME NEW N, NEW x \in TextsOver(N), NEW R, Reserves(R), NEW c, NEW q, Encoded(x, q, c, R),
           NEW g, Decodes(g, x), \A p \in 1..(npos(x) + 2) : g[p] \in TextsOver(Decoded(N))
    PROVE  /\ c # "stray" => g[q] = Cat(<<c>>, g[q + Len(Code(c, R))])
           /\ c = "stray" => Marks(g[q], N)
<1>1. PICK l \in Nat : l = Len(x) /\ npos(x) = l + 1
  BY LenProperties DEF npos, TextsOver
<1>2. ASSUME NEW p \in 1..l, x[p] # "%"
      PROVE  g[p] = Cat(<<IF x[p] = "+" THEN " " ELSE x[p]>>, g[p + 1])
  <2>1. p \in 1..(npos(x) + 2) /\ ~(p >= npos(x))
    BY <1>1
  <2> QED
    BY <1>2, <2>1 DEF Decodes, Cat
<1>3. ASSUME NEW p \in 1..l, x[p] = "%"
      PROVE  g[p] = Cat(Unescape(substr(x, p + 1, 2)), g[p + 3])
  <2>1. p \in 1..(npos(x) + 2) /\ ~(p >= npos(x))
    BY <1>1
  <2> QED
    BY <1>3, <2>1 DEF Decodes, Cat
<1>4. q \in Nat \ {0}
  BY DEF Encoded
<1>5. ASSUME NEW d \in DOMAIN Escape, NEW p \in 1..(l + 1)
      PROVE  /\ Escape[d] \in Seq(EscapeDigits) /\ Len(Escape[d]) = 2
             /\ substr(x, p, 2) = Escape[d] <=> PatternAt(x, Escape[d], p)
  <2>1. PICK e \in EscapeDigits, h \in EscapeDigits : Escape[d] = <<e, h>>
    BY EscapeFacts
  <2>2. PICK s \in Seq(EscapeDigits) : s = <<e, h>> /\ Len(s) = 2
    BY ShortTexts
  <2>3. x \in Seq(N) /\ p \in 1..(Len(x) + 1)
    BY <1>1 DEF TextsOver
  <2>4. substr(x, p, 2) = s <=> PatternAt(x, s, p)
    BY <2>2, <2>3, SubstrTwo
  <2> QED
    BY <2>1, <2>2, <2>4
<1>6. CASE c \in R
  <2>1. PICK e \in EscapeDigits, h \in EscapeDigits : Escape[c] = <<e, h>>
    BY <1>6, EscapeFacts DEF Reserves
  <2>2. PICK D : D = EscapeDigits \cup {"%"}
    OBVIOUS
  <2>3. /\ Len(Code(c, R)) = 3
        /\ Code(c, R)[1] = "%" /\ Code(c, R)[2] = e /\ Code(c, R)[3] = h
    <3>0. "%" \in D /\ e \in D /\ h \in D
      BY <2>2
    <3>1. PICK s \in Seq(D) : s = <<"%">> /\ Len(s) = 1 /\ s[1] = "%"
      BY <3>0, ShortTexts
    <3>2. PICK t \in Seq(D) : t = <<e, h>> /\ Len(t) = 2 /\ t[1] = e /\ t[2] = h
      BY <3>0, ShortTexts
    <3>3. Code(c, R) = s \o t
      BY <1>6, <2>1, <3>1, <3>2 DEF Code
    <3>4. Joined(s, t, s \o t)
      BY CatJoins
    <3>5. Len(s) = 1 /\ s[1] = "%" /\ Len(t) = 2 /\ t[1] = e /\ t[2] = h
      BY <3>1, <3>2
    <3> QED
      BY <3>3, <3>4, <3>5 DEF Joined
  <2>4. q + 2 <= l /\ x[q + 1 - 1] = "%" /\ x[q + 2 - 1] = e /\ x[q + 3 - 1] = h
    BY <1>1, <2>3 DEF Encoded
  <2>5. PICK p \in 1..(l + 1) : p = q + 1
    BY <1>4, <2>4
  <2>6. q \in 1..l /\ x[q] = "%" /\ x[p] = e /\ x[p + 1] = h /\ p + 1 <= l
    BY <1>4, <2>4, <2>5
  <2>7. c \in DOMAIN Escape
    BY <1>6 DEF Reserves
  <2>8. PICK s \in Seq(EscapeDigits) : s = Escape[c] /\ Len(s) = 2 /\ s[1] = e /\ s[2] = h
    BY <2>1, ShortTexts
  <2>9. PatternAt(x, s, p)
    <3>1. p + 2 - 1 <= l /\ p + 1 - 1 = p /\ p + 2 - 1 = p + 1
      BY <2>5, <2>6
    <3>2. \A j \in 1..2 : x[p + j - 1] = s[j]
      BY <2>6, <2>8, <3>1
    <3> QED
      BY <1>1, <2>8, <3>1, <3>2 DEF PatternAt
  <2>10. substr(x, p, 2) = s
    BY <1>5, <2>7, <2>8, <2>9
  <2>11. g[q] = Cat(Unescape(s), g[q + 3])
    BY <1>3, <2>5, <2>6, <2>10
  <2>12. Unescape(s) = <<c>> /\ c # "stray"
    BY <2>7, <2>8, EscapeFacts
  <2> QED
    BY <2>3, <2>11, <2>12
<1>7. CASE c \notin R /\ c = "stray"
  <2>1. Code(c, R) = <<"%">>
    BY <1>7 DEF Code
  <2>2. Len(Code(c, R)) = 1 /\ Code(c, R)[1] = "%"
    BY <2>1
  <2>3. q <= l /\ x[q + 1 - 1] = "%"
    BY <1>1, <2>2 DEF Encoded
  <2>4. PICK p \in 1..(l + 1) : p = q + 1
    BY <1>4, <2>3
  <2>5. q \in 1..l /\ x[q] = "%"
    BY <1>4, <2>3
  <2>6. ASSUME NEW d \in DOMAIN Escape, Escape[d] = substr(x, p, 2) PROVE FALSE
    <3>1. PICK s \in Seq(EscapeDigits) : s = Escape[d] /\ Len(s) = 2
      BY <1>1, <1>5
    <3>2. PatternAt(x, s, p)
      BY <1>5, <2>6, <3>1
    <3>3. p + 2 - 1 <= l /\ x[p + 1 - 1] = s[1] /\ x[p + 2 - 1] = s[2]
      BY <1>1, <3>1, <3>2 DEF PatternAt
    <3>4. ~(q + 2 > l) /\ x[q + 1] = s[1] /\ x[q + 2] = s[2]
      <4>1. p + 2 - 1 = q + 2 /\ p + 1 - 1 = q + 1
        BY <1>4, <2>4
      <4> QED
        BY <1>1, <2>4, <3>3, <4>1
    <3>5. s[1] \in HexDigits /\ s[2] \in HexDigits
      <4>1. EscapeDigits \subseteq HexDigits
        BY DEF EscapeDigits, HexDigits
      <4>2. s[1] \in EscapeDigits /\ s[2] \in EscapeDigits
        BY <3>1
      <4> QED
        BY <4>1, <4>2
    <3> QED
      BY <1>1, <1>7, <3>4, <3>5 DEF Encoded
  <2>7. Unescape(substr(x, p, 2)) = Invalid
    BY <2>6, UnescapeType
  <2>8. PICK r \in TextsOver(Decoded(N)) : r = g[q + 3]
    <3>1. q + 3 \in 1..(npos(x) + 2)
      BY <1>1, <2>5
    <3> QED
      BY <3>1
  <2>9. g[q] = Cat(Invalid, r)
    BY <1>3, <2>4, <2>5, <2>7, <2>8
  <2> QED
    BY <1>7, <2>9 DEF Marks
<1>8. CASE c \notin R /\ c # "stray"
  <2>1. PICK d : d = IF c = " " THEN "+" ELSE c
    OBVIOUS
  <2>2. Code(c, R) = <<d>>
    BY <1>8, <2>1 DEF Code
  <2>3. Len(Code(c, R)) = 1 /\ Code(c, R)[1] = d
    BY <2>2
  <2>4. q <= l /\ x[q + 1 - 1] = d
    BY <1>1, <2>3 DEF Encoded
  <2>5. q \in 1..l /\ x[q] = d
    BY <1>4, <2>4
  <2>6. d # "%" /\ (d = "+" <=> c = " ")
    BY <1>8, <2>1 DEF Reserves
  <2>7. g[q] = Cat(<<IF d = "+" THEN " " ELSE d>>, g[q + 1])
    BY <1>2, <2>5, <2>6
  <2>8. (IF d = "+" THEN " " ELSE d) = c
    BY <2>1, <2>6
  <2> QED
    BY <1>8, <2>3, <2>7, <2>8
<1> QED
  BY <1>6, <1>7, <1>8

\* The characters of two texts.
LEMMA SetOfCat ==
    ASSUME NEW M, NEW s \in TextsOver(M), NEW t \in TextsOver(M)
    PROVE  ToSet(Cat(s, t)) = ToSet(s) \cup ToSet(t)
<1> USE DEF TextsOver, Cat
<1>1. PICK k \in Nat, l \in Nat : k = Len(s) /\ l = Len(t)
  BY LenProperties
<1>2. PICK v \in Seq(M) : v = s \o t /\ Joined(s, t, v)
  BY CatJoins
<1>3. DOMAIN s = 1..k /\ DOMAIN t = 1..l /\ DOMAIN v = 1..(k + l)
  BY <1>1, <1>2, LenProperties DEF Joined
<1>4. /\ \A i \in 1..k : v[i] = s[i]
      /\ \A i \in 1..l : v[k + i] = t[i]
  BY <1>1, <1>2 DEF Joined
<1>5. ASSUME NEW c \in ToSet(v) PROVE c \in ToSet(s) \cup ToSet(t)
  <2>1. PICK i \in 1..(k + l) : v[i] = c
    BY <1>3, <1>5 DEF ToSet
  <2>2. CASE i <= k
    <3>1. i \in 1..k
      BY <2>2
    <3> QED
      BY <1>3, <1>4, <2>1, <3>1 DEF ToSet
  <2>3. CASE ~(i <= k)
    <3>1. PICK j \in 1..l : i = k + j
      <4>1. i - k \in 1..l /\ i = k + (i - k)
        BY <2>3
      <4> QED
        BY <4>1
    <3> QED
      BY <1>3, <1>4, <2>1, <3>1 DEF ToSet
  <2> QED
    BY <2>2, <2>3
<1>6. ASSUME NEW c \in ToSet(s) PROVE c \in ToSet(v)
  <2>1. PICK i \in 1..k : s[i] = c
    BY <1>3 DEF ToSet
  <2>2. i \in 1..(k + l)
    OBVIOUS
  <2> QED
    BY <1>3, <1>4, <2>1, <2>2 DEF ToSet
<1>7. ASSUME NEW c \in ToSet(t) PROVE c \in ToSet(v)
  <2>1. PICK i \in 1..l : t[i] = c
    BY <1>3 DEF ToSet
  <2>2. k + i \in 1..(k + l)
    OBVIOUS
  <2> QED
    BY <1>3, <1>4, <2>1, <2>2 DEF ToSet
<1> QED
  BY <1>2, <1>5, <1>6, <1>7

\* The characters of texts of one character.
LEMMA SetOfOne ==
    ASSUME NEW c
    PROVE  ToSet(<<c>>) = {c}
<1>1. DOMAIN <<c>> = {1} /\ <<c>>[1] = c
  OBVIOUS
<1>2. PICK s : s = <<c>>
  OBVIOUS
<1> QED
  BY <1>1 DEF ToSet

\* What a character is encoded as begins with itself, "%" or "+".
LEMMA CodeFirst ==
    ASSUME NEW c, NEW R, Reserves(R)
    PROVE  \E m \in Nat \ {0} :
               /\ m = Len(Code(c, R))
               /\ Code(c, R)[1] \in {"%", "+"} \/ (Code(c, R)[1] = c /\ m = 1)
<1>1. CASE c \in R
  <2>1. PICK e \in EscapeDigits, h \in EscapeDigits : Escape[c] = <<e, h>>
    BY <1>1, EscapeFacts DEF Reserves
  <2>2. PICK D : D = EscapeDigits \cup {"%"}
    OBVIOUS
  <2>3. "%" \in D /\ e \in D /\ h \in D
    BY <2>2
  <2>4. PICK s \in Seq(D) : s = <<"%">> /\ Len(s) = 1 /\ s[1] = "%"
    BY <2>3, ShortTexts
  <2>5. PICK t \in Seq(D) : t = <<e, h>> /\ Len(t) = 2
    BY <2>3, ShortTexts
  <2>6. Code(c, R) = s \o t
    BY <1>1, <2>1, <2>4, <2>5 DEF Code
  <2>7. Joined(s, t, s \o t)
    BY CatJoins
  <2>8. PICK m \in Nat \ {0} : m = 3
    OBVIOUS
  <2>9. m = Len(Code(c, R)) /\ Code(c, R)[1] = "%"
    BY <2>4, <2>5, <2>6, <2>7, <2>8 DEF Joined
  <2> QED
    BY <2>9
<1>2. CASE c \notin R
  <2>1. PICK d \in {"%", "+", c} : d = IF c = "stray" THEN "%" ELSE IF c = " " THEN "+" ELSE c
    OBVIOUS
  <2>2. Code(c, R) = <<d>>
    BY <1>2, <2>1 DEF Code
  <2>3. Len(Code(c, R)) = 1 /\ Code(c, R)[1] = d
    BY <2>2
  <2>4. PICK m \in Nat \ {0} : m = 1
    OBVIOUS
  <2> QED
    BY <2>1, <2>3, <2>4
<1> QED
  BY <1>1, <1>2

\* No "%" of t that begins no escape sequence is taken for the beginning of one.
StraysStay(t) ==
    \A i \in 1..(Len(t) - 2) : t[i] = "stray" => ~({t[i + 1], t[i + 2]} \subseteq HexDigits)

\* Behind z, which has j characters and a code of p characters, t goes on with c.
GoesOn(t, x, R, z, c, w, j, p) ==
    /\ t = Cat(z, Cat(<<c>>, w)) /\ x = Encode(t, R)
    /\ j = Len(z) /\ p = Len(Encode(z, R)) /\ x[p + 1] \in HexDigits

\* Where a text goes on with a character, its code goes on with a code, which is a
\* hexadecimal digit only if the character is this one.
LEMMA NextCode ==
    ASSUME NEW M, NEW R, Reserves(R), NEW z \in TextsOver(M), NEW c \in M, NEW w \in TextsOver(M),
           NEW t, NEW x, NEW j \in Nat, NEW p \in Nat, GoesOn(t, x, R, z, c, w, j, p)
    PROVE  /\ t[j + 1] = c /\ c \in HexDigits
           /\ Len(Cat(z, <<c>>)) = j + 1 /\ j + 1 <= Len(t)
           /\ Len(Encode(Cat(z, <<c>>), R)) = p + 1
<1> SUFFICES ASSUME t = Cat(z, Cat(<<c>>, w)), x = Encode(t, R), j = Len(z), p = Len(Encode(z, R)),
                    x[p + 1] \in HexDigits
             PROVE  /\ t[j + 1] = c /\ c \in HexDigits
                    /\ Len(Cat(z, <<c>>)) = j + 1 /\ j + 1 <= Len(t)
                    /\ Len(Encode(Cat(z, <<c>>), R)) = p + 1
  BY DEF GoesOn
<1>1. PICK h \in Nat \ {0} :
          /\ h = Len(Code(c, R))
          /\ Code(c, R)[1] \in {"%", "+"} \/ (Code(c, R)[1] = c /\ h = 1)
  BY CodeFirst
<1>2. Spans(x, Encode(Cat(z, <<c>>), R), p, Code(c, R), h)
  BY <1>1, CodeAt
<1>3. 1 \in 1..h /\ 1 \in 1..1
  OBVIOUS
<1>4. x[p + 1] = Code(c, R)[1] /\ Len(Encode(Cat(z, <<c>>), R)) = p + h
  BY <1>2, <1>3 DEF Spans
<1>5. "%" \notin HexDigits /\ "+" \notin HexDigits
  BY DEF HexDigits
<1>6. c \in HexDigits /\ h = 1
  BY <1>1, <1>4, <1>5
<1>7. PICK f \in TextsOver(M) : f = <<c>> /\ Len(f) = 1 /\ f[1] = c
  BY ShortTexts DEF TextsOver
<1>8. Spans(Cat(z, Cat(f, w)), Cat(z, f), j, f, 1)
  BY <1>7, Between
<1>9. t[j + 1] = c /\ j + 1 <= Len(t) /\ Len(Cat(z, f)) = j + 1
  BY <1>3, <1>7, <1>8 DEF Spans
<1> QED
  BY <1>4, <1>6, <1>7, <1>9

\* Every character is in an encoded text as Encoded has it.
LEMMA EncodedAt ==
    ASSUME NEW M, NEW R, Reserves(R), NEW u \in TextsOver(M), NEW c \in M, NEW w \in TextsOver(M),
           StraysStay(Cat(u, Cat(<<c>>, w))), NEW x, x = Encode(Cat(u, Cat(<<c>>, w)), R),
           NEW k \in Nat, k = Len(Encode(u, R)), NEW m \in Nat, m = Len(Code(c, R))
    PROVE  /\ Encoded(x, k + 1, c, R)
           /\ Len(Encode(Cat(u, <<c>>), R)) = k + m
<1>1. PICK N : N = CodeChars(M, R)
  OBVIOUS
<1>2. PICK y \in TextsOver(M) : y = <<c>>
  BY CharTexts
<1>3. PICK z \in TextsOver(M) : z = Cat(u, y)
  BY CatTexts
<1>4. PICK e \in TextsOver(N) : e = Encode(z, R)
  BY <1>1, EncodeJoins
<1>5. Spans(x, e, k, Code(c, R), m)
  BY <1>2, <1>3, <1>4, CodeAt
<1>6. k + m <= Len(x) /\ Len(e) = k + m /\ \A j \in 1..m : x[k + j] = Code(c, R)[j]
  BY <1>5 DEF Spans
<1>7. PICK v \in TextsOver(M) : v = Cat(y, w)
  BY CatTexts
<1>8. PICK t \in TextsOver(M) : t = Cat(u, v)
  BY CatTexts
<1>9. t = Cat(z, w)
  BY <1>3, <1>7, <1>8, CatTexts
<1>10. x \in TextsOver(N) /\ x = Encode(t, R)
  BY <1>1, <1>2, <1>7, <1>8, EncodeJoins
<1>11. PICK n \in Nat : n = Len(x)
  BY <1>10, LenProperties DEF TextsOver
<1>12. ASSUME c = "stray", ~((k + 1) + 2 > n),
              x[(k + 1) + 1] \in HexDigits, x[(k + 1) + 2] \in HexDigits
       PROVE  FALSE
  <2>1. m = 1
    <3>1. Code(c, R) = <<"%">>
      BY <1>12, EscapeFacts DEF Code, Reserves
    <3> QED
      BY <3>1
  <2>2. PICK p \in Nat : p = k + 1 /\ p = Len(e)
    BY <1>6, <2>1
  <2>3. w # <<>>
    <3>1. ASSUME w = <<>> PROVE FALSE
      <4>1. t = z
        BY <1>9, <3>1, CatTexts
      <4> QED
        BY <1>4, <1>10, <1>11, <1>12, <2>2, <4>1
    <3> QED
      BY <3>1
  <2>4. PICK d \in M, r \in TextsOver(M) : w = Cat(<<d>>, r)
    BY <2>3, FirstAndRest
  <2>5. PICK i \in Nat, j \in Nat : i = Len(u) /\ j = i + 1
    BY LenProperties DEF TextsOver
  <2>6. t[j] = c /\ j = Len(z)
    <3>1. Len(y) = 1 /\ y[1] = c
      BY <1>2
    <3>2. Spans(Cat(u, Cat(y, w)), Cat(u, y), i, y, 1)
      BY <2>5, <3>1, Between
    <3>3. 1 \in 1..1
      OBVIOUS
    <3> QED
      BY <1>3, <1>7, <1>8, <2>5, <3>1, <3>2, <3>3 DEF Spans
  <2>7. t = Cat(z, Cat(<<d>>, r)) /\ x[p + 1] \in HexDigits
    BY <1>9, <1>12, <2>2, <2>4
  <2>8. /\ t[j + 1] = d /\ d \in HexDigits
        /\ Len(Cat(z, <<d>>)) = j + 1
        /\ Len(Encode(Cat(z, <<d>>), R)) = p + 1
    <3>1. GoesOn(t, x, R, z, d, r, j, p)
      BY <1>4, <1>10, <2>2, <2>6, <2>7 DEF GoesOn
    <3> QED
      BY <3>1, NextCode
  <2>9. PICK f \in TextsOver(M) : f = <<d>>
    BY CharTexts
  <2>10. PICK v2 \in TextsOver(M) : v2 = Cat(z, f)
    BY CatTexts
  <2>11. t = Cat(v2, r)
    BY <2>7, <2>9, <2>10, CatTexts
  <2>12. r # <<>>
    <3>1. ASSUME r = <<>> PROVE FALSE
      <4>1. t = v2
        BY <2>10, <2>11, <3>1, CatTexts
      <4>2. n = p + 1
        BY <1>10, <1>11, <2>8, <2>9, <2>10, <4>1
      <4> QED
        BY <1>11, <1>12, <2>2, <4>2
    <3> QED
      BY <3>1
  <2>13. PICK b \in M, s \in TextsOver(M) : r = Cat(<<b>>, s)
    BY <2>12, FirstAndRest
  <2>14. PICK p2 \in Nat, j2 \in Nat : p2 = p + 1 /\ j2 = j + 1
    OBVIOUS
  <2>15. x[p2 + 1] \in HexDigits
    <3>1. p2 + 1 = (k + 1) + 2
      BY <2>2, <2>14
    <3> QED
      BY <1>12, <3>1
  <2>16. t[j2 + 1] = b /\ b \in HexDigits /\ j2 + 1 <= Len(t)
    <3>1. t = Cat(v2, Cat(<<b>>, s))
      BY <2>11, <2>13
    <3>2. p2 = Len(Encode(v2, R)) /\ j2 = Len(v2)
      BY <2>8, <2>9, <2>10, <2>14
    <3>3. GoesOn(t, x, R, v2, b, s, j2, p2)
      BY <1>10, <2>15, <3>1, <3>2 DEF GoesOn
    <3>4. /\ t[j2 + 1] = b /\ b \in HexDigits
          /\ Len(Cat(v2, <<b>>)) = j2 + 1 /\ j2 + 1 <= Len(t)
          /\ Len(Encode(Cat(v2, <<b>>), R)) = p2 + 1
      BY <3>3, NextCode
    <3> QED
      BY <3>4
  <2>17. j \in 1..(Len(t) - 2) /\ j2 + 1 = j + 2
    <3>1. Len(t) \in Nat
      BY LenProperties DEF TextsOver
    <3> QED
      BY <2>5, <2>14, <2>16, <3>1
  <2>18. StraysStay(t)
    BY <1>2, <1>7, <1>8
  <2>19. t[j + 1] \in HexDigits /\ t[j + 2] \in HexDigits
    BY <2>8, <2>16, <2>17
  <2>20. ~({t[j + 1], t[j + 2]} \subseteq HexDigits)
    BY <1>12, <2>6, <2>17, <2>18 DEF StraysStay
  <2> QED
    BY <2>19, <2>20
<1>13. \A j \in 1..m : x[(k + 1) + j - 1] = Code(c, R)[j]
  <2>1. \A j \in 1..m : (k + 1) + j - 1 = k + j
    OBVIOUS
  <2> QED
    BY <1>6, <2>1
<1>14. Encoded(x, k + 1, c, R)
  BY <1>6, <1>11, <1>12, <1>13 DEF Encoded
<1> QED
  BY <1>2, <1>3, <1>4, <1>6, <1>14

\* r is v, or has a mark for a stray "%" of v.
ReadAs(r, v) == IF "stray" \in ToSet(v) THEN "invalid" \in ToSet(r) ELSE r = v

\* From the place on that any part of the text begins at, this part is read.
LEMMA DecodeRead ==
    ASSUME NEW M, NEW R, Reserves(R), NEW t \in TextsOver(M), StraysStay(t),
           NEW N, N = CodeChars(M, R),
           NEW x \in TextsOver(N), x = Encode(t, R), NEW g, Decodes(g, x),
           \A p \in 1..(npos(x) + 2) : g[p] \in TextsOver(Decoded(N))
    PROVE  ReadAs(g[1], t)
<1> DEFINE Bad(v) == \E u \in TextsOver(M) :
                         Cat(u, v) = t /\ ~ReadAs(g[Len(Encode(u, R)) + 1], v)
           T == {n \in Nat : \E v \in TextsOver(M) : Len(v) = n /\ Bad(v)}
<1>1. PICK n \in Nat : n = Len(x)
  BY LenProperties DEF TextsOver
<1>2. ASSUME NEW l \in T, \A m \in T : l <= m PROVE FALSE
  <2>1. PICK v \in TextsOver(M), u \in TextsOver(M) :
            Len(v) = l /\ Cat(u, v) = t /\ ~ReadAs(g[Len(Encode(u, R)) + 1], v)
    OBVIOUS
  <2>2. PICK a \in TextsOver(N) : a = Encode(u, R)
    BY EncodeJoins
  <2>3. PICK k \in Nat : k = Len(a)
    BY <2>2, LenProperties DEF TextsOver
  <2>4. CASE v = <<>>
    <3>1. u = t
      BY <2>1, <2>4, CatTexts
    <3>2. k + 1 >= npos(x) /\ k + 1 \in 1..(npos(x) + 2)
      BY <1>1, <2>2, <2>3, <3>1 DEF npos
    <3>3. g[k + 1] = <<>>
      BY <3>2 DEF Decodes
    <3>4. ToSet(v) = {}
      BY <2>4 DEF ToSet
    <3> QED
      BY <2>1, <2>2, <2>3, <2>4, <3>3, <3>4 DEF ReadAs
  <2>5. CASE v # <<>>
    <3>1. PICK c \in M, w \in TextsOver(M) : v = Cat(<<c>>, w) /\ Len(w) + 1 = l
      <4> HIDE DEF T
      <4>1. PICK c \in M, w \in TextsOver(M) : v = Cat(<<c>>, w)
        BY <2>5, FirstAndRest
      <4>2. Len(v) = 1 + Len(w) /\ Len(w) \in Nat
        BY <4>1, ConcatProperties, LenProperties DEF TextsOver, Cat
      <4> QED
        BY <2>1, <4>1, <4>2
    <3>2. PICK y \in TextsOver(M) : y = <<c>>
      BY CharTexts
    <3>3. PICK z \in TextsOver(M) : z = Cat(u, y)
      BY CatTexts
    <3>4. Cat(z, w) = t
      BY <2>1, <3>1, <3>2, <3>3, CatTexts
    <3>5. Len(w) \in Nat /\ Len(w) \notin T
      <4>1. Len(w) \in Nat
        BY LenProperties DEF TextsOver
      <4> HIDE DEF T
      <4> QED
        BY <1>2, <3>1, <4>1
    <3>6. ReadAs(g[Len(Encode(z, R)) + 1], w)
      BY <3>4, <3>5
    <3>7. PICK m \in Nat \ {0} : m = Len(Code(c, R))
      BY CodeFirst
    <3>8. PICK q \in Nat : q = k + 1
      OBVIOUS
    <3>9. Encoded(x, q, c, R) /\ Len(Encode(z, R)) = k + m
      <4>1. Cat(u, Cat(<<c>>, w)) = t
        BY <2>1, <3>1
      <4> QED
        BY <2>2, <2>3, <3>2, <3>3, <3>7, <3>8, <4>1, EncodedAt
    <3>10. q + m = Len(Encode(z, R)) + 1
      BY <3>8, <3>9
    <3>11. PICK r \in TextsOver(Decoded(N)) : r = g[q + m]
      <4>1. q + m \in 1..(npos(x) + 2)
        BY <1>1, <3>7, <3>8, <3>9 DEF Encoded, npos
      <4> QED
        BY <4>1
    <3>12. ReadAs(r, w)
      BY <3>6, <3>10, <3>11
    <3>13. ToSet(v) = {c} \cup ToSet(w)
      BY <3>1, <3>2, SetOfCat, SetOfOne
    <3>14. CASE c = "stray"
      <4>0. Marks(g[q], N)
        BY <3>9, <3>14, DecodeOne
      <4>1. PICK s \in TextsOver(Decoded(N)) : g[q] = Cat(Invalid, s)
        BY <4>0 DEF Marks
      <4>2. Invalid \in TextsOver(Decoded(N))
        BY CharTexts DEF Decoded, Invalid
      <4>3. "invalid" \in ToSet(g[q])
        BY <4>1, <4>2, SetOfCat, SetOfOne DEF Invalid
      <4> QED
        BY <2>1, <2>2, <2>3, <3>8, <3>13, <3>14, <4>3 DEF ReadAs
    <3>15. CASE c # "stray"
      <4>1. g[q] = Cat(<<c>>, r)
        BY <3>7, <3>9, <3>11, <3>15, DecodeOne
      <4>2. PICK K : K = M \cup Decoded(N)
        OBVIOUS
      <4>3. PICK f \in TextsOver(K) : f = <<c>>
        BY <4>2, CharTexts
      <4>4. r \in TextsOver(K)
        BY <4>2, SeqMonotonic DEF TextsOver
      <4>5. ToSet(g[q]) = {c} \cup ToSet(r)
        BY <4>1, <4>3, <4>4, SetOfCat, SetOfOne
      <4>6. ReadAs(g[q], v)
        BY <3>1, <3>12, <3>13, <3>15, <4>1, <4>5 DEF ReadAs
      <4> QED
        BY <2>1, <2>2, <2>3, <3>8, <4>6
    <3> QED
      BY <3>14, <3>15
  <2> QED
    BY <2>4, <2>5
<1>3. T = {}
  <2>1. T \in SUBSET Nat
    OBVIOUS
  <2> HIDE DEF T
  <2> QED
    BY <1>2, <2>1, Least
<1>4. PICK e \in TextsOver(M) : e = <<>> /\ Cat(e, t) = t
  BY CatTexts
<1>5. Encode(e, R) = <<>>
  BY <1>4, EncodeJoins
<1>6. Len(Encode(e, R)) + 1 = 1
  BY <1>5
<1>7. PICK l \in Nat : l = Len(t)
  BY LenProperties DEF TextsOver
<1>8. ~Bad(t)
  BY <1>3, <1>7
<1> QED
  BY <1>4, <1>6, <1>8

\* decode_hex_byte gives back what was encoded, or finds a stray "%" in it.
LEMMA DecodeBack ==
    ASSUME NEW M, NEW R, Reserves(R), NEW t \in TextsOver(M), StraysStay(t)
    PROVE  ReadAs(decode_hex_byte(Encode(t, R)), t)
<1>1. PICK N : N = CodeChars(M, R)
  OBVIOUS
<1>2. PICK x \in TextsOver(N) : x = Encode(t, R)
  BY <1>1, EncodeJoins
<1>3. PICK g : /\ Decodes(g, x) /\ decode_hex_byte(x) = g[1]
               /\ \A p \in 1..(npos(x) + 2) : g[p] \in TextsOver(Decoded(N))
  BY DecodesChosen
<1> QED
  BY <1>1, <1>2, <1>3, DecodeRead
-----------------------------------------------------------------------------
(***************************************************************************)
(* The places that parse_URL looks for.                                    *)
(***************************************************************************)
\* The places that parse_URL looks for, and what it cuts out between them.
ProtoAt(url)   == FindAny(url, <<":", "/", "/">>, 1)
ProtoEnd(url)  == IF ProtoAt(url) = npos(url) THEN 1 ELSE ProtoAt(url) + 3
At(url)        == FindAny(url, <<"@">>, ProtoEnd(url))
LoginEnd(url)  == FindAny(url, <<":">>, ProtoEnd(url))
HostStart(url) == IF At(url) # npos(url) THEN At(url) + 1 ELSE ProtoEnd(url)
Slash(url)     == FindAny(url, <<"/">>, HostStart(url))
Colon(url)     == FindAny(url, <<":">>, HostStart(url))

PartsOf(url) ==
    [protocol |-> IF ProtoAt(url) = npos(url) THEN Defaults.protocol
                  ELSE SubSeq(url, 1, ProtoAt(url) - 1),
     login    |-> IF At(url) # npos(url)
                  THEN decode_hex_byte(SubSeq(url, ProtoEnd(url), LoginEnd(url) - 1))
                  ELSE Defaults.login,
     password |-> IF At(url) # npos(url)
                  THEN decode_hex_byte(SubSeq(url, LoginEnd(url) + 1, At(url) - 1))
                  ELSE Defaults.password,
     host     |-> SubSeq(url, HostStart(url),
                         (IF Colon(url) < Slash(url) THEN Colon(url) ELSE Slash(url)) - 1),
     port     |-> IF Colon(url) < Slash(url)
                  THEN SubSeq(url, Colon(url) + 1, Slash(url) - 1) ELSE Defaults.port,
     path     |-> IF Slash(url) = npos(url) THEN Defaults.path
                  ELSE decode_hex_byte(Rest(url, Slash(url) + 1))]

Refuses(url) ==
    \/ At(url) # npos(url) /\ (LoginEnd(url) = ProtoEnd(url) \/ LoginEnd(url) > At(url))
    \/ \E k \in {"login", "password", "path"} : Invalid[1] \in ToSet(PartsOf(url)[k])
    \/ Colon(url) < Slash(url) /\ ~ValidPort(PartsOf(url).port)
    \/ PartsOf(url).host = <<>>

\* parse_URL refuses the URL or returns these parts.
LEMMA ParseUnfold ==
    ASSUME NEW url
    PROVE  parse_URL(url) = [k \in DOMAIN Defaults |->
                                IF Refuses(url) THEN Invalid ELSE PartsOf(url)[k]]
<1>1. parse_URL(url) = IF Refuses(url) THEN [k \in DOMAIN Defaults |-> Invalid] ELSE PartsOf(url)
  BY Zenon DEF parse_URL, Refuses, PartsOf, Colon, Slash, HostStart, LoginEnd, At, ProtoEnd, ProtoAt
<1>2. DOMAIN Defaults = {"protocol", "login", "password", "host", "port", "path"}
  BY DEF Defaults
<1>3. \E a, b, c, d, e, f :
          PartsOf(url) = [protocol |-> a, login |-> b, password |-> c, host |-> d, port |-> e, path |-> f]
  BY Zenon DEF PartsOf
<1>4. PartsOf(url) = [k \in DOMAIN Defaults |-> PartsOf(url)[k]]
  BY <1>2, <1>3
<1> QED
  BY <1>1, <1>4
-----------------------------------------------------------------------------
(***************************************************************************)
(* The number of a port.                                                   *)
(***************************************************************************)
\* A digit stands for a number.
LEMMA DigitFacts ==
    \A c \in DOMAIN Digits : Digits[c] \in 0..9
<1>1. DOMAIN Numerals = 1..10
  BY DEF Numerals
<1>2. ASSUME NEW c \in ToSet(Numerals) PROVE Digits[c] \in 0..9
  <2>1. \E i \in 1..10 : Numerals[i] = c
    BY <1>1 DEF ToSet
  <2>2. PICK k \in 1..10 : k = CHOOSE i \in 1..10 : Numerals[i] = c
    BY <2>1
  <2>3. Digits[c] = k - 1
    BY <2>2, Zenon DEF Digits
  <2> QED
    BY <2>3
<1> QED
  BY <1>2 DEF Digits

\* The equation of the recursive function in ValidPort.
Counts(f, t) ==
    f = [i \in 0..Len(t) |-> IF i = 0 THEN 0 ELSE 10 * f[i - 1] + Digits[t[i]]]

\* Five digits, the n first of which are those of t.
FiveDigits(d, t, n) ==
    d \in [1..5 -> Nat] /\ n = Len(t) /\ \A i \in 1..n : d[i] = Digits[t[i]]

\* What the first i of five digits count.
Prefix(d) ==
    LET a == d[1]
        b == 10 * a + d[2]
        c == 10 * b + d[3]
        e == 10 * c + d[4]
    IN  [i \in 0..5 |-> IF i = 0 THEN 0 ELSE IF i = 1 THEN a ELSE IF i = 2 THEN b
                        ELSE IF i = 3 THEN c ELSE IF i = 4 THEN e ELSE 10 * e + d[5]]

\* That is one digit more each time.
LEMMA PrefixNext ==
    ASSUME NEW d \in [1..5 -> Nat]
    PROVE  Prefix(d)[0] = 0 /\ \A i \in 1..5 : Prefix(d)[i] = 10 * Prefix(d)[i - 1] + d[i]
<1>1. PICK a \in Nat, b \in Nat, c \in Nat, u \in Nat, v \in Nat :
          a = d[1] /\ b = 10 * a + d[2] /\ c = 10 * b + d[3] /\ u = 10 * c + d[4] /\ v = 10 * u + d[5]
  <2>1. \A i \in 1..5 : d[i] \in Nat
    OBVIOUS
  <2>2. PICK a \in Nat : a = d[1]
    BY <2>1
  <2>3. PICK b \in Nat : b = 10 * a + d[2]
    BY <2>1
  <2>4. PICK c \in Nat : c = 10 * b + d[3]
    BY <2>1
  <2>5. PICK u \in Nat : u = 10 * c + d[4]
    BY <2>1
  <2>6. PICK v \in Nat : v = 10 * u + d[5]
    BY <2>1
  <2> QED
    BY <2>2, <2>3, <2>4, <2>5, <2>6
<1>2. PICK g : g = [i \in 0..5 |-> IF i = 0 THEN 0 ELSE IF i = 1 THEN a ELSE IF i = 2 THEN b
                        ELSE IF i = 3 THEN c ELSE IF i = 4 THEN u ELSE v]
  OBVIOUS
<1>3. Prefix(d) = g
  BY <1>1, <1>2 DEF Prefix
<1>4. g[0] = 0 /\ g[1] = a /\ g[2] = b /\ g[3] = c /\ g[4] = u /\ g[5] = v
  BY <1>2
<1>5. ASSUME NEW i \in 1..5 PROVE g[i] = 10 * g[i - 1] + d[i]
  <2>1. i = 1 \/ i = 2 \/ i = 3 \/ i = 4 \/ i = 5
    OBVIOUS
  <2>2. g[1] = 10 * g[0] + d[1]
    BY <1>1, <1>4
  <2> QED
    BY <1>1, <1>4, <2>1, <2>2
<1> QED
  BY <1>3, <1>4, <1>5

\* The recursive function gives it for every text of five digits at most.
LEMMA CountsPrefix ==
    ASSUME NEW t, NEW n \in 0..5, NEW d, FiveDigits(d, t, n)
    PROVE  \E f : f = (CHOOSE h : Counts(h, t)) /\ f[n] = Prefix(d)[n]
<1>1. d \in [1..5 -> Nat] /\ n = Len(t) /\ \A i \in 1..n : d[i] = Digits[t[i]]
  BY DEF FiveDigits
<1>2. PICK g : g = Prefix(d)
  OBVIOUS
<1>3. g[0] = 0 /\ \A i \in 1..5 : g[i] = 10 * g[i - 1] + d[i]
  BY <1>1, <1>2, PrefixNext
<1>4. PICK h : h = [i \in 0..n |-> g[i]]
  OBVIOUS
<1>5. ASSUME NEW i \in 0..n PROVE h[i] = IF i = 0 THEN 0 ELSE 10 * h[i - 1] + Digits[t[i]]
  <2>1. CASE i = 0
    BY <1>3, <1>4, <2>1
  <2>2. CASE i # 0
    <3>1. i \in 1..n /\ i \in 1..5 /\ i - 1 \in 0..n
      BY <2>2
    <3>2. h[i] = g[i] /\ h[i - 1] = g[i - 1]
      BY <1>4, <3>1
    <3>3. g[i] = 10 * g[i - 1] + d[i]
      BY <1>3, <3>1
    <3>4. d[i] = Digits[t[i]]
      BY <1>1, <3>1
    <3> QED
      BY <2>2, <3>2, <3>3, <3>4
  <2> QED
    BY <2>1, <2>2
<1>6. h = [i \in 0..n |-> IF i = 0 THEN 0 ELSE 10 * h[i - 1] + Digits[t[i]]]
  BY <1>4, <1>5
<1>7. Counts(h, t)
  BY <1>1, <1>6 DEF Counts
<1>8. PICK f : f = CHOOSE e : Counts(e, t)
  OBVIOUS
<1>9. Counts(f, t)
  BY <1>7, <1>8
<1>10. ASSUME NEW i \in 0..n PROVE f[i] = IF i = 0 THEN 0 ELSE 10 * f[i - 1] + Digits[t[i]]
  BY <1>1, <1>9 DEF Counts
<1>11. ASSUME NEW i \in 1..n PROVE f[i] = 10 * f[i - 1] + d[i] /\ g[i] = 10 * g[i - 1] + d[i]
  <2>1. i \in 0..n /\ i # 0 /\ i \in 1..5
    OBVIOUS
  <2>2. f[i] = 10 * f[i - 1] + Digits[t[i]]
    BY <1>10, <2>1
  <2>3. d[i] = Digits[t[i]]
    BY <1>1
  <2> QED
    BY <1>3, <2>1, <2>2, <2>3
<1>12. ASSUME NEW i \in 1..n, f[i - 1] = g[i - 1] PROVE f[i] = g[i]
  BY <1>11, <1>12
<1>13. f[0] = g[0]
  BY <1>3, <1>10
<1>14. f[n] = g[n]
  <2>1. 1 <= n => f[1] = g[1]
    BY <1>12, <1>13
  <2>2. 2 <= n => f[2] = g[2]
    BY <1>12, <2>1
  <2>3. 3 <= n => f[3] = g[3]
    BY <1>12, <2>2
  <2>4. 4 <= n => f[4] = g[4]
    BY <1>12, <2>3
  <2>5. 5 <= n => f[5] = g[5]
    BY <1>12, <2>4
  <2>6. n = 0 \/ n = 1 \/ n = 2 \/ n = 3 \/ n = 4 \/ n = 5
    OBVIOUS
  <2> QED
    BY <1>13, <2>1, <2>2, <2>3, <2>4, <2>5, <2>6
<1> QED
  BY <1>2, <1>8, <1>14

\* A text of up to five digits has such digits.
LEMMA FiveDigitsExist ==
    ASSUME NEW S, NEW t \in Seq(S), ~(Len(t) > 5), \A i \in DOMAIN t : t[i] \in DOMAIN Digits
    PROVE  \E n \in 0..5 : \E d : n = Len(t) /\ FiveDigits(d, t, n)
<1>1. PICK n \in 0..5 : n = Len(t)
  <2>1. Len(t) \in Nat
    BY LenProperties
  <2>2. PICK n \in Nat : n = Len(t)
    BY <2>1
  <2>3. ~(n > 5)
    BY <2>2
  <2>4. n \in 0..5
    BY <2>3
  <2> QED
    BY <2>2, <2>4
<1>2. DOMAIN t = 1..n
  BY <1>1, LenProperties
<1>3. PICK d : d = [i \in 1..5 |-> IF i <= n THEN Digits[t[i]] ELSE 0]
  OBVIOUS
<1>4. \A i \in 1..n : i \in 1..5 /\ Digits[t[i]] \in Nat
  <2>1. ASSUME NEW i \in 1..n PROVE Digits[t[i]] \in Nat
    <3>1. Digits[t[i]] \in 0..9
      BY <1>2, DigitFacts
    <3> QED
      BY <3>1
  <2> QED
    BY <2>1
<1>5. ASSUME NEW i \in 1..5 PROVE d[i] \in Nat
  <2>1. CASE i <= n
    BY <1>3, <1>4, <2>1
  <2>2. CASE ~(i <= n)
    BY <1>3, <2>2
  <2> QED
    BY <2>1, <2>2
<1>6. d \in [1..5 -> Nat]
  BY <1>3, <1>5
<1>7. \A i \in 1..n : d[i] = Digits[t[i]]
  BY <1>3, <1>4
<1>8. FiveDigits(d, t, n)
  BY <1>1, <1>6, <1>7 DEF FiveDigits
<1> QED
  BY <1>1, <1>8

\* The prefix of n digits is the number that the places give.
LEMMA NumberPrefix ==
    ASSUME NEW t, NEW n \in 0..5, NEW d, FiveDigits(d, t, n)
    PROVE  Number(t) = Prefix(d)[n]
<1>1. d \in [1..5 -> Nat] /\ n = Len(t) /\ \A i \in 1..n : d[i] = Digits[t[i]]
  BY DEF FiveDigits
<1>2. PICK p : p = [i \in 0..4 |-> IF i < n THEN d[n - i] ELSE 0]
  OBVIOUS
<1>3. ASSUME NEW i \in 0..4 PROVE p[i] = IF i < Len(t) THEN Digits[t[Len(t) - i]] ELSE 0
  <2>1. i < n => n - i \in 1..n
    OBVIOUS
  <2>2. i < n => d[n - i] = Digits[t[n - i]]
    BY <1>1, <2>1
  <2> QED
    BY <1>1, <1>2, <2>2
<1>4. Number(t) = p[0] + 10 * (p[1] + 10 * (p[2] + 10 * (p[3] + 10 * p[4])))
  <2>1. 0 \in 0..4 /\ 1 \in 0..4 /\ 2 \in 0..4 /\ 3 \in 0..4 /\ 4 \in 0..4
    OBVIOUS
  <2> QED
    BY <1>3, <2>1, Zenon DEF Number
<1>5. PICK a \in Nat, b \in Nat, c \in Nat, u \in Nat, v \in Nat :
          a = d[1] /\ b = d[2] /\ c = d[3] /\ u = d[4] /\ v = d[5]
  BY <1>1
<1>6. PICK g : g = Prefix(d)
  OBVIOUS
<1>7. g[0] = 0 /\ \A i \in 1..5 : g[i] = 10 * g[i - 1] + d[i]
  BY <1>1, <1>6, PrefixNext
<1>8. /\ g[1] = a /\ g[2] = 10 * a + b /\ g[3] = 10 * (10 * a + b) + c
      /\ g[4] = 10 * (10 * (10 * a + b) + c) + u
      /\ g[5] = 10 * (10 * (10 * (10 * a + b) + c) + u) + v
  <2>1. g[1] = a
    BY <1>5, <1>7
  <2>2. g[2] = 10 * a + b
    BY <1>5, <1>7, <2>1
  <2>3. g[3] = 10 * (10 * a + b) + c
    BY <1>5, <1>7, <2>2
  <2>4. g[4] = 10 * (10 * (10 * a + b) + c) + u
    BY <1>5, <1>7, <2>3
  <2>5. g[5] = 10 * (10 * (10 * (10 * a + b) + c) + u) + v
    BY <1>5, <1>7, <2>4
  <2> QED
    BY <2>1, <2>2, <2>3, <2>4, <2>5
<1>9. p[0] + 10 * (p[1] + 10 * (p[2] + 10 * (p[3] + 10 * p[4]))) = g[n]
  <2>1. CASE n = 0
    BY <1>2, <1>7, <2>1
  <2>2. CASE n = 1
    BY <1>2, <1>5, <1>8, <2>2
  <2>3. CASE n = 2
    BY <1>2, <1>5, <1>8, <2>3
  <2>4. CASE n = 3
    BY <1>2, <1>5, <1>8, <2>4
  <2>5. CASE n = 4
    BY <1>2, <1>5, <1>8, <2>5
  <2>6. CASE n = 5
    BY <1>2, <1>5, <1>8, <2>6
  <2>7. n = 0 \/ n = 1 \/ n = 2 \/ n = 3 \/ n = 4 \/ n = 5
    OBVIOUS
  <2> QED
    BY <2>1, <2>2, <2>3, <2>4, <2>5, <2>6, <2>7
<1> QED
  BY <1>4, <1>6, <1>9

\* The code takes a port for valid if it is a number of five digits at most and in range.
LEMMA PortValid ==
    ASSUME NEW S, NEW t \in Seq(S)
    PROVE  ValidPort(t) <=> /\ ~(Len(t) > 5)
                            /\ \A i \in DOMAIN t : t[i] \in DOMAIN Digits
                            /\ Number(t) \in PortRange
<1>1. Len(t) \in Nat
  BY LenProperties
<1>2. CASE ~(Len(t) > 5) /\ \A i \in DOMAIN t : t[i] \in DOMAIN Digits
  <2>1. PICK n \in 0..5 : \E d : n = Len(t) /\ FiveDigits(d, t, n)
    BY <1>2, FiveDigitsExist
  <2>7. PICK d : n = Len(t) /\ FiveDigits(d, t, n)
    BY <2>1
  <2>2. PICK f : f = (CHOOSE h : Counts(h, t)) /\ f[n] = Prefix(d)[n]
    BY <2>7, CountsPrefix
  <2>3. Len(t) <= 5
    BY <1>1, <1>2
  <2>4. ValidPort(t) <=> f[n] \in PortRange
    BY <1>2, <2>7, <2>2, <2>3, Zenon DEF ValidPort, Counts
  <2>5. f[n] = Number(t)
    BY <2>7, <2>2, NumberPrefix
  <2> QED
    BY <1>2, <2>4, <2>5
<1>3. CASE Len(t) > 5
  BY <1>1, <1>3 DEF ValidPort
<1>4. CASE ~ \A i \in DOMAIN t : t[i] \in DOMAIN Digits
  BY <1>4, Zenon DEF ValidPort
<1> QED
  BY <1>2, <1>3, <1>4, Zenon
-----------------------------------------------------------------------------
(***************************************************************************)
(* The places of the parts in a text made of parts.                        *)
(***************************************************************************)
\* What is made of two texts has the second one behind the first one.
LEMMA PatternParts ==
    ASSUME NEW K, NEW s \in TextsOver(K), NEW t \in TextsOver(K), NEW x, Len(x) \in Nat,
           NEW p \in Nat \ {0}, PatternAt(x, Cat(s, t), p)
    PROVE  PatternAt(x, s, p) /\ PatternAt(x, t, p + Len(s)) /\ Len(s) \in Nat /\ Len(t) \in Nat
<1>1. PICK v \in Seq(K) : v = s \o t /\ Joined(s, t, v)
  BY CatJoins DEF TextsOver
<1>2. PICK k \in Nat, l \in Nat : k = Len(s) /\ l = Len(t)
  BY LenProperties DEF TextsOver
<1>3. /\ Len(v) = k + l /\ \A j \in 1..k : v[j] = s[j]
      /\ \A j \in 1..l : v[k + j] = t[j]
  BY <1>1, <1>2 DEF Joined
<1>4. p + (k + l) - 1 <= Len(x) /\ \A j \in 1..(k + l) : x[p + j - 1] = v[j]
  BY <1>1, <1>3 DEF PatternAt, Cat
<1>5. PatternAt(x, s, p)
  <2>1. \A j \in 1..k : j \in 1..(k + l)
    OBVIOUS
  <2>2. p + k - 1 <= Len(x)
    BY <1>4
  <2> QED
    BY <1>2, <1>3, <1>4, <2>1, <2>2 DEF PatternAt
<1>6. PatternAt(x, t, p + k)
  <2>1. ASSUME NEW j \in 1..l PROVE x[p + k + j - 1] = t[j]
    <3>1. k + j \in 1..(k + l) /\ p + (k + j) - 1 = p + k + j - 1
      OBVIOUS
    <3>2. x[p + (k + j) - 1] = v[k + j]
      BY <1>4, <3>1
    <3> QED
      BY <1>3, <3>1, <3>2
  <2>2. p + k + l - 1 <= Len(x)
    BY <1>4
  <2> QED
    BY <1>2, <2>1, <2>2 DEF PatternAt
<1> QED
  BY <1>2, <1>5, <1>6

\* It is what is cut out there.
LEMMA PatternIs ==
    ASSUME NEW K, NEW x \in TextsOver(K), NEW s \in TextsOver(K), NEW p \in Nat \ {0},
           PatternAt(x, s, p), NEW q \in Nat \ {0}, q = p + Len(s)
    PROVE  SubSeq(x, p, q - 1) = s
<1> USE DEF TextsOver
<1>1. PICK n \in Nat, k \in Nat : n = Len(x) /\ k = Len(s)
  BY LenProperties
<1>2. p + k - 1 <= n /\ \A j \in 1..k : x[p + j - 1] = s[j]
  BY <1>1 DEF PatternAt
<1>3. PICK m \in Nat : m = p + k - 1 /\ m = q - 1
  <2>1. p + k - 1 \in Nat /\ p + k - 1 = q - 1
    BY <1>1
  <2> QED
    BY <2>1
<1>4. \A j \in p..m : x[j] \in K
  BY <1>1, <1>2, <1>3, ElementOfSeq
<1>5. PICK v : v = SubSeq(x, p, m)
  OBVIOUS
<1>6. /\ v \in Seq(K) /\ Len(v) = IF p <= m THEN m - p + 1 ELSE 0
      /\ \A j \in 1..(m - p + 1) : v[j] = x[p + j - 1]
  BY <1>4, <1>5, SubSeqProperties
<1>7. Len(v) = k /\ \A j \in 1..k : v[j] = s[j]
  <2>1. m - p + 1 = k /\ (p <= m \/ k = 0)
    BY <1>3
  <2>2. Len(v) = k
    BY <1>6, <2>1
  <2> QED
    BY <1>2, <1>6, <2>1, <2>2
<1>8. v = s
  BY <1>1, <1>6, <1>7, SeqEqual
<1> QED
  BY <1>3, <1>5, <1>8

\* A character that a text has not is not where this is.
Free(x, c, p, q) == \A j \in p..(q - 1) : x[j] # c

\* A place with a pattern that has not the character is free of it.
LEMMA PatternFree ==
    ASSUME NEW K, NEW s \in TextsOver(K), NEW x, NEW p \in Nat \ {0}, PatternAt(x, s, p),
           NEW k \in Nat, k = Len(s), NEW c, c \notin ToSet(s)
    PROVE  Free(x, c, p, p + k)
<1>1. \A j \in 1..k : x[p + j - 1] = s[j] /\ s[j] # c
  <2>1. DOMAIN s = 1..k
    BY LenProperties DEF TextsOver
  <2> QED
    BY <2>1 DEF PatternAt, ToSet
<1>2. ASSUME NEW j \in p..(p + k - 1) PROVE x[j] # c
  <2>1. PICK i \in 1..k : i = j - p + 1
    OBVIOUS
  <2>2. p + i - 1 = j
    BY <2>1
  <2> QED
    BY <1>1, <2>2
<1> QED
  BY <1>2 DEF Free

\* The five parts of a URL are at places that follow from their lengths.
Placed(x, f, l, h, q, a, b, c, d, e) ==
    /\ PatternAt(x, f, 1) /\ b = 1 + Len(f) /\ b \in Nat \ {0}
    /\ PatternAt(x, l, b) /\ c = b + Len(l) /\ c \in Nat \ {0} /\ b <= c
    /\ PatternAt(x, h, c) /\ d = c + Len(h) /\ d \in Nat \ {0} /\ c <= d
    /\ PatternAt(x, q, d) /\ e = d + Len(q) /\ e \in Nat \ {0} /\ d <= e
    /\ PatternAt(x, a, e) /\ e + Len(a) = Len(x) + 1 /\ e <= Len(x) + 1

\* Five texts, one behind the other, are each at their place.
LEMMA PartsPlaced ==
    ASSUME NEW K, NEW f \in TextsOver(K), NEW l \in TextsOver(K), NEW h \in TextsOver(K),
           NEW q \in TextsOver(K), NEW a \in TextsOver(K), NEW x,
           x = Cat(Cat(Cat(Cat(f, l), h), q), a)
    PROVE  \E b, c, d, e : Placed(x, f, l, h, q, a, b, c, d, e) /\ x \in TextsOver(K)
<1>1. PICK fl \in TextsOver(K) : fl = Cat(f, l)
  BY CatTexts
<1>2. PICK flh \in TextsOver(K) : flh = Cat(fl, h)
  BY CatTexts
<1>3. PICK flhq \in TextsOver(K) : flhq = Cat(flh, q)
  BY CatTexts
<1>4. x = Cat(flhq, a) /\ x \in TextsOver(K)
  BY <1>1, <1>2, <1>3, CatTexts
<1>5. PICK n \in Nat : n = Len(x)
  BY <1>4, LenProperties DEF TextsOver
<1>6. /\ Len(f) \in Nat /\ Len(l) \in Nat /\ Len(h) \in Nat /\ Len(q) \in Nat /\ Len(a) \in Nat
  BY LenProperties DEF TextsOver
<1>7. \A s, t \in TextsOver(K) : Len(Cat(s, t)) = Len(s) + Len(t)
  BY ConcatProperties DEF TextsOver, Cat
<1>8. PatternAt(x, x, 1)
  BY <1>5 DEF PatternAt
<1>9. PatternAt(x, flhq, 1) /\ PatternAt(x, a, 1 + Len(flhq))
  BY <1>4, <1>5, <1>8, PatternParts
<1>10. PatternAt(x, flh, 1) /\ PatternAt(x, q, 1 + Len(flh))
  BY <1>3, <1>5, <1>9, PatternParts
<1>11. PatternAt(x, fl, 1) /\ PatternAt(x, h, 1 + Len(fl))
  BY <1>2, <1>5, <1>10, PatternParts
<1>12. PatternAt(x, f, 1) /\ PatternAt(x, l, 1 + Len(f))
  BY <1>1, <1>5, <1>11, PatternParts
<1>13. /\ Len(fl) = Len(f) + Len(l) /\ Len(flh) = Len(fl) + Len(h)
       /\ Len(flhq) = Len(flh) + Len(q) /\ n = Len(flhq) + Len(a)
  BY <1>1, <1>2, <1>3, <1>4, <1>5, <1>7
<1>14. PICK b \in Nat \ {0}, c \in Nat \ {0}, d \in Nat \ {0}, e \in Nat \ {0} :
           b = 1 + Len(f) /\ c = b + Len(l) /\ d = c + Len(h) /\ e = d + Len(q)
  <2>1. PICK b \in Nat \ {0} : b = 1 + Len(f)
    BY <1>6
  <2>2. PICK c \in Nat \ {0} : c = b + Len(l)
    BY <1>6
  <2>3. PICK d \in Nat \ {0} : d = c + Len(h)
    BY <1>6
  <2>4. PICK e \in Nat \ {0} : e = d + Len(q)
    BY <1>6
  <2> QED
    BY <2>1, <2>2, <2>3, <2>4
<1>15. c = 1 + Len(fl) /\ d = 1 + Len(flh) /\ e = 1 + Len(flhq) /\ e + Len(a) = n + 1
  BY <1>6, <1>13, <1>14
<1>16. b <= c /\ c <= d /\ d <= e /\ e <= n + 1
  BY <1>6, <1>14, <1>15
<1>17. Placed(x, f, l, h, q, a, b, c, d, e)
  BY <1>5, <1>9, <1>10, <1>11, <1>12, <1>14, <1>15, <1>16 DEF Placed
<1> QED
  BY <1>4, <1>17

\* A character is found where it is, if the places before it are free of it.
LEMMA FindFree ==
    ASSUME NEW K, NEW x \in TextsOver(K), NEW c, NEW p \in Nat \ {0}, NEW i \in Nat \ {0}, p <= i,
           i <= Len(x) + 1, Free(x, c, p, i), i = Len(x) + 1 \/ PatternAt(x, <<c>>, i)
    PROVE  FindAny(x, <<c>>, p) = i
<1>1. PICK n \in Nat : n = Len(x)
  BY LenProperties DEF TextsOver
<1>2. x \in Seq(K)
  BY DEF TextsOver
<1>3. \A j \in p..(i - 1) : x[j] # c
  BY DEF Free
<1>4. p \in 1..(Len(x) + 1) /\ i \in p..(Len(x) + 1)
  BY <1>1
<1>5. i = Len(x) + 1 \/ x[i] = c
  <2>1. ASSUME PatternAt(x, <<c>>, i) PROVE x[i] = c
    <3>1. PICK s \in Seq({c}) : s = <<c>> /\ Len(s) = 1 /\ s[1] = c
      BY ShortTexts
    <3>2. 1 \in 1..1 /\ i + 1 - 1 = i
      OBVIOUS
    <3> QED
      BY <2>1, <3>1, <3>2 DEF PatternAt
  <2> QED
    BY <2>1
<1> QED
  BY <1>2, <1>3, <1>4, <1>5, FindChar

\* Lengths add up.
LEMMA CatLength ==
    ASSUME NEW K, NEW s \in TextsOver(K), NEW t \in TextsOver(K)
    PROVE  Len(Cat(s, t)) = Len(s) + Len(t)
  BY ConcatProperties DEF TextsOver, Cat

\* The mark that ends a protocol.
ProtoMark == <<":", "/", "/">>

\* A protocol has no ":", so its end is where the mark is.
LEMMA ProtocolPlaced ==
    ASSUME NEW K, NEW x \in TextsOver(K), NEW P \in TextsOver(K), ProtoMark \in TextsOver(K),
           ":" \notin ToSet(P), NEW f, f = Cat(P, ProtoMark), PatternAt(x, f, 1),
           NEW b, b = 1 + Len(f)
    PROVE  /\ ProtoAt(x) # npos(x) /\ ProtoEnd(x) = b
           /\ SubSeq(x, 1, ProtoAt(x) - 1) = P
<1>1. PICK n \in Nat, k \in Nat : n = Len(x) /\ k = Len(P)
  BY LenProperties DEF TextsOver
<1>2. PICK m \in TextsOver(K) : m = ProtoMark
  OBVIOUS
<1>3. Len(m) = 3 /\ m[1] = ":" /\ m # <<>>
  BY <1>2 DEF ProtoMark
<1>4. PatternAt(x, P, 1) /\ PatternAt(x, m, 1 + k)
  BY <1>1, <1>2, PatternParts
<1>5. PICK i \in Nat \ {0} : i = 1 + k
  OBVIOUS
<1>6. i + 3 - 1 <= n
  BY <1>1, <1>3, <1>4, <1>5 DEF PatternAt
<1>7. Free(x, ":", 1, i)
  BY <1>1, <1>4, <1>5, PatternFree
<1>8. FirstAt(x, m, 1, i)
  <2>1. i \in 1..(n + 1) /\ PatternAt(x, m, i)
    BY <1>4, <1>5, <1>6
  <2>2. ASSUME NEW j \in 1..(i - 1), PatternAt(x, m, j) PROVE FALSE
    <3>1. 1 \in 1..3 /\ j + 1 - 1 = j
      OBVIOUS
    <3>2. x[j] = ":"
      BY <1>3, <2>2, <3>1 DEF PatternAt
    <3> QED
      BY <1>7, <3>2 DEF Free
  <2> QED
    BY <1>1, <2>1, <2>2 DEF FirstAt
<1>9. FirstAt(x, m, 1, FindAny(x, m, 1))
  <2>1. x \in Seq(K) /\ m \in Seq(K) /\ 1 \in 1..(Len(x) + 1)
    BY <1>1 DEF TextsOver
  <2> QED
    BY <1>3, <2>1, FindFirst
<1>10. FindAny(x, m, 1) = i
  <2>1. Len(x) \in Nat /\ 1 \in Nat
    BY <1>1
  <2> QED
    BY <1>8, <1>9, <2>1, FirstUnique
<1>11. ProtoAt(x) = i
  BY <1>2, <1>10 DEF ProtoAt, ProtoMark
<1>12. Len(f) = k + 3
  <2>1. Len(Cat(P, m)) = Len(P) + Len(m)
    BY CatLength
  <2> QED
    BY <1>1, <1>2, <1>3, <2>1
<1>13. i # npos(x) /\ i + 3 = b
  BY <1>1, <1>5, <1>6, <1>12 DEF npos
<1>14. SubSeq(x, 1, i - 1) = P
  <2>1. PICK a \in Nat \ {0} : a = 1
    OBVIOUS
  <2>2. PatternAt(x, P, a) /\ i = a + Len(P)
    BY <1>1, <1>4, <1>5, <2>1
  <2>3. SubSeq(x, a, i - 1) = P
    BY <2>2, PatternIs
  <2> QED
    BY <2>1, <2>3
<1> QED
  BY <1>11, <1>13, <1>14 DEF ProtoEnd

\* C and W have no "@" and C no ":", so the marks are behind C and W.
LEMMA LoginPlaced ==
    ASSUME NEW K, NEW x \in TextsOver(K), NEW C \in TextsOver(K), NEW W \in TextsOver(K),
           ":" \in K, "@" \in K, ToSet(C) \cap {":", "@"} = {}, "@" \notin ToSet(W),
           NEW b \in Nat \ {0}, ProtoEnd(x) = b,
           NEW l, l = Cat(C, Cat(<<":">>, Cat(W, <<"@">>))), PatternAt(x, l, b),
           NEW c, c = b + Len(l)
    PROVE  /\ At(x) # npos(x) /\ HostStart(x) = c
           /\ SubSeq(x, b, LoginEnd(x) - 1) = C
           /\ SubSeq(x, LoginEnd(x) + 1, At(x) - 1) = W
           /\ ~(LoginEnd(x) > At(x))
           /\ LoginEnd(x) = b <=> C = <<>>
<1>1. PICK n \in Nat, k \in Nat, m \in Nat : n = Len(x) /\ k = Len(C) /\ m = Len(W)
  BY LenProperties DEF TextsOver
<1>2. PICK u \in TextsOver(K), v \in TextsOver(K) : u = <<":">> /\ v = <<"@">>
  BY CharTexts
<1>3. Len(u) = 1 /\ Len(v) = 1 /\ ToSet(u) = {":"}
  BY <1>2, SetOfOne
<1>4. PICK wv \in TextsOver(K) : wv = Cat(W, v)
  BY CatTexts
<1>5. PICK uwv \in TextsOver(K) : uwv = Cat(u, wv)
  BY CatTexts
<1>6. PICK i \in Nat \ {0}, j \in Nat \ {0} : i = b + k /\ j = i + 1
  OBVIOUS
<1>7. PICK a \in Nat \ {0} : a = j + m
  BY <1>6
<1>8. l = Cat(C, uwv)
  BY <1>2, <1>4, <1>5
<1>9. PatternAt(x, C, b) /\ PatternAt(x, uwv, i)
  BY <1>1, <1>6, <1>8, PatternParts
<1>10. PatternAt(x, u, i) /\ PatternAt(x, wv, j)
  BY <1>1, <1>3, <1>5, <1>6, <1>9, PatternParts
<1>11. PatternAt(x, W, j) /\ PatternAt(x, v, a)
  BY <1>1, <1>4, <1>6, <1>7, <1>10, PatternParts
<1>12. i <= n /\ a <= n
  BY <1>1, <1>3, <1>10, <1>11 DEF PatternAt
<1>13. Free(x, ":", b, i) /\ Free(x, "@", b, i)
  BY <1>1, <1>6, <1>9, PatternFree
<1>14. Free(x, "@", i, j)
  BY <1>3, <1>6, <1>10, PatternFree
<1>15. Free(x, "@", j, a)
  BY <1>1, <1>7, <1>11, PatternFree
<1>16. Free(x, "@", b, a)
  BY <1>6, <1>7, <1>13, <1>14, <1>15 DEF Free
<1>17. FindAny(x, <<"@">>, b) = a
  BY <1>1, <1>2, <1>6, <1>7, <1>11, <1>12, <1>16, FindFree
<1>18. FindAny(x, <<":">>, b) = i
  BY <1>1, <1>2, <1>6, <1>10, <1>12, <1>13, FindFree
<1>19. At(x) = a /\ LoginEnd(x) = i
  BY <1>17, <1>18 DEF At, LoginEnd
<1>20. Len(l) = k + 1 + (m + 1)
  <2>1. Len(Cat(W, v)) = Len(W) + Len(v)
    BY CatLength
  <2>2. Len(wv) = m + 1
    BY <1>1, <1>3, <1>4, <2>1
  <2>3. Len(Cat(u, wv)) = Len(u) + Len(wv)
    BY CatLength
  <2>4. Len(uwv) = 1 + (m + 1)
    BY <1>3, <1>5, <2>2, <2>3
  <2>5. Len(Cat(C, uwv)) = Len(C) + Len(uwv)
    BY CatLength
  <2> QED
    BY <1>1, <1>8, <2>4, <2>5
<1>21. a # npos(x) /\ a + 1 = c
  <2>1. a # n + 1 /\ a + 1 = b + (k + 1 + (m + 1))
    BY <1>6, <1>7, <1>12
  <2> QED
    BY <1>1, <1>20, <2>1 DEF npos
<1>22. SubSeq(x, b, i - 1) = C
  <2>1. i = b + Len(C)
    BY <1>1, <1>6
  <2> QED
    BY <1>9, <2>1, PatternIs
<1>23. SubSeq(x, i + 1, a - 1) = W
  <2>1. a = j + Len(W)
    BY <1>1, <1>7
  <2>2. SubSeq(x, j, a - 1) = W
    BY <1>11, <2>1, PatternIs
  <2> QED
    BY <1>6, <2>2
<1>24. i = b <=> C = <<>>
  <2>1. k = 0 <=> C = <<>>
    BY <1>1, EmptySeq DEF TextsOver
  <2> QED
    BY <1>6, <2>1
<1>25. ~(i > a)
  BY <1>6, <1>7
<1> QED
  BY <1>19, <1>21, <1>22, <1>23, <1>24, <1>25 DEF HostStart

\* Without "@" there is no login.
LEMMA LoginMissing ==
    ASSUME NEW K, NEW x \in TextsOver(K), NEW b \in Nat \ {0}, ProtoEnd(x) = b, b <= Len(x) + 1,
           Free(x, "@", b, Len(x) + 1)
    PROVE  At(x) = npos(x) /\ HostStart(x) = b
<1>1. PICK i \in Nat \ {0} : i = Len(x) + 1
  BY LenProperties DEF TextsOver
<1>2. FindAny(x, <<"@">>, b) = i
  BY <1>1, FindFree
<1> QED
  BY <1>1, <1>2 DEF At, HostStart, npos

\* The host, the port and the path are the rest of a URL.
HostPortPath(K, x, h, q, a, c, d, e) ==
    /\ h \in TextsOver(K) /\ q \in TextsOver(K)
    /\ c \in Nat \ {0} /\ d \in Nat \ {0} /\ e \in Nat \ {0}
    /\ PatternAt(x, h, c) /\ d = c + Len(h) /\ PatternAt(x, q, d) /\ e = d + Len(q)
    /\ PatternAt(x, a, e) /\ e + Len(a) = Len(x) + 1 /\ e <= Len(x) + 1

\* The path begins with the first "/" behind the host, or behind the end.
LEMMA PathPlaced ==
    ASSUME NEW K, NEW x \in TextsOver(K), NEW D \in TextsOver(K), "/" \in K,
           NEW h, NEW q, NEW a, NEW c, NEW d, NEW e, HostPortPath(K, x, h, q, a, c, d, e),
           "/" \notin ToSet(h), "/" \notin ToSet(q), HostStart(x) = c,
           a = <<>> \/ a = Cat(<<"/">>, D)
    PROVE  /\ Slash(x) = e
           /\ Slash(x) = npos(x) <=> a = <<>>
           /\ a # <<>> => Rest(x, e + 1) = D
<1> SUFFICES ASSUME h \in TextsOver(K), q \in TextsOver(K),
                    c \in Nat \ {0}, d \in Nat \ {0}, e \in Nat \ {0},
                    d = c + Len(h), e = d + Len(q), PatternAt(x, h, c), PatternAt(x, q, d),
                    PatternAt(x, a, e), e + Len(a) = Len(x) + 1, e <= Len(x) + 1
             PROVE  /\ Slash(x) = e
                    /\ Slash(x) = npos(x) <=> a = <<>>
                    /\ a # <<>> => Rest(x, e + 1) = D
  BY DEF HostPortPath
<1>1. PICK n \in Nat, k \in Nat, l \in Nat, m \in Nat :
          n = Len(x) /\ k = Len(h) /\ l = Len(q) /\ m = Len(D)
  BY LenProperties DEF TextsOver
<1>2. Free(x, "/", c, d) /\ Free(x, "/", d, e)
  BY <1>1, PatternFree
<1>3. Free(x, "/", c, e)
  BY <1>1, <1>2 DEF Free
<1>4. c <= e
  BY <1>1
<1>5. PICK u \in TextsOver(K) : u = <<"/">> /\ Len(u) = 1
  BY ShortTexts DEF TextsOver
<1>6. CASE a = <<>>
  <2>1. Len(a) = 0
    BY <1>6
  <2>2. e = Len(x) + 1
    BY <1>1, <2>1
  <2>3. FindAny(x, <<"/">>, c) = e
    BY <1>3, <1>4, <2>2, FindFree
  <2> QED
    BY <1>6, <2>2, <2>3 DEF Slash, npos
<1>7. CASE a = Cat(u, D)
  <2>1. PatternAt(x, u, e) /\ PatternAt(x, D, e + 1)
    BY <1>1, <1>5, <1>7, PatternParts
  <2>2. Len(a) = 1 + m
    BY <1>1, <1>5, <1>7, CatLength
  <2>3. e + (1 + m) = n + 1
    BY <1>1, <2>2
  <2>4. FindAny(x, <<"/">>, c) = e
    BY <1>3, <1>4, <1>5, <2>1, FindFree
  <2>5. e # npos(x)
    BY <1>1, <2>3 DEF npos
  <2>6. a # <<>>
    <3>1. Len(a) # 0
      BY <2>2
    <3> QED
      BY <3>1
  <2>7. PICK i \in Nat \ {0} : i = e + 1
    OBVIOUS
  <2>8. PICK j \in Nat \ {0} : j = n + 1
    OBVIOUS
  <2>9. SubSeq(x, i, j - 1) = D
    <3>1. j = i + Len(D)
      BY <1>1, <2>3, <2>7, <2>8
    <3>2. PatternAt(x, D, i)
      BY <2>1, <2>7
    <3> QED
      BY <3>1, <3>2, PatternIs
  <2>10. Rest(x, e + 1) = D
    <3>1. j - 1 = Len(x)
      BY <1>1, <2>8
    <3> QED
      BY <2>7, <2>9, <3>1 DEF Rest
  <2> QED
    BY <2>4, <2>5, <2>6, <2>10 DEF Slash
<1> QED
  BY <1>5, <1>6, <1>7

\* The port begins with the first ":" behind the host, if this comes before the path.
LEMMA PortPlaced ==
    ASSUME NEW K, NEW x \in TextsOver(K), NEW h \in TextsOver(K), NEW T \in TextsOver(K),
           ":" \in K, ":" \notin ToSet(h),
           NEW c \in Nat \ {0}, NEW d \in Nat \ {0}, NEW e \in Nat \ {0},
           d = c + Len(h), HostStart(x) = c, Slash(x) = e, e <= Len(x) + 1,
           PatternAt(x, h, c), NEW q, PatternAt(x, q, d), e = d + Len(q),
           q = <<>> \/ q = Cat(<<":">>, T)
    PROVE  /\ Colon(x) < Slash(x) <=> q # <<>>
           /\ q # <<>> => SubSeq(x, Colon(x) + 1, Slash(x) - 1) = T
           /\ SubSeq(x, HostStart(x), (IF Colon(x) < Slash(x) THEN Colon(x) ELSE Slash(x)) - 1) = h
<1>1. PICK n \in Nat, k \in Nat, m \in Nat : n = Len(x) /\ k = Len(h) /\ m = Len(T)
  BY LenProperties DEF TextsOver
<1>2. Free(x, ":", c, d)
  BY <1>1, PatternFree
<1>3. SubSeq(x, c, d - 1) = h
  BY PatternIs
<1>4. PICK u \in TextsOver(K) : u = <<":">> /\ Len(u) = 1
  BY ShortTexts DEF TextsOver
<1>5. c <= d
  BY <1>1
<1>6. CASE q = <<>>
  <2>1. Len(q) = 0
    BY <1>6
  <2>2. e = d
    BY <2>1
  <2>3. c \in 1..(Len(x) + 1)
    BY <1>1, <1>5, <2>2
  <2>4. PICK i : i = FindAny(x, <<":">>, c)
    OBVIOUS
  <2>5. FirstAt(x, <<":">>, c, i)
    <3>1. x \in Seq(K) /\ u \in Seq(K) /\ u # <<>>
      BY <1>4 DEF TextsOver
    <3> QED
      BY <1>4, <2>3, <2>4, <3>1, FindFirst
  <2>6. i \in c..(n + 1) /\ (i # n + 1 => x[i] = ":")
    <3>1. i \in c..(n + 1) /\ (i # n + 1 => PatternAt(x, <<":">>, i))
      BY <1>1, <2>5 DEF FirstAt
    <3>2. ASSUME PatternAt(x, u, i) PROVE x[i] = ":"
      <4>1. u[1] = ":" /\ 1 \in 1..1
        BY <1>4
      <4>2. i + 1 - 1 = i
        BY <3>1
      <4> QED
        BY <1>4, <3>2, <4>1, <4>2 DEF PatternAt
    <3> QED
      BY <1>4, <3>1, <3>2
  <2>7. ~(i < e)
    BY <1>1, <1>2, <2>2, <2>6 DEF Free
  <2>8. Colon(x) = i
    BY <2>4 DEF Colon
  <2> QED
    BY <1>3, <1>6, <2>2, <2>7, <2>8
<1>7. CASE q = Cat(u, T)
  <2>1. PatternAt(x, u, d) /\ PatternAt(x, T, d + 1)
    BY <1>1, <1>4, <1>7, PatternParts
  <2>2. Len(q) = 1 + m
    BY <1>1, <1>4, <1>7, CatLength
  <2>3. d < e /\ d <= n + 1
    BY <1>1, <2>2
  <2>4. FindAny(x, <<":">>, c) = d
    BY <1>1, <1>2, <1>4, <1>5, <2>1, <2>3, FindFree
  <2>5. q # <<>>
    <3>1. Len(q) # 0
      BY <2>2
    <3> QED
      BY <3>1
  <2>6. PICK i \in Nat \ {0} : i = d + 1
    OBVIOUS
  <2>7. SubSeq(x, i, e - 1) = T
    <3>1. e = i + Len(T)
      BY <1>1, <2>2, <2>6
    <3>2. PatternAt(x, T, i)
      BY <2>1, <2>6
    <3> QED
      BY <3>1, <3>2, PatternIs
  <2>8. Colon(x) = d
    BY <2>4 DEF Colon
  <2> QED
    BY <1>3, <2>3, <2>5, <2>6, <2>7, <2>8
<1> QED
  BY <1>4, <1>6, <1>7
-----------------------------------------------------------------------------
(***************************************************************************)
(* The pieces of a URL, and where parse_URL finds them.                    *)
(***************************************************************************)
\* A text over a set has only characters of this set, and is one over a larger set.
LEMMA SetWithin ==
    ASSUME NEW N, NEW t \in TextsOver(N)
    PROVE  /\ ToSet(t) \subseteq N
           /\ \A O : N \subseteq O => t \in TextsOver(O)
<1>1. ASSUME NEW i \in DOMAIN t PROVE t[i] \in N
  BY LenProperties, ElementOfSeq DEF TextsOver
<1>2. ToSet(t) \subseteq N
  BY <1>1 DEF ToSet
<1>3. ASSUME NEW O, N \subseteq O PROVE t \in TextsOver(O)
  BY <1>3, SeqMonotonic DEF TextsOver
<1> QED
  BY <1>2, <1>3

\* Code is code for t, with R reserved: it has none of these characters but the
\* two that codes are made with, and is read as t.
CodeOf(v, t, R) ==
    /\ v # Absent /\ v \in TextsOver(ToSet(t) \cup EscapeDigits \cup {"%", "+"})
    /\ ToSet(v) \cap (R \ {"%", "+"}) = {}
    /\ v = <<>> <=> t = <<>>
    /\ "invalid" \in ToSet(decode_hex_byte(v)) <=> "stray" \in ToSet(t)
    /\ "stray" \notin ToSet(t) => decode_hex_byte(v) = t

\* What Encode makes of a text is code for it.
LEMMA PartCoded ==
    ASSUME NEW t, t \in TextsOver(ToSet(t)), ToSet(t) \cap {"absent", "invalid"} = {}, StraysStay(t),
           NEW R, Reserves(R)
    PROVE  CodeOf(Encode(t, R), t, R)
<1>1. PICK M : M = ToSet(t)
  OBVIOUS
<1>2. t \in TextsOver(M) /\ "absent" \notin M /\ "invalid" \notin M
  BY <1>1
<1>3. PICK N : N = CodeChars(M, R)
  OBVIOUS
<1>4. PICK v \in TextsOver(N) : v = Encode(t, R)
  BY <1>2, <1>3, EncodeJoins
<1>5. ToSet(v) \subseteq N
  BY SetWithin
<1>6. v \in TextsOver(M \cup EscapeDigits \cup {"%", "+"})
  <2>1. N \subseteq M \cup EscapeDigits \cup {"%", "+"}
    BY <1>3 DEF CodeChars
  <2> QED
    BY <2>1, SetWithin
<1>7. ToSet(v) \cap (R \ {"%", "+"}) = {}
  BY <1>3, <1>5 DEF CodeChars
<1>8. v # Absent
  <2>1. "absent" \notin N
    BY <1>2, <1>3 DEF CodeChars, EscapeDigits
  <2>2. ToSet(Absent) = {"absent"}
    BY SetOfOne DEF Absent
  <2> QED
    BY <1>5, <2>1, <2>2
<1>9. v = <<>> <=> t = <<>>
  <2>1. CASE t = <<>>
    BY <1>3, <1>4, <2>1, EncodeJoins
  <2>2. CASE t # <<>>
    <3>1. PICK c \in M, w \in TextsOver(M) : t = Cat(<<c>>, w)
      BY <1>2, <2>2, FirstAndRest
    <3>2. PICK y \in TextsOver(M) : y = <<c>>
      BY CharTexts
    <3>3. v = Cat(Encode(y, R), Encode(w, R))
      BY <1>3, <1>4, <3>1, <3>2, EncodeJoins
    <3>4. PICK a \in TextsOver(N), b \in TextsOver(N) : a = Encode(y, R) /\ b = Encode(w, R)
      BY <1>3, EncodeJoins
    <3>5. a = Code(c, R)
      BY <1>3, <3>2, <3>4, EncodeJoins
    <3>6. PICK m \in Nat \ {0} : m = Len(a)
      BY <3>5, CodeFirst
    <3>7. Len(v) = m + Len(b) /\ Len(b) \in Nat
      BY <3>3, <3>4, <3>6, CatLength, LenProperties DEF TextsOver
    <3>8. Len(v) # 0
      BY <3>7
    <3>9. v # <<>>
      BY <3>8
    <3> QED
      BY <2>2, <3>9
  <2> QED
    BY <2>1, <2>2
<1>10. ReadAs(decode_hex_byte(v), t)
  BY <1>2, <1>4, DecodeBack
<1>11. "invalid" \in ToSet(decode_hex_byte(v)) <=> "stray" \in ToSet(t)
  BY <1>1, <1>2, <1>10 DEF ReadAs
<1>12. "stray" \notin ToSet(t) => decode_hex_byte(v) = t
  BY <1>10 DEF ReadAs
<1> QED
  BY <1>1, <1>4, <1>6, <1>7, <1>8, <1>9, <1>11, <1>12 DEF CodeOf

\* The pieces that Compose puts together.
PartOf(before, t, after) == IF t = Absent THEN <<>> ELSE before \o t \o after
CodedOf(t, reserved, extra) ==
    IF t = Absent THEN t ELSE Encode(t, reserved \cup {"%", "+"} \cup extra)

LoginCode(parts, extra)    == CodedOf(parts.login, {":", "@"}, extra)
PasswordCode(parts, extra) == CodedOf(parts.password, {"@"}, extra)
PathCode(parts, extra)     == CodedOf(parts.path, {}, extra)
ProtocolPart(parts)    == PartOf(<<>>, parts.protocol, <<":", "/", "/">>)
LoginPart(parts, extra) ==
    PartOf(<<>>, LoginCode(parts, extra), <<":">> \o PasswordCode(parts, extra) \o <<"@">>)
PortPart(parts)        == PartOf(<<":">>, parts.port, <<>>)
PathPart(parts, extra) == PartOf(<<"/">>, PathCode(parts, extra), <<>>)

\* A URL is made of five pieces.
LEMMA ComposeUnfold ==
    ASSUME NEW parts, NEW extra
    PROVE  Compose(parts, extra)
             = Cat(Cat(Cat(Cat(ProtocolPart(parts), LoginPart(parts, extra)), parts.host),
                       PortPart(parts)), PathPart(parts, extra))
  BY Zenon DEF Compose, Cat, PathPart, PortPart, LoginPart, ProtocolPart, PathCode, PasswordCode,
               LoginCode, CodedOf, PartOf

\* A part of a URL that is encoded.
LEMMA PartFacts ==
    ASSUME NEW parts \in URLs, NEW k \in DOMAIN Defaults
    PROVE  /\ parts[k] \in TextsOver(ToSet(parts[k]))
           /\ parts[k] = Absent \/ ToSet(parts[k]) \cap {"absent", "invalid"} = {}
  BY UrlAssumption DEF TextsOver

\* No "%" of a part is taken for the beginning of an escape sequence.
LEMMA PartStrays ==
    ASSUME NEW parts \in URLs, NEW k \in {"login", "password", "path"}
    PROVE  StraysStay(parts[k])
  BY UrlAssumption DEF StraysStay

\* Its code.
LEMMA PartCode ==
    ASSUME NEW parts \in URLs, NEW extra \in Encodings, NEW k \in {"login", "password", "path"},
           NEW reserved \in {{}, {"@"}, {":", "@"}}, NEW v, v = CodedOf(parts[k], reserved, extra)
    PROVE  /\ v = Absent <=> parts[k] = Absent
           /\ parts[k] # Absent =>
                  CodeOf(v, parts[k], reserved \cup {"%", "+"} \cup extra)
<1>1. PICK t : t = parts[k]
  OBVIOUS
<1>2. k \in DOMAIN Defaults
  BY DEF Defaults
<1>3. t \in TextsOver(ToSet(t)) /\ (t = Absent \/ ToSet(t) \cap {"absent", "invalid"} = {})
  BY <1>1, <1>2, PartFacts
<1>4. StraysStay(t)
  BY <1>1, PartStrays
<1>5. PICK R : R = reserved \cup {"%", "+"} \cup extra
  OBVIOUS
<1>6. Reserves(R)
  <2>1. ":" \in DOMAIN Escape /\ "%" \in DOMAIN Escape /\ "+" \in DOMAIN Escape /\ "@" \in DOMAIN Escape
    BY EscapeFacts
  <2>2. reserved \subseteq DOMAIN Escape /\ extra \subseteq DOMAIN Escape
    BY <2>1 DEF Encodings
  <2> QED
    BY <1>5, <2>1, <2>2 DEF Reserves
<1>7. CASE t = Absent
  BY <1>1, <1>7 DEF CodedOf
<1>8. CASE t # Absent
  <2>1. v = Encode(t, R)
    BY <1>1, <1>5, <1>8 DEF CodedOf
  <2>2. CodeOf(v, t, R)
    BY <1>3, <1>4, <1>6, <1>8, <2>1, PartCoded
  <2>3. v # Absent
    BY <2>2 DEF CodeOf
  <2> QED
    BY <1>1, <1>5, <1>8, <2>2, <2>3
<1> QED
  BY <1>7, <1>8

\* The characters of a URL.
PartChars(parts) == UNION {ToSet(parts[k]) : k \in DOMAIN Defaults}
UrlChars(parts) == PartChars(parts) \cup EscapeDigits \cup {"%", "+", ":", "/", "@"}

\* A part and its code are texts over these.
LEMMA PartTexts ==
    ASSUME NEW parts \in URLs, NEW k \in DOMAIN Defaults
    PROVE  /\ parts[k] \in TextsOver(UrlChars(parts))
           /\ \A v, R : CodeOf(v, parts[k], R) => v \in TextsOver(UrlChars(parts))
<1>1. PICK S : S = ToSet(parts[k])
  OBVIOUS
<1>2. S \subseteq UrlChars(parts) /\ S \cup EscapeDigits \cup {"%", "+"} \subseteq UrlChars(parts)
  <2>1. S \in {ToSet(parts[j]) : j \in DOMAIN Defaults}
    BY <1>1
  <2>2. S \subseteq PartChars(parts)
    BY <2>1, Zenon DEF PartChars
  <2> QED
    BY <2>2 DEF UrlChars
<1>3. parts[k] \in TextsOver(S)
  BY <1>1, PartFacts
<1>4. ASSUME NEW v, NEW R, CodeOf(v, parts[k], R) PROVE v \in TextsOver(UrlChars(parts))
  <2>1. v \in TextsOver(S \cup EscapeDigits \cup {"%", "+"})
    BY <1>1, <1>4 DEF CodeOf
  <2> QED
    BY <1>2, <2>1, SetWithin
<1> QED
  BY <1>2, <1>3, <1>4, SetWithin

\* The marks are, too.
LEMMA MarkTexts ==
    ASSUME NEW parts, NEW K, K = UrlChars(parts)
    PROVE  /\ ":" \in K /\ "/" \in K /\ "@" \in K
           /\ <<>> \in TextsOver(K) /\ <<":">> \in TextsOver(K) /\ <<"/">> \in TextsOver(K)
           /\ <<"@">> \in TextsOver(K) /\ ProtoMark \in TextsOver(K)
<1>1. ":" \in K /\ "/" \in K /\ "@" \in K
  BY DEF UrlChars
<1>2. <<>> \in TextsOver(K) /\ <<":">> \in TextsOver(K) /\ <<"/">> \in TextsOver(K) /\ <<"@">> \in TextsOver(K)
  BY <1>1, CatTexts, CharTexts
<1>3. <<":", "/", "/">> \in Seq(K)
  BY <1>1
<1> QED
  BY <1>1, <1>2, <1>3 DEF ProtoMark, TextsOver

\* Each piece of a URL is nothing or a part with its marks.
LEMMA ProtocolPiece ==
    ASSUME NEW parts \in URLs, NEW K, K = UrlChars(parts)
    PROVE  /\ ProtocolPart(parts) \in TextsOver(K) /\ parts.protocol \in TextsOver(K)
           /\ ProtocolPart(parts) = IF parts.protocol = Absent THEN <<>> ELSE Cat(parts.protocol, ProtoMark)
<1>1. PICK P \in TextsOver(K) : P = parts.protocol
  <2>1. "protocol" \in DOMAIN Defaults
    BY DEF Defaults
  <2> QED
    BY <2>1, PartTexts
<1>2. PICK m \in TextsOver(K) : m = ProtoMark
  BY MarkTexts
<1>3. ProtocolPart(parts) = IF P = Absent THEN <<>> ELSE Cat(Cat(<<>>, P), m)
  BY <1>1, <1>2, Zenon DEF ProtocolPart, PartOf, Cat, ProtoMark
<1>4. Cat(<<>>, P) = P
  BY CatTexts
<1>5. Cat(P, m) \in TextsOver(K) /\ <<>> \in TextsOver(K)
  BY CatTexts
<1> QED
  BY <1>1, <1>2, <1>3, <1>4, <1>5

\* The port and its piece.
LEMMA PortPiece ==
    ASSUME NEW parts \in URLs, NEW K, K = UrlChars(parts)
    PROVE  /\ PortPart(parts) \in TextsOver(K) /\ parts.port \in TextsOver(K)
           /\ PortPart(parts) = IF parts.port = Absent THEN <<>> ELSE Cat(<<":">>, parts.port)
<1>1. PICK T \in TextsOver(K) : T = parts.port
  <2>1. "port" \in DOMAIN Defaults
    BY DEF Defaults
  <2> QED
    BY <2>1, PartTexts
<1>2. PICK m \in TextsOver(K) : m = <<":">>
  BY MarkTexts
<1>3. PortPart(parts) = IF T = Absent THEN <<>> ELSE Cat(Cat(m, T), <<>>)
  BY <1>1, <1>2, Zenon DEF PortPart, PartOf, Cat
<1>4. PICK u \in TextsOver(K) : u = Cat(m, T) /\ Cat(u, <<>>) = u /\ <<>> \in TextsOver(K)
  BY CatTexts
<1> QED
  BY <1>1, <1>2, <1>3, <1>4

\* The path, its code and its piece.
LEMMA PathPiece ==
    ASSUME NEW parts \in URLs, NEW extra \in Encodings, NEW K, K = UrlChars(parts),
           NEW D, D = PathCode(parts, extra)
    PROVE  /\ PathPart(parts, extra) \in TextsOver(K)
           /\ parts.path # Absent => D \in TextsOver(K)
           /\ parts.path # Absent /\ "@" \notin ToSet(parts.path) \ extra => "@" \notin ToSet(D)
           /\ parts.path # Absent => CodeOf(D, parts.path, {} \cup {"%", "+"} \cup extra)
           /\ PathPart(parts, extra) = IF parts.path = Absent THEN <<>> ELSE Cat(<<"/">>, D)
<1>1. PICK k \in {"login", "password", "path"} : k = "path"
  OBVIOUS
<1>2. PICK t : t = parts[k] /\ t = parts.path
  BY <1>1
<1>3. /\ D = Absent <=> t = Absent
      /\ t # Absent => CodeOf(D, t, {} \cup {"%", "+"} \cup extra)
  <2>1. PICK r \in {{}, {"@"}, {":", "@"}} : r = {}
    OBVIOUS
  <2>2. D = CodedOf(parts[k], r, extra)
    BY <1>1, <2>1, Zenon DEF PathCode
  <2>3. D = Absent <=> parts[k] = Absent
    BY <2>2, PartCode
  <2>4. parts[k] # Absent => CodeOf(D, parts[k], r \cup {"%", "+"} \cup extra)
    BY <2>2, PartCode
  <2> QED
    BY <1>2, <2>1, <2>3, <2>4
<1>4. /\ t # Absent => D \in TextsOver(K)
      /\ t # Absent /\ "@" \notin ToSet(t) \ extra => "@" \notin ToSet(D)
  <2>1. k \in DOMAIN Defaults
    BY DEF Defaults
  <2>2. t # Absent => D \in TextsOver(K)
    BY <1>2, <1>3, <2>1, PartTexts
  <2>3. t # Absent => ToSet(D) \cap (({} \cup {"%", "+"} \cup extra) \ {"%", "+"}) = {}
    BY <1>3 DEF CodeOf
  <2>4. t # Absent => ToSet(D) \subseteq ToSet(t) \cup EscapeDigits \cup {"%", "+"}
    BY <1>3, SetWithin DEF CodeOf
  <2>5. "@" \notin EscapeDigits
    BY DEF EscapeDigits
  <2> QED
    BY <2>2, <2>3, <2>4, <2>5
<1>5. PICK m \in TextsOver(K) : m = <<"/">>
  BY MarkTexts
<1>6. PathPart(parts, extra) = IF D = Absent THEN <<>> ELSE Cat(Cat(m, D), <<>>)
  BY <1>5, Zenon DEF PathPart, PartOf, Cat
<1>7. <<>> \in TextsOver(K)
  BY CatTexts
<1>8. CASE t = Absent
  BY <1>2, <1>3, <1>6, <1>7, <1>8
<1>9. CASE t # Absent
  <2>1. PICK u \in TextsOver(K) : u = Cat(m, D) /\ Cat(u, <<>>) = u
    BY <1>4, <1>9, CatTexts
  <2> QED
    BY <1>2, <1>3, <1>4, <1>5, <1>6, <1>9, <2>1
<1> QED
  BY <1>8, <1>9

\* Login and password with the marks that end them.
LoginText(C, W) == Cat(C, Cat(<<":">>, Cat(W, <<"@">>)))

\* Login and password, their codes and their piece.
LEMMA LoginPiece ==
    ASSUME NEW parts \in URLs, NEW extra \in Encodings, NEW K, K = UrlChars(parts),
           NEW C, C = LoginCode(parts, extra), NEW W, W = PasswordCode(parts, extra)
    PROVE  /\ LoginPart(parts, extra) \in TextsOver(K)
           /\ parts.login # Absent =>
                  /\ C \in TextsOver(K) /\ ToSet(C) \cap {":", "@"} = {}
                  /\ CodeOf(C, parts.login, {":", "@"} \cup {"%", "+"} \cup extra)
           /\ W \in TextsOver(K) /\ "@" \notin ToSet(W)
           /\ CodeOf(W, parts.password, {"@"} \cup {"%", "+"} \cup extra)
           /\ parts.login = Absent => LoginPart(parts, extra) = <<>>
           /\ parts.login # Absent => LoginPart(parts, extra) = LoginText(C, W)
<1>1. PICK k \in {"login", "password", "path"}, j \in {"login", "password", "path"} :
          k = "login" /\ j = "password"
  OBVIOUS
<1>2. PICK t, s : t = parts[k] /\ t = parts.login /\ s = parts[j] /\ s = parts.password
  BY <1>1
<1>3. k \in DOMAIN Defaults /\ j \in DOMAIN Defaults
  BY DEF Defaults
<1>4. s # Absent
  BY <1>2, UrlAssumption
<1>5. /\ C = Absent <=> t = Absent
      /\ t # Absent => CodeOf(C, t, {":", "@"} \cup {"%", "+"} \cup extra)
  <2>1. PICK r \in {{}, {"@"}, {":", "@"}} : r = {":", "@"}
    OBVIOUS
  <2>2. C = CodedOf(parts[k], r, extra)
    BY <1>1, <2>1, Zenon DEF LoginCode
  <2>3. C = Absent <=> parts[k] = Absent
    BY <2>2, PartCode
  <2>4. parts[k] # Absent => CodeOf(C, parts[k], r \cup {"%", "+"} \cup extra)
    BY <2>2, PartCode
  <2> QED
    BY <1>2, <2>1, <2>3, <2>4
<1>6. CodeOf(W, s, {"@"} \cup {"%", "+"} \cup extra)
  <2>1. PICK r \in {{}, {"@"}, {":", "@"}} : r = {"@"}
    OBVIOUS
  <2>2. W = CodedOf(parts[j], r, extra)
    BY <1>1, <2>1, Zenon DEF PasswordCode
  <2>3. parts[j] # Absent => CodeOf(W, parts[j], r \cup {"%", "+"} \cup extra)
    BY <2>2, PartCode
  <2> QED
    BY <1>2, <1>4, <2>1, <2>3
<1>7. t # Absent => C \in TextsOver(K) /\ ToSet(C) \cap {":", "@"} = {}
  <2>1. t # Absent => C \in TextsOver(K)
    BY <1>2, <1>3, <1>5, PartTexts
  <2>2. t # Absent => ToSet(C) \cap (({":", "@"} \cup {"%", "+"} \cup extra) \ {"%", "+"}) = {}
    BY <1>5 DEF CodeOf
  <2> QED
    BY <2>1, <2>2
<1>8. W \in TextsOver(K) /\ "@" \notin ToSet(W)
  <2>1. W \in TextsOver(K)
    BY <1>2, <1>3, <1>6, PartTexts
  <2>2. ToSet(W) \cap (({"@"} \cup {"%", "+"} \cup extra) \ {"%", "+"}) = {}
    BY <1>6 DEF CodeOf
  <2> QED
    BY <2>1, <2>2
<1>9. PICK m \in TextsOver(K), n \in TextsOver(K) : m = <<":">> /\ n = <<"@">>
  BY MarkTexts
<1>10. LoginPart(parts, extra) = IF C = Absent THEN <<>> ELSE Cat(Cat(<<>>, C), Cat(Cat(m, W), n))
  BY <1>9, Zenon DEF LoginPart, PartOf, Cat
<1>11. PICK u \in TextsOver(K) : u = Cat(m, Cat(W, n)) /\ u = Cat(Cat(m, W), n)
  <2>1. PICK wn \in TextsOver(K) : wn = Cat(W, n)
    BY <1>8, CatTexts
  <2>2. Cat(m, wn) \in TextsOver(K) /\ Cat(Cat(m, W), n) = Cat(m, Cat(W, n))
    BY <1>8, CatTexts
  <2> QED
    BY <2>1, <2>2
<1>12. <<>> \in TextsOver(K)
  BY CatTexts
<1>13. CASE t = Absent
  BY <1>2, <1>5, <1>6, <1>8, <1>10, <1>12, <1>13
<1>14. CASE t # Absent
  <2>1. Cat(<<>>, C) = C /\ Cat(C, u) \in TextsOver(K)
    BY <1>7, <1>14, CatTexts
  <2>2. LoginPart(parts, extra) = Cat(C, u)
    BY <1>5, <1>10, <1>11, <1>14, <2>1
  <2>3. LoginPart(parts, extra) = LoginText(C, W)
    BY <1>9, <1>11, <2>2 DEF LoginText
  <2> QED
    BY <1>2, <1>5, <1>6, <1>7, <1>8, <1>14, <2>1, <2>2, <2>3
<1> QED
  BY <1>13, <1>14

\* The pieces of a URL are at these places.
UrlAt(parts, extra, x, b, c, d, e) ==
    /\ Placed(x, ProtocolPart(parts), LoginPart(parts, extra), parts.host, PortPart(parts),
              PathPart(parts, extra), b, c, d, e)
    /\ x \in TextsOver(UrlChars(parts)) /\ parts.host \in TextsOver(UrlChars(parts))

\* The pieces of a URL are one behind the other in it.
LEMMA UrlPlaced ==
    ASSUME NEW parts \in URLs, NEW extra \in Encodings, NEW x, x = Compose(parts, extra)
    PROVE  \E b, c, d, e : UrlAt(parts, extra, x, b, c, d, e)
<1>1. PICK K : K = UrlChars(parts)
  OBVIOUS
<1>2. PICK f \in TextsOver(K), l \in TextsOver(K), q \in TextsOver(K), a \in TextsOver(K) :
          /\ f = ProtocolPart(parts) /\ l = LoginPart(parts, extra)
          /\ q = PortPart(parts) /\ a = PathPart(parts, extra)
  BY <1>1, ProtocolPiece, LoginPiece, PortPiece, PathPiece
<1>3. PICK h \in TextsOver(K) : h = parts.host
  <2>1. "host" \in DOMAIN Defaults
    BY DEF Defaults
  <2> QED
    BY <1>1, <2>1, PartTexts
<1>4. x = Cat(Cat(Cat(Cat(f, l), h), q), a)
  BY <1>2, <1>3, ComposeUnfold
<1>5. \E b, c, d, e : Placed(x, f, l, h, q, a, b, c, d, e) /\ x \in TextsOver(K)
  BY <1>4, PartsPlaced
<1> QED
  BY <1>1, <1>2, <1>3, <1>5 DEF UrlAt

\* Where the protocol ends, and what it is.
LEMMA ProtocolFound ==
    ASSUME NEW parts \in URLs, NEW extra \in Encodings, NEW x, x = Compose(parts, extra),
           ~TakenForProtocol(parts, extra),
           x \in TextsOver(UrlChars(parts)), NEW b, PatternAt(x, ProtocolPart(parts), 1),
           b = 1 + Len(ProtocolPart(parts))
    PROVE  /\ ProtoEnd(x) = b
           /\ PartsOf(x).protocol = IF parts.protocol = Absent THEN Defaults.protocol ELSE parts.protocol
<1>1. PICK K : K = UrlChars(parts)
  OBVIOUS
<1>2. PICK P \in TextsOver(K) : P = parts.protocol
  BY <1>1, ProtocolPiece
<1>3. PICK f : f = ProtocolPart(parts) /\ f = IF P = Absent THEN <<>> ELSE Cat(P, ProtoMark)
  BY <1>1, <1>2, ProtocolPiece
<1>4. PartsOf(x).protocol = IF ProtoAt(x) = npos(x) THEN Defaults.protocol ELSE SubSeq(x, 1, ProtoAt(x) - 1)
  BY DEF PartsOf
<1>5. CASE P = Absent
  <2>1. FindAny(x, <<":", "/", "/">>, 1) = npos(x)
    BY <1>2, <1>5 DEF TakenForProtocol
  <2>2. b = 1
    BY <1>3, <1>5
  <2> QED
    BY <1>2, <1>4, <1>5, <2>1, <2>2 DEF ProtoEnd, ProtoAt
<1>6. CASE P # Absent
  <2>1. ":" \notin ToSet(P)
    BY <1>2, UrlAssumption
  <2>2. ProtoMark \in TextsOver(K)
    BY <1>1, MarkTexts
  <2>3. f = Cat(P, ProtoMark) /\ PatternAt(x, f, 1) /\ b = 1 + Len(f)
    BY <1>3, <1>6
  <2>4. ProtoAt(x) # npos(x) /\ ProtoEnd(x) = b /\ SubSeq(x, 1, ProtoAt(x) - 1) = P
    BY <1>1, <2>1, <2>2, <2>3, ProtocolPlaced
  <2> QED
    BY <1>2, <1>4, <1>6, <2>4
<1> QED
  BY <1>5, <1>6

\* Without a login no "@" is behind the protocol.
LEMMA NoAt ==
    ASSUME NEW parts \in URLs, NEW extra \in Encodings, parts.login = Absent,
           ~TakenForLogin(parts, extra), NEW x, NEW b, NEW c, NEW d, NEW e,
           Placed(x, ProtocolPart(parts), LoginPart(parts, extra), parts.host, PortPart(parts),
                  PathPart(parts, extra), b, c, d, e),
           x \in TextsOver(UrlChars(parts)), parts.host \in TextsOver(UrlChars(parts))
    PROVE  Free(x, "@", b, Len(x) + 1) /\ c = b
<1>1. PICK K : K = UrlChars(parts)
  OBVIOUS
<1>2. PICK h \in TextsOver(K), T \in TextsOver(K) : h = parts.host /\ T = parts.port
  BY <1>1, PortPiece
<1>3. "@" \notin ToSet(h) /\ "@" \notin ToSet(T)
  BY <1>2, UrlAssumption
<1>4. PICK q \in TextsOver(K) : q = PortPart(parts) /\ q = IF T = Absent THEN <<>> ELSE Cat(<<":">>, T)
  BY <1>1, <1>2, PortPiece
<1>5. PICK D, a \in TextsOver(K) :
          /\ a = PathPart(parts, extra)
          /\ a = <<>> \/ (a = Cat(<<"/">>, D) /\ D \in TextsOver(K) /\ "@" \notin ToSet(D))
  <2>1. PICK D : D = PathCode(parts, extra)
    OBVIOUS
  <2>2. PICK a \in TextsOver(K) :
            a = PathPart(parts, extra) /\ a = IF parts.path = Absent THEN <<>> ELSE Cat(<<"/">>, D)
    BY <1>1, <2>1, PathPiece
  <2>3. parts.path # Absent => D \in TextsOver(K) /\ "@" \notin ToSet(D)
    <3>1. "@" \notin ToSet(parts.path) \ extra
      BY DEF TakenForLogin
    <3> QED
      BY <1>1, <2>1, <3>1, PathPiece
  <2>4. a = <<>> \/ (a = Cat(<<"/">>, D) /\ D \in TextsOver(K) /\ "@" \notin ToSet(D))
    BY <2>2, <2>3
  <2> QED
    BY <2>2, <2>4
<1>6. ToSet(<<>>) = {}
  BY DEF ToSet
<1>7. "@" \notin ToSet(q)
  <2>1. PICK m \in TextsOver(K) : m = <<":">> /\ ToSet(m) = {":"}
    BY <1>1, MarkTexts, SetOfOne
  <2>2. ToSet(Cat(m, T)) = {":"} \cup ToSet(T)
    BY <2>1, SetOfCat
  <2> QED
    BY <1>3, <1>4, <1>6, <2>1, <2>2
<1>8. "@" \notin ToSet(a)
  <2>1. PICK m \in TextsOver(K) : m = <<"/">> /\ ToSet(m) = {"/"}
    BY <1>1, MarkTexts, SetOfOne
  <2>2. D \in TextsOver(K) => ToSet(Cat(m, D)) = {"/"} \cup ToSet(D)
    BY <2>1, SetOfCat
  <2> QED
    BY <1>5, <1>6, <2>1, <2>2
<1>9. LoginPart(parts, extra) = <<>>
  BY LoginPiece
<1>10. /\ PatternAt(x, h, c) /\ d = c + Len(h) /\ c \in Nat \ {0}
       /\ PatternAt(x, q, d) /\ e = d + Len(q) /\ d \in Nat \ {0}
       /\ PatternAt(x, a, e) /\ e + Len(a) = Len(x) + 1 /\ e \in Nat \ {0}
       /\ c = b + Len(<<>>) /\ b \in Nat \ {0}
  BY <1>2, <1>4, <1>5, <1>9 DEF Placed
<1>11. c = b
  BY <1>10
<1>12. PICK k \in Nat, i \in Nat, l \in Nat : k = Len(h) /\ i = Len(q) /\ l = Len(a)
  BY LenProperties DEF TextsOver
<1>13. Free(x, "@", c, d) /\ Free(x, "@", d, e)
  BY <1>3, <1>7, <1>10, <1>12, PatternFree
<1>14. Free(x, "@", e, e + l)
  BY <1>8, <1>10, <1>12, PatternFree
<1>15. Free(x, "@", b, Len(x) + 1)
  <2>1. b \in Nat /\ d \in Nat /\ e \in Nat /\ d = b + k /\ e = d + i /\ e + l = Len(x) + 1
    BY <1>10, <1>11, <1>12
  <2>2. Free(x, "@", b, e)
    <3>1. ASSUME NEW j \in b..(e - 1) PROVE x[j] # "@"
      <4>1. j \in c..(d - 1) \/ j \in d..(e - 1)
        BY <1>11, <2>1
      <4> QED
        BY <1>13, <4>1 DEF Free
    <3> QED
      BY <3>1 DEF Free
  <2>3. Free(x, "@", b, e + l)
    BY <1>14, <2>1, <2>2 DEF Free
  <2> QED
    BY <2>1, <2>3
<1> QED
  BY <1>11, <1>15

\* What parse_URL makes of login and password, if the host begins at c.
LoginRead(parts, extra, x, c) ==
    /\ HostStart(x) = c /\ (At(x) = npos(x) <=> parts.login = Absent)
    /\ parts.login # Absent =>
           /\ PartsOf(x).login = decode_hex_byte(LoginCode(parts, extra))
           /\ PartsOf(x).password = decode_hex_byte(PasswordCode(parts, extra))
           /\ LoginEnd(x) = ProtoEnd(x) <=> LoginCode(parts, extra) = <<>>
           /\ ~(LoginEnd(x) > At(x))
    /\ parts.login = Absent =>
           PartsOf(x).login = Defaults.login /\ PartsOf(x).password = Defaults.password

\* Where login and password end, and what they are.
LEMMA LoginFound ==
    ASSUME NEW parts \in URLs, NEW extra \in Encodings,
           NEW x, NEW b, NEW c, NEW d, NEW e,
           UrlAt(parts, extra, x, b, c, d, e), ProtoEnd(x) = b, ~TakenForLogin(parts, extra)
    PROVE  LoginRead(parts, extra, x, c)
<1> SUFFICES ASSUME Placed(x, ProtocolPart(parts), LoginPart(parts, extra), parts.host, PortPart(parts),
                           PathPart(parts, extra), b, c, d, e),
                    x \in TextsOver(UrlChars(parts)), parts.host \in TextsOver(UrlChars(parts)),
                    NEW C, C = LoginCode(parts, extra), NEW W, W = PasswordCode(parts, extra)
             PROVE  /\ HostStart(x) = c /\ (At(x) = npos(x) <=> parts.login = Absent)
                    /\ parts.login # Absent =>
                           /\ PartsOf(x).login = decode_hex_byte(C) /\ PartsOf(x).password = decode_hex_byte(W)
                           /\ LoginEnd(x) = ProtoEnd(x) <=> C = <<>>
                           /\ ~(LoginEnd(x) > At(x))
                    /\ parts.login = Absent =>
                           PartsOf(x).login = Defaults.login /\ PartsOf(x).password = Defaults.password
  BY DEF UrlAt, LoginRead
<1>1. PICK K : K = UrlChars(parts)
  OBVIOUS
<1>2. /\ PartsOf(x).login = IF At(x) # npos(x) THEN decode_hex_byte(SubSeq(x, ProtoEnd(x), LoginEnd(x) - 1))
                            ELSE Defaults.login
      /\ PartsOf(x).password = IF At(x) # npos(x)
                               THEN decode_hex_byte(SubSeq(x, LoginEnd(x) + 1, At(x) - 1))
                               ELSE Defaults.password
  BY DEF PartsOf
<1>3. CASE parts.login = Absent
  <2>1. Free(x, "@", b, Len(x) + 1) /\ c = b
    BY <1>3, NoAt
  <2>2. b \in Nat \ {0} /\ b <= Len(x) + 1
    <3>1. PICK n \in Nat : n = Len(x)
      BY LenProperties DEF TextsOver
    <3>2. /\ b \in Nat \ {0} /\ c \in Nat \ {0} /\ d \in Nat \ {0} /\ e \in Nat \ {0}
          /\ b <= c /\ c <= d /\ d <= e /\ e <= n + 1
      BY <3>1 DEF Placed
    <3> QED
      BY <3>1, <3>2
  <2>3. At(x) = npos(x) /\ HostStart(x) = b
    BY <2>1, <2>2, LoginMissing
  <2> QED
    BY <1>2, <1>3, <2>1, <2>3
<1>4. CASE parts.login # Absent
  <2>1. /\ C \in TextsOver(K) /\ ToSet(C) \cap {":", "@"} = {}
        /\ W \in TextsOver(K) /\ "@" \notin ToSet(W)
    BY <1>1, <1>4, LoginPiece
  <2>2. PICK l : /\ l = LoginPart(parts, extra)
                 /\ l = Cat(C, Cat(<<":">>, Cat(W, <<"@">>)))
    <3>1. LoginPart(parts, extra) = LoginText(C, W)
      BY <1>1, <1>4, LoginPiece
    <3> QED
      BY <3>1 DEF LoginText
  <2>3. ":" \in K /\ "@" \in K
    BY <1>1, MarkTexts
  <2>4. PatternAt(x, l, b) /\ c = b + Len(l) /\ b \in Nat \ {0}
    BY <2>2 DEF Placed
  <2>5. x \in TextsOver(K)
    BY <1>1
  <2>6. /\ At(x) # npos(x) /\ HostStart(x) = c
        /\ SubSeq(x, b, LoginEnd(x) - 1) = C
        /\ SubSeq(x, LoginEnd(x) + 1, At(x) - 1) = W
        /\ ~(LoginEnd(x) > At(x))
        /\ LoginEnd(x) = b <=> C = <<>>
    BY <2>1, <2>2, <2>3, <2>4, <2>5, LoginPlaced
  <2> QED
    BY <1>2, <1>4, <2>6
<1> QED
  BY <1>3, <1>4

\* Where the path begins, and what it is.
LEMMA PathFound ==
    ASSUME NEW parts \in URLs, NEW extra \in Encodings,
           NEW x, NEW b, NEW c, NEW d, NEW e,
           UrlAt(parts, extra, x, b, c, d, e), HostStart(x) = c
    PROVE  /\ Slash(x) = e
           /\ parts.path = Absent => PartsOf(x).path = Defaults.path
           /\ parts.path # Absent => PartsOf(x).path = decode_hex_byte(PathCode(parts, extra))
<1> SUFFICES ASSUME Placed(x, ProtocolPart(parts), LoginPart(parts, extra), parts.host, PortPart(parts),
                           PathPart(parts, extra), b, c, d, e),
                    x \in TextsOver(UrlChars(parts)), parts.host \in TextsOver(UrlChars(parts)),
                    NEW D, D = PathCode(parts, extra)
             PROVE  /\ Slash(x) = e
                    /\ parts.path = Absent => PartsOf(x).path = Defaults.path
                    /\ parts.path # Absent => PartsOf(x).path = decode_hex_byte(D)
  BY DEF UrlAt
<1>1. PICK K : K = UrlChars(parts)
  OBVIOUS
<1>2. PICK h \in TextsOver(K), T \in TextsOver(K) : h = parts.host /\ T = parts.port
  BY <1>1, PortPiece
<1>3. "/" \notin ToSet(h) /\ "/" \notin ToSet(T)
  BY <1>2, UrlAssumption
<1>4. PICK q \in TextsOver(K) : q = PortPart(parts) /\ q = IF T = Absent THEN <<>> ELSE Cat(<<":">>, T)
  BY <1>1, <1>2, PortPiece
<1>5. "/" \notin ToSet(q)
  <2>1. PICK m \in TextsOver(K) : m = <<":">> /\ ToSet(m) = {":"}
    BY <1>1, MarkTexts, SetOfOne
  <2>2. ToSet(Cat(m, T)) = {":"} \cup ToSet(T)
    BY <2>1, SetOfCat
  <2>3. ToSet(<<>>) = {}
    BY DEF ToSet
  <2> QED
    BY <1>3, <1>4, <2>1, <2>2, <2>3
<1>6. PICK a \in TextsOver(K) :
          a = PathPart(parts, extra) /\ a = IF parts.path = Absent THEN <<>> ELSE Cat(<<"/">>, D)
  BY <1>1, PathPiece
<1>7. parts.path # Absent => D \in TextsOver(K)
  BY <1>1, PathPiece
<1>8. /\ PatternAt(x, h, c) /\ d = c + Len(h) /\ c \in Nat \ {0}
      /\ PatternAt(x, q, d) /\ e = d + Len(q) /\ d \in Nat \ {0}
      /\ PatternAt(x, a, e) /\ e + Len(a) = Len(x) + 1 /\ e \in Nat \ {0} /\ e <= Len(x) + 1
  BY <1>2, <1>4, <1>6 DEF Placed
<1>9. x \in TextsOver(K) /\ "/" \in K
  BY <1>1, MarkTexts
<1>10. PartsOf(x).path = IF Slash(x) = npos(x) THEN Defaults.path ELSE decode_hex_byte(Rest(x, Slash(x) + 1))
  BY DEF PartsOf
<1>11. PICK z \in TextsOver(K) : z = IF parts.path = Absent THEN <<>> ELSE D
  BY <1>7, CatTexts
<1>12. a = <<>> \/ a = Cat(<<"/">>, z)
  BY <1>6, <1>11
<1>13. /\ Slash(x) = e
       /\ Slash(x) = npos(x) <=> a = <<>>
       /\ a # <<>> => Rest(x, e + 1) = z
  <2>1. HostPortPath(K, x, h, q, a, c, d, e)
    BY <1>8 DEF HostPortPath
  <2> QED
    BY <1>3, <1>5, <1>9, <1>12, <2>1, PathPlaced
<1>14. ASSUME parts.path # Absent PROVE a # <<>>
  <2>1. PICK m \in TextsOver(K) : m = <<"/">> /\ Len(m) = 1
    BY <1>9, ShortTexts DEF TextsOver
  <2>2. a = Cat(m, z)
    BY <1>6, <1>11, <1>14, <2>1
  <2>3. Len(a) = 1 + Len(z) /\ Len(z) \in Nat
    BY <2>1, <2>2, CatLength, LenProperties DEF TextsOver
  <2>4. Len(a) # 0
    BY <2>3
  <2> QED
    BY <2>4
<1>15. CASE parts.path = Absent
  <2>1. a = <<>>
    BY <1>6, <1>15
  <2> QED
    BY <1>10, <1>13, <1>15, <2>1
<1>16. CASE parts.path # Absent
  <2>1. a # <<>> /\ z = D
    BY <1>11, <1>14, <1>16
  <2>2. Slash(x) # npos(x) /\ Rest(x, Slash(x) + 1) = D
    BY <1>13, <2>1
  <2>3. PartsOf(x).path = decode_hex_byte(D)
    BY <1>10, <2>2
  <2> QED
    BY <1>13, <1>16, <2>3
<1> QED
  BY <1>15, <1>16

\* Where the port begins, and what host and port are.
LEMMA PortFound ==
    ASSUME NEW parts \in URLs, NEW extra \in Encodings,
           NEW x, NEW b, NEW c, NEW d, NEW e,
           UrlAt(parts, extra, x, b, c, d, e), HostStart(x) = c, Slash(x) = e
    PROVE  /\ Colon(x) < Slash(x) <=> parts.port # Absent
           /\ PartsOf(x).host = parts.host
           /\ PartsOf(x).port = IF parts.port = Absent THEN Defaults.port ELSE parts.port
<1> SUFFICES ASSUME Placed(x, ProtocolPart(parts), LoginPart(parts, extra), parts.host, PortPart(parts),
                           PathPart(parts, extra), b, c, d, e),
                    x \in TextsOver(UrlChars(parts)), parts.host \in TextsOver(UrlChars(parts))
             PROVE  /\ Colon(x) < Slash(x) <=> parts.port # Absent
                    /\ PartsOf(x).host = parts.host
                    /\ PartsOf(x).port = IF parts.port = Absent THEN Defaults.port ELSE parts.port
  BY DEF UrlAt
<1>1. PICK K : K = UrlChars(parts)
  OBVIOUS
<1>2. PICK h \in TextsOver(K), T \in TextsOver(K) : h = parts.host /\ T = parts.port
  BY <1>1, PortPiece
<1>3. ":" \notin ToSet(h)
  BY <1>2, UrlAssumption
<1>4. PICK q \in TextsOver(K) : q = PortPart(parts) /\ q = IF T = Absent THEN <<>> ELSE Cat(<<":">>, T)
  BY <1>1, <1>2, PortPiece
<1>5. /\ PatternAt(x, h, c) /\ d = c + Len(h) /\ c \in Nat \ {0}
      /\ PatternAt(x, q, d) /\ e = d + Len(q) /\ d \in Nat \ {0}
      /\ e \in Nat \ {0} /\ e <= Len(x) + 1
  BY <1>2, <1>4 DEF Placed
<1>6. x \in TextsOver(K) /\ ":" \in K
  BY <1>1, MarkTexts
<1>7. /\ PartsOf(x).host = SubSeq(x, HostStart(x), (IF Colon(x) < Slash(x) THEN Colon(x) ELSE Slash(x)) - 1)
      /\ PartsOf(x).port = IF Colon(x) < Slash(x) THEN SubSeq(x, Colon(x) + 1, Slash(x) - 1) ELSE Defaults.port
  BY DEF PartsOf
<1>8. q = <<>> \/ q = Cat(<<":">>, T)
  BY <1>4
<1>9. /\ Colon(x) < Slash(x) <=> q # <<>>
      /\ q # <<>> => SubSeq(x, Colon(x) + 1, Slash(x) - 1) = T
      /\ SubSeq(x, HostStart(x), (IF Colon(x) < Slash(x) THEN Colon(x) ELSE Slash(x)) - 1) = h
  BY <1>3, <1>5, <1>6, <1>8, PortPlaced
<1>10. q # <<>> <=> T # Absent
  <2>1. PICK m \in TextsOver(K) : m = <<":">> /\ Len(m) = 1
    BY <1>6, ShortTexts DEF TextsOver
  <2>2. Len(Cat(m, T)) = 1 + Len(T) /\ Len(T) \in Nat
    BY <2>1, CatLength, LenProperties DEF TextsOver
  <2>3. Len(Cat(m, T)) # 0
    BY <2>2
  <2>4. Cat(m, T) # <<>>
    BY <2>3
  <2> QED
    BY <1>4, <2>1, <2>4
<1> QED
  BY <1>2, <1>7, <1>9, <1>10

\* No default is a mark for a bad escape sequence.
LEMMA DefaultsValid ==
    \A k \in {"login", "password", "path"} : Defaults[k] = <<"d">> /\ Invalid[1] \notin ToSet(Defaults[k])
<1>1. ToSet(<<"d">>) = {"d"}
  BY SetOfOne
<1> QED
  BY <1>1 DEF Defaults, Invalid

\* An absent part has no stray "%".
LEMMA AbsentHasNoStray == "stray" \notin ToSet(Absent)
<1>1. ToSet(Absent) = {"absent"}
  BY SetOfOne DEF Absent
<1> QED
  BY <1>1

\* What parse_URL makes of each part that has a value: the field, and whether it is refused.
FieldsRead(parts, r) ==
    /\ r.protocol = IF parts.protocol = Absent THEN Defaults.protocol ELSE parts.protocol
    /\ r.host = parts.host
    /\ r.port = IF parts.port = Absent THEN Defaults.port ELSE parts.port
    /\ parts.login = Absent => r.login = Defaults.login /\ r.password = Defaults.password
    /\ parts.login # Absent =>
           /\ "stray" \notin ToSet(parts.login) => r.login = parts.login
           /\ "stray" \notin ToSet(parts.password) => r.password = parts.password
    /\ parts.path = Absent => r.path = Defaults.path
    /\ parts.path # Absent => ("stray" \notin ToSet(parts.path) => r.path = parts.path)

\* The fields that parse_URL fills in, and whether it refuses the URL.
LEMMA UrlFields ==
    ASSUME NEW parts \in URLs, NEW extra \in Encodings, NEW x, x = Compose(parts, extra),
           ~TakenForProtocol(parts, extra), ~TakenForLogin(parts, extra)
    PROVE  FieldsRead(parts, PartsOf(x)) /\ (Refuses(x) <=> Refused(parts))
<1>1. PICK b, c, d, e : UrlAt(parts, extra, x, b, c, d, e)
  BY UrlPlaced
<1>2. /\ PatternAt(x, ProtocolPart(parts), 1) /\ b = 1 + Len(ProtocolPart(parts))
      /\ x \in TextsOver(UrlChars(parts))
  BY <1>1 DEF UrlAt, Placed
<1>3. /\ ProtoEnd(x) = b
      /\ PartsOf(x).protocol = IF parts.protocol = Absent THEN Defaults.protocol ELSE parts.protocol
  BY <1>2, ProtocolFound
<1>4. PICK C, W, D : C = LoginCode(parts, extra) /\ W = PasswordCode(parts, extra) /\ D = PathCode(parts, extra)
  OBVIOUS
<1>5. /\ HostStart(x) = c /\ (At(x) = npos(x) <=> parts.login = Absent)
      /\ parts.login # Absent =>
             /\ PartsOf(x).login = decode_hex_byte(C) /\ PartsOf(x).password = decode_hex_byte(W)
             /\ LoginEnd(x) = ProtoEnd(x) <=> C = <<>>
             /\ ~(LoginEnd(x) > At(x))
      /\ parts.login = Absent =>
             PartsOf(x).login = Defaults.login /\ PartsOf(x).password = Defaults.password
  <2>1. LoginRead(parts, extra, x, c)
    BY <1>1, <1>3, LoginFound
  <2> QED
    BY <1>4, <2>1 DEF LoginRead
<1>6. /\ Slash(x) = e
      /\ parts.path = Absent => PartsOf(x).path = Defaults.path
      /\ parts.path # Absent => PartsOf(x).path = decode_hex_byte(D)
  BY <1>1, <1>4, <1>5, PathFound
<1>7. /\ Colon(x) < Slash(x) <=> parts.port # Absent
      /\ PartsOf(x).host = parts.host
      /\ PartsOf(x).port = IF parts.port = Absent THEN Defaults.port ELSE parts.port
  BY <1>1, <1>5, <1>6, PortFound
<1>8. /\ parts.login # Absent => CodeOf(C, parts.login, {":", "@"} \cup {"%", "+"} \cup extra)
      /\ CodeOf(W, parts.password, {"@"} \cup {"%", "+"} \cup extra)
      /\ parts.path # Absent => CodeOf(D, parts.path, {} \cup {"%", "+"} \cup extra)
  BY <1>4, LoginPiece, PathPiece
<1>9. FieldsRead(parts, PartsOf(x))
  BY <1>3, <1>5, <1>6, <1>7, <1>8 DEF FieldsRead, CodeOf
<1>10. (At(x) # npos(x) /\ (LoginEnd(x) = ProtoEnd(x) \/ LoginEnd(x) > At(x))) <=> parts.login = <<>>
  <2>1. Absent # <<>>
    BY DEF Absent
  <2>2. parts.login # Absent => (C = <<>> <=> parts.login = <<>>)
    BY <1>8 DEF CodeOf
  <2> QED
    BY <1>5, <2>1, <2>2
<1>11. Invalid[1] = "invalid"
  BY DEF Invalid
<1>12. Invalid[1] \in ToSet(PartsOf(x).login) <=> "stray" \in ToSet(parts.login)
  <2>1. parts.login # Absent =>
            ("invalid" \in ToSet(decode_hex_byte(C)) <=> "stray" \in ToSet(parts.login))
    BY <1>8 DEF CodeOf
  <2> QED
    BY <1>5, <1>11, <2>1, DefaultsValid, AbsentHasNoStray
<1>13. Invalid[1] \in ToSet(PartsOf(x).password)
           <=> parts.login # Absent /\ "stray" \in ToSet(parts.password)
  <2>1. "invalid" \in ToSet(decode_hex_byte(W)) <=> "stray" \in ToSet(parts.password)
    BY <1>8 DEF CodeOf
  <2> QED
    BY <1>5, <1>11, <2>1, DefaultsValid
<1>14. Invalid[1] \in ToSet(PartsOf(x).path) <=> "stray" \in ToSet(parts.path)
  <2>1. parts.path # Absent =>
            ("invalid" \in ToSet(decode_hex_byte(D)) <=> "stray" \in ToSet(parts.path))
    BY <1>8 DEF CodeOf
  <2> QED
    BY <1>6, <1>11, <2>1, DefaultsValid, AbsentHasNoStray
<1>15. (Colon(x) < Slash(x) /\ ~ValidPort(PartsOf(x).port)) <=> parts.port # Absent /\ BadPort(parts.port)
  <2>1. PICK S : S = ToSet(parts.port)
    OBVIOUS
  <2>2. PICK t \in Seq(S) : t = parts.port
    BY <2>1, UrlAssumption DEF Defaults
  <2>3. ValidPort(t) <=> /\ ~(Len(t) > 5)
                         /\ \A i \in DOMAIN t : t[i] \in DOMAIN Digits
                         /\ Number(t) \in PortRange
    BY PortValid
  <2>4. ~ValidPort(t) <=> BadPort(t)
    BY <2>3 DEF BadPort
  <2> QED
    BY <1>7, <2>2, <2>4
<1>16. (\E k \in {"login", "password", "path"} : Invalid[1] \in ToSet(PartsOf(x)[k]))
           <=> \/ Invalid[1] \in ToSet(PartsOf(x).login)
               \/ Invalid[1] \in ToSet(PartsOf(x).password)
               \/ Invalid[1] \in ToSet(PartsOf(x).path)
  OBVIOUS
<1>17. (\E k \in {"login", "path"} : "stray" \in ToSet(parts[k]))
           <=> "stray" \in ToSet(parts.login) \/ "stray" \in ToSet(parts.path)
  OBVIOUS
<1>18. Refuses(x) <=> Refused(parts)
  BY <1>7, <1>10, <1>12, <1>13, <1>14, <1>15, <1>16, <1>17 DEF Refuses, Refused
<1> QED
  BY <1>9, <1>18

\* parse_URL gives back the parts, or refuses the URL.
LEMMA UrlRead ==
    ASSUME NEW parts \in URLs, NEW extra \in Encodings,
           ~TakenForProtocol(parts, extra), ~TakenForLogin(parts, extra)
    PROVE  parse_URL(Compose(parts, extra)) = Meant(parts)
<1>1. PICK x : x = Compose(parts, extra)
  OBVIOUS
<1>2. FieldsRead(parts, PartsOf(x)) /\ (Refuses(x) <=> Refused(parts))
  BY <1>1, UrlFields
<1>3. parse_URL(x) = [k \in DOMAIN Defaults |-> IF Refuses(x) THEN Invalid ELSE PartsOf(x)[k]]
  BY ParseUnfold
<1>4. ASSUME NEW k \in DOMAIN Defaults, ~Refused(parts)
      PROVE  PartsOf(x)[k] = IF parts[k] = Absent \/ (k = "password" /\ parts.login = Absent)
                             THEN Defaults[k] ELSE parts[k]
  <2>1. "stray" \notin ToSet(parts.login) /\ "stray" \notin ToSet(parts.path)
    BY <1>4 DEF Refused
  <2>2. parts.login # Absent => "stray" \notin ToSet(parts.password)
    BY <1>4 DEF Refused
  <2>3. parts.host # Absent /\ parts.password # Absent
    BY UrlAssumption
  <2>4. k \in {"protocol", "login", "password", "host", "port", "path"}
    BY DEF Defaults
  <2>5. CASE k = "protocol"
    BY <1>2, <2>5 DEF FieldsRead
  <2>6. CASE k = "login"
    BY <1>2, <2>1, <2>6 DEF FieldsRead
  <2>7. CASE k = "password"
    BY <1>2, <2>2, <2>3, <2>7 DEF FieldsRead
  <2>8. CASE k = "host"
    BY <1>2, <2>3, <2>8 DEF FieldsRead
  <2>9. CASE k = "port"
    BY <1>2, <2>9 DEF FieldsRead
  <2>10. CASE k = "path"
    BY <1>2, <2>1, <2>10 DEF FieldsRead
  <2> QED
    BY <2>4, <2>5, <2>6, <2>7, <2>8, <2>9, <2>10
<1>5. ASSUME NEW k \in DOMAIN Defaults
      PROVE  (IF Refuses(x) THEN Invalid ELSE PartsOf(x)[k])
               = IF Refused(parts) THEN Invalid
                 ELSE IF parts[k] = Absent \/ (k = "password" /\ parts.login = Absent)
                      THEN Defaults[k] ELSE parts[k]
  BY <1>2, <1>4
<1> QED
  BY <1>1, <1>3, <1>5 DEF Meant

\* A "/" is not lost in decode_hex_byte: it stays, or an escape sequence that it
\* is part of is refused.
LEMMA SlashStays ==
    ASSUME NEW N, NEW x \in TextsOver(N), "/" \in ToSet(x)
    PROVE  "/" \in ToSet(decode_hex_byte(x)) \/ "invalid" \in ToSet(decode_hex_byte(x))
<1>1. PICK l \in Nat : l = Len(x) /\ npos(x) = l + 1
  BY LenProperties DEF npos, TextsOver
<1>2. PICK K : K = Decoded(N)
  OBVIOUS
<1>3. PICK g : /\ Decodes(g, x) /\ decode_hex_byte(x) = g[1]
               /\ \A p \in 1..(npos(x) + 2) : g[p] \in TextsOver(K)
  BY <1>2, DecodesChosen
<1>4. PICK i \in 1..l : x[i] = "/"
  <2>1. DOMAIN x = 1..l
    BY <1>1, LenProperties DEF TextsOver
  <2> QED
    BY <2>1 DEF ToSet
<1> DEFINE Good(p) == "/" \in ToSet(g[p]) \/ "invalid" \in ToSet(g[p])
<1> DEFINE T == {k \in 0..(i - 1) : ~Good(i - k)}
<1>5. ASSUME T # {} PROVE FALSE
  <2>0. T \in SUBSET Nat
    OBVIOUS
  <2>1. PICK k \in T : \A j \in T : k <= j
    BY <1>5, <2>0, Least
  <2>2. PICK p \in 1..i : p = i - k
    BY <2>1
  <2>3. ~Good(p)
    BY <2>1, <2>2
  <2>4. ASSUME NEW r \in (p + 1)..i PROVE Good(r)
    <3>1. i - r \in 0..(i - 1) /\ i - (i - r) = r /\ ~(k <= i - r)
      BY <2>2, <2>4
    <3>2. i - r \notin T
      BY <2>1, <3>1
    <3> QED
      BY <3>1, <3>2
  <2>5. /\ p \in 1..l /\ p \in 1..(npos(x) + 2) /\ ~(p >= npos(x))
        /\ p + 1 \in 1..(l + 1) /\ p + 1 \in 1..(npos(x) + 2) /\ p + 3 \in 1..(npos(x) + 2)
    BY <1>1, <1>4, <2>2
  <2>6. \A s, t \in TextsOver(K) : ToSet(Cat(s, t)) = ToSet(s) \cup ToSet(t)
    BY SetOfCat
  <2>7. g[p + 1] \in TextsOver(K) /\ g[p + 3] \in TextsOver(K)
    BY <1>3, <2>5
  <2>8. CASE x[p] = "%"
    <3>1. PICK u : u = Unescape(substr(x, p + 1, 2))
      OBVIOUS
    <3>2. g[p] = Cat(u, g[p + 3])
      BY <1>3, <2>5, <2>8, <3>1 DEF Decodes, Cat
    <3>3. u \in TextsOver(K)
      <4>1. DOMAIN Escape \subseteq K /\ "invalid" \in K
        BY <1>2 DEF Decoded
      <4>2. \A c \in K : <<c>> \in TextsOver(K)
        BY CharTexts
      <4>3. u = Invalid \/ \E c \in DOMAIN Escape : u = <<c>>
        BY <3>1, UnescapeType
      <4> QED
        BY <4>1, <4>2, <4>3 DEF Invalid
    <3>4. ToSet(g[p]) = ToSet(u) \cup ToSet(g[p + 3])
      BY <2>6, <2>7, <3>2, <3>3
    <3>5. CASE p + 3 <= i
      <4>1. p + 3 \in (p + 1)..i
        BY <3>5
      <4>2. Good(p + 3)
        BY <2>4, <4>1
      <4> QED
        BY <2>3, <3>4, <4>2
    <3>6. CASE ~(p + 3 <= i)
      <4>1. i = p + 1 \/ i = p + 2
        <5>1. p # i
          BY <1>4, <2>8
        <5> QED
          BY <2>2, <3>6, <5>1
      <4>2. ASSUME NEW c \in DOMAIN Escape, Escape[c] = substr(x, p + 1, 2) PROVE FALSE
        <5>1. PICK e \in EscapeDigits, h \in EscapeDigits : Escape[c] = <<e, h>>
          BY EscapeFacts
        <5>2. PICK s \in Seq(EscapeDigits) : s = <<e, h>> /\ Len(s) = 2 /\ s[1] = e /\ s[2] = h
          BY ShortTexts
        <5>3. PICK q \in 1..(l + 1) : q = p + 1
          BY <2>5
        <5>4. substr(x, q, 2) = s <=> PatternAt(x, s, q)
          <6>1. x \in Seq(N) /\ q \in 1..(Len(x) + 1)
            BY <1>1 DEF TextsOver
          <6> QED
            BY <5>2, <6>1, SubstrTwo
        <5>5. PatternAt(x, s, q)
          BY <4>2, <5>1, <5>2, <5>3, <5>4
        <5>6. \A j \in 1..2 : x[q + j - 1] = s[j]
          BY <5>2, <5>5 DEF PatternAt
        <5>7. 1 \in 1..2 /\ 2 \in 1..2 /\ q + 1 - 1 = p + 1 /\ q + 2 - 1 = p + 2
          BY <5>3
        <5>8. x[p + 1] = e /\ x[p + 2] = h
          BY <5>2, <5>6, <5>7
        <5>9. "/" \notin EscapeDigits
          BY DEF EscapeDigits
        <5> QED
          BY <1>4, <4>1, <5>8, <5>9
      <4>3. u = Invalid
        BY <3>1, <4>2, UnescapeType
      <4>4. ToSet(u) = {"invalid"}
        BY <4>3, SetOfOne DEF Invalid
      <4> QED
        BY <2>3, <3>4, <4>4
    <3> QED
      BY <3>5, <3>6
  <2>9. CASE x[p] # "%"
    <3>1. PICK c : c = IF x[p] = "+" THEN " " ELSE x[p]
      OBVIOUS
    <3>2. g[p] = Cat(<<c>>, g[p + 1])
      BY <1>3, <2>5, <2>9, <3>1 DEF Decodes, Cat
    <3>3. <<c>> \in TextsOver(K)
      <4>1. x[p] \in N
        BY <1>1, <2>5, ElementOfSeq DEF TextsOver
      <4>2. c \in K
        BY <1>2, <3>1, <4>1 DEF Decoded
      <4> QED
        BY <4>2, CharTexts
    <3>4. ToSet(g[p]) = {c} \cup ToSet(g[p + 1])
      BY <2>6, <2>7, <3>2, <3>3, SetOfOne
    <3>5. CASE p = i
      BY <1>4, <2>3, <3>1, <3>4, <3>5
    <3>6. CASE p # i
      <4>1. p + 1 \in (p + 1)..i
        BY <2>2, <3>6
      <4>2. Good(p + 1)
        BY <2>4, <4>1
      <4> QED
        BY <2>3, <3>4, <4>2
    <3> QED
      BY <3>5, <3>6
  <2> QED
    BY <2>8, <2>9
<1>6. i - 1 \in 0..(i - 1) /\ i - (i - 1) = 1 /\ i - 1 \notin T
  BY <1>5
<1>7. Good(1)
  BY <1>6
<1> QED
  BY <1>3, <1>7

\* A "@" that need not be encoded stays in the code.
LEMMA BareStays ==
    ASSUME NEW M, NEW t \in TextsOver(M), NEW R, Reserves(R), "@" \notin R, "@" \in ToSet(t)
    PROVE  "@" \in ToSet(Encode(t, R))
<1>1. PICK l \in Nat : l = Len(t)
  BY LenProperties DEF TextsOver
<1>2. PICK i \in 1..l : t[i] = "@"
  <2>1. DOMAIN t = 1..l
    BY <1>1, LenProperties DEF TextsOver
  <2> QED
    BY <2>1 DEF ToSet
<1>3. PICK u \in TextsOver(M), w \in TextsOver(M) : u = SubSeq(t, 1, i - 1) /\ w = SubSeq(t, i + 1, l)
  BY <1>1, PartsAt DEF TextsOver
<1>4. "@" \in M
  BY <1>1, <1>2, ElementOfSeq DEF TextsOver
<1>5. PICK y \in TextsOver(M) : y = <<"@">>
  BY <1>4, CharTexts
<1>6. t = Cat(Cat(u, y), w)
  BY <1>1, <1>2, <1>3, <1>5, SplitAt DEF TextsOver, Cat
<1>7. PICK N : N = CodeChars(M, R)
  OBVIOUS
<1>8. PICK a \in TextsOver(N), b \in TextsOver(N), d \in TextsOver(N) :
          a = Encode(u, R) /\ b = Encode(y, R) /\ d = Encode(w, R)
  BY <1>7, EncodeJoins
<1>9. b = <<"@">>
  <2>1. Code("@", R) = <<"@">>
    BY DEF Code
  <2> QED
    BY <1>4, <1>5, <1>7, <1>8, <2>1, EncodeJoins
<1>10. PICK v \in TextsOver(M) : v = Cat(u, y)
  BY CatTexts
<1>11. Encode(v, R) = Cat(a, b) /\ Encode(t, R) = Cat(Encode(v, R), d)
  BY <1>6, <1>7, <1>8, <1>10, EncodeJoins
<1>12. PICK ab \in TextsOver(N) : ab = Cat(a, b)
  BY CatTexts
<1>13. ToSet(Cat(ab, d)) = ToSet(ab) \cup ToSet(d) /\ ToSet(ab) = ToSet(a) \cup ToSet(b)
  BY <1>12, SetOfCat
<1>14. ToSet(b) = {"@"}
  BY <1>9, SetOfOne
<1> QED
  BY <1>11, <1>12, <1>13, <1>14

\* A piece of a text has the characters that are there.
LEMMA PieceHas ==
    ASSUME NEW K, NEW x \in TextsOver(K), NEW n \in Nat, n = Len(x), NEW p \in 1..n, NEW q \in 1..n,
           NEW i \in p..q
    PROVE  SubSeq(x, p, q) \in TextsOver(K) /\ x[i] \in ToSet(SubSeq(x, p, q))
<1>1. \A j \in p..q : x[j] \in K
  BY ElementOfSeq DEF TextsOver
<1>2. PICK v : v = SubSeq(x, p, q)
  OBVIOUS
<1>3. /\ v \in Seq(K) /\ Len(v) = IF p <= q THEN q - p + 1 ELSE 0
      /\ \A j \in 1..(q - p + 1) : v[j] = x[p + j - 1]
  BY <1>1, <1>2, SubSeqProperties
<1>4. PICK j \in 1..(q - p + 1) : p + j - 1 = i
  <2>1. i - p + 1 \in 1..(q - p + 1) /\ p + (i - p + 1) - 1 = i
    OBVIOUS
  <2> QED
    BY <2>1
<1>5. DOMAIN v = 1..(q - p + 1)
  BY <1>3, LenProperties
<1> QED
  BY <1>2, <1>3, <1>4, <1>5 DEF TextsOver, ToSet

\* The first place of a character, or the end.
LEMMA CharFound ==
    ASSUME NEW K, NEW x \in TextsOver(K), NEW n \in Nat, n = Len(x), NEW c, NEW p \in 1..(n + 1)
    PROVE  /\ FindAny(x, <<c>>, p) \in p..(n + 1)
           /\ FindAny(x, <<c>>, p) # n + 1 => x[FindAny(x, <<c>>, p)] = c
           /\ \A j \in p..n : x[j] = c => FindAny(x, <<c>>, p) <= j
<1>1. PICK i : i = FindAny(x, <<c>>, p)
  OBVIOUS
<1>2. PICK y \in Seq({c}) : y = <<c>> /\ Len(y) = 1 /\ y[1] = c
  BY ShortTexts
<1>3. FirstAt(x, y, p, i)
  <2>1. y # <<>> /\ x \in Seq(K) /\ p \in 1..(Len(x) + 1)
    BY <1>2 DEF TextsOver
  <2> QED
    BY <1>1, <1>2, <2>1, FindFirst
<1>4. \A j \in 1..n : PatternAt(x, y, j) <=> x[j] = c
  BY <1>2 DEF PatternAt
<1>5. i \in p..(n + 1) /\ (i # n + 1 => x[i] = c)
  <2>1. i \in p..(n + 1) /\ (i # n + 1 => PatternAt(x, y, i))
    BY <1>3 DEF FirstAt
  <2>2. i # n + 1 => i \in 1..n
    BY <2>1
  <2> QED
    BY <1>4, <2>1, <2>2
<1>6. ASSUME NEW j \in p..n, x[j] = c PROVE i <= j
  <2>1. j \in 1..n /\ PatternAt(x, y, j)
    BY <1>4, <1>6
  <2>2. j \notin p..(i - 1)
    BY <1>3, <2>1 DEF FirstAt
  <2> QED
    BY <1>5, <1>6, <2>2
<1> QED
  BY <1>1, <1>5, <1>6

\* Such a URL: the path begins with "/" at e, and the first "@" from b on is in it.
LEMMA BareAt ==
    ASSUME NEW parts \in URLs, NEW extra \in Encodings, TakenForLogin(parts, extra),
           NEW x, NEW b, NEW c, NEW d, NEW e, UrlAt(parts, extra, x, b, c, d, e)
    PROVE  /\ b \in Nat \ {0} /\ e \in Nat /\ b <= e /\ x[e] = "/"
           /\ FindAny(x, <<"@">>, b) \in (e + 1)..Len(x)
<1>1. PICK K : K = UrlChars(parts)
  OBVIOUS
<1>2. x \in TextsOver(K)
  BY <1>1 DEF UrlAt
<1>3. PICK n \in Nat : n = Len(x)
  BY <1>2, LenProperties DEF TextsOver
<1>4. PICK D : D = PathCode(parts, extra)
  OBVIOUS
<1>5. parts.path # Absent
  <2>1. ToSet(Absent) = {"absent"}
    BY SetOfOne DEF Absent
  <2> QED
    BY <2>1 DEF TakenForLogin
<1>6. D \in TextsOver(K) /\ PathPart(parts, extra) = Cat(<<"/">>, D)
  BY <1>1, <1>4, <1>5, PathPiece
<1>7. "@" \in ToSet(D)
  <2>1. PICK k \in {"login", "password", "path"} : k = "path"
    OBVIOUS
  <2>2. k \in DOMAIN Defaults
    BY DEF Defaults
  <2>3. PICK t : t = parts.path /\ t \in TextsOver(ToSet(t))
    BY <2>1, <2>2, PartFacts
  <2>4. PICK R : R = {} \cup {"%", "+"} \cup extra
    OBVIOUS
  <2>5. Reserves(R)
    <3>1. "%" \in DOMAIN Escape /\ "+" \in DOMAIN Escape /\ "@" \in DOMAIN Escape
      BY EscapeFacts
    <3>2. extra \subseteq DOMAIN Escape
      BY <3>1 DEF Encodings
    <3> QED
      BY <2>4, <3>1, <3>2 DEF Reserves
  <2>6. "@" \in ToSet(t) /\ "@" \notin R
    BY <2>3, <2>4 DEF TakenForLogin
  <2>7. D = Encode(t, R)
    BY <1>4, <1>5, <2>3, <2>4 DEF PathCode, CodedOf
  <2> QED
    BY <2>3, <2>5, <2>6, <2>7, BareStays
<1>8. PICK h \in TextsOver(K), q \in TextsOver(K), T \in TextsOver(K) :
          /\ h = parts.host /\ T = parts.port
          /\ q = PortPart(parts) /\ q = IF T = Absent THEN <<>> ELSE Cat(<<":">>, T)
  BY <1>1, PortPiece DEF UrlAt
<1>9. "@" \notin ToSet(h) /\ "@" \notin ToSet(T)
  BY <1>8, UrlAssumption
<1>10. "@" \notin ToSet(q)
  <2>1. PICK m \in TextsOver(K) : m = <<":">> /\ ToSet(m) = {":"}
    BY <1>1, MarkTexts, SetOfOne
  <2>2. ToSet(Cat(m, T)) = {":"} \cup ToSet(T)
    BY <2>1, SetOfCat
  <2>3. ToSet(<<>>) = {}
    BY DEF ToSet
  <2> QED
    BY <1>8, <1>9, <2>1, <2>2, <2>3
<1>11. LoginPart(parts, extra) = <<>>
  BY LoginPiece DEF TakenForLogin
<1>12. /\ PatternAt(x, h, c) /\ d = c + Len(h) /\ c \in Nat \ {0}
       /\ PatternAt(x, q, d) /\ e = d + Len(q) /\ d \in Nat \ {0}
       /\ PatternAt(x, Cat(<<"/">>, D), e) /\ e \in Nat \ {0}
       /\ c = b + Len(<<>>) /\ b \in Nat \ {0} /\ c <= d /\ d <= e
  BY <1>6, <1>8, <1>11 DEF UrlAt, Placed
<1>13. c = b
  BY <1>12
<1>14. PICK k \in Nat, i \in Nat, m \in Nat : k = Len(h) /\ i = Len(q) /\ m = Len(D)
  BY <1>6, LenProperties DEF TextsOver
<1>15. Free(x, "@", c, d) /\ Free(x, "@", d, e)
  BY <1>9, <1>10, <1>12, <1>14, PatternFree
<1>16. PICK u \in TextsOver(K) : u = <<"/">> /\ Len(u) = 1 /\ u[1] = "/"
  BY <1>1, MarkTexts, ShortTexts DEF TextsOver
<1>17. PatternAt(x, u, e) /\ PatternAt(x, D, e + 1)
  BY <1>3, <1>6, <1>12, <1>16, PatternParts
<1>18. e <= n /\ x[e] = "/"
  <2>1. e + 1 - 1 <= n /\ 1 \in 1..1 /\ x[e + 1 - 1] = u[1]
    BY <1>3, <1>16, <1>17 DEF PatternAt
  <2> QED
    BY <1>12, <1>16, <2>1
<1>19. PICK j \in (e + 1)..n : x[j] = "@"
  <2>1. PICK a \in 1..m : D[a] = "@"
    <3>1. DOMAIN D = 1..m
      BY <1>6, <1>14, LenProperties DEF TextsOver
    <3> QED
      BY <1>7, <3>1 DEF ToSet
  <2>2. (e + 1) + m - 1 <= n /\ x[(e + 1) + a - 1] = D[a]
    BY <1>3, <1>14, <1>17 DEF PatternAt
  <2>3. (e + 1) + a - 1 \in (e + 1)..n
    BY <1>12, <2>2
  <2> QED
    BY <2>1, <2>2, <2>3
<1>20. PICK p : p = FindAny(x, <<"@">>, b)
  OBVIOUS
<1>21. p \in b..(n + 1) /\ (p # n + 1 => x[p] = "@") /\ p <= j
  <2>1. b \in 1..(n + 1) /\ j \in b..n
    BY <1>12, <1>13, <1>18, <1>19
  <2>2. PICK s \in 1..(n + 1) : s = b
    BY <2>1
  <2>3. /\ FindAny(x, <<"@">>, s) \in s..(n + 1)
        /\ FindAny(x, <<"@">>, s) # n + 1 => x[FindAny(x, <<"@">>, s)] = "@"
        /\ \A r \in s..n : x[r] = "@" => FindAny(x, <<"@">>, s) <= r
    BY <1>2, <1>3, CharFound
  <2>4. p = FindAny(x, <<"@">>, s)
    BY <1>20, <2>2
  <2>5. p \in b..(n + 1) /\ (p # n + 1 => x[p] = "@")
    BY <2>2, <2>3, <2>4
  <2>6. p <= j
    BY <1>19, <2>1, <2>2, <2>3, <2>4
  <2> QED
    BY <2>5, <2>6
<1>22. p # n + 1 /\ x[p] = "@"
  BY <1>12, <1>19, <1>21
<1>23. p \notin c..(d - 1) /\ p \notin d..(e - 1) /\ p # e
  BY <1>15, <1>18, <1>22 DEF Free
<1>24. p \in (e + 1)..n
  BY <1>12, <1>13, <1>21, <1>22, <1>23
<1> QED
  BY <1>3, <1>12, <1>13, <1>18, <1>20, <1>24

\* Hence it is refused, or what is read as the login or as the password has a "/".
LEMMA UrlMistaken ==
    ASSUME NEW parts \in URLs, NEW extra \in Encodings, ~TakenForProtocol(parts, extra),
           TakenForLogin(parts, extra), ~Refused(parts)
    PROVE  parse_URL(Compose(parts, extra)) # Meant(parts)
<1>1. PICK x : x = Compose(parts, extra)
  OBVIOUS
<1>2. PICK b, c, d, e : UrlAt(parts, extra, x, b, c, d, e)
  BY <1>1, UrlPlaced
<1>3. PICK K : x \in TextsOver(K)
  BY <1>2 DEF UrlAt
<1>4. PICK n \in Nat : n = Len(x) /\ npos(x) = n + 1
  BY <1>3, LenProperties DEF TextsOver, npos
<1>5. ProtoEnd(x) = b
  BY <1>1, <1>2, ProtocolFound DEF UrlAt, Placed
<1>6. /\ b \in Nat \ {0} /\ e \in Nat /\ b <= e /\ x[e] = "/" /\ At(x) \in (e + 1)..n
  BY <1>2, <1>4, <1>5, BareAt DEF At
<1>7. At(x) # npos(x) /\ b \in 1..(n + 1)
  BY <1>4, <1>6
<1>8. /\ LoginEnd(x) \in b..(n + 1)
      /\ LoginEnd(x) # n + 1 => x[LoginEnd(x)] = ":"
  BY <1>3, <1>4, <1>5, <1>7, CharFound DEF LoginEnd
<1>9. /\ PartsOf(x).login = decode_hex_byte(SubSeq(x, b, LoginEnd(x) - 1))
      /\ PartsOf(x).password = decode_hex_byte(SubSeq(x, LoginEnd(x) + 1, At(x) - 1))
  BY <1>5, <1>7 DEF PartsOf
<1>10. /\ Meant(parts).login = <<"d">> /\ Meant(parts).password = <<"d">>
       /\ ToSet(<<"d">>) = {"d"} /\ <<"d">> # Invalid
       /\ "login" \in DOMAIN Defaults /\ "password" \in DOMAIN Defaults
  <2>1. ToSet(<<"d">>) = {"d"} /\ ToSet(Invalid) = {"invalid"}
    BY SetOfOne DEF Invalid
  <2>2. "login" \in DOMAIN Defaults /\ "password" \in DOMAIN Defaults
    BY DEF Defaults
  <2>3. parts.login = Absent
    BY DEF TakenForLogin
  <2> QED
    BY <2>1, <2>2, <2>3, DefaultsValid DEF Meant
<1>11. parse_URL(x) = [k \in DOMAIN Defaults |-> IF Refuses(x) THEN Invalid ELSE PartsOf(x)[k]]
  BY ParseUnfold
<1>12. CASE Refuses(x)
  <2>1. parse_URL(x).login = Invalid
    BY <1>10, <1>11, <1>12
  <2> QED
    BY <1>1, <1>10, <2>1
<1>13. CASE ~Refuses(x)
  <2>1. LoginEnd(x) # b /\ ~(LoginEnd(x) > At(x))
    BY <1>5, <1>7, <1>13 DEF Refuses
  <2>2. Invalid[1] = "invalid"
    BY DEF Invalid
  <2>3. "invalid" \notin ToSet(PartsOf(x).login) /\ "invalid" \notin ToSet(PartsOf(x).password)
    BY <1>13, <2>2 DEF Refuses
  <2>4. parse_URL(x).login = PartsOf(x).login /\ parse_URL(x).password = PartsOf(x).password
    BY <1>10, <1>11, <1>13
  <2>5. LoginEnd(x) # e
    BY <1>4, <1>6, <1>8, <2>1
  <2>6. CASE e < LoginEnd(x)
    <3>1. PICK p \in 1..n, q \in 1..n : p = b /\ q = LoginEnd(x) - 1
      <4>1. PICK j \in Nat : j = LoginEnd(x) /\ j \in b..(n + 1) /\ j # b
        BY <1>6, <1>8, <2>1
      <4>2. b \in 1..n /\ j - 1 \in 1..n
        BY <1>6, <4>1
      <4> QED
        BY <4>1, <4>2
    <3>2. e \in p..q
      BY <1>6, <1>8, <2>6, <3>1
    <3>3. SubSeq(x, p, q) \in TextsOver(K) /\ x[e] \in ToSet(SubSeq(x, p, q))
      BY <1>3, <1>4, <3>2, PieceHas
    <3>4. "/" \in ToSet(PartsOf(x).login)
      BY <1>6, <1>9, <2>3, <3>1, <3>3, SlashStays
    <3> QED
      BY <1>1, <1>10, <2>4, <3>4
  <2>7. CASE LoginEnd(x) < e
    <3>1. PICK p \in 1..n, q \in 1..n : p = LoginEnd(x) + 1 /\ q = At(x) - 1
      BY <1>6, <1>8, <2>7
    <3>2. e \in p..q
      BY <1>6, <1>8, <2>7, <3>1
    <3>3. SubSeq(x, p, q) \in TextsOver(K) /\ x[e] \in ToSet(SubSeq(x, p, q))
      BY <1>3, <1>4, <3>2, PieceHas
    <3>4. "/" \in ToSet(PartsOf(x).password)
      BY <1>6, <1>9, <2>3, <3>1, <3>3, SlashStays
    <3> QED
      BY <1>1, <1>10, <2>4, <3>4
  <2> QED
    BY <1>6, <1>8, <2>5, <2>6, <2>7
<1> QED
  BY <1>12, <1>13
-----------------------------------------------------------------------------
(***************************************************************************)
(* The conversions in a behaviour.                                         *)
(***************************************************************************)
\* What was written is a message, formatted or sanitized; what was configured
\* is a URL, taken apart.
ConversionInv ==
    /\ converted.what = "file" =>
          converted.text \in MarkupTexts /\ result = formatCData(converted.text)
    /\ converted.what = "body" =>
          /\ converted.text \in BodyTexts
          /\ \E o \in Orders : result = sanitize_string(converted.text, o)
    /\ converted.what = "url" =>
          \E parts \in URLs, extra \in Encodings :
              converted.text = <<parts, extra>> /\ result = parse_URL(Compose(parts, extra))

\* Only WriteCData, WriteBody and Configure make such results, and nothing changes them.
LEMMA ConversionInvariant == TextSpec => []ConversionInv
<1>1. TextInit => ConversionInv
  BY DEF TextInit, ConversionInv
<1>2. ConversionInv /\ [TextNext]_<<vars, textVars>> => ConversionInv'
  <2> SUFFICES ASSUME ConversionInv, [TextNext]_<<vars, textVars>> PROVE ConversionInv'
    OBVIOUS
  <2>1. CASE WriteCData
    <3>1. PICK t \in MarkupTexts : Convert("file", t, formatCData(t))
      BY <2>1 DEF WriteCData
    <3> QED
      BY <3>1 DEF Convert, ConversionInv
  <2>2. CASE WriteBody
    <3>1. PICK t \in BodyTexts, o \in Orders : Convert("body", t, sanitize_string(t, o))
      BY <2>2 DEF WriteBody
    <3> QED
      BY <3>1 DEF Convert, ConversionInv
  <2>3. CASE Configure
    <3>1. PICK parts \in URLs, extra \in Encodings :
              Convert("url", <<parts, extra>>, parse_URL(Compose(parts, extra)))
      BY <2>3 DEF Configure
    <3> QED
      BY <3>1 DEF Convert, ConversionInv
  <2>4. CASE UNCHANGED textVars
    BY <2>4 DEF textVars, ConversionInv
  <2> QED
    BY <2>1, <2>2, <2>3, <2>4 DEF TextNext
<1> QED
  BY <1>1, <1>2, PTL DEF TextSpec

\* output_stream_file writes a message as formatCData makes it, and a reader of
\* the log file gets the message back, whatever characters, parts of markup or
\* end marks of sections it has.
THEOREM FileReadsBack == TextSpec => []CDataReadsBack
<1>1. ConversionInv => CDataReadsBack
  <2> SUFFICES ASSUME ConversionInv, converted.what = "file"
               PROVE  CData(result) = converted.text
    BY DEF CDataReadsBack
  <2>1. PICK t : t = converted.text /\ t \in MarkupTexts /\ result = formatCData(t)
    BY DEF ConversionInv
  <2>2. PICK S : t \in Seq(S)
    BY <2>1, TextAssumption
  <2>3. CData(formatCData(t)) = t
    BY <2>2, ReadBack
  <2> QED
    BY <2>1, <2>3
<1> QED
  BY <1>1, ConversionInvariant, PTL

\* output_stream_stomp writes a message into the body of a frame as
\* sanitize_string makes it, and a reader gets the message back, in whatever
\* order the map of replacements is traversed and whatever characters, also "&"
\* and names of entities, the message has.
THEOREM FrameReadsBack == TextSpec => []BodyReadsBack
<1>1. ConversionInv => BodyReadsBack
  <2> SUFFICES ASSUME ConversionInv, converted.what = "body"
               PROVE  CharData(result) = Visible(converted.text)
    BY DEF BodyReadsBack, Visible
  <2>1. PICK t : t = converted.text /\ t \in BodyTexts
    BY DEF ConversionInv
  <2>2. PICK o \in Orders : result = sanitize_string(t, o)
    BY <2>1 DEF ConversionInv
  <2>3. PICK S : t \in Seq(S)
    BY <2>1, TextAssumption
  <2>4. CharData(sanitize_string(t, o)) = Visible(t)
    BY <2>3, BodyReadBack
  <2> QED
    BY <2>1, <2>2, <2>4
<1> QED
  BY <1>1, ConversionInvariant, PTL

\* parse_URL gives back the parts that a URL was made of, whichever characters
\* were encoded besides those that must be and whatever parts are absent, and
\* refuses the URL if and only if the port, the login, the host or an escape
\* sequence is bad; unless a URL without protocol has "://" in it.  A URL
\* without login that has a bare "@" in its path is never read as it was meant.
THEOREM UrlGivesItsParts == TextSpec => []UrlReadsBack
<1>1. ConversionInv => UrlReadsBack
  <2> SUFFICES ASSUME ConversionInv, converted.what = "url" PROVE UrlReadsBack
    BY DEF UrlReadsBack
  <2>1. PICK parts \in URLs, extra \in Encodings :
            converted.text = <<parts, extra>> /\ result = parse_URL(Compose(parts, extra))
    BY DEF ConversionInv
  <2>2. converted.text[1] = parts /\ converted.text[2] = extra
    BY <2>1
  <2>3. ~TakenForProtocol(parts, extra) /\ ~TakenForLogin(parts, extra) => result = Meant(parts)
    BY <2>1, UrlRead
  <2>4. ~TakenForProtocol(parts, extra) /\ TakenForLogin(parts, extra) /\ ~Refused(parts) =>
            result # Meant(parts)
    BY <2>1, UrlMistaken
  <2> QED
    BY <2>2, <2>3, <2>4 DEF UrlReadsBack
<1> QED
  BY <1>1, ConversionInvariant, PTL
=============================================================================
