------------------------------ MODULE LismLemmas ------------------------------
(* Facts about the library operators the models use.                         *)
EXTENDS Integers, FiniteSets, SequencesExt, FiniteSetTheorems, SequenceTheorems, TLAPS

\* A set of naturals that is not empty has a least element, and Min chooses it.
\* Used wherever the code scans an array for its first match.
LEMMA MinOfNaturals ==
  ASSUME NEW S \in SUBSET Nat, S # {}
  PROVE  /\ Min(S) \in S
         /\ \A y \in S : Min(S) <= y
<1> DEFINE T == {0 .. x : x \in S}
<1>1. T \subseteq FiniteSubsetsOf(Nat) /\ T # {}
  <2>1. \A x \in S : 0 .. x \in SUBSET Nat
    OBVIOUS
  <2>2. \A x \in S : IsFiniteSet(0 .. x)
    BY FS_Interval
  <2>3. QED
    BY <2>1, <2>2 DEF FiniteSubsetsOf
<1>2. IsWellFoundedOn(StrictSubsetOrdering(Nat), FiniteSubsetsOf(Nat))
  BY FS_StrictSubsetOrderingWellFounded
<1>3. PICK A \in T : \A B \in T : ~ (<<B, A>> \in StrictSubsetOrdering(Nat))
  <2> HIDE DEF T
  <2> QED
    BY <1>1, <1>2, WFMin
<1>4. PICK m \in S : A = 0 .. m
  OBVIOUS
<1>5. \A y \in S : m <= y
  <2>1. SUFFICES ASSUME NEW y \in S, y < m PROVE FALSE
    OBVIOUS
  <2>2. 0 .. y \in T
    OBVIOUS
  <2>3. 0 .. y \in SUBSET Nat /\ 0 .. m \in SUBSET Nat /\ 0 .. y \subseteq 0 .. m
    BY <2>1
  <2>4. m \in 0 .. m /\ m \notin 0 .. y
    BY <2>1
  <2>5. <<0 .. y, 0 .. m>> \in StrictSubsetOrdering(Nat)
    BY <2>3, <2>4, Zenon DEF StrictSubsetOrdering
  <2>6. QED
    BY <1>3, <1>4, <2>2, <2>5
<1>6. QED
  BY <1>5 DEF Min

\* The greater of two naturals.
LEMMA MaxOfTwo ==
  ASSUME NEW a \in Nat, NEW b \in Nat
  PROVE  Max({a, b}) \in {a, b}
<1>1. \E x \in {a, b} : \A y \in {a, b} : x >= y
  OBVIOUS
<1>2. QED
  BY <1>1 DEF Max

\* Taking an element off a sequence takes no other off: what k_work_cancel does
\* to a queue of work items.
LEMMA RemoveFirstKeeps ==
  ASSUME NEW S, NEW s \in Seq(S), NEW e
  PROVE  /\ RemoveFirst(s, e) \in Seq(S)
         /\ \A f : f # e /\ Contains(s, f) => Contains(RemoveFirst(s, e), f)
<1>1. CASE ~ \E i \in 1 .. Len(s) : s[i] = e
  BY <1>1 DEF RemoveFirst
<1>2. CASE \E i \in 1 .. Len(s) : s[i] = e
  <2> DEFINE I == {i \in 1 .. Len(s) : s[i] = e}
             k == Min(I)
             a == SubSeq(s, 1, k - 1)
             b == SubSeq(s, k + 1, Len(s))
  <2>1. RemoveFirst(s, e) = RemoveAt(s, k)
    BY <1>2 DEF RemoveFirst, SelectInSeq
  <2>2. Len(s) \in Nat /\ s \in [1 .. Len(s) -> S]
    BY LenProperties
  <2>3. I \in SUBSET Nat /\ I # {}
    BY <1>2, <2>2
  <2>4. k \in I
    <3> HIDE DEF I
    <3> QED BY <2>3, MinOfNaturals
  <2>5. k \in 1 .. Len(s) /\ s[k] = e
    BY <2>4
  <2> HIDE DEF k
  <2>6. \A i \in 1 .. k - 1 : s[i] \in S
    BY <2>2, <2>5
  <2>7. \A i \in k + 1 .. Len(s) : s[i] \in S
    BY <2>2, <2>5
  <2>8. /\ a \in Seq(S) /\ Len(a) = k - 1 /\ \A i \in 1 .. k - 1 : a[i] = s[i]
    <3>1. k - 1 \in Int /\ 1 \in Int /\ k - 1 - 1 + 1 = k - 1
      BY <2>5
    <3>2. /\ a \in Seq(S) /\ Len(a) = IF 1 <= k - 1 THEN k - 1 - 1 + 1 ELSE 0
          /\ \A i \in 1 .. k - 1 - 1 + 1 : a[i] = s[1 + i - 1]
      BY <2>6, <3>1, SubSeqProperties
    <3>3. QED
      BY <2>5, <3>1, <3>2
  <2>9. /\ b \in Seq(S) /\ Len(b) = Len(s) - k
        /\ \A i \in 1 .. Len(s) - k : b[i] = s[k + i]
    <3>1. k + 1 \in Int /\ Len(s) \in Int
      BY <2>2, <2>5
    <3>2. /\ b \in Seq(S) /\ Len(b) = IF k + 1 <= Len(s) THEN Len(s) - (k + 1) + 1 ELSE 0
          /\ \A i \in 1 .. Len(s) - (k + 1) + 1 : b[i] = s[k + 1 + i - 1]
      BY <2>7, <3>1, SubSeqProperties
    <3>3. QED
      BY <2>2, <2>5, <3>2
  <2>10. RemoveFirst(s, e) = a \o b
    BY <2>1 DEF RemoveAt
  <2> HIDE DEF a, b, I
  <2>11. /\ a \o b \in Seq(S) /\ Len(a \o b) = Len(s) - 1
         /\ \A i \in 1 .. Len(s) - 1 : (a \o b)[i] = IF i < k THEN s[i] ELSE s[i + 1]
    <3>1. /\ a \o b \in Seq(S) /\ Len(a \o b) = Len(a) + Len(b)
          /\ \A i \in 1 .. Len(a) + Len(b) :
               (a \o b)[i] = IF i <= Len(a) THEN a[i] ELSE b[i - Len(a)]
      BY <2>8, <2>9, ConcatProperties
    <3>2. Len(a) + Len(b) = Len(s) - 1
      BY <2>2, <2>5, <2>8, <2>9
    <3>3. ASSUME NEW i \in 1 .. Len(s) - 1, i < k PROVE (a \o b)[i] = s[i]
      <4>1. i \in 1 .. k - 1 /\ i <= Len(a)
        BY <2>2, <2>5, <2>8, <3>3
      <4>2. QED
        BY <2>8, <3>1, <3>2, <4>1
    <3>4. ASSUME NEW i \in 1 .. Len(s) - 1, ~ i < k PROVE (a \o b)[i] = s[i + 1]
      <4>1. /\ i - Len(a) \in 1 .. Len(s) - k /\ ~ i <= Len(a)
            /\ k + (i - Len(a)) = i + 1
        BY <2>2, <2>5, <2>8, <3>4
      <4>2. QED
        BY <2>9, <3>1, <3>2, <4>1
    <3>5. QED
      BY <3>1, <3>2, <3>3, <3>4
  <2>12. ASSUME NEW f, f # e, NEW i \in 1 .. Len(s), s[i] = f
         PROVE  \E j \in 1 .. Len(a \o b) : (a \o b)[j] = f
    <3>1. CASE i < k
      <4>1. i \in 1 .. Len(s) - 1
        BY <2>2, <2>5, <3>1
      <4>2. QED
        BY <2>11, <2>12, <3>1, <4>1
    <3>2. CASE i > k
      <4>1. i - 1 \in 1 .. Len(s) - 1 /\ ~ (i - 1 < k) /\ i - 1 + 1 = i
        BY <2>2, <2>5, <3>2
      <4>2. QED
        BY <2>11, <2>12, <4>1
    <3>3. i # k
      BY <2>5, <2>12
    <3>4. QED
      BY <2>2, <2>5, <3>1, <3>2, <3>3
  <2>13. QED
    BY <2>10, <2>11, <2>12 DEF Contains
<1>3. QED
  BY <1>1, <1>2

\* FlattenSeq concatenates from the left, the calls of a stack are put on at the
\* left: what a recursive definition gives for <<s>> \o ss comes from the one for ss.
Flattens(g, ss) ==
  g = [i \in 1 .. Len(ss) |-> IF i = 1 THEN ss[i] ELSE g[i - 1] \o ss[i]]

LEMMA FlattensUnique ==
  ASSUME NEW ss, Len(ss) \in Nat, NEW g, Flattens(g, ss), NEW h, Flattens(h, ss)
  PROVE  g = h
<1> DEFINE n == Len(ss)
           D == {i \in 1 .. n : g[i] # h[i]}
<1>1. /\ DOMAIN g = 1 .. n /\ DOMAIN h = 1 .. n
      /\ \A i \in 1 .. n : g[i] = IF i = 1 THEN ss[i] ELSE g[i - 1] \o ss[i]
      /\ \A i \in 1 .. n : h[i] = IF i = 1 THEN ss[i] ELSE h[i - 1] \o ss[i]
  BY DEF Flattens
<1>2. D = {}
  <2> SUFFICES ASSUME D # {} PROVE FALSE
    OBVIOUS
  <2>1. D \in SUBSET Nat
    OBVIOUS
  <2>2. Min(D) \in D /\ \A y \in D : Min(D) <= y
    <3> HIDE DEF D
    <3> QED BY <2>1, MinOfNaturals
  <2> DEFINE m == Min(D)
  <2>3. m \in 1 .. n /\ g[m] # h[m] /\ \A y \in D : m <= y
    BY <2>2
  <2> HIDE DEF m
  <2>4. m # 1
    BY <1>1, <2>3
  <2>5. m - 1 \in 1 .. n /\ m - 1 \notin D
    BY <2>3, <2>4
  <2>6. g[m - 1] = h[m - 1]
    BY <2>5
  <2> HIDE DEF D, n
  <2>7. g[m] = g[m - 1] \o ss[m]
    BY <1>1, <2>3, <2>4
  <2>8. h[m] = h[m - 1] \o ss[m]
    BY <1>1, <2>3, <2>4
  <2> QED
    BY <2>3, <2>6, <2>7, <2>8
<1>3. \A i \in 1 .. n : g[i] = h[i]
  BY <1>2
<1>4. g = [i \in 1 .. n |-> g[i]] /\ h = [i \in 1 .. n |-> h[i]]
  BY <1>1 DEF Flattens
<1> HIDE DEF n
<1> QED
  BY <1>3, <1>4

LEMMA FlattensExists ==
  ASSUME NEW S, NEW ss \in Seq(Seq(S))
  PROVE  \E g \in [1 .. Len(ss) -> Seq(S)] : Flattens(g, ss)
<1> DEFINE n == Len(ss)
           To(m, g) == /\ g \in [1 .. m -> Seq(S)]
                       /\ \A i \in 1 .. m : g[i] = IF i = 1 THEN ss[i] ELSE g[i - 1] \o ss[i]
           D == {m \in 0 .. n : ~ \E g : To(m, g)}
<1>1. n \in Nat /\ \A i \in 1 .. n : ss[i] \in Seq(S)
  BY LenProperties
<1> HIDE DEF n
<1>2. D = {}
  <2> SUFFICES ASSUME D # {} PROVE FALSE
    OBVIOUS
  <2>1. D \in SUBSET Nat
    BY <1>1
  <2>2. Min(D) \in D /\ \A y \in D : Min(D) <= y
    <3> HIDE DEF D
    <3> QED BY <2>1, MinOfNaturals
  <2> DEFINE m == Min(D)
  <2>3. m \in 0 .. n /\ (\A y \in D : m <= y) /\ ~ \E g : To(m, g)
    BY <2>2
  <2> HIDE DEF m
  <2>4. m # 0
    <3>1. To(0, [i \in 1 .. 0 |-> ss[i]])
      OBVIOUS
    <3> QED BY <2>3, <3>1
  <2>5. m - 1 \in 0 .. n /\ m - 1 \notin D
    <3>1. m - 1 \in 0 .. n /\ ~ m <= m - 1
      BY <1>1, <2>3, <2>4
    <3> HIDE DEF D
    <3> QED BY <2>3, <3>1
  <2>6. PICK g : To(m - 1, g)
    BY <2>5
  <2> DEFINE x == IF m = 1 THEN ss[m] ELSE g[m - 1] \o ss[m]
             h == [i \in 1 .. m |-> IF i = m THEN x ELSE g[i]]
  <2>7. x \in Seq(S)
    <3>1. m \in 1 .. n /\ ss[m] \in Seq(S)
      BY <1>1, <2>3, <2>4
    <3>2. CASE m = 1
      BY <3>1, <3>2
    <3>3. CASE m # 1
      <4>1. g[m - 1] \in Seq(S)
        BY <1>1, <2>3, <2>4, <2>6, <3>3
      <4>2. g[m - 1] \o ss[m] \in Seq(S)
        BY <3>1, <4>1, ConcatProperties
      <4> QED BY <3>3, <4>2
    <3> QED BY <3>2, <3>3
  <2>8. ASSUME NEW i \in 1 .. m PROVE h[i] \in Seq(S)
    <3>1. CASE i = m
      BY <2>7, <3>1
    <3>2. CASE i # m
      <4>1. i \in 1 .. m - 1
        BY <2>3, <3>2
      <4>2. g[i] \in Seq(S)
        BY <2>6, <4>1
      <4> HIDE DEF x
      <4> QED BY <3>2, <4>2
    <3> QED BY <3>1, <3>2
  <2>9. ASSUME NEW i \in 1 .. m PROVE h[i] = IF i = 1 THEN ss[i] ELSE h[i - 1] \o ss[i]
    <3>1. CASE i = m
      <4>1. CASE m = 1
        BY <3>1, <4>1
      <4>2. CASE m # 1
        <5>1. m - 1 \in 1 .. m /\ m - 1 # m
          BY <2>3, <2>4, <4>2
        <5>2. h[m - 1] = g[m - 1]
          BY <5>1
        <5>3. h[m] = x /\ x = g[m - 1] \o ss[m]
          <6>1. m \in 1 .. m
            BY <2>3, <2>4
          <6>2. h[m] = x
            BY <6>1
          <6> QED BY <4>2, <6>2
        <5> HIDE DEF h, x
        <5> QED BY <3>1, <4>2, <5>2, <5>3
      <4> QED BY <4>1, <4>2
    <3>2. CASE i # m
      <4>1. i \in 1 .. m - 1
        BY <2>3, <3>2
      <4>2. g[i] = IF i = 1 THEN ss[i] ELSE g[i - 1] \o ss[i]
        BY <2>6, <4>1
      <4>3. h[i] = g[i]
        BY <3>2
      <4>4. i # 1 => h[i - 1] = g[i - 1]
        <5>1. i # 1 => i - 1 \in 1 .. m /\ i - 1 # m
          BY <2>3, <4>1
        <5> QED BY <5>1
      <4> HIDE DEF h
      <4> QED BY <4>2, <4>3, <4>4
    <3> QED BY <3>1, <3>2
  <2>10. To(m, h)
    <3>1. h \in [1 .. m -> Seq(S)]
      <4> HIDE DEF x
      <4>1. h = [i \in 1 .. m |-> h[i]]
        OBVIOUS
      <4> HIDE DEF h
      <4> QED BY <2>8, <4>1
    <3> HIDE DEF h
    <3> QED BY <2>9, <3>1
  <2> QED
    <3> HIDE DEF To, h
    <3> QED BY <2>3, <2>10
<1>3. PICK g : To(n, g)
  <2>1. n \in 0 .. n
    BY <1>1
  <2>2. n \notin D
    BY <1>2
  <2> HIDE DEF To
  <2> QED BY <2>1, <2>2
<1>4. g \in [1 .. n -> Seq(S)]
  BY <1>3
<1>5. \A i \in 1 .. n : g[i] = IF i = 1 THEN ss[i] ELSE g[i - 1] \o ss[i]
  BY <1>3
<1>6. g = [i \in 1 .. n |-> IF i = 1 THEN ss[i] ELSE g[i - 1] \o ss[i]]
  BY <1>4, <1>5
<1> QED
  BY <1>4, <1>6 DEF Flattens, n

\* What FlattenSeq is of a sequence with something in it.
LEMMA FlattenIs ==
  ASSUME NEW S, NEW ss \in Seq(Seq(S)), Len(ss) # 0, NEW g, Flattens(g, ss)
  PROVE  FlattenSeq(ss) = g[Len(ss)]
<1> DEFINE f == CHOOSE f : f = [i \in 1 .. Len(ss) |-> IF i = 1 THEN ss[i] ELSE f[i - 1] \o ss[i]]
<1>1. FlattenSeq(ss) = f[Len(ss)]
  BY DEF FlattenSeq
<1>2. Flattens(f, ss)
  BY DEF Flattens
<1>3. Len(ss) \in Nat
  BY LenProperties
<1> HIDE DEF f
<1>4. f = g
  BY <1>2, <1>3, FlattensUnique
<1> QED
  BY <1>1, <1>4

LEMMA FlattenTypes ==
  ASSUME NEW S, NEW ss \in Seq(Seq(S))
  PROVE  FlattenSeq(ss) \in Seq(S)
<1>1. Len(ss) \in Nat
  BY LenProperties
<1>2. CASE Len(ss) = 0
  <2>1. ss = <<>>
    BY <1>2, EmptySeq
  <2> QED
    BY <1>2, <2>1 DEF FlattenSeq
<1>3. CASE Len(ss) # 0
  <2>1. PICK g \in [1 .. Len(ss) -> Seq(S)] : Flattens(g, ss)
    BY FlattensExists
  <2>2. g[Len(ss)] \in Seq(S)
    <3>1. Len(ss) \in 1 .. Len(ss)
      BY <1>1, <1>3
    <3> QED BY <3>1
  <2> QED
    BY <1>3, <2>1, <2>2, FlattenIs
<1> QED
  BY <1>2, <1>3

LEMMA FlattenCons ==
  ASSUME NEW S, NEW s \in Seq(S), NEW ss \in Seq(Seq(S))
  PROVE  FlattenSeq(<<s>> \o ss) = s \o FlattenSeq(ss)
<1> DEFINE n == Len(ss)
           tt == <<s>> \o ss
<1>1. /\ n \in Nat /\ \A i \in 1 .. n : ss[i] \in Seq(S)
  BY LenProperties
<1>2. <<s>> \in Seq(Seq(S)) /\ Len(<<s>>) = 1 /\ <<s>>[1] = s
  OBVIOUS
<1>3. /\ tt \in Seq(Seq(S)) /\ Len(tt) = n + 1
      /\ \A i \in 1 .. n + 1 : tt[i] = IF i <= 1 THEN <<s>>[i] ELSE ss[i - 1]
  <2>1. /\ tt \in Seq(Seq(S)) /\ Len(tt) = Len(<<s>>) + Len(ss)
        /\ \A i \in 1 .. Len(<<s>>) + Len(ss) :
             tt[i] = IF i <= Len(<<s>>) THEN <<s>>[i] ELSE ss[i - Len(<<s>>)]
    BY <1>2, ConcatProperties
  <2>2. Len(<<s>>) + Len(ss) = n + 1
    BY <1>1, <1>2
  <2> QED
    BY <1>2, <2>1, <2>2
<1> HIDE DEF tt
<1>4. tt[1] = s /\ \A i \in 1 .. n + 1 : i # 1 => i - 1 \in 1 .. n /\ tt[i] = ss[i - 1]
  BY <1>1, <1>2, <1>3
<1>5. PICK g \in [1 .. n -> Seq(S)] : Flattens(g, ss)
  BY FlattensExists
<1>6. \A i \in 1 .. n : g[i] = IF i = 1 THEN ss[i] ELSE g[i - 1] \o ss[i]
  BY <1>5 DEF Flattens
<1> DEFINE h == [i \in 1 .. n + 1 |-> IF i = 1 THEN s ELSE s \o g[i - 1]]
<1>7. ASSUME NEW i \in 1 .. n + 1 PROVE h[i] = IF i = 1 THEN tt[i] ELSE h[i - 1] \o tt[i]
  <2>1. CASE i = 1
    BY <1>4, <2>1
  <2>2. CASE i = 2
    <3>1. i - 1 = 1 /\ 1 \in 1 .. n /\ 1 \in 1 .. n + 1
      BY <1>1, <1>4, <2>2
    <3>2. h[i - 1] = s /\ h[i] = s \o g[1]
      BY <2>2, <3>1
    <3>3. g[1] = ss[1] /\ tt[i] = ss[1]
      <4>1. tt[i] = ss[i - 1]
        BY <1>4, <2>2
      <4> QED BY <1>6, <3>1, <4>1
    <3> HIDE DEF h
    <3> QED BY <2>2, <3>2, <3>3
  <2>3. CASE i # 1 /\ i # 2
    <3>1. /\ i - 1 \in 1 .. n + 1 /\ i - 1 # 1 /\ i - 1 \in 1 .. n /\ i - 2 \in 1 .. n
          /\ (i - 1) - 1 = i - 2
      BY <1>1, <1>4, <2>3
    <3>2. h[i] = s \o g[i - 1] /\ h[i - 1] = s \o g[i - 2]
      BY <2>3, <3>1
    <3>3. g[i - 1] = g[i - 2] \o ss[i - 1] /\ tt[i] = ss[i - 1]
      BY <1>4, <1>6, <2>3, <3>1
    <3> HIDE DEF h
    <3>4. g[i - 2] \in Seq(S) /\ ss[i - 1] \in Seq(S)
      BY <1>1, <3>1
    <3>5. (s \o g[i - 2]) \o ss[i - 1] = s \o (g[i - 2] \o ss[i - 1])
      <4>1. \A a, b \in Seq(S) : (s \o a) \o b = s \o (a \o b)
        BY ConcatAssociative
      <4> QED BY <3>4, <4>1
    <3> QED BY <2>3, <3>2, <3>3, <3>5
  <2> QED
    BY <2>1, <2>2, <2>3
<1>8. Flattens(h, tt)
  <2>1. h = [i \in 1 .. n + 1 |-> h[i]]
    OBVIOUS
  <2> HIDE DEF h
  <2> QED
    BY <1>3, <1>7, <2>1 DEF Flattens
<1>9. FlattenSeq(tt) = h[n + 1]
  <2>1. Len(tt) # 0
    BY <1>1, <1>3
  <2> HIDE DEF h
  <2> QED
    BY <1>3, <1>8, <2>1, FlattenIs
<1>10. CASE n = 0
  <2>1. ss = <<>>
    BY <1>10, EmptySeq
  <2>2. FlattenSeq(ss) = <<>>
    BY <2>1 DEF FlattenSeq
  <2>3. h[n + 1] = s
    BY <1>10
  <2> QED
    BY <1>9, <2>2, <2>3, ConcatEmptySeq DEF tt
<1>11. CASE n # 0
  <2>1. h[n + 1] = s \o g[n]
    BY <1>1, <1>11
  <2>2. FlattenSeq(ss) = g[n]
    BY <1>5, <1>11, FlattenIs
  <2> QED
    BY <1>9, <2>1, <2>2 DEF tt
<1> QED
  BY <1>10, <1>11

===============================================================================
