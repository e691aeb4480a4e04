------------------------- MODULE LismComboPressProofs -------------------------
(***************************************************************************)
(* Where the keys are, for any slot table, keys, buffer, pool and edits:   *)
(* no press is lost, doubled or let go twice by the releases that re-enter *)
(* the matcher, and between handlers a key that is down is in one place.   *)
(* And, for a pool that suffices and edits that find at most one key       *)
(* captured, when combos fire, that none stays held once every key is up,  *)
(* and that the matcher is the combo engine of ComboEngine.                *)
(***************************************************************************)
EXTENDS LismComboProofs, LismComboRefinement

-----------------------------------------------------------------------------
(* Presses that leave                                                      *)

\* Other work items of the workqueue leave the matcher and the keys alone.
LEMMA OthersTouchNothing ==
  ASSUME Others
  PROVE  /\ stack = <<>>
         /\ UNCHANGED <<matching, pool, timer, last_combo_timestamp, released_keys, stack, now,
                        table, down, host, held, arrival>>
BY DEF Others, KeycodeRaised, LayerSwitches, Idle, taps

\* The recursion of without(), as a property of a function.
Keeps(g, seq, P) ==
  g = [i \in 0 .. Len(seq) |->
         IF i = 0 THEN <<>>
         ELSE IF seq[i] \in P THEN g[i - 1] ELSE Append(g[i - 1], seq[i])]

LEMMA KeepsUnique ==
  ASSUME NEW s, Len(s) \in Nat, NEW P, NEW g, Keeps(g, s, P), NEW h, Keeps(h, s, P)
  PROVE  g = h
<1> DEFINE n == Len(s)
           D == {i \in 0 .. n : g[i] # h[i]}
<1>1. /\ \A i \in 0 .. n :
           g[i] = IF i = 0 THEN <<>>
                  ELSE IF s[i] \in P THEN g[i - 1] ELSE Append(g[i - 1], s[i])
      /\ \A i \in 0 .. n :
           h[i] = IF i = 0 THEN <<>>
                  ELSE IF s[i] \in P THEN h[i - 1] ELSE Append(h[i - 1], s[i])
  BY DEF Keeps
<1>2. D = {}
  <2> SUFFICES ASSUME D # {} PROVE FALSE
    OBVIOUS
  <2>1. D \in SUBSET Nat
    OBVIOUS
  <2>2. Min(D) \in D /\ \A y \in D : Min(D) <= y
    <3> HIDE DEF D
    <3> QED BY <2>1, MinOfNaturals
  <2> DEFINE m == Min(D)
  <2>3. m \in 0 .. n /\ g[m] # h[m] /\ \A y \in D : m <= y
    BY <2>2
  <2> HIDE DEF m
  <2>4. m # 0
    BY <1>1, <2>3
  <2>5. m - 1 \in 0 .. n /\ m - 1 \notin D
    <3>1. m - 1 \in 0 .. n /\ ~ m <= m - 1
      BY <2>3, <2>4
    <3> HIDE DEF D
    <3> QED BY <2>3, <3>1
  <2>6. g[m - 1] = h[m - 1]
    BY <2>5
  <2> QED
    BY <1>1, <2>3, <2>4, <2>6
<1>3. \A i \in 0 .. n : g[i] = h[i]
  BY <1>2
<1>4. g = [i \in 0 .. n |-> g[i]] /\ h = [i \in 0 .. n |-> h[i]]
  BY DEF Keeps
<1> HIDE DEF n
<1> QED
  BY <1>3, <1>4

LEMMA JoinedInOrder ==
  \A x, y, z \in Seq(Positions) :
    (x \o y) \o z = x \o (y \o z) /\ y \o z \in Seq(Positions)
  BY ConcatAssociative, ConcatProperties

LEMMA AppendBehind ==
  ASSUME NEW S, NEW u \in Seq(S), NEW x \in Seq(S), NEW e \in S
  PROVE  Append(u \o x, e) = u \o (x \o <<e>>)
<1>1. <<e>> \in Seq(S) /\ u \o x \in Seq(S)
  BY ConcatProperties
<1>2. Append(u \o x, e) = (u \o x) \o <<e>>
  BY <1>1, AppendIsConcat
<1>3. (u \o x) \o <<e>> = u \o (x \o <<e>>)
  BY <1>1, ConcatAssociative
<1> QED
  BY <1>2, <1>3

\* The presses t leave from between u and v.
LEMMA WithoutMiddle ==
  ASSUME NEW S, NEW u \in Seq(S), NEW t \in Seq(S), NEW v \in Seq(S), NEW P,
         \A i \in 1 .. Len(u) : u[i] \notin P,
         \A i \in 1 .. Len(t) : t[i] \in P,
         \A i \in 1 .. Len(v) : v[i] \notin P
  PROVE  without((u \o t) \o v, P) = u \o v
<1> DEFINE w == (u \o t) \o v
           a == Len(u)
           b == Len(u) + Len(t)
           n == Len(u) + Len(t) + Len(v)
<1>1. /\ Len(u) \in Nat /\ Len(t) \in Nat /\ Len(v) \in Nat
      /\ a \in Nat /\ b \in Nat /\ n \in Nat /\ a <= b /\ b <= n
  BY LenProperties
<1>2. /\ w \in Seq(S) /\ Len(w) = n
      /\ \A i \in 1 .. n : w[i] = IF i <= a THEN u[i] ELSE IF i <= b THEN t[i - a] ELSE v[i - b]
  <2>1. /\ u \o t \in Seq(S) /\ Len(u \o t) = b
        /\ \A i \in 1 .. b : (u \o t)[i] = IF i <= a THEN u[i] ELSE t[i - a]
    BY ConcatProperties
  <2>2. /\ w \in Seq(S) /\ Len(w) = b + Len(v)
        /\ \A i \in 1 .. b + Len(v) : w[i] = IF i <= b THEN (u \o t)[i] ELSE v[i - b]
    BY <2>1, ConcatProperties
  <2>3. \A i \in 1 .. n : i <= b => i \in 1 .. b
    BY <1>1
  <2>4. b + Len(v) = n
    BY <1>1
  <2>5. ASSUME NEW i \in 1 .. n
        PROVE  w[i] = IF i <= a THEN u[i] ELSE IF i <= b THEN t[i - a] ELSE v[i - b]
    <3>1. w[i] = IF i <= b THEN (u \o t)[i] ELSE v[i - b]
      <4> HIDE DEF w, b, n
      <4> QED BY <2>2, <2>4
    <3>2. i <= b => (u \o t)[i] = IF i <= a THEN u[i] ELSE t[i - a]
      <4> HIDE DEF w, b, n, a
      <4> QED BY <2>1, <2>3
    <3>3. i <= a => i <= b
      BY <1>1
    <3> HIDE DEF w, b, n, a
    <3> QED BY <3>1, <3>2, <3>3
  <2> HIDE DEF w, b, n, a
  <2> QED
    BY <2>2, <2>4, <2>5
<1> HIDE DEF w
<1> DEFINE G == [i \in 0 .. n |-> IF i <= a THEN SubSeq(u, 1, i)
                                  ELSE u \o SubSeq(v, 1, i - b)]
<1>3. \A i \in 0 .. n : i > a /\ i <= b => G[i] = u
  <2> TAKE i \in 0 .. n
  <2> HAVE i > a /\ i <= b
  <2>1. i - b < 1 /\ i - b \in Int /\ ~ i <= a
    BY <1>1
  <2>2. SubSeq(v, 1, i - b) = <<>>
    BY <2>1, SubSeqEmpty
  <2>3. G[i] = u \o <<>>
    BY <2>1, <2>2
  <2> QED
    BY <2>3, ConcatEmptySeq
<1>4. G[a] = u
  <2>1. SubSeq(u, 1, a) = u
    BY SubSeqFull
  <2> QED
    BY <1>1, <2>1
<1>5. G[b] = u
  <2>1. CASE a = b
    BY <1>4, <2>1
  <2>2. CASE a # b
    <3>1. b \in 0 .. n /\ b > a /\ b <= b
      BY <1>1, <2>2
    <3> HIDE DEF G, b, a, n
    <3> QED BY <1>3, <3>1
  <2> QED BY <2>1, <2>2
<1>6. \A i \in b .. n : G[i] = u \o SubSeq(v, 1, i - b)
  <2> TAKE i \in b .. n
  <2>1. i \in 0 .. n
    BY <1>1
  <2>2. CASE i <= a
    <3>1. i = b /\ i - b < 1 /\ i - b \in Int
      BY <1>1, <2>2
    <3>2. SubSeq(v, 1, i - b) = <<>> /\ u \o <<>> = u
      BY <3>1, SubSeqEmpty, ConcatEmptySeq
    <3> HIDE DEF G
    <3> QED BY <1>5, <3>1, <3>2
  <2>3. CASE ~ i <= a
    BY <2>1, <2>3
  <2> QED BY <2>2, <2>3
<1>7. ASSUME NEW i \in 0 .. n
      PROVE  G[i] = IF i = 0 THEN <<>>
                    ELSE IF w[i] \in P THEN G[i - 1] ELSE Append(G[i - 1], w[i])
  <2>1. CASE i = 0
    <3>1. i <= a /\ SubSeq(u, 1, 0) = <<>>
      BY <1>1, <2>1, SubSeqEmpty
    <3> QED BY <2>1, <3>1
  <2>2. CASE i # 0 /\ i <= a
    <3>1. i \in 1 .. Len(u) /\ i \in 1 .. n /\ i - 1 \in 0 .. n /\ i - 1 <= a /\ 1 \in 1 .. Len(u)
      BY <1>1, <2>2
    <3>2. w[i] = u[i] /\ w[i] \notin P
      BY <1>2, <2>2, <3>1
    <3>3. G[i] = SubSeq(u, 1, i) /\ G[i - 1] = SubSeq(u, 1, i - 1)
      BY <2>2, <3>1
    <3>4. SubSeq(u, 1, i) = SubSeq(u, 1, i - 1) \o <<u[i]>>
      <4>1. i \in 1 .. Len(u)
        BY <3>1
      <4> QED BY <3>1, <4>1, SubSeqRecursiveSecond
    <3>5. SubSeq(u, 1, i - 1) \in Seq(S) /\ u[i] \in S
      <4>1. i - 1 \in Int /\ \A j \in 1 .. i - 1 : u[j] \in S
        BY <3>1
      <4> QED BY <3>1, <4>1, SubSeqProperties
    <3>6. Append(SubSeq(u, 1, i - 1), u[i]) = SubSeq(u, 1, i - 1) \o <<u[i]>>
      BY <3>5, AppendIsConcat
    <3> HIDE DEF G
    <3> QED BY <2>2, <3>2, <3>3, <3>4, <3>6
  <2>3. CASE i > a /\ i <= b
    <3>1. i - a \in 1 .. Len(t) /\ i \in 1 .. n /\ i # 0 /\ ~ i <= a
      BY <1>1, <2>3
    <3>2. w[i] \in P
      BY <1>2, <2>3, <3>1
    <3>3. G[i] = u
      <4> HIDE DEF G, a, b, n
      <4> QED BY <1>3, <2>3
    <3>4. G[i - 1] = u
      <4>1. CASE i - 1 = a
        <5> HIDE DEF G
        <5> QED BY <1>4, <4>1
      <4>2. CASE i - 1 # a
        <5>1. i - 1 \in 0 .. n /\ i - 1 > a /\ i - 1 <= b
          BY <1>1, <2>3, <4>2
        <5> HIDE DEF G, a, b, n
        <5> QED BY <1>3, <5>1
      <4> QED BY <4>1, <4>2
    <3> HIDE DEF G
    <3> QED BY <3>1, <3>2, <3>3, <3>4
  <2>4. CASE i > b
    <3> DEFINE j == i - b
    <3>1. /\ j \in 1 .. Len(v) /\ i \in 1 .. n /\ i # 0 /\ ~ i <= a /\ i \in b .. n
          /\ i - 1 \in b .. n /\ i - 1 - b = j - 1 /\ 1 \in 1 .. Len(v)
      BY <1>1, <2>4
    <3>2. w[i] = v[j] /\ w[i] \notin P
      BY <1>2, <2>4, <3>1
    <3>3. G[i] = u \o SubSeq(v, 1, j) /\ G[i - 1] = u \o SubSeq(v, 1, j - 1)
      <4> HIDE DEF G, n, b
      <4> QED BY <1>6, <3>1
    <3> HIDE DEF G, j
    <3>4. SubSeq(v, 1, j) = SubSeq(v, 1, j - 1) \o <<v[j]>>
      BY <3>1, SubSeqRecursiveSecond
    <3>5. SubSeq(v, 1, j - 1) \in Seq(S) /\ v[j] \in S
      <4>1. j - 1 \in Int /\ \A k \in 1 .. j - 1 : v[k] \in S
        BY <3>1
      <4> QED BY <3>1, <4>1, SubSeqProperties
    <3>6. Append(u \o SubSeq(v, 1, j - 1), v[j]) = u \o (SubSeq(v, 1, j - 1) \o <<v[j]>>)
      BY <3>5, AppendBehind
    <3> QED BY <3>1, <3>2, <3>3, <3>4, <3>6
  <2> QED
    BY <1>1, <2>1, <2>2, <2>3, <2>4
<1>8. Keeps(G, w, P)
  <2>1. G = [i \in 0 .. n |-> G[i]]
    OBVIOUS
  <2> HIDE DEF G
  <2> QED
    BY <1>2, <1>7, <2>1 DEF Keeps
<1>9. G[n] = u \o v
  <2>1. n \in b .. n /\ n - b = Len(v)
    BY <1>1
  <2>2. SubSeq(v, 1, Len(v)) = v
    BY SubSeqFull
  <2> HIDE DEF G, n, b
  <2> QED BY <1>6, <2>1, <2>2
<1> DEFINE g == CHOOSE g : g = [i \in 0 .. Len(w) |->
                                  IF i = 0 THEN <<>>
                                  ELSE IF w[i] \in P THEN g[i - 1] ELSE Append(g[i - 1], w[i])]
<1>10. without(w, P) = g[Len(w)]
  BY SMTT(40) DEF without
<1>11. Keeps(g, w, P)
  <2> HIDE DEF G
  <2> QED BY <1>8 DEF Keeps
<1>12. g = G
  <2> HIDE DEF g, G
  <2>1. Len(w) \in Nat
    BY <1>1, <1>2
  <2> QED BY <1>8, <1>11, <2>1, KeepsUnique
<1> HIDE DEF g, G
<1> QED
  BY <1>2, <1>9, <1>10, <1>12 DEF w

\* No position twice.
Distinct(s) == \A i, j \in 1 .. Len(s) : s[i] = s[j] => i = j

LEMMA TwoParts ==
  ASSUME NEW S, NEW u \in Seq(S), NEW v \in Seq(S)
  PROVE  /\ u \o v \in Seq(S) /\ Len(u \o v) = Len(u) + Len(v)
         /\ Len(u) \in Nat /\ Len(v) \in Nat
         /\ \A i \in 1 .. Len(u) : (u \o v)[i] = u[i]
         /\ \A i \in 1 .. Len(v) : (u \o v)[Len(u) + i] = v[i]
<1>1. /\ u \o v \in Seq(S) /\ Len(u \o v) = Len(u) + Len(v)
      /\ \A i \in 1 .. Len(u) + Len(v) : (u \o v)[i] = IF i <= Len(u) THEN u[i] ELSE v[i - Len(u)]
  BY ConcatProperties
<1>2. Len(u) \in Nat /\ Len(v) \in Nat
  BY LenProperties
<1>3. ASSUME NEW i \in 1 .. Len(u) PROVE (u \o v)[i] = u[i]
  <2>1. i \in 1 .. Len(u) + Len(v) /\ i <= Len(u)
    BY <1>2
  <2> QED BY <1>1, <2>1
<1>4. ASSUME NEW i \in 1 .. Len(v) PROVE (u \o v)[Len(u) + i] = v[i]
  <2>1. /\ Len(u) + i \in 1 .. Len(u) + Len(v) /\ ~ Len(u) + i <= Len(u)
        /\ Len(u) + i - Len(u) = i
    BY <1>2
  <2> QED BY <1>1, <2>1
<1> QED
  BY <1>1, <1>2, <1>3, <1>4

\* The parts of a sequence without repetition have nothing in common.
LEMMA DistinctParts ==
  ASSUME NEW S, NEW u \in Seq(S), NEW v \in Seq(S)
  PROVE  Distinct(u \o v) <=> /\ Distinct(u) /\ Distinct(v)
                             /\ \A i \in 1 .. Len(u), j \in 1 .. Len(v) : u[i] # v[j]
<1> DEFINE w == u \o v
           a == Len(u)
           b == Len(v)
<1>1. /\ Len(w) = a + b /\ a \in Nat /\ b \in Nat
      /\ \A i \in 1 .. a : w[i] = u[i]
      /\ \A i \in 1 .. b : w[a + i] = v[i]
  BY TwoParts
<1> HIDE DEF w
<1>2. ASSUME Distinct(w) PROVE Distinct(u)
  <2>1. \A i \in 1 .. a : i \in 1 .. Len(w)
    BY <1>1
  <2> QED BY <1>1, <1>2, <2>1 DEF Distinct
<1>3. ASSUME Distinct(w) PROVE Distinct(v)
  <2>1. \A i \in 1 .. b : a + i \in 1 .. Len(w)
    BY <1>1
  <2>2. ASSUME NEW i \in 1 .. b, NEW j \in 1 .. b, v[i] = v[j] PROVE i = j
    <3>1. w[a + i] = w[a + j]
      BY <1>1, <2>2
    <3>2. a + i = a + j
      BY <1>3, <2>1, <3>1 DEF Distinct
    <3> QED BY <1>1, <3>2
  <2> QED BY <2>2 DEF Distinct
<1>4. ASSUME Distinct(w), NEW i \in 1 .. a, NEW j \in 1 .. b PROVE u[i] # v[j]
  <2>1. i \in 1 .. Len(w) /\ a + j \in 1 .. Len(w) /\ i # a + j
    BY <1>1
  <2>2. w[i] # w[a + j]
    BY <1>4, <2>1 DEF Distinct
  <2> QED BY <1>1, <2>2
<1>5. ASSUME Distinct(u), Distinct(v), \A i \in 1 .. a, j \in 1 .. b : u[i] # v[j]
      PROVE  Distinct(w)
  <2> SUFFICES ASSUME NEW i \in 1 .. Len(w), NEW j \in 1 .. Len(w), w[i] = w[j] PROVE i = j
    BY DEF Distinct
  <2>1. \A k \in 1 .. Len(w) : ~ k <= a => k - a \in 1 .. b /\ a + (k - a) = k
    BY <1>1
  <2>2. \A k \in 1 .. Len(w) : k <= a => k \in 1 .. a
    BY <1>1
  <2>3. \A k \in 1 .. Len(w) : ~ k <= a => w[k] = v[k - a]
    BY <1>1, <2>1
  <2>4. \A k \in 1 .. Len(w) : k <= a => w[k] = u[k]
    BY <1>1, <2>2
  <2>5. CASE i <= a /\ j <= a
    BY <1>5, <2>2, <2>4, <2>5 DEF Distinct
  <2>6. CASE ~ i <= a /\ ~ j <= a
    <3>1. v[i - a] = v[j - a]
      BY <2>3, <2>6
    <3>2. i - a = j - a
      BY <1>5, <2>1, <2>6, <3>1 DEF Distinct
    <3> QED BY <1>1, <2>1, <2>6, <3>2
  <2>7. CASE i <= a /\ ~ j <= a
    BY <1>5, <2>1, <2>2, <2>3, <2>4, <2>7
  <2>8. CASE ~ i <= a /\ j <= a
    BY <1>5, <2>1, <2>2, <2>3, <2>4, <2>8
  <2> QED BY <2>5, <2>6, <2>7, <2>8
<1> QED
  BY <1>2, <1>3, <1>4, <1>5 DEF w

\* The presses t leave from between u and v: what without() is to say, if no
\* position comes twice.
LEMMA PressesLeave ==
  ASSUME NEW S, NEW u \in Seq(S), NEW t \in Seq(S), NEW v \in Seq(S),
         Distinct((u \o t) \o v)
  PROVE  /\ without((u \o t) \o v, Range(t)) = u \o v
         /\ Distinct(u \o v)
         /\ Range(u \o v) = Range((u \o t) \o v) \ Range(t)
         /\ Range(t) \subseteq Range((u \o t) \o v)
<1>1. u \o t \in Seq(S) /\ u \o v \in Seq(S)
  BY TwoParts
<1>2. /\ Distinct(u \o t) /\ Distinct(v)
      /\ \A i \in 1 .. Len(u \o t), j \in 1 .. Len(v) : (u \o t)[i] # v[j]
  <2> DEFINE x == u \o t
  <2>1. x \in Seq(S) /\ Distinct(x \o v)
    BY <1>1
  <2> HIDE DEF x
  <2>2. /\ Distinct(x) /\ Distinct(v)
        /\ \A i \in 1 .. Len(x), j \in 1 .. Len(v) : x[i] # v[j]
    BY <2>1, DistinctParts
  <2> QED BY <2>2 DEF x
<1>3. /\ Distinct(u) /\ Distinct(t)
      /\ \A i \in 1 .. Len(u), j \in 1 .. Len(t) : u[i] # t[j]
  BY <1>2, DistinctParts
<1>4. /\ Len(u \o t) = Len(u) + Len(t) /\ Len(u) \in Nat /\ Len(t) \in Nat
      /\ \A i \in 1 .. Len(u) : (u \o t)[i] = u[i]
      /\ \A i \in 1 .. Len(t) : (u \o t)[Len(u) + i] = t[i]
  BY TwoParts
<1>5. \A i \in 1 .. Len(u), j \in 1 .. Len(v) : u[i] # v[j]
  <2>1. \A i \in 1 .. Len(u) : i \in 1 .. Len(u \o t)
    BY <1>4
  <2> QED BY <1>2, <1>4, <2>1
<1>6. \A i \in 1 .. Len(t), j \in 1 .. Len(v) : t[i] # v[j]
  <2>1. \A i \in 1 .. Len(t) : Len(u) + i \in 1 .. Len(u \o t)
    BY <1>4
  <2> QED BY <1>2, <1>4, <2>1
<1>7. Range(t) = {t[i] : i \in 1 .. Len(t)} /\ Range(u) = {u[i] : i \in 1 .. Len(u)}
      /\ Range(v) = {v[i] : i \in 1 .. Len(v)}
  BY RangeEquality
<1>8. /\ \A i \in 1 .. Len(u) : u[i] \notin Range(t)
      /\ \A i \in 1 .. Len(t) : t[i] \in Range(t)
      /\ \A i \in 1 .. Len(v) : v[i] \notin Range(t)
  BY <1>3, <1>6, <1>7
<1>9. without((u \o t) \o v, Range(t)) = u \o v
  <2> DEFINE P == Range(t)
  <2> HIDE DEF P
  <2>1. /\ \A i \in 1 .. Len(u) : u[i] \notin P
        /\ \A i \in 1 .. Len(t) : t[i] \in P
        /\ \A i \in 1 .. Len(v) : v[i] \notin P
    BY <1>8 DEF P
  <2>2. without((u \o t) \o v, P) = u \o v
    BY <2>1, WithoutMiddle
  <2> QED BY <2>2 DEF P
<1>10. Distinct(u \o v)
  BY <1>2, <1>3, <1>5, DistinctParts
<1>11. /\ Range(u \o v) = Range(u) \cup Range(v)
       /\ Range((u \o t) \o v) = (Range(u) \cup Range(t)) \cup Range(v)
  <2> DEFINE x == u \o t
  <2>1. x \in Seq(S)
    BY <1>1
  <2>2. Range(u \o v) = Range(u) \cup Range(v)
    BY RangeConcatenation
  <2>3. Range(x) = Range(u) \cup Range(t)
    BY RangeConcatenation
  <2> HIDE DEF x
  <2>4. Range(x \o v) = Range(x) \cup Range(v)
    BY <2>1, RangeConcatenation
  <2> QED BY <2>2, <2>3, <2>4 DEF x
<1>12. Range(u) \cap Range(t) = {} /\ Range(v) \cap Range(t) = {}
  BY <1>7, <1>8
<1> QED
  BY <1>9, <1>10, <1>11, <1>12

-----------------------------------------------------------------------------
(* Presses in the matcher                                                  *)

\* Entries a to b of the buffer.
between(keys, a, b) == [i \in 1 .. b - a + 1 |-> keys[a + i - 1].position]

keys_in(keys, f) ==
  IF f.op \in {"down", "bubble"} THEN <<f.event.position>>
  ELSE IF f.op = "release" THEN between(keys, f.next, f.count) ELSE <<>>

keys_below(keys, q) == FlattenSeq([i \in 1 .. Len(q) |-> keys_in(keys, q[i])])

\* presses_in_matcher, of a buffer with n keys and the calls q.
presses(keys, n, q) == between(keys, 1, n) \o keys_below(keys, q)

Buffer == [1 .. MaxKeys -> Event]

LEMMA Between ==
  ASSUME NEW keys \in Buffer, NEW a \in 1 .. MaxKeys + 1, NEW b \in 0 .. MaxKeys
  PROVE  /\ between(keys, a, b) \in Seq(Positions)
         /\ Len(between(keys, a, b)) = IF a <= b THEN b - a + 1 ELSE 0
         /\ \A i \in 1 .. b - a + 1 : between(keys, a, b)[i] = keys[a + i - 1].position
<1> DEFINE n == IF a <= b THEN b - a + 1 ELSE 0
<1>1. n \in Nat /\ 1 .. b - a + 1 = 1 .. n
  BY ConstantFacts
<1>2. \A i \in 1 .. n : a + i - 1 \in 1 .. MaxKeys
  BY ConstantFacts
<1> HIDE DEF n
<1>3. \A i \in 1 .. n : keys[a + i - 1].position \in Positions
  BY <1>2 DEF Buffer, Event
<1>4. between(keys, a, b) = [i \in 1 .. n |-> keys[a + i - 1].position]
  BY <1>1 DEF between
<1>5. between(keys, a, b) \in Seq(Positions) /\ Len(between(keys, a, b)) = n
  BY <1>1, <1>3, <1>4
<1> QED
  BY <1>1, <1>4, <1>5 DEF n

LEMMA BetweenSame ==
  ASSUME NEW keys \in Buffer, NEW others \in Buffer,
         NEW a \in 1 .. MaxKeys + 1, NEW b \in 0 .. MaxKeys,
         \A k \in a .. b : keys[k] = others[k]
  PROVE  between(keys, a, b) = between(others, a, b)
<1>1. \A i \in 1 .. b - a + 1 : a + i - 1 \in a .. b
  BY ConstantFacts
<1>2. \A i \in 1 .. b - a + 1 : keys[a + i - 1].position = others[a + i - 1].position
  BY <1>1
<1> QED
  BY <1>2 DEF between

LEMMA BetweenNothing ==
  ASSUME NEW keys \in Buffer, NEW a \in 1 .. MaxKeys + 1, NEW b \in 0 .. MaxKeys, b < a
  PROVE  between(keys, a, b) = <<>>
<1>1. between(keys, a, b) \in Seq(Positions) /\ Len(between(keys, a, b)) = 0
  <2>1. ~ a <= b
    BY ConstantFacts
  <2> QED BY <2>1, Between
<1> QED
  BY <1>1, EmptySeq

LEMMA BetweenSplits ==
  ASSUME NEW keys \in Buffer, NEW a \in 1 .. MaxKeys + 1, NEW m \in 0 .. MaxKeys,
         NEW b \in 0 .. MaxKeys, a - 1 <= m, m <= b
  PROVE  between(keys, a, b) = between(keys, a, m) \o between(keys, m + 1, b)
<1> DEFINE u == between(keys, a, m)
           v == between(keys, m + 1, b)
           w == between(keys, a, b)
<1>1. m + 1 \in 1 .. MaxKeys + 1
  BY ConstantFacts
<1>2. /\ u \in Seq(Positions) /\ Len(u) = m - a + 1
      /\ \A i \in 1 .. m - a + 1 : u[i] = keys[a + i - 1].position
  <2>1. (IF a <= m THEN m - a + 1 ELSE 0) = m - a + 1
    BY ConstantFacts
  <2> QED BY <2>1, Between
<1>3. /\ v \in Seq(Positions) /\ Len(v) = b - m
      /\ \A i \in 1 .. b - m : v[i] = keys[m + i].position
  <2>1. /\ (IF m + 1 <= b THEN b - (m + 1) + 1 ELSE 0) = b - m /\ b - (m + 1) + 1 = b - m
        /\ \A i \in 1 .. b - m : m + 1 + i - 1 = m + i
    BY ConstantFacts
  <2>2. /\ v \in Seq(Positions) /\ Len(v) = IF m + 1 <= b THEN b - (m + 1) + 1 ELSE 0
        /\ \A i \in 1 .. b - (m + 1) + 1 : v[i] = keys[m + 1 + i - 1].position
    BY <1>1, Between
  <2> HIDE DEF v
  <2> QED BY <2>1, <2>2
<1>4. /\ w \in Seq(Positions) /\ Len(w) = b - a + 1
      /\ \A i \in 1 .. b - a + 1 : w[i] = keys[a + i - 1].position
  <2>1. (IF a <= b THEN b - a + 1 ELSE 0) = b - a + 1
    BY ConstantFacts
  <2> QED BY <2>1, Between
<1> HIDE DEF u, v, w
<1>5. /\ u \o v \in Seq(Positions) /\ Len(u \o v) = Len(u) + Len(v)
      /\ \A i \in 1 .. Len(u) + Len(v) : (u \o v)[i] = IF i <= Len(u) THEN u[i] ELSE v[i - Len(u)]
  BY <1>2, <1>3, ConcatProperties
<1>6. Len(u) + Len(v) = b - a + 1
  BY <1>2, <1>3, ConstantFacts
<1>7. ASSUME NEW i \in 1 .. b - a + 1 PROVE w[i] = (u \o v)[i]
  <2>1. CASE i <= m - a + 1
    <3>1. i \in 1 .. m - a + 1
      BY <2>1, ConstantFacts
    <3> QED BY <1>2, <1>4, <1>5, <1>6, <2>1, <3>1
  <2>2. CASE ~ i <= m - a + 1
    <3>1. i - (m - a + 1) \in 1 .. b - m /\ m + (i - (m - a + 1)) = a + i - 1
      BY <2>2, ConstantFacts
    <3>2. (u \o v)[i] = v[i - (m - a + 1)]
      BY <1>2, <1>5, <1>6, <2>2
    <3>3. v[i - (m - a + 1)] = keys[m + (i - (m - a + 1))].position
      BY <1>3, <3>1
    <3> QED BY <1>4, <3>1, <3>2, <3>3
  <2> QED BY <2>1, <2>2
<1>8. w = u \o v
  <2>1. Len(w) = Len(u \o v)
    BY <1>4, <1>5, <1>6
  <2> QED BY <1>4, <1>5, <1>7, <2>1, SeqEqual
<1> QED
  BY <1>8 DEF u, v, w

LEMMA BetweenOne ==
  ASSUME NEW keys \in Buffer, NEW a \in 1 .. MaxKeys
  PROVE  between(keys, a, a) = <<keys[a].position>>
<1>1. a - a + 1 = 1 /\ a + 1 - 1 = a
  BY ConstantFacts
<1> QED
  BY <1>1 DEF between

LEMMA BetweenRange ==
  ASSUME NEW keys \in Buffer, NEW b \in 0 .. MaxKeys
  PROVE  Range(between(keys, 1, b)) = positions_of(keys, 1, b)
<1>1. 1 \in 1 .. MaxKeys + 1 /\ (IF 1 <= b THEN b - 1 + 1 ELSE 0) = b /\ b - 1 + 1 = b
      /\ \A i \in 1 .. b : 1 + i - 1 = i
  BY ConstantFacts
<1>2. /\ between(keys, 1, b) \in Seq(Positions) /\ Len(between(keys, 1, b)) = b
      /\ \A i \in 1 .. b : between(keys, 1, b)[i] = keys[i].position
  BY <1>1, Between
<1>3. Range(between(keys, 1, b)) = {between(keys, 1, b)[i] : i \in 1 .. Len(between(keys, 1, b))}
  BY <1>2, RangeEquality
<1> QED
  BY <1>2, <1>3 DEF positions_of

LEMMA CallKeys ==
  ASSUME NEW keys \in Buffer, NEW f \in Frame
  PROVE  keys_in(keys, f) \in Seq(Positions)
<1>1. f.op \in {"down", "bubble"} => f.event.position \in Positions
  BY FrameFields DEF Event
<1>2. f.op = "release" => f.next \in 1 .. MaxKeys + 1 /\ f.count \in 0 .. MaxKeys
  BY FrameFields
<1> QED
  BY <1>1, <1>2, Between DEF keys_in

LEMMA StackKeys ==
  ASSUME NEW keys \in Buffer, NEW q \in Seq(Frame)
  PROVE  /\ [i \in 1 .. Len(q) |-> keys_in(keys, q[i])] \in Seq(Seq(Positions))
         /\ keys_below(keys, q) \in Seq(Positions)
         /\ keys_below(keys, <<>>) = <<>>
<1> DEFINE ss == [i \in 1 .. Len(q) |-> keys_in(keys, q[i])]
<1>1. Len(q) \in Nat /\ \A i \in 1 .. Len(q) : q[i] \in Frame
  BY LenProperties
<1>2. \A i \in 1 .. Len(q) : keys_in(keys, q[i]) \in Seq(Positions)
  BY <1>1, CallKeys
<1>3. ss \in Seq(Seq(Positions))
  BY <1>1, <1>2
<1> HIDE DEF ss
<1>4. FlattenSeq(ss) \in Seq(Positions)
  BY <1>3, FlattenTypes
<1>5. keys_below(keys, <<>>) = <<>>
  BY DEF keys_below, FlattenSeq
<1> QED
  BY <1>3, <1>4, <1>5 DEF ss, keys_below

LEMMA PushedKeys ==
  ASSUME NEW keys \in Buffer, NEW f \in Frame, NEW q \in Seq(Frame)
  PROVE  keys_below(keys, <<f>> \o q) = keys_in(keys, f) \o keys_below(keys, q)
<1> DEFINE s  == <<f>> \o q
           ss == [i \in 1 .. Len(q) |-> keys_in(keys, q[i])]
           k  == keys_in(keys, f)
           tt == [i \in 1 .. Len(s) |-> keys_in(keys, s[i])]
<1>1. /\ s \in Seq(Frame) /\ Len(s) = Len(q) + 1 /\ s[1] = f
      /\ \A j \in 2 .. Len(q) + 1 : s[j] = q[j - 1]
  BY PushedCalls
<1>2. ss \in Seq(Seq(Positions)) /\ k \in Seq(Positions) /\ Len(q) \in Nat /\ Len(ss) = Len(q)
  BY StackKeys, CallKeys, LenProperties
<1>3. tt \in Seq(Seq(Positions)) /\ Len(tt) = Len(q) + 1
  <2> HIDE DEF s
  <2>1. tt \in Seq(Seq(Positions))
    BY <1>1, StackKeys
  <2> QED BY <1>1, <1>2, <2>1
<1>4. /\ <<k>> \in Seq(Seq(Positions)) /\ Len(<<k>>) = 1 /\ <<k>>[1] = k
  BY <1>2
<1>5. /\ <<k>> \o ss \in Seq(Seq(Positions)) /\ Len(<<k>> \o ss) = 1 + Len(ss)
      /\ (<<k>> \o ss)[1] = k
      /\ \A i \in 1 .. Len(ss) : (<<k>> \o ss)[1 + i] = ss[i]
  <2> DEFINE kk == <<k>>
             w  == kk \o ss
  <2>1. kk \in Seq(Seq(Positions)) /\ Len(kk) = 1 /\ kk[1] = k
    BY <1>4
  <2> HIDE DEF kk, ss, k
  <2>2. /\ w \in Seq(Seq(Positions)) /\ Len(w) = Len(kk) + Len(ss)
        /\ \A i \in 1 .. Len(kk) + Len(ss) :
             w[i] = IF i <= Len(kk) THEN kk[i] ELSE ss[i - Len(kk)]
    <3> DEFINE S == Seq(Positions)
    <3>1. kk \in Seq(S) /\ ss \in Seq(S)
      BY <1>2, <2>1
    <3> HIDE DEF S
    <3>2. /\ kk \o ss \in Seq(S) /\ Len(kk \o ss) = Len(kk) + Len(ss)
          /\ \A i \in 1 .. Len(kk) + Len(ss) :
               (kk \o ss)[i] = IF i <= Len(kk) THEN kk[i] ELSE ss[i - Len(kk)]
      BY <3>1, ConcatProperties, SMTT(30)
    <3> QED BY <3>2 DEF S
  <2> HIDE DEF w
  <2>3. \A i \in 1 .. Len(ss) : /\ 1 + i \in 1 .. Len(kk) + Len(ss)
                               /\ ~ 1 + i <= Len(kk) /\ 1 + i - Len(kk) = i
    BY <1>2, <2>1
  <2>4. 1 \in 1 .. Len(kk) + Len(ss) /\ 1 <= Len(kk)
    BY <1>2, <2>1
  <2>5. w[1] = k /\ \A i \in 1 .. Len(ss) : w[1 + i] = ss[i]
    BY <2>1, <2>2, <2>3, <2>4
  <2> QED BY <2>1, <2>2, <2>5 DEF kk, w
<1>6. ASSUME NEW i \in 1 .. Len(q) + 1 PROVE tt[i] = (<<k>> \o ss)[i]
  <2>1. CASE i = 1
    <3>1. tt[i] = k
      BY <1>1, <1>2, <2>1
    <3>2. (<<k>> \o ss)[i] = k
      <4> HIDE DEF ss, k
      <4> QED BY <1>5, <2>1
    <3> QED BY <3>1, <3>2
  <2>2. CASE i # 1
    <3>1. i - 1 \in 1 .. Len(q) /\ i \in 2 .. Len(q) + 1 /\ 1 + (i - 1) = i /\ i \in 1 .. Len(s)
      BY <1>1, <1>2, <2>2
    <3>2. s[i] = q[i - 1]
      BY <1>1, <3>1
    <3>3. tt[i] = keys_in(keys, q[i - 1])
      <4> HIDE DEF s
      <4> QED BY <3>1, <3>2
    <3>4. ss[i - 1] = keys_in(keys, q[i - 1])
      BY <3>1
    <3>5. (<<k>> \o ss)[1 + (i - 1)] = ss[i - 1]
      <4> HIDE DEF ss, k
      <4> QED BY <1>2, <1>5, <3>1
    <3> HIDE DEF ss, tt, k
    <3> QED BY <3>1, <3>3, <3>4, <3>5
  <2> QED BY <2>1, <2>2
<1>7. tt = <<k>> \o ss
  <2> HIDE DEF tt, k, ss
  <2>1. Len(tt) = Len(<<k>> \o ss)
    BY <1>2, <1>3, <1>5
  <2> QED BY <1>3, <1>5, <1>6, <2>1, SeqEqual
<1>8. FlattenSeq(<<k>> \o ss) = k \o FlattenSeq(ss)
  <2> HIDE DEF k, ss
  <2> QED BY <1>2, FlattenCons
<1>9. keys_below(keys, s) = FlattenSeq(tt) /\ keys_below(keys, q) = FlattenSeq(ss)
  BY DEF keys_below
<1> HIDE DEF tt, ss
<1> QED
  BY <1>7, <1>8, <1>9 DEF s

\* A buffer may change where no loop is going to read it.
LEMMA BelowSame ==
  ASSUME NEW keys \in Buffer, NEW others \in Buffer, NEW q \in Seq(Frame),
         \A j \in 1 .. Len(q) : is_loop(q[j]) =>
           \A k \in q[j].next .. q[j].count : keys[k] = others[k]
  PROVE  keys_below(keys, q) = keys_below(others, q)
<1>1. ASSUME NEW j \in 1 .. Len(q) PROVE keys_in(keys, q[j]) = keys_in(others, q[j])
  <2>1. q[j] \in Frame
    BY LenProperties
  <2>2. CASE is_loop(q[j])
    <3>1. q[j].next \in 1 .. MaxKeys + 1 /\ q[j].count \in 0 .. MaxKeys
      BY <2>1, <2>2, FrameFields DEF is_loop
    <3>2. between(keys, q[j].next, q[j].count) = between(others, q[j].next, q[j].count)
      BY <2>2, <3>1, BetweenSame
    <3> QED BY <3>2 DEF keys_in
  <2>3. CASE ~ is_loop(q[j])
    BY <2>3 DEF keys_in, is_loop
  <2> QED BY <2>2, <2>3
<1> QED
  BY <1>1 DEF keys_below

LEMMA PressesAre ==
  ASSUME TypeOK
  PROVE  PressesConserved <=> presses(pressed_keys, pressed_keys_count, stack) = arrival
<1>1. \A f : keys_of_call(f) = keys_in(pressed_keys, f)
  BY DEF keys_of_call, keys_in, between
<1>2. [i \in 1 .. pressed_keys_count |-> pressed_keys[i].position]
        = between(pressed_keys, 1, pressed_keys_count)
  <2>1. pressed_keys_count - 1 + 1 = pressed_keys_count /\ pressed_keys_count \in Nat
        /\ \A i \in 1 .. pressed_keys_count : 1 + i - 1 = i
    BY ConstantFacts DEF TypeOK
  <2> QED BY <2>1 DEF between
<1> QED
  BY <1>1, <1>2 DEF PressesConserved, presses_in_matcher, presses, keys_below

-----------------------------------------------------------------------------
(* Calls in progress                                                       *)

\* Calls at the bottom of a handler: nothing is below them.
RootOps == {"up", "up_cleaned", "timed_out", "set", "delete", "clear", "clear_slot"}

\* A key is being raised at the bottom of a handler or by a loop.
Calls(q) ==
  /\ \A i \in 1 .. Len(q) : q[i].op \in RootOps => i = Len(q)
  /\ \A i \in 1 .. Len(q) - 1 : q[i].op \in {"down", "bubble"} => q[i + 1].op = "release"

\* Whether clear_all() is on its way.
wiping(q) == \E i \in 1 .. Len(q) : q[i].op \in {"clear", "clear_slot"}

LEMMA NoCalls == Calls(<<>>) /\ releasing(<<>>) = {} /\ ~ wiping(<<>>)
BY DEF Calls, releasing, wiping

LEMMA OneMoreCall ==
  ASSUME NEW f \in Frame, NEW q \in Seq(Frame)
  PROVE  /\ releasing(<<f>> \o q) =
              (IF f.op \in {"up", "up_cleaned"} THEN {f.event.position} ELSE {}) \cup releasing(q)
         /\ wiping(<<f>> \o q) <=> f.op \in {"clear", "clear_slot"} \/ wiping(q)
         /\ Calls(<<f>> \o q) <=> /\ Calls(q)
                                  /\ f.op \in RootOps => q = <<>>
                                  /\ f.op \in {"down", "bubble"} => q = <<>> \/ Head(q).op = "release"
<1> DEFINE s == <<f>> \o q
           n == Len(q)
<1>1. /\ s \in Seq(Frame) /\ Len(s) = n + 1 /\ s[1] = f
      /\ \A j \in 2 .. n + 1 : s[j] = q[j - 1]
  BY PushedCalls
<1>2. n \in Nat /\ (n = 0 <=> q = <<>>) /\ (q # <<>> => Head(q) = q[1])
  BY EmptySeq
<1> HIDE DEF s
<1>3. \A j \in 1 .. n + 1 : j # 1 => j - 1 \in 1 .. n /\ s[j] = q[j - 1]
  BY <1>1, <1>2
<1>4. \A j \in 1 .. n : j + 1 \in 1 .. n + 1 /\ s[j + 1] = q[j]
  <2> TAKE j \in 1 .. n
  <2>1. j + 1 \in 2 .. n + 1 /\ j + 1 - 1 = j
    BY <1>2
  <2> QED BY <1>1, <2>1
<1>5. 1 \in 1 .. n + 1
  BY <1>2
<1>6. releasing(s) = (IF f.op \in {"up", "up_cleaned"} THEN {f.event.position} ELSE {}) \cup releasing(q)
  <2>1. \A x \in releasing(s) :
          x \in (IF f.op \in {"up", "up_cleaned"} THEN {f.event.position} ELSE {}) \cup releasing(q)
    <3> TAKE x \in releasing(s)
    <3>1. PICK j \in 1 .. n + 1 : s[j].op \in {"up", "up_cleaned"} /\ x = s[j].event.position
      BY <1>1 DEF releasing
    <3>2. CASE j = 1
      BY <1>1, <3>1, <3>2
    <3>3. CASE j # 1
      BY <1>3, <3>1, <3>3 DEF releasing
    <3> QED BY <3>2, <3>3
  <2>2. \A x \in releasing(q) : x \in releasing(s)
    <3> TAKE x \in releasing(q)
    <3>1. PICK j \in 1 .. n : q[j].op \in {"up", "up_cleaned"} /\ x = q[j].event.position
      BY DEF releasing
    <3> QED BY <1>1, <1>4, <3>1 DEF releasing
  <2>3. f.op \in {"up", "up_cleaned"} => f.event.position \in releasing(s)
    BY <1>1, <1>5 DEF releasing
  <2> QED BY <2>1, <2>2, <2>3
<1>7. wiping(s) <=> f.op \in {"clear", "clear_slot"} \/ wiping(q)
  <2>1. ASSUME wiping(s) PROVE f.op \in {"clear", "clear_slot"} \/ wiping(q)
    <3>1. PICK j \in 1 .. n + 1 : s[j].op \in {"clear", "clear_slot"}
      BY <1>1, <2>1 DEF wiping
    <3> QED BY <1>1, <1>3, <3>1 DEF wiping
  <2>2. ASSUME f.op \in {"clear", "clear_slot"} \/ wiping(q) PROVE wiping(s)
    BY <1>1, <1>4, <1>5, <2>2 DEF wiping
  <2> QED BY <2>1, <2>2
<1>8. ASSUME Calls(s)
      PROVE  /\ Calls(q)
             /\ f.op \in RootOps => q = <<>>
             /\ f.op \in {"down", "bubble"} => q = <<>> \/ Head(q).op = "release"
  <2>1. ASSUME NEW i \in 1 .. n, q[i].op \in RootOps PROVE i = n
    <3>1. i + 1 = n + 1
      BY <1>1, <1>4, <1>8, <2>1 DEF Calls
    <3> QED BY <1>2, <3>1
  <2>2. ASSUME NEW i \in 1 .. n - 1, q[i].op \in {"down", "bubble"} PROVE q[i + 1].op = "release"
    <3>1. i \in 1 .. n /\ i + 1 \in 1 .. n /\ i + 1 \in 1 .. (n + 1) - 1
      BY <1>2
    <3>2. s[i + 1 + 1].op = "release"
      BY <1>1, <1>4, <1>8, <2>2, <3>1 DEF Calls
    <3> QED BY <1>4, <3>1, <3>2
  <2>3. f.op \in RootOps => q = <<>>
    <3>1. f.op \in RootOps => 1 = n + 1
      BY <1>1, <1>5, <1>8 DEF Calls
    <3> QED BY <1>2, <3>1
  <2>4. f.op \in {"down", "bubble"} => q = <<>> \/ Head(q).op = "release"
    <3> SUFFICES ASSUME f.op \in {"down", "bubble"}, q # <<>> PROVE Head(q).op = "release"
      OBVIOUS
    <3>1. 1 \in 1 .. (n + 1) - 1 /\ 1 \in 1 .. n
      BY <1>2
    <3>2. s[1 + 1].op = "release"
      BY <1>1, <1>8, <3>1 DEF Calls
    <3> QED BY <1>2, <1>4, <3>1, <3>2
  <2> QED BY <2>1, <2>2, <2>3, <2>4 DEF Calls
<1>9. ASSUME Calls(q), f.op \in RootOps => q = <<>>,
             f.op \in {"down", "bubble"} => q = <<>> \/ Head(q).op = "release"
      PROVE  Calls(s)
  <2>1. ASSUME NEW i \in 1 .. n + 1, s[i].op \in RootOps PROVE i = n + 1
    <3>1. CASE i = 1
      BY <1>1, <1>2, <1>9, <2>1, <3>1
    <3>2. CASE i # 1
      <4>1. i - 1 = n
        BY <1>3, <1>9, <2>1, <3>2 DEF Calls
      <4> QED BY <1>2, <4>1
    <3> QED BY <3>1, <3>2
  <2>2. ASSUME NEW i \in 1 .. n, s[i].op \in {"down", "bubble"} PROVE s[i + 1].op = "release"
    <3>1. CASE i = 1
      <4>1. q # <<>> /\ s[i + 1] = q[1] /\ s[i] = f
        BY <1>1, <1>2, <1>4, <3>1
      <4> QED BY <1>2, <1>9, <2>2, <4>1
    <3>2. CASE i # 1
      <4>1. /\ i \in 1 .. n + 1 /\ i - 1 \in 1 .. n - 1 /\ i - 1 + 1 = i
            /\ s[i] = q[i - 1] /\ s[i + 1] = q[i]
        BY <1>2, <1>3, <1>4, <3>2
      <4> QED BY <1>9, <2>2, <4>1 DEF Calls
    <3> QED BY <3>1, <3>2
  <2>3. n + 1 - 1 = n
    BY <1>2
  <2> QED BY <1>1, <2>1, <2>2, <2>3 DEF Calls
<1> QED
  BY <1>6, <1>7, <1>8, <1>9 DEF s

\* The stack is its top call on the rest.
LEMMA StackIs ==
  ASSUME Inv, stack # <<>>
  PROVE  /\ stack = <<top>> \o rest /\ top \in Frame /\ rest \in Seq(Frame)
<1>1. stack \in Seq(Frame) /\ top \in Frame /\ rest \in Seq(Frame)
  BY StackPops DEF Inv, TypeOK
<1> DEFINE s == <<top>> \o rest
<1>2. /\ s \in Seq(Frame) /\ Len(s) = Len(rest) + 1 /\ s[1] = top
      /\ \A j \in 2 .. Len(rest) + 1 : s[j] = rest[j - 1]
  BY <1>1, PushedCalls
<1>3. /\ Len(stack) \in Nat /\ Len(rest) = Len(stack) - 1 /\ top = stack[1]
      /\ \A i \in 1 .. Len(rest) : rest[i] = stack[i + 1]
  BY <1>1, HeadTailProperties, LenProperties DEF rest, top
<1> HIDE DEF s
<1>4. ASSUME NEW j \in 1 .. Len(stack) PROVE s[j] = stack[j]
  <2>1. CASE j = 1
    BY <1>2, <1>3, <2>1
  <2>2. CASE j # 1
    <3>1. j \in 2 .. Len(rest) + 1 /\ j - 1 \in 1 .. Len(rest) /\ j - 1 + 1 = j
      BY <1>3, <2>2
    <3> QED BY <1>2, <1>3, <3>1
  <2> QED BY <2>1, <2>2
<1>5. Len(s) = Len(stack)
  BY <1>2, <1>3
<1>6. s = stack
  BY <1>1, <1>2, <1>4, <1>5, SeqEqual
<1> QED
  BY <1>1, <1>6 DEF s

-----------------------------------------------------------------------------
(* Places of keys                                                          *)

in_combo(c, i, p) == c[i].slot # NoSlot /\ p \in c[i].keys

\* p is on its way (a), in one of the held combos c, or down for the keymap (h).
Somewhere(a, c, h, p) == p \in a \/ p \in h \/ \E i \in 1 .. MaxPressed : in_combo(c, i, p)

\* ... and not twice.
Once(a, c, h, p) ==
  /\ ~ (p \in a /\ p \in h)
  /\ \A i \in 1 .. MaxPressed : in_combo(c, i, p) => p \notin a /\ p \notin h
  /\ \A i, j \in 1 .. MaxPressed : in_combo(c, i, p) /\ in_combo(c, j, p) => i = j

\* Keys in a place are down (d) or have their release on the way (r), and if nothing
\* was edited (w) those that are down are in a place.
Places(a, c, h, d, r, w) ==
  \A p \in Positions :
    /\ Once(a, c, h, p)
    /\ Somewhere(a, c, h, p) => p \in d \/ p \in r
    /\ p \in r => p \notin d
    /\ w /\ p \in d => Somewhere(a, c, h, p)

Pool == [1 .. MaxPressed -> Entry]

LEMMA KeyPassed ==
  ASSUME NEW a, NEW c, NEW h, NEW d, NEW r, NEW w, Places(a, c, h, d, r, w), NEW x \in a
  PROVE  Places(a \ {x}, c, h \cup {x}, d, r, w)
BY DEF Places, Once, Somewhere

LEMMA KeyPressed ==
  ASSUME NEW a, NEW c, NEW h, NEW d, NEW w, Places(a, c, h, d, {}, w), NEW x, x \notin d
  PROVE  Places(a \cup {x}, c, h, d \cup {x}, {}, w)
BY DEF Places, Once, Somewhere

LEMMA KeyReleased ==
  ASSUME NEW a, NEW c, NEW h, NEW d, NEW w, Places(a, c, h, d, {}, w), NEW x
  PROVE  Places(a, c, h, d \ {x}, {x}, w)
BY DEF Places, Once, Somewhere

LEMMA KeyUp ==
  ASSUME NEW a, NEW c, NEW h, NEW d, NEW w, NEW x, Places(a, c, h, d, {x}, w), x \notin a,
         \A i \in 1 .. MaxPressed : ~ in_combo(c, i, x)
  PROVE  Places(a, c, h \ {x}, d, {}, w)
BY DEF Places, Once, Somewhere

LEMMA ComboFires ==
  ASSUME NEW a, NEW c \in Pool, NEW h, NEW d, NEW r, NEW w, Places(a, c, h, d, r, w),
         NEW T \in SUBSET a, NEW s \in Slots, NEW i \in 1 .. MaxPressed, c[i].slot = NoSlot
  PROVE  Places(a \ T, [c EXCEPT ![i] = [slot |-> s, keys |-> T]], h, d, r, w)
<1> DEFINE e == [slot |-> s, keys |-> T]
           o == [c EXCEPT ![i] = e]
<1>1. /\ \A j \in 1 .. MaxPressed : o[j] = IF j = i THEN e ELSE c[j]
      /\ e.slot = s /\ s # NoSlot /\ e.keys = T
  BY ConstantFacts DEF Pool
<1> HIDE DEF e, o
<1>3. ASSUME NEW p, NEW j \in 1 .. MaxPressed
      PROVE  in_combo(o, j, p) <=> IF j = i THEN p \in T ELSE in_combo(c, j, p)
  BY <1>1 DEF in_combo
<1>4. \A p : ~ in_combo(c, i, p)
  BY DEF in_combo
<1> HIDE DEF in_combo
<1>5. ASSUME NEW p \in Positions PROVE Once(a \ T, o, h, p)
  BY <1>3, <1>4 DEF Places, Once
<1>6. ASSUME NEW p \in Positions PROVE Somewhere(a \ T, o, h, p) <=> Somewhere(a, c, h, p)
  <2>1. CASE p \in T
    <3>1. Somewhere(a, c, h, p)
      BY <2>1 DEF Somewhere
    <3>2. Somewhere(a \ T, o, h, p)
      BY <1>3, <2>1 DEF Somewhere
    <3> QED BY <3>1, <3>2
  <2>2. CASE p \notin T
    BY <1>3, <1>4, <2>2 DEF Somewhere
  <2> QED BY <2>1, <2>2
<1>7. Places(a \ T, o, h, d, r, w)
  <2> SUFFICES ASSUME NEW p \in Positions
               PROVE  /\ Once(a \ T, o, h, p)
                      /\ Somewhere(a \ T, o, h, p) => p \in d \/ p \in r
                      /\ p \in r => p \notin d
                      /\ w /\ p \in d => Somewhere(a \ T, o, h, p)
    BY DEF Places
  <2> QED BY <1>5, <1>6 DEF Places
<1> QED
  BY <1>7 DEF o, e

\* A key of a held combo is let go.
LEMMA ComboKeyUp ==
  ASSUME NEW a, NEW c \in Pool, NEW h, NEW d, NEW w, NEW x \in Positions,
         Places(a, c, h, d, {x}, w), NEW i \in 1 .. MaxPressed, in_combo(c, i, x)
  PROVE  Places(a, [c EXCEPT ![i].keys = c[i].keys \ {x}], h, d, {}, w)
<1> DEFINE o == [c EXCEPT ![i].keys = c[i].keys \ {x}]
<1>1. \A j \in 1 .. MaxPressed : /\ o[j].slot = c[j].slot
                                 /\ o[j].keys = IF j = i THEN c[i].keys \ {x} ELSE c[j].keys
  BY DEF Pool, Entry
<1> HIDE DEF o
<1>3. ASSUME NEW p, NEW j \in 1 .. MaxPressed
      PROVE  in_combo(o, j, p) <=> in_combo(c, j, p) /\ ~ (j = i /\ p = x)
  BY <1>1 DEF in_combo
<1> HIDE DEF in_combo
<1>4. Once(a, c, h, x) /\ x \notin d
  BY DEF Places
<1>5. ~ Somewhere(a, o, h, x)
  <2>1. \A j \in 1 .. MaxPressed : ~ in_combo(o, j, x)
    BY <1>3, <1>4 DEF Once
  <2> QED BY <1>4, <2>1 DEF Once, Somewhere
<1>6. ASSUME NEW p \in Positions PROVE Once(a, o, h, p)
  BY <1>3 DEF Places, Once
<1>7. ASSUME NEW p \in Positions, p # x PROVE Somewhere(a, o, h, p) <=> Somewhere(a, c, h, p)
  BY <1>3, <1>7 DEF Somewhere
<1>8. Places(a, o, h, d, {}, w)
  <2> SUFFICES ASSUME NEW p \in Positions
               PROVE  /\ Once(a, o, h, p)
                      /\ Somewhere(a, o, h, p) => p \in d
                      /\ w /\ p \in d => Somewhere(a, o, h, p)
    BY DEF Places
  <2>1. CASE p = x
    BY <1>4, <1>5, <1>6, <2>1
  <2>2. CASE p # x
    BY <1>6, <1>7, <2>2 DEF Places
  <2> QED BY <2>1, <2>2
<1> QED
  BY <1>8 DEF o

\* A held combo goes, and the last one takes its place.
LEMMA ComboGoes ==
  ASSUME NEW a, NEW c \in Pool, NEW h, NEW d, NEW r, NEW w, Places(a, c, h, d, r, w),
         NEW n \in 1 .. MaxPressed, NEW i \in 1 .. n, w => c[i].keys = {}
  PROVE  Places(a, [c EXCEPT ![i] = c[n], ![n] = FreeEntry], h, d, r, w)
<1> DEFINE o == [c EXCEPT ![i] = c[n], ![n] = FreeEntry]
<1>1. /\ \A j \in 1 .. MaxPressed :
           o[j] = IF j = n THEN FreeEntry ELSE IF j = i THEN c[n] ELSE c[j]
      /\ FreeEntry.slot = NoSlot /\ i \in 1 .. MaxPressed
  BY ConstantFacts DEF Pool, FreeEntry
<1> HIDE DEF o
<1>3. ASSUME NEW p, NEW j \in 1 .. MaxPressed
      PROVE  in_combo(o, j, p) <=> j # n /\ IF j = i THEN in_combo(c, n, p) ELSE in_combo(c, j, p)
  BY <1>1 DEF in_combo
<1>4. w => \A p : ~ in_combo(c, i, p)
  BY DEF in_combo
<1> HIDE DEF in_combo
<1>5. ASSUME NEW p \in Positions PROVE Once(a, o, h, p)
  BY <1>3 DEF Places, Once
<1>6. ASSUME NEW p \in Positions, Somewhere(a, o, h, p) PROVE Somewhere(a, c, h, p)
  BY <1>3, <1>6 DEF Somewhere
<1>7. ASSUME NEW p \in Positions, w, Somewhere(a, c, h, p) PROVE Somewhere(a, o, h, p)
  <2>1. CASE p \in a \/ p \in h
    BY <2>1 DEF Somewhere
  <2>2. CASE \E j \in 1 .. MaxPressed : in_combo(c, j, p)
    <3>1. PICK j \in 1 .. MaxPressed : in_combo(c, j, p)
      BY <2>2
    <3>2. j # i
      BY <1>4, <1>7, <3>1
    <3>3. CASE j = n
      BY <1>1, <1>3, <3>1, <3>2, <3>3 DEF Somewhere
    <3>4. CASE j # n
      BY <1>3, <3>1, <3>2, <3>4 DEF Somewhere
    <3> QED BY <3>3, <3>4
  <2> QED BY <1>7, <2>1, <2>2 DEF Somewhere
<1>8. Places(a, o, h, d, r, w)
  BY <1>5, <1>6, <1>7 DEF Places
<1> QED
  BY <1>8 DEF o

\* Nothing is asked of the keys that are down any more.
LEMMA LessToShow ==
  ASSUME NEW a, NEW c, NEW h, NEW d, NEW r, NEW w, NEW v, Places(a, c, h, d, r, w), v => w
  PROVE  Places(a, c, h, d, r, v)
BY DEF Places

-----------------------------------------------------------------------------
(* The invariant                                                           *)

\* Besides the presses and the places: what comes back from cleanup() with at
\* most one key released left none captured, so that a release that goes on
\* has no press before it.
PressInv ==
  /\ presses(pressed_keys, pressed_keys_count, stack) = arrival
  /\ Distinct(arrival)
  /\ Calls(stack)
  /\ Runs("up_cleaned") /\ released_keys <= 1 => pressed_keys_count = 0
  /\ Places(Range(arrival), active_combos, host, down, releasing(stack),
            edits = 0 /\ ~ wiping(stack))

LEMMA PressesType ==
  ASSUME NEW keys \in Buffer, NEW n \in 0 .. MaxKeys, NEW q \in Seq(Frame)
  PROVE  /\ between(keys, 1, n) \in Seq(Positions) /\ keys_below(keys, q) \in Seq(Positions)
         /\ presses(keys, n, q) \in Seq(Positions)
<1>1. between(keys, 1, n) \in Seq(Positions)
  <2>1. 1 \in 1 .. MaxKeys + 1
    BY ConstantFacts
  <2> QED BY <2>1, Between
<1>2. keys_below(keys, q) \in Seq(Positions)
  BY StackKeys
<1> QED
  BY <1>1, <1>2, TwoParts DEF presses

\* The buffer and the arrivals of a state.
LEMMA StateTypes ==
  ASSUME Inv
  PROVE  /\ pressed_keys \in Buffer /\ pressed_keys_count \in 0 .. MaxKeys
         /\ pressed_keys_count \in Nat /\ stack \in Seq(Frame)
         /\ active_combos \in Pool
         /\ PressInv => arrival \in Seq(Positions)
<1>1. /\ pressed_keys \in Buffer /\ pressed_keys_count \in 0 .. MaxKeys
      /\ stack \in Seq(Frame) /\ active_combos \in Pool
  BY DEF Inv, TypeOK, Buffer, Pool
<1>2. PressInv => arrival \in Seq(Positions)
  BY <1>1, PressesType DEF PressInv
<1> QED
  BY <1>1, <1>2, ConstantFacts

\* A call that holds no press.
LEMMA SilentCall ==
  ASSUME NEW keys \in Buffer, NEW n, NEW q \in Seq(Frame), NEW f \in Frame,
         f.op \notin {"down", "bubble", "release"}
  PROVE  presses(keys, n, <<f>> \o q) = presses(keys, n, q)
<1>1. keys_in(keys, f) = <<>>
  BY DEF keys_in
<1>2. keys_below(keys, <<f>> \o q) = <<>> \o keys_below(keys, q)
  BY <1>1, PushedKeys
<1>3. keys_below(keys, q) \in Seq(Positions)
  BY StackKeys
<1>4. <<>> \o keys_below(keys, q) = keys_below(keys, q)
  BY <1>3, ConcatEmptySeq
<1> QED
  BY <1>2, <1>4 DEF presses

\* A loop that starts holds what the buffer held.
LEMMA LoopHolds ==
  ASSUME NEW keys \in Buffer, NEW n \in 0 .. MaxKeys, NEW q \in Seq(Frame)
  PROVE  presses(keys, 0, <<ReleaseLoop(1, n)>> \o q) = presses(keys, n, q)
<1> DEFINE f == ReleaseLoop(1, n)
<1>1. /\ f \in Frame /\ f.op = "release" /\ f.next = 1 /\ f.count = n
      /\ 1 \in 1 .. MaxKeys + 1 /\ 0 \in 0 .. MaxKeys /\ 0 < 1
  BY ReleaseFrames, ConstantFacts DEF ReleaseLoop
<1> HIDE DEF f
<1>2. keys_in(keys, f) = between(keys, 1, n)
  BY <1>1 DEF keys_in
<1>3. keys_below(keys, <<f>> \o q) = between(keys, 1, n) \o keys_below(keys, q)
  BY <1>1, <1>2, PushedKeys
<1>4. between(keys, 1, 0) = <<>>
  BY <1>1, BetweenNothing
<1>5. presses(keys, 0, <<f>> \o q) = <<>> \o presses(keys, n, q)
  BY <1>3, <1>4 DEF presses
<1>6. <<>> \o presses(keys, n, q) = presses(keys, n, q)
  BY PressesType, ConcatEmptySeq
<1> QED
  BY <1>5, <1>6 DEF f

\* A press goes down the chain.
LEMMA PassedDown ==
  ASSUME NEW e \in Event, NEW u \in Seq(Positions), NEW v \in Seq(Positions),
         arrival = u \o (<<e.position>> \o v), Distinct(arrival), pass_down(e),
         NEW r, NEW w, Places(Range(arrival), active_combos, host, down, r, w)
  PROVE  /\ arrival' = u \o v /\ Distinct(arrival')
         /\ Places(Range(arrival'), active_combos, host', down, r, w)
<1> DEFINE t == <<e.position>>
<1>1. t \in Seq(Positions) /\ Range(t) = {e.position}
  <2>1. e.position \in Positions
    BY DEF Event
  <2>2. t \in Seq(Positions) /\ Len(t) = 1 /\ t[1] = e.position
    BY <2>1
  <2>3. Range(t) = {t[i] : i \in 1 .. Len(t)}
    BY <2>2, RangeEquality
  <2> HIDE DEF t
  <2> QED BY <2>2, <2>3
<1>2. arrival = u \o (t \o v)
  OBVIOUS
<1> HIDE DEF t
<1>3. arrival = (u \o t) \o v
  <2>1. (u \o t) \o v = u \o (t \o v)
    BY <1>1, ConcatAssociative
  <2> QED BY <1>2, <2>1
<1>4. Distinct((u \o t) \o v)
  BY <1>3
<1>5. /\ without((u \o t) \o v, Range(t)) = u \o v
      /\ Distinct(u \o v)
      /\ Range(u \o v) = Range((u \o t) \o v) \ Range(t)
      /\ Range(t) \subseteq Range((u \o t) \o v)
  BY <1>1, <1>4, PressesLeave
<1>6. arrival' = without(arrival, Range(t)) /\ host' = host \cup {e.position}
  BY <1>1 DEF pass_down
<1>7. /\ arrival' = u \o v /\ Distinct(arrival')
      /\ Range(arrival') = Range(arrival) \ {e.position} /\ e.position \in Range(arrival)
  BY <1>1, <1>3, <1>5, <1>6
<1>8. Places(Range(arrival) \ {e.position}, active_combos, host \cup {e.position}, down, r, w)
  BY <1>7, KeyPassed
<1> QED
  BY <1>6, <1>7, <1>8

\* The keys behind a combo move to the front.
LEMMA BetweenShifted ==
  ASSUME NEW keys \in Buffer, NEW n \in 0 .. MaxKeys, NEW l \in 0 .. n
  PROVE  /\ shifted(keys, n, l) \in Buffer
         /\ between(shifted(keys, n, l), 1, n - l) = between(keys, l + 1, n)
         /\ \A k \in n + 1 .. MaxKeys : shifted(keys, n, l)[k] = keys[k]
<1>1. \A i \in 1 .. MaxKeys : i + l <= n => i + l \in 1 .. MaxKeys
  BY ConstantFacts
<1>2. shifted(keys, n, l) \in Buffer
  BY <1>1 DEF shifted, Buffer
<1>3. \A k \in n + 1 .. MaxKeys : shifted(keys, n, l)[k] = keys[k]
  <2>1. \A k \in n + 1 .. MaxKeys : k \in 1 .. MaxKeys /\ ~ k + l <= n
    BY ConstantFacts
  <2> QED BY <2>1 DEF shifted
<1>4. ASSUME NEW i \in 1 .. n - l
      PROVE  shifted(keys, n, l)[1 + i - 1].position = keys[l + 1 + i - 1].position
  <2>1. 1 + i - 1 \in 1 .. MaxKeys /\ 1 + i - 1 + l <= n /\ 1 + i - 1 + l = l + 1 + i - 1
    BY ConstantFacts
  <2> QED BY <2>1 DEF shifted
<1>5. n - l - 1 + 1 = n - l /\ n - (l + 1) + 1 = n - l
  BY ConstantFacts
<1>6. between(shifted(keys, n, l), 1, n - l) = between(keys, l + 1, n)
  BY <1>4, <1>5 DEF between
<1> QED
  BY <1>2, <1>3, <1>6

\* The stack after cleanup(): a loop on the calls that follow.
LEMMA LoopOn ==
  ASSUME NEW n \in 0 .. MaxKeys, NEW q \in Seq(Frame), Calls(q)
  PROVE  /\ Calls(<<ReleaseLoop(1, n)>> \o q)
         /\ releasing(<<ReleaseLoop(1, n)>> \o q) = releasing(q)
         /\ wiping(<<ReleaseLoop(1, n)>> \o q) <=> wiping(q)
         /\ Head(<<ReleaseLoop(1, n)>> \o q).op = "release"
         /\ <<ReleaseLoop(1, n)>> \o q \in Seq(Frame)
<1> DEFINE f == ReleaseLoop(1, n)
<1>1. f \in Frame /\ f.op = "release"
  <2>1. 1 \in 1 .. MaxKeys + 1
    BY ConstantFacts
  <2> QED BY <2>1, ReleaseFrames DEF ReleaseLoop
<1> HIDE DEF f
<1>2. /\ releasing(<<f>> \o q) = {} \cup releasing(q)
      /\ wiping(<<f>> \o q) <=> wiping(q)
      /\ Calls(<<f>> \o q)
  BY <1>1, OneMoreCall DEF RootOps
<1>3. Head(<<f>> \o q) = f /\ <<f>> \o q \in Seq(Frame)
  BY <1>1, PushedCalls
<1> QED
  BY <1>1, <1>2, <1>3 DEF f

LEMMA AgainOn ==
  ASSUME NEW q \in Seq(Frame), Calls(q)
  PROVE  /\ Calls(<<ReleaseAgain>> \o q) /\ <<ReleaseAgain>> \o q \in Seq(Frame)
         /\ releasing(<<ReleaseAgain>> \o q) = releasing(q)
         /\ wiping(<<ReleaseAgain>> \o q) <=> wiping(q)
         /\ \A keys \in Buffer : \A n : presses(keys, n, <<ReleaseAgain>> \o q) = presses(keys, n, q)
<1> DEFINE f == ReleaseAgain
<1>1. f \in Frame /\ f.op = "release_again"
  <2>1. 1 \in 1 .. MaxKeys + 1 /\ 0 \in 0 .. MaxKeys
    BY ConstantFacts
  <2> QED BY <2>1, ReleaseFrames DEF ReleaseAgain
<1> HIDE DEF f
<1>2. /\ releasing(<<f>> \o q) = {} \cup releasing(q)
      /\ wiping(<<f>> \o q) <=> wiping(q)
      /\ Calls(<<f>> \o q)
  BY <1>1, OneMoreCall DEF RootOps
<1>3. <<f>> \o q \in Seq(Frame)
  BY <1>1, PushedCalls
<1>4. \A keys \in Buffer : \A n : presses(keys, n, <<f>> \o q) = presses(keys, n, q)
  BY <1>1, SilentCall
<1> QED
  BY <1>2, <1>3, <1>4 DEF f

\* release_pressed_keys() on the calls q, when the presses are as arrival' says.
LEMMA LoopKeeps ==
  ASSUME NEW n \in 0 .. MaxKeys, NEW q \in Seq(Frame), Calls(q),
         release_pressed_keys(n, q), pressed_keys' \in Buffer,
         presses(pressed_keys', n, q) = arrival', Distinct(arrival'),
         Places(Range(arrival'), active_combos', host', down', releasing(q),
                edits' = 0 /\ ~ wiping(q))
  PROVE  PressInv'
<1> DEFINE s == <<ReleaseLoop(1, n)>> \o q
<1>1. stack' = s /\ pressed_keys_count' = 0
  BY DEF release_pressed_keys
<1>2. /\ Calls(s) /\ releasing(s) = releasing(q) /\ (wiping(s) <=> wiping(q))
      /\ Head(s).op = "release"
  BY LoopOn
<1>3. presses(pressed_keys', 0, s) = arrival'
  BY LoopHolds
<1> HIDE DEF s
<1>4. Places(Range(arrival'), active_combos', host', down', releasing(s), edits' = 0 /\ ~ wiping(s))
  BY <1>2
<1> QED
  BY <1>1, <1>2, <1>3, <1>4 DEF PressInv, Runs, top

LEMMA CleanupKeepsPresses ==
  ASSUME Inv, NEW keys \in Buffer, NEW count \in 0 .. MaxKeys, NEW full \in Slots \cup {NoSlot},
         NEW q \in Seq(Frame), Under(q, count), Calls(q), cleanup(keys, count, full, q),
         presses(keys, count, q) = arrival, Distinct(arrival),
         UNCHANGED <<host, down, edits>>,
         Places(Range(arrival), active_combos, host, down, releasing(q),
                edits = 0 /\ ~ wiping(q))
  PROVE  PressInv'
<1>1. CASE full = NoSlot
  <2>1. /\ pressed_keys' = keys /\ release_pressed_keys(count, q)
        /\ UNCHANGED <<pool, arrival>>
    BY <1>1 DEF cleanup
  <2> QED
    BY <2>1, LoopKeeps DEF pool
<1>2. CASE full # NoSlot /\ free_entries = {}
  <2> DEFINE s == <<ReleaseAgain>> \o q
  <2>1. /\ pressed_keys' = keys /\ release_pressed_keys(count, s)
        /\ UNCHANGED <<pool, arrival>>
    BY <1>2 DEF cleanup, activate_combo
  <2>2. /\ Calls(s) /\ s \in Seq(Frame) /\ releasing(s) = releasing(q)
        /\ (wiping(s) <=> wiping(q)) /\ presses(keys, count, s) = presses(keys, count, q)
    BY AgainOn
  <2> HIDE DEF s
  <2> QED
    BY <2>1, <2>2, LoopKeeps DEF pool
<1>3. CASE full # NoSlot /\ free_entries # {}
  <2> DEFINE l == combo_length(full, count)
             taken == positions_of(keys, 1, l)
             i == Min(free_entries)
  <2>1. /\ active_combos' = [active_combos EXCEPT ![i] = [slot |-> full, keys |-> taken]]
        /\ pressed_keys' = shifted(keys, count, l)
        /\ arrival' = without(arrival, taken)
        /\ release_pressed_keys(count - l, q)
    BY <1>3 DEF cleanup, activate_combo
  <2>2. l \in 0 .. count
    <3>1. TypeOK /\ count \in Nat /\ full \in Slots
      BY <1>3, ConstantFacts DEF Inv
    <3> QED BY <3>1, ComboLength
  <2>3. i \in 1 .. MaxPressed /\ active_combos[i].slot = NoSlot
    <3>1. free_entries \in SUBSET Nat
      BY DEF free_entries
    <3>2. i \in free_entries
      BY <1>3, <3>1, MinOfNaturals
    <3> HIDE DEF i
    <3> QED BY <3>2 DEF free_entries
  <2> HIDE DEF l, i
  <2>4. l \in 0 .. MaxKeys /\ l + 1 \in 1 .. MaxKeys + 1 /\ 1 \in 1 .. MaxKeys + 1
        /\ count - l \in 0 .. MaxKeys /\ 1 - 1 <= l /\ l <= count
    BY <2>2, ConstantFacts
  <2>5. /\ shifted(keys, count, l) \in Buffer
        /\ between(shifted(keys, count, l), 1, count - l) = between(keys, l + 1, count)
        /\ \A k \in count + 1 .. MaxKeys : shifted(keys, count, l)[k] = keys[k]
    BY <2>2, BetweenShifted
  <2>6. keys_below(shifted(keys, count, l), q) = keys_below(keys, q)
    <3>1. ASSUME NEW j \in 1 .. Len(q), is_loop(q[j]), NEW k \in q[j].next .. q[j].count
          PROVE  keys[k] = shifted(keys, count, l)[k]
      <4>1. count <= q[j].next - 2
        BY <3>1 DEF Under
      <4>2. q[j].next \in 1 .. MaxKeys + 1 /\ q[j].count \in 0 .. MaxKeys
        <5>1. q[j] \in Frame
          BY LenProperties
        <5> QED BY <3>1, <5>1, FrameFields DEF is_loop
      <4>3. k \in count + 1 .. MaxKeys
        BY <4>1, <4>2, ConstantFacts
      <4> QED BY <2>5, <4>3
    <3> QED BY <2>5, <3>1, BelowSame
  <2> DEFINE t == between(keys, 1, l)
             b == between(keys, l + 1, count)
             P == keys_below(keys, q)
  <2>7. t \in Seq(Positions) /\ b \in Seq(Positions) /\ P \in Seq(Positions)
    BY <2>4, Between, StackKeys
  <2>8. between(keys, 1, count) = t \o b
    BY <2>4, BetweenSplits
  <2>9. Range(t) = taken
    BY <2>4, BetweenRange
  <2>10. arrival = (t \o b) \o P
    BY <2>8 DEF presses
  <2>11. presses(shifted(keys, count, l), count - l, q) = b \o P
    BY <2>5, <2>6 DEF presses
  <2> HIDE DEF t, b, P, taken
  <2>12. arrival = (<<>> \o t) \o (b \o P) /\ b \o P \in Seq(Positions) /\ <<>> \in Seq(Positions)
         /\ <<>> \o (b \o P) = b \o P
    <3>1. b \o P \in Seq(Positions) /\ <<>> \in Seq(Positions)
      BY <2>7, TwoParts
    <3>2. <<>> \o t = t /\ <<>> \o (b \o P) = b \o P
      BY <2>7, <3>1, ConcatEmptySeq
    <3>3. (t \o b) \o P = t \o (b \o P)
      BY <2>7, ConcatAssociative
    <3> QED BY <2>10, <3>1, <3>2, <3>3
  <2>13. /\ without(arrival, taken) = b \o P /\ Distinct(b \o P)
         /\ Range(b \o P) = Range(arrival) \ taken /\ taken \subseteq Range(arrival)
    <3> DEFINE v == b \o P
               u == <<>>
    <3>1. u \in Seq(Positions) /\ v \in Seq(Positions) /\ arrival = (u \o t) \o v
          /\ u \o v = v
      BY <2>12
    <3> HIDE DEF v, u
    <3>2. Distinct((u \o t) \o v)
      BY <3>1
    <3>3. /\ without((u \o t) \o v, Range(t)) = u \o v
          /\ Distinct(u \o v)
          /\ Range(u \o v) = Range((u \o t) \o v) \ Range(t)
          /\ Range(t) \subseteq Range((u \o t) \o v)
      BY <2>7, <3>1, <3>2, PressesLeave
    <3>4. /\ without(arrival, taken) = v /\ Distinct(v)
          /\ Range(v) = Range(arrival) \ taken /\ taken \subseteq Range(arrival)
      BY <2>9, <3>1, <3>3
    <3> QED BY <3>4 DEF v
  <2>14. Places(Range(arrival) \ taken, active_combos', host, down, releasing(q),
                edits = 0 /\ ~ wiping(q))
    <3>1. full \in Slots /\ active_combos \in Pool
      BY <1>3, StateTypes
    <3> QED BY <2>1, <2>3, <2>13, <3>1, ComboFires
  <2>15. /\ arrival' = b \o P /\ Distinct(arrival') /\ Range(arrival') = Range(arrival) \ taken
         /\ pressed_keys' \in Buffer /\ presses(pressed_keys', count - l, q) = arrival'
    BY <2>1, <2>5, <2>11, <2>13
  <2>16. Places(Range(arrival'), active_combos', host', down', releasing(q),
                edits' = 0 /\ ~ wiping(q))
    BY <2>14, <2>15
  <2> QED
    BY <2>1, <2>4, <2>15, <2>16, LoopKeeps
<1> QED
  BY <1>1, <1>2, <1>3

-----------------------------------------------------------------------------
(* The steps                                                               *)

LEMMA AfterStep ==
  ASSUME NEW q, stack' = q, Calls(q),
         presses(pressed_keys', pressed_keys_count', q) = arrival', Distinct(arrival'),
         q = <<>> \/ Head(q).op # "up_cleaned",
         Places(Range(arrival'), active_combos', host', down', releasing(q),
                edits' = 0 /\ ~ wiping(q))
  PROVE  PressInv'
BY DEF PressInv, Runs, top

\* The call that runs, and what it does not touch.
LEMMA InProgress ==
  ASSUME Inv, PressInv, stack # <<>>
  PROVE  /\ top \in Frame /\ rest \in Seq(Frame) /\ Calls(rest)
         /\ top.op \in RootOps => rest = <<>>
         /\ top.op \in {"down", "bubble"} => rest = <<>> \/ Head(rest).op = "release"
         /\ releasing(stack) =
              (IF top.op \in {"up", "up_cleaned"} THEN {top.event.position} ELSE {}) \cup releasing(rest)
         /\ wiping(stack) <=> top.op \in {"clear", "clear_slot"} \/ wiping(rest)
         /\ between(pressed_keys, 1, pressed_keys_count) \in Seq(Positions)
         /\ keys_in(pressed_keys, top) \in Seq(Positions)
         /\ keys_below(pressed_keys, rest) \in Seq(Positions)
         /\ arrival = between(pressed_keys, 1, pressed_keys_count)
                        \o (keys_in(pressed_keys, top) \o keys_below(pressed_keys, rest))
         /\ Distinct(arrival)
         /\ Places(Range(arrival), active_combos, host, down, releasing(stack),
                   edits = 0 /\ ~ wiping(stack))
<1>1. stack = <<top>> \o rest /\ top \in Frame /\ rest \in Seq(Frame)
  BY StackIs
<1>2. pressed_keys \in Buffer /\ pressed_keys_count \in 0 .. MaxKeys
  BY StateTypes
<1>3. /\ releasing(stack) =
           (IF top.op \in {"up", "up_cleaned"} THEN {top.event.position} ELSE {}) \cup releasing(rest)
      /\ wiping(stack) <=> top.op \in {"clear", "clear_slot"} \/ wiping(rest)
      /\ Calls(stack) <=> /\ Calls(rest)
                          /\ top.op \in RootOps => rest = <<>>
                          /\ top.op \in {"down", "bubble"} => rest = <<>> \/ Head(rest).op = "release"
  <2> DEFINE f == top
             q == rest
  <2>1. f \in Frame /\ q \in Seq(Frame) /\ stack = <<f>> \o q
    BY <1>1
  <2> HIDE DEF f, q
  <2>2. /\ releasing(stack) =
             (IF f.op \in {"up", "up_cleaned"} THEN {f.event.position} ELSE {}) \cup releasing(q)
        /\ wiping(stack) <=> f.op \in {"clear", "clear_slot"} \/ wiping(q)
        /\ Calls(stack) <=> /\ Calls(q)
                            /\ f.op \in RootOps => q = <<>>
                            /\ f.op \in {"down", "bubble"} => q = <<>> \/ Head(q).op = "release"
    BY <2>1, OneMoreCall
  <2> QED BY <2>2 DEF f, q
<1>4. keys_below(pressed_keys, stack) = keys_in(pressed_keys, top) \o keys_below(pressed_keys, rest)
  <2> DEFINE f == top
             q == rest
  <2>1. f \in Frame /\ q \in Seq(Frame) /\ stack = <<f>> \o q
    BY <1>1
  <2> HIDE DEF f, q
  <2>2. keys_below(pressed_keys, stack) = keys_in(pressed_keys, f) \o keys_below(pressed_keys, q)
    BY <1>2, <2>1, PushedKeys
  <2> QED BY <2>2 DEF f, q
<1>5. /\ between(pressed_keys, 1, pressed_keys_count) \in Seq(Positions)
      /\ keys_in(pressed_keys, top) \in Seq(Positions)
      /\ keys_below(pressed_keys, rest) \in Seq(Positions)
  BY <1>1, <1>2, PressesType, CallKeys, StackKeys
<1>6. arrival = between(pressed_keys, 1, pressed_keys_count)
                  \o (keys_in(pressed_keys, top) \o keys_below(pressed_keys, rest))
  BY <1>4 DEF PressInv, presses
<1> QED
  BY <1>1, <1>3, <1>5, <1>6 DEF PressInv

\* The key that runs goes down the chain: DownIgnored and BubbleDown.
LEMMA KeyGoesDown ==
  ASSUME Inv, PressInv, Runs("down") \/ Runs("bubble"), pass_down(top.event), stack' = rest,
         UNCHANGED <<pressed_keys, pressed_keys_count, active_combos, down, edits>>
  PROVE  PressInv'
<1> DEFINE e == top.event
           u == between(pressed_keys, 1, pressed_keys_count)
           v == keys_below(pressed_keys, rest)
           w == edits = 0 /\ ~ wiping(rest)
           r == releasing(rest)
<1>1. stack # <<>> /\ top.op \in {"down", "bubble"}
  BY DEF Runs
<1>2. /\ top \in Frame /\ rest \in Seq(Frame) /\ Calls(rest)
      /\ rest = <<>> \/ Head(rest).op = "release"
      /\ releasing(stack) = r /\ (wiping(stack) <=> wiping(rest))
      /\ u \in Seq(Positions) /\ v \in Seq(Positions) /\ keys_in(pressed_keys, top) \in Seq(Positions)
      /\ arrival = u \o (keys_in(pressed_keys, top) \o v)
      /\ Distinct(arrival)
      /\ Places(Range(arrival), active_combos, host, down, releasing(stack),
                edits = 0 /\ ~ wiping(stack))
  BY <1>1, InProgress
<1>3. keys_in(pressed_keys, top) = <<e.position>> /\ e \in Event
  BY <1>1, <1>2, FrameFields DEF keys_in
<1>4. Places(Range(arrival), active_combos, host, down, r, w)
  BY <1>2
<1>5. presses(pressed_keys', pressed_keys_count', rest) = u \o v
  BY DEF presses
<1> HIDE DEF u, v, w, r
<1>6. arrival = u \o (<<e.position>> \o v)
  BY <1>2, <1>3
<1> HIDE DEF e
<1>7. pass_down(e)
  BY DEF e
<1>8. /\ arrival' = u \o v /\ Distinct(arrival')
      /\ Places(Range(arrival'), active_combos, host', down, r, w)
  BY <1>2, <1>3, <1>4, <1>6, <1>7, PassedDown
<1>9. Places(Range(arrival'), active_combos', host', down', releasing(rest),
             edits' = 0 /\ ~ wiping(rest))
  BY <1>8 DEF r, w
<1>10. rest = <<>> \/ Head(rest).op # "up_cleaned"
  BY <1>2
<1> QED
  BY <1>2, <1>5, <1>8, <1>9, <1>10, AfterStep

LEMMA FirstKeyGoesDown ==
  ASSUME Inv, PressInv, ReleaseFirstKey
  PROVE  PressInv'
<1> DEFINE e == pressed_keys[1]
           c == top.count
           u == between(pressed_keys, 1, pressed_keys_count)
           b == between(pressed_keys, 2, c)
           v == keys_below(pressed_keys, rest)
           w == edits = 0 /\ ~ wiping(rest)
           r == releasing(rest)
           f == ReleaseLoop(2, c)
           s == <<f>> \o rest
<1>1. /\ stack # <<>> /\ top.op = "release" /\ top.next = 1 /\ top.count >= 1 /\ pass_down(e)
      /\ stack' = s
      /\ UNCHANGED <<pressed_keys, pressed_keys_count, active_combos, down, edits>>
  BY DEF ReleaseFirstKey, Runs, matching, pool, table
<1>2. /\ top \in Frame /\ rest \in Seq(Frame) /\ Calls(rest)
      /\ releasing(stack) = r /\ (wiping(stack) <=> wiping(rest))
      /\ u \in Seq(Positions) /\ v \in Seq(Positions) /\ keys_in(pressed_keys, top) \in Seq(Positions)
      /\ arrival = u \o (keys_in(pressed_keys, top) \o v)
      /\ Distinct(arrival)
      /\ Places(Range(arrival), active_combos, host, down, releasing(stack),
                edits = 0 /\ ~ wiping(stack))
  BY <1>1, InProgress
<1>3. /\ pressed_keys \in Buffer /\ pressed_keys_count \in 0 .. MaxKeys
      /\ c \in 0 .. MaxKeys /\ 2 \in 1 .. MaxKeys + 1 /\ 1 \in 0 .. MaxKeys /\ 1 \in 1 .. MaxKeys
      /\ 1 \in 1 .. MaxKeys + 1 /\ 1 - 1 <= 1 /\ 1 <= c /\ 1 + 1 = 2
  BY <1>1, <1>2, FrameFields, StateTypes, ConstantFacts
<1>4. keys_in(pressed_keys, top) = <<e.position>> \o b
  <2>1. keys_in(pressed_keys, top) = between(pressed_keys, 1, c)
    BY <1>1 DEF keys_in
  <2>2. between(pressed_keys, 1, c) = between(pressed_keys, 1, 1) \o between(pressed_keys, 1 + 1, c)
    <3> HIDE DEF c
    <3> QED BY <1>3, BetweenSplits
  <2>3. between(pressed_keys, 1, 1) = <<e.position>>
    BY <1>3, BetweenOne
  <2> QED BY <1>3, <2>1, <2>2, <2>3
<1>5. /\ f \in Frame /\ f.op = "release" /\ f.next = 2 /\ f.count = c
  BY <1>3, ReleaseFrames DEF ReleaseLoop
<1>6. b \in Seq(Positions) /\ e \in Event /\ <<e.position>> \in Seq(Positions)
  <2>1. b \in Seq(Positions)
    BY <1>3, Between
  <2>2. e \in Event /\ e.position \in Positions
    BY <1>3 DEF Buffer, Event
  <2> QED BY <2>1, <2>2
<1> HIDE DEF e, c, u, v, w, r, f
<1>7. keys_below(pressed_keys, s) = b \o v
  <2>1. keys_in(pressed_keys, f) = b
    BY <1>5 DEF keys_in
  <2> QED BY <1>2, <1>3, <1>5, <2>1, PushedKeys DEF v
<1>8. /\ Calls(s) /\ releasing(s) = {} \cup r /\ (wiping(s) <=> wiping(rest))
      /\ Head(s).op = "release"
  <2>1. /\ releasing(s) = {} \cup releasing(rest)
        /\ wiping(s) <=> wiping(rest)
        /\ Calls(s) <=> Calls(rest)
    <3> DEFINE q == rest
    <3>1. q \in Seq(Frame)
      BY <1>2
    <3> HIDE DEF q
    <3>2. /\ releasing(<<f>> \o q) = {} \cup releasing(q)
          /\ wiping(<<f>> \o q) <=> wiping(q)
          /\ Calls(<<f>> \o q) <=> Calls(q)
      BY <1>5, <3>1, OneMoreCall DEF RootOps
    <3> QED BY <3>2 DEF q
  <2>2. Head(s) = f
    BY <1>2, <1>5, PushedCalls
  <2> HIDE DEF s
  <2> QED BY <1>2, <1>5, <2>1, <2>2 DEF r
<1> HIDE DEF b, s
<1>9. b \o v \in Seq(Positions) /\ (<<e.position>> \o b) \o v = <<e.position>> \o (b \o v)
  BY <1>2, <1>6, TwoParts, ConcatAssociative
<1>10. arrival = u \o (<<e.position>> \o (b \o v))
  BY <1>2, <1>4, <1>9
<1>11. Places(Range(arrival), active_combos, host, down, r, w)
  BY <1>2 DEF w
<1>12. /\ arrival' = u \o (b \o v) /\ Distinct(arrival')
       /\ Places(Range(arrival'), active_combos, host', down, r, w)
  <2> DEFINE y == b \o v
  <2>1. y \in Seq(Positions) /\ arrival = u \o (<<e.position>> \o y)
    BY <1>9, <1>10
  <2> HIDE DEF y
  <2>2. /\ arrival' = u \o y /\ Distinct(arrival')
        /\ Places(Range(arrival'), active_combos, host', down, r, w)
    BY <1>1, <1>2, <1>6, <1>11, <2>1, PassedDown
  <2> QED BY <2>2 DEF y
<1>13. presses(pressed_keys', pressed_keys_count', s) = arrival'
  BY <1>1, <1>7, <1>12 DEF presses, u
<1>14. Places(Range(arrival'), active_combos', host', down', releasing(s), edits' = 0 /\ ~ wiping(s))
  BY <1>1, <1>8, <1>12 DEF w
<1>15. Head(s).op # "up_cleaned"
  BY <1>8
<1> QED
  BY <1>1, <1>8, <1>12, <1>13, <1>14, <1>15, AfterStep

LEMMA InitPresses ==
  ASSUME Init
  PROVE  PressInv
<1>1. /\ pressed_keys \in Buffer /\ pressed_keys_count = 0 /\ stack = <<>> /\ arrival = <<>>
      /\ down = {} /\ host = {} /\ 0 \in 0 .. MaxKeys
      /\ \A i \in 1 .. MaxPressed : active_combos[i].slot = NoSlot
  <2>1. Inv
    BY InitInv
  <2> QED BY <2>1, StateTypes DEF Init, FreeEntry
<1>2. between(pressed_keys, 1, 0) = <<>> /\ keys_below(pressed_keys, <<>>) = <<>>
  <2>1. 1 \in 1 .. MaxKeys + 1 /\ 0 < 1 /\ <<>> \in Seq(Frame)
    BY ConstantFacts
  <2> QED BY <1>1, <2>1, BetweenNothing, StackKeys
<1>3. presses(pressed_keys, 0, <<>>) = <<>>
  BY <1>2 DEF presses
<1>4. Distinct(<<>>) /\ Range(<<>>) = {} /\ ~ Runs("up_cleaned")
  <2>1. Distinct(<<>>)
    BY DEF Distinct
  <2>2. Range(<<>>) = {}
    BY DEF Range
  <2> QED BY <1>1, <2>1, <2>2 DEF Runs
<1>5. \A i \in 1 .. MaxPressed : \A p : ~ in_combo(active_combos, i, p)
  BY <1>1 DEF in_combo
<1>6. ASSUME NEW w PROVE Places({}, active_combos, {}, {}, {}, w)
  BY <1>5 DEF Places, Once, Somewhere
<1> QED
  BY <1>1, <1>3, <1>4, <1>6, NoCalls DEF PressInv

\* A key is pressed.
LEMMA PressKeeps ==
  ASSUME Inv, PressInv, NEW p \in Positions, Press(p)
  PROVE  PressInv'
<1> DEFINE d == Down([position |-> p, timestamp |-> now'])
           u == between(pressed_keys, 1, pressed_keys_count)
           t == <<p>>
           w == edits = 0
<1>1. /\ stack = <<>> /\ stack' = <<d>> /\ p \notin down /\ down' = down \cup {p}
      /\ arrival' = Append(arrival, p)
      /\ UNCHANGED <<pressed_keys, pressed_keys_count, active_combos, host, edits>>
  BY DEF Press, Idle, matching, pool, table
<1>2. d \in Frame /\ d.op = "down" /\ d.event.position = p
  <2>1. now' \in Nat
    BY ConstantFacts, ConstantsAssumption DEF Press, Inv, TypeOK
  <2>2. [position |-> p, timestamp |-> now'] \in Event
    BY <2>1 DEF Event
  <2> QED BY <2>2, EventFrames DEF Down
<1> HIDE DEF d
<1>3. /\ pressed_keys \in Buffer /\ pressed_keys_count \in 0 .. MaxKeys
      /\ arrival \in Seq(Positions) /\ <<>> \in Seq(Frame)
  BY StateTypes
<1>4. t \in Seq(Positions) /\ Range(t) = {p} /\ Len(t) = 1 /\ t[1] = p
  <2>1. t \in Seq(Positions) /\ Len(t) = 1 /\ t[1] = p
    OBVIOUS
  <2>2. Range(t) = {t[i] : i \in 1 .. Len(t)}
    BY <2>1, RangeEquality
  <2> HIDE DEF t
  <2> QED BY <2>1, <2>2
<1>5. u = arrival
  <2>1. u \in Seq(Positions)
    BY <1>3, PressesType
  <2>2. presses(pressed_keys, pressed_keys_count, <<>>) = u \o <<>>
    BY <1>3, StackKeys DEF presses
  <2>3. u \o <<>> = u
    <3> HIDE DEF u
    <3> QED BY <2>1, ConcatEmptySeq
  <2> QED BY <1>1, <2>2, <2>3 DEF PressInv
<1>6. arrival' = arrival \o t
  BY <1>1, <1>3, AppendIsConcat
<1>7. keys_in(pressed_keys, d) = t
  BY <1>2 DEF keys_in
<1> HIDE DEF t
<1>8. <<d>> = <<d>> \o <<>>
  BY <1>2, ConcatEmptySeq
<1>9. keys_below(pressed_keys, <<d>>) = t
  <2>1. keys_below(pressed_keys, <<d>> \o <<>>) = t \o <<>>
    BY <1>2, <1>3, <1>7, PushedKeys, StackKeys
  <2>2. t \o <<>> = t
    BY <1>4, ConcatEmptySeq
  <2> QED BY <1>8, <2>1, <2>2
<1>10. presses(pressed_keys', pressed_keys_count', <<d>>) = arrival'
  BY <1>1, <1>5, <1>6, <1>9 DEF presses
<1>11. /\ Distinct(arrival) /\ Places(Range(arrival), active_combos, host, down, {}, w)
  BY <1>1, NoCalls DEF PressInv
<1>12. p \notin Range(arrival)
  BY <1>1, <1>11 DEF Places, Somewhere
<1>13. Distinct(arrival \o t) /\ Range(arrival \o t) = Range(arrival) \cup {p}
  <2>1. \A i \in 1 .. Len(arrival) : arrival[i] # p
    <3>1. Range(arrival) = {arrival[i] : i \in 1 .. Len(arrival)}
      BY <1>3, RangeEquality
    <3> QED BY <1>12, <3>1
  <2>2. Distinct(t)
    BY <1>4 DEF Distinct
  <2>3. \A i \in 1 .. Len(arrival), j \in 1 .. Len(t) : arrival[i] # t[j]
    <3>1. \A j \in 1 .. Len(t) : t[j] = p
      BY <1>4
    <3> QED BY <2>1, <3>1
  <2>4. Distinct(arrival \o t)
    BY <1>3, <1>4, <1>11, <2>2, <2>3, DistinctParts
  <2>5. Range(arrival \o t) = Range(arrival) \cup Range(t)
    BY <1>3, <1>4, RangeConcatenation
  <2> QED BY <1>4, <2>4, <2>5
<1>14. /\ releasing(<<d>>) = {} /\ ~ wiping(<<d>>) /\ Calls(<<d>>) /\ Head(<<d>>) = d
  <2>1. /\ releasing(<<d>> \o <<>>) = {} \cup releasing(<<>>)
        /\ wiping(<<d>> \o <<>>) <=> wiping(<<>>)
        /\ Calls(<<d>> \o <<>>)
    BY <1>2, <1>3, OneMoreCall, NoCalls DEF RootOps
  <2> QED BY <1>8, <2>1, NoCalls
<1>15. Places(Range(arrival) \cup {p}, active_combos, host, down \cup {p}, {}, w)
  <2> HIDE DEF w
  <2> QED BY <1>1, <1>11, KeyPressed
<1>16. Places(Range(arrival'), active_combos', host', down', releasing(<<d>>),
              edits' = 0 /\ ~ wiping(<<d>>))
  BY <1>1, <1>6, <1>13, <1>14, <1>15
<1>17. Distinct(arrival') /\ Head(<<d>>).op # "up_cleaned"
  BY <1>2, <1>6, <1>13, <1>14
<1> QED
  BY <1>1, <1>10, <1>14, <1>16, <1>17, AfterStep

\* A call that holds no press, at the bottom of a handler.
LEMMA BottomCall ==
  ASSUME NEW f \in Frame, f.op \in RootOps
  PROVE  /\ Calls(<<f>>) /\ Head(<<f>>) = f /\ <<f>> \in Seq(Frame)
         /\ releasing(<<f>>) = IF f.op \in {"up", "up_cleaned"} THEN {f.event.position} ELSE {}
         /\ wiping(<<f>>) <=> f.op \in {"clear", "clear_slot"}
         /\ \A keys \in Buffer : \A n : presses(keys, n, <<f>>) = presses(keys, n, <<>>)
<1>1. <<>> \in Seq(Frame) /\ <<f>> = <<f>> \o <<>>
  BY ConcatEmptySeq
<1>2. /\ releasing(<<f>> \o <<>>) =
           (IF f.op \in {"up", "up_cleaned"} THEN {f.event.position} ELSE {}) \cup releasing(<<>>)
      /\ wiping(<<f>> \o <<>>) <=> f.op \in {"clear", "clear_slot"} \/ wiping(<<>>)
      /\ Calls(<<f>> \o <<>>)
  <2>1. f.op \notin {"down", "bubble"}
    BY DEF RootOps
  <2> QED BY <1>1, <2>1, OneMoreCall, NoCalls
<1>3. \A keys \in Buffer : \A n : presses(keys, n, <<f>> \o <<>>) = presses(keys, n, <<>>)
  <2>1. f.op \notin {"down", "bubble", "release"}
    BY DEF RootOps
  <2> QED BY <1>1, <2>1, SilentCall
<1>4. Head(<<f>>) = f /\ <<f>> \in Seq(Frame)
  OBVIOUS
<1> QED
  BY <1>1, <1>2, <1>3, <1>4, NoCalls

LEMMA ReleaseKeeps ==
  ASSUME Inv, PressInv, NEW p \in Positions, Release(p)
  PROVE  PressInv'
<1> DEFINE f == Up([position |-> p, timestamp |-> now])
           w == edits = 0
<1>1. /\ stack = <<>> /\ stack' = <<f>> /\ down' = down \ {p}
      /\ UNCHANGED <<pressed_keys, pressed_keys_count, active_combos, host, edits, arrival>>
  BY DEF Release, Idle, matching, pool, table
<1>2. f \in Frame /\ f.op = "up" /\ f.event.position = p /\ f.op \in RootOps
  <2>1. [position |-> p, timestamp |-> now] \in Event
    BY DEF Event, Inv, TypeOK
  <2> QED BY <2>1, EventFrames DEF Up, RootOps
<1> HIDE DEF f
<1>3. pressed_keys \in Buffer
  BY StateTypes
<1>4. /\ Calls(<<f>>) /\ Head(<<f>>) = f /\ releasing(<<f>>) = {p} /\ ~ wiping(<<f>>)
      /\ presses(pressed_keys, pressed_keys_count, <<f>>) = presses(pressed_keys, pressed_keys_count, <<>>)
  BY <1>2, <1>3, BottomCall
<1>5. /\ presses(pressed_keys, pressed_keys_count, <<>>) = arrival
      /\ Distinct(arrival) /\ Places(Range(arrival), active_combos, host, down, {}, w)
  BY <1>1, NoCalls DEF PressInv
<1>6. Places(Range(arrival), active_combos, host, down \ {p}, {p}, w)
  <2> HIDE DEF w
  <2> QED BY <1>5, KeyReleased
<1>7. Places(Range(arrival'), active_combos', host', down', releasing(<<f>>),
             edits' = 0 /\ ~ wiping(<<f>>))
  BY <1>1, <1>4, <1>6
<1>8. /\ presses(pressed_keys', pressed_keys_count', <<f>>) = arrival'
      /\ Distinct(arrival') /\ Head(<<f>>).op # "up_cleaned"
  BY <1>1, <1>2, <1>4, <1>5
<1> QED
  BY <1>1, <1>4, <1>7, <1>8, AfterStep

LEMMA TwoCalls ==
  ASSUME NEW d \in Frame, NEW f \in Frame, NEW q \in Seq(Frame)
  PROVE  <<d, f>> \o q = <<d>> \o (<<f>> \o q)
<1> DEFINE t == <<d>> \o <<f>>
           u == <<d, f>>
<1>1. <<d>> \in Seq(Frame) /\ <<f>> \in Seq(Frame) /\ u \in Seq(Frame)
  OBVIOUS
<1>2. t \in Seq(Frame) /\ Len(t) = 2 /\ t[1] = d /\ t[2] = f
  BY <1>1, ConcatProperties
<1>3. Len(u) = 2 /\ u[1] = d /\ u[2] = f
  OBVIOUS
<1> HIDE DEF t, u
<1>4. \A j \in 1 .. 2 : t[j] = u[j]
  BY <1>2, <1>3
<1>5. t = u
  BY <1>1, <1>2, <1>3, <1>4, SeqEqual
<1>6. (<<d>> \o <<f>>) \o q = <<d>> \o (<<f>> \o q)
  BY <1>1, ConcatAssociative
<1> QED
  BY <1>5, <1>6 DEF t, u

\* The loop raises a key again.
LEMMA ReraiseKeeps ==
  ASSUME Inv, PressInv, ReraiseKey
  PROVE  PressInv'
<1> DEFINE k == top.next
           c == top.count
           e == pressed_keys[k]
           u == between(pressed_keys, 1, pressed_keys_count)
           b == between(pressed_keys, k + 1, c)
           v == keys_below(pressed_keys, rest)
           d == Down(e)
           f == ReleaseLoop(k + 1, c)
           s == <<f>> \o rest
           z == <<d>> \o s
<1>1. /\ stack # <<>> /\ top.op = "release" /\ k \in 2 .. c /\ stack' = <<d, f>> \o rest
      /\ UNCHANGED <<pressed_keys, pressed_keys_count, active_combos, host, down, edits, arrival>>
  BY DEF ReraiseKey, Runs, matching, pool, table
<1>2. /\ top \in Frame /\ rest \in Seq(Frame) /\ Calls(rest)
      /\ releasing(stack) = releasing(rest) /\ (wiping(stack) <=> wiping(rest))
      /\ u \in Seq(Positions) /\ v \in Seq(Positions)
      /\ arrival = u \o (keys_in(pressed_keys, top) \o v)
      /\ Distinct(arrival)
      /\ Places(Range(arrival), active_combos, host, down, releasing(stack),
                edits = 0 /\ ~ wiping(stack))
  BY <1>1, InProgress
<1>3. /\ pressed_keys \in Buffer /\ pressed_keys_count \in 0 .. MaxKeys
      /\ c \in 0 .. MaxKeys /\ k \in 1 .. MaxKeys /\ k \in 1 .. MaxKeys + 1 /\ k \in 0 .. MaxKeys
      /\ k + 1 \in 1 .. MaxKeys + 1 /\ k - 1 <= k /\ k <= c
  <2>1. pressed_keys \in Buffer /\ pressed_keys_count \in 0 .. MaxKeys
    BY StateTypes
  <2>2. c \in 0 .. MaxKeys
    BY <1>1, <1>2, FrameFields
  <2>3. k \in 2 .. c
    BY <1>1
  <2> HIDE DEF k, c
  <2> QED BY <2>1, <2>2, <2>3, ConstantFacts
<1>4. keys_in(pressed_keys, top) = <<e.position>> \o b
  <2>1. keys_in(pressed_keys, top) = between(pressed_keys, k, c)
    BY <1>1 DEF keys_in
  <2>2. between(pressed_keys, k, c) = between(pressed_keys, k, k) \o b
    <3> HIDE DEF k, c
    <3> QED BY <1>3, BetweenSplits
  <2>3. between(pressed_keys, k, k) = <<e.position>>
    BY <1>3, BetweenOne
  <2> QED BY <2>1, <2>2, <2>3
<1>5. e \in Event /\ e.position \in Positions /\ <<e.position>> \in Seq(Positions) /\ b \in Seq(Positions)
  <2>1. e \in Event /\ e.position \in Positions
    BY <1>3 DEF Buffer, Event
  <2>2. b \in Seq(Positions)
    BY <1>3, Between
  <2> QED BY <2>1, <2>2
<1>6. d \in Frame /\ d.op = "down" /\ d.event = e
  BY <1>5, EventFrames DEF Down
<1>7. f \in Frame /\ f.op = "release" /\ f.next = k + 1 /\ f.count = c
  BY <1>3, ReleaseFrames DEF ReleaseLoop
<1> HIDE DEF k, c, e, u, v, d, f
<1>8. keys_in(pressed_keys, d) = <<e.position>> /\ keys_in(pressed_keys, f) = b
  BY <1>6, <1>7 DEF keys_in
<1> HIDE DEF b
<1>9. /\ s \in Seq(Frame) /\ keys_below(pressed_keys, s) = b \o v /\ Head(s) = f
      /\ releasing(s) = {} \cup releasing(rest)
      /\ wiping(s) <=> wiping(rest)
      /\ Calls(s)
  <2> DEFINE q == rest
  <2>1. q \in Seq(Frame) /\ Calls(q)
    BY <1>2
  <2> HIDE DEF q
  <2>2. /\ releasing(<<f>> \o q) = {} \cup releasing(q)
        /\ wiping(<<f>> \o q) <=> wiping(q)
        /\ Calls(<<f>> \o q)
    BY <1>7, <2>1, OneMoreCall DEF RootOps
  <2>3. /\ <<f>> \o q \in Seq(Frame) /\ Head(<<f>> \o q) = f
        /\ keys_below(pressed_keys, <<f>> \o q) = b \o keys_below(pressed_keys, q)
    BY <1>3, <1>7, <1>8, <2>1, PushedCalls, PushedKeys
  <2> QED BY <2>2, <2>3 DEF q, v
<1>10. <<d, f>> \o rest = z
  BY <1>2, <1>6, <1>7, TwoCalls
<1> HIDE DEF s
<1>11. /\ keys_below(pressed_keys, z) = <<e.position>> \o (b \o v) /\ Head(z) = d
       /\ releasing(z) = {} \cup releasing(s)
       /\ wiping(z) <=> wiping(s)
       /\ Calls(z)
  <2>1. /\ releasing(z) = {} \cup releasing(s)
        /\ wiping(z) <=> wiping(s)
        /\ Calls(z)
    BY <1>6, <1>7, <1>9, OneMoreCall DEF RootOps
  <2>2. Head(z) = d
    BY <1>6, <1>9, PushedCalls
  <2>3. keys_below(pressed_keys, z) = keys_in(pressed_keys, d) \o keys_below(pressed_keys, s)
    BY <1>3, <1>6, <1>9, PushedKeys
  <2> QED BY <1>8, <1>9, <2>1, <2>2, <2>3
<1> HIDE DEF z
<1>12. (<<e.position>> \o b) \o v = <<e.position>> \o (b \o v)
  BY <1>2, <1>5, ConcatAssociative
<1>13. presses(pressed_keys', pressed_keys_count', z) = arrival'
  BY <1>1, <1>2, <1>4, <1>11, <1>12 DEF presses, u
<1>14. stack' = z /\ Head(z).op # "up_cleaned" /\ Distinct(arrival')
  BY <1>1, <1>2, <1>6, <1>10, <1>11
<1>15. Places(Range(arrival'), active_combos', host', down', releasing(z), edits' = 0 /\ ~ wiping(z))
  BY <1>1, <1>2, <1>9, <1>11
<1> QED
  BY <1>11, <1>13, <1>14, <1>15, AfterStep

\* A loop is over: it raised one key at most, or what it raised is captured again.
LEMMA ReleaseDoneKeeps ==
  ASSUME Inv, LoopsNest, PressInv, ReleaseDone
  PROVE  PressInv'
<1> DEFINE v == keys_below(pressed_keys, rest)
           k == top.next
           c == top.count
<1>1. /\ stack # <<>> /\ top.op = "release" /\ k > c /\ stack' = rest /\ released_keys' = c
      /\ UNCHANGED <<pressed_keys, pressed_keys_count, active_combos, host, down, edits, arrival>>
  BY DEF ReleaseDone, Runs, matching, pool, table
<1>2. /\ top \in Frame /\ rest \in Seq(Frame) /\ Calls(rest)
      /\ releasing(stack) = releasing(rest) /\ (wiping(stack) <=> wiping(rest))
      /\ v \in Seq(Positions)
      /\ arrival = between(pressed_keys, 1, pressed_keys_count) \o (keys_in(pressed_keys, top) \o v)
      /\ Distinct(arrival)
      /\ Places(Range(arrival), active_combos, host, down, releasing(stack),
                edits = 0 /\ ~ wiping(stack))
  BY <1>1, InProgress
<1>3. /\ pressed_keys \in Buffer /\ pressed_keys_count \in Nat
      /\ c \in 0 .. MaxKeys /\ k \in 1 .. MaxKeys + 1 /\ c < k
  BY <1>1, <1>2, FrameFields, StateTypes, ConstantFacts
<1>4. keys_in(pressed_keys, top) = <<>>
  BY <1>1, <1>3, BetweenNothing DEF keys_in
<1>5. <<>> \o v = v
  <2> HIDE DEF v
  <2> QED BY <1>2, ConcatEmptySeq
<1>6. presses(pressed_keys', pressed_keys_count', rest) = arrival'
  BY <1>1, <1>2, <1>4, <1>5 DEF presses
<1>7. released_keys' <= 1 => pressed_keys_count' = 0
  <2>1. in_hand = pressed_keys_count
    BY <1>1 DEF in_hand, Runs
  <2>2. k <= c + 1 /\ (pressed_keys_count <= k - 2 \/ pressed_keys_count = 0)
    BY <1>1, <2>1 DEF LoopsNest, is_loop
  <2> QED BY <1>1, <1>3, <2>2, ConstantFacts
<1>8. Places(Range(arrival'), active_combos', host', down', releasing(rest),
             edits' = 0 /\ ~ wiping(rest))
  BY <1>1, <1>2
<1> QED
  BY <1>1, <1>2, <1>6, <1>7, <1>8 DEF PressInv

LEMMA ReleasesAgainKeeps ==
  ASSUME Inv, PressInv, CleanupReleasesAgain
  PROVE  PressInv'
<1> DEFINE v == keys_below(pressed_keys, rest)
<1>1. /\ stack # <<>> /\ top.op = "release_again"
      /\ release_pressed_keys(pressed_keys_count, rest)
      /\ UNCHANGED <<pressed_keys, active_combos, host, down, edits, arrival>>
  BY DEF CleanupReleasesAgain, Runs, matching, pool, table
<1>2. /\ top \in Frame /\ rest \in Seq(Frame) /\ Calls(rest)
      /\ releasing(stack) = releasing(rest) /\ (wiping(stack) <=> wiping(rest))
      /\ v \in Seq(Positions)
      /\ arrival = between(pressed_keys, 1, pressed_keys_count) \o (keys_in(pressed_keys, top) \o v)
      /\ Distinct(arrival)
      /\ Places(Range(arrival), active_combos, host, down, releasing(stack),
                edits = 0 /\ ~ wiping(stack))
  BY <1>1, InProgress
<1>3. keys_in(pressed_keys, top) = <<>>
  BY <1>1 DEF keys_in
<1>4. <<>> \o v = v
  <2> HIDE DEF v
  <2> QED BY <1>2, ConcatEmptySeq
<1>5. presses(pressed_keys, pressed_keys_count, rest) = arrival
  BY <1>2, <1>3, <1>4 DEF presses
<1>6. Places(Range(arrival'), active_combos', host', down', releasing(rest),
             edits' = 0 /\ ~ wiping(rest))
  BY <1>1, <1>2
<1>7. /\ pressed_keys' \in Buffer /\ pressed_keys_count \in 0 .. MaxKeys
      /\ presses(pressed_keys', pressed_keys_count, rest) = arrival' /\ Distinct(arrival')
  BY <1>1, <1>2, <1>5, StateTypes
<1> QED
  BY <1>1, <1>2, <1>6, <1>7, LoopKeeps

\* A key is captured: behind the others, and in front of what the loops have left.
LEMMA KeyIsCaptured ==
  ASSUME Inv, LoopsNest, PressInv, Runs("down"), pressed_keys_count < MaxKeys,
         NEW keys, keys = [pressed_keys EXCEPT ![pressed_keys_count + 1] = top.event]
  PROVE  /\ keys \in Buffer /\ pressed_keys_count + 1 \in 0 .. MaxKeys
         /\ presses(keys, pressed_keys_count + 1, rest) = arrival
         /\ Under(rest, pressed_keys_count + 1)
<1> DEFINE e == top.event
           n == pressed_keys_count
           u == between(pressed_keys, 1, n)
           v == keys_below(pressed_keys, rest)
           t == <<e.position>>
<1>1. stack # <<>> /\ top.op = "down"
  BY DEF Runs
<1>2. /\ top \in Frame /\ rest \in Seq(Frame)
      /\ u \in Seq(Positions) /\ v \in Seq(Positions)
      /\ arrival = u \o (keys_in(pressed_keys, top) \o v)
  BY <1>1, InProgress
<1>3. Under(rest, n + 1)
  BY <1>1, BelowTop
<1>4. keys_in(pressed_keys, top) = t /\ e \in Event
  BY <1>1, <1>2, FrameFields DEF keys_in
<1>5. t \in Seq(Positions)
  <2>1. e.position \in Positions
    BY <1>4 DEF Event
  <2> QED BY <2>1
<1>6. pressed_keys \in Buffer /\ n \in 0 .. MaxKeys /\ n \in Nat
  BY StateTypes
<1>7. keys = [pressed_keys EXCEPT ![n + 1] = e]
  OBVIOUS
<1>8. /\ n + 1 \in 0 .. MaxKeys /\ n + 1 \in 1 .. MaxKeys /\ n + 1 \in 1 .. MaxKeys + 1
      /\ 1 \in 1 .. MaxKeys + 1 /\ 1 - 1 <= n /\ n <= n + 1
  BY <1>6, ConstantFacts
<1> HIDE DEF e, n, t
<1>9. /\ keys \in Buffer /\ keys[n + 1] = e
      /\ \A k \in 1 .. MaxKeys : k # n + 1 => keys[k] = pressed_keys[k]
  BY <1>4, <1>6, <1>7, <1>8 DEF Buffer
<1>10. between(keys, 1, n + 1) = u \o t
  <2>1. between(keys, 1, n + 1) = between(keys, 1, n) \o between(keys, n + 1, n + 1)
    BY <1>6, <1>8, <1>9, BetweenSplits
  <2>2. between(keys, n + 1, n + 1) = t
    BY <1>8, <1>9, BetweenOne DEF t
  <2>3. between(keys, 1, n) = u
    <3>1. \A k \in 1 .. n : k \in 1 .. MaxKeys /\ k # n + 1
      BY <1>6, ConstantFacts
    <3>2. \A k \in 1 .. n : keys[k] = pressed_keys[k]
      BY <1>9, <3>1
    <3> QED BY <1>6, <1>8, <1>9, <3>2, BetweenSame, ZenonT(60)
  <2> QED BY <2>1, <2>2, <2>3
<1>11. keys_below(keys, rest) = v
  <2>1. ASSUME NEW j \in 1 .. Len(rest), is_loop(rest[j]), NEW k \in rest[j].next .. rest[j].count
        PROVE  pressed_keys[k] = keys[k]
    <3>1. n + 1 <= rest[j].next - 2
      BY <1>3, <2>1 DEF Under
    <3>2. rest[j].next \in 1 .. MaxKeys + 1 /\ rest[j].count \in 0 .. MaxKeys
      <4>1. rest[j] \in Frame
        BY <1>2, LenProperties
      <4> QED BY <2>1, <4>1, FrameFields DEF is_loop
    <3>3. k \in 1 .. MaxKeys /\ k # n + 1
      BY <1>6, <3>1, <3>2, ConstantFacts
    <3> QED BY <1>9, <3>3
  <2> QED BY <1>2, <1>6, <1>9, <2>1, BelowSame
<1> HIDE DEF u, v
<1>12. (u \o t) \o v = u \o (t \o v)
  BY <1>2, <1>5, ConcatAssociative
<1>13. presses(keys, n + 1, rest) = arrival
  BY <1>2, <1>4, <1>10, <1>11, <1>12 DEF presses
<1> QED
  BY <1>3, <1>8, <1>9, <1>13 DEF n

\* With the buffer full the key is to go on.
LEMMA KeyFindsNoRoom ==
  ASSUME Inv, LoopsNest, PressInv, Runs("down"), NEW s, s = <<Bubble(top.event)>> \o rest
  PROVE  /\ presses(pressed_keys, pressed_keys_count, s) = arrival
         /\ s \in Seq(Frame) /\ Under(s, pressed_keys_count) /\ Calls(s)
         /\ releasing(s) = releasing(rest) /\ (wiping(s) <=> wiping(rest))
         /\ Head(s).op # "up_cleaned"
<1> DEFINE f == Bubble(top.event)
           v == keys_below(pressed_keys, rest)
<1>1. stack # <<>> /\ top.op = "down"
  BY DEF Runs
<1>2. /\ top \in Frame /\ rest \in Seq(Frame) /\ Calls(rest)
      /\ rest = <<>> \/ Head(rest).op = "release"
      /\ arrival = between(pressed_keys, 1, pressed_keys_count) \o (keys_in(pressed_keys, top) \o v)
  BY <1>1, InProgress
<1>3. /\ pressed_keys \in Buffer /\ pressed_keys_count \in Nat /\ Under(rest, pressed_keys_count)
  BY <1>1, BelowTop, StateTypes
<1>4. f \in Frame /\ f.op = "bubble" /\ f.event = top.event
  BY <1>1, <1>2, FrameFields, EventFrames DEF Bubble
<1>5. keys_in(pressed_keys, top) = keys_in(pressed_keys, f)
  BY <1>1, <1>4 DEF keys_in
<1>6. s = <<f>> \o rest
  OBVIOUS
<1> HIDE DEF f
<1> DEFINE q == rest
<1>7. q \in Seq(Frame) /\ Calls(q) /\ (q = <<>> \/ Head(q).op = "release")
      /\ s = <<f>> \o q /\ Under(q, pressed_keys_count)
  BY <1>2, <1>3, <1>6
<1> HIDE DEF q
<1>8. /\ releasing(<<f>> \o q) = {} \cup releasing(q)
      /\ wiping(<<f>> \o q) <=> wiping(q)
      /\ Calls(<<f>> \o q)
  BY <1>4, <1>7, OneMoreCall DEF RootOps
<1>9. <<f>> \o q \in Seq(Frame) /\ Head(<<f>> \o q) = f
  BY <1>4, <1>7, PushedCalls
<1>10. keys_below(pressed_keys, <<f>> \o q) = keys_in(pressed_keys, f) \o keys_below(pressed_keys, q)
  BY <1>3, <1>4, <1>7, PushedKeys
<1>11. Under(<<f>> \o q, pressed_keys_count)
  BY <1>3, <1>4, <1>7, UnderOneMore DEF is_loop
<1> QED
  BY <1>2, <1>4, <1>5, <1>7, <1>8, <1>9, <1>10, <1>11 DEF presses, q

LEMMA DownCapturedKeeps ==
  ASSUME Inv, LoopsNest, PressInv, DownCaptured
  PROVE  PressInv'
<1> DEFINE e     == top.event
           room  == pressed_keys_count < MaxKeys
           keys  == IF room THEN [pressed_keys EXCEPT ![pressed_keys_count + 1] = e]
                    ELSE pressed_keys
           count == IF room THEN pressed_keys_count + 1 ELSE pressed_keys_count
           caller == IF room THEN rest ELSE <<Bubble(e)>> \o rest
<1>1. Runs("down") /\ stack # <<>> /\ top.op = "down" /\ UNCHANGED <<host, down, edits>>
  BY DEF DownCaptured, Runs, table
<1>2. /\ rest \in Seq(Frame) /\ Calls(rest)
      /\ rest = <<>> \/ Head(rest).op = "release"
      /\ releasing(stack) = releasing(rest) /\ (wiping(stack) <=> wiping(rest))
      /\ Distinct(arrival)
      /\ Places(Range(arrival), active_combos, host, down, releasing(stack),
                edits = 0 /\ ~ wiping(stack))
  BY <1>1, InProgress
<1>3. /\ keys \in Buffer /\ count \in 0 .. MaxKeys /\ presses(keys, count, caller) = arrival
      /\ caller \in Seq(Frame) /\ Under(caller, count) /\ Calls(caller)
      /\ releasing(caller) = releasing(rest) /\ (wiping(caller) <=> wiping(rest))
      /\ caller = <<>> \/ Head(caller).op # "up_cleaned"
  <2>1. CASE room
    <3>1. /\ keys = [pressed_keys EXCEPT ![pressed_keys_count + 1] = top.event]
          /\ count = pressed_keys_count + 1 /\ caller = rest
      BY <2>1
    <3>2. /\ keys \in Buffer /\ count \in 0 .. MaxKeys
          /\ presses(keys, count, rest) = arrival /\ Under(rest, count)
      <4> HIDE DEF keys, count
      <4> QED BY <1>1, <2>1, <3>1, KeyIsCaptured
    <3> HIDE DEF keys, count, caller
    <3> QED BY <1>2, <3>1, <3>2
  <2>2. CASE ~ room
    <3>1. /\ keys = pressed_keys /\ count = pressed_keys_count
          /\ caller = <<Bubble(top.event)>> \o rest
      BY <2>2
    <3> HIDE DEF keys, count, caller
    <3>2. /\ presses(pressed_keys, pressed_keys_count, caller) = arrival
          /\ caller \in Seq(Frame) /\ Under(caller, pressed_keys_count) /\ Calls(caller)
          /\ releasing(caller) = releasing(rest) /\ (wiping(caller) <=> wiping(rest))
          /\ Head(caller).op # "up_cleaned"
      BY <1>1, <3>1, KeyFindsNoRoom
    <3> QED BY <3>1, <3>2, StateTypes
  <2> QED BY <2>1, <2>2
<1>4. \/ \E full \in Slots \cup {NoSlot} : cleanup(keys, count, full, caller)
      \/ /\ pressed_keys' = keys /\ pressed_keys_count' = count /\ stack' = caller
         /\ UNCHANGED <<active_combos, arrival>>
  <2> DEFINE fresh == setup_candidates_for_first_keypress(e.position, e.timestamp)
             cands == IF pressed_keys_count = 0 THEN candidates \cup fresh
                      ELSE filter_candidates(
                             filter_timed_out_candidates(candidates, e.timestamp), e.position)
             full  == {s \in cands : key_count(s) = count}
  <2>1. \/ cleanup(keys, count, fully_pressed_combo, caller)
        \/ full # {} /\ cleanup(keys, count, Min(full), caller)
        \/ /\ pressed_keys' = keys /\ pressed_keys_count' = count /\ stack' = caller
           /\ UNCHANGED <<active_combos, arrival>>
    BY DEF DownCaptured, pool
  <2>2. fully_pressed_combo \in Slots \cup {NoSlot}
    BY DEF Inv, TypeOK
  <2>3. full # {} => Min(full) \in Slots
    <3>1. full \in SUBSET Slots /\ full \in SUBSET Nat
      BY ConstantFacts DEF Inv, TypeOK, setup_candidates_for_first_keypress, filter_candidates,
                           filter_timed_out_candidates
    <3> HIDE DEF full
    <3>2. full # {} => Min(full) \in full
      BY <3>1, MinOfNaturals
    <3> QED
      BY <3>1, <3>2
  <2> HIDE DEF keys, full, cands, fresh, count, caller, room, e
  <2> QED
    BY <2>1, <2>2, <2>3
<1> HIDE DEF keys, count, caller, room, e
<1>5. Places(Range(arrival), active_combos, host, down, releasing(caller), edits = 0 /\ ~ wiping(caller))
  BY <1>2, <1>3
<1>6. CASE \E full \in Slots \cup {NoSlot} : cleanup(keys, count, full, caller)
  <2>1. PICK full \in Slots \cup {NoSlot} : cleanup(keys, count, full, caller)
    BY <1>6
  <2> QED BY <1>1, <1>2, <1>3, <1>5, <2>1, CleanupKeepsPresses
<1>7. CASE /\ pressed_keys' = keys /\ pressed_keys_count' = count /\ stack' = caller
           /\ UNCHANGED <<active_combos, arrival>>
  <2>1. Places(Range(arrival'), active_combos', host', down', releasing(caller),
               edits' = 0 /\ ~ wiping(caller))
    BY <1>1, <1>5, <1>7
  <2>2. presses(pressed_keys', pressed_keys_count', caller) = arrival' /\ Distinct(arrival')
    BY <1>2, <1>3, <1>7
  <2> QED BY <1>3, <1>7, <2>1, <2>2, AfterStep
<1> QED
  BY <1>4, <1>6, <1>7

\* At the bottom of a handler there is nothing in progress but captured keys.
LEMMA AtBottom ==
  ASSUME Inv, PressInv, stack # <<>>, top.op \in RootOps
  PROVE  /\ top \in Frame /\ rest = <<>> /\ arrival \in Seq(Positions)
         /\ presses(pressed_keys, pressed_keys_count, <<>>) = arrival
         /\ releasing(stack) = IF top.op \in {"up", "up_cleaned"} THEN {top.event.position} ELSE {}
         /\ wiping(stack) <=> top.op \in {"clear", "clear_slot"}
         /\ pressed_keys_count = 0 => arrival = <<>>
<1>1. /\ top \in Frame /\ rest = <<>>
      /\ releasing(stack) =
           (IF top.op \in {"up", "up_cleaned"} THEN {top.event.position} ELSE {}) \cup releasing(rest)
      /\ wiping(stack) <=> top.op \in {"clear", "clear_slot"} \/ wiping(rest)
      /\ arrival = between(pressed_keys, 1, pressed_keys_count)
                     \o (keys_in(pressed_keys, top) \o keys_below(pressed_keys, rest))
      /\ between(pressed_keys, 1, pressed_keys_count) \in Seq(Positions)
  BY InProgress
<1>2. keys_in(pressed_keys, top) = <<>>
  BY DEF keys_in, RootOps
<1>3. /\ pressed_keys \in Buffer /\ arrival \in Seq(Positions)
      /\ keys_below(pressed_keys, <<>>) = <<>> /\ <<>> \o <<>> = <<>>
  <2>1. <<>> \in Seq(Frame) /\ <<>> \in Seq(Positions)
    OBVIOUS
  <2>2. <<>> \o <<>> = <<>>
    BY <2>1, ConcatEmptySeq
  <2> QED BY <2>1, <2>2, StateTypes, StackKeys
<1>4. presses(pressed_keys, pressed_keys_count, <<>>) = arrival
  BY <1>1, <1>2, <1>3 DEF presses
<1>5. ASSUME pressed_keys_count = 0 PROVE arrival = <<>>
  <2>1. 1 \in 1 .. MaxKeys + 1 /\ 0 \in 0 .. MaxKeys /\ 0 < 1
    BY ConstantFacts
  <2>2. between(pressed_keys, 1, 0) = <<>>
    BY <1>3, <2>1, BetweenNothing
  <2> QED BY <1>3, <1>4, <1>5, <2>2 DEF presses
<1> QED
  BY <1>1, <1>3, <1>4, <1>5, NoCalls

\* The running call at the bottom goes over to another, and no key changes place.
LEMMA BottomGoesOn ==
  ASSUME Inv, PressInv, stack # <<>>, top.op \in RootOps, NEW f \in Frame, f.op \in RootOps,
         f.op \in {"up", "up_cleaned"} <=> top.op \in {"up", "up_cleaned"},
         f.op \in {"up", "up_cleaned"} => f.event = top.event,
         top.op \in {"clear", "clear_slot"} => f.op \in {"clear", "clear_slot"}
  PROVE  /\ presses(pressed_keys, pressed_keys_count, <<f>>) = arrival
         /\ Calls(<<f>>) /\ Head(<<f>>) = f /\ <<f>> \in Seq(Frame)
         /\ <<f>> \o rest = <<f>>
         /\ Places(Range(arrival), active_combos, host, down, releasing(<<f>>),
                   edits = 0 /\ ~ wiping(<<f>>))
<1>1. /\ rest = <<>> /\ presses(pressed_keys, pressed_keys_count, <<>>) = arrival
      /\ releasing(stack) = IF top.op \in {"up", "up_cleaned"} THEN {top.event.position} ELSE {}
      /\ wiping(stack) <=> top.op \in {"clear", "clear_slot"}
  BY AtBottom
<1>2. /\ Calls(<<f>>) /\ Head(<<f>>) = f /\ <<f>> \in Seq(Frame)
      /\ releasing(<<f>>) = IF f.op \in {"up", "up_cleaned"} THEN {f.event.position} ELSE {}
      /\ wiping(<<f>>) <=> f.op \in {"clear", "clear_slot"}
      /\ presses(pressed_keys, pressed_keys_count, <<f>>) = presses(pressed_keys, pressed_keys_count, <<>>)
  BY BottomCall, StateTypes
<1>3. releasing(<<f>>) = releasing(stack) /\ (wiping(stack) => wiping(<<f>>))
  BY <1>1, <1>2
<1>4. Places(Range(arrival), active_combos, host, down, releasing(<<f>>),
             edits = 0 /\ ~ wiping(<<f>>))
  <2> DEFINE w == edits = 0 /\ ~ wiping(stack)
             z == edits = 0 /\ ~ wiping(<<f>>)
  <2>1. z => w
    BY <1>3
  <2>2. Places(Range(arrival), active_combos, host, down, releasing(<<f>>), w)
    BY <1>3 DEF PressInv
  <2> HIDE DEF w, z
  <2>3. Places(Range(arrival), active_combos, host, down, releasing(<<f>>), z)
    BY <2>1, <2>2, LessToShow
  <2> QED BY <2>3 DEF z
<1>5. <<f>> \o rest = <<f>>
  BY <1>1, <1>2, ConcatEmptySeq
<1> QED
  BY <1>1, <1>2, <1>4, <1>5

LEMMA UpCleanupKeeps ==
  ASSUME Inv, LoopsNest, PressInv, UpCleanup
  PROVE  PressInv'
<1> DEFINE f == UpCleaned(top.event)
           q == <<f>>
<1>1. /\ stack # <<>> /\ top.op = "up" /\ top.op \in RootOps
      /\ cleanup(pressed_keys, pressed_keys_count, fully_pressed_combo, <<f>> \o rest)
      /\ UNCHANGED <<host, down, edits>>
  BY DEF UpCleanup, Runs, RootOps, table
<1>2. f \in Frame /\ f.op = "up_cleaned" /\ f.event = top.event /\ f.op \in RootOps
  BY <1>1, AtBottom, FrameFields, EventFrames DEF UpCleaned, RootOps
<1> HIDE DEF f
<1>3. /\ presses(pressed_keys, pressed_keys_count, q) = arrival
      /\ Calls(q) /\ q \in Seq(Frame) /\ <<f>> \o rest = q
      /\ Places(Range(arrival), active_combos, host, down, releasing(q), edits = 0 /\ ~ wiping(q))
  BY <1>1, <1>2, BottomGoesOn
<1>4. Under(q, pressed_keys_count)
  BY <1>2, UnderNothing
<1>5. /\ pressed_keys \in Buffer /\ pressed_keys_count \in 0 .. MaxKeys
      /\ fully_pressed_combo \in Slots \cup {NoSlot} /\ Distinct(arrival)
  BY StateTypes DEF Inv, TypeOK, PressInv
<1>6. cleanup(pressed_keys, pressed_keys_count, fully_pressed_combo, q)
  BY <1>1, <1>3
<1> HIDE DEF q
<1> QED
  BY <1>1, <1>3, <1>4, <1>5, <1>6, CleanupKeepsPresses

LEMMA UpReraisedKeeps ==
  ASSUME Inv, PressInv, UpReraised
  PROVE  PressInv'
<1> DEFINE f == Up(top.event)
<1>1. /\ stack # <<>> /\ top.op = "up_cleaned" /\ top.op \in RootOps
      /\ stack' = <<f>> \o rest
      /\ UNCHANGED <<pressed_keys, pressed_keys_count, active_combos, host, down, edits, arrival>>
  BY DEF UpReraised, Runs, RootOps, matching, pool, table
<1>2. f \in Frame /\ f.op = "up" /\ f.event = top.event /\ f.op \in RootOps
  BY <1>1, AtBottom, FrameFields, EventFrames DEF Up, RootOps
<1> HIDE DEF f
<1>3. /\ presses(pressed_keys, pressed_keys_count, <<f>>) = arrival
      /\ Calls(<<f>>) /\ Head(<<f>>) = f /\ <<f>> \o rest = <<f>>
      /\ Places(Range(arrival), active_combos, host, down, releasing(<<f>>),
                edits = 0 /\ ~ wiping(<<f>>))
  BY <1>1, <1>2, BottomGoesOn
<1>4. /\ presses(pressed_keys', pressed_keys_count', <<f>>) = arrival' /\ Distinct(arrival')
      /\ Places(Range(arrival'), active_combos', host', down', releasing(<<f>>),
                edits' = 0 /\ ~ wiping(<<f>>))
      /\ Head(<<f>>).op # "up_cleaned"
  BY <1>1, <1>2, <1>3 DEF PressInv
<1> QED
  BY <1>1, <1>3, <1>4, AfterStep

\* A handler returns.
LEMMA HandlerReturns ==
  ASSUME Inv, PressInv, stack # <<>>, top.op \in RootOps, stack' = rest,
         UNCHANGED <<pressed_keys, pressed_keys_count, arrival>>,
         Places(Range(arrival), active_combos', host', down', {}, edits' = 0)
  PROVE  PressInv'
<1>1. stack' = <<>> /\ presses(pressed_keys', pressed_keys_count', <<>>) = arrival'
  BY AtBottom
<1>2. Distinct(arrival')
  BY DEF PressInv
<1>3. Places(Range(arrival'), active_combos', host', down', releasing(<<>>), edits' = 0 /\ ~ wiping(<<>>))
  BY NoCalls
<1> QED
  BY <1>1, <1>2, <1>3, NoCalls, AfterStep

\* When a release goes on, no press is before it.
LEMMA NothingBefore ==
  ASSUME Inv, PressInv, UpBubbles
  PROVE  arrival = <<>> /\ Range(arrival) = {}
<1>1. stack # <<>> /\ top.op \in RootOps /\ Runs("up_cleaned") /\ released_keys <= 1
  BY DEF UpBubbles, Runs, RootOps
<1>2. arrival = <<>>
  BY <1>1, AtBottom DEF PressInv
<1>3. Range(arrival) = {}
  BY <1>2 DEF Range
<1> QED
  BY <1>2, <1>3

LEMMA UpBubblesKeeps ==
  ASSUME Inv, PressInv, UpBubbles
  PROVE  PressInv'
<1> DEFINE x == top.event.position
           w == edits = 0
<1>1. /\ stack # <<>> /\ top.op = "up_cleaned" /\ top.op \in RootOps /\ stack' = rest
      /\ combos_with(x) = {} /\ host' = host \ {x}
      /\ UNCHANGED <<pressed_keys, pressed_keys_count, active_combos, down, edits, arrival>>
  BY DEF UpBubbles, Runs, RootOps, pass_up, matching, pool, table
<1>2. releasing(stack) = {x} /\ ~ wiping(stack)
  BY <1>1, AtBottom
<1>3. Places(Range(arrival), active_combos, host, down, {x}, w)
  BY <1>2 DEF PressInv
<1>4. x \notin Range(arrival)
  BY NothingBefore
<1>5. \A i \in 1 .. MaxPressed : ~ in_combo(active_combos, i, x)
  BY <1>1 DEF in_combo, combos_with, Inv, PoolDense, held_combos
<1>6. Places(Range(arrival), active_combos, host \ {x}, down, {}, w)
  <2> HIDE DEF x, w
  <2> QED BY <1>3, <1>4, <1>5, KeyUp
<1>7. Places(Range(arrival), active_combos', host', down', {}, edits' = 0)
  BY <1>1, <1>6
<1> QED
  BY <1>1, <1>7, HandlerReturns

LEMMA UpHandledKeeps ==
  ASSUME Inv, PressInv, UpHandled
  PROVE  PressInv'
<1> DEFINE x == top.event.position
           w == edits = 0
           i == Min(combos_with(x))
           remaining == active_combos[i].keys \ {x}
           combos == [active_combos EXCEPT ![i].keys = remaining]
           n == active_combo_count
<1>1. /\ stack # <<>> /\ top.op = "up_cleaned" /\ top.op \in RootOps /\ stack' = rest
      /\ combos_with(x) # {}
      /\ active_combos' = IF remaining = {} THEN deactivate_combo(combos, i) ELSE combos
      /\ UNCHANGED <<pressed_keys, pressed_keys_count, host, down, edits, arrival>>
  BY DEF UpHandled, Runs, RootOps, matching, table
<1>2. releasing(stack) = {x} /\ ~ wiping(stack) /\ x \in Positions
  <2>1. top.event \in Event
    BY <1>1, AtBottom, FrameFields
  <2> QED BY <1>1, <2>1, AtBottom DEF Event
<1>3. Places(Range(arrival), active_combos, host, down, {x}, w)
  BY <1>2 DEF PressInv
<1>4. i \in 1 .. n /\ x \in active_combos[i].keys
  <2> DEFINE S == combos_with(x)
  <2>1. S \in SUBSET Nat /\ S # {} /\ i = Min(S)
    BY <1>1 DEF combos_with
  <2>2. i \in S
    <3> HIDE DEF S, i
    <3> QED BY <2>1, MinOfNaturals
  <2> HIDE DEF i
  <2> QED BY <2>2 DEF combos_with
<1>5. /\ active_combos \in Pool /\ n \in 0 .. MaxPressed
      /\ \A j \in 1 .. MaxPressed : active_combos[j].slot # NoSlot <=> j \in 1 .. n
  BY DEF Inv, TypeOK, Pool, PoolDense, held_combos
<1> HIDE DEF x, w, i, remaining, n
<1>6. n \in 1 .. MaxPressed /\ i \in 1 .. MaxPressed /\ in_combo(active_combos, i, x)
  BY <1>4, <1>5, ConstantFacts DEF in_combo
<1>7. Places(Range(arrival), combos, host, down, {}, w)
  BY <1>2, <1>3, <1>5, <1>6, ComboKeyUp DEF remaining
<1>8. combos \in Pool /\ combos[i].keys = remaining
  <2>1. remaining \in SUBSET Positions
    BY <1>5, <1>6 DEF remaining, Pool, Entry
  <2> QED BY <1>5, <1>6, <2>1 DEF Pool, Entry
<1> HIDE DEF combos
<1>9. Places(Range(arrival), active_combos', host, down, {}, w)
  <2>1. CASE remaining = {}
    <3>1. active_combos' = [combos EXCEPT ![i] = combos[n], ![n] = FreeEntry]
      BY <1>1, <2>1 DEF deactivate_combo, n
    <3>2. Places(Range(arrival), [combos EXCEPT ![i] = combos[n], ![n] = FreeEntry], host, down, {}, w)
      BY <1>4, <1>6, <1>7, <1>8, <2>1, ComboGoes
    <3> QED BY <3>1, <3>2
  <2>2. CASE remaining # {}
    BY <1>1, <1>7, <2>2
  <2> QED BY <2>1, <2>2
<1>10. Places(Range(arrival), active_combos', host', down', {}, edits' = 0)
  BY <1>1, <1>9 DEF w
<1> QED
  BY <1>1, <1>10, HandlerReturns

\* An idle workqueue starts a handler, and no key changes place.
LEMMA IdleGoesOn ==
  ASSUME Inv, PressInv, stack = <<>>, NEW f \in Frame, f.op \in RootOps,
         f.op \notin {"up", "up_cleaned"}
  PROVE  /\ presses(pressed_keys, pressed_keys_count, <<f>>) = arrival
         /\ Calls(<<f>>) /\ Head(<<f>>) = f /\ <<f>> \in Seq(Frame)
         /\ Places(Range(arrival), active_combos, host, down, releasing(<<f>>),
                   edits = 0 /\ ~ wiping(<<f>>))
<1>1. /\ Calls(<<f>>) /\ Head(<<f>>) = f /\ <<f>> \in Seq(Frame)
      /\ releasing(<<f>>) = {}
      /\ presses(pressed_keys, pressed_keys_count, <<f>>) = presses(pressed_keys, pressed_keys_count, <<>>)
  BY BottomCall, StateTypes
<1>2. Places(Range(arrival), active_combos, host, down, {}, edits = 0)
  BY NoCalls DEF PressInv
<1>3. Places(Range(arrival), active_combos, host, down, {}, edits = 0 /\ ~ wiping(<<f>>))
  <2> DEFINE w == edits = 0
             z == edits = 0 /\ ~ wiping(<<f>>)
  <2>1. (z => w) /\ Places(Range(arrival), active_combos, host, down, {}, w)
    BY <1>2
  <2> HIDE DEF w, z
  <2>2. Places(Range(arrival), active_combos, host, down, {}, z)
    BY <2>1, LessToShow
  <2> QED BY <2>2 DEF z
<1> QED
  BY <1>1, <1>3 DEF PressInv

\* The match in flight is aborted.
LEMMA QuiesceKeeps ==
  ASSUME Inv, PressInv, NEW f \in Frame, f.op \in RootOps \ {"up_cleaned"}, quiesce_match(<<f>>),
         UNCHANGED <<host, down, edits>>,
         presses(pressed_keys, pressed_keys_count, <<f>>) = arrival,
         Places(Range(arrival), active_combos, host, down, releasing(<<f>>),
                edits = 0 /\ ~ wiping(<<f>>))
  PROVE  PressInv'
<1> DEFINE q == <<f>>
<1>1. /\ f.op \notin {"down", "release"} /\ Head(q) = f /\ q \in Seq(Frame) /\ Calls(q)
  BY BottomCall DEF RootOps
<1>2. Under(q, pressed_keys_count)
  BY <1>1, UnderNothing
<1>3. /\ pressed_keys \in Buffer /\ pressed_keys_count \in 0 .. MaxKeys
      /\ NoSlot \in Slots \cup {NoSlot} /\ Distinct(arrival)
  BY StateTypes DEF PressInv
<1>4. \/ cleanup(pressed_keys, pressed_keys_count, NoSlot, q)
      \/ stack' = q /\ UNCHANGED <<pressed_keys, pressed_keys_count, active_combos, arrival>>
  BY DEF quiesce_match, matching, pool
<1>5. /\ presses(pressed_keys, pressed_keys_count, q) = arrival
      /\ Places(Range(arrival), active_combos, host, down, releasing(q), edits = 0 /\ ~ wiping(q))
  OBVIOUS
<1>6. Head(q).op # "up_cleaned"
  BY <1>1
<1> HIDE DEF q
<1>7. CASE cleanup(pressed_keys, pressed_keys_count, NoSlot, q)
  BY <1>1, <1>2, <1>3, <1>5, <1>7, CleanupKeepsPresses
<1>8. CASE stack' = q /\ UNCHANGED <<pressed_keys, pressed_keys_count, active_combos, arrival>>
  <2>1. /\ presses(pressed_keys', pressed_keys_count', q) = arrival' /\ Distinct(arrival')
        /\ Places(Range(arrival'), active_combos', host', down', releasing(q),
                  edits' = 0 /\ ~ wiping(q))
    BY <1>3, <1>5, <1>8
  <2> QED BY <1>1, <1>6, <1>8, <2>1, AfterStep
<1> QED
  BY <1>4, <1>7, <1>8

LEMMA StartsKeep ==
  ASSUME Inv, PressInv,
         \/ \E s \in Slots, rec \in NewRecords : StartSet(s, rec)
         \/ \E s \in Slots : StartDelete(s)
         \/ StartClearAll
         \/ ClearAllQuiesces
  PROVE  PressInv'
<1>1. ASSUME NEW f \in Frame, f.op \in {"set", "delete"}, Idle, quiesce_match(<<f>>),
             UNCHANGED <<host, down, edits>>
      PROVE  PressInv'
  <2>1. f.op \in RootOps /\ f.op \in RootOps \ {"up_cleaned"} /\ f.op \notin {"up", "up_cleaned"}
        /\ stack = <<>>
    BY <1>1 DEF RootOps, Idle
  <2>2. /\ presses(pressed_keys, pressed_keys_count, <<f>>) = arrival
        /\ Places(Range(arrival), active_combos, host, down, releasing(<<f>>),
                  edits = 0 /\ ~ wiping(<<f>>))
    BY <2>1, IdleGoesOn
  <2> QED BY <1>1, <2>1, <2>2, QuiesceKeeps
<1>2. ASSUME NEW s \in Slots, NEW rec \in NewRecords, StartSet(s, rec) PROVE PressInv'
  <2>1. SetSlot(s, rec) \in Frame /\ SetSlot(s, rec).op = "set"
    BY EditFrames, TablesAssumption DEF SetSlot
  <2>2. Idle /\ quiesce_match(<<SetSlot(s, rec)>>) /\ UNCHANGED <<host, down, edits>>
    BY <1>2 DEF StartSet, table
  <2> HIDE DEF SetSlot
  <2> QED BY <1>1, <2>1, <2>2
<1>3. ASSUME NEW s \in Slots, StartDelete(s) PROVE PressInv'
  <2>1. DeleteSlot(s) \in Frame /\ DeleteSlot(s).op = "delete"
    BY DEF DeleteSlot, Frame
  <2>2. Idle /\ quiesce_match(<<DeleteSlot(s)>>) /\ UNCHANGED <<host, down, edits>>
    BY <1>3 DEF StartDelete, table
  <2> QED BY <1>1, <2>1, <2>2
<1>4. CASE StartClearAll
  <2> DEFINE f == ClearFrom(1)
  <2>1. f \in Frame /\ f.op = "clear"
    BY ClearFrames, ConstantFacts DEF ClearFrom
  <2>2. /\ stack = <<>> /\ stack' = <<f>>
        /\ UNCHANGED <<pressed_keys, pressed_keys_count, active_combos, host, down, edits, arrival>>
    BY <1>4 DEF StartClearAll, Idle, matching, pool, table
  <2> HIDE DEF f
  <2>3. f.op \in RootOps /\ f.op \notin {"up", "up_cleaned"}
    BY <2>1 DEF RootOps
  <2>4. /\ presses(pressed_keys, pressed_keys_count, <<f>>) = arrival
        /\ Calls(<<f>>) /\ Head(<<f>>) = f
        /\ Places(Range(arrival), active_combos, host, down, releasing(<<f>>),
                  edits = 0 /\ ~ wiping(<<f>>))
    BY <2>1, <2>2, <2>3, IdleGoesOn
  <2>5. /\ presses(pressed_keys', pressed_keys_count', <<f>>) = arrival' /\ Distinct(arrival')
        /\ Places(Range(arrival'), active_combos', host', down', releasing(<<f>>),
                  edits' = 0 /\ ~ wiping(<<f>>))
        /\ Head(<<f>>).op # "up_cleaned"
    BY <2>1, <2>2, <2>4 DEF PressInv
  <2> QED BY <2>2, <2>4, <2>5, AfterStep
<1>5. CASE ClearAllQuiesces
  <2> DEFINE f == ClearSlot(top.slot)
  <2>1. top.slot \in Slots
    BY <1>5, RunningCall, FrameFields, ConstantFacts DEF ClearAllQuiesces, Slots
  <2>2. f \in Frame /\ f.op = "clear_slot"
    BY <2>1 DEF ClearSlot, Frame
  <2>3. /\ stack # <<>> /\ top.op = "clear" /\ quiesce_match(<<f>>)
        /\ UNCHANGED <<host, down, edits>>
    BY <1>5 DEF ClearAllQuiesces, Runs, table
  <2> HIDE DEF f
  <2>4. /\ f.op \in RootOps /\ top.op \in RootOps /\ f.op \in RootOps \ {"up_cleaned"}
        /\ f.op \notin {"up", "up_cleaned"} /\ top.op \notin {"up", "up_cleaned"}
        /\ f.op \in {"clear", "clear_slot"}
    BY <2>2, <2>3 DEF RootOps
  <2>5. /\ presses(pressed_keys, pressed_keys_count, <<f>>) = arrival
        /\ Places(Range(arrival), active_combos, host, down, releasing(<<f>>),
                  edits = 0 /\ ~ wiping(<<f>>))
    BY <2>2, <2>3, <2>4, BottomGoesOn
  <2> QED BY <2>2, <2>3, <2>4, <2>5, QuiesceKeeps
<1> QED
  BY <1>2, <1>3, <1>4, <1>5

\* A held combo that is edited goes, with the keys that are down.
LEMMA HeldGoes ==
  ASSUME Inv, PressInv, NEW s, quiesce_held(s) \/ UNCHANGED pool
  PROVE  Places(Range(arrival), active_combos', host, down, releasing(stack), FALSE)
<1> DEFINE a == Range(arrival)
           r == releasing(stack)
           n == active_combo_count
           entries == {i \in 1 .. n : active_combos[i].slot = s}
<1>1. Places(a, active_combos, host, down, r, FALSE)
  <2> DEFINE w == edits = 0 /\ ~ wiping(stack)
  <2>1. Places(a, active_combos, host, down, r, w)
    BY DEF PressInv
  <2> HIDE DEF w, a, r
  <2> QED BY <2>1, LessToShow
<1>2. active_combos \in Pool /\ n \in 0 .. MaxPressed
  BY DEF Inv, TypeOK, Pool
<1> HIDE DEF a, r
<1>3. CASE UNCHANGED pool
  BY <1>1, <1>3 DEF pool, a, r
<1>4. CASE quiesce_held(s) /\ entries # {}
  <2> DEFINE i == Min(entries)
  <2>1. active_combos' = [active_combos EXCEPT ![i] = active_combos[n], ![n] = FreeEntry]
    BY <1>4 DEF quiesce_held, deactivate_combo, pool
  <2>2. i \in 1 .. n
    <3>1. entries \in SUBSET Nat /\ entries # {} /\ entries \subseteq 1 .. n
      BY <1>4
    <3> HIDE DEF entries
    <3> QED BY <3>1, MinOfNaturals
  <2> HIDE DEF i
  <2>3. n \in 1 .. MaxPressed
    BY <1>2, <2>2, ConstantFacts
  <2> HIDE DEF n
  <2>4. Places(a, [active_combos EXCEPT ![i] = active_combos[n], ![n] = FreeEntry], host, down, r, FALSE)
    BY <1>1, <1>2, <2>2, <2>3, ComboGoes
  <2> QED BY <2>1, <2>4 DEF a, r
<1> QED
  BY <1>3, <1>4 DEF quiesce_held, pool

LEMMA EditsEnd ==
  ASSUME Inv, PressInv, FinishSet \/ FinishDelete \/ ClearAllSaves
  PROVE  PressInv'
<1>1. /\ stack # <<>> /\ top.op \in RootOps /\ top.op \notin {"up", "up_cleaned"} /\ stack' = rest
      /\ UNCHANGED <<pressed_keys, pressed_keys_count, host, down, arrival>>
      /\ edits' = edits + 1
  BY DEF FinishSet, FinishDelete, ClearAllSaves, write_slot, Runs, RootOps, matching
<1>2. quiesce_held(top.slot) \/ UNCHANGED pool
  BY DEF FinishSet, FinishDelete, ClearAllSaves
<1>3. Places(Range(arrival), active_combos', host, down, releasing(stack), FALSE)
  BY <1>2, HeldGoes
<1>4. releasing(stack) = {}
  BY <1>1, AtBottom
<1>5. (edits' = 0) = FALSE
  BY <1>1 DEF Inv, TypeOK
<1>6. Places(Range(arrival), active_combos', host', down', {}, edits' = 0)
  BY <1>1, <1>3, <1>4, <1>5
<1> QED
  BY <1>1, <1>6, HandlerReturns

LEMMA ClearAllWipesKeeps ==
  ASSUME Inv, PressInv, ClearAllWipes
  PROVE  PressInv'
<1> DEFINE f == ClearFrom(top.slot + 1)
<1>1. /\ stack # <<>> /\ top.op \in {"clear", "clear_slot"} /\ stack' = <<f>> \o rest
      /\ UNCHANGED <<pressed_keys, pressed_keys_count, host, down, edits, arrival>>
  BY DEF ClearAllWipes, Runs, matching
<1>2. f \in Frame /\ f.op = "clear"
  <2>1. top.slot \in 1 .. NumSlots
    <3>1. CASE Runs("clear_slot")
      BY <3>1, RunningCall, FrameFields DEF Slots
    <3>2. CASE Runs("clear") /\ top.slot <= NumSlots
      BY <3>2, RunningCall, FrameFields, ConstantFacts
    <3> QED BY <3>1, <3>2 DEF ClearAllWipes
  <2>2. top.slot + 1 \in 1 .. NumSlots + 1
    BY <2>1, ConstantFacts
  <2> QED BY <2>2, ClearFrames DEF ClearFrom
<1> HIDE DEF f
<1>3. /\ f.op \in RootOps /\ top.op \in RootOps
      /\ f.op \notin {"up", "up_cleaned"} /\ top.op \notin {"up", "up_cleaned"}
      /\ f.op \in {"clear", "clear_slot"}
  BY <1>1, <1>2 DEF RootOps
<1>4. /\ presses(pressed_keys, pressed_keys_count, <<f>>) = arrival
      /\ Calls(<<f>>) /\ Head(<<f>>) = f /\ <<f>> \o rest = <<f>>
  BY <1>1, <1>2, <1>3, BottomGoesOn
<1>5. quiesce_held(top.slot) \/ UNCHANGED pool
  BY DEF ClearAllWipes
<1>6. Places(Range(arrival), active_combos', host, down, releasing(stack), FALSE)
  BY <1>5, HeldGoes
<1>7. releasing(stack) = {} /\ releasing(<<f>>) = {} /\ wiping(<<f>>)
  <2>1. releasing(stack) = {}
    BY <1>1, <1>3, AtBottom
  <2>2. releasing(<<f>>) = {} /\ wiping(<<f>>)
    BY <1>2, <1>3, BottomCall
  <2> QED BY <2>1, <2>2
<1>8. (edits' = 0 /\ ~ wiping(<<f>>)) = FALSE
  BY <1>7
<1>9. Places(Range(arrival'), active_combos', host', down', releasing(<<f>>),
             edits' = 0 /\ ~ wiping(<<f>>))
  BY <1>1, <1>6, <1>7, <1>8
<1>10. /\ presses(pressed_keys', pressed_keys_count', <<f>>) = arrival' /\ Distinct(arrival')
       /\ Head(<<f>>).op # "up_cleaned"
  BY <1>1, <1>2, <1>4 DEF PressInv
<1> QED
  BY <1>1, <1>4, <1>9, <1>10, AfterStep

LEMMA TimeoutKeeps ==
  ASSUME Inv, PressInv, TimeoutExpires \/ TimeoutReturns
  PROVE  PressInv'
<1>1. CASE TimeoutReturns
  <2>1. /\ stack # <<>> /\ top.op \in RootOps /\ top.op \notin {"up", "up_cleaned"} /\ stack' = rest
        /\ top.op \notin {"clear", "clear_slot"}
        /\ UNCHANGED <<pressed_keys, pressed_keys_count, active_combos, host, down, edits, arrival>>
    BY <1>1 DEF TimeoutReturns, Runs, RootOps, matching, pool, table
  <2>2. releasing(stack) = {} /\ ~ wiping(stack)
    BY <2>1, AtBottom
  <2>3. Places(Range(arrival), active_combos', host', down', {}, edits' = 0)
    BY <2>1, <2>2 DEF PressInv
  <2> QED BY <2>1, <2>3, HandlerReturns
<1>2. CASE TimeoutExpires
  <2> DEFINE f == TimedOut
             q == <<f>>
  <2>1. f \in Frame /\ f.op = "timed_out"
    BY ReleaseFrames, ConstantFacts DEF TimedOut
  <2>2. stack = <<>> /\ UNCHANGED <<host, down, edits>>
    BY <1>2 DEF TimeoutExpires, Idle, table
  <2>3. \/ cleanup(pressed_keys, pressed_keys_count, fully_pressed_combo, q)
        \/ UNCHANGED <<stack, pressed_keys, pressed_keys_count, active_combos, arrival>>
    BY <1>2 DEF TimeoutExpires, pool
  <2> HIDE DEF f
  <2>4. f.op \in RootOps /\ f.op \notin {"up", "up_cleaned", "down", "release"}
    BY <2>1 DEF RootOps
  <2>5. /\ presses(pressed_keys, pressed_keys_count, q) = arrival
        /\ Calls(q) /\ q \in Seq(Frame)
        /\ Places(Range(arrival), active_combos, host, down, releasing(q), edits = 0 /\ ~ wiping(q))
    BY <2>1, <2>2, <2>4, IdleGoesOn
  <2>6. Under(q, pressed_keys_count)
    BY <2>1, <2>4, UnderNothing
  <2>7. /\ pressed_keys \in Buffer /\ pressed_keys_count \in 0 .. MaxKeys
        /\ fully_pressed_combo \in Slots \cup {NoSlot} /\ Distinct(arrival)
    BY StateTypes DEF Inv, TypeOK, PressInv
  <2> HIDE DEF q
  <2>8. CASE cleanup(pressed_keys, pressed_keys_count, fully_pressed_combo, q)
    BY <2>2, <2>5, <2>6, <2>7, <2>8, CleanupKeepsPresses
  <2>9. CASE UNCHANGED <<stack, pressed_keys, pressed_keys_count, active_combos, arrival>>
    BY <2>2, <2>9 DEF PressInv, Runs
  <2> QED BY <2>3, <2>8, <2>9
<1> QED
  BY <1>1, <1>2

\* The clock, a handler that finds nothing to do, and other work items.
LEMMA OthersKeep ==
  ASSUME PressInv, Tick \/ TimeoutTooEarly \/ Others \/ UNCHANGED vars
  PROVE  PressInv'
<1>1. /\ UNCHANGED <<stack, pressed_keys, pressed_keys_count, active_combos, arrival,
                     host, down, edits, released_keys>>
  BY OthersTouchNothing DEF Tick, TimeoutTooEarly, vars, matching, pool, table
<1> QED
  BY <1>1 DEF PressInv, Runs, top

LEMMA NextPresses == Inv /\ LoopsNest /\ PressInv /\ [Next]_vars => PressInv'
<1> SUFFICES ASSUME Inv, LoopsNest, PressInv, [Next]_vars PROVE PressInv'
  OBVIOUS
<1>1. CASE DownIgnored \/ BubbleDown
  BY <1>1, KeyGoesDown DEF DownIgnored, BubbleDown, matching, pool, table
<1>2. CASE Next /\ ~ DownIgnored /\ ~ BubbleDown
  BY <1>2, FirstKeyGoesDown, ReraiseKeeps, ReleaseDoneKeeps, ReleasesAgainKeeps, DownCapturedKeeps,
     UpCleanupKeeps, UpHandledKeeps, UpReraisedKeeps, UpBubblesKeeps, TimeoutKeeps, StartsKeep,
     EditsEnd, ClearAllWipesKeeps, OthersKeep, PressKeeps, ReleaseKeeps
     DEF Next, Handler, Timeout, Keys, Edits
<1> QED
  BY <1>1, <1>2, OthersKeep

-----------------------------------------------------------------------------
(* The theorems                                                            *)

\* No key press is lost, doubled or mixed up in the matcher, whatever the loops that
\* read the buffer raise into it, for any table, pool and edits.
THEOREM PressesStayConserved == Spec => []PressesConserved
<1>1. Init => LoopsNest
  BY DEF Init, LoopsNest
<1>2. Inv /\ PressInv => PressesConserved
  BY PressesAre DEF Inv, PressInv
<1> QED
  BY <1>1, <1>2, InitInv, NextInv, NextNests, InitPresses, NextPresses, PTL DEF Spec

LEMMA KeysInPlaces ==
  ASSUME Inv, PressInv
  PROVE  KeysAccountedFor
<1> SUFFICES ASSUME stack = <<>> PROVE KeysAccountedFor
  BY DEF KeysAccountedFor, Idle
<1> DEFINE a == Range(arrival)
<1>1. /\ pressed_keys \in Buffer /\ pressed_keys_count \in 0 .. MaxKeys /\ <<>> \in Seq(Frame)
      /\ active_combos \in Pool /\ host \subseteq Positions /\ down \subseteq Positions
  BY StateTypes DEF Inv, TypeOK
<1>2. captured_positions = a
  <2> DEFINE u == between(pressed_keys, 1, pressed_keys_count)
  <2>1. u \in Seq(Positions) /\ keys_below(pressed_keys, <<>>) = <<>>
    BY <1>1, PressesType, StackKeys
  <2>2. arrival = u \o <<>>
    BY <2>1 DEF PressInv, presses
  <2>3. Range(u) = captured_positions
    BY <1>1, BetweenRange DEF captured_positions
  <2> HIDE DEF u
  <2>4. u \o <<>> = u
    BY <2>1, ConcatEmptySeq
  <2> QED BY <2>2, <2>3, <2>4
<1>3. Places(a, active_combos, host, down, {}, edits = 0)
  BY NoCalls DEF PressInv
<1>4. captured_positions \subseteq Positions
  BY <1>1, ConstantFacts DEF captured_positions, positions_of, Buffer, Event
<1>5. \A p : p \in combo_positions <=> \E i \in 1 .. MaxPressed : in_combo(active_combos, i, p)
  BY DEF combo_positions, held_combos, in_combo
<1>6. combo_positions \subseteq Positions
  BY <1>1 DEF combo_positions, held_combos, Pool, Entry
<1> HIDE DEF a
<1>7. \A p \in Positions :
        /\ Once(a, active_combos, host, p)
        /\ Somewhere(a, active_combos, host, p) => p \in down
        /\ edits = 0 /\ p \in down => Somewhere(a, active_combos, host, p)
  BY <1>3 DEF Places
<1>8. \A p \in Positions :
        Somewhere(a, active_combos, host, p) <=> p \in captured_positions \cup combo_positions \cup host
  BY <1>2, <1>5 DEF Somewhere
<1>9. /\ captured_positions \cap combo_positions = {}
      /\ captured_positions \cap host = {}
      /\ combo_positions \cap host = {}
  BY <1>1, <1>2, <1>4, <1>5, <1>6, <1>7 DEF Once
<1>10. ASSUME NEW i \in held_combos, NEW j \in held_combos, i # j
       PROVE  active_combos[i].keys \cap active_combos[j].keys = {}
  <2>1. i \in 1 .. MaxPressed /\ j \in 1 .. MaxPressed
        /\ active_combos[i].slot # NoSlot /\ active_combos[j].slot # NoSlot
    BY DEF held_combos
  <2>2. active_combos[i].keys \subseteq Positions
    BY <1>1, <2>1 DEF Pool, Entry
  <2> QED BY <1>7, <1>10, <2>1, <2>2 DEF Once, in_combo
<1>11. /\ captured_positions \cup combo_positions \cup host \subseteq down
       /\ edits = 0 => down \subseteq captured_positions \cup combo_positions \cup host
  BY <1>1, <1>4, <1>6, <1>7, <1>8
<1> QED
  BY <1>9, <1>10, <1>11 DEF KeysAccountedFor

\* Between handlers each key that is down is captured, in one held combo, or down for
\* the keymap, and no other key is.
THEOREM KeysStayAccountedFor == Spec => []KeysAccountedFor
<1>1. Init => LoopsNest
  BY DEF Init, LoopsNest
<1>2. Inv /\ PressInv => KeysAccountedFor
  BY KeysInPlaces
<1> QED
  BY <1>1, <1>2, InitInv, NextInv, NextNests, InitPresses, NextPresses, PTL DEF Spec

\* Only a release that goes on lets a key of the keymap go.
LEMMA OthersKeepHost ==
  ASSUME [Next]_vars, ~ UpBubbles
  PROVE  host \subseteq host'
<1>1. CASE DownIgnored \/ BubbleDown \/ ReleaseFirstKey
  BY <1>1 DEF DownIgnored, BubbleDown, ReleaseFirstKey, pass_down
<1>2. CASE DownCaptured \/ UpCleanup
  BY <1>2, SMTT(30) DEF DownCaptured, UpCleanup
<1>3. CASE \/ ReraiseKey \/ ReleaseDone \/ CleanupReleasesAgain \/ UpHandled \/ UpReraised
           \/ TimeoutReturns
  BY <1>3 DEF ReraiseKey, ReleaseDone, CleanupReleasesAgain, UpHandled, UpReraised, TimeoutReturns
<1>4. CASE FinishSet \/ FinishDelete \/ ClearAllQuiesces \/ ClearAllWipes \/ ClearAllSaves
  BY <1>4 DEF FinishSet, FinishDelete, ClearAllQuiesces, ClearAllWipes, ClearAllSaves
<1>5. CASE Timeout \/ Tick \/ Keys \/ Others
  BY <1>5, OthersTouchNothing
     DEF Timeout, TimeoutTooEarly, TimeoutExpires, Tick, Keys, Press, Release
<1>6. CASE Edits
  BY <1>6 DEF Edits, StartSet, StartDelete, StartClearAll
<1>7. CASE UNCHANGED vars
  BY <1>7 DEF vars
<1> QED
  BY <1>1, <1>2, <1>3, <1>4, <1>5, <1>6, <1>7 DEF Next, Handler

\* A release never overtakes a press: the keys that a release raised again are out of
\* the matcher, or the release is raised once more behind them.
THEOREM ReleasesFollow == Spec => ReleasesFollowPresses
<1>1. Init => LoopsNest
  BY DEF Init, LoopsNest
<1>2. Inv /\ PressInv /\ [Next]_vars => [\A p \in Positions : p \in host \ host' => arrival = <<>>]_vars
  <2> SUFFICES ASSUME Inv, PressInv, [Next]_vars, NEW p \in Positions, p \in host \ host'
               PROVE  arrival = <<>>
    OBVIOUS
  <2>1. UpBubbles
    BY OthersKeepHost
  <2> QED BY <2>1, NothingBefore
<1> QED
  BY <1>1, <1>2, InitInv, NextInv, NextNests, InitPresses, NextPresses, PTL
  DEF Spec, ReleasesFollowPresses

-----------------------------------------------------------------------------
(* Combos                                                                  *)
(*                                                                         *)
(* While the pool suffices, and if no edit starts with a match under way,  *)
(* combos are made of their keys, and no behavior is held without one.     *)

\* Calls of a handler that edits nothing and has found an entry of the pool ...
PlainFrame ==
  {f \in Frame : f.op \in {"down", "bubble", "up", "up_cleaned", "release", "timed_out"}}

PlainCalls == stack \in Seq(PlainFrame)

\* ... and of an edit that writes a slot, or clears them all, once no match is under
\* way; the one key it may have found captured goes on first.
EditFrame ==
  {f \in Frame : /\ f.op \in {"set", "delete", "clear_slot"}
                 /\ f.op = "set" => Cardinality(f.record.keys) <= MaxKeys}

Editing ==
  /\ edits < MaxEdits
  /\ \/ pressed_keys_count = 0 /\ \E f \in EditFrame : stack = <<f>>
     \/ /\ pressed_keys_count = 0
        /\ \E f \in EditFrame, k \in 1 .. MaxKeys + 1, n \in 0 .. 1 :
             stack = <<ReleaseLoop(k, n)>> \o <<f>>
     \/ pressed_keys_count <= 1 /\ \E s \in 1 .. NumSlots + 1 : stack = <<ClearFrom(s)>>

pressing(e, s) ==
  /\ e.slot = s
  /\ resolves(slots[s].behavior)
  /\ slots[s].slow \/ Cardinality(e.keys) = key_count(s)

weight(e, s) == IF pressing(e, s) THEN 1 ELSE 0

pressing_in(c, s) == {i \in 1 .. MaxPressed : pressing(c[i], s)}

\* How often the behavior of s is held beyond what the pool accounts for.
balance(s) == held[s] - Cardinality(pressing_in(active_combos, s))

KeepsBalance == \A s \in Slots : balance(s)' = balance(s)

\* Entries of the pool that are in use have keys of their slot, which is active, and
\* no slot has two.
OwnKeys(c) ==
  /\ \A i \in 1 .. MaxPressed : c[i].slot # NoSlot =>
       /\ c[i].keys # {} /\ c[i].keys \subseteq slots[c[i].slot].keys
       /\ slot_is_active(c[i].slot)
  /\ \A i, j \in 1 .. MaxPressed : c[i].slot # NoSlot /\ c[i].slot = c[j].slot => i = j

\* The first keys of the buffer are those of slot s.
Complete(s, keys, count) ==
  /\ slot_is_active(s)
  /\ key_count(s) <= count
  /\ positions_of(keys, 1, key_count(s)) = slots[s].keys

\* An edit may let go of a behavior that was let go with the first key of its combo, so
\* that a balance may be negative.
FireInv ==
  /\ OwnKeys(active_combos)
  /\ \A s \in Slots : balance(s) <= 0
  /\ \A s \in candidates : slot_is_active(s)
  /\ fully_pressed_combo # NoSlot =>
       Complete(fully_pressed_combo, pressed_keys, pressed_keys_count)

\* The conditions a slot sets for the start of its combo, of a match that began at o.
InPlace(s, timestamp, o) ==
  slot_active_on_layer(s, o.layer) /\ o.tapped + slots[s].idle <= timestamp

\* Every slot of the match under way was in its place as the match began, whatever has
\* become of the layers and keystrokes since; and a full buffer is that of a complete combo.
MatchInv ==
  /\ \A s \in Slots : key_count(s) <= MaxKeys
  /\ pressed_keys_count = MaxKeys =>
       fully_pressed_combo # NoSlot /\ key_count(fully_pressed_combo) = MaxKeys
  /\ pressed_keys_count > 0 =>
       \A s \in Slots : s \in candidates \/ s = fully_pressed_combo =>
         InPlace(s, pressed_keys[1].timestamp, origin)

\* A key that found no room goes on as soon as the combo in its way has fired, and that
\* combo took every captured key.
NoBubble(q) == \A i \in 1 .. Len(q) : q[i].op # "bubble"

BubblesLast ==
  \/ NoBubble(stack)
  \/ Runs("bubble") /\ pressed_keys_count = 0 /\ NoBubble(rest)
  \/ /\ Runs("release") /\ top.count = 0 /\ pressed_keys_count = 0
     /\ rest # <<>> /\ Head(rest).op = "bubble" /\ NoBubble(Tail(rest))

MatcherInv ==
  /\ Inv /\ LoopsNest /\ PressInv
  /\ PlainCalls \/ Editing
  /\ CandidatesFit /\ FireInv /\ MatchInv /\ BubblesLast

\* A combo that fires finds an entry.
Room == in_hand >= 2 => free_entries # {}

LEMMA PlainRest ==
  ASSUME PlainCalls, stack # <<>>
  PROVE  top \in PlainFrame /\ rest \in Seq(PlainFrame)
BY HeadTailProperties DEF top, rest, PlainCalls

LEMMA PlainPush ==
  ASSUME NEW f \in PlainFrame, NEW caller \in Seq(PlainFrame)
  PROVE  <<f>> \o caller \in Seq(PlainFrame)
BY ConcatProperties

LEMMA LoopIsPlain ==
  ASSUME NEW k \in 1 .. MaxKeys + 1, NEW c \in 0 .. MaxKeys
  PROVE  ReleaseLoop(k, c) \in PlainFrame
BY ReleaseFrames DEF ReleaseLoop, PlainFrame

LEMMA EventsArePlain ==
  ASSUME NEW e \in Event
  PROVE  /\ Down(e) \in PlainFrame /\ Bubble(e) \in PlainFrame
         /\ Up(e) \in PlainFrame /\ UpCleaned(e) \in PlainFrame
BY EventFrames DEF Down, Bubble, Up, UpCleaned, PlainFrame

\* A step of a handler that edits nothing.
PlainHandler ==
  \/ DownIgnored \/ DownCaptured \/ BubbleDown
  \/ ReleaseFirstKey \/ ReraiseKey \/ ReleaseDone
  \/ UpCleanup \/ UpHandled \/ UpReraised \/ UpBubbles \/ TimeoutReturns

LEMMA PlainHandlers ==
  ASSUME PlainCalls, Handler
  PROVE  /\ PlainHandler
         /\ stack # <<>> /\ top \in PlainFrame /\ rest \in Seq(PlainFrame)
<1>1. stack # <<>>
  BY DEF Handler, Runs, DownIgnored, DownCaptured, BubbleDown, ReleaseFirstKey, ReraiseKey,
         ReleaseDone, CleanupReleasesAgain, UpCleanup, UpHandled, UpReraised, UpBubbles,
         TimeoutReturns, FinishSet, FinishDelete, ClearAllQuiesces, ClearAllWipes, ClearAllSaves
<1>2. top \in PlainFrame /\ rest \in Seq(PlainFrame)
  BY <1>1, PlainRest
<1>3. ~ (\/ CleanupReleasesAgain \/ FinishSet \/ FinishDelete \/ ClearAllQuiesces
         \/ ClearAllWipes \/ ClearAllSaves)
  BY <1>2 DEF PlainFrame, CleanupReleasesAgain, FinishSet, FinishDelete, ClearAllQuiesces,
              ClearAllWipes, ClearAllSaves, Runs
<1> QED
  BY <1>1, <1>2, <1>3, SMTT(40) DEF Handler, PlainHandler

LEMMA FiresByKeys ==
  ASSUME FireInv
  PROVE  CombosFireByTheirKeys
BY DEF FireInv, OwnKeys, Complete, CombosFireByTheirKeys, held_combos

LEMMA PressingHeld ==
  ASSUME NEW s \in Slots
  PROVE  {i \in held_combos :
            /\ active_combos[i].slot = s
            /\ resolves(slots[s].behavior)
            /\ slots[s].slow \/ Cardinality(active_combos[i].keys) = key_count(s)}
         = pressing_in(active_combos, s)
BY ConstantFacts DEF held_combos, pressing_in, pressing

\* One entry of the pool changes.
LEMMA EntryChanges ==
  ASSUME NEW c \in Pool, NEW i \in 1 .. MaxPressed, NEW e, NEW s
  PROVE  /\ Cardinality(pressing_in(c, s)) \in Nat
         /\ Cardinality(pressing_in([c EXCEPT ![i] = e], s)) =
              Cardinality(pressing_in(c, s)) - weight(c[i], s) + weight(e, s)
<1> DEFINE P == pressing_in(c, s)
           R == P \ {i}
           d == [c EXCEPT ![i] = e]
<1>1. IsFiniteSet(1 .. MaxPressed)
  BY FS_Interval, ConstantFacts
<1>2. P \in SUBSET (1 .. MaxPressed) /\ (i \in P <=> pressing(c[i], s))
  BY DEF pressing_in
<1>3. pressing_in(d, s) = IF pressing(e, s) THEN R \cup {i} ELSE R
  <2>1. d[i] = e /\ \A j \in 1 .. MaxPressed : j # i => d[j] = c[j]
    BY DEF Pool
  <2> HIDE DEF d
  <2> QED
    BY <2>1 DEF pressing_in
<1> HIDE DEF P, d
<1>4. IsFiniteSet(P) /\ Cardinality(P) \in Nat
  BY <1>1, <1>2, FS_Subset, FS_CardinalityType
<1>5. IsFiniteSet(R) /\ Cardinality(R) = IF i \in P THEN Cardinality(P) - 1 ELSE Cardinality(P)
  BY <1>4, FS_RemoveElement
<1>6. Cardinality(R \cup {i}) = Cardinality(R) + 1
  <2> HIDE DEF R
  <2>1. i \notin R
    BY DEF R
  <2> QED
    BY <1>5, <2>1, FS_AddElement
<1> HIDE DEF R
<1>7. CASE pressing(e, s)
  <2>1. Cardinality(pressing_in(d, s)) = Cardinality(R) + 1
    BY <1>3, <1>6, <1>7
  <2> QED
    BY <1>2, <1>4, <1>5, <1>7, <2>1 DEF P, d, weight
<1>8. CASE ~ pressing(e, s)
  <2>1. Cardinality(pressing_in(d, s)) = Cardinality(R)
    BY <1>3, <1>8
  <2> QED
    BY <1>2, <1>4, <1>5, <1>8, <2>1 DEF P, d, weight
<1> QED
  BY <1>4, <1>7, <1>8 DEF P, d

\* Captured keys are different keys.
LEMMA CapturedKeysCount ==
  ASSUME NEW keys \in Buffer, NEW n \in 0 .. MaxKeys, NEW q \in Seq(Frame),
         presses(keys, n, q) = arrival, Distinct(arrival)
  PROVE  IsFiniteSet(positions_of(keys, 1, n)) /\ Cardinality(positions_of(keys, 1, n)) = n
<1> DEFINE u == between(keys, 1, n)
           T == positions_of(keys, 1, n)
           f == [i \in 1 .. n |-> keys[i].position]
<1>1. u \in Seq(Positions) /\ keys_below(keys, q) \in Seq(Positions)
  BY PressesType
<1>2. Distinct(u)
  <2> HIDE DEF u
  <2>1. arrival = u \o keys_below(keys, q)
    BY DEF presses, u
  <2> QED
    BY <1>1, <2>1, DistinctParts
<1>3. Len(u) = n /\ \A i \in 1 .. n : u[i] = keys[i].position
  <2>1. 1 \in 1 .. MaxKeys + 1 /\ n - 1 + 1 = n /\ (IF 1 <= n THEN n - 1 + 1 ELSE 0) = n
        /\ \A i \in 1 .. n : 1 + i - 1 = i
    BY ConstantFacts
  <2> QED
    BY <2>1, Between
<1>4. \A i, j \in 1 .. n : keys[i].position = keys[j].position => i = j
  <2> HIDE DEF u
  <2> QED
    BY <1>2, <1>3 DEF Distinct
<1>5. f \in Bijection(1 .. n, T)
  BY <1>4 DEF positions_of, Bijection, Injection, Surjection, IsInjective
<1>6. IsFiniteSet(1 .. n) /\ Cardinality(1 .. n) = n
  BY FS_Interval, ConstantFacts
<1> HIDE DEF T, f
<1>7. ExistsBijection(1 .. n, T)
  BY <1>5 DEF ExistsBijection
<1>8. IsFiniteSet(T) /\ Cardinality(T) = Cardinality(1 .. n)
  BY <1>6, <1>7, FS_Bijection
<1> QED
  BY <1>6, <1>8 DEF T

\* An entry leaves the pool c, and the last of its first n entries takes its place.
removed(c, i, n) == [c EXCEPT ![i] = c[n], ![n] = FreeEntry]

LEMMA EntryGoes ==
  ASSUME NEW c \in Pool, NEW n \in 1 .. MaxPressed, NEW i \in 1 .. n
  PROVE  /\ removed(c, i, n) \in Pool
         /\ \A s \in Slots : Cardinality(pressing_in(removed(c, i, n), s)) =
                             Cardinality(pressing_in(c, s)) - weight(c[i], s)
         /\ \A j \in 1 .. MaxPressed : removed(c, i, n)[j].slot # NoSlot =>
              \E k \in 1 .. MaxPressed : /\ k = IF j = i THEN n ELSE j
                                         /\ k # i /\ removed(c, i, n)[j] = c[k]
         /\ (OwnKeys(c) => OwnKeys(removed(c, i, n)))
<1> DEFINE moved == [c EXCEPT ![i] = c[n]]
           d == removed(c, i, n)
<1>1. /\ i \in 1 .. MaxPressed /\ FreeEntry \in Entry /\ FreeEntry.slot = NoSlot
      /\ NoSlot \notin Slots
  BY ConstantFacts, EntryTypes DEF FreeEntry
<1>2. /\ d = [moved EXCEPT ![n] = FreeEntry]
      /\ moved \in Pool /\ moved[n] = c[n] /\ d \in Pool
  BY <1>1 DEF Pool, removed
<1>3. \A j \in 1 .. MaxPressed :
        d[j] = IF j = n THEN FreeEntry ELSE IF j = i THEN c[n] ELSE c[j]
  BY <1>1 DEF Pool, removed
<1> HIDE DEF d, moved
<1>4. ASSUME NEW s \in Slots
      PROVE  Cardinality(pressing_in(d, s)) = Cardinality(pressing_in(c, s)) - weight(c[i], s)
  <2>1. /\ Cardinality(pressing_in(c, s)) \in Nat
        /\ Cardinality(pressing_in(moved, s)) =
             Cardinality(pressing_in(c, s)) - weight(c[i], s) + weight(c[n], s)
    BY <1>1, EntryChanges DEF moved
  <2>2. Cardinality(pressing_in(d, s)) =
          Cardinality(pressing_in(moved, s)) - weight(moved[n], s) + weight(FreeEntry, s)
    <3> DEFINE e == FreeEntry
    <3> HIDE DEF e
    <3>1. moved \in Pool
      BY <1>2
    <3>2. Cardinality(pressing_in([moved EXCEPT ![n] = e], s)) =
            Cardinality(pressing_in(moved, s)) - weight(moved[n], s) + weight(e, s)
      BY <3>1, EntryChanges
    <3> QED
      BY <1>2, <3>2 DEF e
  <2>3. weight(FreeEntry, s) = 0 /\ weight(c[n], s) \in {0, 1} /\ weight(c[i], s) \in {0, 1}
    BY <1>1 DEF weight, pressing
  <2> QED
    BY <1>2, <2>1, <2>2, <2>3
<1>5. ASSUME NEW j \in 1 .. MaxPressed, d[j].slot # NoSlot
      PROVE  \E k \in 1 .. MaxPressed : k = (IF j = i THEN n ELSE j) /\ k # i /\ d[j] = c[k]
  <2>1. j # n
    BY <1>1, <1>3, <1>5
  <2> QED
    BY <1>3, <2>1
<1>6. ASSUME OwnKeys(c) PROVE OwnKeys(d)
  <2>1. ASSUME NEW j \in 1 .. MaxPressed, d[j].slot # NoSlot
        PROVE  /\ d[j].keys # {} /\ d[j].keys \subseteq slots[d[j].slot].keys
               /\ slot_is_active(d[j].slot)
    BY <1>5, <1>6, <2>1 DEF OwnKeys
  <2>2. ASSUME NEW j \in 1 .. MaxPressed, NEW k \in 1 .. MaxPressed,
               d[j].slot # NoSlot, d[j].slot = d[k].slot
        PROVE  j = k
    <3>1. PICK a \in 1 .. MaxPressed : a = (IF j = i THEN n ELSE j) /\ a # i /\ d[j] = c[a]
      BY <1>5, <2>2
    <3>2. PICK b \in 1 .. MaxPressed : b = (IF k = i THEN n ELSE k) /\ b # i /\ d[k] = c[b]
      BY <1>5, <2>2
    <3>3. a = b
      BY <1>6, <2>2, <3>1, <3>2 DEF OwnKeys
    <3>4. j # n /\ k # n
      BY <1>1, <1>3, <2>2
    <3> QED
      BY <3>1, <3>2, <3>3, <3>4
  <2> QED
    BY <2>1, <2>2 DEF OwnKeys
<1> QED
  BY <1>2, <1>4, <1>5, <1>6 DEF d

\* A combo whose keys are all captured is not held.
LEMMA CapturedNotHeld ==
  ASSUME Inv, PressInv, OwnKeys(active_combos), NEW keys \in Buffer, NEW count \in 0 .. MaxKeys,
         NEW q \in Seq(Frame), presses(keys, count, q) = arrival,
         NEW s \in Slots, Complete(s, keys, count), NEW i \in 1 .. MaxPressed
  PROVE  active_combos[i].slot # s
<1> SUFFICES ASSUME active_combos[i].slot = s PROVE FALSE
  OBVIOUS
<1> DEFINE u == between(keys, 1, count)
           v == keys_below(keys, q)
<1>1. s # NoSlot /\ active_combos \in Pool /\ key_count(s) \in Nat /\ count \in Nat
  BY StateTypes, KeyCount, ConstantFacts DEF Inv
<1>2. PICK p \in active_combos[i].keys : p \in slots[s].keys
  BY <1>1 DEF OwnKeys
<1>3. in_combo(active_combos, i, p) /\ p \in Positions
  BY <1>1, <1>2 DEF in_combo, Pool, Entry
<1>4. p \in positions_of(keys, 1, count)
  BY <1>1, <1>2 DEF Complete, positions_of
<1>5. u \in Seq(Positions) /\ v \in Seq(Positions) /\ arrival = u \o v
  BY PressesType DEF presses
<1>6. p \in Range(u)
  BY <1>4, BetweenRange
<1> HIDE DEF u, v
<1>7. p \in Range(arrival)
  <2>1. PICK j \in 1 .. Len(u) : u[j] = p
    BY <1>5, <1>6, RangeEquality
  <2>2. j \in 1 .. Len(arrival) /\ arrival[j] = p /\ arrival \in Seq(Positions)
    BY <1>5, <2>1, TwoParts
  <2> QED
    BY <2>2, RangeEquality
<1> QED
  BY <1>3, <1>7 DEF PressInv, Places, Once

\* A step that leaves match, pool and table alone.
LEMMA SameFires ==
  ASSUME FireInv, UNCHANGED <<matching, active_combos, held, slots>>
  PROVE  FireInv' /\ KeepsBalance
BY DEF FireInv, OwnKeys, KeepsBalance, balance, pressing_in, pressing, Complete, key_count,
       slot_is_active, positions_of, matching

\* What the pool and the behaviors have to satisfy, after a step that keeps the table.
LEMMA FiresAfter ==
  ASSUME FireInv, UNCHANGED slots, OwnKeys(active_combos'), KeepsBalance,
         \A s \in candidates' : slot_is_active(s),
         fully_pressed_combo' # NoSlot =>
           Complete(fully_pressed_combo', pressed_keys', pressed_keys_count')
  PROVE  FireInv'
BY DEF FireInv, KeepsBalance, OwnKeys, Complete, slot_is_active, key_count, positions_of

\* The balance after a step that keeps the table.
LEMMA BalanceAfter ==
  ASSUME UNCHANGED slots,
         \A s \in Slots : held'[s] - Cardinality(pressing_in(active_combos', s)) =
                          held[s] - Cardinality(pressing_in(active_combos, s))
  PROVE  KeepsBalance
BY DEF KeepsBalance, balance, pressing_in, pressing, key_count

\* A combo whose keys are all captured takes them all.
LEMMA ComboLengthIs ==
  ASSUME NEW s, NEW count \in Nat, key_count(s) \in Nat, key_count(s) <= count
  PROVE  combo_length(s, count) = key_count(s)
<1> DEFINE k == key_count(s)
<1>1. {count, k} \in SUBSET Nat
  OBVIOUS
<1>2. Min({count, k}) \in {count, k} /\ Min({count, k}) <= k
  BY <1>1, MinOfNaturals
<1> HIDE DEF k
<1>3. Min({count, k}) = k
  BY <1>2 DEF k
<1> QED
  BY <1>3 DEF combo_length, k

\* A combo that is complete fires: an entry that was free holds it and all of its keys.
LEMMA FiringIs ==
  ASSUME Inv, free_entries # {}, NEW keys, NEW count \in 0 .. MaxKeys, NEW s \in Slots,
         Complete(s, keys, count), NEW caller, activate_combo(s, keys, count, caller)
  PROVE  \E i \in 1 .. MaxPressed :
           /\ active_combos[i].slot = NoSlot
           /\ active_combos' = [active_combos EXCEPT ![i] = [slot |-> s, keys |-> slots[s].keys]]
           /\ held' = invoke_slot_behavior(s, 1)
           /\ arrival' = without(arrival, slots[s].keys)
<1> DEFINE i == Min(free_entries)
<1>1. i \in 1 .. MaxPressed /\ active_combos[i].slot = NoSlot
  <2>1. free_entries \in SUBSET Nat /\ free_entries \subseteq 1 .. MaxPressed
    BY ConstantFacts DEF free_entries
  <2>2. i \in free_entries
    BY <2>1, MinOfNaturals
  <2> HIDE DEF i
  <2> QED
    BY <2>1, <2>2 DEF free_entries
<1>2. combo_length(s, count) = key_count(s)
  <2>1. key_count(s) \in Nat /\ key_count(s) <= count /\ count \in Nat
    BY KeyCount, ConstantFacts DEF Inv, Complete
  <2> QED
    BY <2>1, ComboLengthIs
<1>3. /\ active_combos' = [active_combos EXCEPT ![i] = [slot |-> s, keys |-> slots[s].keys]]
      /\ held' = invoke_slot_behavior(s, 1)
      /\ arrival' = without(arrival, slots[s].keys)
  BY <1>2 DEF activate_combo, Complete
<1> HIDE DEF i
<1> QED
  BY <1>1, <1>3

\* ... and its behavior is pressed.
LEMMA CompleteFires ==
  ASSUME Inv, FireInv, free_entries # {}, NEW keys \in Buffer, NEW count \in 0 .. MaxKeys,
         NEW s \in Slots, Complete(s, keys, count),
         \A i \in 1 .. MaxPressed : active_combos[i].slot # s,
         NEW caller, activate_combo(s, keys, count, caller), UNCHANGED slots
  PROVE  OwnKeys(active_combos') /\ KeepsBalance
<1> DEFINE e == [slot |-> s, keys |-> slots[s].keys]
<1>1. PICK i \in 1 .. MaxPressed :
        /\ active_combos[i].slot = NoSlot
        /\ active_combos' = [active_combos EXCEPT ![i] = e]
        /\ held' = invoke_slot_behavior(s, 1)
  BY FiringIs
<1>2. key_count(s) \in Nat /\ key_count(s) >= 2 /\ slot_is_active(s)
  BY KeyCount, ConstantFacts DEF Inv, Complete, slot_is_active
<1>3. slots[s].keys # {}
  <2>1. key_count(s) # 0
    BY <1>2
  <2> QED
    BY <2>1, FS_EmptySet DEF key_count
<1>4. active_combos \in Pool /\ NoSlot \notin Slots /\ held \in [Slots -> Int]
  BY StateTypes, ConstantFacts DEF Inv, TypeOK
<1>5. OwnKeys(active_combos')
  <2>1. /\ active_combos'[i] = e /\ e.slot = s /\ e.keys = slots[s].keys
        /\ \A j \in 1 .. MaxPressed : j # i => active_combos'[j] = active_combos[j]
    BY <1>1, <1>4 DEF Pool
  <2> HIDE DEF e
  <2> QED
    BY <1>2, <1>3, <2>1 DEF FireInv, OwnKeys
<1>6. KeepsBalance
  <2> SUFFICES ASSUME NEW t \in Slots
               PROVE  held'[t] - Cardinality(pressing_in(active_combos', t)) =
                      held[t] - Cardinality(pressing_in(active_combos, t))
    BY BalanceAfter
  <2>1. ~ pressing(active_combos[i], t)
    BY <1>1, <1>4 DEF pressing
  <2>2. pressing(e, t) <=> t = s /\ resolves(slots[s].behavior)
    BY DEF pressing, key_count
  <2> HIDE DEF e
  <2>3. /\ Cardinality(pressing_in(active_combos, t)) \in Nat
        /\ Cardinality(pressing_in(active_combos', t)) =
             Cardinality(pressing_in(active_combos, t)) + (IF pressing(e, t) THEN 1 ELSE 0)
    <3>1. /\ Cardinality(pressing_in(active_combos, t)) \in Nat
          /\ Cardinality(pressing_in([active_combos EXCEPT ![i] = e], t)) =
               Cardinality(pressing_in(active_combos, t)) - weight(active_combos[i], t) + weight(e, t)
      BY <1>4, EntryChanges
    <3> QED
      BY <1>1, <2>1, <3>1 DEF weight
  <2>4. held'[t] = IF t = s /\ resolves(slots[s].behavior) THEN held[t] + 1 ELSE held[t]
    BY <1>1, <1>4 DEF invoke_slot_behavior
  <2>5. held[t] \in Int
    BY <1>4
  <2> QED
    BY <2>2, <2>3, <2>4, <2>5
<1> QED
  BY <1>5, <1>6

\* A match that ends with a complete combo, or without one.
LEMMA CleanupFires ==
  ASSUME Inv, PressInv, FireInv, NEW keys \in Buffer, NEW count \in 0 .. MaxKeys,
         NEW full \in Slots \cup {NoSlot},
         full # NoSlot => Complete(full, keys, count) /\ free_entries # {},
         NEW q \in Seq(Frame), presses(keys, count, q) = arrival,
         NEW caller, cleanup(keys, count, full, caller), UNCHANGED slots
  PROVE  FireInv' /\ KeepsBalance
<1>1. OwnKeys(active_combos') /\ KeepsBalance
  <2>1. CASE full = NoSlot
    <3>1. UNCHANGED <<active_combos, held>>
      BY <2>1 DEF cleanup, pool
    <3> QED
      BY <3>1 DEF FireInv, OwnKeys, KeepsBalance, balance, pressing_in, pressing, key_count
  <2>2. CASE full # NoSlot
    <3>1. full \in Slots /\ activate_combo(full, keys, count, caller)
          /\ Complete(full, keys, count) /\ free_entries # {}
      BY <2>2 DEF cleanup
    <3>2. \A i \in 1 .. MaxPressed : active_combos[i].slot # full
      BY <3>1, CapturedNotHeld DEF FireInv
    <3> QED
      BY <3>1, <3>2, CompleteFires
  <2> QED
    BY <2>1, <2>2
<1>2. candidates' = {} /\ fully_pressed_combo' = NoSlot
  BY DEF cleanup
<1> QED
  BY <1>1, <1>2, FiresAfter

\* A key of a held combo is released.
LEMMA UpHandledFires ==
  ASSUME Inv, FireInv, UpHandled
  PROVE  FireInv' /\ KeepsBalance
<1> DEFINE n         == active_combo_count
           i         == Min(combos_with(top.event.position))
           s         == active_combos[i].slot
           old       == active_combos[i].keys
           all       == Cardinality(old) = key_count(s)
           remaining == old \ {top.event.position}
           new       == [active_combos[i] EXCEPT !.keys = remaining]
           combos    == [active_combos EXCEPT ![i] = new]
<1>1. /\ active_combos \in Pool /\ n \in 0 .. MaxPressed /\ held \in [Slots -> Int]
      /\ combos_with(top.event.position) # {}
      /\ held' = IF (slots[s].slow /\ remaining = {}) \/ (~ slots[s].slow /\ all)
                 THEN invoke_slot_behavior(s, -1) ELSE held
      /\ active_combos' = IF remaining = {} THEN deactivate_combo(combos, i) ELSE combos
      /\ UNCHANGED <<matching, slots>>
  <2>1. [active_combos EXCEPT ![i].keys = remaining] = combos
    OBVIOUS
  <2> QED
    BY <2>1, StateTypes, SMTT(30) DEF UpHandled, Inv, TypeOK, table
<1>2. i \in 1 .. n /\ i \in 1 .. MaxPressed /\ n \in 1 .. MaxPressed /\ top.event.position \in old
  <2>1. combos_with(top.event.position) \in SUBSET Nat
    BY <1>1, ConstantFacts DEF combos_with
  <2>2. i \in combos_with(top.event.position)
    BY <1>1, <2>1, MinOfNaturals
  <2> HIDE DEF i
  <2>3. i \in 1 .. n /\ top.event.position \in active_combos[i].keys
    BY <2>2 DEF combos_with
  <2> QED
    BY <1>1, <2>3, ConstantFacts
<1> HIDE DEF i
<1>3. /\ s \in Slots /\ s # NoSlot /\ old \subseteq slots[s].keys /\ IsFiniteSet(old)
      /\ new = [slot |-> s, keys |-> remaining]
  <2>1. active_combos[i].slot # NoSlot
    BY <1>2 DEF Inv, PoolDense, held_combos
  <2>2. active_combos[i] \in Entry
    BY <1>1, <1>2 DEF Pool
  <2>3. old \subseteq Positions /\ s \in Slots /\ new = [slot |-> s, keys |-> remaining]
    BY <2>1, <2>2 DEF Entry
  <2>4. IsFiniteSet(old)
    BY <2>3, ConstantFacts, FS_Subset
  <2> QED
    BY <1>2, <2>1, <2>3, <2>4 DEF FireInv, OwnKeys
<1>4. combos[i] = new /\ \A j \in 1 .. MaxPressed : j # i => combos[j] = active_combos[j]
  BY <1>1, <1>2 DEF Pool
<1>5. deactivate_combo(combos, i) = removed(active_combos, i, n)
  <2>1. combos[n] = IF n = i THEN new ELSE active_combos[n]
    BY <1>2, <1>4
  <2> QED
    BY <1>1, <1>2, <2>1 DEF deactivate_combo, removed, Pool
<1>6. Cardinality(remaining) = Cardinality(old) - 1 /\ Cardinality(old) \in Nat
  <2> HIDE DEF old
  <2> QED
    BY <1>2, <1>3, FS_RemoveElement, FS_CardinalityType, ZenonT(60)
<1>7. Cardinality(old) <= key_count(s) /\ key_count(s) \in Nat
  <2>1. IsFiniteSet(slots[s].keys)
    BY <1>3, ConstantFacts, FS_Subset DEF Inv, TypeOK, Record
  <2> QED
    BY <1>3, <2>1, FS_Subset, KeyCount DEF Inv, key_count
<1>8. new.slot = s /\ new.keys = remaining
  BY <1>3
<1> HIDE DEF new, remaining, old
<1>9. OwnKeys(active_combos')
  <2>1. CASE remaining # {}
    <3>1. active_combos' = combos
      BY <1>1, <2>1
    <3> HIDE DEF combos
    <3>2. \A j \in 1 .. MaxPressed : combos[j].slot = active_combos[j].slot
      BY <1>4, <1>8
    <3>3. combos[i].keys \subseteq slots[s].keys /\ combos[i].keys # {}
      BY <1>3, <1>4, <1>8, <2>1 DEF remaining
    <3> QED
      BY <1>2, <1>3, <1>4, <3>1, <3>2, <3>3 DEF FireInv, OwnKeys
  <2>2. CASE remaining = {}
    <3>1. active_combos' = removed(active_combos, i, n)
      BY <1>1, <1>5, <2>2
    <3> QED
      BY <1>1, <1>2, <3>1, EntryGoes DEF FireInv
  <2> QED
    BY <2>1, <2>2
<1>10. KeepsBalance
  <2> SUFFICES ASSUME NEW t \in Slots
               PROVE  held'[t] - Cardinality(pressing_in(active_combos', t)) =
                      held[t] - Cardinality(pressing_in(active_combos, t))
    BY <1>1, BalanceAfter
  <2>1. /\ Cardinality(pressing_in(active_combos, t)) \in Nat
        /\ Cardinality(pressing_in(combos, t)) =
             Cardinality(pressing_in(active_combos, t)) - weight(active_combos[i], t) + weight(new, t)
    BY <1>1, <1>2, EntryChanges
  <2>2. weight(active_combos[i], t) =
          IF t = s /\ resolves(slots[s].behavior) /\ (slots[s].slow \/ all) THEN 1 ELSE 0
    BY DEF weight, pressing, old
  <2>3. weight(new, t) = IF t = s /\ resolves(slots[s].behavior) /\ slots[s].slow THEN 1 ELSE 0
    <3>1. Cardinality(remaining) # key_count(s)
      BY <1>6, <1>7
    <3> QED
      BY <1>8, <3>1 DEF weight, pressing
  <2>4. /\ held'[t] =
             IF /\ t = s /\ resolves(slots[s].behavior)
                /\ (slots[s].slow /\ remaining = {}) \/ (~ slots[s].slow /\ all)
             THEN held[t] - 1 ELSE held[t]
        /\ held[t] \in Int
    BY <1>1, <1>3 DEF invoke_slot_behavior
  <2>5. CASE remaining # {}
    <3>1. active_combos' = combos
      BY <1>1, <2>5
    <3> HIDE DEF all, combos
    <3> QED
      BY <2>1, <2>2, <2>3, <2>4, <2>5, <3>1
  <2>6. CASE remaining = {}
    <3>1. active_combos' = removed(active_combos, i, n)
      BY <1>1, <1>5, <2>6
    <3>2. Cardinality(pressing_in(removed(active_combos, i, n), t)) =
            Cardinality(pressing_in(active_combos, t)) - weight(active_combos[i], t)
      BY <1>1, <1>2, EntryGoes
    <3> HIDE DEF all, combos, n
    <3> QED
      BY <2>1, <2>2, <2>4, <2>6, <3>1, <3>2
  <2> QED
    BY <2>5, <2>6
<1> QED
  BY <1>1, <1>9, <1>10, FiresAfter, SMTT(30) DEF matching, FireInv

\* An edited slot is let go: no entry of the pool names it any more.
LEMMA SlotIsLetGo ==
  ASSUME Inv, FireInv, NEW s \in Slots, quiesce_held(s)
  PROVE  /\ OwnKeys(active_combos')
         /\ \A i \in 1 .. MaxPressed : active_combos'[i].slot # NoSlot =>
              /\ active_combos'[i].slot # s
              /\ \E k \in 1 .. MaxPressed : active_combos'[i] = active_combos[k]
         /\ \A t \in Slots : t # s =>
              /\ held'[t] = held[t]
              /\ Cardinality(pressing_in(active_combos', t)) =
                 Cardinality(pressing_in(active_combos, t))
         /\ held'[s] <= 0
<1> DEFINE entries == {i \in 1 .. active_combo_count : active_combos[i].slot = s}
           n == active_combo_count
           i == Min(entries)
<1>1. /\ active_combos \in Pool /\ n \in 0 .. MaxPressed /\ held \in [Slots -> Int]
      /\ s # NoSlot /\ OwnKeys(active_combos) /\ balance(s) <= 0
      /\ {j \in 1 .. MaxPressed : active_combos[j].slot # NoSlot} = 1 .. n
  BY StateTypes, ConstantFacts DEF Inv, TypeOK, FireInv, PoolDense, held_combos
<1>2. \A c : (\A j \in 1 .. MaxPressed : c[j].slot # s) => Cardinality(pressing_in(c, s)) = 0
  <2> TAKE c
  <2> SUFFICES ASSUME \A j \in 1 .. MaxPressed : c[j].slot # s
               PROVE  Cardinality(pressing_in(c, s)) = 0
    OBVIOUS
  <2>1. pressing_in(c, s) = {}
    BY DEF pressing_in, pressing
  <2> QED
    BY <2>1, FS_EmptySet
<1>3. CASE entries = {} /\ UNCHANGED <<pool, held>>
  <2>1. \A j \in 1 .. MaxPressed : active_combos[j].slot # s
    BY <1>1, <1>3
  <2>2. held[s] <= 0
    BY <1>1, <1>2, <2>1 DEF balance
  <2> QED
    BY <1>1, <1>3, <2>1, <2>2 DEF pool
<1>4. CASE /\ entries # {}
           /\ held' = invoke_slot_behavior(s, -1)
           /\ active_combos' = deactivate_combo(active_combos, i)
  <2>1. entries \in SUBSET Nat
    BY ConstantFacts
  <2>2. i \in entries
    BY <1>4, <2>1, MinOfNaturals
  <2> HIDE DEF i
  <2>3. i \in 1 .. n /\ i \in 1 .. MaxPressed /\ n \in 1 .. MaxPressed /\ active_combos[i].slot = s
    BY <1>1, <2>2, ConstantFacts
  <2>4. active_combos' = removed(active_combos, i, n)
    BY <1>4 DEF deactivate_combo, removed
  <2> HIDE DEF entries, n
  <2>5. \A j \in 1 .. MaxPressed : active_combos'[j].slot # NoSlot =>
          \E k \in 1 .. MaxPressed : k # i /\ active_combos'[j] = active_combos[k]
    BY <1>1, <2>3, <2>4, EntryGoes
  <2>6. \A k \in 1 .. MaxPressed : k # i => active_combos[k].slot # s
    BY <1>1, <2>3 DEF OwnKeys
  <2>7. \A j \in 1 .. MaxPressed : active_combos'[j].slot # s
    BY <1>1, <2>5, <2>6
  <2>8. \A t \in Slots : Cardinality(pressing_in(active_combos', t)) =
                         Cardinality(pressing_in(active_combos, t)) - weight(active_combos[i], t)
    BY <1>1, <2>3, <2>4, EntryGoes
  <2>9. OwnKeys(active_combos')
    BY <1>1, <2>3, <2>4, EntryGoes
  <2>10. ASSUME NEW t \in Slots, t # s
         PROVE  /\ held'[t] = held[t]
                /\ Cardinality(pressing_in(active_combos', t)) =
                   Cardinality(pressing_in(active_combos, t))
    <3>1. weight(active_combos[i], t) = 0 /\ Cardinality(pressing_in(active_combos, t)) \in Nat
      BY <1>1, <2>3, <2>10, EntryChanges DEF weight, pressing
    <3>2. held'[t] = held[t]
      BY <1>1, <1>4, <2>10 DEF invoke_slot_behavior
    <3> QED
      BY <2>8, <3>1, <3>2
  <2>11. held'[s] <= 0
    <3>1. Cardinality(pressing_in(active_combos', s)) = 0
      BY <1>2, <2>7
    <3>2. Cardinality(pressing_in(active_combos, s)) \in Nat
      BY <1>1, <2>3, EntryChanges
    <3>3. Cardinality(pressing_in(active_combos, s)) = weight(active_combos[i], s)
          /\ weight(active_combos[i], s) \in {0, 1}
      BY <2>8, <3>1, <3>2 DEF weight
    <3>4. weight(active_combos[i], s) = 1 => resolves(slots[s].behavior)
      BY DEF weight, pressing
    <3>5. held'[s] = IF resolves(slots[s].behavior) THEN held[s] - 1 ELSE held[s]
      BY <1>1, <1>4 DEF invoke_slot_behavior
    <3>6. held[s] \in Int /\ held[s] <= weight(active_combos[i], s)
      BY <1>1, <3>3 DEF balance
    <3> QED
      BY <3>3, <3>4, <3>5, <3>6
  <2> QED
    BY <2>5, <2>7, <2>9, <2>10, <2>11
<1> QED
  BY <1>3, <1>4 DEF quiesce_held

\* A slot is written when no match concerns it.
LEMMA SlotIsWritten ==
  ASSUME Inv, FireInv, MatchInv, NEW s \in Slots, quiesce_held(s),
         NEW rec \in Record, Cardinality(rec.keys) <= MaxKeys, slots' = [slots EXCEPT ![s] = rec],
         UNCHANGED <<matching, host, last_tapped_timestamp>>,
         s \notin candidates, fully_pressed_combo # s
  PROVE  FireInv' /\ MatchInv'
<1>1. /\ slots \in [Slots -> Record] /\ candidates \subseteq Slots
      /\ fully_pressed_combo \in Slots \cup {NoSlot} /\ slots'[s] = rec
  BY DEF Inv, TypeOK
<1>2. \A t \in Slots : t # s => /\ slots'[t] = slots[t] /\ key_count(t)' = key_count(t)
                                /\ slot_is_active(t)' = slot_is_active(t)
  BY <1>1 DEF key_count, slot_is_active
<1>3. OwnKeys(active_combos)'
  <2>1. active_combos' \in Pool
    BY QuiesceHeldTypes DEF Pool
  <2>2. \A i \in 1 .. MaxPressed : active_combos'[i].slot # NoSlot =>
          active_combos'[i].slot \in Slots /\ active_combos'[i].slot # s
    BY <2>1, SlotIsLetGo DEF Pool, Entry
  <2>3. OwnKeys(active_combos')
    BY SlotIsLetGo
  <2> QED
    BY <1>2, <2>2, <2>3 DEF OwnKeys
<1>4. ASSUME NEW t \in Slots PROVE balance(t)' <= 0
  <2>1. CASE t = s
    <3>1. pressing_in(active_combos, s)' = {}
      <4>1. \A i \in 1 .. MaxPressed : active_combos'[i].slot # s
        BY SlotIsLetGo, ConstantFacts
      <4> QED
        BY <4>1 DEF pressing_in, pressing
    <3>2. held'[s] <= 0 /\ held'[s] \in Int
      BY SlotIsLetGo, QuiesceHeldTypes
    <3> QED
      BY <2>1, <3>1, <3>2, FS_EmptySet DEF balance
  <2>2. CASE t # s
    <3>1. pressing_in(active_combos, t)' = pressing_in(active_combos', t)
      BY <1>2, <2>2 DEF pressing_in, pressing
    <3>2. held'[t] = held[t] /\ Cardinality(pressing_in(active_combos', t)) =
                                Cardinality(pressing_in(active_combos, t))
      BY <2>2, SlotIsLetGo
    <3> QED
      BY <3>1, <3>2 DEF FireInv, balance
  <2> QED
    BY <2>1, <2>2
<1>5. FireInv'
  <2>1. \A t \in candidates' : slot_is_active(t)'
    BY <1>1, <1>2 DEF matching, FireInv
  <2>2. ASSUME fully_pressed_combo' # NoSlot
        PROVE  Complete(fully_pressed_combo, pressed_keys, pressed_keys_count)'
    <3>1. fully_pressed_combo \in Slots /\ fully_pressed_combo # s
          /\ Complete(fully_pressed_combo, pressed_keys, pressed_keys_count)
      BY <1>1, <2>2 DEF matching, FireInv
    <3> QED
      BY <1>2, <3>1 DEF matching, Complete, positions_of
  <2> QED
    BY <1>3, <1>4, <2>1, <2>2 DEF FireInv
<1>6. MatchInv'
  <2>1. \A t \in Slots : key_count(t)' <= MaxKeys
    BY <1>1, <1>2 DEF MatchInv, key_count
  <2>2. pressed_keys_count' = MaxKeys =>
          fully_pressed_combo' # NoSlot /\ key_count(fully_pressed_combo)' = MaxKeys
    BY <1>1, <1>2 DEF matching, MatchInv
  <2>3. ASSUME pressed_keys_count' > 0, NEW t \in Slots,
               t \in candidates' \/ t = fully_pressed_combo'
        PROVE  InPlace(t, pressed_keys[1].timestamp, origin)'
    <3>1. t # s /\ InPlace(t, pressed_keys[1].timestamp, origin)
      BY <2>3 DEF matching, MatchInv
    <3> QED
      BY <1>2, <3>1 DEF matching, InPlace, slot_active_on_layer
  <2> QED
    BY <2>1, <2>2, <2>3 DEF MatchInv
<1> QED
  BY <1>5, <1>6

LEMMA HaveRoom ==
  ASSUME Inv, FireInv, Room
  PROVE  /\ fully_pressed_combo # NoSlot => free_entries # {}
         /\ Runs("down") /\ pressed_keys_count > 0 => free_entries # {}
<1>1. pressed_keys_count \in Nat
  BY StateTypes
<1>2. ASSUME fully_pressed_combo # NoSlot PROVE in_hand >= 2
  <2>1. fully_pressed_combo \in Slots
    BY <1>2 DEF Inv, TypeOK
  <2>2. key_count(fully_pressed_combo) >= 2 /\ key_count(fully_pressed_combo) <= pressed_keys_count
        /\ key_count(fully_pressed_combo) \in Nat
    BY <1>2, <2>1, KeyCount DEF FireInv, Complete, slot_is_active, Inv
  <2> QED
    BY <1>1, <2>2 DEF in_hand
<1> QED
  BY <1>1, <1>2 DEF Room, in_hand

LEMMA NoBubblePush ==
  ASSUME NEW f \in Frame, NEW q \in Seq(Frame), NoBubble(q), f.op # "bubble"
  PROVE  NoBubble(<<f>> \o q)
<1> DEFINE s == <<f>> \o q
<1>1. Len(s) = Len(q) + 1 /\ s[1] = f /\ \A j \in 2 .. Len(q) + 1 : s[j] = q[j - 1]
  BY PushedCalls
<1>2. Len(q) \in Nat
  OBVIOUS
<1> HIDE DEF s
<1>3. NoBubble(s)
  <2> SUFFICES ASSUME NEW i \in 1 .. Len(s) PROVE s[i].op # "bubble"
    BY DEF NoBubble
  <2>1. CASE i = 1
    BY <1>1, <2>1
  <2>2. CASE i # 1
    <3>1. i \in 2 .. Len(q) + 1 /\ i - 1 \in 1 .. Len(q)
      BY <1>1, <1>2, <2>2
    <3> QED
      BY <1>1, <3>1 DEF NoBubble
  <2> QED
    BY <2>1, <2>2
<1> QED
  BY <1>3 DEF s

LEMMA NoBubbleRest ==
  ASSUME NEW q \in Seq(Frame), NoBubble(q), q # <<>>
  PROVE  NoBubble(Tail(q)) /\ Head(q).op # "bubble"
<1>1. /\ Tail(q) \in Seq(Frame) /\ Len(Tail(q)) = Len(q) - 1 /\ Head(q) = q[1]
      /\ \A i \in 1 .. Len(Tail(q)) : Tail(q)[i] = q[i + 1]
      /\ Len(q) \in Nat /\ Len(q) >= 1
  BY HeadTailProperties
<1> QED
  BY <1>1 DEF NoBubble

\* With a key captured, all captured keys are keys of every candidate that stays.
LEMMA CandidatesHaveKeys ==
  ASSUME Inv, CandidatesFit, NEW e \in Event
  PROVE  LET fresh == setup_candidates_for_first_keypress(e.position, e.timestamp)
             first == pressed_keys_count = 0
             cands == IF first THEN candidates \cup fresh
                      ELSE filter_candidates(
                             filter_timed_out_candidates(candidates, e.timestamp), e.position)
             room  == pressed_keys_count < MaxKeys
             keys  == IF room THEN [pressed_keys EXCEPT ![pressed_keys_count + 1] = e]
                      ELSE pressed_keys
             count == IF room THEN pressed_keys_count + 1 ELSE pressed_keys_count
         IN  \A s \in cands : positions_of(keys, 1, count) \subseteq slots[s].keys
<1> DEFINE fresh == setup_candidates_for_first_keypress(e.position, e.timestamp)
           first == pressed_keys_count = 0
           cands == IF first THEN candidates \cup fresh
                    ELSE filter_candidates(
                           filter_timed_out_candidates(candidates, e.timestamp), e.position)
           room  == pressed_keys_count < MaxKeys
           keys  == IF room THEN [pressed_keys EXCEPT ![pressed_keys_count + 1] = e]
                    ELSE pressed_keys
           count == IF room THEN pressed_keys_count + 1 ELSE pressed_keys_count
<1>1. /\ pressed_keys_count \in Nat /\ pressed_keys_count \in 0 .. MaxKeys
      /\ pressed_keys \in [1 .. MaxKeys -> Event] /\ MaxKeys \in Nat \ {0}
  BY ConstantFacts DEF Inv, TypeOK
<1> SUFFICES ASSUME NEW s \in cands, NEW i \in 1 .. count
             PROVE  keys[i].position \in slots[s].keys
  BY DEF positions_of
<1>2. CASE first
  <2>1. candidates = {} /\ s \in fresh
    BY <1>2 DEF CandidatesFit
  <2>2. e.position \in slots[s].keys
    BY <2>1 DEF setup_candidates_for_first_keypress, slot_uses_position
  <2>3. i = 1 /\ keys[1] = e
    BY <1>1, <1>2
  <2> QED
    BY <2>2, <2>3
<1>3. CASE ~ first
  <2>1. s \in candidates /\ e.position \in slots[s].keys
    BY <1>3 DEF filter_candidates, filter_timed_out_candidates, slot_uses_position
  <2>2. CASE i \in 1 .. pressed_keys_count
    <3>1. pressed_keys[i].position \in slots[s].keys
      BY <2>1, <2>2 DEF CandidatesFit, captured_positions, positions_of
    <3>2. keys[i] = pressed_keys[i]
      BY <1>1, <2>2
    <3> QED
      BY <3>1, <3>2
  <2>3. CASE i \notin 1 .. pressed_keys_count
    <3>1. room /\ i = pressed_keys_count + 1 /\ keys[i] = e
      BY <1>1, <2>3
    <3> QED
      BY <2>1, <3>1
  <2> QED
    BY <2>2, <2>3
<1> QED
  BY <1>2, <1>3

\* What capturing a key comes to: the match ends, with a combo or without, or goes on.  A
\* key that finds no room ends a match that is complete.
Captured(keys, count, caller, full) ==
  /\ presses(keys, count, caller) = arrival
  /\ full # NoSlot => /\ pressed_keys_count > 0 /\ Complete(full, keys, count)
                      /\ InPlace(full, pressed_keys[1].timestamp, origin)
  /\ pressed_keys_count > 0 => keys[1] = pressed_keys[1]
  /\ \/ caller = rest
     \/ caller = <<Bubble(top.event)>> \o rest /\ full # NoSlot /\ key_count(full) = count

MatchEnds(keys, count, caller, full) ==
  Captured(keys, count, caller, full) /\ cleanup(keys, count, full, caller)

MatchGoesOn(keys, count, full) ==
  /\ Captured(keys, count, rest, full)
  /\ count > 0 /\ (count = MaxKeys => full # NoSlot /\ key_count(full) = MaxKeys)
  /\ \A s \in candidates' : /\ s \in Slots /\ slot_is_active(s)
                            /\ InPlace(s, keys[1].timestamp, origin')
                            /\ positions_of(keys, 1, count) \subseteq slots[s].keys
  /\ pressed_keys' = keys /\ pressed_keys_count' = count /\ stack' = rest
  /\ pressed_keys_count > 0 => UNCHANGED origin
  /\ fully_pressed_combo' = full
  /\ UNCHANGED <<active_combos, held, arrival>>

LEMMA CaptureOutcome ==
  ASSUME Inv, LoopsNest, PressInv, CandidatesFit, FireInv, MatchInv, DownCaptured
  PROVE  \E keys \in Buffer, count \in 0 .. MaxKeys, full \in Slots \cup {NoSlot} :
           \/ \E caller \in Seq(Frame) : MatchEnds(keys, count, caller, full)
           \/ MatchGoesOn(keys, count, full)
<1> DEFINE e     == top.event
           fresh == setup_candidates_for_first_keypress(e.position, e.timestamp)
           first == pressed_keys_count = 0
           cands == IF first THEN candidates \cup fresh
                    ELSE filter_candidates(
                           filter_timed_out_candidates(candidates, e.timestamp), e.position)
           room  == pressed_keys_count < MaxKeys
           keys  == IF room THEN [pressed_keys EXCEPT ![pressed_keys_count + 1] = e]
                    ELSE pressed_keys
           count == IF room THEN pressed_keys_count + 1 ELSE pressed_keys_count
           full  == {s \in cands : key_count(s) = count}
           caller == IF room THEN rest ELSE <<Bubble(e)>> \o rest
           start == IF first THEN here ELSE origin
<1>1. /\ Runs("down") /\ e \in Event /\ rest \in Seq(Frame)
      /\ pressed_keys \in Buffer /\ pressed_keys_count \in 0 .. MaxKeys
      /\ pressed_keys_count \in Nat /\ candidates \subseteq Slots
      /\ fully_pressed_combo \in Slots \cup {NoSlot} /\ MaxKeys \in Nat \ {0}
      /\ Distinct(arrival)
  BY RunningCall, FrameFields, StateTypes, ConstantFacts DEF DownCaptured, Runs, Inv, TypeOK, PressInv
<1>2. /\ keys \in Buffer /\ count \in 0 .. MaxKeys /\ count \in Nat
      /\ pressed_keys_count <= count /\ count > 0
      /\ \A i \in 1 .. pressed_keys_count : keys[i] = pressed_keys[i]
  BY <1>1 DEF Buffer
<1>3. caller \in Seq(Frame) /\ presses(keys, count, caller) = arrival
  <2>1. CASE room
    <3>1. /\ keys = [pressed_keys EXCEPT ![pressed_keys_count + 1] = top.event]
          /\ count = pressed_keys_count + 1 /\ caller = rest
      BY <2>1
    <3> HIDE DEF keys, count, caller
    <3> QED
      BY <1>1, <2>1, <3>1, KeyIsCaptured
  <2>2. CASE ~ room
    <3>1. /\ keys = pressed_keys /\ count = pressed_keys_count
          /\ caller = <<Bubble(top.event)>> \o rest
      BY <2>2
    <3> HIDE DEF keys, count, caller
    <3> QED
      BY <1>1, <3>1, KeyFindsNoRoom
  <2> QED
    BY <2>1, <2>2
<1>4. \A s \in cands : s \in Slots /\ slot_is_active(s)
  BY <1>1 DEF setup_candidates_for_first_keypress, filter_candidates, filter_timed_out_candidates,
              FireInv
<1>5. \A s \in cands : positions_of(keys, 1, count) \subseteq slots[s].keys
  BY <1>1, CandidatesHaveKeys
<1>6. /\ \/ cleanup(keys, count, fully_pressed_combo, caller)
         \/ full # {} /\ cleanup(keys, count, Min(full), caller)
         \/ /\ cands # {}
            /\ pressed_keys' = keys /\ pressed_keys_count' = count /\ stack' = caller
            /\ candidates' = cands /\ origin' = start
            /\ fully_pressed_combo' = IF full = {} THEN fully_pressed_combo ELSE Min(full)
            /\ UNCHANGED <<active_combos, held, arrival>>
  <2>1. Cardinality(cands) # 0 /\ ~ first => cands # {}
    BY FS_EmptySet
  <2> QED
    BY <2>1 DEF DownCaptured, pool
<1>7. /\ full \subseteq cands /\ \A s \in full : key_count(s) = count
      /\ \A s \in cands : key_count(s) = count => s \in full
      /\ count <= pressed_keys_count + 1
      /\ room => caller = rest
      /\ ~ room => /\ caller = <<Bubble(top.event)>> \o rest /\ keys = pressed_keys
                   /\ count = MaxKeys /\ pressed_keys_count = MaxKeys
      /\ pressed_keys_count > 0 => keys[1] = pressed_keys[1] /\ start = origin
  BY <1>1, <1>2
<1>8. \A s \in cands : InPlace(s, keys[1].timestamp, start)
  <2> SUFFICES ASSUME NEW s \in cands PROVE InPlace(s, keys[1].timestamp, start)
    OBVIOUS
  <2>1. CASE first
    <3>1. candidates = {} /\ s \in fresh
      BY <2>1 DEF CandidatesFit
    <3>2. keys = [pressed_keys EXCEPT ![1] = e] /\ 1 \in 1 .. MaxKeys
      BY <1>1, <2>1
    <3>3. keys[1] = e
      <4> HIDE DEF keys
      <4> QED
        BY <1>1, <3>2 DEF Buffer
    <3>4. slot_active_on_layer(s, highest_layer_active) /\ ~ is_quick_tap(s, e.timestamp)
      BY <3>1 DEF setup_candidates_for_first_keypress
    <3>5. /\ s \in Slots /\ slots[s].idle \in Nat /\ e.timestamp \in Nat
          /\ last_tapped_timestamp \in Int
      BY <1>1, <1>4 DEF Inv, TypeOK, Record, Event, LongAgo
    <3>6. last_tapped_timestamp + slots[s].idle <= e.timestamp
      BY <3>4, <3>5 DEF is_quick_tap
    <3>7. start.layer = highest_layer_active /\ start.tapped = last_tapped_timestamp
      BY <2>1 DEF here
    <3> QED
      BY <3>3, <3>4, <3>6, <3>7 DEF InPlace
  <2>2. CASE ~ first
    <3>1. s \in candidates /\ s \in Slots /\ pressed_keys_count > 0
      BY <1>1, <2>2 DEF filter_candidates, filter_timed_out_candidates
    <3> QED
      BY <1>7, <3>1 DEF MatchInv
  <2> QED
    BY <2>1, <2>2
<1>9. \A s \in cands : ~ room => e.position \in slots[s].keys
  BY <1>1 DEF filter_candidates, slot_uses_position
<1> HIDE DEF keys, full, cands, fresh, count, caller, room, first, start
<1>10. IsFiniteSet(positions_of(keys, 1, count)) /\ Cardinality(positions_of(keys, 1, count)) = count
  BY <1>1, <1>2, <1>3, CapturedKeysCount
<1>11. ASSUME NEW s \in cands
       PROVE  /\ IsFiniteSet(slots[s].keys) /\ key_count(s) <= MaxKeys /\ key_count(s) \in Nat
              /\ count <= key_count(s)
  <2>1. IsFiniteSet(slots[s].keys)
    BY <1>4, ConstantFacts, FS_Subset DEF Inv, TypeOK, Record
  <2>2. count <= key_count(s)
    BY <1>5, <1>10, <2>1, FS_Subset DEF key_count
  <2> QED
    BY <1>4, <2>1, <2>2, KeyCount DEF MatchInv, Inv
<1>12. ~ room => cands = {}
  <2> SUFFICES ASSUME ~ room, NEW s \in cands PROVE FALSE
    OBVIOUS
  <2> DEFINE T == positions_of(keys, 1, count)
             u == between(pressed_keys, 1, pressed_keys_count)
             v == keys_below(pressed_keys, rest)
             p == e.position
  <2>1. /\ u \in Seq(Positions) /\ v \in Seq(Positions) /\ p \in Positions
        /\ arrival = u \o (<<p>> \o v)
    <3>1. keys_in(pressed_keys, top) = <<p>>
      BY <1>1 DEF keys_in, Runs
    <3>2. stack # <<>>
      BY <1>1 DEF Runs
    <3> QED
      BY <1>1, <3>1, <3>2, InProgress DEF Event
  <2>2. Range(u) = T
    BY <1>1, <1>7, BetweenRange
  <2> HIDE DEF u, v, p
  <2>3. p \notin Range(u)
    <3>1. /\ <<p>> \o v \in Seq(Positions) /\ <<p>> \in Seq(Positions) /\ (<<p>> \o v)[1] = p
          /\ 1 \in 1 .. Len(<<p>> \o v)
      <4>1. <<p>> \in Seq(Positions) /\ Len(<<p>>) = 1 /\ <<p>>[1] = p
        BY <2>1
      <4> QED
        BY <2>1, <4>1, TwoParts
    <3>2. \A i \in 1 .. Len(u) : u[i] # p
      BY <1>1, <2>1, <3>1, DistinctParts, ZenonT(60)
    <3> QED
      BY <2>1, <3>2, RangeEquality
  <2>4. T \cup {p} \subseteq slots[s].keys
    BY <1>5, <1>9 DEF p
  <2>5. IsFiniteSet(T \cup {p}) /\ Cardinality(T \cup {p}) = count + 1
    <3> HIDE DEF T
    <3> QED
      BY <1>10, <2>2, <2>3, FS_AddElement DEF T
  <2>6. Cardinality(T \cup {p}) <= key_count(s)
    <3> HIDE DEF T
    <3> QED
      BY <1>11, <2>4, FS_Subset DEF key_count
  <2> QED
    BY <1>1, <1>7, <1>11, <2>5, <2>6
<1> HIDE DEF e
<1>13. fully_pressed_combo # NoSlot => Complete(fully_pressed_combo, keys, count)
  <2> DEFINE s == fully_pressed_combo
             k == key_count(s)
  <2> SUFFICES ASSUME s # NoSlot PROVE Complete(s, keys, count)
    OBVIOUS
  <2>1. Complete(s, pressed_keys, pressed_keys_count)
    BY DEF FireInv
  <2>2. k \in Nat /\ k <= pressed_keys_count
    BY <1>1, <2>1, KeyCount DEF Complete, Inv
  <2> HIDE DEF k
  <2>3. positions_of(keys, 1, k) = positions_of(pressed_keys, 1, k) /\ k <= count
    BY <1>1, <1>2, <2>2 DEF positions_of
  <2> QED
    BY <2>1, <2>3 DEF Complete, k
<1>14. ASSUME full # {}
       PROVE  /\ Min(full) \in Slots /\ key_count(Min(full)) = count /\ room
              /\ Captured(keys, count, caller, Min(full))
  <2> DEFINE s == Min(full)
             T == positions_of(keys, 1, count)
  <2>1. s \in full
    <3>1. full \in SUBSET Nat
      BY <1>4, <1>7, ConstantFacts
    <3> QED
      BY <1>14, <3>1, MinOfNaturals
  <2> HIDE DEF s
  <2>2. /\ s \in cands /\ s \in Slots /\ slot_is_active(s) /\ key_count(s) = count
        /\ T \subseteq slots[s].keys /\ room
    BY <1>4, <1>5, <1>7, <1>12, <2>1
  <2>3. T = slots[s].keys
    <3> HIDE DEF T
    <3> QED
      BY <1>10, <1>11, <2>2, FS_Subset DEF key_count, T
  <2>4. Complete(s, keys, count)
    BY <1>2, <2>2, <2>3 DEF Complete
  <2>5. pressed_keys_count > 0
    BY <1>1, <1>2, <1>7, <2>2 DEF slot_is_active
  <2>6. InPlace(s, pressed_keys[1].timestamp, origin)
    BY <1>7, <1>8, <2>2, <2>5
  <2> QED
    BY <1>3, <1>7, <2>2, <2>4, <2>5, <2>6 DEF Captured, s
<1>15. Captured(keys, count, caller, fully_pressed_combo)
  <2>1. fully_pressed_combo # NoSlot =>
          /\ pressed_keys_count > 0
          /\ InPlace(fully_pressed_combo, pressed_keys[1].timestamp, origin)
    BY <1>1 DEF CandidatesFit, MatchInv
  <2>2. ~ room => fully_pressed_combo # NoSlot /\ key_count(fully_pressed_combo) = count
    BY <1>7 DEF MatchInv
  <2> QED
    BY <1>3, <1>7, <1>13, <2>1, <2>2 DEF Captured
<1>16. CASE cleanup(keys, count, fully_pressed_combo, caller)
  BY <1>1, <1>2, <1>3, <1>15, <1>16 DEF MatchEnds
<1>17. CASE full # {} /\ cleanup(keys, count, Min(full), caller)
  <2> DEFINE s == Min(full)
  <2>1. s \in Slots /\ Captured(keys, count, caller, s) /\ cleanup(keys, count, s, caller)
    BY <1>14, <1>17
  <2> HIDE DEF s
  <2> QED
    BY <1>2, <1>3, <2>1 DEF MatchEnds
<1>18. CASE /\ cands # {}
            /\ pressed_keys' = keys /\ pressed_keys_count' = count /\ stack' = caller
            /\ candidates' = cands /\ origin' = start
            /\ fully_pressed_combo' = IF full = {} THEN fully_pressed_combo ELSE Min(full)
            /\ UNCHANGED <<active_combos, held, arrival>>
  <2> DEFINE f == fully_pressed_combo'
  <2>1. f = IF full = {} THEN fully_pressed_combo ELSE Min(full)
    BY <1>18
  <2> HIDE DEF f
  <2>2. /\ f \in Slots \cup {NoSlot} /\ Captured(keys, count, caller, f)
    BY <1>1, <1>14, <1>15, <2>1
  <2>3. caller = rest
    BY <1>7, <1>12, <1>18
  <2>4. ASSUME count = MaxKeys PROVE f # NoSlot /\ key_count(f) = MaxKeys
    <3>1. PICK s \in cands : TRUE
      BY <1>18
    <3>2. key_count(s) = count
      BY <1>1, <1>2, <1>11, <2>4
    <3>3. full # {}
      BY <1>7, <3>2
    <3> QED
      BY <1>14, <2>1, <2>4, <3>3, ConstantFacts
  <2>5. \A s \in candidates' : /\ s \in Slots /\ slot_is_active(s)
                               /\ InPlace(s, keys[1].timestamp, origin')
                               /\ positions_of(keys, 1, count) \subseteq slots[s].keys
    BY <1>4, <1>5, <1>8, <1>18
  <2>6. MatchGoesOn(keys, count, f)
    BY <1>2, <1>7, <1>18, <2>2, <2>3, <2>4, <2>5 DEF MatchGoesOn, f
  <2> QED
    BY <1>2, <2>2, <2>6
<1> QED
  BY <1>6, <1>16, <1>17, <1>18

\* cleanup() ends the match, and starts a loop with what a combo has left over.
LEMMA CleanupEnds ==
  ASSUME Inv, NEW keys \in Buffer, NEW count \in 0 .. MaxKeys,
         NEW full \in Slots \cup {NoSlot},
         full # NoSlot => Complete(full, keys, count) /\ free_entries # {},
         NEW q \in Seq(Frame), cleanup(keys, count, full, q)
  PROVE  /\ pressed_keys_count' = 0
         /\ \E n \in 0 .. MaxKeys :
              /\ stack' = <<ReleaseLoop(1, n)>> \o q
              /\ n = count - (IF full = NoSlot THEN 0 ELSE key_count(full))
<1>1. CASE full = NoSlot
  BY <1>1, ConstantFacts, SMTT(30) DEF cleanup, release_pressed_keys
<1>2. CASE full # NoSlot
  <2>1. key_count(full) \in Nat /\ key_count(full) <= count /\ count \in Nat
    BY <1>2, KeyCount, ConstantFacts DEF Inv, Complete
  <2>2. combo_length(full, count) = key_count(full)
    BY <1>2, <2>1, ComboLengthIs
  <2>3. release_pressed_keys(count - key_count(full), q)
    BY <1>2, <2>2 DEF cleanup, activate_combo
  <2>4. count - key_count(full) \in 0 .. MaxKeys
    BY <2>1, ConstantFacts
  <2> QED
    BY <1>2, <2>3, <2>4 DEF release_pressed_keys
<1> QED
  BY <1>1, <1>2

\* A match that ends, or goes on.
LEMMA MatchOver ==
  ASSUME MatchInv, UNCHANGED slots, pressed_keys_count' = 0
  PROVE  MatchInv'
BY ConstantFacts DEF MatchInv, key_count

LEMMA MatchOn ==
  ASSUME MatchInv, UNCHANGED slots,
         pressed_keys_count' = MaxKeys =>
           fully_pressed_combo' # NoSlot /\ key_count(fully_pressed_combo') = MaxKeys,
         pressed_keys_count' > 0 =>
           \A s \in Slots : s \in candidates' \/ s = fully_pressed_combo' =>
             InPlace(s, pressed_keys[1]'.timestamp, origin')
  PROVE  MatchInv'
BY DEF MatchInv, key_count, InPlace, slot_active_on_layer

\* A call is over, or goes over to another.
LEMMA BubblesAfter ==
  ASSUME Inv, NoBubble(stack), stack # <<>>,
         stack' = rest \/ \E f \in Frame : f.op # "bubble" /\ stack' = <<f>> \o rest
  PROVE  BubblesLast'
<1>1. rest \in Seq(Frame) /\ NoBubble(rest)
  BY StackPops, NoBubbleRest DEF rest, Inv, TypeOK
<1>2. NoBubble(stack')
  BY <1>1, NoBubblePush
<1> QED
  BY <1>2 DEF BubblesLast

\* A step that leaves the match and the table alone.
LEMMA SameMatch ==
  ASSUME CandidatesFit, FireInv, MatchInv,
         UNCHANGED <<matching, active_combos, held, slots>>
  PROVE  CandidatesFit' /\ FireInv' /\ KeepsBalance /\ MatchInv'
<1>1. CandidatesFit'
  BY DEF CandidatesFit, captured_positions, positions_of, matching
<1>2. MatchInv'
  BY MatchOn DEF matching, MatchInv
<1> QED
  BY <1>1, <1>2, SameFires

\* What a step that keeps the table leaves of the match, the pool and the calls.
MatchKept == CandidatesFit' /\ FireInv' /\ KeepsBalance /\ MatchInv' /\ BubblesLast'

\* The end of a match, below which no key waits for room.
LEMMA CleanupIsLast ==
  ASSUME Inv, PressInv, FireInv, MatchInv, NEW keys \in Buffer, NEW count \in 0 .. MaxKeys,
         NEW full \in Slots \cup {NoSlot},
         full # NoSlot => Complete(full, keys, count) /\ free_entries # {},
         NEW q \in Seq(Frame), presses(keys, count, q) = arrival, NoBubble(q),
         cleanup(keys, count, full, q), UNCHANGED slots
  PROVE  MatchKept /\ \E n \in 0 .. MaxKeys : stack' = <<ReleaseLoop(1, n)>> \o q
<1>1. pressed_keys_count' = 0 /\ \E n \in 0 .. MaxKeys : stack' = <<ReleaseLoop(1, n)>> \o q
  BY CleanupEnds
<1>2. PICK n \in 0 .. MaxKeys : stack' = <<ReleaseLoop(1, n)>> \o q
  BY <1>1
<1>3. ReleaseLoop(1, n) \in Frame /\ ReleaseLoop(1, n).op = "release"
  <2>1. 1 \in 1 .. MaxKeys + 1
    BY ConstantFacts
  <2> QED
    BY <2>1, ReleaseFrames DEF ReleaseLoop
<1>4. BubblesLast'
  <2>1. NoBubble(stack')
    BY <1>2, <1>3, NoBubblePush
  <2> QED
    BY <2>1 DEF BubblesLast
<1>5. MatchInv'
  BY <1>1, MatchOver
<1>6. CandidatesFit'
  BY DEF cleanup, CandidatesFit
<1>7. FireInv' /\ KeepsBalance
  BY CleanupFires
<1> QED
  BY <1>1, <1>4, <1>5, <1>6, <1>7 DEF MatchKept

LEMMA LoopOnPlain ==
  ASSUME NEW q \in Seq(PlainFrame), \E n \in 0 .. MaxKeys : stack' = <<ReleaseLoop(1, n)>> \o q
  PROVE  PlainCalls'
<1>1. PICK n \in 0 .. MaxKeys : stack' = <<ReleaseLoop(1, n)>> \o q
  OBVIOUS
<1>2. ReleaseLoop(1, n) \in PlainFrame
  BY LoopIsPlain, ConstantFacts
<1> QED
  BY <1>1, <1>2, PlainPush DEF PlainCalls

LEMMA CaptureKeeps ==
  ASSUME Inv, LoopsNest, PressInv, PlainCalls, CandidatesFit, FireInv, MatchInv, BubblesLast,
         Room, DownCaptured
  PROVE  PlainCalls' /\ MatchKept
<1>1. /\ UNCHANGED <<slots, host, last_tapped_timestamp>> /\ Runs("down") /\ stack # <<>>
      /\ top.op = "down" /\ top \in Frame /\ rest \in Seq(Frame) /\ top.event \in Event
      /\ rest \in Seq(PlainFrame)
  BY RunningCall, FrameFields, PlainRest DEF DownCaptured, table, Runs
<1>2. NoBubble(stack) /\ NoBubble(rest)
  <2>1. NoBubble(stack)
    BY <1>1 DEF BubblesLast, Runs
  <2> QED
    BY <1>1, <2>1, NoBubbleRest DEF rest, Inv, TypeOK
<1>3. PICK keys \in Buffer, count \in 0 .. MaxKeys, full \in Slots \cup {NoSlot} :
        \/ \E caller \in Seq(Frame) : MatchEnds(keys, count, caller, full)
        \/ MatchGoesOn(keys, count, full)
  BY CaptureOutcome
<1>4. full # NoSlot => Complete(full, keys, count) /\ free_entries # {}
  <2>1. full # NoSlot => Complete(full, keys, count) /\ pressed_keys_count > 0
    BY <1>3 DEF MatchEnds, MatchGoesOn, Captured
  <2> QED
    BY <1>1, <2>1, HaveRoom
<1>5. ASSUME NEW caller \in Seq(Frame), MatchEnds(keys, count, caller, full)
      PROVE  PlainCalls' /\ MatchKept
  <2>1. /\ cleanup(keys, count, full, caller) /\ presses(keys, count, caller) = arrival
        /\ \/ caller = rest
           \/ caller = <<Bubble(top.event)>> \o rest /\ full # NoSlot /\ key_count(full) = count
    BY <1>5 DEF MatchEnds, Captured
  <2>2. caller \in Seq(PlainFrame)
    BY <1>1, <2>1, EventsArePlain, PlainPush
  <2>3. /\ pressed_keys_count' = 0
        /\ \E n \in 0 .. MaxKeys :
             /\ stack' = <<ReleaseLoop(1, n)>> \o caller
             /\ n = count - (IF full = NoSlot THEN 0 ELSE key_count(full))
    BY <1>4, <2>1, CleanupEnds
  <2>4. PlainCalls'
    BY <2>2, <2>3, LoopOnPlain
  <2>5. CASE caller = rest
    BY <1>1, <1>2, <1>4, <2>1, <2>4, <2>5, CleanupIsLast
  <2>6. CASE /\ caller = <<Bubble(top.event)>> \o rest
             /\ full # NoSlot /\ key_count(full) = count
    <3> DEFINE f == ReleaseLoop(1, 0)
    <3>1. stack' = <<f>> \o caller
      BY <2>3, <2>6, ConstantFacts
    <3>2. f \in Frame /\ f.op = "release" /\ f.count = 0
      <4>1. 1 \in 1 .. MaxKeys + 1 /\ 0 \in 0 .. MaxKeys
        BY ConstantFacts
      <4> QED
        BY <4>1, ReleaseFrames DEF ReleaseLoop
    <3> HIDE DEF f
    <3>3. stack' # <<>> /\ Head(stack') = f /\ Tail(stack') = caller
      BY <3>1, <3>2, PushedCalls
    <3>4. Bubble(top.event) \in Frame /\ Bubble(top.event).op = "bubble"
      BY <1>1, EventFrames DEF Bubble
    <3>5. caller # <<>> /\ Head(caller).op = "bubble" /\ Tail(caller) = rest
      BY <1>1, <2>6, <3>4, PushedCalls
    <3>6. BubblesLast'
      BY <1>2, <2>3, <3>2, <3>3, <3>5 DEF BubblesLast, Runs, top, rest
    <3>7. MatchInv'
      BY <1>1, <2>3, MatchOver
    <3>8. CandidatesFit'
      BY <2>1 DEF cleanup, CandidatesFit
    <3>9. FireInv' /\ KeepsBalance
      BY <1>1, <1>4, <2>1, CleanupFires
    <3> QED
      BY <2>4, <3>6, <3>7, <3>8, <3>9 DEF MatchKept
  <2> QED
    BY <2>1, <2>5, <2>6
<1>6. CASE MatchGoesOn(keys, count, full)
  <2>1. /\ pressed_keys' = keys /\ pressed_keys_count' = count /\ fully_pressed_combo' = full
        /\ stack' = rest /\ count > 0 /\ UNCHANGED <<active_combos, held>>
        /\ \A s \in candidates' : /\ s \in Slots /\ slot_is_active(s)
                                  /\ InPlace(s, keys[1].timestamp, origin')
                                  /\ positions_of(keys, 1, count) \subseteq slots[s].keys
    BY <1>6 DEF MatchGoesOn
  <2>2. count = MaxKeys => full # NoSlot /\ key_count(full) = MaxKeys
    BY <1>6 DEF MatchGoesOn
  <2>3. \A s \in Slots : s \in candidates' \/ s = full => InPlace(s, keys[1].timestamp, origin')
    BY <1>6, ConstantFacts DEF MatchGoesOn, Captured
  <2>4. MatchInv'
    BY <1>1, <2>1, <2>2, <2>3, MatchOn
  <2>5. PlainCalls' /\ BubblesLast'
    BY <1>1, <1>2, <2>1 DEF PlainCalls, BubblesLast
  <2>6. CandidatesFit'
    BY <1>1, <2>1 DEF CandidatesFit, captured_positions
  <2>7. OwnKeys(active_combos') /\ KeepsBalance
    BY <1>1, <2>1 DEF FireInv, OwnKeys, KeepsBalance, balance, pressing_in, pressing, key_count
  <2>8. FireInv'
    BY <1>1, <1>4, <2>1, <2>7, FiresAfter
  <2> QED
    BY <2>4, <2>5, <2>6, <2>7, <2>8 DEF MatchKept
<1> QED
  BY <1>3, <1>5, <1>6

LEMMA PlainKeeps ==
  ASSUME Inv, LoopsNest, PressInv, PlainCalls, CandidatesFit, FireInv, MatchInv, BubblesLast,
         Room, Handler
  PROVE  PlainCalls' /\ MatchKept
<1>1. /\ PlainHandler /\ stack # <<>> /\ top \in PlainFrame /\ top \in Frame
      /\ rest \in Seq(PlainFrame) /\ rest \in Seq(Frame) /\ stack \in Seq(Frame)
  BY PlainHandlers, StackPops DEF Inv, TypeOK
<1>2. NoBubble(stack) => NoBubble(rest) /\ top.op # "bubble"
  BY <1>1, NoBubbleRest DEF rest, top
<1>3. CASE DownIgnored \/ BubbleDown \/ ReleaseFirstKey
  <2>1. pressed_keys_count = 0 /\ (NoBubble(stack) \/ (BubbleDown /\ NoBubble(rest)))
    <3>1. CASE DownIgnored
      BY <3>1 DEF DownIgnored, BubblesLast, Runs
    <3>2. CASE BubbleDown
      BY <1>2, <3>2 DEF BubbleDown, BubblesLast, Runs
    <3>3. CASE ReleaseFirstKey
      BY <1>1, <3>3, StateTypes DEF ReleaseFirstKey, LoopsNest, in_hand, is_loop, BubblesLast, Runs
    <3> QED
      BY <1>3, <3>1, <3>2, <3>3
  <2>2. UNCHANGED <<matching, active_combos, held, slots>>
    BY <1>3 DEF DownIgnored, BubbleDown, ReleaseFirstKey, pool, table
  <2>3. CandidatesFit'
    BY <2>2 DEF CandidatesFit, captured_positions, positions_of, matching
  <2>4. MatchInv' /\ FireInv' /\ KeepsBalance
    <3>1. pressed_keys_count' = 0 /\ UNCHANGED slots
      BY <2>1, <2>2 DEF matching
    <3> QED
      BY <2>2, <3>1, MatchOver, SameFires
  <2>5. PlainCalls' /\ BubblesLast'
    <3>1. CASE DownIgnored
      <4>1. stack' = rest /\ NoBubble(stack)
        BY <2>1, <3>1 DEF DownIgnored, BubbleDown, Runs
      <4> QED
        BY <1>1, <4>1, BubblesAfter DEF PlainCalls
    <3>2. CASE BubbleDown
      <4>1. stack' = rest /\ NoBubble(rest)
        BY <1>2, <2>1, <3>2 DEF BubbleDown
      <4> QED
        BY <1>1, <4>1 DEF PlainCalls, BubblesLast
    <3>3. CASE ReleaseFirstKey
      <4> DEFINE f == ReleaseLoop(2, top.count)
      <4>1. top.op = "release" /\ stack' = <<f>> \o rest /\ NoBubble(stack)
        BY <2>1, <3>3 DEF ReleaseFirstKey, BubbleDown, Runs
      <4>2. 2 \in 1 .. MaxKeys + 1 /\ top.count \in 0 .. MaxKeys
        BY <1>1, <4>1, FrameFields, ConstantFacts
      <4>3. f \in PlainFrame /\ f \in Frame /\ f.op # "bubble"
        BY <4>2, LoopIsPlain DEF PlainFrame, ReleaseLoop
      <4> HIDE DEF f
      <4>4. <<f>> \o rest \in Seq(PlainFrame)
        BY <1>1, <4>3, PlainPush
      <4> QED
        BY <1>1, <4>1, <4>3, <4>4, BubblesAfter DEF PlainCalls
    <3> QED
      BY <1>3, <3>1, <3>2, <3>3
  <2> QED
    BY <2>3, <2>4, <2>5 DEF MatchKept
<1>4. CASE ReraiseKey
  <2> DEFINE d == Down(pressed_keys[top.next])
             f == ReleaseLoop(top.next + 1, top.count)
             q == <<f>> \o rest
  <2>1. top.op = "release" /\ top.next \in 2 .. top.count
    BY <1>4 DEF ReraiseKey, Runs
  <2>2. NoBubble(stack)
    BY <1>1, <2>1, FrameFields DEF BubblesLast, Runs
  <2>3. f \in PlainFrame /\ f.op = "release" /\ d \in PlainFrame /\ d.op = "down"
        /\ f \in Frame /\ d \in Frame
    <3>1. top.count \in 0 .. MaxKeys /\ top.next + 1 \in 1 .. MaxKeys + 1
          /\ top.next \in 1 .. MaxKeys
      BY <1>1, <2>1, FrameFields, ConstantFacts
    <3>2. pressed_keys[top.next] \in Event
      BY <3>1, StateTypes DEF Buffer
    <3> QED
      BY <3>1, <3>2, LoopIsPlain, EventsArePlain DEF ReleaseLoop, Down, PlainFrame
  <2>4. /\ stack' = <<d, f>> \o rest
        /\ UNCHANGED <<matching, active_combos, held, slots, host, last_tapped_timestamp>>
    BY <1>4 DEF ReraiseKey, table, taps, pool
  <2> HIDE DEF d, f
  <2>5. q \in Seq(Frame) /\ NoBubble(q) /\ q \in Seq(PlainFrame)
    BY <1>1, <1>2, <2>2, <2>3, PushedCalls, NoBubblePush, PlainPush
  <2>6. stack' = <<d>> \o q
    BY <1>1, <2>3, <2>4, TwoCalls
  <2> HIDE DEF q
  <2>7. NoBubble(stack') /\ stack' \in Seq(PlainFrame)
    BY <2>3, <2>5, <2>6, NoBubblePush, PlainPush
  <2> QED
    BY <2>4, <2>7, SameMatch DEF BubblesLast, MatchKept, PlainCalls
<1>5. CASE ReleaseDone \/ UpHandled \/ UpReraised \/ UpBubbles \/ TimeoutReturns
  <2>1. /\ top.op \in {"release", "up_cleaned", "timed_out"}
        /\ UNCHANGED <<matching, slots, last_tapped_timestamp>>
        /\ \/ stack' = rest
           \/ stack' = <<Up(top.event)>> \o rest /\ top.op = "up_cleaned"
        /\ UNCHANGED host \/ pressed_keys_count = 0
        /\ UNCHANGED <<active_combos, held>> \/ UpHandled
        /\ top.op # "release" \/ stack' = rest
    <3>1. CASE ReleaseDone
      BY <3>1 DEF ReleaseDone, Runs, table, taps, pool
    <3>2. CASE UpHandled
      BY <3>2 DEF UpHandled, Runs, table, taps
    <3>3. CASE UpReraised
      BY <3>3 DEF UpReraised, Runs, table, taps, pool
    <3>4. CASE UpBubbles
      BY <3>4 DEF UpBubbles, Runs, table, taps, PressInv, pool
    <3>5. CASE TimeoutReturns
      BY <3>5 DEF TimeoutReturns, Runs, table, taps, pool
    <3> QED
      BY <1>5, <3>1, <3>2, <3>3, <3>4, <3>5
  <2>2. top.op = "up_cleaned" => /\ Up(top.event) \in PlainFrame /\ Up(top.event) \in Frame
                                 /\ Up(top.event).op = "up"
    BY <1>1, FrameFields, EventsArePlain DEF Up, PlainFrame
  <2>3. PlainCalls'
    BY <1>1, <2>1, <2>2, PlainPush DEF PlainCalls
  <2>4. BubblesLast'
    <3>1. CASE NoBubble(stack)
      BY <1>1, <2>1, <2>2, <3>1, BubblesAfter
    <3>2. CASE ~ NoBubble(stack)
      <4>1. /\ pressed_keys_count = 0 /\ rest # <<>> /\ Head(rest).op = "bubble"
            /\ NoBubble(Tail(rest)) /\ top.op = "release"
        BY <2>1, <3>2 DEF BubblesLast, Runs
      <4>2. stack' = rest /\ pressed_keys_count' = 0
        BY <2>1, <4>1 DEF matching
      <4> QED
        BY <4>1, <4>2 DEF BubblesLast, Runs, top, rest
    <3> QED
      BY <3>1, <3>2
  <2>5. CandidatesFit'
    BY <2>1 DEF CandidatesFit, captured_positions, positions_of, matching
  <2>6. MatchInv'
    BY <2>1, MatchOn DEF matching, MatchInv
  <2>7. FireInv' /\ KeepsBalance
    BY <2>1, SameFires, UpHandledFires
  <2> QED
    BY <2>3, <2>4, <2>5, <2>6, <2>7 DEF MatchKept
<1>6. CASE UpCleanup
  <2> DEFINE q == <<UpCleaned(top.event)>> \o rest
             f == UpCleaned(top.event)
  <2>1. /\ top.op = "up" /\ UNCHANGED slots
        /\ cleanup(pressed_keys, pressed_keys_count, fully_pressed_combo, q)
    BY <1>6 DEF UpCleanup, Runs, table
  <2>2. NoBubble(stack)
    BY <2>1 DEF BubblesLast, Runs
  <2>3. f \in Frame /\ f \in PlainFrame /\ f.op = "up_cleaned" /\ f.op \in RootOps
        /\ top.op \in RootOps /\ f.event = top.event
    BY <1>1, <2>1, FrameFields, EventsArePlain DEF UpCleaned, PlainFrame, RootOps
  <2>4. q \in Seq(PlainFrame)
    BY <1>1, <2>3, PlainPush
  <2>5. presses(pressed_keys, pressed_keys_count, q) = arrival /\ q \in Seq(Frame)
    <3> HIDE DEF f
    <3>1. presses(pressed_keys, pressed_keys_count, <<f>>) = arrival
          /\ <<f>> \in Seq(Frame) /\ <<f>> \o rest = <<f>>
      BY <1>1, <2>1, <2>3, BottomGoesOn
    <3> QED
      BY <3>1 DEF f
  <2>6. NoBubble(q)
    <3> HIDE DEF f
    <3>1. NoBubble(<<f>> \o rest)
      BY <1>1, <1>2, <2>2, <2>3, NoBubblePush
    <3> QED
      BY <3>1 DEF f
  <2>7. /\ fully_pressed_combo \in Slots \cup {NoSlot}
        /\ fully_pressed_combo # NoSlot =>
             /\ Complete(fully_pressed_combo, pressed_keys, pressed_keys_count)
             /\ free_entries # {}
    BY HaveRoom DEF Inv, TypeOK, FireInv
  <2> HIDE DEF q
  <2>8. MatchKept /\ \E n \in 0 .. MaxKeys : stack' = <<ReleaseLoop(1, n)>> \o q
    BY <2>1, <2>5, <2>6, <2>7, StateTypes, CleanupIsLast
  <2> QED
    BY <2>4, <2>8, LoopOnPlain
<1> QED
  BY <1>1, <1>3, <1>4, <1>5, <1>6, CaptureKeeps DEF PlainHandler

\* Steps between handlers.
LEMMA OthersKeepMatch ==
  ASSUME Inv, LoopsNest, PressInv, PlainCalls, CandidatesFit, FireInv, MatchInv, BubblesLast,
         Room, Timeout \/ Tick \/ Keys \/ Others
  PROVE  PlainCalls' /\ MatchKept
<1>1. CASE TimeoutExpires
  <2>1. stack = <<>> /\ UNCHANGED slots
    BY <1>1 DEF TimeoutExpires, Idle, table
  <2>2. CASE cleanup(pressed_keys, pressed_keys_count, fully_pressed_combo, <<TimedOut>>)
    <3> DEFINE q == <<TimedOut>>
    <3>1. TimedOut \in Frame /\ TimedOut.op = "timed_out" /\ TimedOut.op \in RootOps
          /\ TimedOut \in PlainFrame
      BY ReleaseFrames, ConstantFacts DEF TimedOut, RootOps, PlainFrame
    <3>2. q \in Seq(Frame) /\ q \in Seq(PlainFrame) /\ NoBubble(q)
      BY <3>1 DEF NoBubble
    <3>3. presses(pressed_keys, pressed_keys_count, q) = arrival
      BY <2>1, <3>1, IdleGoesOn
    <3>4. /\ fully_pressed_combo \in Slots \cup {NoSlot}
          /\ fully_pressed_combo # NoSlot =>
               /\ Complete(fully_pressed_combo, pressed_keys, pressed_keys_count)
               /\ free_entries # {}
      BY HaveRoom DEF Inv, TypeOK, FireInv
    <3>5. cleanup(pressed_keys, pressed_keys_count, fully_pressed_combo, q)
      BY <2>2
    <3> HIDE DEF q
    <3>6. MatchKept /\ \E n \in 0 .. MaxKeys : stack' = <<ReleaseLoop(1, n)>> \o q
      BY <2>1, <3>2, <3>3, <3>4, <3>5, StateTypes, CleanupIsLast
    <3> QED
      BY <3>2, <3>6, LoopOnPlain
  <2>3. CASE /\ candidates' = filter_timed_out_candidates(candidates, timeout_task_timeout_at)
             /\ UNCHANGED <<pressed_keys, pressed_keys_count, fully_pressed_combo, origin, stack,
                            pool, held>>
             /\ candidates' # {}
    <3>1. candidates' \subseteq candidates
      BY <2>3 DEF filter_timed_out_candidates
    <3>2. MatchInv'
      BY <2>1, <2>3, <3>1, MatchOn DEF MatchInv
    <3>3. CandidatesFit'
      BY <2>1, <2>3, <3>1 DEF CandidatesFit, captured_positions, positions_of
    <3>4. OwnKeys(active_combos') /\ KeepsBalance
      BY <2>1, <2>3 DEF FireInv, OwnKeys, KeepsBalance, balance, pressing_in, pressing, key_count, pool
    <3>5. FireInv'
      BY <2>1, <2>3, <3>1, <3>4, FiresAfter DEF FireInv
    <3>6. PlainCalls' /\ BubblesLast'
      BY <2>1, <2>3 DEF PlainCalls, BubblesLast, NoBubble
    <3> QED
      BY <3>2, <3>3, <3>4, <3>5, <3>6 DEF MatchKept
  <2> QED
    BY <1>1, <2>2, <2>3 DEF TimeoutExpires
<1>2. CASE \/ Tick \/ TimeoutTooEarly \/ Others
           \/ \E p \in Positions : Press(p) \/ Release(p)
  <2>1. UNCHANGED <<matching, active_combos, held, slots>>
    BY <1>2, OthersTouchNothing DEF Tick, TimeoutTooEarly, Press, Release, table, pool
  <2>2. stack = <<>> /\ (UNCHANGED stack \/ \E f \in PlainFrame : stack' = <<f>> /\ f.op # "bubble")
    <3>1. CASE Tick \/ TimeoutTooEarly \/ Others
      BY <3>1, OthersTouchNothing DEF Tick, TimeoutTooEarly, Idle
    <3>2. ASSUME NEW p \in Positions, Press(p) \/ Release(p)
          PROVE  stack = <<>> /\ \E f \in PlainFrame : stack' = <<f>> /\ f.op # "bubble"
      <4>1. now' \in Nat /\ now \in Nat
        BY <3>2, ConstantsAssumption DEF Press, Release, Inv, TypeOK
      <4>2. /\ [position |-> p, timestamp |-> now'] \in Event
            /\ [position |-> p, timestamp |-> now] \in Event
        BY <4>1 DEF Event
      <4>3. /\ Down([position |-> p, timestamp |-> now']) \in PlainFrame
            /\ Up([position |-> p, timestamp |-> now]) \in PlainFrame
        BY <4>2, EventsArePlain
      <4> QED
        BY <3>2, <4>3 DEF Press, Release, Idle, Down, Up
    <3> QED
      BY <1>2, <3>1, <3>2
  <2>3. PlainCalls' /\ NoBubble(stack')
    <3>1. CASE UNCHANGED stack
      BY <2>2, <3>1 DEF PlainCalls, NoBubble
    <3>2. ASSUME NEW f \in PlainFrame, stack' = <<f>>, f.op # "bubble"
          PROVE  PlainCalls' /\ NoBubble(stack')
      BY <3>2 DEF PlainCalls, NoBubble
    <3> QED
      BY <2>2, <3>1, <3>2
  <2> QED
    BY <2>1, <2>3, SameMatch DEF MatchKept, BubblesLast
<1> QED
  BY <1>1, <1>2 DEF Timeout, Keys

-----------------------------------------------------------------------------
(* Edits                                                                   *)

LEMMA EditingCalls ==
  ASSUME Editing
  PROVE  /\ stack # <<>> /\ NoBubble(stack) /\ pressed_keys_count <= 1
         /\ ~ Runs("down")
<1>1. EditFrame \subseteq Frame /\ \A f \in EditFrame : f.op \notin {"bubble", "down", "release"}
  BY DEF EditFrame
<1>2. ASSUME pressed_keys_count = 0, NEW f \in EditFrame, stack = <<f>>
      PROVE  stack # <<>> /\ NoBubble(stack) /\ ~ Runs("down")
  BY <1>1, <1>2 DEF NoBubble, Runs, top
<1>3. ASSUME NEW f \in EditFrame, NEW k \in 1 .. MaxKeys + 1, NEW n \in 0 .. 1,
             stack = <<ReleaseLoop(k, n)>> \o <<f>>
      PROVE  stack # <<>> /\ NoBubble(stack) /\ ~ Runs("down")
  <2> DEFINE l == ReleaseLoop(k, n)
             q == <<f>>
  <2>1. l \in Frame /\ l.op = "release" /\ q \in Seq(Frame) /\ NoBubble(q)
    <3>1. n \in 0 .. MaxKeys
      BY ConstantFacts
    <3>2. f \in Frame /\ f.op # "bubble"
      BY <1>1
    <3> QED
      BY <3>1, <3>2, ReleaseFrames DEF ReleaseLoop, NoBubble
  <2> HIDE DEF l, q
  <2>2. stack = <<l>> \o q
    BY <1>3 DEF l, q
  <2> QED
    BY <2>1, <2>2, NoBubblePush, PushedCalls DEF Runs, top
<1>4. ASSUME NEW s, stack = <<ClearFrom(s)>>
      PROVE  stack # <<>> /\ NoBubble(stack) /\ ~ Runs("down")
  BY <1>4 DEF ClearFrom, NoBubble, Runs, top
<1>5. pressed_keys_count <= 1
  BY DEF Editing
<1>6. CASE pressed_keys_count = 0 /\ \E f \in EditFrame : stack = <<f>>
  BY <1>2, <1>5, <1>6
<1>7. CASE /\ pressed_keys_count = 0
           /\ \E f \in EditFrame, k \in 1 .. MaxKeys + 1, n \in 0 .. 1 :
                stack = <<ReleaseLoop(k, n)>> \o <<f>>
  BY <1>3, <1>5, <1>7
<1>8. CASE \E s \in 1 .. NumSlots + 1 : stack = <<ClearFrom(s)>>
  BY <1>4, <1>5, <1>8
<1> QED
  BY <1>6, <1>7, <1>8 DEF Editing

LEMMA EditingHasNoBubble == Editing => NoBubble(stack)
BY EditingCalls

LEMMA EditingStaysFree == Editing' => NoBubble(stack')
<1>1. NoBubble(stack)' <=> NoBubble(stack')
  BY DEF NoBubble
<1>2. Editing' => NoBubble(stack)'
  BY EditingHasNoBubble, PTL
<1> QED
  BY <1>1, <1>2

\* The match in flight is aborted, and goes on with the edit.
LEMMA QuiesceStarts ==
  ASSUME Inv, PressInv, CandidatesFit, FireInv, MatchInv, NEW f \in EditFrame,
         pressed_keys_count <= 1, edits < MaxEdits, quiesce_match(<<f>>),
         UNCHANGED <<table, host>>,
         presses(pressed_keys, pressed_keys_count, <<f>>) = arrival
  PROVE  Editing' /\ MatchKept
<1> DEFINE q == <<f>>
<1>1. f \in Frame /\ q \in Seq(Frame) /\ NoBubble(q)
  BY DEF EditFrame, NoBubble
<1>2. UNCHANGED <<slots, edits>>
  BY DEF table
<1>3. \/ cleanup(pressed_keys, pressed_keys_count, NoSlot, q)
      \/ /\ pressed_keys_count = 0 /\ stack' = q
         /\ UNCHANGED <<matching, active_combos, held, last_tapped_timestamp>>
  BY DEF quiesce_match, pool, taps
<1>4. presses(pressed_keys, pressed_keys_count, q) = arrival
  OBVIOUS
<1> HIDE DEF q
<1>5. CASE cleanup(pressed_keys, pressed_keys_count, NoSlot, q)
  <2>1. MatchKept
    BY <1>1, <1>2, <1>4, <1>5, StateTypes, CleanupIsLast
  <2>2. /\ pressed_keys_count' = 0
        /\ \E n \in 0 .. MaxKeys :
             /\ stack' = <<ReleaseLoop(1, n)>> \o q
             /\ n = pressed_keys_count - (IF NoSlot = NoSlot THEN 0 ELSE key_count(NoSlot))
    BY <1>1, <1>5, StateTypes, CleanupEnds
  <2>3. /\ stack' = <<ReleaseLoop(1, pressed_keys_count)>> \o q
        /\ pressed_keys_count \in 0 .. 1 /\ 1 \in 1 .. MaxKeys + 1
    BY <2>2, StateTypes, ConstantFacts
  <2>4. Editing'
    <3>1. stack' = <<ReleaseLoop(1, pressed_keys_count)>> \o <<f>>
      BY <2>3 DEF q
    <3>2. edits' < MaxEdits /\ pressed_keys_count' = 0
      BY <1>2, <2>2
    <3>3. \E g \in EditFrame, k \in 1 .. MaxKeys + 1, n \in 0 .. 1 :
            stack' = <<ReleaseLoop(k, n)>> \o <<g>>
      BY <2>3, <3>1
    <3> QED
      BY <3>2, <3>3 DEF Editing
  <2> QED
    BY <2>1, <2>4
<1>6. CASE /\ pressed_keys_count = 0 /\ stack' = q
           /\ UNCHANGED <<matching, active_combos, held, last_tapped_timestamp>>
  <2>1. CandidatesFit' /\ FireInv' /\ KeepsBalance /\ MatchInv'
    BY <1>2, <1>6, SameMatch
  <2>2. BubblesLast'
    BY <1>1, <1>6 DEF BubblesLast
  <2>3. Editing'
    BY <1>2, <1>6 DEF Editing, matching, q
  <2> QED
    BY <2>1, <2>2, <2>3 DEF MatchKept
<1> QED
  BY <1>3, <1>5, <1>6

LEMMA EditStarts ==
  ASSUME Inv, PressInv, CandidatesFit, FireInv, MatchInv, Edits, pressed_keys_count <= 1
  PROVE  Editing' /\ MatchKept
<1>1. stack = <<>> /\ edits < MaxEdits /\ UNCHANGED <<table, host>>
  BY DEF Edits, StartSet, StartDelete, StartClearAll, Idle
<1>2. ASSUME NEW s \in Slots, NEW rec \in NewRecords, StartSet(s, rec)
      PROVE  Editing' /\ MatchKept
  <2> DEFINE f == SetSlot(s, rec)
  <2>1. rec \in Record /\ Cardinality(rec.keys) <= MaxKeys
    BY <1>2, TablesAssumption DEF StartSet, validate_record
  <2>2. f \in Frame /\ f.op = "set" /\ f \in EditFrame /\ f.op \in RootOps
    BY <2>1, EditFrames DEF SetSlot, EditFrame, RootOps
  <2>3. quiesce_match(<<f>>)
    BY <1>2 DEF StartSet
  <2> HIDE DEF f
  <2>4. presses(pressed_keys, pressed_keys_count, <<f>>) = arrival
    BY <1>1, <2>2, IdleGoesOn
  <2> QED
    BY <1>1, <2>2, <2>3, <2>4, QuiesceStarts
<1>3. ASSUME NEW s \in Slots, StartDelete(s)
      PROVE  Editing' /\ MatchKept
  <2> DEFINE f == DeleteSlot(s)
  <2>1. f \in Frame /\ f.op = "delete" /\ f \in EditFrame /\ f.op \in RootOps
    <3>1. EmptyRecord \in Record
      BY EmptyRecordType
    <3> QED
      BY <3>1, EditFrames DEF DeleteSlot, EditFrame, RootOps
  <2>2. quiesce_match(<<f>>)
    BY <1>3 DEF StartDelete
  <2> HIDE DEF f
  <2>3. presses(pressed_keys, pressed_keys_count, <<f>>) = arrival
    BY <1>1, <2>1, IdleGoesOn
  <2> QED
    BY <1>1, <2>1, <2>2, <2>3, QuiesceStarts
<1>4. CASE StartClearAll
  <2>1. /\ stack' = <<ClearFrom(1)>>
        /\ UNCHANGED <<matching, active_combos, held, slots, host, last_tapped_timestamp, edits>>
    BY <1>4 DEF StartClearAll, table, pool, taps
  <2>2. 1 \in 1 .. NumSlots + 1
    BY ConstantFacts
  <2>3. Editing'
    BY <1>1, <2>1, <2>2 DEF Editing, matching
  <2>4. BubblesLast'
    BY <2>1 DEF BubblesLast, NoBubble, ClearFrom
  <2> QED
    BY <2>1, <2>3, <2>4, SameMatch DEF MatchKept
<1> QED
  BY <1>2, <1>3, <1>4 DEF Edits

\* A slot no entry of the pool names is not held.
LEMMA NotHeld ==
  ASSUME Inv, FireInv, NEW s \in Slots, ~ slot_is_active(s), UNCHANGED <<pool, held>>
  PROVE  quiesce_held(s)
<1>1. active_combo_count \in 0 .. MaxPressed /\ s # NoSlot
  BY ConstantFacts DEF Inv, TypeOK
<1>2. \A i \in 1 .. active_combo_count : active_combos[i].slot # s
  BY <1>1, ConstantFacts DEF FireInv, OwnKeys
<1> QED
  BY <1>2 DEF quiesce_held

\* What is left to do of an edit.
EditLeft == Editing \/ (stack = <<>> /\ edits > 0)

\* The table is written, and the handler goes on or returns.
LEMMA EditWrites ==
  ASSUME Inv, FireInv, MatchInv, CandidatesFit, NEW s \in Slots, quiesce_held(s),
         NEW rec \in Record, Cardinality(rec.keys) <= MaxKeys,
         slots' = [slots EXCEPT ![s] = rec], UNCHANGED <<matching, host, last_tapped_timestamp>>,
         pressed_keys_count = 0 \/ ~ slot_is_active(s),
         EditLeft'
  PROVE  EditLeft' /\ CandidatesFit' /\ FireInv' /\ MatchInv' /\ BubblesLast'
<1>1. s \notin candidates /\ fully_pressed_combo # s
  BY ConstantFacts DEF CandidatesFit, FireInv, Complete
<1>2. FireInv' /\ MatchInv'
  BY <1>1, SlotIsWritten
<1>3. CandidatesFit'
  <2>1. slots \in [Slots -> Record] /\ candidates \subseteq Slots
    BY DEF Inv, TypeOK
  <2>2. \A t \in candidates : slots'[t] = slots[t]
    BY <1>1, <2>1
  <2> QED
    BY <2>2 DEF CandidatesFit, captured_positions, positions_of, matching
<1>4. BubblesLast'
  <2>1. CASE Editing'
    <3>1. NoBubble(stack')
      BY <2>1, EditingStaysFree
    <3> QED
      BY <3>1 DEF BubblesLast
  <2>2. CASE stack' = <<>>
    BY <2>2 DEF BubblesLast, NoBubble
  <2> QED
    BY <2>1, <2>2 DEF EditLeft
<1> QED
  BY <1>2, <1>3, <1>4

LEMMA EditGoesOn ==
  ASSUME Inv, PressInv, CandidatesFit, FireInv, MatchInv, Editing, Handler
  PROVE  EditLeft' /\ CandidatesFit' /\ FireInv' /\ MatchInv' /\ BubblesLast'
<1>1. edits < MaxEdits /\ edits \in Nat /\ stack # <<>> /\ top \in Frame /\ rest \in Seq(Frame)
  <2>1. edits < MaxEdits /\ edits \in Nat
    BY DEF Editing, Inv, TypeOK
  <2>2. stack # <<>>
    BY EditingCalls
  <2> QED
    BY <2>1, <2>2, StackPops DEF Inv, TypeOK
<1>2. ASSUME UNCHANGED <<matching, active_combos, held, slots, last_tapped_timestamp, host>>,
             EditLeft'
      PROVE  EditLeft' /\ CandidatesFit' /\ FireInv' /\ MatchInv' /\ BubblesLast'
  <2>1. CandidatesFit' /\ FireInv' /\ MatchInv'
    BY <1>2, SameMatch
  <2>2. CASE Editing'
    <3>1. NoBubble(stack')
      BY <2>2, EditingStaysFree
    <3> QED
      BY <1>2, <2>1, <3>1 DEF BubblesLast
  <2>3. CASE stack' = <<>>
    BY <1>2, <2>1, <2>3 DEF BubblesLast, NoBubble
  <2> QED
    BY <1>2, <2>2, <2>3 DEF EditLeft
<1>3. ASSUME pressed_keys_count = 0, NEW f \in EditFrame, stack = <<f>>
      PROVE  EditLeft' /\ CandidatesFit' /\ FireInv' /\ MatchInv' /\ BubblesLast'
  <2>1. /\ top = f /\ rest = <<>> /\ f \in Frame /\ f.slot \in Slots
        /\ f.op \in {"set", "delete", "clear_slot"}
    <3>1. f \in Frame /\ f.op \in {"set", "delete", "clear_slot"}
      BY DEF EditFrame
    <3> QED
      BY <1>3, <3>1, FrameFields DEF top, rest
  <2>2. CASE FinishSet
    <3> DEFINE rec == [f.record EXCEPT !.active = TRUE]
    <3>1. /\ f.op = "set" /\ quiesce_held(f.slot) /\ slots' = [slots EXCEPT ![f.slot] = rec]
          /\ stack' = <<>> /\ edits' = edits + 1
          /\ UNCHANGED <<matching, host, last_tapped_timestamp>>
      BY <2>1, <2>2 DEF FinishSet, Runs, write_slot, taps
    <3>2. f.record \in Record /\ Cardinality(f.record.keys) <= MaxKeys
      BY <2>1, <3>1, FrameFields DEF EditFrame
    <3>3. rec \in Record /\ rec.keys = f.record.keys
      BY <3>2 DEF Record
    <3> HIDE DEF rec
    <3>4. EditLeft'
      BY <1>1, <3>1 DEF EditLeft
    <3> QED
      BY <1>3, <2>1, <3>1, <3>2, <3>3, <3>4, EditWrites
  <2>3. CASE FinishDelete
    <3> DEFINE rec == EmptyRecord
    <3>1. /\ quiesce_held(f.slot) /\ slots' = [slots EXCEPT ![f.slot] = rec]
          /\ stack' = <<>> /\ edits' = edits + 1
          /\ UNCHANGED <<matching, host, last_tapped_timestamp>>
      BY <2>1, <2>3 DEF FinishDelete, Runs, write_slot, taps
    <3>2. rec \in Record /\ Cardinality(rec.keys) <= MaxKeys
      BY EmptyRecordType, FS_EmptySet, ConstantFacts DEF EmptyRecord
    <3> HIDE DEF rec
    <3>3. EditLeft'
      BY <1>1, <3>1 DEF EditLeft
    <3> QED
      BY <1>3, <2>1, <3>1, <3>2, <3>3, EditWrites
  <2>4. CASE ClearAllWipes
    <3> DEFINE rec == EmptyRecord
    <3>1. /\ quiesce_held(f.slot) /\ slots' = [slots EXCEPT ![f.slot] = rec]
          /\ stack' = <<ClearFrom(f.slot + 1)>> \o <<>>
          /\ UNCHANGED <<matching, host, last_tapped_timestamp, edits>>
      BY <2>1, <2>4 DEF ClearAllWipes, Runs, taps
    <3>2. rec \in Record /\ Cardinality(rec.keys) <= MaxKeys
      BY EmptyRecordType, FS_EmptySet, ConstantFacts DEF EmptyRecord
    <3> HIDE DEF rec
    <3>3. f.slot + 1 \in 1 .. NumSlots + 1
      BY <2>1, ConstantFacts DEF Slots
    <3>4. stack' = <<ClearFrom(f.slot + 1)>>
      BY <3>1, <3>3, ClearFrames, ConcatEmptySeq
    <3>5. Editing'
      BY <1>1, <1>3, <3>1, <3>3, <3>4 DEF Editing, matching
    <3> QED
      BY <1>3, <2>1, <3>1, <3>2, <3>5, EditWrites DEF EditLeft
  <2>5. ~ (\/ DownIgnored \/ DownCaptured \/ BubbleDown
           \/ ReleaseFirstKey \/ ReraiseKey \/ ReleaseDone \/ CleanupReleasesAgain
           \/ UpCleanup \/ UpHandled \/ UpReraised \/ UpBubbles
           \/ TimeoutReturns \/ ClearAllQuiesces \/ ClearAllSaves)
    BY <2>1 DEF Runs, DownIgnored, DownCaptured, BubbleDown, ReleaseFirstKey, ReraiseKey,
         ReleaseDone, CleanupReleasesAgain, UpCleanup, UpHandled, UpReraised, UpBubbles,
         TimeoutReturns, ClearAllQuiesces, ClearAllSaves
  <2> QED
    BY <2>2, <2>3, <2>4, <2>5 DEF Handler
<1>4. ASSUME pressed_keys_count = 0, NEW f \in EditFrame, NEW k \in 1 .. MaxKeys + 1,
             NEW n \in 0 .. 1, stack = <<ReleaseLoop(k, n)>> \o <<f>>
      PROVE  EditLeft' /\ CandidatesFit' /\ FireInv' /\ MatchInv' /\ BubblesLast'
  <2> DEFINE l == ReleaseLoop(k, n)
             q == <<f>>
  <2>1. l.op = "release" /\ l.next = k /\ l.count = n /\ l \in Frame /\ q \in Seq(Frame)
        /\ f.op \in {"set", "delete", "clear_slot"}
    <3>1. n \in 0 .. MaxKeys
      BY ConstantFacts
    <3>2. f \in Frame /\ f.op \in {"set", "delete", "clear_slot"}
      BY DEF EditFrame
    <3> QED
      BY <3>1, <3>2, ReleaseFrames DEF ReleaseLoop
  <2> HIDE DEF l
  <2>2. top = l /\ rest = q
    <3>1. stack = <<l>> \o q
      BY <1>4 DEF l
    <3> HIDE DEF q
    <3> QED
      BY <2>1, <3>1, PushedCalls DEF top, rest
  <2>3. UNCHANGED <<matching, active_combos, held, slots, edits>>
        /\ \/ UNCHANGED <<host, last_tapped_timestamp>> /\ stack' = q
           \/ ReleaseFirstKey /\ stack' = <<ReleaseLoop(2, n)>> \o q
    <3>1. CASE ReleaseFirstKey
      BY <2>1, <2>2, <3>1 DEF ReleaseFirstKey, pool, table
    <3>2. CASE ReleaseDone
      BY <2>1, <2>2, <3>2 DEF ReleaseDone, pool, table, taps
    <3>3. ~ ReraiseKey
      BY <2>1, <2>2 DEF ReraiseKey
    <3>4. ~ (\/ DownIgnored \/ DownCaptured \/ BubbleDown \/ CleanupReleasesAgain
             \/ UpCleanup \/ UpHandled \/ UpReraised \/ UpBubbles \/ TimeoutReturns)
      BY <2>1, <2>2 DEF Runs, DownIgnored, DownCaptured, BubbleDown,
           CleanupReleasesAgain, UpCleanup, UpHandled, UpReraised, UpBubbles, TimeoutReturns
    <3>5. ~ (\/ FinishSet \/ FinishDelete \/ ClearAllQuiesces \/ ClearAllWipes \/ ClearAllSaves)
      BY <2>1, <2>2 DEF Runs, FinishSet, FinishDelete, ClearAllQuiesces, ClearAllWipes, ClearAllSaves
    <3> QED
      BY <3>1, <3>2, <3>3, <3>4, <3>5 DEF Handler
  <2>4. CASE UNCHANGED <<host, last_tapped_timestamp>> /\ stack' = q
    <3>1. Editing'
      BY <1>1, <1>4, <2>3, <2>4 DEF Editing, matching
    <3> QED
      BY <1>2, <2>3, <2>4, <3>1 DEF EditLeft
  <2>5. CASE stack' = <<ReleaseLoop(2, n)>> \o q
    <3>1. 2 \in 1 .. MaxKeys + 1
      BY ConstantFacts
    <3>2. Editing'
      BY <1>1, <1>4, <2>3, <2>5, <3>1 DEF Editing, matching
    <3>3. FireInv' /\ CandidatesFit'
      BY <2>3, SameFires DEF CandidatesFit, captured_positions, positions_of, matching
    <3>4. MatchInv'
      BY <1>4, <2>3, MatchOver DEF matching
    <3>5. NoBubble(stack')
      BY <3>2, EditingStaysFree
    <3> QED
      BY <3>2, <3>3, <3>4, <3>5 DEF EditLeft, BubblesLast
  <2> QED
    BY <2>3, <2>4, <2>5
<1>5. ASSUME pressed_keys_count <= 1, NEW s \in 1 .. NumSlots + 1, stack = <<ClearFrom(s)>>
      PROVE  EditLeft' /\ CandidatesFit' /\ FireInv' /\ MatchInv' /\ BubblesLast'
  <2>1. top.op = "clear" /\ top.slot = s /\ rest = <<>>
    BY <1>5 DEF top, rest, ClearFrom
  <2>2. CASE ClearAllQuiesces
    <3> DEFINE f == ClearSlot(s)
    <3>1. /\ quiesce_match(<<f>>) /\ UNCHANGED <<table, host>> /\ s \in Slots
      BY <2>1, <2>2, ConstantFacts DEF ClearAllQuiesces, Slots
    <3>2. f \in Frame /\ f.op = "clear_slot" /\ f \in EditFrame /\ f.op \in RootOps
          /\ top.op \in RootOps
      <4>1. EmptyRecord \in Record
        BY EmptyRecordType
      <4> QED
        BY <2>1, <3>1, <4>1, EditFrames DEF ClearSlot, EditFrame, RootOps
    <3> HIDE DEF f
    <3>3. presses(pressed_keys, pressed_keys_count, <<f>>) = arrival
      BY <1>1, <2>1, <3>2, BottomGoesOn
    <3> QED
      BY <1>1, <1>5, <3>1, <3>2, <3>3, QuiesceStarts DEF EditLeft, MatchKept
  <2>3. CASE ClearAllWipes
    <3> DEFINE rec == EmptyRecord
    <3>1. /\ s \in Slots /\ ~ slot_is_active(s) /\ UNCHANGED <<pool, held>>
          /\ slots' = [slots EXCEPT ![s] = rec]
          /\ stack' = <<ClearFrom(s + 1)>> \o <<>>
          /\ UNCHANGED <<matching, host, last_tapped_timestamp, edits>>
      BY <2>1, <2>3, ConstantFacts DEF ClearAllWipes, Runs, taps, Slots
    <3>2. rec \in Record /\ Cardinality(rec.keys) <= MaxKeys
      BY EmptyRecordType, FS_EmptySet, ConstantFacts DEF EmptyRecord
    <3> HIDE DEF rec
    <3>3. s + 1 \in 1 .. NumSlots + 1
      BY <3>1, ConstantFacts DEF Slots
    <3>4. stack' = <<ClearFrom(s + 1)>>
      BY <3>1, <3>3, ClearFrames, ConcatEmptySeq
    <3>5. Editing'
      BY <1>1, <1>5, <3>1, <3>3, <3>4 DEF Editing, matching
    <3>6. quiesce_held(s)
      BY <3>1, NotHeld
    <3> QED
      BY <3>1, <3>2, <3>5, <3>6, EditWrites DEF EditLeft
  <2>4. CASE ClearAllSaves
    <3>1. /\ stack' = <<>> /\ edits' = edits + 1
          /\ UNCHANGED <<matching, active_combos, held, slots, last_tapped_timestamp, host>>
      BY <2>1, <2>4 DEF ClearAllSaves, pool, taps
    <3> QED
      BY <1>1, <1>2, <3>1 DEF EditLeft
  <2>5. ~ (\/ DownIgnored \/ DownCaptured \/ BubbleDown
           \/ ReleaseFirstKey \/ ReraiseKey \/ ReleaseDone \/ CleanupReleasesAgain
           \/ UpCleanup \/ UpHandled \/ UpReraised \/ UpBubbles
           \/ TimeoutReturns \/ FinishSet \/ FinishDelete)
    BY <2>1 DEF Runs, DownIgnored, DownCaptured, BubbleDown, ReleaseFirstKey, ReraiseKey,
         ReleaseDone, CleanupReleasesAgain, UpCleanup, UpHandled, UpReraised, UpBubbles,
         TimeoutReturns, FinishSet, FinishDelete
  <2> QED
    BY <2>2, <2>3, <2>4, <2>5 DEF Handler
<1> QED
  BY <1>3, <1>4, <1>5 DEF Editing

-----------------------------------------------------------------------------
(* The pool                                                                *)

LEMMA NextMatches ==
  MatcherInv /\ Room /\ [Next]_vars /\ [Edits => pressed_keys_count <= 1]_vars => MatcherInv'
<1> SUFFICES ASSUME MatcherInv, Room, [Next]_vars, [Edits => pressed_keys_count <= 1]_vars
             PROVE  MatcherInv'
  OBVIOUS
<1> USE DEF MatcherInv
<1>1. Inv' /\ LoopsNest' /\ PressInv'
  BY NextInv, NextNests, NextPresses
<1>2. CASE UNCHANGED vars
  <2>1. UNCHANGED <<matching, active_combos, held, slots, stack, edits>>
    BY <1>2 DEF vars, pool, table
  <2>2. CandidatesFit' /\ FireInv' /\ MatchInv'
    BY <2>1, SameMatch
  <2>3. BubblesLast'
    BY <2>1 DEF BubblesLast, NoBubble, Runs, top, rest, matching
  <2>4. (PlainCalls \/ Editing)'
    BY <2>1 DEF PlainCalls, Editing, matching
  <2> QED
    BY <1>1, <2>2, <2>3, <2>4
<1>3. CASE PlainCalls /\ Next
  <2>1. CASE Handler
    BY <1>1, <1>3, <2>1, PlainKeeps DEF MatchKept
  <2>2. CASE Timeout \/ Tick \/ Keys \/ Others
    BY <1>1, <1>3, <2>2, OthersKeepMatch DEF MatchKept
  <2>3. CASE Edits /\ ~ UNCHANGED vars
    BY <1>1, <2>3, EditStarts DEF MatchKept
  <2> QED
    BY <1>2, <1>3, <2>1, <2>2, <2>3 DEF Next
<1>4. CASE Editing /\ Next
  <2>1. stack # <<>>
    BY <1>4, EditingCalls
  <2>2. Handler
    BY <1>4, <2>1, OthersTouchNothing
    DEF Next, Timeout, TimeoutTooEarly, TimeoutExpires, Tick, Keys, Press, Release,
       Edits, StartSet, StartDelete, StartClearAll, Idle
  <2>3. EditLeft' /\ CandidatesFit' /\ FireInv' /\ MatchInv' /\ BubblesLast'
    BY <1>4, <2>2, EditGoesOn
  <2>4. CASE stack' = <<>>
    <3>1. <<>> \in Seq(PlainFrame)
      OBVIOUS
    <3> QED
      BY <1>1, <2>3, <2>4, <3>1 DEF PlainCalls
  <2>5. CASE Editing'
    BY <1>1, <2>3, <2>5
  <2> QED
    BY <2>3, <2>4, <2>5 DEF EditLeft
<1> QED
  BY <1>2, <1>3, <1>4

LEMMA InitMatches ==
  ASSUME Init
  PROVE  MatcherInv
<1>1. /\ active_combos = [i \in 1 .. MaxPressed |-> FreeEntry] /\ held = [s \in Slots |-> 0]
      /\ candidates = {} /\ fully_pressed_combo = NoSlot
      /\ slots \in InitialTables /\ pressed_keys_count = 0 /\ stack = <<>>
  BY DEF Init
<1>2. ASSUME NEW s \in Slots PROVE pressing_in(active_combos, s) = {}
  BY <1>1, ConstantFacts DEF pressing_in, pressing, FreeEntry
<1>3. FireInv
  <2>1. \A i \in 1 .. MaxPressed : active_combos[i].slot = NoSlot
    BY <1>1 DEF FreeEntry
  <2>2. OwnKeys(active_combos)
    BY <2>1 DEF OwnKeys
  <2>3. ASSUME NEW s \in Slots PROVE balance(s) <= 0
    <3>1. Cardinality(pressing_in(active_combos, s)) = 0
      BY <1>2, FS_EmptySet
    <3>2. held[s] = 0
      BY <1>1
    <3> QED
      BY <3>1, <3>2 DEF balance
  <2>4. (\A s \in candidates : slot_is_active(s)) /\ fully_pressed_combo = NoSlot
    BY <1>1
  <2> QED
    BY <2>2, <2>3, <2>4 DEF FireInv
<1>4. \A s \in Slots : key_count(s) <= MaxKeys
  BY <1>1, RecordsAssumption DEF key_count
<1>5. MatchInv /\ BubblesLast /\ PlainCalls /\ CandidatesFit /\ LoopsNest
  BY <1>1, <1>4, ConstantFacts
     DEF MatchInv, BubblesLast, NoBubble, PlainCalls, CandidatesFit, LoopsNest
<1> QED
  BY <1>3, <1>5, InitInv, InitPresses DEF MatcherInv

\* Two keys in hand are two presses on their way.
LEMMA TwoOnTheirWay ==
  ASSUME Inv, PressInv, in_hand >= 2
  PROVE  arrival \in Seq(Positions) /\ Len(arrival) >= 2
<1> DEFINE u == between(pressed_keys, 1, pressed_keys_count)
<1>1. u \in Seq(Positions) /\ Len(u) = pressed_keys_count /\ pressed_keys_count \in Nat
  <2>1. /\ 1 \in 1 .. MaxKeys + 1
        /\ (IF 1 <= pressed_keys_count THEN pressed_keys_count - 1 + 1 ELSE 0) = pressed_keys_count
    BY StateTypes, ConstantFacts
  <2> QED
    BY <2>1, StateTypes, Between
<1> HIDE DEF u
<1>2. CASE Runs("down")
  <2> DEFINE k == keys_in(pressed_keys, top)
             v == keys_below(pressed_keys, rest)
  <2>1. /\ stack # <<>> /\ top.op = "down"
    BY <1>2 DEF Runs
  <2>2. /\ k \in Seq(Positions) /\ v \in Seq(Positions) /\ arrival = u \o (k \o v)
    BY <2>1, InProgress DEF u
  <2>3. Len(k) = 1
    BY <2>1 DEF keys_in
  <2> HIDE DEF k, v
  <2>4. k \o v \in Seq(Positions) /\ Len(k \o v) = Len(k) + Len(v) /\ Len(v) \in Nat
    BY <2>2, TwoParts
  <2>5. arrival \in Seq(Positions) /\ Len(arrival) = Len(u) + Len(k \o v)
    BY <1>1, <2>2, <2>4, TwoParts
  <2>6. pressed_keys_count >= 1
    BY <1>1, <1>2 DEF in_hand
  <2> QED
    BY <1>1, <2>3, <2>4, <2>5, <2>6
<1>3. CASE ~ Runs("down")
  <2> DEFINE v == keys_below(pressed_keys, stack)
  <2>1. v \in Seq(Positions) /\ arrival = u \o v
    BY StateTypes, PressesType DEF PressInv, presses, u
  <2> HIDE DEF v
  <2>2. arrival \in Seq(Positions) /\ Len(arrival) = Len(u) + Len(v) /\ Len(v) \in Nat
    BY <1>1, <2>1, TwoParts
  <2>3. pressed_keys_count >= 2
    BY <1>3 DEF in_hand
  <2> QED
    BY <1>1, <2>2, <2>3
<1> QED
  BY <1>2, <1>3

LEMMA ReleasingFinite ==
  ASSUME Inv
  PROVE  down \cup releasing(stack) \in SUBSET Positions /\ IsFiniteSet(down \cup releasing(stack))
<1>1. releasing(stack) \subseteq Positions
  <2> SUFFICES ASSUME NEW p \in releasing(stack) PROVE p \in Positions
    OBVIOUS
  <2>1. PICK i \in 1 .. Len(stack) : stack[i].op \in {"up", "up_cleaned"} /\ p = stack[i].event.position
    BY DEF releasing
  <2>2. stack[i] \in Frame
    BY StateTypes
  <2>3. stack[i].event \in Event
    BY <2>1, <2>2, FrameFields
  <2> QED
    BY <2>1, <2>3 DEF Event
<1>2. down \subseteq Positions
  BY DEF Inv, TypeOK
<1> QED
  BY <1>1, <1>2, ConstantFacts, FS_Subset

\* A full pool and a match under way need more keys than the user may hold: each entry of
\* the pool has one, and two more are on their way.
LEMMA PoolHasRoom ==
  ASSUME MatcherInv, PoolSuffices
  PROVE  Room
<1> SUFFICES ASSUME in_hand >= 2, free_entries = {} PROVE FALSE
  BY DEF Room
<1> DEFINE D == down \cup releasing(stack)
           key(i) == CHOOSE p \in active_combos[i].keys : TRUE
           f == [i \in 1 .. MaxPressed + 2 |->
                   IF i <= MaxPressed THEN key(i) ELSE arrival[i - MaxPressed]]
<1>1. Inv /\ PressInv /\ FireInv /\ MaxPressed \in Nat /\ IsFiniteSet(D)
  BY ReleasingFinite, ConstantFacts DEF MatcherInv
<1>2. Cardinality(D) <= MaxPressed + 1
  BY DEF PoolSuffices
<1>3. ASSUME NEW i \in 1 .. MaxPressed
      PROVE  in_combo(active_combos, i, key(i)) /\ key(i) \in Positions
  <2>1. active_combos[i].slot # NoSlot /\ active_combos[i].keys \subseteq Positions
    BY <1>1, StateTypes DEF free_entries, Pool, Entry
  <2>2. active_combos[i].keys # {}
    BY <1>1, <2>1 DEF FireInv, OwnKeys
  <2> QED
    BY <2>1, <2>2 DEF in_combo
<1>4. /\ arrival[1] \in Range(arrival) /\ arrival[2] \in Range(arrival) /\ arrival[1] # arrival[2]
      /\ arrival[1] \in Positions /\ arrival[2] \in Positions
  <2>1. arrival \in Seq(Positions) /\ 1 \in 1 .. Len(arrival) /\ 2 \in 1 .. Len(arrival)
    BY <1>1, TwoOnTheirWay
  <2>2. Distinct(arrival)
    BY <1>1 DEF PressInv
  <2>3. arrival[1] # arrival[2]
    BY <2>1, <2>2 DEF Distinct
  <2> QED
    BY <2>1, <2>3, RangeEquality
<1> HIDE DEF key
<1>5. \A p \in Positions : /\ Once(Range(arrival), active_combos, host, p)
                           /\ Somewhere(Range(arrival), active_combos, host, p) => p \in D
  BY <1>1 DEF PressInv, Places
<1> HIDE DEF D
<1>6. \A i \in 1 .. MaxPressed : key(i) \in D /\ key(i) \notin Range(arrival)
  BY <1>3, <1>5 DEF Somewhere, Once
<1>7. \A i, j \in 1 .. MaxPressed : key(i) = key(j) => i = j
  BY <1>3, <1>5 DEF Once
<1>8. arrival[1] \in D /\ arrival[2] \in D
  BY <1>4, <1>5 DEF Somewhere
<1>9. \A i \in 1 .. MaxPressed + 2 :
        \/ i \in 1 .. MaxPressed /\ f[i] = key(i)
        \/ i = MaxPressed + 1 /\ f[i] = arrival[1]
        \/ i = MaxPressed + 2 /\ f[i] = arrival[2]
  BY <1>1
<1>10. DOMAIN f = 1 .. MaxPressed + 2 /\ f = [i \in DOMAIN f |-> f[i]]
  OBVIOUS
<1> HIDE DEF f
<1>11. \A i \in 1 .. MaxPressed + 2 : f[i] \in D
  BY <1>6, <1>8, <1>9
<1>12. \A i, j \in 1 .. MaxPressed + 2 : f[i] = f[j] => i = j
  BY <1>4, <1>6, <1>7, <1>9
<1>13. f \in Injection(1 .. MaxPressed + 2, D)
  BY <1>10, <1>11, <1>12 DEF Injection, IsInjective
<1>14. IsFiniteSet(1 .. MaxPressed + 2) /\ Cardinality(1 .. MaxPressed + 2) = MaxPressed + 2
  BY <1>1, FS_Interval
<1>15. MaxPressed + 2 <= Cardinality(D)
  BY <1>1, <1>13, <1>14, FS_Injection
<1> QED
  BY <1>1, <1>2, <1>15, FS_CardinalityType

LEMMA MatcherHolds ==
  Spec /\ []PoolSuffices /\ CalmEdits => []MatcherInv
<1>1. Init => MatcherInv
  BY InitMatches
<1>2. MatcherInv /\ PoolSuffices /\ [Next]_vars /\ [Edits => pressed_keys_count <= 1]_vars => MatcherInv'
  BY PoolHasRoom, NextMatches
<1> QED
  BY <1>1, <1>2, PTL DEF Spec, CalmEdits

\* No handler of an event, nor the end of a match, adds a release to those on their way.
LEMMA LoopReleases ==
  ASSUME NEW n \in 0 .. MaxKeys, NEW q \in Seq(Frame), release_pressed_keys(n, q)
  PROVE  releasing(stack') = releasing(q)
<1> DEFINE f == ReleaseLoop(1, n)
<1>1. f \in Frame /\ f.op = "release" /\ stack' = <<f>> \o q
  BY ReleaseFrames, ConstantFacts DEF ReleaseLoop, release_pressed_keys
<1> HIDE DEF f
<1> QED
  BY <1>1, OneMoreCall

LEMMA CleanupReleases ==
  ASSUME Inv, NEW keys, NEW count \in 0 .. MaxKeys, NEW full \in Slots \cup {NoSlot},
         NEW q \in Seq(Frame), cleanup(keys, count, full, q)
  PROVE  releasing(stack') = releasing(q)
<1>1. CASE full = NoSlot
  BY <1>1, LoopReleases DEF cleanup
<1>2. CASE full # NoSlot
  <2>1. full \in Slots /\ activate_combo(full, keys, count, q)
    BY <1>2 DEF cleanup
  <2>2. CASE free_entries = {}
    <3> DEFINE f == ReleaseAgain
    <3>1. f \in Frame /\ f.op = "release_again"
      BY ReleaseFrames, ConstantFacts DEF ReleaseAgain
    <3>2. release_pressed_keys(count, <<f>> \o q)
      BY <2>1, <2>2 DEF activate_combo
    <3> HIDE DEF f
    <3>3. <<f>> \o q \in Seq(Frame)
      BY <3>1, StackPushes
    <3>4. releasing(<<f>> \o q) = releasing(q)
      BY <3>1, OneMoreCall
    <3>5. releasing(stack') = releasing(<<f>> \o q)
      BY <3>2, <3>3, LoopReleases
    <3> QED
      BY <3>4, <3>5
  <2>3. CASE free_entries # {}
    <3> DEFINE length == combo_length(full, count)
    <3>1. TypeOK /\ count \in Nat
      BY ConstantFacts DEF Inv
    <3>2. length \in 0 .. count
      BY <2>1, <3>1, ComboLength
    <3>3. release_pressed_keys(count - length, q)
      BY <2>1, <2>3 DEF activate_combo
    <3> HIDE DEF length
    <3>4. count - length \in 0 .. MaxKeys
      BY <3>2, ConstantFacts
    <3> QED
      BY <3>3, <3>4, LoopReleases
  <2> QED
    BY <2>2, <2>3
<1> QED
  BY <1>1, <1>2

LEMMA QuiesceReleases ==
  ASSUME Inv, NEW q \in Seq(Frame), quiesce_match(q)
  PROVE  releasing(stack') = releasing(q)
<1>1. pressed_keys_count \in 0 .. MaxKeys /\ NoSlot \in Slots \cup {NoSlot}
  BY StateTypes
<1>2. \/ cleanup(pressed_keys, pressed_keys_count, NoSlot, q)
      \/ stack' = q
  BY DEF quiesce_match
<1> QED
  BY <1>1, <1>2, CleanupReleases

LEMMA CapturedReleases ==
  ASSUME Inv, DownCaptured
  PROVE  releasing(stack') = releasing(rest)
<1> DEFINE e     == top.event
           room  == pressed_keys_count < MaxKeys
           count == IF room THEN pressed_keys_count + 1 ELSE pressed_keys_count
           b     == Bubble(e)
           caller == IF room THEN rest ELSE <<b>> \o rest
           fresh == setup_candidates_for_first_keypress(e.position, e.timestamp)
           cands == IF pressed_keys_count = 0 THEN candidates \cup fresh
                    ELSE filter_candidates(
                           filter_timed_out_candidates(candidates, e.timestamp), e.position)
           keys  == IF room THEN [pressed_keys EXCEPT ![pressed_keys_count + 1] = e]
                    ELSE pressed_keys
           full  == {s \in cands : key_count(s) = count}
<1>1. top \in Frame /\ top.op = "down" /\ rest \in Seq(Frame)
  BY RunningCall DEF DownCaptured
<1>2. pressed_keys_count \in 0 .. MaxKeys /\ fully_pressed_combo \in Slots \cup {NoSlot}
  BY DEF Inv, TypeOK
<1>3. count \in 0 .. MaxKeys
  BY <1>2, ConstantFacts
<1>4. full # {} => Min(full) \in Slots
  <2>1. full \in SUBSET Slots /\ full \in SUBSET Nat
    BY ConstantFacts DEF Inv, TypeOK, setup_candidates_for_first_keypress, filter_candidates,
                         filter_timed_out_candidates
  <2> HIDE DEF full
  <2>2. full # {} => Min(full) \in full
    BY <2>1, MinOfNaturals
  <2> QED
    BY <2>1, <2>2
<1>5. caller \in Seq(Frame) /\ releasing(caller) = releasing(rest)
  <2>1. b \in Frame /\ b.op = "bubble"
    BY <1>1, FrameFields, EventFrames DEF Bubble
  <2> HIDE DEF b
  <2>2. <<b>> \o rest \in Seq(Frame) /\ releasing(<<b>> \o rest) = releasing(rest)
    BY <1>1, <2>1, OneMoreCall, StackPushes
  <2> QED
    BY <1>1, <2>2
<1>6. \/ cleanup(keys, count, fully_pressed_combo, caller)
      \/ full # {} /\ cleanup(keys, count, Min(full), caller)
      \/ stack' = caller
  BY DEF DownCaptured
<1> HIDE DEF count, caller, full, keys
<1> QED
  BY <1>2, <1>3, <1>4, <1>5, <1>6, CleanupReleases

LEMMA HandlersReleaseNoMore ==
  ASSUME Inv, PressInv, Handler
  PROVE  releasing(stack') \subseteq releasing(stack)
<1>1. stack # <<>>
  BY DEF Handler, DownIgnored, DownCaptured, BubbleDown, ReleaseFirstKey, ReraiseKey, ReleaseDone,
         CleanupReleasesAgain, UpCleanup, UpHandled, UpReraised, UpBubbles, TimeoutReturns,
         FinishSet, FinishDelete, ClearAllQuiesces, ClearAllWipes, ClearAllSaves, Runs
<1>2. /\ top \in Frame /\ rest \in Seq(Frame)
      /\ releasing(stack) =
           (IF top.op \in {"up", "up_cleaned"} THEN {top.event.position} ELSE {}) \cup releasing(rest)
      /\ pressed_keys \in [1 .. MaxKeys -> Event] /\ pressed_keys_count \in 0 .. MaxKeys
      /\ fully_pressed_combo \in Slots \cup {NoSlot}
  BY <1>1, InProgress, SMTT(30) DEF Inv, TypeOK
<1>3. releasing(rest) \subseteq releasing(stack)
  BY <1>2
<1>4. CASE DownIgnored \/ BubbleDown \/ ReleaseDone \/ UpHandled \/ UpBubbles \/ TimeoutReturns
             \/ FinishSet \/ FinishDelete \/ ClearAllSaves
  BY <1>3, <1>4 DEF DownIgnored, BubbleDown, ReleaseDone, UpHandled, UpBubbles, TimeoutReturns,
     FinishSet, FinishDelete, ClearAllSaves
<1>5. CASE DownCaptured
  BY <1>3, <1>5, CapturedReleases
<1>6. CASE ReleaseFirstKey
  <2> DEFINE f == ReleaseLoop(2, top.count)
  <2>1. top.op = "release" /\ top.count >= 1 /\ stack' = <<f>> \o rest
    BY <1>6 DEF ReleaseFirstKey, Runs
  <2>2. 2 \in 1 .. MaxKeys + 1 /\ top.count \in 0 .. MaxKeys
    BY <1>2, <2>1, FrameFields, ConstantFacts
  <2>3. f \in Frame /\ f.op = "release"
    BY <2>2, ReleaseFrames DEF ReleaseLoop
  <2> HIDE DEF f
  <2> QED
    BY <1>2, <1>3, <2>1, <2>3, OneMoreCall
<1>7. CASE ReraiseKey
  <2> DEFINE d == Down(pressed_keys[top.next])
             f == ReleaseLoop(top.next + 1, top.count)
  <2>1. top.op = "release" /\ top.next \in 2 .. top.count /\ stack' = <<d, f>> \o rest
    BY <1>7 DEF ReraiseKey, Runs
  <2>2. top.count \in 0 .. MaxKeys /\ top.next \in 1 .. MaxKeys /\ top.next + 1 \in 1 .. MaxKeys + 1
    BY <1>2, <2>1, FrameFields, ConstantFacts
  <2>3. pressed_keys[top.next] \in Event
    BY <1>2, <2>2
  <2>4. f \in Frame /\ f.op = "release"
    BY <2>2, ReleaseFrames DEF ReleaseLoop
  <2>5. d \in Frame /\ d.op = "down"
    BY <2>3, EventFrames DEF Down
  <2> HIDE DEF d, f
  <2>6. <<f>> \o rest \in Seq(Frame) /\ releasing(<<f>> \o rest) = releasing(rest)
    BY <1>2, <2>4, OneMoreCall, StackPushes
  <2>7. stack' = <<d>> \o (<<f>> \o rest)
    BY <1>2, <2>1, <2>4, <2>5, TwoCalls
  <2>8. releasing(<<d>> \o (<<f>> \o rest)) = releasing(<<f>> \o rest)
    BY <2>5, <2>6, OneMoreCall
  <2> QED
    BY <1>3, <2>6, <2>7, <2>8
<1>8. CASE CleanupReleasesAgain
  BY <1>2, <1>3, <1>8, LoopReleases DEF CleanupReleasesAgain
<1>9. CASE UpCleanup
  <2> DEFINE f == UpCleaned(top.event)
  <2>1. top.op = "up"
    BY <1>9 DEF UpCleanup, Runs
  <2>2. f \in Frame /\ f.op = "up_cleaned" /\ f.event = top.event
    BY <1>2, <2>1, FrameFields, EventFrames DEF UpCleaned
  <2>3. cleanup(pressed_keys, pressed_keys_count, fully_pressed_combo, <<f>> \o rest)
    BY <1>9 DEF UpCleanup
  <2> HIDE DEF f
  <2>4. <<f>> \o rest \in Seq(Frame) /\ releasing(<<f>> \o rest) = releasing(stack)
    BY <1>2, <2>1, <2>2, OneMoreCall, StackPushes
  <2> QED
    BY <1>2, <2>3, <2>4, CleanupReleases
<1>10. CASE UpReraised
  <2> DEFINE f == Up(top.event)
  <2>1. top.op = "up_cleaned" /\ stack' = <<f>> \o rest
    BY <1>10 DEF UpReraised, Runs
  <2>2. f \in Frame /\ f.op = "up" /\ f.event = top.event
    BY <1>2, <2>1, FrameFields, EventFrames DEF Up
  <2> HIDE DEF f
  <2> QED
    BY <1>2, <2>1, <2>2, OneMoreCall
<1>11. CASE ClearAllQuiesces
  <2> DEFINE f == ClearSlot(top.slot)
             q == <<f>>
  <2>1. top.op = "clear" /\ quiesce_match(q) /\ top.slot \in Slots
    <3>1. top.op = "clear" /\ quiesce_match(q) /\ top.slot <= NumSlots
      BY <1>11 DEF ClearAllQuiesces, Runs
    <3>2. top.slot \in 1 .. NumSlots + 1
      BY <1>2, <3>1, FrameFields
    <3> QED
      BY <3>1, <3>2, ConstantFacts DEF Slots
  <2>2. f \in Frame /\ f.op = "clear_slot" /\ f.op \in RootOps
    BY <2>1, EmptyRecordType, EditFrames DEF ClearSlot, RootOps
  <2> HIDE DEF f
  <2>3. q \in Seq(Frame) /\ releasing(q) = {}
    BY <2>2, BottomCall
  <2> HIDE DEF q
  <2>4. releasing(stack') = releasing(q)
    BY <2>1, <2>3, QuiesceReleases
  <2> QED
    BY <2>3, <2>4
<1>12. CASE ClearAllWipes
  <2> DEFINE f == ClearFrom(top.slot + 1)
  <2>1. top.op \in {"clear", "clear_slot"} /\ stack' = <<f>> \o rest
    BY <1>12 DEF ClearAllWipes, Runs
  <2>2. top.slot \in Slots
    <3>1. CASE top.op = "clear_slot"
      BY <1>2, <3>1, FrameFields
    <3>2. CASE top.op = "clear"
      <4>1. top.slot \in 1 .. NumSlots + 1 /\ top.slot <= NumSlots
        BY <1>2, <1>12, <3>2, FrameFields DEF ClearAllWipes, Runs
      <4> QED
        BY <4>1, ConstantFacts DEF Slots
    <3> QED
      BY <2>1, <3>1, <3>2
  <2>3. f \in Frame /\ f.op = "clear"
    BY <2>2, ClearFrames, ConstantFacts DEF ClearFrom, Slots
  <2> HIDE DEF f
  <2> QED
    BY <1>2, <1>3, <2>1, <2>3, OneMoreCall
<1> QED
  BY <1>4, <1>5, <1>6, <1>7, <1>8, <1>9, <1>10, <1>11, <1>12, SMTT(40) DEF Handler

\* While nothing runs, an edit or a timeout puts no release on its way.
LEMMA NothingIsReleasing ==
  ASSUME Inv, Timeout \/ Edits
  PROVE  releasing(stack') = {}
<1>1. CASE TimeoutTooEarly
  BY <1>1, NoCalls DEF TimeoutTooEarly, Idle
<1>2. CASE TimeoutExpires
  <2> DEFINE f == TimedOut
             q == <<f>>
  <2>1. f \in Frame /\ f.op = "timed_out" /\ f.op \in RootOps
    BY ReleaseFrames, ConstantFacts DEF TimedOut, RootOps
  <2>2. \/ cleanup(pressed_keys, pressed_keys_count, fully_pressed_combo, q)
        \/ stack' = <<>>
    BY <1>2 DEF TimeoutExpires, Idle
  <2> HIDE DEF f
  <2>3. q \in Seq(Frame) /\ releasing(q) = {}
    BY <2>1, BottomCall
  <2> HIDE DEF q
  <2> QED
    BY <2>2, <2>3, NoCalls, CleanupReleases DEF Inv, TypeOK
<1>3. ASSUME NEW f \in Frame, f.op \in {"set", "delete"}, quiesce_match(<<f>>)
      PROVE  releasing(stack') = {}
  <2> DEFINE q == <<f>>
  <2>1. q \in Seq(Frame) /\ releasing(q) = {} /\ quiesce_match(q)
    BY <1>3, BottomCall DEF RootOps
  <2> HIDE DEF q
  <2> QED
    BY <2>1, QuiesceReleases
<1>4. ASSUME NEW s \in Slots, NEW rec \in NewRecords, StartSet(s, rec)
      PROVE  releasing(stack') = {}
  <2> DEFINE f == SetSlot(s, rec)
  <2>1. f \in Frame /\ f.op = "set" /\ quiesce_match(<<f>>)
    BY <1>4, TablesAssumption, EditFrames DEF SetSlot, StartSet
  <2> HIDE DEF f
  <2> QED
    BY <1>3, <2>1
<1>5. ASSUME NEW s \in Slots, StartDelete(s)
      PROVE  releasing(stack') = {}
  <2> DEFINE f == DeleteSlot(s)
  <2>1. f \in Frame /\ f.op = "delete" /\ quiesce_match(<<f>>)
    BY <1>5, EmptyRecordType, EditFrames DEF DeleteSlot, StartDelete
  <2> HIDE DEF f
  <2> QED
    BY <1>3, <2>1
<1>6. CASE StartClearAll
  <2> DEFINE f == ClearFrom(1)
  <2>1. f \in Frame /\ f.op = "clear" /\ stack' = <<f>> /\ f.op \in RootOps
    BY <1>6, ClearFrames, ConstantFacts DEF ClearFrom, StartClearAll, RootOps
  <2> HIDE DEF f
  <2> QED
    BY <2>1, BottomCall
<1> QED
  BY <1>1, <1>2, <1>4, <1>5, <1>6 DEF Timeout, Edits

\* The keys the user holds and those just going up.
FewKeys == Cardinality(down \cup releasing(stack)) <= MaxPressed + 1

LEMMA FewKeysStayFew ==
  ASSUME Inv, PressInv, FewKeys, Next, Inv', Cardinality(down') <= MaxPressed + 1
  PROVE  FewKeys'
<1>1. /\ down' \cup releasing(stack') = (down \cup releasing(stack))'
      /\ down \in SUBSET Positions /\ down' \in SUBSET Positions
      /\ IsFiniteSet(down \cup releasing(stack))
  BY ReleasingFinite DEF releasing, Inv, TypeOK
<1>2. CASE down' \cup releasing(stack') = down'
  BY <1>1, <1>2 DEF FewKeys
<1>3. CASE down' \cup releasing(stack') \subseteq down \cup releasing(stack)
  <2>1. Cardinality(down' \cup releasing(stack')) <= Cardinality(down \cup releasing(stack))
    BY <1>1, <1>3, FS_Subset
  <2>2. /\ Cardinality(down' \cup releasing(stack')) \in Nat
        /\ Cardinality(down \cup releasing(stack)) \in Nat
    BY <1>1, <1>3, FS_Subset, FS_CardinalityType
  <2> QED
    BY <1>1, <2>1, <2>2, ConstantFacts DEF FewKeys
<1>4. CASE Handler
  <2>1. down' = down
    BY <1>4 DEF Handler, DownIgnored, DownCaptured, BubbleDown, ReleaseFirstKey, ReraiseKey,
       ReleaseDone, CleanupReleasesAgain, UpCleanup, UpHandled, UpReraised, UpBubbles,
       TimeoutReturns, FinishSet, FinishDelete, ClearAllQuiesces, ClearAllWipes, ClearAllSaves
  <2> QED
    BY <1>3, <1>4, <2>1, HandlersReleaseNoMore, SMTT(40)
<1>5. CASE Timeout \/ Edits
  BY <1>2, <1>5, NothingIsReleasing
<1>6. CASE Tick \/ Others
  BY <1>3, <1>6, OthersTouchNothing DEF Tick
<1>7. ASSUME NEW p \in Positions, Press(p) PROVE FewKeys'
  <2> DEFINE f == Down([position |-> p, timestamp |-> now'])
  <2>1. f \in Frame /\ f.op = "down" /\ stack' = <<f>> \o <<>> /\ <<>> \in Seq(Frame)
    <3>1. now' \in Nat
      BY DEF Inv, TypeOK
    <3>2. [position |-> p, timestamp |-> now'] \in Event
      BY <3>1 DEF Event
    <3>3. stack' = <<f>>
      BY <1>7 DEF Press
    <3> QED
      BY <3>2, <3>3, EventFrames DEF Down
  <2> HIDE DEF f
  <2>2. releasing(stack') = {}
    BY <2>1, OneMoreCall, NoCalls
  <2> QED
    BY <1>2, <2>2
<1>8. ASSUME NEW p \in Positions, Release(p) PROVE FewKeys'
  <2> DEFINE f == Up([position |-> p, timestamp |-> now])
  <2>1. /\ f \in Frame /\ f.op = "up" /\ f.op \in RootOps /\ f.event.position = p
        /\ stack' = <<f>> /\ down' = down \ {p} /\ p \in down
    <3>1. [position |-> p, timestamp |-> now] \in Event
      BY DEF Event, Inv, TypeOK
    <3>2. f \in Frame
      BY <3>1, EventFrames
    <3> QED
      BY <1>8, <3>2 DEF Up, RootOps, Release
  <2> HIDE DEF f
  <2>2. releasing(stack') = {p}
    BY <2>1, BottomCall
  <2> QED
    BY <1>3, <2>1, <2>2
<1> QED
  BY <1>4, <1>5, <1>6, <1>7, <1>8 DEF Next, Keys

\* The pool suffices a user who never holds more than one key besides those a full pool
\* takes: CONFIG_LISM_COMBO_RPC_MAX_PRESSED is then enough, whatever is pressed, released
\* and edited.
THEOREM FewKeysSuffice ==
  Spec /\ [](Cardinality(down) <= MaxPressed + 1) => []PoolSuffices
<1> DEFINE Few == Cardinality(down) <= MaxPressed + 1
           I   == Inv /\ LoopsNest /\ PressInv /\ FewKeys
<1>1. Init /\ Few => I
  <2> SUFFICES ASSUME Init, Few PROVE I
    OBVIOUS
  <2>1. down \cup releasing(stack) = down
    BY NoCalls DEF Init
  <2>2. LoopsNest
    BY DEF Init, LoopsNest
  <2> QED
    BY <2>1, <2>2, InitInv, InitPresses DEF FewKeys
<1>2. I /\ [Next]_vars /\ Few' => I'
  <2> SUFFICES ASSUME I, [Next]_vars, Few' PROVE I'
    OBVIOUS
  <2>1. Inv' /\ LoopsNest' /\ PressInv'
    BY NextInv, NextNests, NextPresses
  <2>2. CASE Next
    BY <2>1, <2>2, FewKeysStayFew
  <2>3. CASE UNCHANGED vars
    BY <2>1, <2>3 DEF FewKeys, releasing, vars
  <2> QED
    BY <2>1, <2>2, <2>3
<1>3. I => PoolSuffices
  BY DEF FewKeys, PoolSuffices
<1> QED
  BY <1>1, <1>2, <1>3, PTL DEF Spec

-----------------------------------------------------------------------------
(* What the pool and a calm app give                                       *)

\* No match begins with candidates of another or keeps one that lacks a captured key.
THEOREM CandidatesStayFit ==
  Spec /\ []PoolSuffices /\ CalmEdits => []CandidatesFit
<1>1. MatcherInv => CandidatesFit
  BY DEF MatcherInv
<1> QED
  BY <1>1, MatcherHolds, PTL

\* A combo fires by pressing all of its keys and no others, and its entry keeps only keys
\* of its slot, also when the table changes between two handlers.
THEOREM CombosFireByKeys ==
  Spec /\ []PoolSuffices /\ CalmEdits => []CombosFireByTheirKeys
<1>1. MatcherInv => CombosFireByTheirKeys
  BY DEF MatcherInv, FireInv, OwnKeys, Complete, CombosFireByTheirKeys, held_combos
<1> QED
  BY <1>1, MatcherHolds, PTL

LEMMA NothingHeld ==
  ASSUME MatcherInv, Idle, down = {}, NEW s \in Slots
  PROVE  held[s] <= 0
<1>1. Inv /\ PressInv /\ FireInv
  BY DEF MatcherInv
<1>2. ASSUME NEW i \in 1 .. MaxPressed PROVE active_combos[i].slot = NoSlot
  <2> SUFFICES ASSUME active_combos[i].slot # NoSlot PROVE FALSE
    OBVIOUS
  <2>1. PICK p \in Positions : in_combo(active_combos, i, p)
    <3>1. active_combos[i].keys # {} /\ active_combos[i].keys \subseteq Positions
      BY <1>1, StateTypes DEF FireInv, OwnKeys, Pool, Entry
    <3> QED
      BY <3>1 DEF in_combo
  <2>2. p \in down \/ p \in releasing(stack)
    BY <1>1, <2>1 DEF PressInv, Places, Somewhere
  <2>3. releasing(stack) = {}
    BY NoCalls DEF Idle
  <2> QED
    BY <2>2, <2>3
<1>3. pressing_in(active_combos, s) = {}
  BY <1>2, ConstantFacts DEF pressing_in, pressing
<1>4. balance(s) <= 0 /\ held[s] \in Int
  BY <1>1 DEF FireInv, Inv, TypeOK
<1>5. Cardinality(pressing_in(active_combos, s)) = 0
  BY <1>3, FS_EmptySet
<1> QED
  BY <1>4, <1>5 DEF balance

\* With every key up no behavior stays held, also after a combo was edited while it was
\* held.
THEOREM NothingStaysStuck ==
  Spec /\ []PoolSuffices /\ CalmEdits => []NothingEndsUpStuck
<1>1. MatcherInv => NothingEndsUpStuck
  BY NothingHeld DEF NothingEndsUpStuck
<1> QED
  BY <1>1, MatcherHolds, PTL

\* The calls of an edit show that one is under way.
LEMMA EditingShows ==
  ASSUME Editing
  PROVE  ~ unedited
<1> SUFFICES \E i \in 1 .. Len(stack) : stack[i].op \in {"set", "delete", "clear", "clear_slot"}
  BY DEF unedited
<1>1. ASSUME NEW f \in EditFrame, stack = <<f>>
      PROVE  1 \in 1 .. Len(stack) /\ stack[1].op \in {"set", "delete", "clear_slot"}
  BY <1>1 DEF EditFrame
<1>2. ASSUME NEW f \in EditFrame, NEW k \in 1 .. MaxKeys + 1, NEW n \in 0 .. 1,
             stack = <<ReleaseLoop(k, n)>> \o <<f>>
      PROVE  2 \in 1 .. Len(stack) /\ stack[2].op \in {"set", "delete", "clear_slot"}
  <2> DEFINE l == ReleaseLoop(k, n)
  <2>1. stack = <<l>> \o <<f>>
    BY <1>2
  <2> HIDE DEF l
  <2>2. Len(stack) = 2 /\ stack[2] = f
    BY <2>1
  <2> QED
    BY <2>2 DEF EditFrame
<1>3. ASSUME NEW s \in 1 .. NumSlots + 1, stack = <<ClearFrom(s)>>
      PROVE  1 \in 1 .. Len(stack) /\ stack[1].op = "clear"
  BY <1>3 DEF ClearFrom
<1> QED
  BY <1>1, <1>2, <1>3 DEF Editing

\* While no edit has begun, the behavior of a slot is held as often as the pool has a
\* combo of the slot that keeps it held.
Balances == unedited => \A s \in Slots : balance(s) = 0

LEMMA UneditedBefore ==
  ASSUME Inv, PlainCalls, Next, unedited'
  PROVE  unedited
<1>1. edits \in Nat
  BY DEF Inv, TypeOK
<1>2. edits' = edits \/ edits' = edits + 1
  <2>1. CASE DownIgnored \/ DownCaptured \/ BubbleDown
    BY <2>1 DEF DownIgnored, DownCaptured, BubbleDown, table
  <2>2. CASE ReleaseFirstKey \/ ReraiseKey \/ ReleaseDone \/ CleanupReleasesAgain
    BY <2>2, SMTT(30) DEF ReleaseFirstKey, ReraiseKey, ReleaseDone, CleanupReleasesAgain, table
  <2>3. CASE UpCleanup \/ UpHandled \/ UpReraised \/ UpBubbles \/ TimeoutReturns
    BY <2>3 DEF UpCleanup, UpHandled, UpReraised, UpBubbles, TimeoutReturns, table
  <2>4. CASE FinishSet \/ FinishDelete \/ ClearAllSaves \/ ClearAllWipes \/ ClearAllQuiesces
    BY <2>4 DEF FinishSet, FinishDelete, ClearAllSaves, ClearAllWipes, ClearAllQuiesces,
       write_slot, table
  <2>5. CASE Timeout \/ Tick \/ Keys \/ Others
    BY <2>5, OthersTouchNothing
    DEF Timeout, TimeoutTooEarly, TimeoutExpires, Tick, Keys, Press, Release, table
  <2>6. CASE Edits
    BY <2>6 DEF Edits, StartSet, StartDelete, StartClearAll, table
  <2> QED
    BY <2>1, <2>2, <2>3, <2>4, <2>5, <2>6 DEF Next, Handler
<1>3. edits = 0
  BY <1>1, <1>2 DEF unedited
<1>4. \A i \in 1 .. Len(stack) : stack[i] \in PlainFrame
  BY DEF PlainCalls
<1> QED
  BY <1>3, <1>4 DEF unedited, PlainFrame

LEMMA NextBalances ==
  ASSUME MatcherInv, Room, [Next]_vars, [Edits => pressed_keys_count <= 1]_vars, Balances
  PROVE  Balances'
<1> USE DEF MatcherInv
<1> SUFFICES ASSUME unedited' PROVE \A s \in Slots : balance(s)' = 0
  BY DEF Balances
<1>1. CASE UNCHANGED vars
  <2>1. UNCHANGED <<matching, active_combos, held, slots>> /\ unedited
    BY <1>1 DEF vars, pool, table, unedited
  <2> QED
    BY <2>1, SameFires DEF KeepsBalance, Balances
<1>2. CASE Next /\ Editing
  <2>1. Handler
    BY <1>2, EditingCalls, OthersTouchNothing
    DEF Next, Timeout, TimeoutTooEarly, TimeoutExpires, Tick, Keys, Press,
       Release, Edits, StartSet, StartDelete, StartClearAll, Idle
  <2>2. EditLeft'
    BY <1>2, <2>1, EditGoesOn
  <2>3. ~ Editing'
    <3>1. Editing' => ~ unedited'
      BY EditingShows, PTL
    <3> QED
      BY <3>1
  <2>4. edits' > 0 /\ edits' = 0
    BY <2>2, <2>3 DEF EditLeft, unedited
  <2> QED
    BY <2>4
<1>3. CASE Next /\ PlainCalls /\ ~ UNCHANGED vars
  <2>1. \A s \in Slots : balance(s) = 0
    BY <1>3, UneditedBefore DEF Balances
  <2>2. CASE Handler
    BY <1>3, <2>1, <2>2, PlainKeeps DEF MatchKept, KeepsBalance
  <2>3. CASE Timeout \/ Tick \/ Keys \/ Others
    BY <1>3, <2>1, <2>3, OthersKeepMatch DEF MatchKept, KeepsBalance
  <2>4. CASE Edits
    <3>1. Editing'
      BY <1>3, <2>4, EditStarts
    <3>2. Editing' => ~ unedited'
      BY EditingShows, PTL
    <3> QED
      BY <3>1, <3>2
  <2> QED
    BY <1>3, <2>2, <2>3, <2>4 DEF Next
<1> QED
  BY <1>1, <1>2, <1>3

\* Until the table is edited the behavior of a slot is held as often as the pool has a
\* combo of the slot that keeps it held, so every press of it is released, once; and an
\* edit never leaves it held more often than that.
THEOREM BehaviorsStayBalanced ==
  Spec /\ []PoolSuffices /\ CalmEdits => []BehaviorsBalanced
<1>1. Init => Balances
  <2> SUFFICES ASSUME Init, NEW s \in Slots PROVE balance(s) = 0
    BY DEF Balances
  <2>1. pressing_in(active_combos, s) = {} /\ held[s] = 0
    BY ConstantFacts DEF Init, pressing_in, pressing, FreeEntry
  <2>2. Cardinality(pressing_in(active_combos, s)) = 0
    BY <2>1, FS_EmptySet
  <2> QED
    BY <2>1, <2>2 DEF balance
<1>2. MatcherInv /\ PoolSuffices /\ [Next]_vars /\ [Edits => pressed_keys_count <= 1]_vars
        /\ Balances => Balances'
  BY PoolHasRoom, NextBalances
<1>3. MatcherInv /\ Balances => BehaviorsBalanced
  <2> SUFFICES ASSUME MatcherInv, Balances, NEW s \in Slots
               PROVE  LET keeping == {i \in held_combos :
                            /\ active_combos[i].slot = s
                            /\ resolves(slots[s].behavior)
                            /\ slots[s].slow \/ Cardinality(active_combos[i].keys) = key_count(s)}
                      IN  /\ held[s] <= Cardinality(keeping)
                          /\ unedited => held[s] = Cardinality(keeping)
    BY DEF BehaviorsBalanced
  <2> DEFINE keeping == {i \in held_combos :
                     /\ active_combos[i].slot = s
                     /\ resolves(slots[s].behavior)
                     /\ slots[s].slow \/ Cardinality(active_combos[i].keys) = key_count(s)}
  <2>1. keeping = pressing_in(active_combos, s)
    BY ConstantFacts DEF held_combos, pressing_in, pressing
  <2>2. balance(s) <= 0 /\ (unedited => balance(s) = 0) /\ held[s] \in Int
    BY DEF Balances, MatcherInv, FireInv, Inv, TypeOK
  <2>3. Cardinality(pressing_in(active_combos, s)) \in Nat
    <3>1. IsFiniteSet(1 .. MaxPressed) /\ pressing_in(active_combos, s) \in SUBSET (1 .. MaxPressed)
      BY FS_Interval, ConstantFacts DEF pressing_in
    <3> QED
      BY <3>1, FS_Subset, FS_CardinalityType
  <2> HIDE DEF keeping
  <2>4. /\ held[s] <= Cardinality(keeping)
        /\ unedited => held[s] = Cardinality(keeping)
    BY <2>1, <2>2, <2>3 DEF balance
  <2> QED
    BY <2>4 DEF keeping
<1> QED
  BY <1>1, <1>2, <1>3, MatcherHolds, PTL DEF Spec, CalmEdits

\* The start of a combo: only the end of a match that is complete is one.
LEMMA CleanupInPlace ==
  ASSUME Inv, NEW keys \in Buffer, NEW count \in 0 .. MaxKeys, NEW full \in Slots \cup {NoSlot},
         full # NoSlot => /\ Complete(full, keys, count) /\ free_entries # {}
                          /\ InPlace(full, pressed_keys[1].timestamp, origin),
         NEW caller, cleanup(keys, count, full, caller), NEW i \in 1 .. MaxPressed, new_combo(i)
  PROVE  LET s == active_combos'[i].slot
         IN  /\ InPlace(s, pressed_keys[1].timestamp, origin)
             /\ Cardinality(active_combos'[i].keys) = key_count(s)
<1>1. full # NoSlot
  <2> SUFFICES ASSUME full = NoSlot PROVE FALSE
    OBVIOUS
  <2>1. UNCHANGED active_combos
    BY DEF cleanup, pool
  <2> QED
    BY <2>1 DEF new_combo
<1>2. PICK j \in 1 .. MaxPressed :
        active_combos' = [active_combos EXCEPT ![j] = [slot |-> full, keys |-> slots[full].keys]]
  BY <1>1, FiringIs DEF cleanup
<1>3. active_combos \in Pool
  BY StateTypes
<1>4. active_combos'[i] = [slot |-> full, keys |-> slots[full].keys]
  BY <1>2, <1>3 DEF new_combo, Pool
<1> QED
  BY <1>1, <1>4 DEF key_count

\* A key that is let go takes no free entry into use.
LEMMA UpHandledStartsNone ==
  ASSUME Inv, UpHandled, NEW i \in 1 .. MaxPressed
  PROVE  ~ new_combo(i)
<1> SUFFICES ASSUME active_combos[i].slot = NoSlot PROVE active_combos'[i].slot = NoSlot
  BY DEF new_combo
<1> DEFINE n == active_combo_count
           j == Min(combos_with(top.event.position))
           remaining == active_combos[j].keys \ {top.event.position}
           combos == [active_combos EXCEPT ![j].keys = remaining]
<1>1. /\ combos_with(top.event.position) # {} /\ active_combos \in Pool /\ n \in 0 .. MaxPressed
      /\ active_combos' = IF remaining = {} THEN deactivate_combo(combos, j) ELSE combos
  BY StateTypes DEF UpHandled, Inv, TypeOK
<1>2. j \in 1 .. n
  <2>1. combos_with(top.event.position) \in SUBSET Nat
    BY DEF combos_with
  <2>2. j \in combos_with(top.event.position)
    BY <1>1, <2>1, MinOfNaturals
  <2> HIDE DEF j
  <2> QED
    BY <2>2 DEF combos_with
<1> HIDE DEF j, remaining
<1>3. i # j /\ i # n
  BY <1>1, <1>2, ConstantFacts DEF Inv, PoolDense, held_combos
<1>4. combos[i] = active_combos[i]
  BY <1>1, <1>3 DEF Pool
<1>5. DOMAIN combos = 1 .. MaxPressed
  BY <1>1 DEF Pool
<1> HIDE DEF combos
<1>6. deactivate_combo(combos, j)[i] = combos[i]
  BY <1>3, <1>5 DEF deactivate_combo
<1> QED
  BY <1>1, <1>4, <1>6

\* Nor does a combo that an edit lets go of.
LEMMA LetGoStartsNone ==
  ASSUME Inv, NEW s \in Slots, quiesce_held(s) \/ UNCHANGED pool, NEW i \in 1 .. MaxPressed
  PROVE  ~ new_combo(i)
<1> SUFFICES ASSUME active_combos[i].slot = NoSlot PROVE active_combos'[i].slot = NoSlot
  BY DEF new_combo
<1> DEFINE n == active_combo_count
           entries == {j \in 1 .. n : active_combos[j].slot = s}
           k == Min(entries)
<1>1. CASE UNCHANGED active_combos
  BY <1>1
<1>2. CASE entries # {} /\ active_combos' = deactivate_combo(active_combos, k)
  <2>1. active_combos \in Pool /\ n \in 0 .. MaxPressed
    BY StateTypes DEF Inv, TypeOK
  <2>2. k \in 1 .. n
    <3>1. entries \in SUBSET Nat /\ entries # {} /\ entries \subseteq 1 .. n
      BY <1>2
    <3> HIDE DEF entries
    <3> QED
      BY <3>1, MinOfNaturals
  <2> HIDE DEF k
  <2>3. i # k /\ i # n
    BY <2>1, <2>2, ConstantFacts DEF Inv, PoolDense, held_combos
  <2> QED
    BY <1>2, <2>1, <2>3 DEF deactivate_combo, Pool
<1> QED
  BY <1>1, <1>2 DEF quiesce_held, pool

\* The slot whose entry the end of an edit lets go of.
LEMMA EditLetsGo ==
  ASSUME Inv, FinishSet \/ FinishDelete \/ ClearAllWipes
  PROVE  \E s \in Slots : quiesce_held(s) \/ UNCHANGED pool
<1>1. stack # <<>> /\ top \in Frame
  BY StackPops DEF FinishSet, FinishDelete, ClearAllWipes, Runs, Inv, TypeOK
<1>2. CASE FinishSet \/ FinishDelete
  BY <1>1, <1>2, FrameFields DEF FinishSet, FinishDelete, Runs
<1>3. CASE ClearAllWipes /\ Runs("clear_slot")
  BY <1>1, <1>3, FrameFields DEF ClearAllWipes, Runs
<1>4. CASE ClearAllWipes /\ ~ Runs("clear_slot")
  <2>1. 1 \in Slots /\ UNCHANGED pool
    BY <1>4, ConstantFacts DEF ClearAllWipes, Slots
  <2> QED
    BY <2>1
<1> QED
  BY <1>2, <1>3, <1>4

\* An edit aborts a match without a combo.
LEMMA EditAborts ==
  ASSUME Edits \/ ClearAllQuiesces
  PROVE  UNCHANGED <<slots, down, host, active_combos, arrival>>
<1>1. ASSUME NEW q, quiesce_match(q) PROVE UNCHANGED <<active_combos, arrival>>
  BY <1>1 DEF quiesce_match, cleanup, pool
<1> QED
  BY <1>1 DEF Edits, StartSet, StartDelete, StartClearAll, ClearAllQuiesces, table, pool

LEMMA NextInPlace ==
  MatcherInv /\ Room /\ [Next]_vars =>
    \A i \in 1 .. MaxPressed : new_combo(i) =>
      LET s == active_combos'[i].slot
      IN  /\ InPlace(s, pressed_keys[1].timestamp, origin)
          /\ Cardinality(active_combos'[i].keys) = key_count(s)
<1> SUFFICES ASSUME MatcherInv, Room, [Next]_vars,
                    NEW i \in 1 .. MaxPressed, new_combo(i)
             PROVE  LET s == active_combos'[i].slot
                    IN  /\ InPlace(s, pressed_keys[1].timestamp, origin)
                        /\ Cardinality(active_combos'[i].keys) = key_count(s)
  OBVIOUS
<1> USE DEF MatcherInv
<1>1. /\ fully_pressed_combo \in Slots \cup {NoSlot}
      /\ fully_pressed_combo # NoSlot =>
           /\ Complete(fully_pressed_combo, pressed_keys, pressed_keys_count)
           /\ free_entries # {}
           /\ InPlace(fully_pressed_combo, pressed_keys[1].timestamp, origin)
  <2>1. fully_pressed_combo \in Slots \cup {NoSlot}
    BY DEF Inv, TypeOK
  <2>2. fully_pressed_combo # NoSlot =>
           /\ Complete(fully_pressed_combo, pressed_keys, pressed_keys_count)
           /\ pressed_keys_count > 0 /\ free_entries # {}
    BY StateTypes, HaveRoom DEF FireInv, CandidatesFit
  <2> QED
    BY <2>1, <2>2 DEF MatchInv
<1>2. UNCHANGED active_combos => FALSE
  BY DEF new_combo
<1>3. CASE DownCaptured
  <2>1. PICK keys \in Buffer, count \in 0 .. MaxKeys, full \in Slots \cup {NoSlot} :
          \/ \E caller \in Seq(Frame) : MatchEnds(keys, count, caller, full)
          \/ MatchGoesOn(keys, count, full)
    BY <1>3, CaptureOutcome
  <2>2. PICK caller \in Seq(Frame) : MatchEnds(keys, count, caller, full)
    BY <1>2, <2>1 DEF MatchGoesOn
  <2>3. full # NoSlot => /\ Complete(full, keys, count) /\ free_entries # {}
                         /\ InPlace(full, pressed_keys[1].timestamp, origin)
    BY <1>3, <2>2, HaveRoom DEF MatchEnds, Captured, DownCaptured
  <2> QED
    BY <2>2, <2>3, CleanupInPlace DEF MatchEnds
<1>4. CASE UpCleanup
  <2>1. cleanup(pressed_keys, pressed_keys_count, fully_pressed_combo,
                <<UpCleaned(top.event)>> \o rest)
    BY <1>4 DEF UpCleanup
  <2> QED
    BY <1>1, <2>1, StateTypes, CleanupInPlace
<1>5. CASE TimeoutExpires
  <2>1. cleanup(pressed_keys, pressed_keys_count, fully_pressed_combo, <<TimedOut>>)
    BY <1>2, <1>5 DEF TimeoutExpires, pool
  <2> QED
    BY <1>1, <2>1, StateTypes, CleanupInPlace
<1>6. CASE UpHandled
  BY <1>6, UpHandledStartsNone
<1>7. CASE DownIgnored \/ BubbleDown \/ ReleaseFirstKey \/ ReraiseKey \/ ReleaseDone
  BY <1>2, <1>7 DEF DownIgnored, BubbleDown, ReleaseFirstKey, ReraiseKey, ReleaseDone, pool
<1>8. CASE UpReraised \/ UpBubbles \/ TimeoutReturns \/ CleanupReleasesAgain
  BY <1>2, <1>8 DEF UpReraised, UpBubbles, TimeoutReturns, CleanupReleasesAgain, pool
<1>9. CASE FinishSet \/ FinishDelete \/ ClearAllWipes
  BY <1>9, EditLetsGo, LetGoStartsNone
<1>10. CASE TimeoutTooEarly \/ Tick \/ Keys \/ Others \/ ClearAllSaves \/ UNCHANGED vars
  BY <1>2, <1>10, OthersTouchNothing
  DEF ClearAllSaves, TimeoutTooEarly, Tick, Keys, Press, Release, vars, pool
<1>11. CASE Edits \/ ClearAllQuiesces
  BY <1>2, <1>11, EditAborts
<1> QED
  BY <1>3, <1>4, <1>5, <1>6, <1>7, <1>8, <1>9, <1>10, <1>11 DEF Next, Handler, Timeout

\* A combo starts whole, and only if as the first of its keys came its layer was active and
\* that key not typed too soon after others, however long ago that was and whatever layers
\* have been switched and keycodes raised since.
THEOREM CombosFireInPlace ==
  Spec /\ []PoolSuffices /\ CalmEdits => CombosFireInTheirPlace
<1>1. MatcherInv /\ Room /\ [Next]_vars =>
        [\A i \in 1 .. MaxPressed : new_combo(i) =>
           LET s == active_combos'[i].slot
           IN  /\ slot_active_on_layer(s, origin.layer)
               /\ Cardinality(active_combos'[i].keys) = key_count(s)
               /\ origin.tapped + slots[s].idle <= pressed_keys[1].timestamp]_vars
  BY NextInPlace DEF InPlace
<1>2. MatcherInv /\ PoolSuffices => Room
  BY PoolHasRoom
<1> QED
  BY <1>1, <1>2, MatcherHolds, PTL DEF Spec, CombosFireInTheirPlace

-----------------------------------------------------------------------------
(* The combo engine                                                        *)

\* Parts of a sequence.
LEMMA SequenceParts ==
  ASSUME NEW t \in Seq(Positions), NEW w \in Seq(Positions)
  PROVE  /\ t \o w \in Seq(Positions) /\ Len(t \o w) = Len(t) + Len(w)
         /\ SubSeq(t \o w, 1, Len(t)) = t
         /\ SubSeq(t \o w, Len(t) + 1, Len(t \o w)) = w
<1> DEFINE z == t \o w
<1>1. /\ z \in Seq(Positions) /\ Len(z) = Len(t) + Len(w) /\ Len(t) \in Nat /\ Len(w) \in Nat
      /\ \A i \in 1 .. Len(t) : z[i] = t[i]
      /\ \A i \in 1 .. Len(w) : z[Len(t) + i] = w[i]
  BY TwoParts, ConcatProperties
<1> HIDE DEF z
<1>2. SubSeq(z, 1, Len(t)) = t
  <2>1. /\ SubSeq(z, 1, Len(t)) \in Seq(Positions) /\ Len(SubSeq(z, 1, Len(t))) = Len(t)
        /\ \A i \in 1 .. Len(t) : SubSeq(z, 1, Len(t))[i] = t[i]
    BY <1>1
  <2> QED
    BY <2>1, SeqEqual
<1>3. SubSeq(z, Len(t) + 1, Len(z)) = w
  <2> DEFINE y == SubSeq(z, Len(t) + 1, Len(z))
  <2>1. y \in Seq(Positions) /\ Len(y) = Len(w) /\ \A i \in 1 .. Len(w) : y[i] = w[i]
    BY <1>1
  <2> HIDE DEF y
  <2>2. y = w
    BY <2>1, SeqEqual
  <2> QED
    BY <2>2 DEF y
<1> QED
  BY <1>1, <1>2, <1>3 DEF z

\* The presses t in front leave.
LEMMA OldestLeave ==
  ASSUME NEW t \in Seq(Positions), NEW w \in Seq(Positions), Distinct(t \o w)
  PROVE  without(t \o w, Range(t)) = w
<1> DEFINE u == <<>>
<1>1. u \o t = t /\ u \o w = w
  BY ConcatEmptySeq
<1>2. u \in Seq(Positions)
  OBVIOUS
<1> HIDE DEF u
<1>3. Distinct((u \o t) \o w)
  BY <1>1
<1>4. without((u \o t) \o w, Range(t)) = u \o w
  BY <1>2, <1>3, PressesLeave
<1> QED
  BY <1>1, <1>4

\* The oldest press goes on.
LEMMA HeadPasses ==
  ASSUME Inv, PressInv, NEW e \in Event, NEW v \in Seq(Positions),
         arrival = <<e.position>> \o v, pass_down(e), UNCHANGED <<slots, down, active_combos>>
  PROVE  Engine!Pass
<1> DEFINE t == <<e.position>>
<1>1. t \in Seq(Positions) /\ Len(t) = 1 /\ t[1] = e.position /\ Range(t) = {e.position}
  <2>1. t \in Seq(Positions) /\ Len(t) = 1 /\ t[1] = e.position
    BY DEF Event
  <2>2. Range(t) = {t[i] : i \in 1 .. Len(t)}
    BY <2>1, RangeEquality
  <2> HIDE DEF t
  <2> QED
    BY <2>1, <2>2
<1>2. arrival = t \o v
  OBVIOUS
<1> HIDE DEF t
<1>3. /\ arrival \in Seq(Positions) /\ Len(arrival) = Len(v) + 1 /\ Len(v) \in Nat
      /\ SubSeq(arrival, 2, Len(arrival)) = v
      /\ arrival[1] = e.position
  BY <1>1, <1>2, SequenceParts, ConcatProperties
<1>4. arrival # <<>> /\ Head(arrival) = e.position /\ Tail(arrival) = v
  BY <1>3
<1>5. without(arrival, {e.position}) = v
  <2>1. without(t \o v, Range(t)) = v
    <3>1. t \in Seq(Positions) /\ Distinct(t \o v)
      BY <1>1, <1>2 DEF PressInv
    <3> QED
      BY <3>1, OldestLeave
  <2> QED
    BY <1>1, <1>2, <2>1
<1>6. arrival' = Tail(arrival) /\ host' = host \cup {Head(arrival)}
  BY <1>4, <1>5 DEF pass_down
<1> QED
  BY <1>4, <1>6 DEF Engine!Pass, combo_positions, held_combos, slot_is_active, key_count

\* A match that ends with a combo takes the oldest presses, and all of its keys.
LEMMA CleanupCombines ==
  ASSUME Inv, PressInv, NEW keys \in Buffer, NEW count \in 0 .. MaxKeys,
         NEW full \in Slots \cup {NoSlot},
         full # NoSlot => Complete(full, keys, count) /\ free_entries # {},
         NEW q \in Seq(Frame), presses(keys, count, q) = arrival,
         cleanup(keys, count, full, q), UNCHANGED <<slots, down, host>>
  PROVE  Engine!Combine \/ UNCHANGED Engine!vars
<1>1. CASE full = NoSlot
  <2>1. UNCHANGED <<slots, down, host, active_combos, arrival>>
    BY <1>1 DEF cleanup, pool
  <2> QED
    BY <2>1 DEF Engine!vars, combo_positions, held_combos, slot_is_active, key_count
<1>2. CASE full # NoSlot
  <2> DEFINE T == slots[full].keys
             k == key_count(full)
             t == between(keys, 1, k)
             w == between(keys, k + 1, count) \o keys_below(keys, q)
  <2>1. PICK i \in 1 .. MaxPressed :
          /\ active_combos[i].slot = NoSlot
          /\ active_combos' = [active_combos EXCEPT ![i] = [slot |-> full, keys |-> T]]
          /\ arrival' = without(arrival, T)
    BY <1>2, FiringIs DEF cleanup
  <2>2. /\ full \in Slots /\ slot_is_active(full)
        /\ k \in Nat /\ k >= 2 /\ k <= count /\ positions_of(keys, 1, k) = T
    BY <1>2, KeyCount DEF Inv, Complete, slot_is_active
  <2>3. /\ k \in 0 .. MaxKeys /\ 1 \in 1 .. MaxKeys + 1 /\ 1 - 1 <= k /\ k + 1 \in 1 .. MaxKeys + 1
    BY <2>2, ConstantFacts
  <2> HIDE DEF k, T
  <2>4. /\ t \in Seq(Positions) /\ Len(t) = k /\ Range(t) = T
    <3>1. t \in Seq(Positions) /\ Len(t) = IF 1 <= k THEN k - 1 + 1 ELSE 0
      BY <2>3, Between
    <3>2. Range(t) = T
      BY <2>2, <2>3, BetweenRange
    <3> HIDE DEF t
    <3> QED
      BY <2>2, <3>1, <3>2
  <2>5. w \in Seq(Positions) /\ arrival = t \o w
    <3> DEFINE a == between(keys, k + 1, count)
               b == keys_below(keys, q)
    <3>1. a \in Seq(Positions) /\ b \in Seq(Positions)
      BY <2>3, Between, PressesType
    <3>2. between(keys, 1, count) = t \o a
      BY <2>2, <2>3, BetweenSplits
    <3>3. arrival = (t \o a) \o b
      BY <3>2 DEF presses
    <3> HIDE DEF a, b, t
    <3>4. t \in Seq(Positions)
      BY <2>4
    <3>5. (t \o a) \o b = t \o (a \o b) /\ a \o b \in Seq(Positions)
      BY <3>1, <3>4, JoinedInOrder
    <3> QED
      BY <3>3, <3>5 DEF a, b
  <2> HIDE DEF t, w
  <2>6. arrival' = w
    <3>1. without(t \o w, Range(t)) = w
      <4>1. t \in Seq(Positions) /\ w \in Seq(Positions) /\ Distinct(t \o w)
        BY <2>4, <2>5 DEF PressInv
      <4> QED
        BY <4>1, OldestLeave
    <3> QED
      BY <2>1, <2>4, <2>5, <3>1
  <2>7. /\ SubSeq(arrival, 1, k) = t /\ SubSeq(arrival, k + 1, Len(arrival)) = w
        /\ k \in 1 .. Len(arrival)
    <3>1. /\ SubSeq(arrival, 1, Len(t)) = t /\ SubSeq(arrival, Len(t) + 1, Len(arrival)) = w
          /\ Len(arrival) = Len(t) + Len(w)
      <4>1. t \in Seq(Positions) /\ w \in Seq(Positions) /\ arrival = t \o w
        BY <2>4, <2>5
      <4>2. /\ SubSeq(t \o w, 1, Len(t)) = t /\ SubSeq(t \o w, Len(t) + 1, Len(t \o w)) = w
            /\ Len(t \o w) = Len(t) + Len(w)
        BY <4>1, SequenceParts
      <4> QED
        BY <4>1, <4>2
    <3>2. Len(w) \in Nat
      BY <2>5
    <3> QED
      BY <2>2, <2>4, <3>1, <3>2
  <2>8. Engine!keys_of(t) = T
    BY <2>4, RangeEquality DEF Engine!keys_of
  <2>9. combo_positions' = combo_positions \cup T
    <3>1. active_combos \in Pool /\ full # NoSlot
      BY <1>2, StateTypes
    <3>2. /\ active_combos'[i] = [slot |-> full, keys |-> T]
          /\ \A j \in 1 .. MaxPressed : j # i => active_combos'[j] = active_combos[j]
      BY <2>1, <3>1 DEF Pool
    <3>3. held_combos' = held_combos \cup {i} /\ i \notin held_combos
      BY <2>1, <3>1, <3>2 DEF held_combos
    <3> QED
      BY <3>2, <3>3 DEF combo_positions, held_combos
  <2>10. T \in {slots[s].keys : s \in {r \in Slots : slot_is_active(r)}}
    BY <2>2 DEF T
  <2>11. UNCHANGED <<{slots[s].keys : s \in {r \in Slots : slot_is_active(r)}}, down, host>>
    BY DEF slot_is_active, key_count
  <2> QED
    BY <2>6, <2>7, <2>8, <2>9, <2>10, <2>11 DEF Engine!Combine
<1> QED
  BY <1>1, <1>2

\* A key the user has let go leaves its combo.
LEMMA UpHandledCombines ==
  ASSUME Inv, PressInv, UpHandled
  PROVE  \E p \in Positions : Engine!ReleaseCombined(p)
<1> DEFINE x == top.event.position
           n == active_combo_count
           i == Min(combos_with(x))
           remaining == active_combos[i].keys \ {x}
           combos == [active_combos EXCEPT ![i].keys = remaining]
<1>1. /\ stack # <<>> /\ top.op = "up_cleaned" /\ top.op \in RootOps
      /\ combos_with(x) # {} /\ active_combos \in Pool /\ n \in 0 .. MaxPressed
      /\ active_combos' = IF remaining = {} THEN deactivate_combo(combos, i) ELSE combos
      /\ UNCHANGED <<slots, host, down, arrival>>
  BY StateTypes DEF UpHandled, Runs, RootOps, table, Inv, TypeOK
<1>2. x \in Positions /\ Places(Range(arrival), active_combos, host, down, {x}, edits = 0)
  <2>1. releasing(stack) = {x} /\ ~ wiping(stack) /\ top.event \in Event
    BY <1>1, AtBottom, FrameFields
  <2> QED
    BY <2>1 DEF PressInv, Event
<1>3. i \in 1 .. n /\ x \in active_combos[i].keys
  <2>1. combos_with(x) \in SUBSET Nat
    BY DEF combos_with
  <2>2. i \in combos_with(x)
    BY <1>1, <2>1, MinOfNaturals
  <2> HIDE DEF i
  <2> QED
    BY <2>2 DEF combos_with
<1> HIDE DEF x, i
<1>4. /\ i \in 1 .. MaxPressed /\ n \in 1 .. MaxPressed
      /\ \A j \in 1 .. MaxPressed : active_combos[j].slot # NoSlot <=> j \in 1 .. n
  BY <1>1, <1>3, ConstantFacts DEF Inv, PoolDense, held_combos
<1>5. /\ \A j \in 1 .. MaxPressed : in_combo(active_combos, j, x) => j = i
      /\ x \notin down /\ in_combo(active_combos, i, x)
  BY <1>2, <1>3, <1>4 DEF Places, Once, in_combo
<1>6. /\ combos \in Pool /\ combos[i].keys = remaining /\ combos[i].slot = active_combos[i].slot
      /\ \A j \in 1 .. MaxPressed : j # i => combos[j] = active_combos[j]
  <2>1. remaining \in SUBSET Positions /\ active_combos[i] \in Entry
    BY <1>1, <1>4 DEF remaining, Pool, Entry
  <2> QED
    BY <1>1, <1>4, <2>1 DEF Pool, Entry
<1> HIDE DEF n, combos
<1>7. \A p : (\E j \in 1 .. MaxPressed : in_combo(combos, j, p)) <=>
               p # x /\ \E j \in 1 .. MaxPressed : in_combo(active_combos, j, p)
  BY <1>4, <1>5, <1>6 DEF in_combo, remaining
<1>8. \A p : (\E j \in 1 .. MaxPressed : in_combo(active_combos', j, p)) <=>
               \E j \in 1 .. MaxPressed : in_combo(combos, j, p)
  <2>1. CASE remaining # {}
    BY <1>1, <2>1
  <2>2. CASE remaining = {}
    <3>1. active_combos' = [combos EXCEPT ![i] = combos[n], ![n] = FreeEntry]
      BY <1>1, <2>2 DEF deactivate_combo, n
    <3>2. \A p : ~ in_combo(combos, i, p)
      BY <1>6, <2>2 DEF in_combo
    <3>3. /\ active_combos'[n].slot = NoSlot
          /\ i # n => active_combos'[i] = combos[n]
          /\ \A j \in 1 .. MaxPressed : j # i /\ j # n => active_combos'[j] = combos[j]
      BY <1>4, <1>6, <3>1 DEF Pool, FreeEntry
    <3> QED
      BY <1>4, <3>2, <3>3 DEF in_combo
  <2> QED
    BY <2>1, <2>2
<1>9. \A p : p \in combo_positions <=> \E j \in 1 .. MaxPressed : in_combo(active_combos, j, p)
  BY DEF combo_positions, held_combos, in_combo
<1>10. \A p : p \in combo_positions' <=> \E j \in 1 .. MaxPressed : in_combo(active_combos', j, p)
  BY DEF combo_positions, held_combos, in_combo
<1>11. combo_positions' = combo_positions \ {x}
  BY <1>7, <1>8, <1>9, <1>10
<1>12. x \in combo_positions \ down
  BY <1>4, <1>5, <1>9
<1>13. Engine!ReleaseCombined(x)
  BY <1>1, <1>11, <1>12 DEF Engine!ReleaseCombined, slot_is_active, key_count
<1> QED
  BY <1>2, <1>13

\* A key the user has let go is let go downstream, with no press before it.
LEMMA UpBubblesPasses ==
  ASSUME Inv, PressInv, UpBubbles
  PROVE  (\E p \in Positions : Engine!ReleasePassed(p)) \/ UNCHANGED Engine!vars
<1> DEFINE x == top.event.position
<1>1. /\ stack # <<>> /\ top.op = "up_cleaned" /\ top.op \in RootOps /\ host' = host \ {x}
      /\ UNCHANGED <<slots, down, active_combos, arrival>>
  BY DEF UpBubbles, Runs, RootOps, pass_up, table, pool
<1>2. x \in Positions /\ x \notin down
  <2>1. releasing(stack) = {x} /\ top.event \in Event
    BY <1>1, AtBottom, FrameFields
  <2>2. x \in Positions
    BY <2>1 DEF Event
  <2> QED
    BY <2>1, <2>2 DEF PressInv, Places
<1>3. arrival = <<>>
  BY NothingBefore
<1>4. UNCHANGED <<{slots[s].keys : s \in {r \in Slots : slot_is_active(r)}}, down, combo_positions>>
  BY <1>1 DEF combo_positions, held_combos, slot_is_active, key_count
<1> HIDE DEF x
<1>5. CASE x \in host
  BY <1>1, <1>2, <1>3, <1>4, <1>5 DEF Engine!ReleasePassed
<1>6. CASE x \notin host
  BY <1>1, <1>4, <1>6 DEF Engine!vars
<1> QED
  BY <1>5, <1>6

\* The three places where a press goes on.
LEMMA PassesOn ==
  ASSUME Inv, LoopsNest, PressInv, BubblesLast, DownIgnored \/ BubbleDown \/ ReleaseFirstKey
  PROVE  Engine!Pass
<1> DEFINE u == between(pressed_keys, 1, pressed_keys_count)
           v == keys_below(pressed_keys, rest)
<1>1. /\ stack # <<>> /\ top \in Frame /\ rest \in Seq(Frame) /\ pressed_keys \in Buffer
      /\ v \in Seq(Positions) /\ keys_in(pressed_keys, top) \in Seq(Positions)
      /\ arrival = u \o (keys_in(pressed_keys, top) \o v)
      /\ UNCHANGED <<slots, down, active_combos>>
  <2>1. stack # <<>> /\ UNCHANGED <<slots, down, active_combos>>
    BY DEF DownIgnored, BubbleDown, ReleaseFirstKey, Runs, table, pool
  <2> QED
    BY <2>1, InProgress, StateTypes
<1>2. pressed_keys_count = 0
  <2>1. CASE DownIgnored
    BY <2>1 DEF DownIgnored
  <2>2. CASE BubbleDown
    <3>1. top.op = "bubble" /\ stack \in Seq(Frame)
      BY <2>2 DEF BubbleDown, Runs, Inv, TypeOK
    <3>2. ~ NoBubble(stack)
      BY <1>1, <3>1, NoBubbleRest DEF top
    <3> QED
      BY <3>1, <3>2 DEF BubblesLast, Runs
  <2>3. CASE ReleaseFirstKey
    BY <1>1, <2>3, StateTypes DEF ReleaseFirstKey, LoopsNest, in_hand, is_loop, Runs
  <2> QED
    BY <2>1, <2>2, <2>3
<1>3. arrival = keys_in(pressed_keys, top) \o v
  <2>1. u = <<>>
    <3>1. 1 \in 1 .. MaxKeys + 1 /\ 0 \in 0 .. MaxKeys /\ 0 < 1
      BY ConstantFacts
    <3> QED
      BY <1>1, <1>2, <3>1, BetweenNothing
  <2> DEFINE z == keys_in(pressed_keys, top) \o v
  <2>2. z \in Seq(Positions) /\ arrival = u \o z
    BY <1>1, TwoParts
  <2> HIDE DEF u, z
  <2>3. arrival = z
    BY <2>1, <2>2, ConcatEmptySeq
  <2> QED
    BY <2>3 DEF z
<1> HIDE DEF u
<1>4. CASE DownIgnored \/ BubbleDown
  <2>1. top.op \in {"down", "bubble"} /\ pass_down(top.event)
    BY <1>4 DEF DownIgnored, BubbleDown, Runs
  <2>2. top.event \in Event /\ keys_in(pressed_keys, top) = <<top.event.position>>
    BY <1>1, <2>1, FrameFields DEF keys_in
  <2> HIDE DEF v
  <2> QED
    BY <1>1, <1>3, <2>1, <2>2, HeadPasses
<1>5. CASE ReleaseFirstKey
  <2> DEFINE c == top.count
             b == between(pressed_keys, 2, c)
             e == pressed_keys[1]
  <2>1. top.op = "release" /\ top.next = 1 /\ c >= 1 /\ pass_down(e)
    BY <1>5 DEF ReleaseFirstKey, Runs
  <2>2. /\ c \in 0 .. MaxKeys /\ 2 \in 1 .. MaxKeys + 1 /\ 1 \in 0 .. MaxKeys /\ 1 \in 1 .. MaxKeys
        /\ 1 \in 1 .. MaxKeys + 1 /\ 1 - 1 <= 1 /\ 1 <= c /\ 1 + 1 = 2
    BY <1>1, <2>1, FrameFields, ConstantFacts
  <2>3. keys_in(pressed_keys, top) = <<e.position>> \o b
    <3>1. keys_in(pressed_keys, top) = between(pressed_keys, 1, c)
      BY <2>1 DEF keys_in
    <3>2. between(pressed_keys, 1, c)
            = between(pressed_keys, 1, 1) \o between(pressed_keys, 1 + 1, c)
      <4> HIDE DEF c
      <4> QED
        BY <1>1, <2>2, BetweenSplits
    <3>3. between(pressed_keys, 1, 1) = <<e.position>>
      BY <1>1, <2>2, BetweenOne
    <3> QED
      BY <2>2, <3>1, <3>2, <3>3
  <2>4. e \in Event /\ <<e.position>> \in Seq(Positions) /\ b \in Seq(Positions)
    <3>1. e \in Event /\ e.position \in Positions
      BY <1>1, <2>2 DEF Buffer, Event
    <3>2. b \in Seq(Positions)
      BY <1>1, <2>2, Between
    <3> QED
      BY <3>1, <3>2
  <2> HIDE DEF e, b, v
  <2>5. b \o v \in Seq(Positions) /\ arrival = <<e.position>> \o (b \o v)
    <3>1. v \in Seq(Positions) /\ arrival = (<<e.position>> \o b) \o v
      BY <1>1, <1>3, <2>3
    <3>2. (<<e.position>> \o b) \o v = <<e.position>> \o (b \o v)
      BY <2>4, <3>1, ConcatAssociative
    <3>3. b \o v \in Seq(Positions)
      BY <2>4, <3>1, TwoParts
    <3> QED
      BY <3>1, <3>2, <3>3
  <2> DEFINE y == b \o v
  <2>6. y \in Seq(Positions) /\ arrival = <<e.position>> \o y
    BY <2>5
  <2> HIDE DEF y
  <2> QED
    BY <1>1, <2>1, <2>4, <2>6, HeadPasses
<1> QED
  BY <1>4, <1>5

\* An edit changes what makes a combo and may drop a combo, and touches no press.
LEMMA TableChanges ==
  ASSUME MatcherInv, Inv', FinishSet \/ FinishDelete \/ ClearAllWipes
  PROVE  Engine!Edit
<1>1. Inv /\ FireInv /\ (PlainCalls \/ Editing)
  BY DEF MatcherInv
<1>2. MaxEdits > 0
  <2>1. stack # <<>> /\ top.op \in {"set", "delete", "clear", "clear_slot"}
    BY DEF FinishSet, FinishDelete, ClearAllWipes, Runs
  <2>2. ~ PlainCalls
    BY <2>1, PlainRest DEF PlainFrame
  <2>3. edits < MaxEdits /\ edits \in Nat /\ MaxEdits \in Nat
    BY <1>1, <2>2, ConstantsAssumption DEF Editing, Inv, TypeOK
  <2> QED
    BY <2>3
<1>3. {slots[s].keys : s \in {r \in Slots : slot_is_active(r)}}' \in SUBSET SUBSET Positions
  <2>1. slots' \in [Slots -> Record]
    BY DEF Inv, TypeOK
  <2> QED
    BY <2>1 DEF Record
<1>4. combo_positions' \subseteq combo_positions
  <2>1. PICK s \in Slots : quiesce_held(s) \/ UNCHANGED pool
    BY <1>1, EditLetsGo
  <2>2. \A i \in 1 .. MaxPressed : active_combos'[i].slot # NoSlot =>
          \E k \in 1 .. MaxPressed : active_combos'[i] = active_combos[k]
    <3>1. CASE quiesce_held(s)
      BY <1>1, <3>1, SlotIsLetGo
    <3>2. CASE UNCHANGED pool
      BY <3>2 DEF pool
    <3> QED
      BY <2>1, <3>1, <3>2
  <2> QED
    BY <2>2 DEF combo_positions, held_combos
<1>5. UNCHANGED <<down, arrival, host>>
  BY DEF FinishSet, FinishDelete, ClearAllWipes
<1> QED
  BY <1>2, <1>3, <1>4, <1>5 DEF Engine!Edit

LEMMA StepImplementsEngine ==
  MatcherInv /\ Room /\ [Next]_vars => [Engine!Next]_Engine!vars
<1> SUFFICES ASSUME MatcherInv, Room, [Next]_vars
             PROVE  [Engine!Next]_Engine!vars
  OBVIOUS
<1> USE DEF MatcherInv
<1>1. /\ fully_pressed_combo \in Slots \cup {NoSlot}
      /\ fully_pressed_combo # NoSlot =>
           Complete(fully_pressed_combo, pressed_keys, pressed_keys_count) /\ free_entries # {}
  BY HaveRoom DEF Inv, TypeOK, FireInv
<1>2. ASSUME UNCHANGED <<slots, down, host, active_combos, arrival>> PROVE UNCHANGED Engine!vars
  BY <1>2 DEF Engine!vars, combo_positions, held_combos, slot_is_active, key_count
<1>3. CASE DownIgnored \/ BubbleDown \/ ReleaseFirstKey
  BY <1>3, PassesOn DEF Engine!Next
<1>4. CASE DownCaptured
  <2>1. UNCHANGED <<slots, down, host>>
    BY <1>4 DEF DownCaptured, table
  <2>2. PICK keys \in Buffer, count \in 0 .. MaxKeys, full \in Slots \cup {NoSlot} :
          \/ \E caller \in Seq(Frame) : MatchEnds(keys, count, caller, full)
          \/ MatchGoesOn(keys, count, full)
    BY <1>4, CaptureOutcome
  <2>3. ASSUME NEW caller \in Seq(Frame), MatchEnds(keys, count, caller, full)
        PROVE  Engine!Combine \/ UNCHANGED Engine!vars
    BY <1>4, <2>1, <2>3, HaveRoom, CleanupCombines DEF MatchEnds, Captured, DownCaptured
  <2>4. CASE MatchGoesOn(keys, count, full)
    BY <1>2, <2>1, <2>4 DEF MatchGoesOn
  <2> QED
    BY <2>2, <2>3, <2>4 DEF Engine!Next
<1>5. CASE UpCleanup
  <2> DEFINE q == <<UpCleaned(top.event)>> \o rest
  <2>1. /\ stack # <<>> /\ top.op = "up" /\ UNCHANGED <<slots, down, host>>
        /\ cleanup(pressed_keys, pressed_keys_count, fully_pressed_combo, q)
    BY <1>5 DEF UpCleanup, Runs, table
  <2>2. presses(pressed_keys, pressed_keys_count, q) = arrival /\ q \in Seq(Frame)
    <3> DEFINE f == UpCleaned(top.event)
    <3>1. f \in Frame /\ f.op = "up_cleaned" /\ f.event = top.event /\ f.op \in RootOps
          /\ top.op \in RootOps
      BY <2>1, AtBottom, FrameFields, EventFrames DEF UpCleaned, RootOps
    <3> HIDE DEF f
    <3>2. presses(pressed_keys, pressed_keys_count, <<f>>) = arrival
          /\ <<f>> \in Seq(Frame) /\ <<f>> \o rest = <<f>>
      BY <2>1, <3>1, BottomGoesOn
    <3> QED
      BY <3>2 DEF f
  <2> HIDE DEF q
  <2> QED
    BY <1>1, <2>1, <2>2, StateTypes, CleanupCombines DEF Engine!Next
<1>6. CASE TimeoutExpires
  <2>1. UNCHANGED <<slots, down, host>> /\ stack = <<>>
    BY <1>6 DEF TimeoutExpires, table, Idle
  <2>2. CASE cleanup(pressed_keys, pressed_keys_count, fully_pressed_combo, <<TimedOut>>)
    <3> DEFINE q == <<TimedOut>>
    <3>1. presses(pressed_keys, pressed_keys_count, q) = arrival /\ q \in Seq(Frame)
      <4>1. TimedOut \in Frame /\ TimedOut.op \in RootOps
        BY ReleaseFrames, ConstantFacts DEF TimedOut, RootOps
      <4> QED
        BY <2>1, <4>1, StateTypes, BottomCall DEF PressInv
    <3> HIDE DEF q
    <3> QED
      BY <1>1, <2>1, <2>2, <3>1, StateTypes, CleanupCombines DEF Engine!Next, q
  <2>3. CASE UNCHANGED <<pool, arrival>>
    BY <1>2, <2>1, <2>3 DEF pool
  <2> QED
    BY <1>6, <2>2, <2>3 DEF TimeoutExpires
<1>7. CASE UpHandled
  BY <1>7, UpHandledCombines DEF Engine!Next
<1>8. CASE UpBubbles
  BY <1>8, UpBubblesPasses DEF Engine!Next
<1>9. CASE ReraiseKey \/ ReleaseDone \/ UpReraised \/ TimeoutReturns \/ CleanupReleasesAgain
             \/ ClearAllSaves
  BY <1>2, <1>9 DEF ReraiseKey, ReleaseDone, UpReraised, TimeoutReturns, CleanupReleasesAgain,
     ClearAllSaves, table, pool
<1>10. CASE TimeoutTooEarly \/ Tick \/ Others \/ UNCHANGED vars
  BY <1>2, <1>10, OthersTouchNothing DEF TimeoutTooEarly, Tick, vars, table, pool
<1>11. CASE FinishSet \/ FinishDelete \/ ClearAllWipes
  BY <1>11, NextInv, TableChanges DEF Engine!Next
<1>12. CASE Keys
  <2>1. PICK p \in Positions : Press(p) \/ Release(p)
    BY <1>12 DEF Keys
  <2>2. UNCHANGED <<{slots[s].keys : s \in {r \in Slots : slot_is_active(r)}}, host, combo_positions>>
    BY <2>1 DEF Press, Release, table, pool, combo_positions, held_combos, slot_is_active, key_count
  <2>3. CASE Press(p)
    BY <2>2, <2>3 DEF Press, Engine!Press, Engine!Next
  <2>4. CASE Release(p)
    BY <2>2, <2>4 DEF Release, Engine!Release, Engine!Next
  <2> QED
    BY <2>1, <2>3, <2>4
<1>13. CASE Edits \/ ClearAllQuiesces
  BY <1>2, <1>13, EditAborts
<1> QED
  BY <1>3, <1>4, <1>5, <1>6, <1>7, <1>8, <1>9, <1>10, <1>11, <1>12, <1>13
     DEF Next, Handler, Timeout

LEMMA InitImplementsEngine == Init => Engine!Init
<1> SUFFICES ASSUME Init PROVE Engine!Init
  OBVIOUS
<1>1. slots \in [Slots -> Record] /\ \A i \in 1 .. MaxPressed : active_combos[i].slot = NoSlot
  BY InitInv DEF Init, Inv, TypeOK, FreeEntry
<1>2. {slots[s].keys : s \in {r \in Slots : slot_is_active(r)}} \subseteq SUBSET Positions
  BY <1>1 DEF Record
<1>3. combo_positions = {}
  BY <1>1 DEF combo_positions, held_combos
<1> QED
  BY <1>2, <1>3 DEF Init, Engine!Init

\* While the pool suffices and edits are calm the matcher is a combo engine: its buffer,
\* the releases that re-enter it and its timeouts keep presses pending, and every step of
\* it is one of the engine or none.
THEOREM MatcherIsAnEngine ==
  Spec /\ []PoolSuffices /\ CalmEdits => ImplementsEngine
<1>1. MatcherInv /\ Room /\ [Next]_vars => [Engine!Next]_Engine!vars
  BY StepImplementsEngine
<1>2. MatcherInv /\ PoolSuffices => Room
  BY PoolHasRoom
<1> QED
  BY <1>1, <1>2, InitImplementsEngine, MatcherHolds, PTL DEF Spec, ImplementsEngine, Engine!Spec

\* What is left when the oldest leave.
LEMMA RestIsSuffix ==
  ASSUME NEW s \in Seq(Positions), NEW n \in 0 .. Len(s)
  PROVE  IsSuffix(SubSeq(s, n + 1, Len(s)), s)
<1> DEFINE x == SubSeq(s, n + 1, Len(s))
           y == Reverse(x)
           z == Reverse(s)
<1>1. Len(s) \in Nat /\ n \in Nat /\ n <= Len(s)
  OBVIOUS
<1>2. x \in Seq(Positions) /\ Len(x) = Len(s) - n /\ \A i \in 1 .. Len(s) - n : x[i] = s[i + n]
  BY <1>1
<1> HIDE DEF x
<1>3. /\ y \in Seq(Positions) /\ Len(y) = Len(s) - n
      /\ \A i \in 1 .. Len(s) - n : y[i] = s[Len(s) - i + 1]
  <2>1. \A i \in 1 .. Len(s) - n : x[Len(x) - i + 1] = s[Len(s) - i + 1]
    BY <1>1, <1>2
  <2>2. y = [i \in 1 .. Len(s) - n |-> s[Len(s) - i + 1]]
    BY <1>2, <2>1 DEF Reverse
  <2>3. \A i \in 1 .. Len(s) - n : s[Len(s) - i + 1] \in Positions
    BY <1>1
  <2>4. Len(s) - n \in Nat
    BY <1>1
  <2> HIDE DEF y
  <2> QED
    BY <2>2, <2>3, <2>4
<1>4. /\ z \in Seq(Positions) /\ Len(z) = Len(s)
      /\ \A i \in 1 .. Len(s) : z[i] = s[Len(s) - i + 1]
  <2>1. \A i \in 1 .. Len(s) : s[Len(s) - i + 1] \in Positions
    BY <1>1
  <2>2. z = [i \in 1 .. Len(s) |-> s[Len(s) - i + 1]]
    BY DEF Reverse
  <2> HIDE DEF z
  <2> QED
    BY <1>1, <2>1, <2>2
<1> HIDE DEF y, z
<1>5. SubSeq(y, 1, Len(y)) = SubSeq(z, 1, Len(y))
  <2>1. /\ SubSeq(y, 1, Len(y)) \in Seq(Positions) /\ SubSeq(z, 1, Len(y)) \in Seq(Positions)
        /\ Len(SubSeq(y, 1, Len(y))) = Len(y) /\ Len(SubSeq(z, 1, Len(y))) = Len(y)
        /\ \A i \in 1 .. Len(y) : SubSeq(y, 1, Len(y))[i] = y[i] /\ SubSeq(z, 1, Len(y))[i] = z[i]
    BY <1>1, <1>3, <1>4
  <2>2. \A i \in 1 .. Len(y) : y[i] = z[i]
    BY <1>1, <1>3, <1>4
  <2> QED
    BY <2>1, <2>2, SeqEqual
<1>6. Len(y) <= Len(z)
  BY <1>1, <1>3, <1>4
<1> QED
  BY <1>5, <1>6 DEF IsSuffix, IsPrefix, x, y, z

\* A step of the engine takes a press in at the end, or lets the oldest go.
LEMMA EngineKeepsOrder ==
  ASSUME arrival \in Seq(Positions), [Engine!Next]_Engine!vars
  PROVE  (\E p \in Positions : arrival' = Append(arrival, p)) \/ IsSuffix(arrival', arrival)
<1>1. Len(arrival) \in Nat
  BY LenProperties, SMTT(30)
<1>2. CASE UNCHANGED arrival
  <2>1. arrival = SubSeq(arrival, 0 + 1, Len(arrival)) /\ 0 \in 0 .. Len(arrival)
    BY <1>1
  <2>2. IsSuffix(SubSeq(arrival, 0 + 1, Len(arrival)), arrival)
    BY <2>1, RestIsSuffix
  <2> QED
    BY <1>2, <2>1, <2>2
<1>3. CASE Engine!Pass
  <2>1. arrival # <<>> /\ arrival' = Tail(arrival)
    BY <1>3 DEF Engine!Pass
  <2>2. 1 \in 0 .. Len(arrival) /\ Tail(arrival) = SubSeq(arrival, 1 + 1, Len(arrival))
    BY <1>1, <2>1
  <2>3. IsSuffix(SubSeq(arrival, 1 + 1, Len(arrival)), arrival)
    BY <2>2, RestIsSuffix
  <2> QED
    BY <2>1, <2>2, <2>3
<1>4. CASE Engine!Combine
  <2>1. PICK n \in 1 .. Len(arrival) : arrival' = SubSeq(arrival, n + 1, Len(arrival))
    BY <1>4 DEF Engine!Combine
  <2>2. n \in 0 .. Len(arrival)
    BY <1>1
  <2> QED
    BY <2>1, <2>2, RestIsSuffix
<1>5. ASSUME NEW p \in Positions, Engine!Press(p)
      PROVE  arrival' = Append(arrival, p)
  BY <1>5 DEF Engine!Press
<1>6. CASE Engine!Edit
  BY <1>2, <1>6 DEF Engine!Edit
<1>7. ASSUME NEW p \in Positions,
             Engine!Release(p) \/ Engine!ReleasePassed(p) \/ Engine!ReleaseCombined(p)
      PROVE  UNCHANGED arrival
  BY <1>7 DEF Engine!Release, Engine!ReleasePassed, Engine!ReleaseCombined
<1>8. ASSUME UNCHANGED Engine!vars PROVE UNCHANGED arrival
  BY <1>8 DEF Engine!vars
<1> QED
  BY <1>2, <1>3, <1>4, <1>5, <1>6, <1>7, <1>8 DEF Engine!Next

\* Presses leave the matcher in the order in which they were made, also those that were
\* captured, raised again and captured anew.
THEOREM PressesLeaveOrdered ==
  Spec /\ []PoolSuffices /\ CalmEdits => PressesLeaveInOrder
<1>1. MatcherInv => arrival \in Seq(Positions)
  BY StateTypes DEF MatcherInv
<1>2. MatcherInv /\ Room /\ [Next]_vars =>
        [\/ \E p \in Positions : arrival' = Append(arrival, p)
         \/ IsSuffix(arrival', arrival)]_vars
  BY <1>1, StepImplementsEngine, EngineKeepsOrder
<1>3. MatcherInv /\ PoolSuffices => Room
  BY PoolHasRoom
<1> QED
  BY <1>2, <1>3, MatcherHolds, PTL DEF Spec, PressesLeaveInOrder
================================================================================
