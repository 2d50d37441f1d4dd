---------------------------- MODULE SequenceFacts -----------------------------
(* What the proofs use of natural numbers and sequences beyond the library:    *)
(* induction, as a fact about sets of naturals rather than about a formula;    *)
(* that functions defined by recursion over positions exist and are unique;    *)
(* and where the elements of a flattened sequence come from.                   *)
EXTENDS SequencesExt, SequenceTheorems, WellFoundedInduction, TLAPS

-------------------------------------------------------------------------------
(* Induction.                                                                  *)

Less == {p \in Nat \X Nat : p[1] < p[2]}

LEMMA LessWellFounded == IsWellFoundedOn(Less, Nat)
  BY NatLessThanWellFounded DEF OpToRel, Less

\* A nonempty set of naturals has a least element.
LEMMA Least ==
    ASSUME NEW T, T \subseteq Nat, T # {}
    PROVE  \E x \in T : \A y \in T : x <= y
  <1>1. PICK x \in T : \A y \in T : <<y, x>> \notin Less
    BY LessWellFounded, WFMin
  <1>2. ASSUME NEW y \in T PROVE x <= y
    <2>1. ~ (y < x)
      BY <1>1 DEF Less
    <2> QED
      BY <2>1
  <1> QED
    BY <1>2

\* A set that holds 0, and with every natural the next one, holds them all.
LEMMA Induction ==
    ASSUME NEW S, 0 \in S, \A n \in Nat : n \in S => n + 1 \in S
    PROVE  Nat \subseteq S
  <1> DEFINE T == Nat \ S
  <1> SUFFICES ASSUME T # {} PROVE FALSE
    OBVIOUS
  <1>1. T \subseteq Nat
    OBVIOUS
  <1> HIDE DEF T
  <1>2. PICK x \in T : \A y \in T : x <= y
    BY <1>1, Least
  <1> USE DEF T
  <1>3. x # 0 /\ x - 1 \in Nat /\ x - 1 \notin T
    BY <1>2
  <1>4. (x - 1) + 1 \in S
    BY <1>3
  <1> QED
    BY <1>2, <1>4

\* The same, of the naturals up to some n.
LEMMA InductionUpTo ==
    ASSUME NEW n \in Nat, NEW S, 0 \in S, \A m \in 0 .. n - 1 : m \in S => m + 1 \in S
    PROVE  0 .. n \subseteq S
  <1> DEFINE T == {m \in Nat : m <= n => m \in S}
  <1>1. 0 \in T
    OBVIOUS
  <1>2. \A m \in Nat : m \in T => m + 1 \in T
    OBVIOUS
  <1> HIDE DEF T
  <1>3. Nat \subseteq T
    BY <1>1, <1>2, Induction
  <1> QED
    BY <1>3 DEF T

\* A nonempty set of naturals below a bound has a greatest element.
LEMMA Greatest ==
    ASSUME NEW n \in Nat, NEW T, T \subseteq 0 .. n, T # {}
    PROVE  \E x \in T : \A y \in T : y <= x
  <1> DEFINE R == {n - x : x \in T}
  <1>1. R \subseteq Nat /\ R # {}
    <2>1. \A x \in T : n - x \in Nat
      OBVIOUS
    <2> QED
      BY <2>1
  <1>2. PICK r \in R : \A s \in R : r <= s
    <2> HIDE DEF R
    <2> QED
      BY <1>1, Least
  <1>3. PICK x \in T : r = n - x
    OBVIOUS
  <1>4. ASSUME NEW y \in T PROVE y <= x
    <2>1. r <= n - y
      BY <1>2
    <2> QED
      BY <1>3, <2>1
  <1> QED
    BY <1>4

\* What Min and Max choose.
LEMMA MinIsLeast ==
    ASSUME NEW T, T \subseteq Nat, T # {}
    PROVE  Min(T) \in T /\ \A y \in T : Min(T) <= y
  BY Least DEF Min

LEMMA MaxIsGreatest ==
    ASSUME NEW n \in Nat, NEW T, T \subseteq 0 .. n, T # {}
    PROVE  Max(T) \in T /\ \A y \in T : y <= Max(T)
  <1>1. \E x \in T : \A y \in T : x >= y
    BY Greatest
  <1> QED
    BY <1>1 DEF Max

-------------------------------------------------------------------------------
(* Sums and flattened sequences.                                               *)

\* The partial sums of some naturals.
PartialSums(n, a, sums) ==
    /\ sums \in [0 .. n -> Nat]
    /\ sums[0] = 0
    /\ \A i \in 1 .. n : sums[i] = sums[i - 1] + a[i]

LEMMA OneMoreSum ==
    ASSUME NEW m \in Nat, NEW a, NEW s, PartialSums(m, a, s), a[m + 1] \in Nat
    PROVE  \E t : PartialSums(m + 1, a, t)
  <1> DEFINE t == [i \in 0 .. m + 1 |-> IF i = m + 1 THEN s[m] + a[m + 1] ELSE s[i]]
  <1>1. s \in [0 .. m -> Nat] /\ s[0] = 0 /\ \A i \in 1 .. m : s[i] = s[i - 1] + a[i]
    BY DEF PartialSums
  <1>2. t[m + 1] = s[m] + a[m + 1] /\ \A i \in 0 .. m : t[i] = s[i]
    OBVIOUS
  <1>3. t \in [0 .. m + 1 -> Nat]
    BY <1>1
  <1>4. t[0] = 0
    BY <1>1, <1>2
  <1> HIDE DEF t
  <1>5. \A i \in 1 .. m + 1 : t[i] = t[i - 1] + a[i]
    <2> SUFFICES ASSUME NEW i \in 1 .. m + 1 PROVE t[i] = t[i - 1] + a[i]
      OBVIOUS
    <2>1. CASE i = m + 1
      BY <1>2, <2>1
    <2>2. CASE i \in 1 .. m
      BY <1>1, <1>2, <2>2
    <2> QED
      BY <2>1, <2>2
  <1> QED
    BY <1>3, <1>4, <1>5 DEF PartialSums

LEMMA PartialSumsExist ==
    ASSUME NEW n \in Nat, NEW a \in [1 .. n -> Nat]
    PROVE  \E sums : PartialSums(n, a, sums)
  <1> DEFINE S == {m \in 0 .. n : \E sums : PartialSums(m, a, sums)}
  <1>1. 0 \in S
    <2>1. PartialSums(0, a, [i \in 0 .. 0 |-> 0])
      BY DEF PartialSums
    <2> QED
      BY <2>1
  <1>2. ASSUME NEW m \in 0 .. n - 1, m \in S PROVE m + 1 \in S
    <2>1. PICK s : PartialSums(m, a, s)
      BY <1>2
    <2>2. m + 1 \in 0 .. n /\ m \in Nat /\ a[m + 1] \in Nat
      OBVIOUS
    <2> HIDE DEF S
    <2>3. \E t : PartialSums(m + 1, a, t)
      BY <2>1, <2>2, OneMoreSum
    <2> QED
      BY <2>2, <2>3 DEF S
  <1> HIDE DEF S
  <1>3. 0 .. n \subseteq S
    BY <1>1, <1>2, InductionUpTo
  <1> QED
    BY <1>3 DEF S

LEMMA PartialSumsUnique ==
    ASSUME NEW n \in Nat, NEW a, NEW s, NEW t, PartialSums(n, a, s),
           t = [i \in 0 .. n |-> IF i = 0 THEN 0 ELSE t[i - 1] + a[i]]
    PROVE  \A i \in 0 .. n : t[i] = s[i]
  <1> DEFINE S == {i \in 0 .. n : t[i] = s[i]}
  <1>1. 0 \in S
    BY DEF PartialSums
  <1>2. ASSUME NEW m \in 0 .. n - 1, m \in S PROVE m + 1 \in S
    <2>1. t[m + 1] = t[m] + a[m + 1]
      OBVIOUS
    <2> QED
      BY <1>2, <2>1 DEF PartialSums
  <1> HIDE DEF S
  <1>3. 0 .. n \subseteq S
    BY <1>1, <1>2, InductionUpTo
  <1> QED
    BY <1>3 DEF S

\* They do not decrease.
LEMMA PartialSumsGrow ==
    ASSUME NEW n \in Nat, NEW a \in [1 .. n -> Nat], NEW s, PartialSums(n, a, s),
           NEW k \in 0 .. n
    PROVE  \A i \in k .. n : s[k] <= s[i]
  <1> DEFINE S == {i \in 0 .. n : k <= i => s[k] <= s[i]}
  <1>1. 0 \in S
    BY DEF PartialSums
  <1>2. ASSUME NEW m \in 0 .. n - 1, m \in S PROVE m + 1 \in S
    <2>1. s[m + 1] = s[m] + a[m + 1] /\ s[m] \in Nat /\ a[m + 1] \in Nat
      BY DEF PartialSums
    <2> QED
      BY <1>2, <2>1 DEF PartialSums
  <1> HIDE DEF S
  <1>3. 0 .. n \subseteq S
    BY <1>1, <1>2, InductionUpTo
  <1> QED
    BY <1>3 DEF S

\* ss flattened up to each of its elements.
Flattens(ss, n, f) ==
    f = [i \in 1 .. n |-> IF i = 1 THEN ss[i] ELSE f[i - 1] \o ss[i]]

LEMMA OneMoreFlattened ==
    ASSUME NEW m \in Nat, NEW ss, NEW f, Flattens(ss, m, f)
    PROVE  \E g : Flattens(ss, m + 1, g)
  <1> DEFINE g == [i \in 1 .. m + 1 |->
                      IF i = m + 1 THEN IF m = 0 THEN ss[1] ELSE f[m] \o ss[m + 1]
                      ELSE f[i]]
  <1>1. /\ g[m + 1] = IF m = 0 THEN ss[1] ELSE f[m] \o ss[m + 1]
        /\ \A i \in 1 .. m : g[i] = f[i]
        /\ \A i \in 1 .. m : f[i] = IF i = 1 THEN ss[i] ELSE f[i - 1] \o ss[i]
    <2>1. \A i \in 1 .. m : f[i] = IF i = 1 THEN ss[i] ELSE f[i - 1] \o ss[i]
      BY DEF Flattens
    <2>2. \A i \in 1 .. m : g[i] = f[i]
      OBVIOUS
    <2>3. g[m + 1] = IF m = 0 THEN ss[1] ELSE f[m] \o ss[m + 1]
      OBVIOUS
    <2> HIDE DEF g
    <2> QED
      BY <2>1, <2>2, <2>3
  <1>2. g = [i \in 1 .. m + 1 |-> g[i]]
    OBVIOUS
  <1> HIDE DEF g
  <1>3. ASSUME NEW i \in 1 .. m + 1
        PROVE  g[i] = IF i = 1 THEN ss[i] ELSE g[i - 1] \o ss[i]
    <2>1. CASE i = m + 1
      BY <1>1, <2>1
    <2>2. CASE i \in 1 .. m
      BY <1>1, <2>2
    <2> QED
      BY <2>1, <2>2
  <1>4. g = [i \in 1 .. m + 1 |-> IF i = 1 THEN ss[i] ELSE g[i - 1] \o ss[i]]
    BY <1>2, <1>3
  <1> QED
    BY <1>4 DEF Flattens

LEMMA FlattensExists ==
    ASSUME NEW n \in Nat, NEW ss
    PROVE  \E f : Flattens(ss, n, f)
  <1> DEFINE S == {m \in 0 .. n : \E f : Flattens(ss, m, f)}
  <1>1. 0 \in S
    <2>1. Flattens(ss, 0, [i \in 1 .. 0 |-> ss])
      BY DEF Flattens
    <2> QED
      BY <2>1
  <1>2. ASSUME NEW m \in 0 .. n - 1, m \in S PROVE m + 1 \in S
    <2>1. PICK f : Flattens(ss, m, f)
      BY <1>2
    <2>2. \E g : Flattens(ss, m + 1, g)
      BY <2>1, OneMoreFlattened
    <2> QED
      BY <2>2
  <1> HIDE DEF S
  <1>3. 0 .. n \subseteq S
    BY <1>1, <1>2, InductionUpTo
  <1> QED
    BY <1>3 DEF S

LEMMA FlattenSeqIs ==
    ASSUME NEW S, NEW ss \in Seq(Seq(S)), ss # <<>>
    PROVE  \E f : Flattens(ss, Len(ss), f) /\ FlattenSeq(ss) = f[Len(ss)]
  <1>1. Len(ss) \in Nat \ {0}
    OBVIOUS
  <1>2. PICK g : Flattens(ss, Len(ss), g)
    BY <1>1, FlattensExists
  <1> DEFINE f == CHOOSE h : h = [i \in 1 .. Len(ss) |->
                                     IF i = 1 THEN ss[i] ELSE h[i - 1] \o ss[i]]
  <1>3. f = [i \in 1 .. Len(ss) |-> IF i = 1 THEN ss[i] ELSE f[i - 1] \o ss[i]]
    BY <1>2 DEF Flattens
  <1>4. FlattenSeq(ss) = f[Len(ss)]
    BY <1>1 DEF FlattenSeq
  <1> QED
    BY <1>3, <1>4 DEF Flattens

\* The lengths of some sequences.
Lengths(ss) == [i \in 1 .. Len(ss) |-> Len(ss[i])]

\* The elements of fs, up to the n-th of the sequences it was flattened from.
Flat(ss, sums, n, fs, S) ==
    /\ fs \in Seq(S)
    /\ Len(fs) = sums[n]
    /\ \A i \in 1 .. n : \A j \in 1 .. Len(ss[i]) :
          sums[i - 1] + j \in 1 .. Len(fs) /\ fs[sums[i - 1] + j] = ss[i][j]
    /\ \A k \in 1 .. Len(fs) :
          \E i \in 1 .. n : \E j \in 1 .. Len(ss[i]) : k = sums[i - 1] + j

LEMMA OneMoreFlat ==
    ASSUME NEW S, NEW ss \in Seq(Seq(S)), NEW sums,
           PartialSums(Len(ss), Lengths(ss), sums),
           NEW n \in 1 .. Len(ss), NEW fs, Flat(ss, sums, n - 1, fs, S)
    PROVE  Flat(ss, sums, n, fs \o ss[n], S)
  <1> DEFINE gs == fs \o ss[n]
  <1>1. /\ Len(ss) \in Nat /\ \A i \in 1 .. Len(ss) : ss[i] \in Seq(S) /\ Len(ss[i]) \in Nat
        /\ fs \in Seq(S) /\ Len(fs) = sums[n - 1] /\ n - 1 \in 0 .. Len(ss)
    BY DEF Flat
  <1>2. sums[n - 1] \in Nat /\ sums[n] = sums[n - 1] + Len(ss[n])
    BY <1>1 DEF PartialSums, Lengths
  <1>3. /\ gs \in Seq(S) /\ Len(gs) = Len(fs) + Len(ss[n])
        /\ \A k \in 1 .. Len(fs) + Len(ss[n]) :
              gs[k] = IF k <= Len(fs) THEN fs[k] ELSE ss[n][k - Len(fs)]
    BY <1>1, ConcatProperties
  <1> HIDE DEF gs
  <1>4. ASSUME NEW i \in 1 .. n, NEW j \in 1 .. Len(ss[i])
        PROVE  sums[i - 1] + j \in 1 .. Len(gs) /\ gs[sums[i - 1] + j] = ss[i][j]
    <2>1. CASE i = n
      <3>1. /\ sums[n - 1] + j = Len(fs) + j /\ (Len(fs) + j) - Len(fs) = j
            /\ Len(fs) + j \in 1 .. Len(fs) + Len(ss[n]) /\ ~ (Len(fs) + j <= Len(fs))
        BY <1>1, <2>1, SMTT(30)
      <3> QED
        BY <1>3, <2>1, <3>1
    <2>2. CASE i \in 1 .. n - 1
      <3>1. sums[i - 1] + j \in 1 .. Len(fs) /\ fs[sums[i - 1] + j] = ss[i][j]
        BY <2>2 DEF Flat
      <3> QED
        BY <1>1, <1>2, <1>3, <3>1, SMTT(30)
    <2> QED
      BY <2>1, <2>2
  <1>5. ASSUME NEW k \in 1 .. Len(gs)
        PROVE  \E i \in 1 .. n : \E j \in 1 .. Len(ss[i]) : k = sums[i - 1] + j
    <2>1. CASE k <= Len(fs)
      <3>1. k \in 1 .. Len(fs)
        BY <1>1, <2>1
      <3>2. \E i \in 1 .. n - 1 : \E j \in 1 .. Len(ss[i]) : k = sums[i - 1] + j
        BY <3>1 DEF Flat
      <3>3. 1 .. n - 1 \subseteq 1 .. n
        BY <1>1
      <3> QED
        BY <3>2, <3>3
    <2>2. CASE k > Len(fs)
      <3>1. k - Len(fs) \in 1 .. Len(ss[n]) /\ k = sums[n - 1] + (k - Len(fs))
        BY <1>1, <1>2, <1>3, <2>2, SMTT(30)
      <3> QED
        BY <3>1
    <2> QED
      BY <1>1, <2>1, <2>2
  <1>6. Len(gs) = sums[n]
    BY <1>1, <1>2, <1>3
  <1>7. Flat(ss, sums, n, gs, S)
    BY <1>3, <1>4, <1>5, <1>6 DEF Flat
  <1> QED
    BY <1>7 DEF gs

\* Every element of a flattened sequence is one of the sequences', at the place that
\* the lengths of those before it leave for it.
LEMMA FlattenSeqFacts ==
    ASSUME NEW S, NEW ss \in Seq(Seq(S))
    PROVE  \E sums : /\ PartialSums(Len(ss), Lengths(ss), sums)
                     /\ Flat(ss, sums, Len(ss), FlattenSeq(ss), S)
  <1>1. Len(ss) \in Nat /\ \A i \in 1 .. Len(ss) : ss[i] \in Seq(S) /\ Len(ss[i]) \in Nat
    OBVIOUS
  <1>2. Lengths(ss) \in [1 .. Len(ss) -> Nat]
    BY <1>1 DEF Lengths
  <1>3. PICK sums : PartialSums(Len(ss), Lengths(ss), sums)
    BY <1>1, <1>2, PartialSumsExist
  <1>4. CASE ss = <<>>
    <2>1. FlattenSeq(ss) = <<>> /\ Len(ss) = 0
      BY <1>4 DEF FlattenSeq
    <2>2. sums[0] = 0
      BY <1>3 DEF PartialSums
    <2>3. Flat(ss, sums, Len(ss), FlattenSeq(ss), S)
      BY <2>1, <2>2 DEF Flat
    <2> QED
      BY <1>3, <2>3
  <1>5. CASE ss # <<>>
    <2>1. Len(ss) # 0
      BY <1>5
    <2>2. PICK f : Flattens(ss, Len(ss), f) /\ FlattenSeq(ss) = f[Len(ss)]
      BY <1>5, FlattenSeqIs
    <2>3. \A i \in 1 .. Len(ss) : f[i] = IF i = 1 THEN ss[i] ELSE f[i - 1] \o ss[i]
      BY <2>2 DEF Flattens
    <2> DEFINE T == {m \in 0 .. Len(ss) : m # 0 => Flat(ss, sums, m, f[m], S)}
    <2>4. 0 \in T
      BY <1>1
    <2>5. ASSUME NEW m \in 0 .. Len(ss) - 1, m \in T PROVE m + 1 \in T
      <3>1. CASE m = 0
        <4>1. Flat(ss, sums, 0, <<>>, S)
          BY <1>3 DEF Flat, PartialSums
        <4>2. 1 \in 1 .. Len(ss) /\ 1 - 1 = 0
          BY <1>1, <2>1
        <4>3. Flat(ss, sums, 1 - 1, <<>>, S)
          BY <4>1, <4>2, Zenon
        <4>5. Flat(ss, sums, 1, <<>> \o ss[1], S)
          BY <1>3, <4>3, <4>2, OneMoreFlat, Zenon
        <4>4. <<>> \o ss[1] = f[1]
          BY <1>1, <2>3, <4>2, ConcatEmptySeq
        <4> QED
          BY <3>1, <4>2, <4>4, <4>5
      <3>2. CASE m # 0
        <4>1. Flat(ss, sums, m, f[m], S)
          BY <2>5, <3>2
        <4>2. m + 1 \in 1 .. Len(ss) /\ (m + 1) - 1 = m /\ m + 1 # 1
          BY <1>1, <3>2
        <4>3. Flat(ss, sums, m + 1, f[m] \o ss[m + 1], S)
          BY <1>3, <4>1, <4>2, OneMoreFlat, Zenon
        <4>4. f[m + 1] = f[m] \o ss[m + 1]
          BY <2>3, <4>2
        <4>5. m + 1 \in 0 .. Len(ss) /\ Flat(ss, sums, m + 1, f[m + 1], S)
          BY <4>2, <4>3, <4>4
        <4> QED
          BY <4>5
      <3> QED
        BY <3>1, <3>2
    <2> HIDE DEF T
    <2>6. 0 .. Len(ss) \subseteq T
      BY <1>1, <2>4, <2>5, InductionUpTo
    <2>7. Len(ss) \in T
      BY <1>1, <2>6
    <2>8. Flat(ss, sums, Len(ss), f[Len(ss)], S)
      BY <2>1, <2>7 DEF T
    <2> QED
      BY <1>3, <2>2, <2>8
  <1> QED
    BY <1>4, <1>5
===============================================================================
