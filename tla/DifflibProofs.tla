--------------------------- MODULE DifflibProofs ---------------------------
(***************************************************************************)
(* What difflib's answers are, for any two sequences: its matching blocks  *)
(* and opcodes go through both from end to end, in order, and are equal on *)
(* "equal", and the ratio is one. Before them, induction over sets and what*)
(* loops that are written as folds keep.                                   *)
(***************************************************************************)
EXTENDS Difflib, SequenceTheorems, NaturalsInduction, WellFoundedInduction, TLAPS

-----------------------------------------------------------------------------
(* Induction and recursion *)

\* Induction up to a bound, as a fact about sets.
LEMMA BoundedInduction ==
    ASSUME NEW n \in Nat, NEW S, 0 \in S, \A k \in 0..n : k < n /\ k \in S => k + 1 \in S
    PROVE  \A k \in 0..n : k \in S
<1> DEFINE Rest == {k \in 0..n : k \notin S}
<1>1. ASSUME Rest # {} PROVE FALSE
    <2>1. PICK m \in Rest : \A j \in Rest : ~(j < m)
        <3>1. Rest \subseteq Nat
            OBVIOUS
        <3>2. PICK m \in Rest : \A j \in Rest : ~(<<j, m>> \in OpToRel(<, Nat))
            <4> HIDE DEF Rest
            <4> QED BY <1>1, <3>1, WFMin, NatLessThanWellFounded, Zenon
        <3>3. \A j \in Rest : ~(j < m)
            BY <3>1, <3>2, Zenon DEF OpToRel
        <3> QED BY <3>3
    <2>2. m # 0
        OBVIOUS
    <2>3. m - 1 \in 0..n /\ m - 1 < n /\ (m - 1) + 1 = m
        BY <2>2
    <2>4. m - 1 \in S
        BY <2>1, <2>3
    <2> QED BY <2>3, <2>4
<1> QED BY <1>1

\* A value is made of values at arguments that measure less.
LooksBack(D, A, m, G) ==
    \A x \in D : \A f, g \in [D -> A] :
        (\A y \in D : m[y] < m[x] => f[y] = g[y]) => G[<<x, f>>] = G[<<x, g>>]

\* The function that G defines by recursion.
Solves(D, G, f) == f = [x \in D |-> G[<<x, f>>]]

\* A recursive definition whose values depend on smaller arguments has a solution.
LEMMA RecursionExists ==
    ASSUME NEW D, NEW A, NEW a \in A, NEW bound \in Nat, NEW m \in [D -> 0..bound],
           NEW G \in [D \X [D -> A] -> A], LooksBack(D, A, m, G)
    PROVE  \E f \in [D -> A] : Solves(D, G, f)
<1> DEFINE Good(n, f) == \A x \in D : m[x] < n => f[x] = G[<<x, f>>]
           S == {n \in 0..(bound + 1) : \E f \in [D -> A] : Good(n, f)}
<1>1. 0 \in S
    <2>1. [x \in D |-> a] \in [D -> A]
        OBVIOUS
    <2>2. Good(0, [x \in D |-> a])
        OBVIOUS
    <2>3. \E f \in [D -> A] : Good(0, f)
        <3> HIDE DEF Good
        <3> QED BY <2>1, <2>2
    <2> QED BY <2>3
<1>2. ASSUME NEW n \in 0..(bound + 1), n < bound + 1, n \in S
      PROVE  n + 1 \in S
    <2>1. PICK f \in [D -> A] : Good(n, f)
        BY <1>2
    <2> DEFINE g == [x \in D |-> G[<<x, f>>]]
    <2>2. g \in [D -> A]
        OBVIOUS
    <2>3. ASSUME NEW x \in D, m[x] < n + 1 PROVE g[x] = G[<<x, g>>]
        <3>1. \A y \in D : m[y] < m[x] => f[y] = g[y]
            BY <2>1, <2>3
        <3>2. G[<<x, f>>] = G[<<x, g>>]
            <4> HIDE DEF g
            <4> QED BY <2>2, <3>1 DEF LooksBack
        <3> QED BY <3>2
    <2>4. Good(n + 1, g)
        BY <2>3
    <2> HIDE DEF Good, g
    <2> QED BY <1>2, <2>2, <2>4
<1>3. bound + 1 \in S
    <2> HIDE DEF S
    <2>1. \A n \in 0..(bound + 1) : n < bound + 1 /\ n \in S => n + 1 \in S
        BY <1>2
    <2>2. \A n \in 0..(bound + 1) : n \in S
        BY <1>1, <2>1, BoundedInduction
    <2> QED BY <2>2
<1>4. PICK f \in [D -> A] : Good(bound + 1, f)
    BY <1>3
<1>5. Solves(D, G, f)
    BY <1>4 DEF Solves
<1> QED BY <1>5

\* A bounded set of numbers that is not empty has a greatest and a least element.
LEMMA HasMax ==
    ASSUME NEW n \in Nat, NEW S \in SUBSET (0..n), S # {}
    PROVE  \E x \in S : \A y \in S : x >= y
<1> DEFINE T == {k \in 0..n : (\E y \in S : y >= n - k) => \E x \in S : \A y \in S : x >= y}
<1>1. 0 \in T
    OBVIOUS
<1>2. ASSUME NEW k \in 0..n, k < n, k \in T PROVE k + 1 \in T
    <2>1. ASSUME NEW y \in S, y >= n - (k + 1), ~\E z \in S : z >= n - k
          PROVE  \E x \in S : \A z \in S : x >= z
        <3>1. \A z \in S : z < n - k
            BY <2>1
        <3>2. \A z \in S : y >= z
            BY <2>1, <3>1
        <3> QED BY <3>2
    <2> QED BY <1>2, <2>1
<1>3. \A k \in 0..n : k \in T
    <2> HIDE DEF T
    <2> QED BY <1>1, <1>2, BoundedInduction
<1>4. n \in T
    BY <1>3
<1>5. \E y \in S : y >= n - n
    <2>1. PICK y \in S : y \in 0..n
        OBVIOUS
    <2> QED BY <2>1
<1> QED BY <1>4, <1>5

\* A non-empty set of numbers has a least one.
LEMMA HasMin ==
    ASSUME NEW n \in Nat, NEW S \in SUBSET (0..n), S # {}
    PROVE  \E x \in S : \A y \in S : x <= y
<1> DEFINE T == {n - x : x \in S}
<1>1. T \in SUBSET (0..n) /\ T # {}
    <2>1. \A x \in S : n - x \in 0..n
        OBVIOUS
    <2> QED BY <2>1
<1>2. PICK t \in T : \A y \in T : t >= y
    <2> HIDE DEF T
    <2> QED BY <1>1, HasMax
<1>3. PICK x \in S : t = n - x
    BY <1>2
<1>4. \A y \in S : n - y \in T /\ y \in 0..n
    OBVIOUS
<1>5. \A y \in S : x <= y
    BY <1>2, <1>3, <1>4
<1> QED BY <1>5

-----------------------------------------------------------------------------
(* Loops and FlattenSeq *)

\* acc[k] is the state of a loop after k of its n turns.
Turns(base, n, step, acc) ==
    /\ acc[0] = base
    /\ \A k \in 0..n : k < n => acc[k + 1] = step[<<acc[k], k + 1>>]

\* A loop of n turns has a run.
LEMMA TurnsExist ==
    ASSUME NEW A, NEW base \in A, NEW n \in Nat, NEW step \in [A \X (1..n) -> A]
    PROVE  \E acc \in [0..n -> A] : Turns(base, n, step, acc)
<1> DEFINE D == 0..n
           m == [k \in D |-> k]
           F(k, f) == IF k = 0 THEN base ELSE step[<<f[k - 1], k>>]
           G == [xf \in D \X [D -> A] |-> F(xf[1], xf[2])]
<1>1. ASSUME NEW k \in D, NEW f \in [D -> A] PROVE F(k, f) \in A /\ G[<<k, f>>] = F(k, f)
    <2>1. k # 0 => k - 1 \in D /\ k \in 1..n
        OBVIOUS
    <2>2. k # 0 => <<f[k - 1], k>> \in A \X (1..n)
        BY <2>1
    <2>3. F(k, f) \in A
        BY <2>2
    <2> QED BY <2>3
<1>2. G \in [D \X [D -> A] -> A]
    BY <1>1
<1>3. ASSUME NEW k \in D, NEW f \in [D -> A], NEW g \in [D -> A],
             \A j \in D : m[j] < m[k] => f[j] = g[j]
      PROVE  G[<<k, f>>] = G[<<k, g>>]
    <2>1. F(k, f) = F(k, g)
        <3>1. k # 0 => k - 1 \in D /\ m[k - 1] < m[k]
            OBVIOUS
        <3> QED BY <1>3, <3>1
    <2> HIDE DEF F
    <2> QED BY <1>1, <2>1
<1>4. m \in [D -> 0..n]
    OBVIOUS
<1>5. PICK f \in [D -> A] : Solves(D, G, f)
    <2>1. LooksBack(D, A, m, G)
        BY <1>3 DEF LooksBack
    <2> HIDE DEF G, m, D
    <2> QED BY <1>2, <2>1, <1>4, RecursionExists
<1>6. \A k \in D : f[k] = F(k, f)
    <2> HIDE DEF F, G
    <2> QED BY <1>1, <1>5 DEF Solves
<1>7. f[0] = base
    <2>1. 0 \in D
        OBVIOUS
    <2> HIDE DEF D
    <2> QED BY <1>6, <2>1
<1>8. ASSUME NEW k \in 0..n, k < n PROVE f[k + 1] = step[<<f[k], k + 1>>]
    <2>1. k + 1 \in D /\ k + 1 # 0 /\ (k + 1) - 1 = k
        BY <1>8
    <2> QED BY <1>6, <2>1
<1> HIDE DEF F, G, m
<1> QED BY <1>5, <1>7, <1>8 DEF Turns

\* The facts about sequences that the provers have to find often, with a name for each.
Associates(s, t, u) == (s \o t) \o u = s \o (t \o u)

LEMMA Assoc == \A T : \A s, t, u \in Seq(T) : Associates(s, t, u)
<1> TAKE T
<1> TAKE s, t, u \in Seq(T)
<1> QED BY ConcatAssociative DEF Associates

\* The concatenation of a sequence of sequences, prefix by prefix.
IsFlat(ss, acc) ==
    /\ acc[0] = <<>>
    /\ \A k \in 0..Len(ss) : k < Len(ss) => acc[k + 1] = acc[k] \o ss[k + 1]

\* FlattenSeq, which the community modules define by recursion, is a function.
LEMMA FlatExists ==
    ASSUME NEW T, NEW ss \in Seq(Seq(T))
    PROVE  \E acc \in [0..Len(ss) -> Seq(T)] : IsFlat(ss, acc)
<1> DEFINE n == Len(ss)
           A == Seq(T)
           step == [xk \in A \X (1..n) |-> xk[1] \o ss[xk[2]]]
<1>1. n \in Nat /\ <<>> \in A /\ \A k \in 1..n : ss[k] \in A
    OBVIOUS
<1>2. \A x \in A, k \in 1..n : step[<<x, k>>] = x \o ss[k]
    OBVIOUS
<1>3. step \in [A \X (1..n) -> A]
    <2>1. \A x \in A, k \in 1..n : x \o ss[k] \in A
        BY <1>1
    <2> HIDE DEF A
    <2> QED BY <2>1
<1>4. PICK acc \in [0..n -> A] : Turns(<<>>, n, step, acc)
    <2> HIDE DEF step, A, n
    <2>1. n \in Nat /\ <<>> \in A
        BY <1>1
    <2> QED BY <2>1, <1>3, TurnsExist
<1>5. ASSUME NEW k \in 0..n, k < n PROVE acc[k + 1] = acc[k] \o ss[k + 1]
    <2> HIDE DEF step, A, n
    <2>1. acc[k] \in A /\ k + 1 \in 1..n
        BY <1>1, <1>5
    <2> QED BY <1>2, <1>4, <1>5, <2>1 DEF Turns
<1> HIDE DEF step
<1> QED BY <1>4, <1>5 DEF IsFlat, Turns

\* What IsFlat says determines FlattenSeq.
LEMMA FlatIs ==
    ASSUME NEW T, NEW ss \in Seq(Seq(T)), NEW acc, IsFlat(ss, acc)
    PROVE  FlattenSeq(ss) = acc[Len(ss)]
<1> DEFINE n == Len(ss)
           A == Seq(T)
           flat == CHOOSE f : f = [i \in 1..n |-> IF i = 1 THEN ss[i] ELSE f[i - 1] \o ss[i]]
<1>0. n \in Nat /\ \A k \in 1..n : ss[k] \in A
    OBVIOUS
<1>a. \A x, y \in A : x \o y \in A
    OBVIOUS
<1>b. \A x \in A : <<>> \o x = x
    BY ConcatEmptySeq
<1>c. <<>> \in A
    OBVIOUS
<1>1. CASE n = 0
    <2>1. ss = <<>>
        BY <1>1
    <2> QED BY <1>1, <2>1 DEF FlattenSeq, IsFlat
<1>2. CASE n # 0
    <2>1. PICK g \in [0..n -> A] : IsFlat(ss, g)
        BY FlatExists
    <2> DEFINE h == [i \in 1..n |-> g[i]]
    <2> HIDE DEF A
    <2>2. g[1] = ss[1]
        <3> HIDE DEF n
        <3>1. g[0 + 1] = <<>> \o ss[0 + 1]
            <4>1. 0 \in 0..n /\ 0 < n
                BY <1>0, <1>2
            <4> QED BY <2>1, <4>1, Zenon DEF IsFlat, n
        <3>2. ss[1] \in A
            BY <1>0, <1>2
        <3> QED BY <1>b, <3>1, <3>2
    <2>3. h = [i \in 1..n |-> IF i = 1 THEN ss[i] ELSE h[i - 1] \o ss[i]]
        <3>1. ASSUME NEW i \in 1..n, i # 1 PROVE h[i - 1] = g[i - 1]
            BY <1>0, <3>1
        <3>2. ASSUME NEW i \in 1..n, i # 1 PROVE g[i] = g[i - 1] \o ss[i]
            <4>1. i - 1 \in 0..n /\ i - 1 < n /\ (i - 1) + 1 = i
                BY <1>0, <3>2
            <4>2. g[(i - 1) + 1] = g[i - 1] \o ss[(i - 1) + 1]
                BY <2>1, <4>1 DEF IsFlat
            <4> QED BY <4>1, <4>2
        <3>3. ASSUME NEW i \in 1..n
              PROVE  g[i] = IF i = 1 THEN ss[i] ELSE h[i - 1] \o ss[i]
            <4> HIDE DEF n, h
            <4> QED BY <2>2, <3>1, <3>2
        <3> QED BY <3>3, Zenon
    <2>4. flat = [i \in 1..n |-> IF i = 1 THEN ss[i] ELSE flat[i - 1] \o ss[i]]
        <3> HIDE DEF h
        <3> QED BY <2>3
    <2>5. FlattenSeq(ss) = flat[n]
        BY <1>2 DEF FlattenSeq
    <2> DEFINE S == {k \in 0..n : acc[k] \in A /\ (k > 0 => flat[k] = acc[k])}
    <2>6. 0 \in S
        BY <1>0, <1>c DEF IsFlat
    <2>7. ASSUME NEW k \in 0..n, k < n, k \in S PROVE k + 1 \in S
        <3>1. acc[k + 1] = acc[k] \o ss[k + 1]
            BY <2>7 DEF IsFlat
        <3> HIDE DEF flat, n
        <3>2. k + 1 \in 1..n /\ ss[k + 1] \in A
            BY <1>0, <2>7
        <3>3. acc[k + 1] \in A
            BY <1>a, <2>7, <3>1, <3>2
        <3>4. flat[k + 1] = IF k + 1 = 1 THEN ss[k + 1] ELSE flat[(k + 1) - 1] \o ss[k + 1]
            BY <2>4, <3>2
        <3>5. CASE k = 0
            <4>1. acc[k + 1] = ss[k + 1]
                BY <1>b, <3>1, <3>2, <3>5 DEF IsFlat
            <4> QED BY <2>7, <3>2, <3>3, <3>4, <3>5, <4>1
        <3>6. CASE k # 0
            <4>1. flat[k] = acc[k] /\ (k + 1) - 1 = k /\ k + 1 # 1
                BY <1>0, <2>7, <3>6
            <4>2. flat[k + 1] = acc[k + 1]
                BY <3>1, <3>4, <4>1
            <4> QED BY <1>0, <3>2, <3>3, <4>2
        <3> QED BY <3>5, <3>6
    <2>8. n \in S
        <3> HIDE DEF S, flat, n
        <3>1. \A k \in 0..n : k \in S
            BY <1>0, <2>6, <2>7, BoundedInduction
        <3> QED BY <1>0, <3>1
    <2>9. flat[n] = acc[n]
        <3> HIDE DEF n, flat
        <3> QED BY <1>0, <1>2, <2>8
    <2> QED BY <2>5, <2>9
<1> QED BY <1>1, <1>2

\* A concatenation of sequences is one.
LEMMA FlatType ==
    ASSUME NEW T, NEW ss \in Seq(Seq(T)) PROVE FlattenSeq(ss) \in Seq(T)
<1>1. PICK acc \in [0..Len(ss) -> Seq(T)] : IsFlat(ss, acc)
    BY FlatExists
<1>2. FlattenSeq(ss) = acc[Len(ss)]
    BY <1>1, FlatIs
<1> QED BY <1>2

LEMMA FlatEmpty == FlattenSeq(<<>>) = <<>>
BY DEF FlattenSeq

\* One more sequence is one more piece of the concatenation.
LEMMA FlatAppend ==
    ASSUME NEW T, NEW ss \in Seq(Seq(T)), NEW s \in Seq(T)
    PROVE  FlattenSeq(Append(ss, s)) = FlattenSeq(ss) \o s
<1> DEFINE tt == Append(ss, s)
<1>1. /\ tt \in Seq(Seq(T)) /\ Len(tt) = Len(ss) + 1 /\ tt[Len(ss) + 1] = s
      /\ \A k \in 1..Len(ss) : tt[k] = ss[k]
    OBVIOUS
<1> HIDE DEF tt
<1>2. PICK acc \in [0..Len(tt) -> Seq(T)] : IsFlat(tt, acc)
    BY <1>1, FlatExists
<1>3. IsFlat(ss, acc)
    <2>1. \A k \in 0..Len(ss) : k < Len(ss) => k \in 0..Len(tt) /\ k < Len(tt) /\ k + 1 \in 1..Len(ss)
        BY <1>1
    <2> QED BY <1>1, <1>2, <2>1 DEF IsFlat
<1>4. FlattenSeq(ss) = acc[Len(ss)] /\ FlattenSeq(tt) = acc[Len(tt)]
    BY <1>1, <1>2, <1>3, FlatIs
<1>5. acc[Len(tt)] = acc[Len(ss)] \o s
    <2>1. Len(ss) \in 0..Len(tt) /\ Len(ss) < Len(tt)
        BY <1>1
    <2> QED BY <1>1, <1>2, <2>1 DEF IsFlat
<1> QED BY <1>4, <1>5 DEF tt

\* A single sequence is its own concatenation.
LEMMA FlatOne ==
    ASSUME NEW T, NEW s \in Seq(T) PROVE FlattenSeq(<<s>>) = s
BY DEF FlattenSeq

\* The first k of a sequence.
Upto(s, k) == SubSeq(s, 1, k)

\* A prefix of a sequence, and the next one.
LEMMA UptoProperties ==
    ASSUME NEW T, NEW s \in Seq(T)
    PROVE  /\ Upto(s, 0) = <<>>
           /\ Upto(s, Len(s)) = s
           /\ \A k \in 0..Len(s) : Upto(s, k) \in Seq(T) /\ Len(Upto(s, k)) = k
           /\ \A k \in 0..Len(s) : k < Len(s) => Upto(s, k + 1) = Append(Upto(s, k), s[k + 1])
<1>1. Upto(s, 0) = <<>>
    BY SubSeqEmpty DEF Upto
<1>2. Upto(s, Len(s)) = s
    BY SubSeqFull DEF Upto
<1>3. ASSUME NEW k \in 0..Len(s) PROVE Upto(s, k) \in Seq(T) /\ Len(Upto(s, k)) = k
    BY DEF Upto
<1>4. ASSUME NEW k \in 0..Len(s), k < Len(s)
      PROVE  Upto(s, k + 1) = Append(Upto(s, k), s[k + 1])
    <2>1. Upto(s, k + 1) = SubSeq(s, 1, k) \o <<s[k + 1]>>
        BY <1>4, SubSeqRecursiveSecond DEF Upto
    <2>2. s[k + 1] \in T
        BY <1>4
    <2> QED BY <1>3, <2>1, <2>2, AppendIsConcat DEF Upto
<1> QED BY <1>1, <1>2, <1>3, <1>4

\* FlattenSeq goes over concatenation.
LEMMA FlatConcat ==
    ASSUME NEW T, NEW ss \in Seq(Seq(T)), NEW tt \in Seq(Seq(T))
    PROVE  FlattenSeq(ss \o tt) = FlattenSeq(ss) \o FlattenSeq(tt)
<1> DEFINE n == Len(tt)
           P(k) == FlattenSeq(ss \o Upto(tt, k)) = FlattenSeq(ss) \o FlattenSeq(Upto(tt, k))
           S == {k \in 0..n : P(k)}
<1>0. n \in Nat /\ FlattenSeq(ss) \in Seq(T) /\ ss \o <<>> = ss
    BY FlatType, ConcatEmptySeq
<1>1. 0 \in S
    <2>1. FlattenSeq(ss) \o <<>> = FlattenSeq(ss)
        BY <1>0, ConcatEmptySeq
    <2>2. Upto(tt, 0) = <<>>
        BY UptoProperties
    <2>3. P(0)
        BY <1>0, <2>1, <2>2, FlatEmpty
    <2> HIDE DEF P, n
    <2> QED BY <1>0, <2>3
<1>2. ASSUME NEW k \in 0..n, k < n, k \in S PROVE k + 1 \in S
    <2> DEFINE u == Upto(tt, k)
    <2>1. /\ u \in Seq(Seq(T)) /\ Upto(tt, k + 1) = Append(u, tt[k + 1])
          /\ tt[k + 1] \in Seq(T)
        BY <1>2, UptoProperties
    <2>2. FlattenSeq(ss \o u) = FlattenSeq(ss) \o FlattenSeq(u)
        BY <1>2
    <2> HIDE DEF u
    <2>3. ss \o Append(u, tt[k + 1]) = Append(ss \o u, tt[k + 1]) /\ ss \o u \in Seq(Seq(T))
        <3> DEFINE w == tt[k + 1]
                   A == Seq(T)
                   v == <<w>>
        <3>1. w \in A /\ u \in Seq(A) /\ ss \in Seq(A)
            BY <2>1
        <3> HIDE DEF w, A
        <3>2. ss \o u \in Seq(A) /\ v \in Seq(A)
            BY ONLY <3>1
        <3>3. Append(u, w) = u \o v /\ Append(ss \o u, w) = (ss \o u) \o v
            BY ONLY <3>1, <3>2, AppendIsConcat
        <3> HIDE DEF v
        <3>4. Associates(ss, u, v)
            BY ONLY <3>1, <3>2, Assoc
        <3>5. ss \o Append(u, w) = Append(ss \o u, w)
            BY ONLY <3>3, <3>4 DEF Associates
        <3> QED BY ONLY <3>2, <3>5 DEF w, A
    <2>4. FlattenSeq(ss \o Upto(tt, k + 1)) = (FlattenSeq(ss) \o FlattenSeq(u)) \o tt[k + 1]
        <3>1. FlattenSeq(Append(ss \o u, tt[k + 1])) = FlattenSeq(ss \o u) \o tt[k + 1]
            BY <2>1, <2>3, FlatAppend
        <3> QED BY <2>1, <2>2, <2>3, <3>1
    <2>5. FlattenSeq(Upto(tt, k + 1)) = FlattenSeq(u) \o tt[k + 1] /\ FlattenSeq(u) \in Seq(T)
        BY <2>1, FlatAppend, FlatType
    <2>6. P(k + 1)
        <3>1. (FlattenSeq(ss) \o FlattenSeq(u)) \o tt[k + 1]
                  = FlattenSeq(ss) \o (FlattenSeq(u) \o tt[k + 1])
            <4>1. Associates(FlattenSeq(ss), FlattenSeq(u), tt[k + 1])
                BY <1>0, <2>1, <2>5, Assoc
            <4> QED BY <4>1 DEF Associates
        <3> QED BY <2>4, <2>5, <3>1
    <2> HIDE DEF P, n
    <2> QED BY <1>0, <1>2, <2>6
<1>3. n \in S
    <2> HIDE DEF S
    <2>1. \A k \in 0..n : k \in S
        BY <1>0, <1>1, <1>2, BoundedInduction
    <2> QED BY <1>0, <2>1
<1> QED BY <1>3, UptoProperties

\* What Append does, element by element.
LEMMA Appended ==
    ASSUME NEW T, NEW s \in Seq(T), NEW e \in T
    PROVE  /\ Append(s, e) \in Seq(T) /\ Append(s, e) # <<>>
           /\ Len(s) \in Nat /\ Len(Append(s, e)) = Len(s) + 1
           /\ Append(s, e)[Len(s) + 1] = e
           /\ \A k \in 1..Len(s) : Append(s, e)[k] = s[k]
           /\ s # <<>> => Head(Append(s, e)) = Head(s)
<1>1. Len(s) \in Nat /\ Len(Append(s, e)) = Len(s) + 1 /\ Append(s, e) \in Seq(T)
    OBVIOUS
<1>2. Append(s, e) # <<>> /\ Append(s, e)[Len(s) + 1] = e
    OBVIOUS
<1>3. \A k \in 1..Len(s) : Append(s, e)[k] = s[k]
    OBVIOUS
<1>4. s # <<>> => Head(Append(s, e)) = Head(s)
    BY HeadTailAppend
<1> QED BY <1>1, <1>2, <1>3, <1>4

\* What \o does, element by element.
LEMMA Concatenated ==
    ASSUME NEW T, NEW s \in Seq(T), NEW t \in Seq(T)
    PROVE  /\ s \o t \in Seq(T) /\ Len(s) \in Nat /\ Len(t) \in Nat
           /\ Len(s \o t) = Len(s) + Len(t)
           /\ \A k \in 1..Len(s) : (s \o t)[k] = s[k]
           /\ \A k \in 1..Len(t) : (s \o t)[Len(s) + k] = t[k]
<1>1. s \o t \in Seq(T) /\ Len(s) \in Nat /\ Len(t) \in Nat /\ Len(s \o t) = Len(s) + Len(t)
    OBVIOUS
<1>2. \A k \in 1..Len(s) : (s \o t)[k] = s[k]
    OBVIOUS
<1>3. ASSUME NEW k \in 1..Len(t) PROVE (s \o t)[Len(s) + k] = t[k]
    OBVIOUS
<1> QED BY <1>1, <1>2, <1>3

-----------------------------------------------------------------------------
(* FoldLeft *)

\* FoldLeft goes through the sets of positions, and takes the last position off a set.
Folds(base, n, step, it) ==
    it = [z \in SUBSET (1..n) |->
            IF z = {} THEN base ELSE step[<<it[z \ {Max(z)}], Max(z)>>]]

\* Max is the greatest element, where there is one.
LEMMA MaxIs ==
    ASSUME NEW n \in Nat, NEW z \in SUBSET (1..n), z # {}
    PROVE  Max(z) \in z /\ \A y \in z : Max(z) >= y
<1>1. z \in SUBSET (0..n)
    OBVIOUS
<1>2. \E x \in z : \A y \in z : x >= y
    BY <1>1, HasMax
<1> QED BY <1>2 DEF Max

\* The greatest index of a prefix is its length.
LEMMA MaxOfPrefix ==
    ASSUME NEW k \in Nat
    PROVE  Max(1..(k + 1)) = k + 1 /\ (1..(k + 1)) \ {k + 1} = 1..k
<1>1. k + 1 \in 1..(k + 1) /\ \A y \in 1..(k + 1) : k + 1 >= y
    OBVIOUS
<1>2. Max(1..(k + 1)) \in 1..(k + 1) /\ \A y \in 1..(k + 1) : Max(1..(k + 1)) >= y
    BY <1>1 DEF Max
<1> QED BY <1>1, <1>2

\* What FoldLeft computes by recursion over sets of indices exists.
LEMMA FoldExists ==
    ASSUME NEW A, NEW base \in A, NEW n \in Nat, NEW step \in [A \X (1..n) -> A]
    PROVE  \E it \in [SUBSET (1..n) -> A] : Folds(base, n, step, it)
<1> DEFINE D == SUBSET (1..n)
           m == [z \in D |-> IF z = {} THEN 0 ELSE Max(z)]
           F(z, f) == IF z = {} THEN base ELSE step[<<f[z \ {Max(z)}], Max(z)>>]
           G == [zf \in D \X [D -> A] |-> F(zf[1], zf[2])]
<1>1. ASSUME NEW z \in D, z # {}
      PROVE  /\ Max(z) \in 1..n /\ z \ {Max(z)} \in D
             /\ m[z \ {Max(z)}] < m[z]
    <2>1. Max(z) \in z /\ \A y \in z : Max(z) >= y
        BY <1>1, MaxIs
    <2>2. Max(z) \in 1..n /\ z \ {Max(z)} \in D
        BY <2>1
    <2> DEFINE r == z \ {Max(z)}
    <2>3. CASE r = {}
        BY <1>1, <2>2, <2>3
    <2>4. CASE r # {}
        <3>1. r \in D
            BY <2>2
        <3>2. Max(r) \in r
            BY <2>4, <3>1, MaxIs
        <3>3. Max(r) \in z /\ Max(r) # Max(z) /\ z \subseteq 1..n
            BY <3>2
        <3>4. Max(r) < Max(z)
            <4> HIDE DEF r
            <4> QED BY <2>1, <2>2, <3>3
        <3>5. m[r] = Max(r) /\ m[z] = Max(z)
            <4> HIDE DEF r
            <4> QED BY <1>1, <2>4, <3>1
        <3> HIDE DEF m
        <3> QED BY <2>2, <3>4, <3>5
    <2> HIDE DEF m
    <2> QED BY <2>2, <2>3, <2>4
<1>2. ASSUME NEW z \in D, NEW f \in [D -> A] PROVE F(z, f) \in A /\ G[<<z, f>>] = F(z, f)
    <2>1. z # {} => <<f[z \ {Max(z)}], Max(z)>> \in A \X (1..n)
        <3> HIDE DEF m, D
        <3> QED BY <1>1
    <2>2. F(z, f) \in A
        BY <2>1
    <2> HIDE DEF F, D
    <2> QED BY <2>2
<1>3. G \in [D \X [D -> A] -> A]
    <2> HIDE DEF F, D
    <2> QED BY <1>2
<1>4. LooksBack(D, A, m, G)
    <2>1. ASSUME NEW z \in D, NEW f \in [D -> A], NEW g \in [D -> A],
                 \A y \in D : m[y] < m[z] => f[y] = g[y]
          PROVE  F(z, f) = F(z, g)
        <3> HIDE DEF m, D
        <3> QED BY <1>1, <2>1
    <2> HIDE DEF F, D, m, G
    <2> QED BY <1>2, <2>1 DEF LooksBack
<1>5. m \in [D -> 0..n]
    <2>1. ASSUME NEW z \in D PROVE (IF z = {} THEN 0 ELSE Max(z)) \in 0..n
        <3> HIDE DEF D, m
        <3>1. z # {} => Max(z) \in 1..n
            BY <1>1
        <3> QED BY <3>1
    <2> HIDE DEF D
    <2> QED BY <2>1
<1>6. PICK f \in [D -> A] : Solves(D, G, f)
    <2> HIDE DEF F, D, m, G
    <2> QED BY <1>3, <1>4, <1>5, RecursionExists
<1>7. Folds(base, n, step, f)
    <2>1. f = [z \in D |-> G[<<z, f>>]]
        BY <1>6 DEF Solves
    <2>2. \A z \in D : G[<<z, f>>] = F(z, f)
        BY <1>2
    <2>3. f = [z \in D |-> F(z, f)]
        <3> HIDE DEF F, D, G
        <3> QED BY <2>1, <2>2
    <2> QED BY <2>3, Zenon DEF Folds
<1> QED BY <1>6, <1>7

\* What is known of such a function before it is known to have values in A only.
FoldsIn(A, base, n, step, it) ==
    /\ it[{}] = base
    /\ \A z \in SUBSET (1..n) : z # {} /\ it[z \ {Max(z)}] \in A =>
           it[z] = step[<<it[z \ {Max(z)}], Max(z)>>]

\* acc[k] is what such a function makes of the first k positions.
LoopOf(base, n, step, it, acc) == Turns(base, n, step, acc) /\ acc[n] = it[1..n]

\* A fold over the indices 1..n is a loop of n turns.
LEMMA FoldTurns ==
    ASSUME NEW A, NEW base \in A, NEW n \in Nat, NEW step \in [A \X (1..n) -> A], NEW it,
           FoldsIn(A, base, n, step, it)
    PROVE  \E acc \in [0..n -> A] : LoopOf(base, n, step, it, acc)
<1> DEFINE acc == [k \in 0..n |-> it[1..k]]
           S == {k \in 0..n : it[1..k] \in A}
<1>1. ASSUME NEW k \in 0..n, k < n, it[1..k] \in A
      PROVE  it[1..(k + 1)] = step[<<it[1..k], k + 1>>] /\ it[1..(k + 1)] \in A
    <2>1. 1..(k + 1) \in SUBSET (1..n) /\ 1..(k + 1) # {} /\ k \in Nat /\ k + 1 \in 1..n
        <3>1. k \in Nat /\ k + 1 \in 1..n /\ k + 1 \in 1..(k + 1)
            BY <1>1
        <3>2. \A y \in 1..(k + 1) : y \in 1..n
            BY <1>1
        <3> QED BY <3>1, <3>2
    <2>2. Max(1..(k + 1)) = k + 1 /\ (1..(k + 1)) \ {k + 1} = 1..k
        BY <2>1, MaxOfPrefix
    <2>3. it[1..(k + 1)] = step[<<it[1..k], k + 1>>]
        BY <1>1, <2>1, <2>2 DEF FoldsIn
    <2> QED BY <1>1, <2>1, <2>3
<1>2. it[1..0] = base
    <2>1. 1..0 = {}
        OBVIOUS
    <2> QED BY <2>1 DEF FoldsIn
<1>3. \A k \in 0..n : k \in S
    <2>1. 0 \in S
        BY <1>2
    <2>2. ASSUME NEW k \in 0..n, k < n, k \in S PROVE k + 1 \in S
        <3>1. it[1..(k + 1)] \in A
            BY <1>1, <2>2
        <3>2. k + 1 \in 0..n
            BY <2>2
        <3> QED BY <3>1, <3>2
    <2> HIDE DEF S
    <2> QED BY <2>1, <2>2, BoundedInduction
<1>4. acc \in [0..n -> A]
    BY <1>3
<1>5. Turns(base, n, step, acc)
    <2>1. acc[0] = base
        BY <1>2
    <2>2. ASSUME NEW k \in 0..n, k < n PROVE acc[k + 1] = step[<<acc[k], k + 1>>]
        <3>1. acc[k + 1] = it[1..(k + 1)] /\ acc[k] = it[1..k] /\ it[1..k] \in A
            BY <1>3, <2>2
        <3> HIDE DEF acc
        <3> QED BY <1>1, <2>2, <3>1
    <2> HIDE DEF acc
    <2> QED BY <2>1, <2>2 DEF Turns
<1>6. acc[n] = it[1..n]
    OBVIOUS
<1> HIDE DEF acc
<1> QED BY <1>4, <1>5, <1>6 DEF LoopOf

\* FoldLeft as a loop over the sequence.
LEMMA FoldLoop ==
    ASSUME NEW A, NEW base \in A, NEW n \in Nat, NEW step \in [A \X (1..n) -> A], NEW it,
           \A f \in [SUBSET (1..n) -> A] :
               Folds(base, n, step, f) => FoldsIn(A, base, n, step, it)
    PROVE  \E acc \in [0..n -> A] : LoopOf(base, n, step, it, acc)
<1>1. PICK f \in [SUBSET (1..n) -> A] : Folds(base, n, step, f)
    BY FoldExists
<1>2. FoldsIn(A, base, n, step, it)
    BY <1>1
<1> QED BY <1>2, FoldTurns

\* The indices 1..k less the greatest.
LEMMA LastOff ==
    ASSUME NEW n \in Nat, NEW z \in SUBSET (1..n), z # {}
    PROVE  Max(z) \in 1..n /\ z \ {Max(z)} \in SUBSET (1..n)
BY MaxIs

-----------------------------------------------------------------------------
(* Matching blocks *)

\* A match: where it begins on each side, and how long it is.
MatchRec == [i : Nat, j : Nat, n : Nat]

\* The matches of a and b, those of no length included.
MatchSet(a, b) ==
    {m \in MatchRec : /\ m.i + m.n <= Len(a) /\ m.j + m.n <= Len(b)
                      /\ \A k \in 1..m.n : a[m.i + k] = b[m.j + k]}

\* A match between (i1, j1) and (i2, j2), and one that is followed by another.
Inside(m, i1, j1, i2, j2) ==
    i1 <= m.i /\ m.i + m.n <= i2 /\ j1 <= m.j /\ m.j + m.n <= j2

\* A match after another, on both sides.
Before(m, o) == m.i + m.n <= o.i /\ m.j + m.n <= o.j

\* The positions of a match are numbers.
InNumbers(m) ==
    m.i \in Nat /\ m.j \in Nat /\ m.n \in Nat /\ m.i + m.n \in Nat /\ m.j + m.n \in Nat

\* A match within ranges lies in them, and is not empty.
LEMMA MatchesAreWithin ==
    ASSUME NEW a, NEW b, Len(a) \in Nat, Len(b) \in Nat, NEW r \in Ranges(a, b),
           NEW m \in Matches(a, b, r)
    PROVE  /\ m \in MatchSet(a, b) /\ m \in MatchRec /\ InNumbers(m)
           /\ Inside(m, r.alo, r.blo, r.ahi, r.bhi) /\ m.n > 0
           /\ [r EXCEPT !.ahi = m.i, !.bhi = m.j] \in Ranges(a, b)
           /\ [r EXCEPT !.alo = m.i + m.n, !.blo = m.j + m.n] \in Ranges(a, b)
<1>1. /\ r.alo \in 0..Len(a) /\ r.ahi \in 0..Len(a)
      /\ r.blo \in 0..Len(b) /\ r.bhi \in 0..Len(b)
    BY DEF Ranges
<1>2. /\ m \in [i : r.alo..(r.ahi - 1), j : r.blo..(r.bhi - 1), n : 1..(r.ahi - r.alo)]
      /\ m.i + m.n <= r.ahi /\ m.j + m.n <= r.bhi
      /\ \A k \in 1..m.n : a[m.i + k] = b[m.j + k]
    BY DEF Matches
<1>a. m.i \in r.alo..(r.ahi - 1) /\ m.j \in r.blo..(r.bhi - 1) /\ m.n \in 1..(r.ahi - r.alo)
    BY <1>2
<1>3. /\ m.i \in Nat /\ m.j \in Nat /\ m.n \in Nat /\ m.n > 0 /\ r.alo <= m.i /\ r.blo <= m.j
      /\ m.i \in 0..Len(a) /\ m.j \in 0..Len(b)
      /\ m.i + m.n \in 0..Len(a) /\ m.j + m.n \in 0..Len(b)
    <2>1. m.i + m.n <= r.ahi /\ m.j + m.n <= r.bhi
        BY <1>2
    <2>2. m.i \in Int /\ m.j \in Int /\ m.n \in Int /\ m.n >= 1 /\ r.alo <= m.i /\ r.blo <= m.j
        BY <1>1, <1>a
    <2>3. m.i + m.n \in Int /\ m.j + m.n \in Int
        BY <2>2
    <2>4. m.i <= m.i + m.n /\ m.j <= m.j + m.n
        BY <2>2
    <2>5. m.i \in Nat /\ m.j \in Nat /\ m.n \in Nat /\ m.n > 0 /\ r.alo <= m.i /\ r.blo <= m.j
        BY <1>1, <2>2
    <2>6. m.i + m.n \in 0..Len(a) /\ m.j + m.n \in 0..Len(b)
        <3> DEFINE x == m.i + m.n
                   y == m.j + m.n
        <3>1. x <= r.ahi /\ y <= r.bhi
            BY ONLY <2>1
        <3>4. x \in Nat /\ y \in Nat
            <4> DEFINE u == m.i
                       v == m.j
                       w == m.n
            <4>1. u \in Nat /\ v \in Nat /\ w \in Nat
                BY ONLY <2>5
            <4> HIDE DEF u, v, w
            <4>2. u + w \in Nat /\ v + w \in Nat
                BY ONLY <4>1
            <4> QED BY ONLY <4>2 DEF u, v, w
        <3>2. r.ahi \in 0..Len(a) /\ r.bhi \in 0..Len(b)
            BY <1>1
        <3> HIDE DEF x, y
        <3>3. Len(a) \in Nat /\ Len(b) \in Nat
            OBVIOUS
        <3>5. x \in 0..Len(a) /\ y \in 0..Len(b)
            BY ONLY <3>1, <3>2, <3>3, <3>4
        <3> QED BY ONLY <3>5 DEF x, y
    <2> QED BY <2>4, <2>5, <2>6
<1>4. m \in MatchRec
    BY <1>2, <1>3 DEF MatchRec
<1>5. m \in MatchSet(a, b)
    BY <1>2, <1>3, <1>4 DEF MatchSet
<1>6. /\ [r EXCEPT !.ahi = m.i, !.bhi = m.j] \in Ranges(a, b)
      /\ [r EXCEPT !.alo = m.i + m.n, !.blo = m.j + m.n] \in Ranges(a, b)
    BY <1>3 DEF Ranges
<1> QED BY <1>2, <1>3, <1>4, <1>5, <1>6 DEF Inside, InNumbers

\* FindLongestMatch answers with a match, where there is one.
LEMMA LongestIsMatch ==
    ASSUME NEW a, NEW b, NEW r \in Ranges(a, b), Len(a) \in Nat, Len(b) \in Nat,
           Matches(a, b, r) # {}
    PROVE  Longest(Matches(a, b, r)) \in Matches(a, b, r)
<1> DEFINE ms == Matches(a, b, r)
<1>1. \A m \in ms : m.i \in 0..Len(a) /\ m.j \in 0..Len(b) /\ m.n \in 0..Len(a)
    <2> TAKE m \in ms
    <2>1. m \in MatchRec /\ m \in MatchSet(a, b)
        BY MatchesAreWithin
    <2>2. m.i + m.n <= Len(a) /\ m.j + m.n <= Len(b)
        BY <2>1 DEF MatchSet
    <2>3. m.i \in Nat /\ m.j \in Nat /\ m.n \in Nat
        BY <2>1 DEF MatchRec
    <2> QED BY <2>2, <2>3
<1> HIDE DEF ms
<1> DEFINE N == {m.n : m \in ms}
<1>2. PICK n \in N : \A y \in N : n >= y
    <2>1. N \in SUBSET (0..Len(a)) /\ N # {}
        BY <1>1 DEF ms
    <2> HIDE DEF N
    <2> QED BY <2>1, HasMax
<1> DEFINE I == {m.i : m \in {o \in ms : o.n = n}}
<1>3. PICK i \in I : \A y \in I : i <= y
    <2>1. I \in SUBSET (0..Len(a)) /\ I # {}
        BY <1>1, <1>2
    <2> HIDE DEF I
    <2> QED BY <2>1, HasMin
<1> DEFINE J == {m.j : m \in {o \in ms : o.n = n /\ o.i = i}}
<1>4. PICK j \in J : \A y \in J : j <= y
    <2>1. J \in SUBSET (0..Len(b)) /\ J # {}
        BY <1>1, <1>3
    <2> HIDE DEF J
    <2> QED BY <2>1, HasMin
<1>5. PICK m \in ms : m.n = n /\ m.i = i /\ m.j = j
    BY <1>4
<1>6. ASSUME NEW o \in ms
      PROVE  \/ m.n > o.n
             \/ m.n = o.n /\ m.i < o.i
             \/ m.n = o.n /\ m.i = o.i /\ m.j <= o.j
    <2>1. o.n \in N /\ (o.n = n => o.i \in I) /\ (o.n = n /\ o.i = i => o.j \in J)
        OBVIOUS
    <2>2. n >= o.n /\ (o.n = n => i <= o.i) /\ (o.n = n /\ o.i = i => j <= o.j)
        BY <1>2, <1>3, <1>4, <2>1
    <2> QED BY <1>1, <1>5, <2>2
<1> QED BY <1>5, <1>6 DEF Longest, ms

\* Matches between (i1, j1) and (i2, j2), each after the one before it.
InOrder(ms, i1, j1, i2, j2) ==
    /\ \A k \in 1..Len(ms) : Inside(ms[k], i1, j1, i2, j2)
    /\ \A k \in 1..Len(ms) : k < Len(ms) => Before(ms[k], ms[k + 1])

\* Matches in order before a position, and matches in order after it.
LEMMA InOrderConcat ==
    ASSUME NEW x \in Seq(MatchRec), NEW y \in Seq(MatchRec),
           NEW i1 \in Nat, NEW i2 \in Nat, NEW i3 \in Nat,
           NEW j1 \in Nat, NEW j2 \in Nat, NEW j3 \in Nat,
           i1 <= i2, i2 <= i3, j1 <= j2, j2 <= j3,
           InOrder(x, i1, j1, i2, j2), InOrder(y, i2, j2, i3, j3)
    PROVE  InOrder(x \o y, i1, j1, i3, j3)
<1> DEFINE z == x \o y
<1>1. /\ Len(x) \in Nat /\ Len(y) \in Nat /\ Len(z) = Len(x) + Len(y)
      /\ \A k \in 1..Len(x) : z[k] = x[k]
      /\ \A k \in 1..Len(y) : z[Len(x) + k] = y[k]
    BY Concatenated
<1>2. /\ \A k \in 1..Len(x) : x[k] \in MatchRec
      /\ \A k \in 1..Len(y) : y[k] \in MatchRec
    BY ElementOfSeq
<1>3. \A m \in MatchRec : m.i \in Nat /\ m.j \in Nat /\ m.n \in Nat
    BY DEF MatchRec
<1>4. \A m \in MatchRec : /\ Inside(m, i1, j1, i2, j2) => Inside(m, i1, j1, i3, j3)
                          /\ Inside(m, i2, j2, i3, j3) => Inside(m, i1, j1, i3, j3)
    <2>1. /\ i1 \in Nat /\ i2 \in Nat /\ i3 \in Nat /\ i1 <= i2 /\ i2 <= i3
          /\ j1 \in Nat /\ j2 \in Nat /\ j3 \in Nat /\ j1 <= j2 /\ j2 <= j3
        OBVIOUS
    <2> TAKE m \in MatchRec
    <2> DEFINE a == m.i
               b == m.j
               p == m.i + m.n
               q == m.j + m.n
    <2>2. a \in Nat /\ b \in Nat /\ p \in Nat /\ q \in Nat
        <3> DEFINE n == m.n
        <3>1. a \in Nat /\ b \in Nat /\ n \in Nat
            BY ONLY <1>3
        <3>2. p = a + n /\ q = b + n
            OBVIOUS
        <3> HIDE DEF a, b, n, p, q
        <3> QED BY ONLY <3>1, <3>2
    <2> HIDE DEF a, b, p, q
    <2>3. /\ i1 <= a /\ p <= i2 /\ j1 <= b /\ q <= j2 => i1 <= a /\ p <= i3 /\ j1 <= b /\ q <= j3
          /\ i2 <= a /\ p <= i3 /\ j2 <= b /\ q <= j3 => i1 <= a /\ p <= i3 /\ j1 <= b /\ q <= j3
        BY ONLY <2>1, <2>2
    <2> QED BY ONLY <2>3 DEF Inside, a, b, p, q
<1>5. ASSUME NEW m \in MatchRec, NEW o \in MatchRec,
             Inside(m, i1, j1, i2, j2), Inside(o, i2, j2, i3, j3)
      PROVE  Before(m, o)
    <2>1. m.i + m.n <= i2 /\ i2 <= o.i /\ m.j + m.n <= j2 /\ j2 <= o.j
        BY <1>5 DEF Inside
    <2>2. m.i \in Nat /\ m.j \in Nat /\ m.n \in Nat /\ o.i \in Nat /\ o.j \in Nat
        BY <1>3
    <2> DEFINE mi == m.i
               mj == m.j
               mn == m.n
               oi == o.i
               oj == o.j
    <2>3. /\ mi + mn <= i2 /\ i2 <= oi /\ mj + mn <= j2 /\ j2 <= oj
          /\ mi \in Nat /\ mj \in Nat /\ mn \in Nat /\ oi \in Nat /\ oj \in Nat
        BY ONLY <2>1, <2>2
    <2> HIDE DEF mi, mj, mn, oi, oj
    <2>4. i2 \in Nat /\ j2 \in Nat
        OBVIOUS
    <2>5. mi + mn <= oi /\ mj + mn <= oj
        BY ONLY <2>3, <2>4
    <2> QED BY ONLY <2>5 DEF Before, mi, mj, mn, oi, oj
<1> HIDE DEF z
<1>6. ASSUME NEW k \in 1..Len(z) PROVE Inside(z[k], i1, j1, i3, j3)
    <2>1. CASE k \in 1..Len(x)
        BY <1>1, <1>2, <1>4, <2>1 DEF InOrder
    <2>2. CASE k \notin 1..Len(x)
        <3> DEFINE l == k - Len(x)
        <3>1. l \in 1..Len(y) /\ k = Len(x) + l
            BY <1>1, <2>2
        <3> HIDE DEF l
        <3>2. z[k] = y[l]
            BY <1>1, <3>1
        <3> QED BY <1>2, <1>4, <3>1, <3>2 DEF InOrder
    <2> QED BY <2>1, <2>2
<1>7. ASSUME NEW k \in 1..Len(z), k < Len(z) PROVE Before(z[k], z[k + 1])
    <2>1. CASE k < Len(x)
        <3>1. k \in 1..Len(x) /\ k + 1 \in 1..Len(x)
            BY <1>1, <2>1
        <3>2. z[k] = x[k] /\ z[k + 1] = x[k + 1]
            BY <1>1, <3>1
        <3> QED BY <2>1, <3>1, <3>2 DEF InOrder
    <2>2. CASE k = Len(x)
        <3>1. k \in 1..Len(x) /\ 1 \in 1..Len(y)
            BY <1>1, <1>7, <2>2
        <3>2. z[k] = x[k] /\ z[k + 1] = y[1]
            BY <1>1, <2>2, <3>1
        <3>3. Inside(x[k], i1, j1, i2, j2) /\ Inside(y[1], i2, j2, i3, j3)
            BY <3>1 DEF InOrder
        <3> QED BY <1>2, <1>5, <3>1, <3>2, <3>3
    <2>3. CASE k > Len(x)
        <3> DEFINE l == k - Len(x)
        <3>1. l \in 1..Len(y) /\ l + 1 \in 1..Len(y) /\ l < Len(y)
              /\ k = Len(x) + l /\ k + 1 = Len(x) + (l + 1)
            BY <1>1, <1>7, <2>3
        <3> HIDE DEF l
        <3>2. z[k] = y[l] /\ z[k + 1] = y[l + 1]
            BY <1>1, <3>1
        <3> QED BY <3>1, <3>2 DEF InOrder
    <2> QED BY <1>1, <2>1, <2>2, <2>3
<1> QED BY <1>6, <1>7 DEF InOrder, z

\* What is found in a range: matches, in order, within it.
FoundIn(ms, a, b, r) ==
    ms \in Seq(MatchSet(a, b)) /\ InOrder(ms, r.alo, r.blo, r.ahi, r.bhi)

\* The function that MatchingBlocks defines, at a range.
WithinStep(a, b, f, r) ==
    IF Matches(a, b, r) = {} THEN <<>>
    ELSE f[[r EXCEPT !.ahi = Longest(Matches(a, b, r)).i, !.bhi = Longest(Matches(a, b, r)).j]]
            \o <<Longest(Matches(a, b, r))>>
            \o f[[r EXCEPT !.alo = Longest(Matches(a, b, r)).i + Longest(Matches(a, b, r)).n,
                           !.blo = Longest(Matches(a, b, r)).j + Longest(Matches(a, b, r)).n]]

\* The size that the recursion of MatchesWithin brings down.
RangeSize(r) == IF r.alo < r.ahi THEN r.ahi - r.alo ELSE 0

\* The two ranges that are left are smaller.
LEMMA RangesShrink ==
    ASSUME NEW a, NEW b, Len(a) \in Nat, Len(b) \in Nat, NEW r \in Ranges(a, b),
           NEW m \in Matches(a, b, r)
    PROVE  /\ RangeSize(r) \in 0..Len(a) /\ RangeSize(r) > 0
           /\ RangeSize([r EXCEPT !.ahi = m.i, !.bhi = m.j]) < RangeSize(r)
           /\ RangeSize([r EXCEPT !.alo = m.i + m.n, !.blo = m.j + m.n]) < RangeSize(r)
<1>1. r.alo \in 0..Len(a) /\ r.ahi \in 0..Len(a)
    BY DEF Ranges
<1>2. m.i \in Nat /\ m.n \in Nat /\ m.i + m.n \in Int
    <2>1. InNumbers(m)
        BY MatchesAreWithin
    <2> QED BY <2>1 DEF InNumbers
<1>3. r.alo <= m.i /\ m.i + m.n <= r.ahi /\ m.n > 0
    <2>1. Inside(m, r.alo, r.blo, r.ahi, r.bhi) /\ m.n > 0
        BY MatchesAreWithin
    <2> QED BY <2>1 DEF Inside
<1>4. m.i < m.i + m.n
    BY <1>2, <1>3
<1>5. r.alo < r.ahi /\ m.i < r.ahi /\ r.alo < m.i + m.n
    BY <1>1, <1>2, <1>3, <1>4
<1>6. /\ [r EXCEPT !.ahi = m.i, !.bhi = m.j].alo = r.alo
      /\ [r EXCEPT !.ahi = m.i, !.bhi = m.j].ahi = m.i
      /\ [r EXCEPT !.alo = m.i + m.n, !.blo = m.j + m.n].alo = m.i + m.n
      /\ [r EXCEPT !.alo = m.i + m.n, !.blo = m.j + m.n].ahi = r.ahi
    BY DEF Ranges
<1> DEFINE mn == m.i + m.n
<1> HIDE DEF mn
<1>7. mn \in Int /\ r.alo < mn
    BY <1>2, <1>5 DEF mn
<1>8. RangeSize([r EXCEPT !.ahi = m.i, !.bhi = m.j]) < RangeSize(r)
    BY <1>1, <1>2, <1>5, <1>6 DEF RangeSize
<1>9. RangeSize([r EXCEPT !.alo = m.i + m.n, !.blo = m.j + m.n]) < RangeSize(r)
    BY <1>1, <1>2, <1>5, <1>6, <1>7 DEF RangeSize, mn
<1> QED BY <1>1, <1>5, <1>8, <1>9 DEF RangeSize

\* MatchesWithin, which recurses into the ranges left and right of a match, is defined.
LEMMA WithinExists ==
    ASSUME NEW T, NEW a \in Seq(T), NEW b \in Seq(T)
    PROVE  \E f \in [Ranges(a, b) -> Seq(MatchRec)] :
               f = [r \in Ranges(a, b) |-> WithinStep(a, b, f, r)]
<1> DEFINE D == Ranges(a, b)
           A == Seq(MatchRec)
           m == [r \in D |-> RangeSize(r)]
           G == [rf \in D \X [D -> A] |-> WithinStep(a, b, rf[2], rf[1])]
           n == Len(a)
<1>1. n \in Nat /\ Len(b) \in Nat
    OBVIOUS
<1>2. ASSUME NEW r \in D, Matches(a, b, r) # {}
      PROVE  Longest(Matches(a, b, r)) \in Matches(a, b, r)
    BY <1>1, <1>2, LongestIsMatch
<1>3. ASSUME NEW r \in D, NEW f \in [D -> A] PROVE WithinStep(a, b, f, r) \in A
    <2>1. CASE Matches(a, b, r) = {}
        BY <2>1 DEF WithinStep
    <2>2. CASE Matches(a, b, r) # {}
        <3> DEFINE l == Longest(Matches(a, b, r))
                   r1 == [r EXCEPT !.ahi = l.i, !.bhi = l.j]
                   r2 == [r EXCEPT !.alo = l.i + l.n, !.blo = l.j + l.n]
        <3>1. l \in MatchRec /\ r1 \in D /\ r2 \in D
            <4> HIDE DEF l
            <4> QED BY <1>1, <1>2, <2>2, MatchesAreWithin DEF l
        <3>2. WithinStep(a, b, f, r) = f[r1] \o <<l>> \o f[r2]
            BY <2>2 DEF WithinStep
        <3> HIDE DEF l, r1, r2, D
        <3>3. f[r1] \in A /\ <<l>> \in A /\ f[r2] \in A
            BY <3>1
        <3> QED BY <3>2, <3>3
    <2> QED BY <2>1, <2>2
<1>4. ASSUME NEW r \in D, NEW f \in [D -> A], NEW g \in [D -> A],
             \A y \in D : m[y] < m[r] => f[y] = g[y]
      PROVE  WithinStep(a, b, f, r) = WithinStep(a, b, g, r)
    <2>1. CASE Matches(a, b, r) = {}
        BY <2>1 DEF WithinStep
    <2>2. CASE Matches(a, b, r) # {}
        <3> DEFINE l == Longest(Matches(a, b, r))
                   r1 == [r EXCEPT !.ahi = l.i, !.bhi = l.j]
                   r2 == [r EXCEPT !.alo = l.i + l.n, !.blo = l.j + l.n]
        <3>0. l \in Matches(a, b, r)
            BY <1>2, <2>2
        <3>1. r1 \in D /\ r2 \in D
            <4> HIDE DEF l
            <4> QED BY <1>1, <3>0, MatchesAreWithin
        <3>2. RangeSize(r1) < RangeSize(r) /\ RangeSize(r2) < RangeSize(r)
            <4> HIDE DEF l
            <4> QED BY <1>1, <3>0, RangesShrink
        <3>3. m[r1] < m[r] /\ m[r2] < m[r]
            <4> HIDE DEF r1, r2, D
            <4> QED BY <3>1, <3>2
        <3>4. f[r1] = g[r1] /\ f[r2] = g[r2]
            <4> HIDE DEF r1, r2, D, m
            <4> QED BY <1>4, <3>1, <3>3
        <3> QED BY <2>2, <3>4 DEF WithinStep
    <2> QED BY <2>1, <2>2
<1>5. m \in [D -> 0..n]
    <2>1. \A r \in D : RangeSize(r) \in 0..n
        BY <1>1 DEF RangeSize, Ranges
    <2> HIDE DEF D
    <2> QED BY <2>1
<1>6. \A r \in D, f \in [D -> A] : G[<<r, f>>] = WithinStep(a, b, f, r)
    <2> HIDE DEF D, A
    <2> QED OBVIOUS
<1>7. G \in [D \X [D -> A] -> A]
    <2> HIDE DEF D, A
    <2> QED BY <1>3
<1>8. LooksBack(D, A, m, G)
    <2> HIDE DEF D, A, m, G
    <2> QED BY <1>4, <1>6 DEF LooksBack
<1>9. <<>> \in A
    OBVIOUS
<1>10. PICK f \in [D -> A] : Solves(D, G, f)
    <2> HIDE DEF D, A, m, G, n
    <2> QED BY <1>1, <1>5, <1>7, <1>8, <1>9, RecursionExists
<1>11. f = [r \in D |-> WithinStep(a, b, f, r)]
    <2> HIDE DEF D, A, G
    <2> QED BY <1>6, <1>10 DEF Solves
<1> QED BY <1>11

\* get_matching_blocks returns matches, in order.
LEMMA MatchingBlocksInOrder ==
    ASSUME NEW T, NEW a \in Seq(T), NEW b \in Seq(T)
    PROVE  /\ MatchingBlocks(a, b) \in Seq(MatchSet(a, b))
           /\ InOrder(MatchingBlocks(a, b), 0, 0, Len(a), Len(b))
<1> DEFINE D == Ranges(a, b)
           P(f) == f = [r \in D |-> WithinStep(a, b, f, r)]
           w == CHOOSE f : P(f)
           S == {k \in 0..Len(a) : \A r \in D : RangeSize(r) <= k => FoundIn(w[r], a, b, r)}
           all == [alo |-> 0, ahi |-> Len(a), blo |-> 0, bhi |-> Len(b)]
<1>1. Len(a) \in Nat /\ Len(b) \in Nat
    OBVIOUS
<1>2. MatchingBlocks(a, b) = w[all]
    BY DEF MatchingBlocks, WithinStep
<1>3. P(w)
    <2>1. \E f : P(f)
        BY WithinExists
    <2> HIDE DEF P
    <2> QED BY <2>1
<1>4. \A r \in D : w[r] = WithinStep(a, b, w, r)
    <2> HIDE DEF w, D
    <2> QED BY <1>3
<1> HIDE DEF w
<1>5. ASSUME NEW r \in D, Matches(a, b, r) = {} PROVE FoundIn(w[r], a, b, r)
    <2>1. w[r] = <<>>
        BY <1>4, <1>5 DEF WithinStep
    <2> QED BY <2>1 DEF FoundIn, InOrder
<1>6. ASSUME NEW r \in D, Matches(a, b, r) # {},
             \A y \in D : RangeSize(y) < RangeSize(r) => FoundIn(w[y], a, b, y)
      PROVE  FoundIn(w[r], a, b, r)
    <2> DEFINE l == Longest(Matches(a, b, r))
               r1 == [r EXCEPT !.ahi = l.i, !.bhi = l.j]
               r2 == [r EXCEPT !.alo = l.i + l.n, !.blo = l.j + l.n]
    <2>1. l \in Matches(a, b, r)
        BY <1>1, <1>6, LongestIsMatch
    <2>2. w[r] = w[r1] \o <<l>> \o w[r2]
        BY <1>4, <1>6 DEF WithinStep
    <2> HIDE DEF l
    <2>3. r1 \in D /\ r2 \in D /\ RangeSize(r1) < RangeSize(r) /\ RangeSize(r2) < RangeSize(r)
        BY <1>1, <2>1, MatchesAreWithin, RangesShrink
    <2>4. FoundIn(w[r1], a, b, r1) /\ FoundIn(w[r2], a, b, r2)
        <3> HIDE DEF r1, r2, D
        <3> QED BY <1>6, <2>3
    <2>5. /\ r1.alo = r.alo /\ r1.blo = r.blo /\ r1.ahi = l.i /\ r1.bhi = l.j
          /\ r2.alo = l.i + l.n /\ r2.blo = l.j + l.n /\ r2.ahi = r.ahi /\ r2.bhi = r.bhi
        BY DEF Ranges
    <2> DEFINE x == w[r1]
               y == w[r2]
               li == l.i
               lj == l.j
               mi == l.i + l.n
               mj == l.j + l.n
    <2>6. /\ x \in Seq(MatchSet(a, b)) /\ InOrder(x, r.alo, r.blo, li, lj)
          /\ y \in Seq(MatchSet(a, b)) /\ InOrder(y, mi, mj, r.ahi, r.bhi)
        BY <2>4, <2>5 DEF FoundIn
    <2> HIDE DEF x, y, r1, r2
    <2>7. /\ l \in MatchSet(a, b) /\ l \in MatchRec /\ InNumbers(l)
          /\ Inside(l, r.alo, r.blo, r.ahi, r.bhi)
        BY <1>1, <2>1, MatchesAreWithin
    <2>8. /\ r.alo \in Nat /\ r.ahi \in Nat /\ r.blo \in Nat /\ r.bhi \in Nat
          /\ li \in Nat /\ lj \in Nat /\ mi \in Nat /\ mj \in Nat
        BY <1>1, <2>7 DEF Ranges, InNumbers
    <2>9. r.alo <= li /\ li <= mi /\ mi <= r.ahi /\ r.blo <= lj /\ lj <= mj /\ mj <= r.bhi
        <3>1. li <= mi /\ lj <= mj
            BY <2>7 DEF InNumbers
        <3> QED BY <2>7, <3>1 DEF Inside
    <2>10. InOrder(<<l>>, li, lj, mi, mj)
        <3>1. Inside(l, li, lj, mi, mj)
            BY <2>7, <2>8, <2>9 DEF Inside
        <3> HIDE DEF li, lj, mi, mj
        <3> QED BY <3>1 DEF InOrder
    <2>11. x \in Seq(MatchRec) /\ y \in Seq(MatchRec) /\ <<l>> \in Seq(MatchRec)
        <3>1. MatchSet(a, b) \subseteq MatchRec
            BY DEF MatchSet
        <3> QED BY <2>6, <2>7, <3>1, SeqMonotonic
    <2> HIDE DEF li, lj, mi, mj
    <2>12. InOrder(x \o <<l>>, r.alo, r.blo, mi, mj)
        BY <2>6, <2>8, <2>9, <2>10, <2>11, InOrderConcat
    <2>13. x \o <<l>> \in Seq(MatchRec)
        BY <2>11, Concatenated
    <2>14. InOrder(x \o <<l>> \o y, r.alo, r.blo, r.ahi, r.bhi)
        <3>1. r.alo <= mi /\ r.blo <= mj
            BY <2>8, <2>9
        <3> QED BY <2>6, <2>8, <2>9, <2>11, <2>12, <2>13, <3>1, InOrderConcat
    <2>15. x \o <<l>> \o y \in Seq(MatchSet(a, b))
        <3>1. <<l>> \in Seq(MatchSet(a, b))
            BY <2>7
        <3> QED BY <2>6, <3>1, Concatenated
    <2> QED BY <2>2, <2>14, <2>15 DEF FoundIn, x, y
<1>7. 0 \in S
    <2>1. ASSUME NEW r \in D, RangeSize(r) <= 0 PROVE Matches(a, b, r) = {}
        <3> SUFFICES ASSUME NEW m \in Matches(a, b, r) PROVE FALSE
            OBVIOUS
        <3>1. RangeSize(r) > 0 /\ RangeSize(r) \in 0..Len(a)
            BY <1>1, RangesShrink
        <3> QED BY <2>1, <3>1
    <2>2. \A r \in D : RangeSize(r) <= 0 => FoundIn(w[r], a, b, r)
        BY <1>5, <2>1
    <2> QED BY <1>1, <2>2
<1>8. ASSUME NEW k \in 0..Len(a), k < Len(a), k \in S PROVE k + 1 \in S
    <2>1. ASSUME NEW r \in D, RangeSize(r) <= k + 1 PROVE FoundIn(w[r], a, b, r)
        <3>1. \A y \in D : RangeSize(y) \in Int
            BY <1>1 DEF RangeSize, Ranges
        <3>2. \A y \in D : RangeSize(y) < RangeSize(r) => RangeSize(y) <= k
            <4> HIDE DEF D
            <4> QED BY <2>1, <3>1
        <3>3. \A y \in D : RangeSize(y) < RangeSize(r) => FoundIn(w[y], a, b, y)
            BY <1>8, <3>2
        <3> QED BY <1>5, <1>6, <3>3
    <2> HIDE DEF D
    <2> QED BY <1>8, <2>1
<1>9. \A k \in 0..Len(a) : k \in S
    <2> DEFINE n == Len(a)
    <2>1. n \in Nat /\ \A k \in 0..n : k < n /\ k \in S => k + 1 \in S
        BY <1>1, <1>8
    <2> HIDE DEF S, n
    <2>2. \A k \in 0..n : k \in S
        BY <1>7, <2>1, BoundedInduction
    <2> QED BY <2>2 DEF n
<1>10. all \in D /\ RangeSize(all) <= Len(a)
    BY <1>1 DEF Ranges, RangeSize
<1>11. FoundIn(w[all], a, b, all)
    <2>1. Len(a) \in S
        BY <1>1, <1>9
    <2> HIDE DEF all, D
    <2> QED BY <1>10, <2>1
<1> QED BY <1>2, <1>11 DEF FoundIn

-----------------------------------------------------------------------------
(* Opcodes *)

\* The opcodes that make sense for a and b.
OpcodeSet(a, b) ==
    {o \in [op : {"equal", "replace", "delete", "insert"},
            i1 : 0..Len(a), i2 : 0..Len(a), j1 : 0..Len(b), j2 : 0..Len(b)] :
        /\ o.i1 <= o.i2 /\ o.j1 <= o.j2
        /\ o.op = "equal"   => /\ o.i2 - o.i1 = o.j2 - o.j1
                               /\ \A k \in 1..(o.i2 - o.i1) : a[o.i1 + k] = b[o.j1 + k]
        /\ o.op = "delete"  => o.j1 = o.j2
        /\ o.op = "insert"  => o.i1 = o.i2}

\* Opcodes that lead from p to q, each from where the one before it ended.
Passes(ops, p, q, at) ==
    /\ at[0] = p
    /\ at[Len(ops)] = q
    /\ \A k \in 1..Len(ops) : /\ <<ops[k].i1, ops[k].j1>> = at[k - 1]
                              /\ <<ops[k].i2, ops[k].j2>> = at[k]

\* Opcodes that go from one pair of positions to another.
Leads(ops, p, q) == \E at : Passes(ops, p, q, at)

\* Opcodes one after the other.
LEMMA LeadsConcat ==
    ASSUME NEW T, NEW x \in Seq(T), NEW y \in Seq(T), NEW p, NEW q, NEW r,
           Leads(x, p, q), Leads(y, q, r)
    PROVE  Leads(x \o y, p, r)
<1>1. PICK f : Passes(x, p, q, f)
    BY DEF Leads
<1>2. PICK g : Passes(y, q, r, g)
    BY DEF Leads
<1> DEFINE z == x \o y
           n == Len(x)
           at == [k \in 0..Len(z) |-> IF k <= n THEN f[k] ELSE g[k - n]]
<1>3. /\ n \in Nat /\ Len(y) \in Nat /\ Len(z) = n + Len(y)
      /\ \A k \in 1..n : z[k] = x[k]
      /\ \A k \in 1..Len(y) : z[n + k] = y[k]
    BY Concatenated
<1> HIDE DEF z, n
<1>4. \A k \in 0..n : at[k] = f[k]
    BY <1>3
<1>5. \A k \in 0..Len(y) : at[n + k] = g[k]
    <2> TAKE k \in 0..Len(y)
    <2>1. n + k \in 0..Len(z) /\ (n + k) - n = k
        BY <1>3
    <2>2. CASE k = 0
        <3>1. at[n + k] = f[n] /\ f[n] = q /\ g[0] = q
            BY <1>1, <1>2, <1>3, <1>4, <2>2 DEF Passes, n
        <3> QED BY <2>2, <3>1
    <2>3. CASE k # 0
        BY <1>3, <2>1, <2>3
    <2> QED BY <2>2, <2>3
<1> HIDE DEF at
<1>6. at[0] = p
    BY <1>1, <1>3, <1>4 DEF Passes
<1>7. at[Len(z)] = r
    <2>1. Len(y) \in 0..Len(y)
        BY <1>3
    <2> QED BY <1>2, <1>3, <1>5, <2>1 DEF Passes
<1>8. ASSUME NEW k \in 1..Len(z)
      PROVE  <<z[k].i1, z[k].j1>> = at[k - 1] /\ <<z[k].i2, z[k].j2>> = at[k]
    <2>1. CASE k \in 1..n
        <3>1. k - 1 \in 0..n /\ k \in 0..n
            BY <1>3, <2>1
        <3>2. <<x[k].i1, x[k].j1>> = f[k - 1] /\ <<x[k].i2, x[k].j2>> = f[k]
            BY <1>1, <2>1 DEF Passes, n
        <3> QED BY <1>3, <1>4, <2>1, <3>1, <3>2
    <2>2. CASE k \notin 1..n
        <3> DEFINE l == k - n
        <3>1. l \in 1..Len(y) /\ l - 1 \in 0..Len(y) /\ l \in 0..Len(y)
              /\ k = n + l /\ k - 1 = n + (l - 1)
            BY <1>3, <2>2
        <3> HIDE DEF l
        <3>2. <<y[l].i1, y[l].j1>> = g[l - 1] /\ <<y[l].i2, y[l].j2>> = g[l]
            BY <1>2, <3>1 DEF Passes
        <3>3. at[k - 1] = g[l - 1] /\ at[k] = g[l] /\ z[k] = y[l]
            BY <1>3, <1>5, <3>1
        <3> QED BY <3>2, <3>3
    <2> QED BY <2>1, <2>2
<1>9. Passes(z, p, r, at)
    BY <1>6, <1>7, <1>8 DEF Passes
<1> QED BY <1>9 DEF Leads, z

\* No opcode goes nowhere.
LEMMA LeadsNone == ASSUME NEW p PROVE Leads(<<>>, p, p)
<1>1. Passes(<<>>, p, p, [k \in {0} |-> p])
    BY DEF Passes
<1> QED BY <1>1 DEF Leads

\* One opcode goes from its begin to its end.
LEMMA LeadsOne ==
    ASSUME NEW o PROVE Leads(<<o>>, <<o.i1, o.j1>>, <<o.i2, o.j2>>)
<1> DEFINE at == [k \in {0, 1} |-> IF k = 0 THEN <<o.i1, o.j1>> ELSE <<o.i2, o.j2>>]
<1>1. Passes(<<o>>, <<o.i1, o.j1>>, <<o.i2, o.j2>>, at)
    <2>1. Len(<<o>>) = 1 /\ 1..1 = {1} /\ <<o>>[1] = o /\ 1 - 1 = 0
        OBVIOUS
    <2>2. at[0] = <<o.i1, o.j1>> /\ at[1] = <<o.i2, o.j2>>
        OBVIOUS
    <2> HIDE DEF at
    <2> QED BY <2>1, <2>2 DEF Passes
<1> QED BY <1>1 DEF Leads

\* Where a match ends.
EndOf(m) == <<m.i + m.n, m.j + m.n>>

\* What lies between two matches that follow one another.
LEMMA GapLeads ==
    ASSUME NEW a, NEW b, Len(a) \in Nat, Len(b) \in Nat,
           NEW i1 \in 0..Len(a), NEW i2 \in 0..Len(a), NEW j1 \in 0..Len(b), NEW j2 \in 0..Len(b),
           i1 <= i2, j1 <= j2
    PROVE  /\ Gap(i1, i2, j1, j2) \in Seq(OpcodeSet(a, b))
           /\ Leads(Gap(i1, i2, j1, j2), <<i1, j1>>, <<i2, j2>>)
<1>1. ASSUME NEW op \in {"replace", "delete", "insert"},
             op = "delete" => j1 = j2, op = "insert" => i1 = i2
      PROVE  /\ <<Opcode(op, i1, i2, j1, j2)>> \in Seq(OpcodeSet(a, b))
             /\ Leads(<<Opcode(op, i1, i2, j1, j2)>>, <<i1, j1>>, <<i2, j2>>)
    <2> DEFINE o == Opcode(op, i1, i2, j1, j2)
    <2>1. o.op = op /\ o.i1 = i1 /\ o.i2 = i2 /\ o.j1 = j1 /\ o.j2 = j2
        BY DEF Opcode
    <2>2. o \in OpcodeSet(a, b)
        BY <1>1 DEF OpcodeSet, Opcode
    <2> HIDE DEF o
    <2>3. Leads(<<o>>, <<i1, j1>>, <<i2, j2>>)
        BY <2>1, LeadsOne
    <2> QED BY <2>2, <2>3 DEF o
<1>2. CASE i1 < i2 /\ j1 < j2
    <2>1. Gap(i1, i2, j1, j2) = <<Opcode("replace", i1, i2, j1, j2)>>
        BY <1>2 DEF Gap
    <2> QED BY <1>1, <2>1
<1>3. CASE i1 < i2 /\ j1 = j2
    <2>1. Gap(i1, i2, j1, j2) = <<Opcode("delete", i1, i2, j1, j2)>>
        BY <1>3 DEF Gap
    <2> QED BY <1>1, <1>3, <2>1
<1>4. CASE i1 = i2 /\ j1 < j2
    <2>1. Gap(i1, i2, j1, j2) = <<Opcode("insert", i1, i2, j1, j2)>>
        BY <1>4 DEF Gap
    <2> QED BY <1>1, <1>4, <2>1
<1>5. CASE i1 = i2 /\ j1 = j2
    <2>1. Gap(i1, i2, j1, j2) = <<>>
        BY <1>5 DEF Gap
    <2> QED BY <1>5, <2>1, LeadsNone
<1> QED BY <1>2, <1>3, <1>4, <1>5

\* get_opcodes, at one match.
EqualOpcode(m) ==
    IF m.n = 0 THEN <<>> ELSE <<Opcode("equal", m.i, m.i + m.n, m.j, m.j + m.n)>>

\* The opcodes that get_opcodes makes of one match: the gap before it, and its own.
OpcodesAt(m, o) == Gap(m.i + m.n, o.i, m.j + m.n, o.j) \o EqualOpcode(o)

\* The positions of a match that lies within bounds.
LEMMA MatchNumbers ==
    ASSUME NEW a, NEW b, Len(a) \in Nat, Len(b) \in Nat, NEW m \in MatchSet(a, b)
    PROVE  /\ m.i \in 0..Len(a) /\ m.i + m.n \in 0..Len(a) /\ m.i <= m.i + m.n
           /\ m.j \in 0..Len(b) /\ m.j + m.n \in 0..Len(b) /\ m.j <= m.j + m.n
           /\ m.n \in Nat /\ (m.i + m.n) - m.i = m.n /\ (m.j + m.n) - m.j = m.n
           /\ \A k \in 1..m.n : a[m.i + k] = b[m.j + k]
<1>1. /\ m.i + m.n <= Len(a) /\ m.j + m.n <= Len(b)
      /\ \A k \in 1..m.n : a[m.i + k] = b[m.j + k]
    BY DEF MatchSet
<1>2. m.i \in Nat /\ m.j \in Nat /\ m.n \in Nat
    BY DEF MatchSet, MatchRec
<1>3. m.i + m.n \in Nat /\ m.j + m.n \in Nat /\ m.i <= m.i + m.n /\ m.j <= m.j + m.n
    BY <1>2
<1>4. (m.i + m.n) - m.i = m.n /\ (m.j + m.n) - m.j = m.n
    BY <1>2
<1>5. m.i \in 0..Len(a) /\ m.i + m.n \in 0..Len(a) /\ m.j \in 0..Len(b) /\ m.j + m.n \in 0..Len(b)
    BY <1>1, <1>2, <1>3
<1> QED BY <1>1, <1>2, <1>3, <1>4, <1>5

\* The opcodes of a match go from the end of the one before it to its own end.
LEMMA OpcodesAtLead ==
    ASSUME NEW a, NEW b, Len(a) \in Nat, Len(b) \in Nat,
           NEW m \in MatchSet(a, b), NEW o \in MatchSet(a, b), Before(m, o)
    PROVE  /\ OpcodesAt(m, o) \in Seq(OpcodeSet(a, b))
           /\ Leads(OpcodesAt(m, o), EndOf(m), EndOf(o))
<1> DEFINE g == Gap(m.i + m.n, o.i, m.j + m.n, o.j)
           e == EqualOpcode(o)
           c == Opcode("equal", o.i, o.i + o.n, o.j, o.j + o.n)
<1>1. g \in Seq(OpcodeSet(a, b)) /\ Leads(g, EndOf(m), <<o.i, o.j>>)
    <2> DEFINE mi == m.i + m.n
               mj == m.j + m.n
    <2>1. /\ mi \in 0..Len(a) /\ mj \in 0..Len(b) /\ o.i \in 0..Len(a) /\ o.j \in 0..Len(b)
          /\ mi <= o.i /\ mj <= o.j
        BY MatchNumbers DEF Before
    <2> HIDE DEF mi, mj
    <2>2. Gap(mi, o.i, mj, o.j) \in Seq(OpcodeSet(a, b))
        BY <2>1, GapLeads
    <2>3. Leads(Gap(mi, o.i, mj, o.j), <<mi, mj>>, <<o.i, o.j>>)
        BY <2>1, GapLeads
    <2> QED BY <2>2, <2>3 DEF EndOf, mi, mj
<1>2. e \in Seq(OpcodeSet(a, b)) /\ Leads(e, <<o.i, o.j>>, EndOf(o))
    <2>1. CASE o.n = 0
        <3>1. e = <<>>
            BY <2>1 DEF EqualOpcode
        <3>2. EndOf(o) = <<o.i, o.j>>
            BY <2>1, MatchNumbers DEF EndOf
        <3> QED BY <3>1, <3>2, LeadsNone
    <2>2. CASE o.n # 0
        <3>1. e = <<c>>
            BY <2>2 DEF EqualOpcode
        <3>2. c.op = "equal" /\ c.i1 = o.i /\ c.i2 = o.i + o.n /\ c.j1 = o.j /\ c.j2 = o.j + o.n
            BY DEF Opcode
        <3>3. c \in [op : {"equal", "replace", "delete", "insert"},
                     i1 : 0..Len(a), i2 : 0..Len(a), j1 : 0..Len(b), j2 : 0..Len(b)]
            BY MatchNumbers DEF Opcode
        <3> HIDE DEF c
        <3>4. /\ c.i1 <= c.i2 /\ c.j1 <= c.j2 /\ c.i2 - c.i1 = c.j2 - c.j1
              /\ \A k \in 1..(c.i2 - c.i1) : a[c.i1 + k] = b[c.j1 + k]
            BY <3>2, MatchNumbers
        <3>5. c \in OpcodeSet(a, b)
            BY <3>2, <3>3, <3>4 DEF OpcodeSet
        <3>6. Leads(<<c>>, <<o.i, o.j>>, EndOf(o))
            BY <3>2, LeadsOne DEF EndOf
        <3> QED BY <3>1, <3>5, <3>6
    <2> QED BY <2>1, <2>2
<1> HIDE DEF g, e
<1>3. g \o e \in Seq(OpcodeSet(a, b)) /\ Leads(g \o e, EndOf(m), EndOf(o))
    BY <1>1, <1>2, LeadsConcat
<1> QED BY <1>3 DEF OpcodesAt, g, e

\* get_opcodes covers both sequences, without a hole and without an overlap.
LEMMA OpcodesLead ==
    ASSUME NEW T, NEW a \in Seq(T), NEW b \in Seq(T)
    PROVE  /\ Opcodes(a, b) \in Seq(OpcodeSet(a, b))
           /\ Leads(Opcodes(a, b), <<0, 0>>, <<Len(a), Len(b)>>)
<1> DEFINE M == MatchSet(a, b)
           first == Match(0, 0, 0)
           last == Match(Len(a), Len(b), 0)
           mid == MatchingBlocks(a, b)
           blocks == <<first>> \o mid \o <<last>>
           n == Len(mid) + 1
           ss == [k \in 1..n |-> OpcodesAt(blocks[k], blocks[k + 1])]
<1>1. Len(a) \in Nat /\ Len(b) \in Nat /\ 0 \in Nat
    OBVIOUS
<1>2. mid \in Seq(M) /\ InOrder(mid, 0, 0, Len(a), Len(b))
    BY MatchingBlocksInOrder
<1>3. first \in M /\ last \in M /\ EndOf(first) = <<0, 0>> /\ EndOf(last) = <<Len(a), Len(b)>>
    BY <1>1 DEF Match, MatchSet, MatchRec, EndOf
<1>4. M \subseteq MatchRec
    BY DEF MatchSet
<1>5. InOrder(<<first>>, 0, 0, 0, 0) /\ InOrder(<<last>>, Len(a), Len(b), Len(a), Len(b))
    BY <1>1 DEF InOrder, Inside, Match
<1> HIDE DEF M, first, last, mid
<1>6. /\ mid \in Seq(MatchRec) /\ <<first>> \in Seq(MatchRec) /\ <<last>> \in Seq(MatchRec)
      /\ <<first>> \in Seq(M) /\ <<last>> \in Seq(M)
    BY <1>2, <1>3, <1>4, SeqMonotonic
<1>7. /\ <<first>> \o mid \in Seq(MatchRec) /\ <<first>> \o mid \in Seq(M)
      /\ Len(<<first>> \o mid) = n /\ (<<first>> \o mid)[1] = first /\ n \in Nat /\ n >= 1
    BY <1>2, <1>6
<1>8. InOrder(<<first>> \o mid, 0, 0, Len(a), Len(b))
    <2> DEFINE la == Len(a)
               lb == Len(b)
               z == 0
    <2>1. la \in Nat /\ lb \in Nat /\ z \in Nat /\ z <= la /\ z <= lb /\ z <= z
        BY <1>1
    <2>2. InOrder(<<first>>, z, z, z, z) /\ InOrder(mid, z, z, la, lb)
        BY <1>2, <1>5
    <2> HIDE DEF la, lb, z
    <2>3. InOrder(<<first>> \o mid, z, z, la, lb)
        BY <1>6, <2>1, <2>2, InOrderConcat
    <2> QED BY <2>3 DEF la, lb, z
<1>9. InOrder(blocks, 0, 0, Len(a), Len(b))
    <2> DEFINE la == Len(a)
               lb == Len(b)
               z == 0
               fm == <<first>> \o mid
    <2>1. la \in Nat /\ lb \in Nat /\ z \in Nat /\ z <= la /\ z <= lb /\ la <= la /\ lb <= lb
        BY <1>1
    <2>2. InOrder(fm, z, z, la, lb) /\ InOrder(<<last>>, la, lb, la, lb) /\ fm \in Seq(MatchRec)
        BY <1>5, <1>7, <1>8
    <2> HIDE DEF la, lb, z, fm
    <2>3. InOrder(fm \o <<last>>, z, z, la, lb)
        BY <1>6, <2>1, <2>2, InOrderConcat
    <2> QED BY <2>3 DEF la, lb, z, fm
<1>10. /\ blocks \in Seq(M) /\ Len(blocks) = n + 1
       /\ blocks[1] = first /\ blocks[n + 1] = last
    <2> DEFINE fm == <<first>> \o mid
    <2>1. fm \in Seq(M) /\ Len(fm) = n /\ fm[1] = first
        BY <1>7
    <2> HIDE DEF fm, n
    <2>2. /\ fm \o <<last>> \in Seq(M) /\ Len(fm \o <<last>>) = n + 1
          /\ (fm \o <<last>>)[1] = first /\ (fm \o <<last>>)[n + 1] = last
        BY <1>6, <1>7, <2>1
    <2> QED BY <2>2 DEF fm
<1>11. Opcodes(a, b) = FlattenSeq(ss)
    <2>1. Len(blocks) - 1 = n
        <3> HIDE DEF blocks, n
        <3> QED BY <1>7, <1>10
    <2> DEFINE tt == [k \in 1..(Len(blocks) - 1) |->
                        OpcodesAt(blocks[(k + 1) - 1], blocks[k + 1])]
    <2>2. Opcodes(a, b) = FlattenSeq(tt)
        BY DEF Opcodes, OpcodesAt, EqualOpcode, mid, first, last
    <2>3. tt = ss
        <3>1. \A k \in 1..n : (k + 1) - 1 = k
            OBVIOUS
        <3> HIDE DEF blocks, n
        <3> QED BY <2>1, <3>1
    <2> QED BY <2>2, <2>3
<1> HIDE DEF blocks, n
<1>12. ASSUME NEW k \in 1..n
       PROVE  /\ ss[k] \in Seq(OpcodeSet(a, b))
              /\ Leads(ss[k], EndOf(blocks[k]), EndOf(blocks[k + 1]))
    <2>1. k \in 1..Len(blocks) /\ k + 1 \in 1..Len(blocks) /\ k < Len(blocks)
        BY <1>7, <1>10
    <2>2. blocks[k] \in M /\ blocks[k + 1] \in M
        BY <1>10, <2>1
    <2>3. Before(blocks[k], blocks[k + 1])
        BY <1>9, <2>1 DEF InOrder
    <2>4. ss[k] = OpcodesAt(blocks[k], blocks[k + 1])
        OBVIOUS
    <2> HIDE DEF ss
    <2> QED BY <1>1, <2>2, <2>3, <2>4, OpcodesAtLead DEF M
<1>13. ss \in Seq(Seq(OpcodeSet(a, b))) /\ Len(ss) = n
    BY <1>7, <1>12
<1> HIDE DEF ss
<1>14. PICK acc \in [0..n -> Seq(OpcodeSet(a, b))] : IsFlat(ss, acc)
    BY <1>13, FlatExists
<1> DEFINE S == {k \in 0..n : Leads(acc[k], <<0, 0>>, EndOf(blocks[k + 1]))}
<1>15. 0 \in S
    <2>1. acc[0] = <<>> /\ blocks[0 + 1] = first
        BY <1>10, <1>14 DEF IsFlat
    <2>2. Leads(acc[0], <<0, 0>>, EndOf(blocks[0 + 1]))
        BY <1>3, <2>1, LeadsNone
    <2> QED BY <1>7, <2>2
<1>16. ASSUME NEW k \in 0..n, k < n, k \in S PROVE k + 1 \in S
    <2>1. k + 1 \in 1..n /\ k + 1 \in 0..n
        BY <1>7, <1>16
    <2>2. acc[k + 1] = acc[k] \o ss[k + 1] /\ acc[k] \in Seq(OpcodeSet(a, b))
        BY <1>13, <1>14, <1>16 DEF IsFlat
    <2>3. /\ ss[k + 1] \in Seq(OpcodeSet(a, b))
          /\ Leads(ss[k + 1], EndOf(blocks[k + 1]), EndOf(blocks[(k + 1) + 1]))
        BY <1>12, <2>1
    <2>4. Leads(acc[k], <<0, 0>>, EndOf(blocks[k + 1]))
        BY <1>16
    <2>5. Leads(acc[k + 1], <<0, 0>>, EndOf(blocks[(k + 1) + 1]))
        BY <2>2, <2>3, <2>4, LeadsConcat
    <2> QED BY <2>1, <2>5
<1>17. \A k \in 0..n : k \in S
    <2> HIDE DEF S
    <2> QED BY <1>7, <1>15, <1>16, BoundedInduction
<1>18. n \in S
    BY <1>7, <1>17
<1>19. Leads(acc[n], <<0, 0>>, <<Len(a), Len(b)>>)
    BY <1>3, <1>10, <1>18
<1>20. FlattenSeq(ss) = acc[n]
    BY <1>13, <1>14, FlatIs
<1> QED BY <1>7, <1>11, <1>14, <1>19, <1>20

-----------------------------------------------------------------------------
(* The ratio *)

\* The turns of the sum of the matches.
LengthLoop(ms, acc) ==
    /\ acc[0] = 0
    /\ \A k \in 0..Len(ms) : k < Len(ms) => acc[k + 1] = acc[k] + ms[k + 1].n

\* MatchedLength as a loop.
LEMMA LengthExists ==
    ASSUME NEW ms \in Seq(MatchRec)
    PROVE  \E acc \in [0..Len(ms) -> Int] : LengthLoop(ms, acc) /\ MatchedLength(ms) = acc[Len(ms)]
<1> DEFINE n == Len(ms)
           A == Int
           base == 0
           step == [xk \in A \X (1..n) |-> xk[1] + ms[xk[2]].n]
           P(f) == f = [z \in SUBSET (DOMAIN ms) |->
                           IF z = {} THEN base ELSE f[z \ {Max(z)}] + ms[Max(z)].n]
           it == CHOOSE f : P(f)
<1>1. n \in Nat /\ DOMAIN ms = 1..n /\ \A k \in 1..n : ms[k] \in MatchRec
    OBVIOUS
<1>2. \A x \in A, k \in 1..n : step[<<x, k>>] = x + ms[k].n
    OBVIOUS
<1>3. step \in [A \X (1..n) -> A] /\ base \in A
    <2>1. base \in A
        OBVIOUS
    <2>2. \A x \in A, k \in 1..n : x + ms[k].n \in A
        <3>1. \A m \in MatchRec : m.n \in Int
            BY DEF MatchRec
        <3> QED BY <1>1, <3>1
    <2> HIDE DEF A, base
    <2> QED BY <2>1, <2>2
<1> HIDE DEF A, base, step, n
<1>4. ASSUME NEW f \in [SUBSET (1..n) -> A], Folds(base, n, step, f)
      PROVE  FoldsIn(A, base, n, step, it)
    <2>1. P(f)
        BY <1>1, <1>2, <1>4, LastOff DEF Folds
    <2>2. P(it)
        <3> HIDE DEF P
        <3> QED BY <2>1
    <2> HIDE DEF it
    <2> QED BY <1>1, <1>2, <2>2, LastOff DEF FoldsIn
<1>5. PICK acc \in [0..n -> A] : LoopOf(base, n, step, it, acc)
    <2> HIDE DEF it
    <2> QED BY <1>1, <1>3, <1>4, FoldLoop
<1>6. MatchedLength(ms) = it[1..n]
    BY <1>1 DEF MatchedLength, FoldLeft, MapThenFoldSet, base
<1> HIDE DEF it
<1>7. ASSUME NEW k \in 0..n, k < n PROVE acc[k + 1] = acc[k] + ms[k + 1].n
    <2>1. acc[k] \in A /\ k + 1 \in 1..n
        BY <1>1, <1>7
    <2> QED BY <1>2, <1>5, <1>7, <2>1 DEF LoopOf, Turns
<1> QED BY <1>5, <1>6, <1>7 DEF LoopOf, Turns, LengthLoop, n, A, base

\* The matches are no longer than either sequence.
LEMMA MatchedLengthBound ==
    ASSUME NEW la \in Nat, NEW lb \in Nat, NEW ms \in Seq(MatchRec), InOrder(ms, 0, 0, la, lb)
    PROVE  MatchedLength(ms) \in Nat /\ MatchedLength(ms) <= la /\ MatchedLength(ms) <= lb
<1> DEFINE n == Len(ms)
           Ei(k) == IF k = 0 THEN 0 ELSE ms[k].i + ms[k].n
           Ej(k) == IF k = 0 THEN 0 ELSE ms[k].j + ms[k].n
<1>1. PICK acc \in [0..n -> Int] : LengthLoop(ms, acc) /\ MatchedLength(ms) = acc[n]
    BY LengthExists
<1>2. n \in Nat /\ \A k \in 1..n : ms[k] \in MatchRec
    OBVIOUS
<1>3. \A m \in MatchRec : InNumbers(m)
    BY DEF MatchRec, InNumbers
<1> HIDE DEF n
<1>4. ASSUME NEW k \in 0..n PROVE Ei(k) \in Nat /\ Ej(k) \in Nat /\ Ei(k) <= la /\ Ej(k) <= lb
    <2>1. CASE k = 0
        BY <2>1
    <2>2. CASE k # 0
        <3>1. k \in 1..n
            BY <1>2, <2>2
        <3>2. InNumbers(ms[k]) /\ Inside(ms[k], 0, 0, la, lb)
            BY <1>2, <1>3, <3>1 DEF InOrder, n
        <3> QED BY <2>2, <3>2 DEF InNumbers, Inside
    <2> QED BY <2>1, <2>2
<1>5. ASSUME NEW k \in 0..n, k < n
      PROVE  Ei(k) + ms[k + 1].n <= Ei(k + 1) /\ Ej(k) + ms[k + 1].n <= Ej(k + 1) /\ ms[k + 1].n \in Nat
    <2> DEFINE m == ms[k + 1]
    <2>1. k + 1 \in 1..n /\ k + 1 # 0
        BY <1>2, <1>5
    <2>2. InNumbers(m) /\ Inside(m, 0, 0, la, lb)
        BY <1>2, <1>3, <2>1 DEF InOrder, n
    <2>3. Ei(k) <= m.i /\ Ej(k) <= m.j
        <3>1. CASE k = 0
            BY <2>2, <3>1 DEF InNumbers
        <3>2. CASE k # 0
            <4>1. k \in 1..n
                BY <1>2, <3>2
            <4>2. Before(ms[k], m)
                BY <1>5, <4>1 DEF InOrder, n
            <4> HIDE DEF m
            <4> QED BY <3>2, <4>2 DEF Before
        <3> QED BY <3>1, <3>2
    <2>4. Ei(k + 1) = m.i + m.n /\ Ej(k + 1) = m.j + m.n
        BY <2>1
    <2> HIDE DEF m, Ei, Ej
    <2>5. m.i \in Nat /\ m.j \in Nat /\ m.n \in Nat /\ Ei(k) \in Nat /\ Ej(k) \in Nat
        BY <1>4, <2>2 DEF InNumbers
    <2>6. Ei(k) + m.n <= m.i + m.n /\ Ej(k) + m.n <= m.j + m.n
        <3> DEFINE a == m.i
                   b == m.j
                   l == m.n
                   x == Ei(k)
                   y == Ej(k)
        <3>1. a \in Nat /\ b \in Nat /\ l \in Nat /\ x \in Nat /\ y \in Nat /\ x <= a /\ y <= b
            BY ONLY <2>3, <2>5
        <3> HIDE DEF a, b, l, x, y
        <3>2. x + l <= a + l /\ y + l <= b + l
            BY ONLY <3>1
        <3> QED BY ONLY <3>2 DEF a, b, l, x, y
    <2> QED BY <2>4, <2>5, <2>6 DEF m
<1> DEFINE S == {k \in 0..n : acc[k] \in Nat /\ acc[k] <= Ei(k) /\ acc[k] <= Ej(k)}
<1>6. 0 \in S
    BY <1>1, <1>2 DEF LengthLoop
<1>7. ASSUME NEW k \in 0..n, k < n, k \in S PROVE k + 1 \in S
    <2>1. acc[k + 1] = acc[k] + ms[k + 1].n
        BY <1>1, <1>7 DEF LengthLoop, n
    <2>2. k + 1 \in 0..n
        BY <1>2, <1>7
    <2> HIDE DEF Ei, Ej
    <2>3. Ei(k) \in Nat /\ Ej(k) \in Nat /\ Ei(k + 1) \in Nat /\ Ej(k + 1) \in Nat
        BY <1>4, <2>2
    <2>4. ms[k + 1].n \in Nat /\ Ei(k) + ms[k + 1].n <= Ei(k + 1) /\ Ej(k) + ms[k + 1].n <= Ej(k + 1)
        BY <1>5, <1>7
    <2>5. acc[k] \in Nat /\ acc[k] <= Ei(k) /\ acc[k] <= Ej(k)
        BY <1>7
    <2> DEFINE x == acc[k]
               y == ms[k + 1].n
               ei == Ei(k)
               ej == Ej(k)
               fi == Ei(k + 1)
               fj == Ej(k + 1)
    <2>6. x + y \in Nat /\ x + y <= fi /\ x + y <= fj
        <3>1. /\ x \in Nat /\ y \in Nat /\ ei \in Nat /\ ej \in Nat /\ fi \in Nat /\ fj \in Nat
              /\ ei + y <= fi /\ ej + y <= fj /\ x <= ei /\ x <= ej
            BY <2>3, <2>4, <2>5
        <3> HIDE DEF x, y, ei, ej, fi, fj
        <3> QED BY <3>1
    <2> QED BY <2>1, <2>2, <2>6
<1>8. n \in S
    <2> HIDE DEF S
    <2>1. \A k \in 0..n : k \in S
        BY <1>2, <1>6, <1>7, BoundedInduction
    <2> QED BY <1>2, <2>1
<1> HIDE DEF Ei, Ej
<1>9. n \in 0..n
    BY <1>2
<1> QED BY <1>1, <1>4, <1>8, <1>9

\* A quotient is no more than the bound on its numerator allows.
LEMMA Quotient ==
    ASSUME NEW x \in Nat, NEW d \in Nat, d > 0, x <= 1000 * d
    PROVE  x \div d \in 0..1000
<1> DEFINE q == x \div d
<1>1. q \in Int /\ d * q <= x /\ x < d * (q + 1)
    OBVIOUS
<1> HIDE DEF q
<1>2. q <= 1000
    <2> SUFFICES ASSUME q >= 1001 PROVE FALSE
        BY <1>1
    <2>1. d * q >= d * 1001
        BY <1>1
    <2> QED BY <1>1, <2>1
<1>3. q >= 0
    <2> SUFFICES ASSUME q + 1 <= 0 PROVE FALSE
        BY <1>1
    <2>1. d * (q + 1) <= 0
        BY <1>1
    <2> QED BY <1>1, <2>1
<1> QED BY <1>1, <1>2, <1>3 DEF q

\* A ratio, per mille.
Permille == 0..1000

\* A ratio of difflib lies between 0 and 1.
LEMMA RatioBound ==
    ASSUME NEW T, NEW a \in Seq(T), NEW b \in Seq(T)
    PROVE  Ratio(a, b) \in Permille
<1> DEFINE l == MatchedLength(MatchingBlocks(a, b))
           d == Len(a) + Len(b)
<1>1. l \in Nat /\ l <= Len(a) /\ l <= Len(b)
    <2> DEFINE la == Len(a)
               lb == Len(b)
               ms == MatchingBlocks(a, b)
    <2>1. MatchSet(a, b) \subseteq MatchRec
        BY DEF MatchSet
    <2>2. ms \in Seq(MatchRec) /\ InOrder(ms, 0, 0, la, lb) /\ la \in Nat /\ lb \in Nat
        BY <2>1, MatchingBlocksInOrder, SeqMonotonic
    <2> HIDE DEF la, lb, ms
    <2> QED BY <2>2, MatchedLengthBound DEF la, lb, ms
<1>2. CASE d = 0
    BY <1>2 DEF Ratio, Permille
<1>3. CASE d # 0
    <2>1. Ratio(a, b) = (2000 * l) \div d
        BY <1>3 DEF Ratio
    <2>2. d \in Nat /\ d > 0 /\ 2000 * l \in Nat /\ 2000 * l <= 1000 * d
        BY <1>1, <1>3
    <2> DEFINE x == 2000 * l
    <2>3. x \in Nat /\ x <= 1000 * d /\ Ratio(a, b) = x \div d
        BY <2>1, <2>2
    <2> HIDE DEF x, d
    <2> QED BY <2>2, <2>3, Quotient DEF Permille
<1> QED BY <1>2, <1>3

=============================================================================
