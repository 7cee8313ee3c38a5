-------------------------- MODULE AlignmentProofs --------------------------
(***************************************************************************)
(* The alignment of two changed ranges, for any blocks: the cost table has *)
(* the cheapest way to each cell, and the way back through it takes every  *)
(* block once, in order, at that cost.                                     *)
(***************************************************************************)
EXTENDS HierarchicalDiff, DifflibProofs, FiniteSetTheorems

-----------------------------------------------------------------------------
(* Texts and blocks *)

\* The kinds of a block, that of several blocks included.
Kinds == {"table_row", "list_item", "heading", "paragraph", "group"}

\* A block: its kind, its text and its heading path.
BlockSet ==
    [kind : Kinds, words : Lines, page : Nat, block : Nat, before : Lines, after : Lines]

\* Texts are closed under concatenation.
LEMMA TextType == <<>> \in Text /\ \A s, t \in Text : s \o t \in Text
BY DEF Text

\* So are those that no word goes on into.
LEMMA LinesType ==
    /\ Lines \in SUBSET Text /\ <<>> \in Lines
    /\ \A s, t \in Lines : s \o t \in Lines
<1>1. Lines \in SUBSET Text /\ <<>> \in Lines
    BY TextType DEF Lines
<1>2. ASSUME NEW s \in Lines, NEW t \in Lines PROVE s \o t \in Lines
    <2>1. s \in Seq(Glyphs) /\ t \in Seq(Glyphs) /\ (s # <<>> => ~s[1].glued) /\ (t # <<>> => ~t[1].glued)
        BY DEF Lines, Text
    <2>2. CASE s = <<>>
        BY <2>1, <2>2
    <2>3. CASE s # <<>>
        <3>1. s \o t \in Seq(Glyphs) /\ (s \o t)[1] = s[1]
            BY <2>1, <2>3
        <3> QED BY <2>1, <2>3, <3>1 DEF Lines, Text
    <2> QED BY <2>2, <2>3
<1> QED BY <1>1, <1>2

\* A concatenation of lines is such a text.
LEMMA LinesFlat ==
    ASSUME NEW ss \in Seq(Lines) PROVE FlattenSeq(ss) \in Lines
<1> DEFINE n == Len(ss)
           S == {k \in 0..n : FlattenSeq(Upto(ss, k)) \in Lines}
<1>1. /\ n \in Nat /\ Upto(ss, 0) = <<>> /\ Upto(ss, n) = ss
      /\ \A k \in 0..n : Upto(ss, k) \in Seq(Lines)
      /\ \A k \in 0..n : k < n => Upto(ss, k + 1) = Append(Upto(ss, k), ss[k + 1])
    BY UptoProperties
<1>2. 0 \in S
    BY <1>1, FlatEmpty, LinesType
<1>3. ASSUME NEW k \in 0..n, k < n, k \in S PROVE k + 1 \in S
    <2>1. k + 1 \in 0..n /\ k + 1 \in 1..n
        BY <1>1, <1>3
    <2>2. ss[k + 1] \in Lines
        BY <2>1
    <2> DEFINE u == Upto(ss, k)
               t == ss[k + 1]
    <2>3. u \in Seq(Seq(Glyphs)) /\ t \in Seq(Glyphs) /\ FlattenSeq(u) \in Lines /\ t \in Lines
        <3>1. Lines \in SUBSET Seq(Glyphs)
            BY LinesType DEF Text
        <3>2. Seq(Lines) \in SUBSET Seq(Seq(Glyphs))
            BY <3>1
        <3> QED BY <1>1, <1>3, <2>2, <3>1, <3>2
    <2>4. FlattenSeq(Upto(ss, k + 1)) = FlattenSeq(Append(u, t))
        BY <1>1, <1>3
    <2> HIDE DEF u, t
    <2>5. FlattenSeq(Append(u, t)) = FlattenSeq(u) \o t
        BY <2>3, FlatAppend
    <2>6. FlattenSeq(u) \o t \in Lines
        BY <2>3, LinesType
    <2> QED BY <2>1, <2>4, <2>5, <2>6
<1>4. n \in S
    <2> HIDE DEF S, n
    <2>1. \A k \in 0..n : k \in S
        BY <1>1, <1>2, <1>3, BoundedInduction
    <2> QED BY <1>1, <2>1
<1> QED BY <1>1, <1>4

\* The rest of a text is one.
LEMMA TailType ==
    ASSUME NEW T, NEW s \in Seq(T), s # <<>>
    PROVE  Tail(s) \in Seq(T) /\ Front(s) \in Seq(T)
<1>1. Tail(s) \in Seq(T)
    OBVIOUS
<1>2. SubSeq(s, 1, Len(s) - 1) \in Seq(T)
    OBVIOUS
<1> QED BY <1>1, <1>2 DEF Front

\* Characters picked out of a text are a text that begins with them.
LEMMA KeepType ==
    ASSUME NEW ws \in Text, NEW K \in SUBSET (1..Len(ws)) PROVE Keep(ws, K) \in Lines
<1> DEFINE n == Len(ws)
           joined == [k \in 1..n |-> \E j \in K : j < k /\ \A i \in (j + 1)..k : ws[i].glued]
           kept == [k \in 1..n |-> Glyph(ws[k].char, joined[k])]
           ss == [k \in 1..n |-> IF k \in K THEN <<kept[k]>> ELSE <<>>]
           flat == [k \in 0..n |-> FlattenSeq(Upto(ss, k))]
           S == {k \in 0..n : flat[k] \in Lines /\ (flat[k] = <<>> => \A j \in K : j > k)}
<1>1. n \in Nat /\ \A k \in 1..n : ws[k] \in Glyphs
    BY DEF Text
<1>2. Keep(ws, K) = FlattenSeq(ss)
    BY DEF Keep
<1>3. \A k \in 1..n : joined[k] \in BOOLEAN
    OBVIOUS
<1>4. \A k \in 1..n : (\A j \in K : j > k - 1) => ~joined[k]
    BY <1>1
<1> HIDE DEF joined
<1>5. \A k \in 1..n : kept[k] \in Glyphs /\ kept[k].glued = joined[k]
    BY <1>1, <1>3 DEF Glyph, Glyphs
<1> HIDE DEF kept
<1>6. /\ ss \in Seq(Seq(Glyphs)) /\ Len(ss) = n
      /\ \A k \in 1..n : ss[k] = IF k \in K THEN <<kept[k]>> ELSE <<>>
    BY <1>1, <1>5
<1> HIDE DEF ss
<1>7. /\ Upto(ss, 0) = <<>> /\ Upto(ss, n) = ss
      /\ \A k \in 0..n : Upto(ss, k) \in Seq(Seq(Glyphs))
      /\ \A k \in 0..n : k < n => Upto(ss, k + 1) = Append(Upto(ss, k), ss[k + 1])
    BY <1>6, UptoProperties
<1>8. flat[0] = <<>> /\ flat[n] = FlattenSeq(ss)
    BY <1>1, <1>7, FlatEmpty
<1>9. ASSUME NEW k \in 0..n, k < n PROVE flat[k + 1] = flat[k] \o ss[k + 1]
    <2>1. k + 1 \in 1..n /\ k + 1 \in 0..n
        BY <1>1, <1>9
    <2>2. ss[k + 1] \in Seq(Glyphs) /\ Upto(ss, k) \in Seq(Seq(Glyphs))
        BY <1>6, <1>7, <2>1
    <2>3. FlattenSeq(Append(Upto(ss, k), ss[k + 1])) = FlattenSeq(Upto(ss, k)) \o ss[k + 1]
        BY <2>2, FlatAppend
    <2>4. flat[k + 1] = FlattenSeq(Upto(ss, k + 1)) /\ flat[k] = FlattenSeq(Upto(ss, k))
        BY <2>1
    <2> QED BY <1>7, <1>9, <2>3, <2>4
<1> HIDE DEF flat, n
<1>10. 0 \in S
    <2>1. n \in Nat /\ \A j \in K : j > 0
        BY <1>1 DEF n
    <2> QED BY <1>8, <2>1, LinesType
<1>11. ASSUME NEW k \in 0..n, k < n, k \in S PROVE k + 1 \in S
    <2>1. k + 1 \in 1..n /\ k + 1 \in 0..n /\ k \in Nat /\ (k + 1) - 1 = k
        BY <1>1, <1>11
    <2>2. flat[k] \in Lines /\ (flat[k] = <<>> => \A j \in K : j > k)
        BY <1>11
    <2> DEFINE f == flat[k]
               g == kept[k + 1]
    <2>3. g \in Glyphs /\ (f = <<>> => ~g.glued)
        BY <1>4, <1>5, <2>1, <2>2
    <2>4. flat[k + 1] = f \o (IF k + 1 \in K THEN <<g>> ELSE <<>>)
        BY <1>6, <1>9, <1>11, <2>1
    <2>5. f \in Seq(Glyphs) /\ (f # <<>> => ~f[1].glued)
        BY <2>2 DEF Lines, Text
    <2> HIDE DEF f, g
    <2>6. CASE k + 1 \in K
        <3>1. f \o <<g>> \in Seq(Glyphs) /\ f \o <<g>> # <<>>
            BY <2>3, <2>5
        <3>2. ~(f \o <<g>>)[1].glued
            <4>1. CASE f = <<>>
                BY <2>3, <2>5, <4>1
            <4>2. CASE f # <<>>
                BY <2>3, <2>5, <4>2
            <4> QED BY <4>1, <4>2
        <3>3. f \o <<g>> \in Lines
            BY <3>1, <3>2 DEF Lines, Text
        <3> QED BY <2>1, <2>4, <2>6, <3>1, <3>3
    <2>7. CASE k + 1 \notin K
        <3>1. f \o <<>> = f
            BY <2>5
        <3>2. (\A j \in K : j > k) => \A j \in K : j > k + 1
            BY <1>1, <2>1, <2>7 DEF n
        <3> QED BY <2>1, <2>2, <2>4, <2>7, <3>1, <3>2 DEF f
    <2> QED BY <2>6, <2>7
<1>12. n \in S
    <2> HIDE DEF S
    <2>1. \A k \in 0..n : k \in S
        BY <1>1, <1>10, <1>11, BoundedInduction
    <2> QED BY <1>1, <2>1
<1> QED BY <1>2, <1>8, <1>12

\* The comparison key of a text is a text.
LEMMA KeyType == ASSUME NEW ws \in Text PROVE Key(ws) \in Text
<1>1. ASSUME NEW s \in Text PROVE Dashed(s) \in Text
    <2>1. \A k \in 1..Len(s) : s[k] \in Glyphs /\ s[k].glued \in BOOLEAN
        <3>1. \A g \in Glyphs : g.glued \in BOOLEAN
            BY DEF Glyphs
        <3> QED BY <3>1 DEF Text
    <2>2. Len(s) \in Nat /\ \A b \in BOOLEAN : Glyph("-", b) \in Glyphs
        BY DEF Glyph, Glyphs, Chars, Dashes, Text
    <2> QED BY <2>1, <2>2 DEF Dashed, Text
<1>2. ASSUME NEW s \in Text PROVE WithoutPrefix(s) \in Text
    <2> DEFINE K == (Len(FirstWord(s)) + 1)..Len(s)
    <2>1. FirstWord(s) \in Seq(Chars)
        <3> DEFINE m == Cardinality({k \in 1..Len(s) : \A i \in 2..k : s[i].glued})
        <3>1. m \in 0..Len(s)
            <4> DEFINE A == 1..Len(s)
                       D == {k \in A : \A i \in 2..k : s[i].glued}
            <4>1. Len(s) \in Nat /\ D \in SUBSET A
                BY DEF Text
            <4>2. IsFiniteSet(A) /\ Cardinality(A) = Len(s)
                <5>1. 1 \in Int /\ Len(s) \in Int
                    BY <4>1
                <5>2. /\ IsFiniteSet(A)
                      /\ Cardinality(A) = IF 1 > Len(s) THEN 0 ELSE Len(s) - 1 + 1
                    BY <5>1, FS_Interval
                <5> QED BY <4>1, <5>2
            <4> HIDE DEF A, D
            <4>3. IsFiniteSet(D) /\ Cardinality(D) \in Nat /\ Cardinality(D) <= Cardinality(A)
                BY <4>1, <4>2, FS_Subset, FS_CardinalityType
            <4>4. Cardinality(D) \in 0..Len(s)
                BY <4>1, <4>2, <4>3
            <4> QED BY <4>4 DEF D, A
        <3> HIDE DEF m
        <3>2. SubSeq(s, 1, m) \in Seq(Glyphs)
            BY <3>1 DEF Text
        <3> DEFINE u == SubSeq(s, 1, m)
        <3> HIDE DEF u
        <3>3. u \in Seq(Glyphs)
            BY <3>2 DEF u
        <3>4. \A g \in Glyphs : g.char \in Chars
            BY DEF Glyphs
        <3>5. Bare(u) \in Seq(Chars)
            BY <3>3, <3>4 DEF Bare
        <3> QED BY <3>5 DEF FirstWord, u, m
    <2>2. K \in SUBSET (1..Len(s))
        BY <2>1 DEF Text
    <2> HIDE DEF K
    <2>3. Keep(s, K) \in Text
        BY <2>2, KeepType, LinesType
    <2> QED BY <2>3 DEF WithoutPrefix, K
<1>3. ASSUME NEW s \in Text PROVE WithoutEmphasis(s) \in Text
    <2> DEFINE K == {k \in 1..Len(s) : ~Paired(s, k) /\ ~Outer(s, k)}
    <2>1. K \in SUBSET (1..Len(s))
        OBVIOUS
    <2> HIDE DEF K
    <2>2. Keep(s, K) \in Text
        BY <2>1, KeepType, LinesType
    <2> QED BY <2>2 DEF WithoutEmphasis, K
<1> QED BY <1>1, <1>2, <1>3 DEF Key

\* The words of blocks are such a text.
LEMMA WordsType ==
    ASSUME NEW bs \in Seq(BlockSet) PROVE Words(bs) \in Lines /\ Words(bs) \in Text
<1> DEFINE ss == [k \in 1..Len(bs) |-> bs[k].words]
<1>1. \A x \in BlockSet : x.words \in Lines
    BY DEF BlockSet
<1>2. ss \in Seq(Lines)
    BY <1>1
<1> QED BY <1>2, LinesFlat, LinesType DEF Words

\* Several blocks in one are a block with their words.
LEMMA CombineType ==
    ASSUME NEW bs \in Seq(BlockSet), bs # <<>>
    PROVE  Combine(bs) \in BlockSet /\ Combine(bs).words = Words(bs)
<1>1. bs[1] \in BlockSet /\ Last(bs) \in BlockSet
    BY DEF Last
<1>2. Words(bs) \in Lines
    BY WordsType
<1>3. "group" \in Kinds /\ bs[1].kind \in Kinds /\ Last(bs).after \in Lines
    BY <1>1 DEF BlockSet, Kinds
<1> DEFINE k == IF \A n \in 1..Len(bs) : bs[n].kind = bs[1].kind THEN bs[1].kind ELSE "group"
<1>4. Combine(bs) = [bs[1] EXCEPT !.kind = k, !.words = Words(bs), !.after = Last(bs).after]
    BY DEF Combine
<1>5. k \in Kinds
    BY <1>3
<1> HIDE DEF k
<1> QED BY <1>1, <1>2, <1>3, <1>4, <1>5 DEF BlockSet

\* A part of a sequence between two positions.
LEMMA PartType ==
    ASSUME NEW T, NEW s \in Seq(T), NEW i \in 0..Len(s), NEW j \in 0..Len(s), i <= j
    PROVE  /\ SubSeq(s, i + 1, j) \in Seq(T) /\ Len(SubSeq(s, i + 1, j)) = j - i
           /\ \A k \in 1..(j - i) : SubSeq(s, i + 1, j)[k] = s[i + k]
<1>1. Len(s) \in Nat /\ i + 1 \in Int /\ j \in Int /\ \A k \in (i + 1)..j : s[k] \in T
    OBVIOUS
<1>2. SubSeq(s, i + 1, j) \in Seq(T)
    BY <1>1, SubSeqProperties
<1>3. Len(SubSeq(s, i + 1, j)) = j - i
    <2>1. CASE i = j
        <3>1. j < i + 1
            BY <1>1, <2>1
        <3>2. SubSeq(s, i + 1, j) = <<>>
            BY <1>1, <3>1, SubSeqEmpty
        <3> QED BY <1>1, <2>1, <3>2
    <2>2. CASE i # j
        BY <1>1, <2>2, SubSeqProperties
    <2> QED BY <2>1, <2>2
<1>4. ASSUME NEW k \in 1..(j - i) PROVE SubSeq(s, i + 1, j)[k] = s[i + k]
    <2>1. k \in 1..(j - (i + 1) + 1) /\ (i + 1) + k - 1 = i + k
        BY <1>1
    <2> QED BY <1>1, <2>1, SubSeqProperties
<1> QED BY <1>2, <1>3, <1>4

\* The ratio of two texts, as AlignmentCost's match costs have it.
LEMMA TextRatio ==
    ASSUME NEW v \in Text, NEW w \in Text
    PROVE  Ratio(Key(v), Key(w)) \in Permille
<1>1. Key(v) \in Seq(Glyphs) /\ Key(w) \in Seq(Glyphs)
    BY KeyType DEF Text
<1> QED BY <1>1, RatioBound

\* A gap of one block, or a match of up to three with up to three.
MoveSet ==
    {mv \in (0..3) \X (0..3) : mv = <<1, 0>> \/ mv = <<0, 1>> \/ (mv[1] # 0 /\ mv[2] # 0)}

\* A move costs no less than nothing.
LEMMA MoveCostType ==
    ASSUME NEW left \in Seq(BlockSet), NEW right \in Seq(BlockSet),
           NEW i \in Nat, NEW j \in Nat, NEW mv \in MoveSet,
           i + mv[1] <= Len(left), j + mv[2] <= Len(right)
    PROVE  MoveCost(left, right, i, j, mv) \in Nat
<1>1. CASE IsGap(mv)
    BY <1>1 DEF MoveCost, GapCost
<1>2. CASE ~IsGap(mv)
    <2> DEFINE ls == Combine(SubSeq(left, i + 1, i + mv[1]))
               rs == Combine(SubSeq(right, j + 1, j + mv[2]))
               ratio == Ratio(Key(ls.words), Key(rs.words))
               kinds == IF mv = <<1, 1>> /\ ls.kind # rs.kind THEN 60 ELSE 0
               cost == 1000 - ratio + kinds + 30 * (mv[1] + mv[2] - 2)
    <2>1. mv[1] \in 1..3 /\ mv[2] \in 1..3
        BY <1>2 DEF IsGap, MoveSet
    <2>2. /\ i \in 0..Len(left) /\ i + mv[1] \in 0..Len(left) /\ i <= i + mv[1]
          /\ j \in 0..Len(right) /\ j + mv[2] \in 0..Len(right) /\ j <= j + mv[2]
          /\ (i + mv[1]) - i > 0 /\ (j + mv[2]) - j > 0
        <3> DEFINE p == mv[1]
                   q == mv[2]
                   l == Len(left)
                   r == Len(right)
        <3>1. p \in 1..3 /\ q \in 1..3 /\ i + p <= l /\ j + q <= r
            BY <2>1
        <3>2. l \in Nat /\ r \in Nat /\ i \in Nat /\ j \in Nat
            OBVIOUS
        <3> HIDE DEF p, q, l, r
        <3>3. i \in 0..l /\ i + p \in 0..l /\ i <= i + p /\ (i + p) - i > 0
            BY ONLY <3>1, <3>2
        <3>4. j \in 0..r /\ j + q \in 0..r /\ j <= j + q /\ (j + q) - j > 0
            BY ONLY <3>1, <3>2
        <3> QED BY ONLY <3>3, <3>4 DEF p, q, l, r
    <2>3. /\ SubSeq(left, i + 1, i + mv[1]) \in Seq(BlockSet)
          /\ SubSeq(left, i + 1, i + mv[1]) # <<>>
        <3> DEFINE part == SubSeq(left, i + 1, i + mv[1])
        <3>1. Len(part) > 0 /\ part \in Seq(BlockSet)
            BY <2>2, PartType
        <3> HIDE DEF part
        <3>2. part \in Seq(BlockSet) /\ part # <<>>
            BY <3>1
        <3> QED BY <3>2 DEF part
    <2>4. /\ SubSeq(right, j + 1, j + mv[2]) \in Seq(BlockSet)
          /\ SubSeq(right, j + 1, j + mv[2]) # <<>>
        <3> DEFINE part == SubSeq(right, j + 1, j + mv[2])
        <3>1. Len(part) > 0 /\ part \in Seq(BlockSet)
            BY <2>2, PartType
        <3> HIDE DEF part
        <3>2. part \in Seq(BlockSet) /\ part # <<>>
            BY <3>1
        <3> QED BY <3>2 DEF part
    <2>5. ls.words \in Text /\ rs.words \in Text
        BY <2>3, <2>4, CombineType, WordsType
    <2> HIDE DEF ls, rs
    <2>6. ratio \in 0..1000
        <3>1. ratio \in Permille
            BY ONLY <2>5, TextRatio
        <3> QED BY ONLY <3>1 DEF Permille
    <2>7. MoveCost(left, right, i, j, mv) = IF cost < 1350 THEN cost ELSE 1350
        BY <1>2 DEF MoveCost, ls, rs
    <2>8. kinds \in 0..60
        OBVIOUS
    <2> HIDE DEF ratio, kinds
    <2>9. cost \in Nat
        <3> DEFINE p == mv[1]
                   q == mv[2]
        <3>1. p \in 1..3 /\ q \in 1..3 /\ cost = 1000 - ratio + kinds + 30 * (p + q - 2)
            BY <2>1
        <3> HIDE DEF p, q, cost
        <3> QED BY <2>6, <2>8, <3>1
    <2> HIDE DEF cost
    <2> QED BY <2>7, <2>9
<1> QED BY <1>1, <1>2

-----------------------------------------------------------------------------
(* The cost table *)

\* A table of costs and moves.
Tables(l, r) ==
    [cost : [Cells(l, r) -> Int], move : [Cells(l, r) -> MoveSet \cup {<<0, 0>>}]]

\* The eleven moves, and the first two of them.
LEMMA MovesAre ==
    /\ Moves \in Seq(MoveSet) /\ Len(Moves) = 11 /\ Moves[1] = <<1, 0>> /\ Moves[2] = <<0, 1>>
    /\ DOMAIN Moves = 1..Len(Moves) /\ \A k \in 1..Len(Moves) : Moves[k] \in MoveSet
<1>1. /\ <<1, 0>> \in MoveSet /\ <<0, 1>> \in MoveSet /\ <<1, 1>> \in MoveSet
      /\ <<1, 2>> \in MoveSet /\ <<1, 3>> \in MoveSet /\ <<2, 1>> \in MoveSet
      /\ <<2, 2>> \in MoveSet /\ <<2, 3>> \in MoveSet /\ <<3, 1>> \in MoveSet
      /\ <<3, 2>> \in MoveSet /\ <<3, 3>> \in MoveSet
    BY DEF MoveSet
<1>2. Moves \in Seq(MoveSet)
    <2> DEFINE M == MoveSet
    <2>1. MoveSet = M
        OBVIOUS
    <2> HIDE DEF M
    <2> QED BY <1>1, <2>1 DEF Moves
<1>3. Len(Moves) = 11 /\ Moves[1] = <<1, 0>> /\ Moves[2] = <<0, 1>>
    BY DEF Moves
<1>4. DOMAIN Moves = 1..Len(Moves) /\ \A k \in 1..Len(Moves) : Moves[k] \in MoveSet
    BY <1>2, ElementOfSeq
<1> QED BY <1>2, <1>3, <1>4

\* The numbers from 1 on, as range gives them.
LEMMA StepsAre ==
    ASSUME NEW n \in Nat
    PROVE  /\ Steps(n + 1) \in Seq(1..(n + 1)) /\ Len(Steps(n + 1)) = n + 1
           /\ DOMAIN Steps(n + 1) = 1..(n + 1) /\ n + 1 \in Nat
           /\ \A k \in 1..(n + 1) : Steps(n + 1)[k] = k
BY DEF Steps

\* A move from a cell leads to another cell, and back.
LEMMA AfterIs ==
    ASSUME NEW l, NEW r, Len(l) \in Nat, Len(r) \in Nat,
           NEW c \in Cells(l, r), NEW mv \in MoveSet, Fits(l, r, c, mv)
    PROVE  /\ After(c, mv) \in Cells(l, r) /\ After(c, mv) # <<0, 0>>
           /\ Prior(After(c, mv), mv) = c /\ c = <<c[1], c[2]>>
           /\ c[1] \in 0..Len(l) /\ c[2] \in 0..Len(r)
<1>1. c = <<c[1], c[2]>> /\ c[1] \in 0..Len(l) /\ c[2] \in 0..Len(r)
    BY DEF Cells
<1>2. mv[1] \in 0..3 /\ mv[2] \in 0..3 /\ (mv[1] # 0 \/ mv[2] # 0)
    BY DEF MoveSet
<1>3. c[1] + mv[1] <= Len(l) /\ c[2] + mv[2] <= Len(r)
    BY DEF Fits
<1> DEFINE p == c[1]
           q == c[2]
           u == mv[1]
           v == mv[2]
<1>4. /\ p \in 0..Len(l) /\ q \in 0..Len(r) /\ u \in 0..3 /\ v \in 0..3 /\ (u # 0 \/ v # 0)
      /\ p + u <= Len(l) /\ q + v <= Len(r)
    BY <1>1, <1>2, <1>3
<1>5. After(c, mv) = <<p + u, q + v>> /\ Prior(After(c, mv), mv) = <<(p + u) - u, (q + v) - v>>
    BY DEF After, Prior
<1>6. c = <<p, q>>
    BY <1>1
<1> HIDE DEF p, q, u, v
<1>7. p + u \in 0..Len(l) /\ q + v \in 0..Len(r) /\ (p + u # 0 \/ q + v # 0)
      /\ (p + u) - u = p /\ (q + v) - v = q
    BY <1>4
<1> QED BY <1>1, <1>5, <1>6, <1>7 DEF Cells

\* The cost of a move from a cell.
StepCost(l, r, c, mv) == MoveCost(l, r, c[1], c[2], mv)

\* A move that fits has a cost.
LEMMA StepCostType ==
    ASSUME NEW l \in Seq(BlockSet), NEW r \in Seq(BlockSet),
           NEW c \in Cells(l, r), NEW mv \in MoveSet, Fits(l, r, c, mv)
    PROVE  StepCost(l, r, c, mv) \in Nat
<1>1. c[1] \in Nat /\ c[2] \in Nat /\ c[1] + mv[1] <= Len(l) /\ c[2] + mv[2] <= Len(r)
    BY AfterIs DEF Fits
<1> QED BY <1>1, MoveCostType DEF StepCost

\* Relax keeps the table, or enters one move in it.
LEMMA RelaxIs ==
    ASSUME NEW l \in Seq(BlockSet), NEW r \in Seq(BlockSet), NEW t \in Tables(l, r),
           NEW c \in Cells(l, r), NEW mv \in MoveSet, Fits(l, r, c, mv)
    PROVE  LET next == After(c, mv)
               cost == t.cost[c] + StepCost(l, r, c, mv)
               new  == Relax(l, r, c, t, mv)
           IN  /\ new \in Tables(l, r)
               /\ \/ /\ new = t /\ t.cost[next] # Unreached /\ t.cost[next] <= cost
                  \/ /\ new.cost = [t.cost EXCEPT ![next] = cost]
                     /\ new.move = [t.move EXCEPT ![next] = mv]
                     /\ t.cost[next] = Unreached \/ cost <= t.cost[next]
<1> DEFINE next == After(c, mv)
           cost == t.cost[c] + StepCost(l, r, c, mv)
           new == Relax(l, r, c, t, mv)
           upd == [cost |-> [t.cost EXCEPT ![next] = cost],
                   move |-> [t.move EXCEPT ![next] = mv]]
           better == \/ t.cost[next] = Unreached
                     \/ cost < t.cost[next]
                     \/ ~IsGap(mv) /\ cost = t.cost[next]
<1>1. new = IF better THEN upd ELSE t
    BY DEF Relax, StepCost
<1>2. c[1] \in 0..Len(l) /\ c[2] \in 0..Len(r) /\ next \in Cells(l, r)
    BY AfterIs
<1>3. /\ t.cost \in [Cells(l, r) -> Int] /\ t.move \in [Cells(l, r) -> MoveSet \cup {<<0, 0>>}]
      /\ t = [cost |-> t.cost, move |-> t.move]
    BY DEF Tables
<1>4. cost \in Int
    BY <1>3, StepCostType
<1>5. /\ upd.cost = [t.cost EXCEPT ![next] = cost] /\ upd.move = [t.move EXCEPT ![next] = mv]
      /\ upd = [cost |-> [t.cost EXCEPT ![next] = cost], move |-> [t.move EXCEPT ![next] = mv]]
    OBVIOUS
<1> HIDE DEF next, cost, upd, new
<1>6. upd \in Tables(l, r)
    <2>1. [t.cost EXCEPT ![next] = cost] \in [Cells(l, r) -> Int]
        BY <1>2, <1>3, <1>4
    <2>2. [t.move EXCEPT ![next] = mv] \in [Cells(l, r) -> MoveSet \cup {<<0, 0>>}]
        BY <1>2, <1>3
    <2> QED BY <1>5, <2>1, <2>2 DEF Tables
<1>7. CASE better
    <2>1. t.cost[next] = Unreached \/ cost <= t.cost[next]
        BY <1>2, <1>3, <1>4, <1>7
    <2> QED BY <1>1, <1>5, <1>6, <1>7, <2>1 DEF next, cost, new
<1>8. CASE ~better
    <2>1. t.cost[next] # Unreached /\ t.cost[next] <= cost
        BY <1>2, <1>3, <1>4, <1>8
    <2> QED BY <1>1, <1>8, <2>1 DEF next, cost, new
<1> QED BY <1>7, <1>8

\* One turn of RelaxFrom.
TryMove(l, r, cell, t, mv) ==
    IF Fits(l, r, cell, mv) THEN Relax(l, r, cell, t, mv) ELSE t

\* A move tried leaves a table.
LEMMA TryMoveType ==
    ASSUME NEW l \in Seq(BlockSet), NEW r \in Seq(BlockSet), NEW t \in Tables(l, r),
           NEW cell \in Cells(l, r), NEW mv \in MoveSet
    PROVE  TryMove(l, r, cell, t, mv) \in Tables(l, r)
BY RelaxIs DEF TryMove

\* The turns over the moves at a cell.
TryLoop(l, r, cell, table, acc) ==
    /\ acc[0] = table
    /\ \A k \in 0..Len(Moves) : k < Len(Moves) =>
           acc[k + 1] = TryMove(l, r, cell, acc[k], Moves[k + 1])

\* RelaxFrom as a loop over the moves.
LEMMA TryExists ==
    ASSUME NEW l \in Seq(BlockSet), NEW r \in Seq(BlockSet), NEW table \in Tables(l, r),
           NEW cell \in Cells(l, r), table.cost[cell] # Unreached
    PROVE  \E acc \in [0..Len(Moves) -> Tables(l, r)] :
               TryLoop(l, r, cell, table, acc) /\ RelaxFrom(l, r, table, cell) = acc[Len(Moves)]
<1> DEFINE n == Len(Moves)
           A == Tables(l, r)
           base == table
           step == [xk \in A \X (1..n) |-> TryMove(l, r, cell, xk[1], Moves[xk[2]])]
           P(f) == f = [z \in SUBSET (DOMAIN Moves) |->
                           IF z = {} THEN base ELSE TryMove(l, r, cell, f[z \ {Max(z)}], Moves[Max(z)])]
           it == CHOOSE f : P(f)
<1>1. n \in Nat /\ DOMAIN Moves = 1..n /\ \A k \in 1..n : Moves[k] \in MoveSet
    BY MovesAre
<1>2. \A x \in A, k \in 1..n : step[<<x, k>>] = TryMove(l, r, cell, x, Moves[k])
    OBVIOUS
<1>3. step \in [A \X (1..n) -> A] /\ base \in A
    <2>1. base \in A
        OBVIOUS
    <2>2. \A x \in A, k \in 1..n : TryMove(l, r, cell, x, Moves[k]) \in A
        BY <1>1, TryMoveType
    <2> HIDE DEF A, base
    <2> QED BY <2>1, <2>2
<1> HIDE DEF A, base, step, n
<1>4. ASSUME NEW f \in [SUBSET (1..n) -> A], Folds(base, n, step, f)
      PROVE  FoldsIn(A, base, n, step, it)
    <2>1. P(f)
        BY <1>1, <1>2, <1>4, LastOff DEF Folds
    <2>2. P(it)
        <3> HIDE DEF P
        <3> QED BY <2>1
    <2> HIDE DEF it
    <2> QED BY <1>1, <1>2, <2>2, LastOff DEF FoldsIn
<1>5. PICK acc \in [0..n -> A] : LoopOf(base, n, step, it, acc)
    <2> HIDE DEF it
    <2> QED BY <1>1, <1>3, <1>4, FoldLoop
<1>6. RelaxFrom(l, r, table, cell) = it[1..n]
    BY <1>1 DEF RelaxFrom, TryMove, FoldLeft, MapThenFoldSet, base
<1> HIDE DEF it
<1>7. ASSUME NEW k \in 0..n, k < n PROVE acc[k + 1] = TryMove(l, r, cell, acc[k], Moves[k + 1])
    <2>1. acc[k] \in A /\ k + 1 \in 1..n
        BY <1>1, <1>7
    <2> QED BY <1>2, <1>5, <1>7, <2>1 DEF LoopOf, Turns
<1> QED BY <1>5, <1>6, <1>7 DEF LoopOf, Turns, TryLoop, n, A, base

\* The moves from a cell leave a table.
LEMMA RelaxFromType ==
    ASSUME NEW l \in Seq(BlockSet), NEW r \in Seq(BlockSet), NEW t \in Tables(l, r),
           NEW cell \in Cells(l, r)
    PROVE  RelaxFrom(l, r, t, cell) \in Tables(l, r)
<1>1. CASE t.cost[cell] = Unreached
    BY <1>1 DEF RelaxFrom
<1>2. CASE t.cost[cell] # Unreached
    <2>1. PICK acc \in [0..Len(Moves) -> Tables(l, r)] : RelaxFrom(l, r, t, cell) = acc[Len(Moves)]
        BY <1>2, TryExists
    <2>2. Len(Moves) \in 0..Len(Moves)
        BY MovesAre
    <2> QED BY <2>1, <2>2
<1> QED BY <1>1, <1>2

\* The turns over the cells of a row.
RowLoop(l, r, row, table, acc) ==
    /\ acc[0] = table
    /\ \A k \in 0..Len(Steps(Len(r) + 1)) : k < Len(Steps(Len(r) + 1)) =>
           acc[k + 1] = RelaxFrom(l, r, acc[k], <<row - 1, Steps(Len(r) + 1)[k + 1] - 1>>)

\* RelaxRow as a loop over the cells of a row.
LEMMA RowExists ==
    ASSUME NEW l \in Seq(BlockSet), NEW r \in Seq(BlockSet), NEW table \in Tables(l, r),
           NEW row \in 1..(Len(l) + 1)
    PROVE  \E acc \in [0..Len(Steps(Len(r) + 1)) -> Tables(l, r)] :
               RowLoop(l, r, row, table, acc) /\ RelaxRow(l, r, table, row) = acc[Len(Steps(Len(r) + 1))]
<1> DEFINE n == Len(Steps(Len(r) + 1))
           A == Tables(l, r)
           base == table
           step == [xk \in A \X (1..n) |-> RelaxFrom(l, r, xk[1], <<row - 1, Steps(Len(r) + 1)[xk[2]] - 1>>)]
           P(f) == f = [z \in SUBSET (DOMAIN Steps(Len(r) + 1)) |->
                           IF z = {} THEN base
                           ELSE RelaxFrom(l, r, f[z \ {Max(z)}], <<row - 1, Steps(Len(r) + 1)[Max(z)] - 1>>)]
           it == CHOOSE f : P(f)
<1>1. n \in Nat /\ DOMAIN Steps(Len(r) + 1) = 1..n /\ \A k \in 1..n : Steps(Len(r) + 1)[k] \in 1..(Len(r) + 1)
    <2> DEFINE m == Len(r)
               s == Steps(m + 1)
    <2>1. m \in Nat
        OBVIOUS
    <2> HIDE DEF m
    <2>2. s \in Seq(1..(m + 1)) /\ Len(s) = m + 1 /\ DOMAIN s = 1..(m + 1) /\ m + 1 \in Nat
        BY ONLY <2>1, StepsAre
    <2> HIDE DEF s
    <2>3. \A k \in 1..Len(s) : s[k] \in 1..(m + 1)
        BY ONLY <2>2
    <2> QED BY ONLY <2>2, <2>3 DEF s, m
<1>2. \A x \in A, k \in 1..n : step[<<x, k>>] = RelaxFrom(l, r, x, <<row - 1, Steps(Len(r) + 1)[k] - 1>>)
    OBVIOUS
<1>3. step \in [A \X (1..n) -> A] /\ base \in A
    <2>1. base \in A
        OBVIOUS
    <2>2. \A x \in A, k \in 1..n : RelaxFrom(l, r, x, <<row - 1, Steps(Len(r) + 1)[k] - 1>>) \in A
        <3>1. \A k \in 1..n : <<row - 1, Steps(Len(r) + 1)[k] - 1>> \in Cells(l, r)
            BY <1>1 DEF Cells
        <3> QED BY <3>1, RelaxFromType
    <2> HIDE DEF A, base
    <2> QED BY <2>1, <2>2
<1> HIDE DEF A, base, step, n
<1>4. ASSUME NEW f \in [SUBSET (1..n) -> A], Folds(base, n, step, f)
      PROVE  FoldsIn(A, base, n, step, it)
    <2>1. P(f)
        BY <1>1, <1>2, <1>4, LastOff DEF Folds
    <2>2. P(it)
        <3> HIDE DEF P
        <3> QED BY <2>1
    <2> HIDE DEF it
    <2> QED BY <1>1, <1>2, <2>2, LastOff DEF FoldsIn
<1>5. PICK acc \in [0..n -> A] : LoopOf(base, n, step, it, acc)
    <2> HIDE DEF it
    <2> QED BY <1>1, <1>3, <1>4, FoldLoop
<1>6. RelaxRow(l, r, table, row) = it[1..n]
    BY <1>1 DEF RelaxRow, FoldLeft, MapThenFoldSet, base
<1> HIDE DEF it
<1>7. ASSUME NEW k \in 0..n, k < n
      PROVE  acc[k + 1] = RelaxFrom(l, r, acc[k], <<row - 1, Steps(Len(r) + 1)[k + 1] - 1>>)
    <2>1. acc[k] \in A /\ k + 1 \in 1..n
        BY <1>1, <1>7
    <2> QED BY <1>2, <1>5, <1>7, <2>1 DEF LoopOf, Turns
<1> QED BY <1>5, <1>6, <1>7 DEF LoopOf, Turns, RowLoop, n, A, base

\* A row leaves a table.
LEMMA RelaxRowType ==
    ASSUME NEW l \in Seq(BlockSet), NEW r \in Seq(BlockSet), NEW t \in Tables(l, r),
           NEW row \in 1..(Len(l) + 1)
    PROVE  RelaxRow(l, r, t, row) \in Tables(l, r)
<1> DEFINE n == Len(Steps(Len(r) + 1))
<1>1. PICK acc \in [0..n -> Tables(l, r)] : RelaxRow(l, r, t, row) = acc[n]
    BY RowExists
<1>2. n \in 0..n
    <2>1. n = Len(r) + 1 /\ Len(r) \in Nat
        BY StepsAre
    <2> QED BY <2>1
<1> QED BY <1>1, <1>2

\* The table begins as one.
LEMMA NoRoutesType ==
    ASSUME NEW l \in Seq(BlockSet), NEW r \in Seq(BlockSet)
    PROVE  NoRoutes(l, r) \in Tables(l, r)
BY DEF NoRoutes, Tables, Unreached

\* The turns over the rows.
RowsLoop(l, r, acc) ==
    /\ acc[0] = NoRoutes(l, r)
    /\ \A k \in 0..Len(Steps(Len(l) + 1)) : k < Len(Steps(Len(l) + 1)) =>
           acc[k + 1] = RelaxRow(l, r, acc[k], Steps(Len(l) + 1)[k + 1])

\* CostTable as a loop over the rows.
LEMMA RowsExist ==
    ASSUME NEW l \in Seq(BlockSet), NEW r \in Seq(BlockSet)
    PROVE  \E acc \in [0..Len(Steps(Len(l) + 1)) -> Tables(l, r)] :
               RowsLoop(l, r, acc) /\ CostTable(l, r) = acc[Len(Steps(Len(l) + 1))]
<1> DEFINE n == Len(Steps(Len(l) + 1))
           A == Tables(l, r)
           base == NoRoutes(l, r)
           step == [xk \in A \X (1..n) |-> RelaxRow(l, r, xk[1], Steps(Len(l) + 1)[xk[2]])]
           P(f) == f = [z \in SUBSET (DOMAIN Steps(Len(l) + 1)) |->
                           IF z = {} THEN base
                           ELSE RelaxRow(l, r, f[z \ {Max(z)}], Steps(Len(l) + 1)[Max(z)])]
           it == CHOOSE f : P(f)
<1>1. n \in Nat /\ DOMAIN Steps(Len(l) + 1) = 1..n /\ \A k \in 1..n : Steps(Len(l) + 1)[k] \in 1..(Len(l) + 1)
    BY StepsAre
<1>2. \A x \in A, k \in 1..n : step[<<x, k>>] = RelaxRow(l, r, x, Steps(Len(l) + 1)[k])
    OBVIOUS
<1>3. step \in [A \X (1..n) -> A] /\ base \in A
    <2>1. base \in A
        BY NoRoutesType
    <2>2. \A x \in A, k \in 1..n : RelaxRow(l, r, x, Steps(Len(l) + 1)[k]) \in A
        BY <1>1, RelaxRowType
    <2> HIDE DEF A, base
    <2> QED BY <2>1, <2>2
<1> HIDE DEF A, base, step, n
<1>4. ASSUME NEW f \in [SUBSET (1..n) -> A], Folds(base, n, step, f)
      PROVE  FoldsIn(A, base, n, step, it)
    <2>1. P(f)
        BY <1>1, <1>2, <1>4, LastOff DEF Folds
    <2>2. P(it)
        <3> HIDE DEF P
        <3> QED BY <2>1
    <2> HIDE DEF it
    <2> QED BY <1>1, <1>2, <2>2, LastOff DEF FoldsIn
<1>5. PICK acc \in [0..n -> A] : LoopOf(base, n, step, it, acc)
    <2> HIDE DEF it
    <2> QED BY <1>1, <1>3, <1>4, FoldLoop
<1>6. CostTable(l, r) = it[1..n]
    BY <1>1 DEF CostTable, FoldLeft, MapThenFoldSet, base
<1> HIDE DEF it
<1>7. ASSUME NEW k \in 0..n, k < n PROVE acc[k + 1] = RelaxRow(l, r, acc[k], Steps(Len(l) + 1)[k + 1])
    <2>1. acc[k] \in A /\ k + 1 \in 1..n
        BY <1>1, <1>7
    <2> QED BY <1>2, <1>5, <1>7, <2>1 DEF LoopOf, Turns
<1> QED BY <1>5, <1>6, <1>7 DEF LoopOf, Turns, RowsLoop, n, A, base

\* The way to a cell is known: from a cell of P, at the cost in the table.
Arrives(l, r, t, P, c) ==
    LET mv == t.move[c]
        p  == Prior(c, mv)
    IN  /\ mv \in MoveSet /\ p \in P /\ Fits(l, r, p, mv) /\ After(p, mv) = c
        /\ t.cost[p] # Unreached
        /\ t.cost[c] = t.cost[p] + StepCost(l, r, p, mv)

\* No way on from a cell is cheaper than what the table has.
Settled(l, r, t, p, mv) ==
    /\ t.cost[After(p, mv)] # Unreached
    /\ t.cost[After(p, mv)] <= t.cost[p] + StepCost(l, r, p, mv)

\* A table in which the ways from the cells P are entered, or some of them, E.
RouteInv(l, r, t, P, E) ==
    /\ t \in Tables(l, r)
    /\ t.cost[<<0, 0>>] = 0
    /\ \A c \in Cells(l, r) : t.cost[c] = Unreached \/ t.cost[c] \in Nat
    /\ \A c \in Cells(l, r) : c # <<0, 0>> /\ t.cost[c] # Unreached => Arrives(l, r, t, P, c)
    /\ \A e \in E : Settled(l, r, t, e[1], e[2])

\* The moves that fit, from the cells of a set.
Edges(l, r, P) == {e \in P \X MoveSet : Fits(l, r, e[1], e[2])}

\* A move tried keeps the ways known, and leaves the cells that are done.
Kept(l, r, t, new, c, mv, P, E) ==
    /\ RouteInv(l, r, new, P, E \cup {<<c, mv>>})
    /\ \A p \in P : new.cost[p] = t.cost[p]

\* A move tried keeps the ways known, and none costs more than before.
LEMMA RelaxKeeps ==
    ASSUME NEW l \in Seq(BlockSet), NEW r \in Seq(BlockSet), NEW P \in SUBSET Cells(l, r),
           NEW E \in SUBSET Edges(l, r, P), NEW t, RouteInv(l, r, t, P, E),
           NEW c \in P, t.cost[c] # Unreached,
           NEW mv \in MoveSet, Fits(l, r, c, mv), After(c, mv) \notin P
    PROVE  Kept(l, r, t, Relax(l, r, c, t, mv), c, mv, P, E)
<1> DEFINE next == After(c, mv)
           step == StepCost(l, r, c, mv)
           cost == t.cost[c] + step
           new == Relax(l, r, c, t, mv)
<1>1. /\ t \in Tables(l, r) /\ t.cost[<<0, 0>>] = 0
      /\ \A d \in Cells(l, r) : t.cost[d] = Unreached \/ t.cost[d] \in Nat
      /\ \A d \in Cells(l, r) : d # <<0, 0>> /\ t.cost[d] # Unreached => Arrives(l, r, t, P, d)
      /\ \A e \in E : Settled(l, r, t, e[1], e[2])
    BY DEF RouteInv
<1>2. c \in Cells(l, r) /\ Len(l) \in Nat /\ Len(r) \in Nat
    OBVIOUS
<1>3. next \in Cells(l, r) /\ next # <<0, 0>> /\ Prior(next, mv) = c /\ next \notin P
    BY <1>2, AfterIs
<1>4. step \in Nat /\ t.cost[c] \in Nat
    BY <1>1, <1>2, StepCostType
<1>5. /\ new \in Tables(l, r)
      /\ \/ /\ new = t /\ t.cost[next] # Unreached /\ t.cost[next] <= cost
         \/ /\ new.cost = [t.cost EXCEPT ![next] = cost]
            /\ new.move = [t.move EXCEPT ![next] = mv]
            /\ t.cost[next] = Unreached \/ cost <= t.cost[next]
    BY <1>1, <1>2, RelaxIs
<1> HIDE DEF next, step, new
<1>6. CASE new = t /\ t.cost[next] # Unreached /\ t.cost[next] <= cost
    <2>1. Settled(l, r, t, c, mv)
        BY <1>6 DEF Settled, next, step
    <2>2. \A e \in E \cup {<<c, mv>>} : Settled(l, r, t, e[1], e[2])
        BY <1>1, <2>1
    <2>3. RouteInv(l, r, new, P, E \cup {<<c, mv>>})
        BY <1>1, <1>6, <2>2 DEF RouteInv
    <2> QED BY <1>6, <2>3 DEF new, Kept
<1>7. CASE /\ new.cost = [t.cost EXCEPT ![next] = cost]
           /\ new.move = [t.move EXCEPT ![next] = mv]
           /\ t.cost[next] = Unreached \/ cost <= t.cost[next]
    <2>0. /\ t.cost \in [Cells(l, r) -> Int] /\ t.move \in [Cells(l, r) -> MoveSet \cup {<<0, 0>>}]
        BY <1>1 DEF Tables
    <2>1. /\ new.cost[next] = cost /\ new.move[next] = mv
          /\ \A d \in Cells(l, r) : d # next => new.cost[d] = t.cost[d] /\ new.move[d] = t.move[d]
        BY <1>3, <1>7, <2>0
    <2>2. \A p \in P : new.cost[p] = t.cost[p]
        BY <1>3, <2>1
    <2>3. cost \in Nat /\ cost # Unreached
        BY <1>4 DEF Unreached
    <2>4. \A d \in Cells(l, r) : t.cost[d] # Unreached => new.cost[d] # Unreached /\ new.cost[d] <= t.cost[d]
        <3> TAKE d \in Cells(l, r)
        <3>1. CASE d = next
            BY <1>7, <2>1, <2>3, <3>1
        <3>2. CASE d # next
            <4>1. t.cost[d] \in Int
                BY <2>0
            <4> QED BY <2>1, <3>2, <4>1
        <3> QED BY <3>1, <3>2
    <2> HIDE DEF cost
    <2>5. new.cost[<<0, 0>>] = 0
        <3>1. <<0, 0>> \in Cells(l, r)
            BY <1>2 DEF Cells
        <3> QED BY <1>1, <1>3, <2>1, <3>1
    <2>6. \A d \in Cells(l, r) : new.cost[d] = Unreached \/ new.cost[d] \in Nat
        BY <1>1, <2>1, <2>3
    <2>7. ASSUME NEW d \in Cells(l, r), d # <<0, 0>>, new.cost[d] # Unreached
          PROVE  Arrives(l, r, new, P, d)
        <3>1. CASE d = next
            <4>1. /\ new.move[d] = mv /\ Prior(d, mv) = c /\ After(c, mv) = d
                  /\ new.cost[c] = t.cost[c] /\ new.cost[d] = new.cost[c] + StepCost(l, r, c, mv)
                BY <1>3, <2>1, <2>2, <3>1 DEF cost, next, step
            <4> HIDE DEF new
            <4> QED BY <4>1 DEF Arrives
        <3>2. CASE d # next
            <4>1. new.cost[d] = t.cost[d] /\ new.move[d] = t.move[d] /\ t.cost[d] # Unreached
                BY <2>1, <2>7, <3>2
            <4>2. Arrives(l, r, t, P, d)
                BY <1>1, <2>7, <4>1
            <4>3. new.cost[Prior(d, t.move[d])] = t.cost[Prior(d, t.move[d])]
                BY <2>2, <4>2 DEF Arrives
            <4> QED BY <4>1, <4>2, <4>3 DEF Arrives
        <3> QED BY <3>1, <3>2
    <2>8. ASSUME NEW e \in E PROVE Settled(l, r, new, e[1], e[2])
        <3> DEFINE p == e[1]
                   m == e[2]
        <3>1. p \in P /\ m \in MoveSet /\ Fits(l, r, p, m)
            BY DEF Edges
        <3>2. p \in Cells(l, r) /\ After(p, m) \in Cells(l, r)
            BY <1>2, <3>1, AfterIs
        <3>3. /\ t.cost[After(p, m)] # Unreached
              /\ t.cost[After(p, m)] <= t.cost[p] + StepCost(l, r, p, m)
            BY <1>1 DEF Settled
        <3>4. StepCost(l, r, p, m) \in Nat
            BY <3>1, <3>2, StepCostType
        <3> HIDE DEF p, m
        <3>5. new.cost[p] = t.cost[p] /\ t.cost[p] \in Int /\ t.cost[After(p, m)] \in Int
            BY <2>0, <2>2, <3>1, <3>2
        <3>6. new.cost[After(p, m)] # Unreached /\ new.cost[After(p, m)] <= t.cost[After(p, m)]
              /\ new.cost[After(p, m)] \in Int
            <4>1. new.cost \in [Cells(l, r) -> Int]
                BY <1>5 DEF Tables
            <4> QED BY <2>4, <3>2, <3>3, <4>1
        <3>7. t.cost[p] + StepCost(l, r, p, m) \in Int
            BY <3>4, <3>5
        <3>8. new.cost[After(p, m)] <= t.cost[p] + StepCost(l, r, p, m)
            BY <3>3, <3>5, <3>6, <3>7
        <3>9. Settled(l, r, new, p, m)
            BY <3>5, <3>6, <3>8 DEF Settled
        <3> QED BY <3>9 DEF p, m
    <2>9. Settled(l, r, new, c, mv)
        <3>1. new.cost[c] = t.cost[c] /\ new.cost[After(c, mv)] = t.cost[c] + StepCost(l, r, c, mv)
            BY <2>1, <2>2 DEF cost, next, step
        <3>2. new.cost[After(c, mv)] # Unreached
            BY <2>1, <2>3 DEF next
        <3>3. t.cost[c] + StepCost(l, r, c, mv) \in Int
            BY <1>4 DEF step
        <3> QED BY <3>1, <3>2, <3>3 DEF Settled
    <2>10. \A e \in E \cup {<<c, mv>>} : Settled(l, r, new, e[1], e[2])
        BY <2>8, <2>9
    <2>11. RouteInv(l, r, new, P, E \cup {<<c, mv>>})
        BY <1>5, <2>5, <2>6, <2>7, <2>10 DEF RouteInv
    <2> QED BY <2>2, <2>11 DEF new, Kept
<1> QED BY <1>5, <1>6, <1>7

\* The cells before <<i, j>>, row by row, and the ways on from them.
Earlier(l, r, i, j) == {p \in Cells(l, r) : p[1] < i \/ (p[1] = i /\ p[2] < j)}

\* The moves from the cells of a set.
WaysOn(l, r, P) == {e \in Edges(l, r, P) : \E k \in 1..Len(Moves) : e[2] = Moves[k]}

\* The table when the cells before <<i, j>> have been gone through.
TableAt(l, r, t, i, j) ==
    RouteInv(l, r, t, Earlier(l, r, i, j), WaysOn(l, r, Earlier(l, r, i, j)))

\* A cell whose turn has come was reached.
LEMMA CellReached ==
    ASSUME NEW l \in Seq(BlockSet), NEW r \in Seq(BlockSet), NEW i \in 0..Len(l), NEW j \in 0..Len(r),
           NEW t, TableAt(l, r, t, i, j)
    PROVE  t.cost[<<i, j>>] # Unreached
<1> DEFINE P == Earlier(l, r, i, j)
<1>1. t.cost[<<0, 0>>] = 0 /\ \A e \in WaysOn(l, r, P) : Settled(l, r, t, e[1], e[2])
    BY DEF TableAt, RouteInv
<1>2. Len(l) \in Nat /\ Len(r) \in Nat
    OBVIOUS
<1>3. CASE i = 0 /\ j = 0
    BY <1>1, <1>3 DEF Unreached
<1>4. CASE i > 0
    <2> DEFINE p == <<i - 1, j>>
               mv == <<1, 0>>
    <2>1. p \in P /\ Fits(l, r, p, mv) /\ mv \in MoveSet /\ After(p, mv) = <<i, j>>
        BY <1>2, <1>4 DEF Earlier, Cells, Fits, MoveSet, After
    <2>2. \E k \in 1..Len(Moves) : mv = Moves[k]
        BY MovesAre
    <2> HIDE DEF p, mv, P
    <2>3. <<p, mv>> \in WaysOn(l, r, P)
        BY <2>1, <2>2 DEF WaysOn, Edges
    <2>4. Settled(l, r, t, p, mv)
        BY <1>1, <2>3
    <2> QED BY <2>1, <2>4 DEF Settled
<1>5. CASE i = 0 /\ j > 0
    <2> DEFINE p == <<i, j - 1>>
               mv == <<0, 1>>
    <2>1. p \in P /\ Fits(l, r, p, mv) /\ mv \in MoveSet /\ After(p, mv) = <<i, j>>
        BY <1>2, <1>5 DEF Earlier, Cells, Fits, MoveSet, After
    <2>2. \E k \in 1..Len(Moves) : mv = Moves[k]
        BY MovesAre
    <2> HIDE DEF p, mv, P
    <2>3. <<p, mv>> \in WaysOn(l, r, P)
        BY <2>1, <2>2 DEF WaysOn, Edges
    <2>4. Settled(l, r, t, p, mv)
        BY <1>1, <2>3
    <2> QED BY <2>1, <2>4 DEF Settled
<1> QED BY <1>2, <1>3, <1>4, <1>5

\* The cell itself is the next.
Grows(l, r, i, j) ==
    /\ Earlier(l, r, i, j + 1) = Earlier(l, r, i, j) \cup {<<i, j>>}
    /\ <<i, j>> \in Cells(l, r)
    /\ \A mv \in MoveSet : After(<<i, j>>, mv) \notin Earlier(l, r, i, j + 1)

\* The next cell is the only one to come before the one after it.
LEMMA EarlierGrows ==
    ASSUME NEW l, NEW r, Len(l) \in Nat, Len(r) \in Nat, NEW i \in 0..Len(l), NEW j \in 0..Len(r)
    PROVE  Grows(l, r, i, j)
<1>1. <<i, j>> \in Cells(l, r)
    BY DEF Cells
<1>2. ASSUME NEW p \in Cells(l, r)
      PROVE  p \in Earlier(l, r, i, j + 1) <=> p \in Earlier(l, r, i, j) \/ p = <<i, j>>
    <2>1. p = <<p[1], p[2]>> /\ p[1] \in 0..Len(l) /\ p[2] \in 0..Len(r)
        BY DEF Cells
    <2> QED BY <2>1 DEF Earlier
<1>3. ASSUME NEW mv \in MoveSet PROVE After(<<i, j>>, mv) \notin Earlier(l, r, i, j + 1)
    <2> DEFINE u == mv[1]
               v == mv[2]
    <2>1. u \in 0..3 /\ v \in 0..3 /\ (u # 0 \/ v # 0) /\ After(<<i, j>>, mv) = <<i + u, j + v>>
        BY DEF MoveSet, After
    <2> HIDE DEF u, v
    <2>2. ~(i + u < i) /\ ~(i + u = i /\ j + v < j + 1)
        BY <2>1
    <2> QED BY <2>1, <2>2 DEF Earlier
<1>4. Earlier(l, r, i, j + 1) \subseteq Cells(l, r) /\ Earlier(l, r, i, j) \subseteq Cells(l, r)
    BY DEF Earlier
<1> QED BY <1>1, <1>2, <1>3, <1>4 DEF Grows

\* The moves from a cell keep the ways known.
LEMMA RelaxFromKeeps ==
    ASSUME NEW l \in Seq(BlockSet), NEW r \in Seq(BlockSet), NEW i \in 0..Len(l), NEW j \in 0..Len(r),
           NEW t, TableAt(l, r, t, i, j)
    PROVE  TableAt(l, r, RelaxFrom(l, r, t, <<i, j>>), i, j + 1)
<1> DEFINE c == <<i, j>>
           P == Earlier(l, r, i, j)
           Q == Earlier(l, r, i, j + 1)
           n == Len(Moves)
           E(k) == WaysOn(l, r, P) \cup {e \in {c} \X MoveSet :
                       Fits(l, r, c, e[2]) /\ \E x \in 1..k : e[2] = Moves[x]}
<1>1. Len(l) \in Nat /\ Len(r) \in Nat
    OBVIOUS
<1>2. Q = P \cup {c} /\ c \in Cells(l, r) /\ \A mv \in MoveSet : After(c, mv) \notin Q
    <2>1. Grows(l, r, i, j)
        BY <1>1, EarlierGrows
    <2> QED BY <2>1 DEF Grows
<1>3. t \in Tables(l, r) /\ t.cost[c] # Unreached
    BY CellReached DEF TableAt, RouteInv
<1>4. P \subseteq Cells(l, r) /\ Q \subseteq Cells(l, r)
    BY DEF Earlier
<1> HIDE DEF c, P, Q
<1>5. PICK acc \in [0..n -> Tables(l, r)] :
          TryLoop(l, r, c, t, acc) /\ RelaxFrom(l, r, t, c) = acc[n]
    BY <1>2, <1>3, TryExists
<1>6. n \in Nat /\ \A k \in 1..n : Moves[k] \in MoveSet
    BY MovesAre
<1>7. \A k \in 0..n : E(k) \in SUBSET Edges(l, r, Q)
    BY <1>2 DEF WaysOn, Edges
<1> DEFINE S == {k \in 0..n : RouteInv(l, r, acc[k], Q, E(k)) /\ acc[k].cost[c] # Unreached}
<1>8. 0 \in S
    <2>1. acc[0] = t
        BY <1>5 DEF TryLoop
    <2>2. E(0) = WaysOn(l, r, P)
        BY <1>6
    <2>3. RouteInv(l, r, t, P, WaysOn(l, r, P))
        BY DEF TableAt, P
    <2>4. \A d \in Cells(l, r) : Arrives(l, r, t, P, d) => Arrives(l, r, t, Q, d)
        BY <1>2 DEF Arrives
    <2>5. RouteInv(l, r, t, Q, WaysOn(l, r, P))
        BY <2>3, <2>4 DEF RouteInv
    <2> HIDE DEF E
    <2> QED BY <1>3, <1>6, <2>1, <2>2, <2>5
<1>9. ASSUME NEW k \in 0..n, k < n, k \in S PROVE k + 1 \in S
    <2> DEFINE mv == Moves[k + 1]
               e == <<c, mv>>
    <2>1. k + 1 \in 1..n /\ k + 1 \in 0..n /\ mv \in MoveSet
        BY <1>6, <1>9
    <2>2. acc[k + 1] = TryMove(l, r, c, acc[k], mv)
        BY <1>5, <1>9 DEF TryLoop
    <2>3. RouteInv(l, r, acc[k], Q, E(k)) /\ acc[k].cost[c] # Unreached
        BY <1>9
    <2>4. \A x \in 1..(k + 1) : x \in 1..k \/ x = k + 1
        BY <1>6, <1>9
    <2>5. \A x \in 1..k : x \in 1..(k + 1)
        BY <1>6, <1>9
    <2>6. k + 1 \in 1..(k + 1)
        BY <2>1
    <2>7. CASE Fits(l, r, c, mv)
        <3>1. E(k + 1) = E(k) \cup {e}
            BY <2>1, <2>4, <2>5, <2>6, <2>7
        <3>2. acc[k + 1] = Relax(l, r, c, acc[k], mv)
            BY <2>2, <2>7 DEF TryMove
        <3>3. c \in Q /\ After(c, mv) \notin Q
            BY <1>2, <2>1
        <3>4. E(k) \in SUBSET Edges(l, r, Q)
            BY <1>7
        <3> DEFINE F == E(k)
                   b == acc[k]
        <3>5. /\ mv \in MoveSet /\ RouteInv(l, r, b, Q, F) /\ b.cost[c] # Unreached
              /\ Fits(l, r, c, mv) /\ F \in SUBSET Edges(l, r, Q) /\ Q \in SUBSET Cells(l, r)
            BY <1>4, <2>1, <2>3, <2>7, <3>4
        <3> HIDE DEF E, mv, F, b
        <3>6. Kept(l, r, b, Relax(l, r, c, b, mv), c, mv, Q, F)
            BY <3>3, <3>5, RelaxKeeps
        <3>7. /\ RouteInv(l, r, Relax(l, r, c, b, mv), Q, F \cup {<<c, mv>>})
              /\ Relax(l, r, c, b, mv).cost[c] = b.cost[c]
            BY <3>3, <3>6 DEF Kept
        <3> QED BY <2>1, <2>3, <3>1, <3>2, <3>7 DEF F, b
    <2>8. CASE ~Fits(l, r, c, mv)
        <3>1. E(k + 1) = E(k)
            BY <2>1, <2>4, <2>5, <2>8
        <3>2. acc[k + 1] = acc[k]
            BY <2>2, <2>8 DEF TryMove
        <3> HIDE DEF E
        <3> QED BY <2>1, <2>3, <3>1, <3>2
    <2> QED BY <2>7, <2>8
<1>10. n \in S
    <2> HIDE DEF S, n
    <2>1. \A k \in 0..n : k \in S
        BY <1>6, <1>8, <1>9, BoundedInduction
    <2> QED BY <1>6, <2>1
<1>11. E(n) = WaysOn(l, r, Q)
    BY <1>2 DEF WaysOn, Edges
<1> QED BY <1>5, <1>10, <1>11 DEF TableAt, Q, c

\* A row keeps the ways known.
LEMMA RelaxRowKeeps ==
    ASSUME NEW l \in Seq(BlockSet), NEW r \in Seq(BlockSet), NEW i \in 0..Len(l),
           NEW t, TableAt(l, r, t, i, 0)
    PROVE  TableAt(l, r, RelaxRow(l, r, t, i + 1), i + 1, 0)
<1> DEFINE n == Len(r) + 1
           s == Steps(Len(r) + 1)
<1>1. Len(l) \in Nat /\ Len(r) \in Nat /\ n \in Nat
    OBVIOUS
<1>2. Len(s) = n /\ \A k \in 1..n : s[k] = k
    BY <1>1, StepsAre
<1>3. t \in Tables(l, r) /\ i + 1 \in 1..(Len(l) + 1) /\ (i + 1) - 1 = i
    BY <1>1 DEF TableAt, RouteInv
<1>4. PICK acc \in [0..n -> Tables(l, r)] :
          RowLoop(l, r, i + 1, t, acc) /\ RelaxRow(l, r, t, i + 1) = acc[n]
    <2> DEFINE row == i + 1
    <2>1. row \in 1..(Len(l) + 1) /\ Len(Steps(Len(r) + 1)) = n
        BY <1>2, <1>3
    <2> HIDE DEF row, n
    <2>2. \E acc \in [0..Len(Steps(Len(r) + 1)) -> Tables(l, r)] :
              RowLoop(l, r, row, t, acc) /\ RelaxRow(l, r, t, row) = acc[Len(Steps(Len(r) + 1))]
        BY <1>3, <2>1, RowExists
    <2> QED BY <2>1, <2>2 DEF row
<1> DEFINE S == {k \in 0..n : TableAt(l, r, acc[k], i, k)}
<1>5. 0 \in S
    BY <1>1, <1>4 DEF RowLoop
<1>6. ASSUME NEW k \in 0..n, k < n, k \in S PROVE k + 1 \in S
    <2>1. k + 1 \in 1..n /\ (k + 1) - 1 = k /\ k \in 0..Len(r) /\ k + 1 \in 0..n
        BY <1>1, <1>6
    <2>2. acc[k + 1] = RelaxFrom(l, r, acc[k], <<(i + 1) - 1, s[k + 1] - 1>>)
        BY <1>2, <1>4, <1>6 DEF RowLoop
    <2>3. acc[k + 1] = RelaxFrom(l, r, acc[k], <<i, k>>)
        BY <1>2, <1>3, <2>1, <2>2
    <2>4. TableAt(l, r, acc[k + 1], i, k + 1)
        BY <1>6, <2>1, <2>3, RelaxFromKeeps
    <2> QED BY <2>1, <2>4
<1>7. n \in S
    <2> HIDE DEF S, n
    <2>1. \A k \in 0..n : k \in S
        BY <1>1, <1>5, <1>6, BoundedInduction
    <2> QED BY <1>1, <2>1
<1>8. Earlier(l, r, i, n) = Earlier(l, r, i + 1, 0)
    <2>1. ASSUME NEW p \in Cells(l, r)
          PROVE  (p[1] < i \/ (p[1] = i /\ p[2] < n)) <=> (p[1] < i + 1 \/ (p[1] = i + 1 /\ p[2] < 0))
        <3>1. p[1] \in 0..Len(l) /\ p[2] \in 0..Len(r)
            BY DEF Cells
        <3> QED BY <1>1, <3>1
    <2> HIDE DEF n
    <2> QED BY <2>1 DEF Earlier
<1> QED BY <1>4, <1>7, <1>8 DEF TableAt

\* When the table is full, every cell is reached, and no way on is cheaper.
LEMMA CostTableIs ==
    ASSUME NEW l \in Seq(BlockSet), NEW r \in Seq(BlockSet)
    PROVE  /\ RouteInv(l, r, CostTable(l, r), Cells(l, r), WaysOn(l, r, Cells(l, r)))
           /\ \A c \in Cells(l, r) : CostTable(l, r).cost[c] \in Nat
<1> DEFINE n == Len(l) + 1
           s == Steps(Len(l) + 1)
<1>1. Len(l) \in Nat /\ Len(r) \in Nat /\ n \in Nat
    OBVIOUS
<1>2. Len(s) = n /\ \A k \in 1..n : s[k] = k
    BY <1>1, StepsAre
<1>3. PICK acc \in [0..n -> Tables(l, r)] : RowsLoop(l, r, acc) /\ CostTable(l, r) = acc[n]
    BY <1>2, RowsExist
<1> DEFINE S == {k \in 0..n : TableAt(l, r, acc[k], k, 0)}
<1>4. 0 \in S
    <2> DEFINE t == NoRoutes(l, r)
    <2>1. Earlier(l, r, 0, 0) = {}
        <3>1. ASSUME NEW p \in Cells(l, r) PROVE ~(p[1] < 0 \/ (p[1] = 0 /\ p[2] < 0))
            <4>1. p[1] \in 0..Len(l) /\ p[2] \in 0..Len(r)
                BY DEF Cells
            <4> QED BY <1>1, <4>1
        <3> QED BY <3>1 DEF Earlier
    <2>2. WaysOn(l, r, {}) = {}
        BY DEF WaysOn, Edges
    <2>3. \A c \in Cells(l, r) : t.cost[c] = IF c = <<0, 0>> THEN 0 ELSE Unreached
        BY DEF NoRoutes
    <2>4. t \in Tables(l, r) /\ <<0, 0>> \in Cells(l, r)
        BY <1>1, NoRoutesType DEF Cells
    <2> HIDE DEF t
    <2>5. RouteInv(l, r, t, {}, {})
        BY <2>3, <2>4 DEF RouteInv
    <2>6. acc[0] = t
        BY <1>3 DEF RowsLoop, t
    <2>7. TableAt(l, r, acc[0], 0, 0)
        BY <2>1, <2>2, <2>5, <2>6 DEF TableAt
    <2> QED BY ONLY <1>1, <2>7
<1>5. ASSUME NEW k \in 0..n, k < n, k \in S PROVE k + 1 \in S
    <2>1. k + 1 \in 1..n /\ k \in 0..Len(l) /\ k + 1 \in 0..n
        BY <1>1, <1>5
    <2>2. acc[k + 1] = RelaxRow(l, r, acc[k], k + 1)
        BY <1>2, <1>3, <1>5, <2>1 DEF RowsLoop
    <2>3. TableAt(l, r, acc[k + 1], k + 1, 0)
        BY <1>5, <2>1, <2>2, RelaxRowKeeps
    <2> QED BY <2>1, <2>3
<1>6. \A k \in 0..n : k \in S
    <2> HIDE DEF S, n
    <2> QED BY <1>1, <1>4, <1>5, BoundedInduction
<1>7. TableAt(l, r, CostTable(l, r), n, 0)
    BY <1>1, <1>3, <1>6
<1>8. Earlier(l, r, n, 0) = Cells(l, r)
    <2>1. ASSUME NEW p \in Cells(l, r) PROVE p[1] < n
        <3>1. p[1] \in 0..Len(l)
            BY DEF Cells
        <3> QED BY <1>1, <3>1
    <2> HIDE DEF n
    <2> QED BY <2>1 DEF Earlier
<1>9. RouteInv(l, r, CostTable(l, r), Cells(l, r), WaysOn(l, r, Cells(l, r)))
    BY <1>7, <1>8 DEF TableAt
<1>10. ASSUME NEW c \in Cells(l, r) PROVE CostTable(l, r).cost[c] # Unreached
    <2> DEFINE t == CostTable(l, r)
               W == WaysOn(l, r, Cells(l, r))
    <2>1. c = <<c[1], c[2]>> /\ c[1] \in 0..Len(l) /\ c[2] \in 0..Len(r)
        BY DEF Cells
    <2>2. t.cost[<<0, 0>>] = 0 /\ \A e \in W : Settled(l, r, t, e[1], e[2])
        BY <1>9 DEF RouteInv
    <2> HIDE DEF t
    <2>3. CASE c = <<0, 0>>
        BY <2>2, <2>3 DEF Unreached, t
    <2>4. CASE c # <<0, 0>>
        <3>1. PICK mv \in {Moves[1], Moves[2]} :
                  /\ Prior(c, mv) \in Cells(l, r) /\ mv \in MoveSet
                  /\ Fits(l, r, Prior(c, mv), mv) /\ After(Prior(c, mv), mv) = c
            <4>1. CASE c[1] > 0
                <5>1. <<c[1] - 1, c[2]>> \in Cells(l, r)
                    BY <1>1, <2>1, <4>1 DEF Cells
                <5>2. Prior(c, <<1, 0>>) = <<c[1] - 1, c[2]>>
                    BY <2>1 DEF Prior
                <5>3. Fits(l, r, <<c[1] - 1, c[2]>>, <<1, 0>>)
                    BY <1>1, <2>1 DEF Fits
                <5>4. After(<<c[1] - 1, c[2]>>, <<1, 0>>) = c
                    BY <1>1, <2>1 DEF After
                <5>5. <<1, 0>> \in MoveSet
                    BY DEF MoveSet
                <5> QED BY <5>1, <5>2, <5>3, <5>4, <5>5, MovesAre
            <4>2. CASE c[1] = 0
                <5>0. c[2] > 0
                    BY <1>1, <2>1, <2>4, <4>2
                <5>1. <<c[1], c[2] - 1>> \in Cells(l, r)
                    BY <1>1, <2>1, <5>0 DEF Cells
                <5>2. Prior(c, <<0, 1>>) = <<c[1], c[2] - 1>>
                    BY <2>1 DEF Prior
                <5>3. Fits(l, r, <<c[1], c[2] - 1>>, <<0, 1>>)
                    BY <1>1, <2>1 DEF Fits
                <5>4. After(<<c[1], c[2] - 1>>, <<0, 1>>) = c
                    BY <1>1, <2>1 DEF After
                <5>5. <<0, 1>> \in MoveSet
                    BY DEF MoveSet
                <5> QED BY <5>1, <5>2, <5>3, <5>4, <5>5, MovesAre
            <4> QED BY <1>1, <2>1, <4>1, <4>2
        <3>2. \E k \in 1..Len(Moves) : mv = Moves[k]
            <4>1. 1 \in 1..Len(Moves) /\ 2 \in 1..Len(Moves)
                BY MovesAre
            <4>2. mv = Moves[1] \/ mv = Moves[2]
                BY <3>1
            <4> QED BY ONLY <4>1, <4>2
        <3>3. <<Prior(c, mv), mv>> \in W
            BY <3>1, <3>2 DEF WaysOn, Edges
        <3>4. Settled(l, r, t, Prior(c, mv), mv)
            BY <2>2, <3>3
        <3> QED BY <3>1, <3>4 DEF Settled, t
    <2> QED BY <2>3, <2>4
<1>11. \A c \in Cells(l, r) : CostTable(l, r).cost[c] \in Nat
    BY <1>9, <1>10 DEF RouteInv
<1> QED BY <1>9, <1>11

-----------------------------------------------------------------------------
(* The way back *)

\* The pairs that make sense: no blocks on the side that has none, and the same text
\* where they are equal.
PairSet ==
    {p \in [op : {"equal", "replace", "insert", "delete"},
            file1 : Seq(BlockSet), file2 : Seq(BlockSet)] :
        /\ p.op = "insert" => p.file1 = <<>>
        /\ p.op = "delete" => p.file2 = <<>>
        /\ p.op = "equal" => Words(p.file1) = Words(p.file2)}

\* The blocks that pairs take from the two sides.
Lefts(ps) == FlattenSeq([n \in 1..Len(ps) |-> ps[n].file1])
Rights(ps) == FlattenSeq([n \in 1..Len(ps) |-> ps[n].file2])

\* What pairs take are blocks.
LEMMA SidesType ==
    ASSUME NEW ps \in Seq(PairSet)
    PROVE  /\ [n \in 1..Len(ps) |-> ps[n].file1] \in Seq(Seq(BlockSet))
           /\ [n \in 1..Len(ps) |-> ps[n].file2] \in Seq(Seq(BlockSet))
<1>1. \A p \in PairSet : p.file1 \in Seq(BlockSet) /\ p.file2 \in Seq(BlockSet)
    BY DEF PairSet
<1>2. Len(ps) \in Nat /\ \A n \in 1..Len(ps) : ps[n] \in PairSet
    OBVIOUS
<1>3. \A n \in 1..Len(ps) : ps[n].file1 \in Seq(BlockSet) /\ ps[n].file2 \in Seq(BlockSet)
    BY <1>1, <1>2
<1> DEFINE B == Seq(BlockSet)
<1> HIDE DEF B
<1>4. \A n \in 1..Len(ps) : ps[n].file1 \in B /\ ps[n].file2 \in B
    BY <1>3 DEF B
<1>5. [n \in 1..Len(ps) |-> ps[n].file1] \in Seq(B) /\ [n \in 1..Len(ps) |-> ps[n].file2] \in Seq(B)
    BY <1>2, <1>4
<1> QED BY <1>5 DEF B

\* No pair takes no block.
LEMMA SidesNone == Lefts(<<>>) = <<>> /\ Rights(<<>>) = <<>>
<1>1. Len(<<>>) = 0
    OBVIOUS
<1>2. ASSUME NEW s, s = [n \in 1..0 |-> s[n]] PROVE s = <<>>
    <2>1. DOMAIN s = {}
        BY <1>2
    <2>2. s \in Seq({})
        BY <1>2
    <2> QED BY <2>2
<1>3. [n \in 1..Len(<<>>) |-> <<>>[n].file1] = <<>> /\ [n \in 1..Len(<<>>) |-> <<>>[n].file2] = <<>>
    BY <1>1
<1> QED BY <1>3, FlatEmpty DEF Lefts, Rights

\* One more pair takes its blocks as well.
LEMMA SidesAppend ==
    ASSUME NEW ps \in Seq(PairSet), NEW p \in PairSet
    PROVE  /\ Lefts(Append(ps, p)) = Lefts(ps) \o p.file1
           /\ Rights(Append(ps, p)) = Rights(ps) \o p.file2
<1> DEFINE n == Len(ps)
           all == Append(ps, p)
           s1 == [k \in 1..n |-> ps[k].file1]
           s2 == [k \in 1..n |-> ps[k].file2]
           B == Seq(BlockSet)
<1>1. /\ n \in Nat /\ all \in Seq(PairSet) /\ Len(all) = n + 1 /\ all[n + 1] = p
      /\ \A k \in 1..n : all[k] = ps[k]
    BY Appended
<1>2. s1 \in Seq(B) /\ s2 \in Seq(B) /\ p.file1 \in B /\ p.file2 \in B
    BY SidesType DEF PairSet
<1>3. Len(s1) = n /\ Len(s2) = n
    BY <1>1
<1> HIDE DEF all, n, B
<1>4. [k \in 1..Len(all) |-> all[k].file1] = Append(s1, p.file1)
    BY <1>1, <1>3
<1>5. [k \in 1..Len(all) |-> all[k].file2] = Append(s2, p.file2)
    BY <1>1, <1>3
<1>6. FlattenSeq(Append(s1, p.file1)) = FlattenSeq(s1) \o p.file1
    <2> HIDE DEF s1
    <2> QED BY <1>2, FlatAppend DEF B
<1>7. FlattenSeq(Append(s2, p.file2)) = FlattenSeq(s2) \o p.file2
    <2> HIDE DEF s2
    <2> QED BY <1>2, FlatAppend DEF B
<1> QED BY <1>4, <1>5, <1>6, <1>7 DEF Lefts, Rights, all, n

\* From every cell there is a move back.
WaysBack(l, r, move) ==
    \A c \in Cells(l, r) : c # <<0, 0>> =>
        /\ move[c] \in MoveSet
        /\ Prior(c, move[c]) \in Cells(l, r)

\* One step back through the table.
TraceStep(l, r, move, f, c) ==
    IF c = <<0, 0>> THEN <<>>
    ELSE Append(f[Prior(c, move[c])], MovePair(l, r, c, move[c]))

\* What a move back gives.
MoveBack(l, r, c, mv) ==
    /\ c[1] \in 0..Len(l) /\ c[2] \in 0..Len(r) /\ c = <<c[1], c[2]>>
    /\ mv[1] \in Nat /\ mv[2] \in Nat
    /\ c[1] - mv[1] \in 0..Len(l) /\ c[2] - mv[2] \in 0..Len(r)
    /\ Prior(c, mv) = <<c[1] - mv[1], c[2] - mv[2]>>
    /\ c[1] - mv[1] <= c[1] /\ c[2] - mv[2] <= c[2]
    /\ (c[1] - mv[1]) + (c[2] - mv[2]) < c[1] + c[2]

\* A move back leads to a cell before.
LEMMA MoveBackIs ==
    ASSUME NEW l, NEW r, Len(l) \in Nat, Len(r) \in Nat, NEW c \in Cells(l, r), NEW mv \in MoveSet,
           Prior(c, mv) \in Cells(l, r)
    PROVE  MoveBack(l, r, c, mv)
<1>1. c[1] \in 0..Len(l) /\ c[2] \in 0..Len(r) /\ c = <<c[1], c[2]>>
    BY DEF Cells
<1>2. mv[1] \in 0..3 /\ mv[2] \in 0..3 /\ (mv[1] # 0 \/ mv[2] # 0)
    BY DEF MoveSet
<1>3. c[1] - mv[1] \in 0..Len(l) /\ c[2] - mv[2] \in 0..Len(r)
    BY DEF Prior, Cells
<1>4. Prior(c, mv) = <<c[1] - mv[1], c[2] - mv[2]>>
    BY DEF Prior
<1> DEFINE i == c[1]
           j == c[2]
           u == mv[1]
           v == mv[2]
<1>5. i \in Nat /\ j \in Nat /\ u \in Nat /\ v \in Nat /\ (u # 0 \/ v # 0)
    BY <1>1, <1>2
<1> HIDE DEF i, j, u, v
<1>6. i - u <= i /\ j - v <= j /\ (i - u) + (j - v) < i + j
    BY <1>5
<1> QED BY <1>1, <1>2, <1>3, <1>4, <1>6 DEF MoveBack, i, j, u, v

\* The pair of a move is made of the blocks that the move is over.
LEMMA MovePairType ==
    ASSUME NEW l \in Seq(BlockSet), NEW r \in Seq(BlockSet), NEW c, NEW mv, MoveBack(l, r, c, mv)
    PROVE  /\ MovePair(l, r, c, mv) \in PairSet
           /\ MovePair(l, r, c, mv).file1 = SubSeq(l, (c[1] - mv[1]) + 1, c[1])
           /\ MovePair(l, r, c, mv).file2 = SubSeq(r, (c[2] - mv[2]) + 1, c[2])
<1> DEFINE a == c[1] - mv[1]
           b == c[2] - mv[2]
           ls == SubSeq(l, a + 1, c[1])
           rs == SubSeq(r, b + 1, c[2])
<1>1. /\ a \in 0..Len(l) /\ c[1] \in 0..Len(l) /\ a <= c[1]
      /\ b \in 0..Len(r) /\ c[2] \in 0..Len(r) /\ b <= c[2]
    BY DEF MoveBack
<1>2. ls \in Seq(BlockSet) /\ rs \in Seq(BlockSet) /\ Len(ls) = c[1] - a /\ Len(rs) = c[2] - b
    <2> DEFINE x == c[1]
               y == c[2]
    <2>1. a \in 0..Len(l) /\ x \in 0..Len(l) /\ a <= x /\ b \in 0..Len(r) /\ y \in 0..Len(r) /\ b <= y
        BY <1>1
    <2> HIDE DEF a, b, x, y
    <2>2. SubSeq(l, a + 1, x) \in Seq(BlockSet) /\ Len(SubSeq(l, a + 1, x)) = x - a
        BY <2>1, PartType
    <2>3. SubSeq(r, b + 1, y) \in Seq(BlockSet) /\ Len(SubSeq(r, b + 1, y)) = y - b
        BY <2>1, PartType
    <2> QED BY ONLY <2>2, <2>3 DEF x, y
<1>3. mv[1] \in Nat /\ mv[2] \in Nat /\ c[1] \in Nat /\ c[2] \in Nat
    BY DEF MoveBack
<1>4. c[1] - a = mv[1] /\ c[2] - b = mv[2]
    BY <1>3
<1>5. MovePair(l, r, c, mv) = IF mv[2] = 0 THEN Pair("delete", ls, <<>>)
                             ELSE IF mv[1] = 0 THEN Pair("insert", <<>>, rs)
                             ELSE Matched(ls, rs)
    BY DEF MovePair
<1>6. /\ mv[2] = 0 => rs = <<>>
      /\ mv[1] = 0 => ls = <<>>
    <2> HIDE DEF ls, rs, a, b
    <2> QED BY <1>2, <1>4
<1> HIDE DEF ls, rs
<1>7. MovePair(l, r, c, mv) \in PairSet
    BY <1>2, <1>5 DEF PairSet, Pair, Matched
<1>8. MovePair(l, r, c, mv).file1 = ls /\ MovePair(l, r, c, mv).file2 = rs
    BY <1>5, <1>6 DEF Pair, Matched
<1> QED BY <1>7, <1>8 DEF ls, rs

\* Trace, which walks back from the last cell, is defined.
LEMMA TraceExists ==
    ASSUME NEW l \in Seq(BlockSet), NEW r \in Seq(BlockSet), NEW move, WaysBack(l, r, move)
    PROVE  \E f \in [Cells(l, r) -> Seq(PairSet)] :
               f = [c \in Cells(l, r) |-> TraceStep(l, r, move, f, c)]
<1> DEFINE D == Cells(l, r)
           A == Seq(PairSet)
           n == Len(l) + Len(r)
           m == [c \in D |-> c[1] + c[2]]
           G == [cf \in D \X [D -> A] |-> TraceStep(l, r, move, cf[2], cf[1])]
<1>1. Len(l) \in Nat /\ Len(r) \in Nat /\ n \in Nat
    OBVIOUS
<1>2. ASSUME NEW c \in D, c # <<0, 0>>
      PROVE  /\ MoveBack(l, r, c, move[c]) /\ Prior(c, move[c]) \in D
             /\ MovePair(l, r, c, move[c]) \in PairSet
             /\ m[Prior(c, move[c])] < m[c]
    <2>1. move[c] \in MoveSet /\ Prior(c, move[c]) \in D
        BY <1>2 DEF WaysBack
    <2>2. MoveBack(l, r, c, move[c])
        BY <1>1, <2>1, MoveBackIs
    <2>3. MovePair(l, r, c, move[c]) \in PairSet
        BY <2>2, MovePairType
    <2>4. m[Prior(c, move[c])] < m[c]
        <3> DEFINE i == c[1] - move[c][1]
                   j == c[2] - move[c][2]
        <3>1. Prior(c, move[c]) = <<i, j>> /\ i + j < c[1] + c[2]
            BY <2>2 DEF MoveBack
        <3>2. m[c] = c[1] + c[2]
            OBVIOUS
        <3>3. m[<<i, j>>] = i + j
            <4>1. <<i, j>> \in D
                BY <2>1, <3>1
            <4> HIDE DEF i, j, D
            <4> QED BY <4>1
        <3> HIDE DEF m, i, j
        <3> QED BY <3>1, <3>2, <3>3
    <2> QED BY <2>1, <2>2, <2>3, <2>4
<1>3. ASSUME NEW c \in D, NEW f \in [D -> A] PROVE TraceStep(l, r, move, f, c) \in A
    <2>1. CASE c = <<0, 0>>
        BY <2>1 DEF TraceStep
    <2>2. CASE c # <<0, 0>>
        <3>1. Prior(c, move[c]) \in D /\ MovePair(l, r, c, move[c]) \in PairSet
            BY <1>2, <2>2
        <3> HIDE DEF D
        <3>2. f[Prior(c, move[c])] \in Seq(PairSet)
            BY <3>1
        <3> QED BY <2>2, <3>1, <3>2 DEF TraceStep
    <2> QED BY <2>1, <2>2
<1>4. ASSUME NEW c \in D, NEW f \in [D -> A], NEW g \in [D -> A],
             \A y \in D : m[y] < m[c] => f[y] = g[y]
      PROVE  TraceStep(l, r, move, f, c) = TraceStep(l, r, move, g, c)
    <2>1. CASE c = <<0, 0>>
        BY <2>1 DEF TraceStep
    <2>2. CASE c # <<0, 0>>
        <3>1. Prior(c, move[c]) \in D /\ m[Prior(c, move[c])] < m[c]
            BY <1>2, <2>2
        <3> HIDE DEF D, A, m
        <3>2. f[Prior(c, move[c])] = g[Prior(c, move[c])]
            BY <1>4, <3>1
        <3> QED BY <2>2, <3>2 DEF TraceStep
    <2> QED BY <2>1, <2>2
<1>5. m \in [D -> 0..n]
    <2>1. \A c \in D : c[1] + c[2] \in 0..n
        <3>1. \A c \in D : c[1] \in 0..Len(l) /\ c[2] \in 0..Len(r)
            BY DEF Cells
        <3> QED BY <1>1, <3>1
    <2> HIDE DEF D, n
    <2> QED BY <2>1
<1>6. \A c \in D, f \in [D -> A] : G[<<c, f>>] = TraceStep(l, r, move, f, c)
    <2> HIDE DEF D, A
    <2> QED OBVIOUS
<1>7. G \in [D \X [D -> A] -> A]
    <2> HIDE DEF D, A
    <2> QED BY <1>3
<1>8. LooksBack(D, A, m, G)
    <2> HIDE DEF D, A, m, G
    <2> QED BY <1>4, <1>6 DEF LooksBack
<1>9. <<>> \in A
    OBVIOUS
<1>10. PICK f \in [D -> A] : Solves(D, G, f)
    <2> HIDE DEF D, A, m, G, n
    <2> QED BY <1>1, <1>5, <1>7, <1>8, <1>9, RecursionExists
<1>11. f = [c \in D |-> TraceStep(l, r, move, f, c)]
    <2> HIDE DEF D, A, G
    <2> QED BY <1>6, <1>10 DEF Solves
<1> QED BY <1>11

\* What holds of the pairs up to the first cell, and of the pairs up to any other cell
\* when it holds of those before its last move, holds of them all.
Carried(l, r, move, Good) ==
    /\ << <<>>, <<0, 0>> >> \in Good
    /\ \A c \in Cells(l, r) : \A ps \in Seq(PairSet) :
           c # <<0, 0>> /\ <<ps, Prior(c, move[c])>> \in Good =>
               <<Append(ps, MovePair(l, r, c, move[c])), c>> \in Good

\* What holds at the first cell, and of a cell if it does of the one before it, holds at the last.
LEMMA TraceInduction ==
    ASSUME NEW l \in Seq(BlockSet), NEW r \in Seq(BlockSet), NEW move, WaysBack(l, r, move),
           NEW Good, Carried(l, r, move, Good)
    PROVE  /\ Trace(l, r, move) \in Seq(PairSet)
           /\ <<Trace(l, r, move), <<Len(l), Len(r)>> >> \in Good
<1> DEFINE D == Cells(l, r)
           P(f) == f = [c \in D |-> TraceStep(l, r, move, f, c)]
           to == CHOOSE f : P(f)
           end == <<Len(l), Len(r)>>
           n == Len(l) + Len(r)
           S == {k \in 0..n : \A c \in D : c[1] + c[2] <= k =>
                                 to[c] \in Seq(PairSet) /\ <<to[c], c>> \in Good}
<1>1. Len(l) \in Nat /\ Len(r) \in Nat /\ n \in Nat
    OBVIOUS
<1>2. Trace(l, r, move) = to[end]
    BY DEF Trace, TraceStep
<1>3. P(to)
    <2>1. \E f : P(f)
        BY TraceExists
    <2> HIDE DEF P
    <2> QED BY <2>1
<1> HIDE DEF to
<1>4. \A c \in D : to[c] = TraceStep(l, r, move, to, c)
    <2> HIDE DEF D
    <2> QED BY <1>3
<1>5. \A c \in D : c[1] \in Nat /\ c[2] \in Nat /\ c = <<c[1], c[2]>> /\ c[1] <= Len(l) /\ c[2] <= Len(r)
    BY DEF Cells
<1>6. to[<<0, 0>>] = <<>>
    <2>1. <<0, 0>> \in D
        BY <1>1 DEF Cells
    <2> QED BY <1>4, <2>1 DEF TraceStep
<1> DEFINE Well(c) == to[c] \in Seq(PairSet) /\ <<to[c], c>> \in Good
<1>0. Well(<<0, 0>>)
    BY <1>6 DEF Carried
<1>7. 0 \in S
    <2>1. ASSUME NEW c \in D, c[1] + c[2] <= 0 PROVE c = <<0, 0>>
        <3>1. c[1] = 0 /\ c[2] = 0
            BY <1>5, <2>1
        <3> QED BY <1>5, <3>1
    <2> HIDE DEF D
    <2>3. \A c \in D : c[1] + c[2] <= 0 => to[c] \in Seq(PairSet) /\ <<to[c], c>> \in Good
        BY <2>1, <1>0
    <2> QED BY <1>1, <2>3
<1>8. ASSUME NEW k \in 0..n, k < n, k \in S PROVE k + 1 \in S
    <2>1. ASSUME NEW c \in D, c[1] + c[2] <= k + 1
          PROVE  to[c] \in Seq(PairSet) /\ <<to[c], c>> \in Good
        <3>1. CASE c = <<0, 0>>
            <4> HIDE DEF Well
            <4>1. Well(c)
                BY <1>0, <3>1
            <4> QED BY <4>1 DEF Well
        <3>2. CASE c # <<0, 0>>
            <4> DEFINE mv == move[c]
                       p == Prior(c, mv)
            <4>1. mv \in MoveSet /\ p \in D
                BY <3>2 DEF WaysBack
            <4>2. MoveBack(l, r, c, mv)
                BY <1>1, <4>1, MoveBackIs
            <4>3. MovePair(l, r, c, mv) \in PairSet
                BY <4>2, MovePairType
            <4>4. p[1] + p[2] <= k
                <5> DEFINE i == c[1] - mv[1]
                           j == c[2] - mv[2]
                <5>1. p = <<i, j>> /\ i + j < c[1] + c[2] /\ i \in Nat /\ j \in Nat
                    BY <1>1, <4>2 DEF MoveBack
                <5>2. p[1] = i /\ p[2] = j
                    BY <5>1
                <5> HIDE DEF i, j, p, mv
                <5> QED BY <1>5, <2>1, <5>1, <5>2
            <4>5. to[p] \in Seq(PairSet) /\ <<to[p], p>> \in Good
                BY <1>8, <4>1, <4>4
            <4>6. to[c] = Append(to[p], MovePair(l, r, c, mv))
                BY <1>4, <3>2 DEF TraceStep
            <4>7. to[c] \in Seq(PairSet)
                <5> HIDE DEF p, mv
                <5> QED BY <4>3, <4>5, <4>6
            <4>8. <<to[c], c>> \in Good
                BY <3>2, <4>5, <4>6 DEF Carried
            <4> QED BY <4>7, <4>8
        <3> QED BY <3>1, <3>2
    <2>2. k + 1 \in 0..n
        BY <1>1, <1>8
    <2> HIDE DEF D
    <2> QED BY <2>1, <2>2
<1>9. \A k \in 0..n : k \in S
    <2> HIDE DEF S, n
    <2> QED BY <1>1, <1>7, <1>8, BoundedInduction
<1>10. end \in D /\ end[1] + end[2] <= n /\ n \in 0..n
    BY <1>1 DEF Cells
<1>11. to[end] \in Seq(PairSet) /\ <<to[end], end>> \in Good
    <2>1. n \in S
        BY <1>9, <1>10
    <2> HIDE DEF D, end, n
    <2> QED BY <1>10, <2>1
<1> QED BY <1>2, <1>11

\* The pairs up to a cell are made of the blocks up to there.
LEMMA UptoPart ==
    ASSUME NEW T, NEW s \in Seq(T), NEW i \in 0..Len(s), NEW j \in 0..Len(s), i <= j
    PROVE  Upto(s, i) \o SubSeq(s, i + 1, j) = Upto(s, j)
<1> DEFINE a == Upto(s, i)
           b == SubSeq(s, i + 1, j)
           c == Upto(s, j)
<1>1. Len(s) \in Nat
    OBVIOUS
<1>2. a \in Seq(T) /\ Len(a) = i /\ c \in Seq(T) /\ Len(c) = j
    BY <1>1, UptoProperties
<1>3. b \in Seq(T) /\ Len(b) = j - i /\ \A k \in 1..(j - i) : b[k] = s[i + k]
    BY PartType
<1>4. (\A k \in 1..i : a[k] = s[k]) /\ (\A k \in 1..j : c[k] = s[k])
    BY <1>1 DEF Upto
<1> HIDE DEF a, b, c
<1>5. i \in Nat /\ j \in Nat /\ a \o b \in Seq(T) /\ Len(a \o b) = j
    BY <1>1, <1>2, <1>3
<1>6. ASSUME NEW k \in 1..j PROVE (a \o b)[k] = c[k]
    <2>1. CASE k <= i
        BY <1>2, <1>3, <1>4, <2>1
    <2>2. CASE k > i
        <3>1. k - i \in 1..(j - i) /\ i + (k - i) = k
            BY <1>5, <2>2
        <3>2. (a \o b)[k] = b[k - i]
            BY <1>2, <1>3, <1>5, <2>2
        <3> QED BY <1>3, <1>4, <3>1, <3>2
    <2> QED BY <1>5, <2>1, <2>2
<1>7. a \o b = c
    <2> DEFINE ab == a \o b
    <2>1. ab \in Seq(T) /\ c \in Seq(T) /\ Len(ab) = Len(c) /\ Len(ab) = j
        BY ONLY <1>2, <1>5
    <2>2. \A k \in 1..Len(ab) : ab[k] = c[k]
        BY ONLY <1>6, <2>1
    <2> HIDE DEF ab
    <2>3. ab = c
        BY ONLY <2>1, <2>2, SeqEqual
    <2> QED BY <2>3 DEF ab
<1> QED BY <1>7 DEF a, b, c

\* The pairs are made of the blocks up to a cell.
UpToCell(l, r, ps, c) == Lefts(ps) = Upto(l, c[1]) /\ Rights(ps) = Upto(r, c[2])

\* The way back takes every block of the two ranges once, in order.
LEMMA TraceCovers ==
    ASSUME NEW l \in Seq(BlockSet), NEW r \in Seq(BlockSet), NEW move, WaysBack(l, r, move)
    PROVE  /\ Trace(l, r, move) \in Seq(PairSet)
           /\ Lefts(Trace(l, r, move)) = l /\ Rights(Trace(l, r, move)) = r
<1> DEFINE Good == {way \in Seq(PairSet) \X Cells(l, r) : UpToCell(l, r, way[1], way[2])}
           z == 0
           end == <<Len(l), Len(r)>>
<1>1. Len(l) \in Nat /\ Len(r) \in Nat /\ <<z, z>> \in Cells(l, r) /\ end \in Cells(l, r)
    BY DEF Cells
<1>2. << <<>>, <<z, z>> >> \in Good
    <2>1. <<>> \in Seq(PairSet)
        OBVIOUS
    <2>2. UpToCell(l, r, <<>>, <<z, z>>)
        BY SidesNone, UptoProperties DEF UpToCell
    <2> HIDE DEF z
    <2> QED BY <1>1, <2>1, <2>2
<1>3. ASSUME NEW c \in Cells(l, r), NEW ps \in Seq(PairSet), c # <<z, z>>,
             <<ps, Prior(c, move[c])>> \in Good
      PROVE  <<Append(ps, MovePair(l, r, c, move[c])), c>> \in Good
    <2> DEFINE mv == move[c]
               p == Prior(c, mv)
               a == c[1] - mv[1]
               b == c[2] - mv[2]
               m == MovePair(l, r, c, mv)
    <2>1. mv \in MoveSet /\ p \in Cells(l, r)
        BY <1>3 DEF WaysBack
    <2>2. MoveBack(l, r, c, mv)
        BY <1>1, <2>1, MoveBackIs
    <2>3. m \in PairSet /\ m.file1 = SubSeq(l, a + 1, c[1]) /\ m.file2 = SubSeq(r, b + 1, c[2])
        BY <2>2, MovePairType
    <2>4. UpToCell(l, r, ps, p)
        BY <1>3
    <2>5. /\ p = <<a, b>> /\ a \in 0..Len(l) /\ c[1] \in 0..Len(l) /\ a <= c[1]
          /\ b \in 0..Len(r) /\ c[2] \in 0..Len(r) /\ b <= c[2]
        BY <2>2 DEF MoveBack
    <2> HIDE DEF mv, a, b, m, p
    <2>6. Lefts(ps) = Upto(l, a) /\ Rights(ps) = Upto(r, b)
        BY <2>4, <2>5 DEF UpToCell
    <2>7. /\ Lefts(Append(ps, m)) = Upto(l, a) \o SubSeq(l, a + 1, c[1])
          /\ Rights(Append(ps, m)) = Upto(r, b) \o SubSeq(r, b + 1, c[2])
        BY <2>3, <2>6, SidesAppend
    <2>8. Upto(l, a) \o SubSeq(l, a + 1, c[1]) = Upto(l, c[1])
        BY <2>5, UptoPart
    <2>9. Upto(r, b) \o SubSeq(r, b + 1, c[2]) = Upto(r, c[2])
        BY <2>5, UptoPart
    <2>10. UpToCell(l, r, Append(ps, m), c)
        BY <2>7, <2>8, <2>9 DEF UpToCell
    <2>11. Append(ps, m) \in Seq(PairSet)
        BY <2>3
    <2>12. <<Append(ps, m), c>> \in Good
        BY <2>10, <2>11
    <2> QED BY <2>12 DEF m, mv
<1> HIDE DEF Good
<1>4. Carried(l, r, move, Good)
    BY <1>2, <1>3 DEF Carried
<1>5. Trace(l, r, move) \in Seq(PairSet) /\ <<Trace(l, r, move), end>> \in Good
    BY <1>4, TraceInduction
<1>6. UpToCell(l, r, Trace(l, r, move), end)
    BY <1>5 DEF Good
<1>7. Upto(l, Len(l)) = l /\ Upto(r, Len(r)) = r
    BY UptoProperties
<1> QED BY <1>5, <1>6, <1>7 DEF UpToCell

\* _align_changed_range leaves no block out.
LEMMA ChangedRangeCovers ==
    ASSUME NEW l \in Seq(BlockSet), NEW r \in Seq(BlockSet)
    PROVE  /\ AlignChangedRange(l, r) \in Seq(PairSet)
           /\ Lefts(AlignChangedRange(l, r)) = l /\ Rights(AlignChangedRange(l, r)) = r
<1> DEFINE t == CostTable(l, r)
<1>1. /\ \A c \in Cells(l, r) : c # <<0, 0>> /\ t.cost[c] # Unreached => Arrives(l, r, t, Cells(l, r), c)
      /\ \A c \in Cells(l, r) : t.cost[c] \in Nat
    BY CostTableIs DEF RouteInv
<1>2. \A c \in Cells(l, r) : t.cost[c] # Unreached
    BY <1>1 DEF Unreached
<1> HIDE DEF t
<1>3. WaysBack(l, r, t.move)
    BY <1>1, <1>2 DEF WaysBack, Arrives
<1> QED BY <1>3, TraceCovers DEF AlignChangedRange, t
-----------------------------------------------------------------------------
(* Alignment *)

\* Blocks one by one are the blocks.
LEMMA Singles ==
    ASSUME NEW T, NEW s \in Seq(T)
    PROVE  FlattenSeq([k \in 1..Len(s) |-> <<s[k]>>]) = s
<1> DEFINE n == Len(s)
           ss == [k \in 1..n |-> <<s[k]>>]
           acc == [k \in 0..n |-> Upto(s, k)]
           B == Seq(T)
<1>1. n \in Nat /\ \A k \in 1..n : <<s[k]>> \in B
    OBVIOUS
<1>2. ss \in Seq(B) /\ Len(ss) = n
    <2> HIDE DEF n, B
    <2> QED BY <1>1
<1>3. /\ Upto(s, 0) = <<>> /\ Upto(s, n) = s
      /\ \A k \in 0..n : Upto(s, k) \in Seq(T)
      /\ \A k \in 0..n : k < n => Upto(s, k + 1) = Append(Upto(s, k), s[k + 1])
    BY UptoProperties
<1>4. IsFlat(ss, acc)
    <2>1. acc[0] = <<>>
        BY <1>1, <1>3
    <2>2. ASSUME NEW k \in 0..n, k < n PROVE acc[k + 1] = acc[k] \o ss[k + 1]
        <3>1. k + 1 \in 1..n /\ k + 1 \in 0..n
            BY <1>1, <2>2
        <3>2. s[k + 1] \in T /\ Upto(s, k) \in Seq(T)
            BY <1>3, <3>1
        <3>3. Append(Upto(s, k), s[k + 1]) = Upto(s, k) \o <<s[k + 1]>>
            BY <3>2
        <3> QED BY <1>3, <2>2, <3>1, <3>3
    <2> QED BY <1>2, <2>1, <2>2 DEF IsFlat
<1>5. FlattenSeq(ss) = acc[n]
    <2> HIDE DEF ss, acc
    <2>1. ss \in Seq(Seq(T))
        BY <1>2 DEF B
    <2>2. FlattenSeq(ss) = acc[Len(ss)]
        BY <1>4, <2>1, FlatIs
    <2> QED BY <1>2, <2>2
<1>6. acc[n] = s
    BY <1>1, <1>3
<1> QED BY <1>5, <1>6

\* Nothing, many times, is nothing.
LEMMA Nothings ==
    ASSUME NEW n \in Nat
    PROVE  FlattenSeq([k \in 1..n |-> <<>>]) = <<>>
<1> DEFINE ss == [k \in 1..n |-> <<>>]
           acc == [k \in 0..n |-> <<>>]
<1>1. ss \in Seq(Seq({})) /\ Len(ss) = n
    OBVIOUS
<1>2. IsFlat(ss, acc)
    BY <1>1 DEF IsFlat
<1>3. FlattenSeq(ss) = acc[Len(ss)]
    <2> HIDE DEF ss, acc
    <2> QED BY <1>1, <1>2, FlatIs
<1> QED BY <1>1, <1>3

\* Pairs after pairs take blocks after blocks.
LEMMA SidesConcat ==
    ASSUME NEW ps \in Seq(PairSet), NEW qs \in Seq(PairSet)
    PROVE  /\ Lefts(ps \o qs) = Lefts(ps) \o Lefts(qs)
           /\ Rights(ps \o qs) = Rights(ps) \o Rights(qs)
<1> DEFINE s1 == [k \in 1..Len(ps) |-> ps[k].file1]
           t1 == [k \in 1..Len(qs) |-> qs[k].file1]
           s2 == [k \in 1..Len(ps) |-> ps[k].file2]
           t2 == [k \in 1..Len(qs) |-> qs[k].file2]
           all == ps \o qs
           B == Seq(BlockSet)
<1>1. /\ all \in Seq(PairSet) /\ Len(all) = Len(ps) + Len(qs) /\ Len(ps) \in Nat /\ Len(qs) \in Nat
      /\ \A k \in 1..Len(ps) : all[k] = ps[k]
      /\ \A k \in 1..Len(qs) : all[Len(ps) + k] = qs[k]
    BY Concatenated
<1>2. s1 \in Seq(B) /\ t1 \in Seq(B) /\ s2 \in Seq(B) /\ t2 \in Seq(B)
    BY SidesType
<1>3. Len(s1) = Len(ps) /\ Len(t1) = Len(qs) /\ Len(s2) = Len(ps) /\ Len(t2) = Len(qs)
    BY <1>1
<1> HIDE DEF all, B
<1>4. ASSUME NEW k \in 1..Len(all) PROVE all[k] = IF k <= Len(ps) THEN ps[k] ELSE qs[k - Len(ps)]
    <2>1. CASE k <= Len(ps)
        BY <1>1, <2>1
    <2>2. CASE ~(k <= Len(ps))
        <3>1. k - Len(ps) \in 1..Len(qs) /\ Len(ps) + (k - Len(ps)) = k
            BY <1>1, <2>2
        <3> QED BY <1>1, <2>2, <3>1
    <2> QED BY <2>1, <2>2
<1>5. [k \in 1..Len(all) |-> all[k].file1] = s1 \o t1
    BY <1>1, <1>3, <1>4
<1>6. [k \in 1..Len(all) |-> all[k].file2] = s2 \o t2
    BY <1>1, <1>3, <1>4
<1> HIDE DEF s1, t1, s2, t2
<1>7. FlattenSeq(s1 \o t1) = FlattenSeq(s1) \o FlattenSeq(t1)
    BY <1>2, FlatConcat DEF B
<1>8. FlattenSeq(s2 \o t2) = FlattenSeq(s2) \o FlattenSeq(t2)
    BY <1>2, FlatConcat DEF B
<1> QED BY <1>5, <1>6, <1>7, <1>8 DEF Lefts, Rights, all, s1, t1, s2, t2

\* What AlignBlocks makes of an opcode.
AlignedAt(bs1, bs2, o) ==
    LET left  == SubSeq(bs1, o.i1 + 1, o.i2)
        right == SubSeq(bs2, o.j1 + 1, o.j2)
    IN  CASE o.op = "equal"  -> [k \in 1..Len(left) |-> Matched(<<left[k]>>, <<right[k]>>)]
          [] o.op = "delete" -> [k \in 1..Len(left) |-> Pair("delete", <<left[k]>>, <<>>)]
          [] o.op = "insert" -> [k \in 1..Len(right) |-> Pair("insert", <<>>, <<right[k]>>)]
          [] OTHER           -> AlignChangedRange(left, right)

\* Pairs made of these blocks.
MadeOf(ps, l, r) == ps \in Seq(PairSet) /\ Lefts(ps) = l /\ Rights(ps) = r

\* Blocks paired, deleted or inserted one by one.
LEMMA OneByOne ==
    ASSUME NEW l \in Seq(BlockSet), NEW r \in Seq(BlockSet)
    PROVE  /\ Len(l) = Len(r) => MadeOf([k \in 1..Len(l) |-> Matched(<<l[k]>>, <<r[k]>>)], l, r)
           /\ r = <<>> => MadeOf([k \in 1..Len(l) |-> Pair("delete", <<l[k]>>, <<>>)], l, r)
           /\ l = <<>> => MadeOf([k \in 1..Len(r) |-> Pair("insert", <<>>, <<r[k]>>)], l, r)
<1>1. Len(l) \in Nat /\ Len(r) \in Nat
    OBVIOUS
<1>2. (\A k \in 1..Len(l) : l[k] \in BlockSet) /\ (\A k \in 1..Len(r) : r[k] \in BlockSet)
    OBVIOUS
<1>3. /\ \A x, y \in BlockSet : Matched(<<x>>, <<y>>) \in PairSet
      /\ \A x \in BlockSet : Pair("delete", <<x>>, <<>>) \in PairSet /\ Pair("insert", <<>>, <<x>>) \in PairSet
    <2>1. \A x \in BlockSet : <<x>> \in Seq(BlockSet)
        OBVIOUS
    <2> QED BY <2>1 DEF Matched, Pair, PairSet
<1>4. ASSUME Len(l) = Len(r)
      PROVE  MadeOf([k \in 1..Len(l) |-> Matched(<<l[k]>>, <<r[k]>>)], l, r)
    <2> DEFINE ps == [k \in 1..Len(l) |-> Matched(<<l[k]>>, <<r[k]>>)]
    <2>1. \A k \in 1..Len(l) : Matched(<<l[k]>>, <<r[k]>>) \in PairSet
        BY <1>2, <1>3, <1>4
    <2>2. ps \in Seq(PairSet) /\ Len(ps) = Len(l)
        BY <1>1, <2>1
    <2>3. \A k \in 1..Len(l) : ps[k].file1 = <<l[k]>> /\ ps[k].file2 = <<r[k]>>
        BY DEF Matched, Pair
    <2> HIDE DEF ps
    <2>4. Lefts(ps) = FlattenSeq([k \in 1..Len(l) |-> <<l[k]>>])
        BY <2>2, <2>3 DEF Lefts
    <2>5. Rights(ps) = FlattenSeq([k \in 1..Len(r) |-> <<r[k]>>])
        BY <1>4, <2>2, <2>3 DEF Rights
    <2>6. MadeOf(ps, l, r)
        BY <2>2, <2>4, <2>5, Singles DEF MadeOf
    <2> QED BY <2>6 DEF ps
<1>5. ASSUME r = <<>>
      PROVE  MadeOf([k \in 1..Len(l) |-> Pair("delete", <<l[k]>>, <<>>)], l, r)
    <2> DEFINE ps == [k \in 1..Len(l) |-> Pair("delete", <<l[k]>>, <<>>)]
    <2>1. \A k \in 1..Len(l) : Pair("delete", <<l[k]>>, <<>>) \in PairSet
        BY <1>2, <1>3
    <2>2. ps \in Seq(PairSet) /\ Len(ps) = Len(l)
        BY <1>1, <2>1
    <2>3. \A k \in 1..Len(l) : ps[k].file1 = <<l[k]>> /\ ps[k].file2 = <<>>
        BY DEF Pair
    <2> HIDE DEF ps
    <2>4. Lefts(ps) = FlattenSeq([k \in 1..Len(l) |-> <<l[k]>>])
        BY <2>2, <2>3 DEF Lefts
    <2>5. Rights(ps) = FlattenSeq([k \in 1..Len(l) |-> <<>>])
        BY <2>2, <2>3 DEF Rights
    <2>6. MadeOf(ps, l, r)
        BY <1>1, <1>5, <2>2, <2>4, <2>5, Singles, Nothings DEF MadeOf
    <2> QED BY <2>6 DEF ps
<1>6. ASSUME l = <<>>
      PROVE  MadeOf([k \in 1..Len(r) |-> Pair("insert", <<>>, <<r[k]>>)], l, r)
    <2> DEFINE ps == [k \in 1..Len(r) |-> Pair("insert", <<>>, <<r[k]>>)]
    <2>1. \A k \in 1..Len(r) : Pair("insert", <<>>, <<r[k]>>) \in PairSet
        BY <1>2, <1>3
    <2>2. ps \in Seq(PairSet) /\ Len(ps) = Len(r)
        BY <1>1, <2>1
    <2>3. \A k \in 1..Len(r) : ps[k].file1 = <<>> /\ ps[k].file2 = <<r[k]>>
        BY DEF Pair
    <2> HIDE DEF ps
    <2>4. Lefts(ps) = FlattenSeq([k \in 1..Len(r) |-> <<>>])
        BY <2>2, <2>3 DEF Lefts
    <2>5. Rights(ps) = FlattenSeq([k \in 1..Len(r) |-> <<r[k]>>])
        BY <2>2, <2>3 DEF Rights
    <2>6. MadeOf(ps, l, r)
        BY <1>1, <1>6, <2>2, <2>4, <2>5, Singles, Nothings DEF MadeOf
    <2> QED BY <2>6 DEF ps
<1> QED BY <1>4, <1>5, <1>6

\* What AlignBlocks makes of an opcode is made of the blocks of its ranges.
LEMMA AlignedAtIs ==
    ASSUME NEW l \in Seq(BlockSet), NEW r \in Seq(BlockSet), NEW a, NEW b,
           Len(a) = Len(l), Len(b) = Len(r), NEW o \in OpcodeSet(a, b)
    PROVE  MadeOf(AlignedAt(l, r, o), SubSeq(l, o.i1 + 1, o.i2), SubSeq(r, o.j1 + 1, o.j2))
<1> DEFINE left  == SubSeq(l, o.i1 + 1, o.i2)
           right == SubSeq(r, o.j1 + 1, o.j2)
<1>1. /\ o.op \in {"equal", "replace", "delete", "insert"}
      /\ o.i1 \in 0..Len(l) /\ o.i2 \in 0..Len(l) /\ o.i1 <= o.i2
      /\ o.j1 \in 0..Len(r) /\ o.j2 \in 0..Len(r) /\ o.j1 <= o.j2
      /\ o.op = "equal" => o.i2 - o.i1 = o.j2 - o.j1
      /\ o.op = "delete" => o.j1 = o.j2
      /\ o.op = "insert" => o.i1 = o.i2
    BY DEF OpcodeSet
<1>2. /\ left \in Seq(BlockSet) /\ Len(left) = o.i2 - o.i1
      /\ right \in Seq(BlockSet) /\ Len(right) = o.j2 - o.j1
    <2> DEFINE i1 == o.i1
               i2 == o.i2
               j1 == o.j1
               j2 == o.j2
    <2>1. /\ i1 \in 0..Len(l) /\ i2 \in 0..Len(l) /\ i1 <= i2
          /\ j1 \in 0..Len(r) /\ j2 \in 0..Len(r) /\ j1 <= j2
        BY <1>1
    <2> HIDE DEF i1, i2, j1, j2
    <2>2. SubSeq(l, i1 + 1, i2) \in Seq(BlockSet) /\ Len(SubSeq(l, i1 + 1, i2)) = i2 - i1
        BY ONLY l \in Seq(BlockSet), <2>1, PartType
    <2>3. SubSeq(r, j1 + 1, j2) \in Seq(BlockSet) /\ Len(SubSeq(r, j1 + 1, j2)) = j2 - j1
        BY ONLY r \in Seq(BlockSet), <2>1, PartType
    <2> QED BY <2>2, <2>3 DEF left, right, i1, i2, j1, j2
<1> HIDE DEF left, right
<1>3. /\ o.op = "equal" => Len(left) = Len(right)
      /\ o.op = "delete" => right = <<>>
      /\ o.op = "insert" => left = <<>>
    BY <1>1, <1>2
<1>4. AlignedAt(l, r, o) =
          CASE o.op = "equal"  -> [k \in 1..Len(left) |-> Matched(<<left[k]>>, <<right[k]>>)]
            [] o.op = "delete" -> [k \in 1..Len(left) |-> Pair("delete", <<left[k]>>, <<>>)]
            [] o.op = "insert" -> [k \in 1..Len(right) |-> Pair("insert", <<>>, <<right[k]>>)]
            [] OTHER           -> AlignChangedRange(left, right)
    BY DEF AlignedAt, left, right
<1>5. MadeOf(AlignChangedRange(left, right), left, right)
    BY <1>2, ChangedRangeCovers DEF MadeOf
<1>6. MadeOf(AlignedAt(l, r, o), left, right)
    <2>1. CASE o.op = "equal"
        BY <1>2, <1>3, <1>4, <2>1, OneByOne
    <2>2. CASE o.op = "delete"
        BY <1>2, <1>3, <1>4, <2>2, OneByOne
    <2>3. CASE o.op = "insert"
        BY <1>2, <1>3, <1>4, <2>3, OneByOne
    <2>4. CASE o.op = "replace"
        BY <1>4, <1>5, <2>4
    <2> QED BY <1>1, <2>1, <2>2, <2>3, <2>4
<1> QED BY <1>6 DEF left, right

\* _align_blocks leaves no block out and takes none twice.
LEMMA AlignBlocksCovers ==
    ASSUME NEW l \in Seq(BlockSet), NEW r \in Seq(BlockSet)
    PROVE  MadeOf(AlignBlocks(l, r), l, r)
<1> DEFINE a == Keys(l)
           b == Keys(r)
           ops == Opcodes(a, b)
           n == Len(ops)
           pss == [k \in 1..n |-> AlignedAt(l, r, ops[k])]
           la == Len(l)
           lb == Len(r)
           B == Seq(PairSet)
<1>1. la \in Nat /\ lb \in Nat
    OBVIOUS
<1>2. a \in Seq(Text) /\ b \in Seq(Text) /\ Len(a) = la /\ Len(b) = lb
    <2>1. ASSUME NEW x \in BlockSet PROVE Key(x.words) \in Text
        <3>1. x.words \in Lines
            BY DEF BlockSet
        <3>2. x.words \in Text
            BY <3>1, LinesType
        <3> QED BY <3>2, KeyType
    <2>2. (\A k \in 1..la : l[k] \in BlockSet) /\ (\A k \in 1..lb : r[k] \in BlockSet)
        OBVIOUS
    <2> HIDE DEF la, lb
    <2> QED BY <1>1, <2>1, <2>2 DEF Keys, la, lb
<1> HIDE DEF a, b
<1>3. ops \in Seq(OpcodeSet(a, b)) /\ Leads(ops, <<0, 0>>, <<Len(a), Len(b)>>)
    BY <1>2, OpcodesLead
<1>4. AlignBlocks(l, r) = FlattenSeq(pss)
    BY DEF AlignBlocks, AlignedAt, a, b
<1> HIDE DEF ops
<1>5. n \in Nat /\ \A k \in 1..n : ops[k] \in OpcodeSet(a, b)
    BY <1>3
<1>6. PICK at : Passes(ops, <<0, 0>>, <<la, lb>>, at)
    BY <1>2, <1>3 DEF Leads
<1>7. \A k \in 1..n : MadeOf(pss[k], SubSeq(l, ops[k].i1 + 1, ops[k].i2), SubSeq(r, ops[k].j1 + 1, ops[k].j2))
    <2> HIDE DEF n
    <2> QED BY <1>2, <1>5, AlignedAtIs
<1>8. pss \in Seq(B) /\ Len(pss) = n
    <2>1. \A k \in 1..n : AlignedAt(l, r, ops[k]) \in B
        BY <1>7 DEF MadeOf
    <2> HIDE DEF B, n
    <2> QED BY <1>5, <2>1
<1> HIDE DEF pss
<1>9. PICK acc \in [0..n -> B] : IsFlat(pss, acc)
    <2>1. pss \in Seq(Seq(PairSet))
        BY <1>8 DEF B
    <2>2. \E acc \in [0..Len(pss) -> Seq(PairSet)] : IsFlat(pss, acc)
        BY <2>1, FlatExists
    <2> QED BY <1>8, <2>2
<1>10. FlattenSeq(pss) = acc[n]
    <2>1. FlattenSeq(pss) = acc[Len(pss)]
        BY <1>8, <1>9, FlatIs DEF B
    <2> QED BY <1>8, <2>1
<1> HIDE DEF n
<1>11. ASSUME NEW k \in 0..n, k < n
       PROVE  /\ k + 1 \in 1..n /\ k + 1 \in 0..n
              /\ at[k] = <<ops[k + 1].i1, ops[k + 1].j1>> /\ at[k + 1] = <<ops[k + 1].i2, ops[k + 1].j2>>
              /\ acc[k + 1] = acc[k] \o pss[k + 1]
    <2>1. k + 1 \in 1..n /\ k + 1 \in 0..n /\ (k + 1) - 1 = k
        BY <1>5, <1>11
    <2> QED BY <1>6, <1>8, <1>9, <1>11, <2>1 DEF Passes, IsFlat, n
<1> DEFINE S == {k \in 0..n : UpToCell(l, r, acc[k], at[k])}
<1>12. 0 \in S
    <2>1. acc[0] = <<>> /\ at[0] = <<0, 0>>
        BY <1>6, <1>9 DEF Passes, IsFlat
    <2>2. UpToCell(l, r, acc[0], at[0])
        BY <2>1, SidesNone, UptoProperties DEF UpToCell
    <2> QED BY <1>5, <2>2
<1>13. ASSUME NEW k \in 0..n, k < n, k \in S PROVE k + 1 \in S
    <2> DEFINE o == ops[k + 1]
               ps == acc[k]
               qs == pss[k + 1]
    <2>1. /\ k + 1 \in 1..n /\ k + 1 \in 0..n /\ at[k] = <<o.i1, o.j1>> /\ at[k + 1] = <<o.i2, o.j2>>
          /\ acc[k + 1] = ps \o qs
        BY <1>11, <1>13
    <2>2. o \in OpcodeSet(a, b)
        BY <1>5, <2>1
    <2>3. MadeOf(qs, SubSeq(l, o.i1 + 1, o.i2), SubSeq(r, o.j1 + 1, o.j2))
        BY <1>7, <2>1
    <2>4. UpToCell(l, r, ps, <<o.i1, o.j1>>) /\ ps \in Seq(PairSet)
        BY <1>13, <2>1
    <2>5. /\ o.i1 \in 0..Len(l) /\ o.i2 \in 0..Len(l) /\ o.i1 <= o.i2
          /\ o.j1 \in 0..Len(r) /\ o.j2 \in 0..Len(r) /\ o.j1 <= o.j2
        BY <1>2, <2>2 DEF OpcodeSet
    <2> HIDE DEF o, ps, qs
    <2>6. Lefts(ps) = Upto(l, o.i1) /\ Rights(ps) = Upto(r, o.j1)
        BY <2>4 DEF UpToCell
    <2>7. /\ qs \in Seq(PairSet) /\ Lefts(qs) = SubSeq(l, o.i1 + 1, o.i2)
          /\ Rights(qs) = SubSeq(r, o.j1 + 1, o.j2)
        BY <2>3 DEF MadeOf
    <2>8. Lefts(ps \o qs) = Lefts(ps) \o Lefts(qs) /\ Rights(ps \o qs) = Rights(ps) \o Rights(qs)
        BY <2>4, <2>7, SidesConcat
    <2>9. Upto(l, o.i1) \o SubSeq(l, o.i1 + 1, o.i2) = Upto(l, o.i2)
        BY <2>5, UptoPart
    <2>10. Upto(r, o.j1) \o SubSeq(r, o.j1 + 1, o.j2) = Upto(r, o.j2)
        BY <2>5, UptoPart
    <2>11. UpToCell(l, r, ps \o qs, <<o.i2, o.j2>>)
        BY <2>6, <2>7, <2>8, <2>9, <2>10 DEF UpToCell
    <2> QED BY <2>1, <2>11
<1>14. \A k \in 0..n : k \in S
    <2> HIDE DEF S
    <2> QED BY <1>5, <1>12, <1>13, BoundedInduction
<1>15. UpToCell(l, r, acc[n], <<la, lb>>)
    <2>1. at[n] = <<la, lb>> /\ n \in S
        BY <1>5, <1>6, <1>14 DEF Passes, n
    <2> QED BY <2>1
<1>16. acc[n] \in Seq(PairSet)
    BY <1>5, <1>9
<1>17. Upto(l, Len(l)) = l /\ Upto(r, Len(r)) = r
    BY UptoProperties
<1> QED BY <1>4, <1>10, <1>15, <1>16, <1>17 DEF UpToCell, MadeOf
-----------------------------------------------------------------------------
(* The cheapest alignment *)

\* The least of some numbers.
LEMMA NatMin ==
    ASSUME NEW S \in SUBSET Nat, S # {}
    PROVE  Min(S) \in S /\ \A y \in S : Min(S) <= y
<1>1. PICK x \in S : TRUE
    OBVIOUS
<1> DEFINE T == {y \in S : y <= x}
<1>2. x \in Nat /\ T \in SUBSET (0..x) /\ T # {} /\ \A y \in S : y \in T \/ x <= y
    <2>1. x \in T
        BY <1>1
    <2>2. \A y \in S : y \in Nat /\ (y <= x \/ x <= y)
        OBVIOUS
    <2>3. \A y \in T : y \in 0..x
        BY <2>2
    <2>4. \A y \in S : y \in T \/ x <= y
        BY <2>2
    <2> HIDE DEF T
    <2> QED BY <2>1, <2>2, <2>3, <2>4
<1>3. PICK z \in T : \A y \in T : z <= y
    <2> HIDE DEF T
    <2> QED BY <1>2, HasMin
<1>4. z \in S /\ \A y \in S : z <= y
    BY <1>2, <1>3
<1>5. \E w \in S : \A y \in S : w <= y
    BY <1>4
<1> QED BY <1>5 DEF Min

\* The sequence of moves has all of them.
LEMMA MovesAll == ToSet(Moves) = MoveSet
<1>1. ToSet(Moves) \in SUBSET MoveSet
    BY MovesAre DEF ToSet
<1>2. ASSUME NEW mv \in MoveSet PROVE mv \in ToSet(Moves)
    <2>1. DOMAIN Moves = 1..11
        BY MovesAre
    <2>2. /\ Moves[1] = <<1, 0>> /\ Moves[2] = <<0, 1>> /\ Moves[3] = <<1, 1>> /\ Moves[4] = <<1, 2>>
          /\ Moves[5] = <<1, 3>> /\ Moves[6] = <<2, 1>> /\ Moves[7] = <<2, 2>> /\ Moves[8] = <<2, 3>>
          /\ Moves[9] = <<3, 1>> /\ Moves[10] = <<3, 2>> /\ Moves[11] = <<3, 3>>
        BY DEF Moves
    <2>3. mv = <<mv[1], mv[2]>> /\ mv[1] \in 0..3 /\ mv[2] \in 0..3
        BY DEF MoveSet
    <2>4. mv = <<1, 0>> \/ mv = <<0, 1>> \/ (mv[1] # 0 /\ mv[2] # 0)
        BY DEF MoveSet
    <2> HIDE DEF MoveSet
    <2>5. CASE mv[1] # 0 /\ mv[2] # 0
        <3>1. mv[1] \in {1, 2, 3} /\ mv[2] \in {1, 2, 3}
            BY <2>3, <2>5
        <3>2. \/ mv = <<1, 1>> \/ mv = <<1, 2>> \/ mv = <<1, 3>>
              \/ mv = <<2, 1>> \/ mv = <<2, 2>> \/ mv = <<2, 3>>
              \/ mv = <<3, 1>> \/ mv = <<3, 2>> \/ mv = <<3, 3>>
            BY <2>3, <3>1
        <3>3. \E k \in 1..11 : mv = Moves[k]
            BY <2>2, <3>2
        <3> QED BY <2>1, <3>3 DEF ToSet
    <2>6. CASE mv = <<1, 0>> \/ mv = <<0, 1>>
        <3>1. \E k \in 1..11 : mv = Moves[k]
            BY <2>2, <2>6
        <3> QED BY <2>1, <3>1 DEF ToSet
    <2> QED BY <2>4, <2>5, <2>6
<1> QED BY <1>1, <1>2

\* The moves that fit at a cell.
MovesFrom(l, r, c) == {mv \in MoveSet : Fits(l, r, c, mv)}

\* The cheapest way on from a cell, when f has those of the later cells.
CheapestStep(l, r, f, c) ==
    LET moves == {mv \in ToSet(Moves) : Fits(l, r, c, mv)}
        costs == {MoveCost(l, r, c[1], c[2], mv) + f[After(c, mv)] : mv \in moves}
    IN  IF moves = {} THEN 0 ELSE Min(costs)

\* What f has for a cell is the cheapest way on.
LeastFrom(l, r, f, c, x) ==
    /\ x \in Nat
    /\ MovesFrom(l, r, c) = {} => x = 0
    /\ MovesFrom(l, r, c) # {} =>
           \E mv \in MovesFrom(l, r, c) : x = StepCost(l, r, c, mv) + f[After(c, mv)]
    /\ \A mv \in MovesFrom(l, r, c) : x <= StepCost(l, r, c, mv) + f[After(c, mv)]

\* The least cost from a cell is that of a move and the way on.
LEMMA CheapestStepIs ==
    ASSUME NEW l \in Seq(BlockSet), NEW r \in Seq(BlockSet), NEW c \in Cells(l, r),
           NEW f \in [Cells(l, r) -> Nat]
    PROVE  LeastFrom(l, r, f, c, CheapestStep(l, r, f, c))
<1> DEFINE M == MovesFrom(l, r, c)
           costs == {StepCost(l, r, c, mv) + f[After(c, mv)] : mv \in M}
<1>1. CheapestStep(l, r, f, c) = IF M = {} THEN 0 ELSE Min(costs)
    BY MovesAll DEF CheapestStep, MovesFrom, StepCost
<1>2. ASSUME NEW mv \in M PROVE StepCost(l, r, c, mv) + f[After(c, mv)] \in Nat
    <2>1. mv \in MoveSet /\ Fits(l, r, c, mv) /\ Len(l) \in Nat /\ Len(r) \in Nat
        BY DEF MovesFrom
    <2>2. StepCost(l, r, c, mv) \in Nat
        BY <2>1, StepCostType
    <2>3. After(c, mv) \in Cells(l, r)
        BY <2>1, AfterIs
    <2>4. f[After(c, mv)] \in Nat
        BY <2>3
    <2> QED BY <2>2, <2>4
<1>3. CASE M = {}
    BY <1>1, <1>3 DEF LeastFrom
<1>4. CASE M # {}
    <2>1. costs \in SUBSET Nat /\ costs # {}
        BY <1>2, <1>4
    <2> DEFINE x == Min(costs)
    <2>2. x \in costs /\ \A y \in costs : x <= y
        <3> HIDE DEF costs
        <3> QED BY <2>1, NatMin
    <2> HIDE DEF x
    <2>3. /\ x \in Nat
          /\ \E mv \in M : x = StepCost(l, r, c, mv) + f[After(c, mv)]
          /\ \A mv \in M : x <= StepCost(l, r, c, mv) + f[After(c, mv)]
        BY <2>1, <2>2
    <2>4. CheapestStep(l, r, f, c) = x
        BY <1>1, <1>4 DEF x
    <2> HIDE DEF costs
    <2> QED BY <1>4, <2>3, <2>4 DEF LeastFrom
<1> QED BY <1>3, <1>4

\* A solution of the recursion of Cheapest.
Solved(l, r, f) == f = [c \in Cells(l, r) |-> CheapestStep(l, r, f, c)]

\* The recursion of Cheapest has a solution.
LEMMA CheapestExists ==
    ASSUME NEW l \in Seq(BlockSet), NEW r \in Seq(BlockSet)
    PROVE  \E f \in [Cells(l, r) -> Nat] : Solved(l, r, f)
<1> DEFINE D == Cells(l, r)
           A == Nat
           n == Len(l) + Len(r)
           m == [c \in D |-> n - (c[1] + c[2])]
           G == [cf \in D \X [D -> A] |-> CheapestStep(l, r, cf[2], cf[1])]
<1>1. Len(l) \in Nat /\ Len(r) \in Nat /\ n \in Nat /\ 0 \in A
    OBVIOUS
<1>2. ASSUME NEW c \in D, NEW mv \in MovesFrom(l, r, c)
      PROVE  After(c, mv) \in D /\ m[After(c, mv)] < m[c]
    <2>1. mv \in MoveSet /\ Fits(l, r, c, mv)
        BY DEF MovesFrom
    <2> DEFINE d == After(c, mv)
    <2>2. d \in D /\ Prior(d, mv) = c
        BY <1>1, <2>1, AfterIs
    <2>3. MoveBack(l, r, d, mv)
        BY <1>1, <2>1, <2>2, MoveBackIs
    <2>4. d[1] \in Nat /\ d[2] \in Nat /\ c[1] + c[2] < d[1] + d[2] /\ c[1] \in Nat /\ c[2] \in Nat
        <3>1. c = <<d[1] - mv[1], d[2] - mv[2]>> /\ (d[1] - mv[1]) + (d[2] - mv[2]) < d[1] + d[2]
            BY <2>2, <2>3 DEF MoveBack
        <3>2. d[1] \in Nat /\ d[2] \in Nat /\ c[1] \in Nat /\ c[2] \in Nat
            BY <2>2 DEF Cells
        <3>3. c[1] = d[1] - mv[1] /\ c[2] = d[2] - mv[2]
            BY <3>1
        <3> HIDE DEF d
        <3> QED BY <3>1, <3>2, <3>3
    <2> HIDE DEF d, D, n
    <2>5. m[d] = n - (d[1] + d[2]) /\ m[c] = n - (c[1] + c[2])
        BY <2>2
    <2> HIDE DEF m
    <2>6. m[d] < m[c]
        BY <1>1, <2>4, <2>5
    <2> QED BY <2>2, <2>6 DEF d
<1>3. ASSUME NEW c \in D, NEW f \in [D -> A] PROVE CheapestStep(l, r, f, c) \in A
    BY CheapestStepIs DEF LeastFrom
<1>4. ASSUME NEW c \in D, NEW f \in [D -> A], NEW g \in [D -> A],
             \A y \in D : m[y] < m[c] => f[y] = g[y]
      PROVE  CheapestStep(l, r, f, c) = CheapestStep(l, r, g, c)
    <2>1. \A mv \in MovesFrom(l, r, c) : f[After(c, mv)] = g[After(c, mv)]
        <3> HIDE DEF D, m, A
        <3> QED BY <1>2, <1>4
    <2> DEFINE F == {mv \in ToSet(Moves) : Fits(l, r, c, mv)}
    <2>2. F = MovesFrom(l, r, c)
        BY MovesAll DEF MovesFrom
    <2> HIDE DEF F
    <2>3. {MoveCost(l, r, c[1], c[2], mv) + f[After(c, mv)] : mv \in F}
            = {MoveCost(l, r, c[1], c[2], mv) + g[After(c, mv)] : mv \in F}
        BY <2>1, <2>2
    <2> QED BY <2>3 DEF CheapestStep, F
<1>5. m \in [D -> 0..n]
    <2>1. \A c \in D : n - (c[1] + c[2]) \in 0..n
        <3>1. \A c \in D : c[1] \in 0..Len(l) /\ c[2] \in 0..Len(r)
            BY DEF Cells
        <3> QED BY <1>1, <3>1
    <2> HIDE DEF D, n
    <2> QED BY <2>1
<1>6. \A c \in D, f \in [D -> A] : G[<<c, f>>] = CheapestStep(l, r, f, c)
    <2> HIDE DEF D, A
    <2> QED OBVIOUS
<1>7. G \in [D \X [D -> A] -> A]
    <2> HIDE DEF D, A
    <2> QED BY <1>3
<1>8. LooksBack(D, A, m, G)
    <2> HIDE DEF D, A, m, G
    <2> QED BY <1>4, <1>6 DEF LooksBack
<1>10. PICK f \in [D -> A] : Solves(D, G, f)
    <2> HIDE DEF D, A, m, G, n
    <2> QED BY <1>1, <1>5, <1>7, <1>8, RecursionExists
<1>11. Solved(l, r, f)
    <2> HIDE DEF D, A, G
    <2>1. f = [c \in D |-> CheapestStep(l, r, f, c)]
        BY <1>6, <1>10 DEF Solves
    <2> QED BY <2>1 DEF Solved, D
<1> QED BY <1>11

\* Any solution of the recursion has values that are numbers: it is the one.
LEMMA CheapestIs ==
    ASSUME NEW l \in Seq(BlockSet), NEW r \in Seq(BlockSet)
    PROVE  \E f \in [Cells(l, r) -> Nat] :
               /\ Cheapest(l, r) = f[<<0, 0>>]
               /\ \A c \in Cells(l, r) : LeastFrom(l, r, f, c, f[c])
<1> DEFINE D == Cells(l, r)
           n == Len(l) + Len(r)
           P(f) == Solved(l, r, f)
           from == CHOOSE f : P(f)
<1>1. Len(l) \in Nat /\ Len(r) \in Nat /\ n \in Nat
    OBVIOUS
<1>2. Cheapest(l, r) = from[<<0, 0>>]
    BY DEF Cheapest, CheapestStep, Solved
<1>3. PICK f \in [D -> Nat] : Solved(l, r, f)
    BY CheapestExists
<1>4. P(from)
    <2>1. \E g : P(g)
        BY <1>3
    <2> HIDE DEF P
    <2> QED BY <2>1
<1> HIDE DEF from
<1>5. from \in [D -> Nat]
    <2> DEFINE S == {k \in 0..n : \A c \in D : n - (c[1] + c[2]) <= k => from[c] = f[c]}
    <2>1. \A c \in D : from[c] = CheapestStep(l, r, from, c) /\ f[c] = CheapestStep(l, r, f, c)
        BY <1>3, <1>4 DEF Solved
    <2>2. \A c \in D : c[1] \in 0..Len(l) /\ c[2] \in 0..Len(r)
        BY DEF Cells
    <2>3. ASSUME NEW c \in D, \A mv \in MovesFrom(l, r, c) : from[After(c, mv)] = f[After(c, mv)]
          PROVE  from[c] = f[c]
        <3> DEFINE F == {mv \in ToSet(Moves) : Fits(l, r, c, mv)}
        <3>1. F = MovesFrom(l, r, c)
            BY MovesAll DEF MovesFrom
        <3> HIDE DEF F
        <3>2. {MoveCost(l, r, c[1], c[2], mv) + f[After(c, mv)] : mv \in F}
                = {MoveCost(l, r, c[1], c[2], mv) + from[After(c, mv)] : mv \in F}
            BY <2>3, <3>1
        <3>3. CheapestStep(l, r, from, c) = CheapestStep(l, r, f, c)
            BY <3>2 DEF CheapestStep, F
        <3> HIDE DEF D
        <3> QED BY <2>1, <3>3
    <2>4. ASSUME NEW c \in D, NEW mv \in MovesFrom(l, r, c)
          PROVE  After(c, mv) \in D /\ n - (After(c, mv)[1] + After(c, mv)[2]) < n - (c[1] + c[2])
        <3>1. mv \in MoveSet /\ Fits(l, r, c, mv)
            BY DEF MovesFrom
        <3>2. After(c, mv) \in D
            BY <1>1, <3>1, AfterIs
        <3> DEFINE u == mv[1]
                   v == mv[2]
                   p == c[1]
                   q == c[2]
        <3>3. u \in Nat /\ v \in Nat /\ u + v > 0
            BY <3>1 DEF MoveSet
        <3>4. After(c, mv)[1] = p + u /\ After(c, mv)[2] = q + v /\ p \in Nat /\ q \in Nat
            BY <2>2 DEF After
        <3> HIDE DEF u, v, p, q, n
        <3>5. n - ((p + u) + (q + v)) < n - (p + q)
            BY <1>1, <3>3, <3>4
        <3> QED BY <3>2, <3>4, <3>5 DEF p, q
    <2>5. 0 \in S
        <3>1. ASSUME NEW c \in D, n - (c[1] + c[2]) <= 0 PROVE from[c] = f[c]
            <4>1. MovesFrom(l, r, c) = {}
                <5>1. ASSUME NEW mv \in MovesFrom(l, r, c) PROVE FALSE
                    <6> DEFINE a == After(c, mv)
                    <6>1. a \in D /\ n - (a[1] + a[2]) < n - (c[1] + c[2])
                        BY <2>4
                    <6>2. a[1] \in 0..Len(l) /\ a[2] \in 0..Len(r) /\ c[1] \in Nat /\ c[2] \in Nat
                        BY <2>2, <6>1
                    <6> DEFINE x == a[1]
                               y == a[2]
                               u == c[1]
                               v == c[2]
                    <6>3. /\ x \in Nat /\ y \in Nat /\ u \in Nat /\ v \in Nat /\ n \in Nat
                          /\ n - (x + y) < n - (u + v) /\ n - (u + v) <= 0 /\ x + y <= n
                        BY <1>1, <3>1, <6>1, <6>2
                    <6> HIDE DEF a, n, x, y, u, v
                    <6> QED BY ONLY <6>3
                <5> QED BY <5>1
            <4> HIDE DEF D, n
            <4> QED BY <2>3, <4>1
        <3> HIDE DEF D
        <3> QED BY <1>1, <3>1
    <2>6. ASSUME NEW k \in 0..n, k < n, k \in S PROVE k + 1 \in S
        <3>1. ASSUME NEW c \in D, n - (c[1] + c[2]) <= k + 1 PROVE from[c] = f[c]
            <4>1. ASSUME NEW mv \in MovesFrom(l, r, c) PROVE from[After(c, mv)] = f[After(c, mv)]
                <5> DEFINE a == After(c, mv)
                <5>1. a \in D /\ n - (a[1] + a[2]) < n - (c[1] + c[2])
                    BY <2>4
                <5>2. a[1] \in Nat /\ a[2] \in Nat /\ c[1] \in Nat /\ c[2] \in Nat
                    <6>1. a \in D /\ c \in D
                        BY ONLY <3>1, <5>1
                    <6> HIDE DEF a, D
                    <6> QED BY ONLY <2>2, <6>1
                <5> HIDE DEF a, D
                <5>3. n - (a[1] + a[2]) <= k
                    <6> DEFINE a1 == a[1]
                               a2 == a[2]
                               c1 == c[1]
                               c2 == c[2]
                               x == a1 + a2
                               u == c1 + c2
                    <6>1. n - x < n - u /\ n - u <= k + 1
                        BY ONLY <3>1, <5>1
                    <6>2. x \in Nat /\ u \in Nat
                        <7>1. a1 \in Nat /\ a2 \in Nat /\ c1 \in Nat /\ c2 \in Nat
                            BY ONLY <5>2
                        <7> HIDE DEF a1, a2, c1, c2
                        <7> QED BY ONLY <7>1
                    <6>3. n \in Nat /\ k \in Nat
                        <7>1. n \in Nat
                            BY ONLY <1>1
                        <7> HIDE DEF n
                        <7> QED BY ONLY <2>6, <7>1
                    <6> HIDE DEF n, x, u
                    <6>4. n - x <= k
                        BY ONLY <6>1, <6>2, <6>3
                    <6> QED BY ONLY <6>4 DEF x
                <5>4. from[a] = f[a]
                    BY <2>6, <5>1, <5>3
                <5> QED BY <5>4 DEF a
            <4> HIDE DEF D, n
            <4> QED BY <2>3, <4>1
        <3>2. k + 1 \in 0..n
            BY <1>1, <2>6
        <3> HIDE DEF D, n
        <3> QED BY <3>1, <3>2
    <2>7. \A k \in 0..n : k \in S
        <3> HIDE DEF S, n
        <3> QED BY <1>1, <2>5, <2>6, BoundedInduction
    <2>8. ASSUME NEW c \in D PROVE from[c] = f[c]
        <3>1. n \in S /\ n - (c[1] + c[2]) <= n
            BY <1>1, <2>2, <2>7
        <3> HIDE DEF D
        <3> QED BY <3>1
    <2>9. from = [c \in D |-> from[c]]
        <3>1. from = [c \in D |-> CheapestStep(l, r, from, c)]
            BY <1>4 DEF Solved
        <3> HIDE DEF D
        <3> QED BY <3>1
    <2> HIDE DEF D
    <2> QED BY <1>3, <2>8, <2>9
<1>6. ASSUME NEW c \in Cells(l, r) PROVE LeastFrom(l, r, from, c, from[c])
    <2>1. from[c] = CheapestStep(l, r, from, c)
        BY <1>4 DEF Solved
    <2>2. LeastFrom(l, r, from, c, CheapestStep(l, r, from, c))
        BY <1>5, CheapestStepIs
    <2> QED BY <2>1, <2>2
<1> QED BY <1>2, <1>5, <1>6

\* What CostTableIs says of the table, cell by cell.
TableWays(l, r, cost, move) ==
    /\ cost \in [Cells(l, r) -> Nat]
    /\ cost[<<0, 0>>] = 0
    /\ \A c \in Cells(l, r) : c # <<0, 0>> =>
           /\ move[c] \in MovesFrom(l, r, Prior(c, move[c])) /\ Prior(c, move[c]) \in Cells(l, r)
           /\ After(Prior(c, move[c]), move[c]) = c
           /\ cost[c] = cost[Prior(c, move[c])] + StepCost(l, r, Prior(c, move[c]), move[c])
    /\ \A c \in Cells(l, r) : \A mv \in MovesFrom(l, r, c) :
           cost[After(c, mv)] <= cost[c] + StepCost(l, r, c, mv)

\* The cost table has a way for each move in it, and no move is cheaper.
LEMMA TableWaysAre ==
    ASSUME NEW l \in Seq(BlockSet), NEW r \in Seq(BlockSet)
    PROVE  TableWays(l, r, CostTable(l, r).cost, CostTable(l, r).move)
<1> DEFINE t == CostTable(l, r)
<1>1. /\ RouteInv(l, r, t, Cells(l, r), WaysOn(l, r, Cells(l, r)))
      /\ \A c \in Cells(l, r) : t.cost[c] \in Nat
    BY CostTableIs
<1> HIDE DEF t
<1>2. t.cost \in [Cells(l, r) -> Nat]
    <2>1. t.cost \in [Cells(l, r) -> Int]
        BY <1>1 DEF RouteInv, Tables
    <2> QED BY <1>1, <2>1
<1>3. ASSUME NEW c \in Cells(l, r), c # <<0, 0>>
      PROVE  /\ t.move[c] \in MovesFrom(l, r, Prior(c, t.move[c])) /\ Prior(c, t.move[c]) \in Cells(l, r)
             /\ After(Prior(c, t.move[c]), t.move[c]) = c
             /\ t.cost[c] = t.cost[Prior(c, t.move[c])] + StepCost(l, r, Prior(c, t.move[c]), t.move[c])
    <2>1. t.cost[c] # Unreached
        <3>1. t.cost[c] \in Nat
            BY <1>1
        <3> QED BY <3>1 DEF Unreached
    <2>2. Arrives(l, r, t, Cells(l, r), c)
        BY <1>1, <1>3, <2>1 DEF RouteInv
    <2> QED BY <2>2 DEF Arrives, MovesFrom
<1>4. ASSUME NEW c \in Cells(l, r), NEW mv \in MovesFrom(l, r, c)
      PROVE  t.cost[After(c, mv)] <= t.cost[c] + StepCost(l, r, c, mv)
    <2>1. mv \in MoveSet /\ Fits(l, r, c, mv) /\ mv \in ToSet(Moves)
        BY MovesAll DEF MovesFrom
    <2>2. \E k \in 1..Len(Moves) : mv = Moves[k]
        BY <2>1, MovesAre DEF ToSet
    <2>3. <<c, mv>> \in WaysOn(l, r, Cells(l, r))
        BY <2>1, <2>2 DEF WaysOn, Edges
    <2>4. Settled(l, r, t, c, mv)
        <3>1. \A e \in WaysOn(l, r, Cells(l, r)) : Settled(l, r, t, e[1], e[2])
            BY <1>1 DEF RouteInv
        <3> QED BY <2>3, <3>1
    <2> QED BY <2>4 DEF Settled
<1>5. t.cost[<<0, 0>>] = 0
    BY <1>1 DEF RouteInv
<1>6. TableWays(l, r, t.cost, t.move)
    BY <1>2, <1>3, <1>4, <1>5 DEF TableWays
<1> QED BY <1>6 DEF t

\* A move leads to a cell that is further on.
LEMMA Further ==
    ASSUME NEW l \in Seq(BlockSet), NEW r \in Seq(BlockSet), NEW c \in Cells(l, r),
           NEW mv \in MovesFrom(l, r, c)
    PROVE  /\ After(c, mv) \in Cells(l, r) /\ c[1] \in Nat /\ c[2] \in Nat
           /\ After(c, mv)[1] \in Nat /\ After(c, mv)[2] \in Nat
           /\ c[1] + c[2] < After(c, mv)[1] + After(c, mv)[2]
           /\ After(c, mv)[1] + After(c, mv)[2] <= Len(l) + Len(r)
           /\ StepCost(l, r, c, mv) \in Nat
<1>1. mv \in MoveSet /\ Fits(l, r, c, mv) /\ Len(l) \in Nat /\ Len(r) \in Nat
    BY DEF MovesFrom
<1>2. After(c, mv) \in Cells(l, r) /\ StepCost(l, r, c, mv) \in Nat
    BY <1>1, AfterIs, StepCostType
<1>3. \A d \in Cells(l, r) : d[1] \in 0..Len(l) /\ d[2] \in 0..Len(r)
    BY DEF Cells
<1> DEFINE u == mv[1]
           v == mv[2]
           p == c[1]
           q == c[2]
           x == After(c, mv)[1]
           y == After(c, mv)[2]
<1>4. u \in Nat /\ v \in Nat /\ u + v > 0
    BY <1>1 DEF MoveSet
<1>5. x = p + u /\ y = q + v
    BY DEF After
<1>6. p \in Nat /\ q \in Nat /\ x \in 0..Len(l) /\ y \in 0..Len(r)
    BY <1>1, <1>2, <1>3
<1> HIDE DEF u, v, p, q, x, y
<1>7. p + q < x + y /\ x + y <= Len(l) + Len(r) /\ x \in Nat /\ y \in Nat
    BY <1>1, <1>4, <1>5, <1>6
<1> QED BY <1>2, <1>6, <1>7 DEF p, q, x, y

\* No way is cheaper than the cheapest: the table has no less for a cell than what is
\* cheapest, without what is cheapest from there.
LEMMA TableNotBelow ==
    ASSUME NEW l \in Seq(BlockSet), NEW r \in Seq(BlockSet), NEW cost, NEW move,
           TableWays(l, r, cost, move), NEW f \in [Cells(l, r) -> Nat],
           \A c \in Cells(l, r) : LeastFrom(l, r, f, c, f[c])
    PROVE  \A c \in Cells(l, r) : f[<<0, 0>>] <= cost[c] + f[c]
<1> DEFINE D == Cells(l, r)
           n == Len(l) + Len(r)
           first == f[<<0, 0>>]
           Holds(c) == first <= cost[c] + f[c]
           S == {k \in 0..n : \A c \in D : c[1] + c[2] <= k => Holds(c)}
<1>1. /\ Len(l) \in Nat /\ Len(r) \in Nat /\ n \in Nat
      /\ \A c \in D : c[1] \in 0..Len(l) /\ c[2] \in 0..Len(r) /\ c = <<c[1], c[2]>>
      /\ <<0, 0>> \in D
    BY DEF Cells
<1>2. \A c \in D : cost[c] \in Nat /\ f[c] \in Nat
    BY DEF TableWays
<1>3. Holds(<<0, 0>>)
    <2>1. cost[<<0, 0>>] = 0 /\ f[<<0, 0>>] \in Nat
        BY <1>1, <1>2 DEF TableWays
    <2> HIDE DEF D
    <2> QED BY <2>1
<1>4. ASSUME NEW c \in D, c # <<0, 0>>
      PROVE  \E p \in D : p[1] + p[2] < c[1] + c[2] /\ (Holds(p) => Holds(c))
    <2> DEFINE mv == move[c]
               p == Prior(c, mv)
               s == StepCost(l, r, p, mv)
    <2>1. mv \in MovesFrom(l, r, p) /\ p \in D /\ After(p, mv) = c /\ cost[c] = cost[p] + s
        BY <1>4 DEF TableWays
    <2> HIDE DEF mv, p
    <2>2. p[1] + p[2] < c[1] + c[2] /\ s \in Nat
        BY <2>1, Further
    <2>3. f[p] <= s + f[c]
        <3>1. LeastFrom(l, r, f, p, f[p])
            BY <2>1
        <3>2. f[p] <= StepCost(l, r, p, mv) + f[After(p, mv)]
            BY <2>1, <3>1 DEF LeastFrom
        <3> QED BY <2>1, <3>2
    <2> HIDE DEF s
    <2>4. Holds(p) => Holds(c)
        <3> DEFINE a == cost[p]
                   b == f[p]
                   d == f[c]
        <3>1. a \in Nat /\ b \in Nat /\ d \in Nat /\ first \in Nat
            BY <1>1, <1>2, <2>1
        <3>2. cost[c] = a + s /\ b <= s + d
            BY <2>1, <2>3
        <3> HIDE DEF a, b, d, first
        <3>3. first <= a + b => first <= (a + s) + d
            BY <2>2, <3>1, <3>2
        <3> QED BY <3>2, <3>3 DEF a, b, d
    <2> HIDE DEF Holds
    <2> QED BY <2>1, <2>2, <2>4
<1> HIDE DEF Holds
<1>5. 0 \in S
    <2>1. ASSUME NEW c \in D, c[1] + c[2] <= 0 PROVE Holds(c)
        <3>1. c[1] = 0 /\ c[2] = 0
            BY <1>1, <2>1
        <3>2. c = <<0, 0>>
            BY <1>1, <3>1
        <3> QED BY <1>3, <3>2
    <2> HIDE DEF D
    <2> QED BY <1>1, <2>1
<1>6. ASSUME NEW k \in 0..n, k < n, k \in S PROVE k + 1 \in S
    <2>1. ASSUME NEW c \in D, c[1] + c[2] <= k + 1 PROVE Holds(c)
        <3>1. CASE c = <<0, 0>>
            BY <1>3, <3>1
        <3>2. CASE c # <<0, 0>>
            <4>1. PICK p \in D : p[1] + p[2] < c[1] + c[2] /\ (Holds(p) => Holds(c))
                BY <1>4, <3>2
            <4>2. p[1] \in Nat /\ p[2] \in Nat /\ c[1] \in Nat /\ c[2] \in Nat
                BY <1>1
            <4> HIDE DEF D
            <4>3. p[1] + p[2] <= k
                BY <1>1, <2>1, <4>1, <4>2
            <4> QED BY <1>6, <4>1, <4>3
        <3> QED BY <3>1, <3>2
    <2>2. k + 1 \in 0..n
        BY <1>1, <1>6
    <2> HIDE DEF D, n
    <2> QED BY <2>1, <2>2
<1>7. \A k \in 0..n : k \in S
    <2> HIDE DEF S, n
    <2> QED BY <1>1, <1>5, <1>6, BoundedInduction
<1>8. ASSUME NEW c \in D PROVE Holds(c)
    <2>1. n \in S
        <3> HIDE DEF S, n
        <3> QED BY <1>1, <1>7
    <2>2. c[1] + c[2] <= n
        <3>1. c[1] \in 0..Len(l) /\ c[2] \in 0..Len(r)
            BY <1>1
        <3> QED BY <1>1, <3>1
    <2> HIDE DEF D, n
    <2> QED BY <2>1, <2>2
<1> QED BY <1>8 DEF Holds

\* The table is not dearer: to the end it has no more than for a cell and what is
\* cheapest from there.
LEMMA TableNotAbove ==
    ASSUME NEW l \in Seq(BlockSet), NEW r \in Seq(BlockSet), NEW cost, NEW move,
           TableWays(l, r, cost, move), NEW f \in [Cells(l, r) -> Nat],
           \A c \in Cells(l, r) : LeastFrom(l, r, f, c, f[c])
    PROVE  \A c \in Cells(l, r) : cost[<<Len(l), Len(r)>>] <= cost[c] + f[c]
<1> DEFINE D == Cells(l, r)
           n == Len(l) + Len(r)
           end == <<Len(l), Len(r)>>
           total == cost[end]
           Holds(c) == total <= cost[c] + f[c]
           S == {k \in 0..n : \A c \in D : n - (c[1] + c[2]) <= k => Holds(c)}
<1>1. /\ Len(l) \in Nat /\ Len(r) \in Nat /\ n \in Nat
      /\ \A c \in D : c[1] \in 0..Len(l) /\ c[2] \in 0..Len(r) /\ c = <<c[1], c[2]>>
      /\ end \in D
    BY DEF Cells
<1>2. \A c \in D : cost[c] \in Nat /\ f[c] \in Nat
    BY DEF TableWays
<1>3. Holds(end)
    <2>1. cost[end] \in Nat /\ f[end] \in Nat
        BY <1>1, <1>2
    <2> HIDE DEF D, end
    <2> QED BY <2>1
<1>4. ASSUME NEW c \in D, c # end
      PROVE  \E p \in D : c[1] + c[2] < p[1] + p[2] /\ (Holds(p) => Holds(c))
    <2>1. MovesFrom(l, r, c) # {}
        <3>1. CASE c[1] < Len(l)
            <4> DEFINE mv == <<1, 0>>
            <4>1. mv \in MoveSet /\ mv[1] = 1 /\ mv[2] = 0
                BY DEF MoveSet
            <4>2. Fits(l, r, c, mv)
                BY <1>1, <3>1, <4>1 DEF Fits
            <4> QED BY <4>1, <4>2 DEF MovesFrom
        <3>2. CASE ~(c[1] < Len(l))
            <4> DEFINE mv == <<0, 1>>
            <4>1. mv \in MoveSet /\ mv[1] = 0 /\ mv[2] = 1
                BY DEF MoveSet
            <4>2. c[1] = Len(l) /\ c[2] # Len(r)
                BY <1>1, <1>4, <3>2
            <4>3. Fits(l, r, c, mv)
                BY <1>1, <4>1, <4>2 DEF Fits
            <4> QED BY <4>1, <4>3 DEF MovesFrom
        <3> QED BY <3>1, <3>2
    <2>2. LeastFrom(l, r, f, c, f[c])
        OBVIOUS
    <2>3. PICK mv \in MovesFrom(l, r, c) : f[c] = StepCost(l, r, c, mv) + f[After(c, mv)]
        BY <2>1, <2>2 DEF LeastFrom
    <2> DEFINE p == After(c, mv)
               s == StepCost(l, r, c, mv)
    <2>4. p \in D /\ c[1] + c[2] < p[1] + p[2] /\ s \in Nat
        BY Further
    <2>5. cost[p] <= cost[c] + s
        BY DEF TableWays
    <2>6. f[c] = s + f[p]
        BY <2>3
    <2> HIDE DEF p, s
    <2>7. Holds(p) => Holds(c)
        <3> DEFINE a == cost[p]
                   b == cost[c]
                   d == f[p]
        <3>1. a \in Nat /\ b \in Nat /\ d \in Nat /\ total \in Nat
            BY <1>1, <1>2, <2>4
        <3>2. a <= b + s
            BY <2>5
        <3> HIDE DEF a, b, d, total
        <3>3. total <= a + d => total <= b + (s + d)
            BY <2>4, <3>1, <3>2
        <3> QED BY <2>6, <3>3 DEF a, b, d
    <2> HIDE DEF Holds
    <2> QED BY <2>4, <2>7
<1> HIDE DEF Holds
<1>5. 0 \in S
    <2>1. ASSUME NEW c \in D, n - (c[1] + c[2]) <= 0 PROVE Holds(c)
        <3>1. c[1] = Len(l) /\ c[2] = Len(r)
            BY <1>1, <2>1
        <3>2. c = end
            BY <1>1, <3>1
        <3> QED BY <1>3, <3>2
    <2> HIDE DEF D
    <2> QED BY <1>1, <2>1
<1>6. ASSUME NEW k \in 0..n, k < n, k \in S PROVE k + 1 \in S
    <2>1. ASSUME NEW c \in D, n - (c[1] + c[2]) <= k + 1 PROVE Holds(c)
        <3>1. CASE c = end
            BY <1>3, <3>1
        <3>2. CASE c # end
            <4>1. PICK p \in D : c[1] + c[2] < p[1] + p[2] /\ (Holds(p) => Holds(c))
                BY <1>4, <3>2
            <4>2. p[1] \in Nat /\ p[2] \in Nat /\ c[1] \in Nat /\ c[2] \in Nat
                BY <1>1
            <4> HIDE DEF D, n
            <4>3. n - (p[1] + p[2]) <= k
                BY <1>1, <2>1, <4>1, <4>2
            <4> QED BY <1>6, <4>1, <4>3
        <3> QED BY <3>1, <3>2
    <2>2. k + 1 \in 0..n
        BY <1>1, <1>6
    <2> HIDE DEF D, n
    <2> QED BY <2>1, <2>2
<1>7. \A k \in 0..n : k \in S
    <2> HIDE DEF S, n
    <2> QED BY <1>1, <1>5, <1>6, BoundedInduction
<1>8. ASSUME NEW c \in D PROVE Holds(c)
    <2>1. n \in S
        <3> HIDE DEF S, n
        <3> QED BY <1>1, <1>7
    <2>2. n - (c[1] + c[2]) <= n
        <3>1. c[1] \in 0..Len(l) /\ c[2] \in 0..Len(r)
            BY <1>1
        <3> QED BY <1>1, <3>1
    <2> HIDE DEF D, n
    <2> QED BY <2>1, <2>2
<1> QED BY <1>8 DEF Holds

\* The cost of the last cell is the cheapest there is.
LEMMA TableIsCheapest ==
    ASSUME NEW l \in Seq(BlockSet), NEW r \in Seq(BlockSet)
    PROVE  CostTable(l, r).cost[<<Len(l), Len(r)>>] = Cheapest(l, r)
<1> DEFINE cost == CostTable(l, r).cost
           move == CostTable(l, r).move
           end == <<Len(l), Len(r)>>
           z == <<0, 0>>
<1>1. TableWays(l, r, cost, move)
    BY TableWaysAre
<1> HIDE DEF cost, move
<1>2. PICK f \in [Cells(l, r) -> Nat] : /\ Cheapest(l, r) = f[<<0, 0>>]
                                        /\ \A c \in Cells(l, r) : LeastFrom(l, r, f, c, f[c])
    BY CheapestIs
<1>3. z \in Cells(l, r) /\ end \in Cells(l, r) /\ Len(l) \in Nat /\ Len(r) \in Nat
    BY DEF Cells
<1>4. f[z] <= cost[end] + f[end]
    BY <1>1, <1>2, <1>3, TableNotBelow
<1>5. cost[end] <= cost[z] + f[z]
    BY <1>1, <1>2, <1>3, TableNotAbove
<1>6. f[end] = 0
    <2>1. ASSUME NEW mv \in MovesFrom(l, r, end) PROVE FALSE
        <3>1. end[1] = Len(l) /\ end[2] = Len(r)
            OBVIOUS
        <3>2. /\ end[1] + end[2] < After(end, mv)[1] + After(end, mv)[2]
              /\ After(end, mv)[1] + After(end, mv)[2] <= Len(l) + Len(r)
              /\ After(end, mv)[1] \in Nat /\ After(end, mv)[2] \in Nat
            <4> HIDE DEF end
            <4> QED BY <1>3, Further
        <3> HIDE DEF end
        <3> QED BY <1>3, <3>1, <3>2
    <2>2. MovesFrom(l, r, end) = {}
        BY <2>1
    <2>3. LeastFrom(l, r, f, end, f[end])
        BY <1>2, <1>3
    <2> QED BY <2>2, <2>3 DEF LeastFrom
<1>7. cost[z] = 0 /\ cost[end] \in Nat /\ f[z] \in Nat
    BY <1>1, <1>2, <1>3 DEF TableWays
<1> HIDE DEF z, end
<1>8. cost[end] = f[z]
    BY <1>4, <1>5, <1>6, <1>7
<1> QED BY <1>2, <1>8 DEF cost, end, z

\* One turn of AlignmentCost.
CostTurn(l, r, acc, p) ==
    LET mv == <<Len(p.file1), Len(p.file2)>>
    IN  [i |-> acc.i + mv[1], j |-> acc.j + mv[2],
         cost |-> acc.cost + MoveCost(l, r, acc.i, acc.j, mv)]

\* AlignmentCost before the first pair.
CostStart == [i |-> 0, j |-> 0, cost |-> 0]

\* The turns of AlignmentCost.
CostLoop(l, r, ps, f) ==
    f = [n \in 0..Len(ps) |-> IF n = 0 THEN CostStart ELSE CostTurn(l, r, f[n - 1], ps[n])]

\* The pairs ps lead to the cell c at the cost x.
CostsTo(l, r, ps, c, x) ==
    \E f : CostLoop(l, r, ps, f) /\ f[Len(ps)] = [i |-> c[1], j |-> c[2], cost |-> x]

\* No pair costs nothing.
LEMMA CostsNothing ==
    ASSUME NEW l, NEW r, NEW c, c[1] = 0, c[2] = 0
    PROVE  CostsTo(l, r, <<>>, c, 0)
<1> DEFINE f == [n \in 0..0 |-> CostStart]
<1>1. Len(<<>>) = 0
    OBVIOUS
<1>2. f = [n \in 0..0 |-> IF n = 0 THEN CostStart ELSE CostTurn(l, r, f[n - 1], <<>>[n])]
    OBVIOUS
<1>3. f[0] = CostStart
    OBVIOUS
<1> HIDE DEF f
<1>4. CostLoop(l, r, <<>>, f) /\ f[Len(<<>>)] = [i |-> c[1], j |-> c[2], cost |-> 0]
    BY <1>1, <1>2, <1>3 DEF CostLoop, CostStart
<1> QED BY <1>4 DEF CostsTo

\* One more pair costs its move more.
LEMMA CostsMore ==
    ASSUME NEW l, NEW r, NEW T, NEW ps \in Seq(T), NEW p \in T, NEW c, NEW x, CostsTo(l, r, ps, c, x),
           NEW d, NEW y,
           CostTurn(l, r, [i |-> c[1], j |-> c[2], cost |-> x], p) = [i |-> d[1], j |-> d[2], cost |-> y]
    PROVE  CostsTo(l, r, Append(ps, p), d, y)
<1> DEFINE n == Len(ps)
           qs == Append(ps, p)
<1>1. PICK f : CostLoop(l, r, ps, f) /\ f[n] = [i |-> c[1], j |-> c[2], cost |-> x]
    BY DEF CostsTo
<1>2. n \in Nat /\ Len(qs) = n + 1 /\ qs[n + 1] = p /\ \A k \in 1..n : qs[k] = ps[k]
    OBVIOUS
<1> DEFINE g == [k \in 0..(n + 1) |-> IF k <= n THEN f[k] ELSE CostTurn(l, r, f[n], p)]
<1> HIDE DEF qs
<1>3. \A k \in 0..n : f[k] = IF k = 0 THEN CostStart ELSE CostTurn(l, r, f[k - 1], ps[k])
    BY <1>1 DEF CostLoop
<1> HIDE DEF n
<1>4. ASSUME NEW k \in 0..(n + 1)
      PROVE  g[k] = IF k = 0 THEN CostStart ELSE CostTurn(l, r, g[k - 1], qs[k])
    <2>1. CASE k = 0
        <3>1. 0 \in 0..n /\ g[0] = f[0]
            BY <1>2
        <3> QED BY <1>3, <2>1, <3>1
    <2>2. CASE k # 0 /\ k <= n
        <3>1. k \in 0..n /\ k \in 1..n /\ k - 1 \in 0..(n + 1) /\ k - 1 <= n
            BY <1>2, <2>2
        <3>2. g[k] = f[k] /\ g[k - 1] = f[k - 1] /\ qs[k] = ps[k]
            BY <1>2, <2>2, <3>1
        <3> HIDE DEF g
        <3>3. f[k] = CostTurn(l, r, f[k - 1], ps[k])
            BY <1>3, <2>2, <3>1
        <3> QED BY <2>2, <3>2, <3>3
    <2>3. CASE k # 0 /\ ~(k <= n)
        <3>1. k = n + 1 /\ k - 1 = n /\ n \in 0..(n + 1) /\ n <= n
            BY <1>2, <2>3
        <3>2. g[k] = CostTurn(l, r, f[n], p) /\ g[n] = f[n]
            BY <1>2, <2>3, <3>1
        <3> HIDE DEF g
        <3> QED BY <1>2, <2>3, <3>1, <3>2
    <2> QED BY <2>1, <2>2, <2>3
<1>5. g[n + 1] = CostTurn(l, r, f[n], p)
    <2>1. n + 1 \in 0..(n + 1) /\ ~(n + 1 <= n)
        BY <1>2
    <2> QED BY <2>1
<1>6. g = [k \in 0..(n + 1) |-> g[k]]
    OBVIOUS
<1> HIDE DEF g
<1>7. g = [k \in 0..(n + 1) |-> IF k = 0 THEN CostStart ELSE CostTurn(l, r, g[k - 1], qs[k])]
    BY <1>4, <1>6
<1>8. CostLoop(l, r, qs, g)
    BY <1>2, <1>7 DEF CostLoop
<1>9. g[Len(qs)] = [i |-> d[1], j |-> d[2], cost |-> y]
    BY <1>1, <1>2, <1>5
<1> QED BY <1>8, <1>9 DEF CostsTo, qs

\* AlignmentCost as a loop over the pairs.
LEMMA AlignmentCostIs ==
    ASSUME NEW l, NEW r, NEW T, NEW ps \in Seq(T), NEW c, NEW x, CostsTo(l, r, ps, c, x)
    PROVE  AlignmentCost(l, r, ps) = x
<1> DEFINE n == Len(ps)
           P(f) == CostLoop(l, r, ps, f)
           upto == CHOOSE f : P(f)
<1>1. AlignmentCost(l, r, ps) = upto[n].cost
    BY DEF AlignmentCost, CostLoop, CostTurn, CostStart
<1>2. PICK f : CostLoop(l, r, ps, f) /\ f[n] = [i |-> c[1], j |-> c[2], cost |-> x]
    BY DEF CostsTo
<1>3. P(upto)
    <2>1. P(f)
        BY <1>2
    <2> HIDE DEF P
    <2> QED BY <2>1
<1>4. n \in Nat
    OBVIOUS
<1> HIDE DEF upto
<1>5. /\ \A k \in 0..n : f[k] = IF k = 0 THEN CostStart ELSE CostTurn(l, r, f[k - 1], ps[k])
      /\ \A k \in 0..n : upto[k] = IF k = 0 THEN CostStart ELSE CostTurn(l, r, upto[k - 1], ps[k])
    BY <1>2, <1>3 DEF CostLoop
<1> HIDE DEF n
<1> DEFINE S == {k \in 0..n : f[k] = upto[k]}
<1>6. 0 \in S
    <2>1. 0 \in 0..n
        BY <1>4
    <2> QED BY <1>5, <2>1
<1>7. ASSUME NEW k \in 0..n, k < n, k \in S PROVE k + 1 \in S
    <2>1. k + 1 \in 0..n /\ k + 1 # 0 /\ (k + 1) - 1 = k
        BY <1>4, <1>7
    <2>2. f[k + 1] = CostTurn(l, r, f[k], ps[k + 1]) /\ upto[k + 1] = CostTurn(l, r, upto[k], ps[k + 1])
        BY <1>5, <2>1
    <2> QED BY <1>7, <2>1, <2>2
<1>8. \A k \in 0..n : k \in S
    <2> HIDE DEF S
    <2> QED BY <1>4, <1>6, <1>7, BoundedInduction
<1>9. f[n] = upto[n]
    <2>1. n \in 0..n
        BY <1>4
    <2> QED BY <1>8, <2>1
<1> QED BY <1>1, <1>2, <1>9

\* The pairs that the table leads to cost what it has for the end.
LEMMA TraceCosts ==
    ASSUME NEW l \in Seq(BlockSet), NEW r \in Seq(BlockSet)
    PROVE  AlignmentCost(l, r, AlignChangedRange(l, r)) = CostTable(l, r).cost[<<Len(l), Len(r)>>]
<1> DEFINE cost == CostTable(l, r).cost
           move == CostTable(l, r).move
           end == <<Len(l), Len(r)>>
           z == <<0, 0>>
           Good == {way \in Seq(PairSet) \X Cells(l, r) : CostsTo(l, r, way[1], way[2], cost[way[2]])}
<1>1. TableWays(l, r, cost, move) /\ AlignChangedRange(l, r) = Trace(l, r, move)
    BY TableWaysAre DEF AlignChangedRange
<1> HIDE DEF cost, move
<1>2. Len(l) \in Nat /\ Len(r) \in Nat /\ z \in Cells(l, r) /\ end \in Cells(l, r)
    BY DEF Cells
<1>3. ASSUME NEW c \in Cells(l, r), c # z
      PROVE  /\ move[c] \in MoveSet /\ Prior(c, move[c]) \in Cells(l, r)
             /\ cost[c] = cost[Prior(c, move[c])] + StepCost(l, r, Prior(c, move[c]), move[c])
    BY <1>1, <1>3 DEF TableWays, MovesFrom
<1>4. WaysBack(l, r, move)
    BY <1>3 DEF WaysBack
<1>5. << <<>>, z >> \in Good
    <2>1. cost[z] = 0
        BY <1>1 DEF TableWays
    <2>2. z[1] = 0 /\ z[2] = 0
        OBVIOUS
    <2> HIDE DEF z
    <2>3. CostsTo(l, r, <<>>, z, 0)
        BY <2>2, CostsNothing
    <2>4. <<>> \in Seq(PairSet)
        OBVIOUS
    <2> QED BY <1>2, <2>1, <2>3, <2>4
<1>6. ASSUME NEW c \in Cells(l, r), NEW ps \in Seq(PairSet), c # z,
             <<ps, Prior(c, move[c])>> \in Good
      PROVE  <<Append(ps, MovePair(l, r, c, move[c])), c>> \in Good
    <2> DEFINE mv == move[c]
               p == Prior(c, mv)
               a == c[1] - mv[1]
               b == c[2] - mv[2]
               m == MovePair(l, r, c, mv)
               u == mv[1]
               v == mv[2]
    <2>1. mv \in MoveSet /\ p \in Cells(l, r) /\ cost[c] = cost[p] + StepCost(l, r, p, mv)
        BY <1>3, <1>6
    <2>2. MoveBack(l, r, c, mv)
        BY <1>2, <2>1, MoveBackIs
    <2>3. m \in PairSet /\ m.file1 = SubSeq(l, a + 1, c[1]) /\ m.file2 = SubSeq(r, b + 1, c[2])
        BY <2>2, MovePairType
    <2>4. /\ p = <<a, b>> /\ a \in 0..Len(l) /\ c[1] \in 0..Len(l) /\ a <= c[1]
          /\ b \in 0..Len(r) /\ c[2] \in 0..Len(r) /\ b <= c[2]
          /\ u \in Nat /\ v \in Nat
        BY <2>2 DEF MoveBack
    <2>5. mv = <<u, v>>
        BY <2>1 DEF MoveSet
    <2>6. CostsTo(l, r, ps, p, cost[p])
        BY <1>6
    <2>7. a = c[1] - u /\ b = c[2] - v
        OBVIOUS
    <2> HIDE DEF mv, a, b, m, p, u, v
    <2>8. Len(m.file1) = c[1] - a /\ Len(m.file2) = c[2] - b
        <3> DEFINE x == c[1]
                   y == c[2]
        <3>1. a \in 0..Len(l) /\ x \in 0..Len(l) /\ a <= x /\ b \in 0..Len(r) /\ y \in 0..Len(r) /\ b <= y
            BY <2>4
        <3>2. m.file1 = SubSeq(l, a + 1, x) /\ m.file2 = SubSeq(r, b + 1, y)
            BY <2>3
        <3> HIDE DEF x, y
        <3>3. Len(SubSeq(l, a + 1, x)) = x - a
            BY <3>1, PartType
        <3>4. Len(SubSeq(r, b + 1, y)) = y - b
            BY <3>1, PartType
        <3> QED BY <3>2, <3>3, <3>4 DEF x, y
    <2>9. c[1] - a = u /\ c[2] - b = v /\ a + u = c[1] /\ b + v = c[2]
        <3> DEFINE x == c[1]
                   y == c[2]
        <3>1. a = x - u /\ b = y - v /\ x \in 0..Len(l) /\ y \in 0..Len(r) /\ u \in Nat /\ v \in Nat
            BY <2>4, <2>7
        <3>2. x \in Int /\ y \in Int
            BY <3>1
        <3> HIDE DEF x, y
        <3>3. x - a = u /\ y - b = v /\ a + u = x /\ b + v = y
            BY <3>1, <3>2
        <3> QED BY <3>3 DEF x, y
    <2>10. p[1] = a /\ p[2] = b
        BY <2>4
    <2>11. CostTurn(l, r, [i |-> p[1], j |-> p[2], cost |-> cost[p]], m)
             = [i |-> c[1], j |-> c[2], cost |-> cost[c]]
        <3> DEFINE acc == [i |-> p[1], j |-> p[2], cost |-> cost[p]]
        <3>1. acc.i = a /\ acc.j = b /\ acc.cost = cost[p]
            BY <2>10
        <3> HIDE DEF acc
        <3>2. CostTurn(l, r, acc, m) = [i |-> a + u, j |-> b + v, cost |-> cost[p] + MoveCost(l, r, a, b, mv)]
            BY <2>5, <2>8, <2>9, <3>1 DEF CostTurn
        <3>3. StepCost(l, r, p, mv) = MoveCost(l, r, a, b, mv)
            BY <2>10 DEF StepCost
        <3> QED BY <2>1, <2>9, <3>2, <3>3 DEF acc
    <2>12. CostsTo(l, r, Append(ps, m), c, cost[c])
        BY <2>3, <2>6, <2>11, CostsMore
    <2>13. Append(ps, m) \in Seq(PairSet)
        BY <2>3
    <2>14. <<Append(ps, m), c>> \in Good
        BY <2>12, <2>13
    <2> QED BY <2>14 DEF m, mv
<1> HIDE DEF Good
<1>7. Carried(l, r, move, Good)
    BY <1>5, <1>6 DEF Carried
<1>8. Trace(l, r, move) \in Seq(PairSet) /\ <<Trace(l, r, move), end>> \in Good
    BY <1>4, <1>7, TraceInduction
<1>9. CostsTo(l, r, Trace(l, r, move), end, cost[end])
    BY <1>8 DEF Good
<1>10. AlignmentCost(l, r, Trace(l, r, move)) = cost[end]
    <2> HIDE DEF end
    <2> QED BY <1>8, <1>9, AlignmentCostIs
<1> QED BY <1>1, <1>10 DEF cost, end

=============================================================================
