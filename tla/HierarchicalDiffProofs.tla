----------------------- MODULE HierarchicalDiffProofs -----------------------
(***************************************************************************)
(* Proofs about HierarchicalDiff, for any two documents and limits:        *)
(* cutting a text loses no character, the blocks and the candidates        *)
(* explain the change and the batches keep them all, in order.             *)
(***************************************************************************)
EXTENDS AlignmentProofs

-----------------------------------------------------------------------------
(* Batches *)

\* A candidate, as far as batches tell them apart.
CandidateSet == [i1 : Nat, i2 : Nat, j1 : Nat, j2 : Nat, size : Nat]

\* The turns of the sum of the sizes.
WeightLoop(cs, acc) ==
    /\ acc[0] = 0
    /\ \A k \in 0..Len(cs) : k < Len(cs) => acc[k + 1] = acc[k] + cs[k + 1].size

\* Weight as a loop.
LEMMA WeightExists ==
    ASSUME NEW cs \in Seq(CandidateSet)
    PROVE  \E acc \in [0..Len(cs) -> Int] : WeightLoop(cs, acc) /\ Weight(cs) = acc[Len(cs)]
<1> DEFINE n == Len(cs)
           A == Int
           base == 0
           step == [xk \in A \X (1..n) |-> xk[1] + cs[xk[2]].size]
           P(f) == f = [z \in SUBSET (DOMAIN cs) |->
                           IF z = {} THEN base ELSE f[z \ {Max(z)}] + cs[Max(z)].size]
           it == CHOOSE f : P(f)
<1>1. n \in Nat /\ DOMAIN cs = 1..n /\ \A k \in 1..n : cs[k] \in CandidateSet
    OBVIOUS
<1>2. \A x \in A, k \in 1..n : step[<<x, k>>] = x + cs[k].size
    OBVIOUS
<1>3. step \in [A \X (1..n) -> A] /\ base \in A
    <2>1. \A c \in CandidateSet : c.size \in Int
        BY DEF CandidateSet
    <2> QED BY <1>1, <2>1
<1> HIDE DEF A, base, step, n
<1>4. ASSUME NEW f \in [SUBSET (1..n) -> A], Folds(base, n, step, f)
      PROVE  FoldsIn(A, base, n, step, it)
    <2>1. P(f)
        BY <1>1, <1>2, <1>4, LastOff DEF Folds
    <2>2. P(it)
        <3> HIDE DEF P
        <3> QED BY <2>1
    <2> HIDE DEF it
    <2> QED BY <1>1, <1>2, <2>2, LastOff DEF FoldsIn
<1>5. PICK acc \in [0..n -> A] : LoopOf(base, n, step, it, acc)
    <2> HIDE DEF it
    <2> QED BY <1>1, <1>3, <1>4, FoldLoop
<1>6. Weight(cs) = it[1..n]
    BY <1>1 DEF Weight, FoldLeft, MapThenFoldSet, base
<1> HIDE DEF it
<1>7. ASSUME NEW k \in 0..n, k < n PROVE acc[k + 1] = acc[k] + cs[k + 1].size
    <2>1. acc[k] \in A /\ k + 1 \in 1..n
        BY <1>1, <1>7
    <2> QED BY <1>2, <1>5, <1>7, <2>1 DEF LoopOf, Turns
<1> QED BY <1>5, <1>6, <1>7 DEF LoopOf, Turns, WeightLoop, n, A, base

\* One more candidate makes a batch larger by its size.
LEMMA WeightAppend ==
    ASSUME NEW cs \in Seq(CandidateSet), NEW c \in CandidateSet
    PROVE  Weight(Append(cs, c)) = Weight(cs) + c.size /\ Weight(cs) \in Int
<1> DEFINE n == Len(cs)
           ds == Append(cs, c)
<1>1. /\ n \in Nat /\ Len(ds) = n + 1 /\ ds \in Seq(CandidateSet)
      /\ ds[n + 1] = c /\ \A k \in 1..n : ds[k] = cs[k]
    OBVIOUS
<1> HIDE DEF ds
<1>2. PICK f \in [0..n -> Int] : WeightLoop(cs, f) /\ Weight(cs) = f[n]
    BY WeightExists
<1>3. PICK g \in [0..(n + 1) -> Int] : WeightLoop(ds, g) /\ Weight(ds) = g[n + 1]
    BY <1>1, WeightExists
<1> DEFINE S == {k \in 0..n : f[k] = g[k]}
<1>4. \A k \in 0..n : k \in S
    <2>1. 0 \in S
        BY <1>1, <1>2, <1>3 DEF WeightLoop
    <2>2. ASSUME NEW k \in 0..n, k < n, k \in S PROVE k + 1 \in S
        <3>1. k + 1 \in 1..n /\ k \in 0..(n + 1) /\ k < n + 1
            BY <1>1, <2>2
        <3>2. f[k + 1] = f[k] + cs[k + 1].size /\ g[k + 1] = g[k] + ds[k + 1].size
            BY <1>1, <1>2, <1>3, <2>2, <3>1 DEF WeightLoop
        <3> QED BY <1>1, <2>2, <3>1, <3>2
    <2> HIDE DEF S, n
    <2> QED BY <1>1, <2>1, <2>2, BoundedInduction
<1>5. n \in 0..(n + 1) /\ n < n + 1 /\ n \in 0..n
    BY <1>1
<1>6. g[n + 1] = g[n] + c.size /\ f[n] = g[n]
    BY <1>1, <1>3, <1>4, <1>5 DEF WeightLoop
<1> QED BY <1>2, <1>3, <1>5, <1>6 DEF ds

\* A batch of one.
LEMMA WeightOne ==
    ASSUME NEW c \in CandidateSet PROVE Weight(<<c>>) = c.size
<1>1. <<>> \in Seq(CandidateSet) /\ Len(<<>>) = 0 /\ Append(<<>>, c) = <<c>>
    OBVIOUS
<1>2. Weight(<<>>) = 0
    BY <1>1, WeightExists DEF WeightLoop
<1>3. c.size \in Int
    BY DEF CandidateSet
<1>4. Weight(Append(<<>>, c)) = Weight(<<>>) + c.size
    BY ONLY <1>1, c \in CandidateSet, WeightAppend
<1> QED BY <1>1, <1>2, <1>3, <1>4

\* A sequence cut in pieces, the last of them at hand.
Cuts(T) == [done : Seq(Seq(T)), current : Seq(T)]

\* The turns over the candidates.
BatchLoop(cs, acc) ==
    /\ acc[0] = Cut(<<>>, <<>>)
    /\ \A k \in 0..Len(cs) : k < Len(cs) => acc[k + 1] = AddToBatch(acc[k], cs[k + 1])

\* A candidate more leaves a sequence cut in pieces.
LEMMA AddToBatchType ==
    ASSUME NEW T, NEW acc \in Cuts(T), NEW c \in T PROVE AddToBatch(acc, c) \in Cuts(T)
<1>1. /\ Append(acc.done, acc.current) \in Seq(Seq(T)) /\ <<c>> \in Seq(T)
      /\ Append(acc.current, c) \in Seq(T) /\ acc.done \in Seq(Seq(T))
    BY DEF Cuts
<1> QED BY <1>1 DEF AddToBatch, Cuts, Cut

\* Batch as a loop over the candidates.
LEMMA BatchExists ==
    ASSUME NEW cs \in Seq(CandidateSet)
    PROVE  \E acc \in [0..Len(cs) -> Cuts(CandidateSet)] :
               BatchLoop(cs, acc) /\ Batch(cs) = Pieces(acc[Len(cs)])
<1> DEFINE n == Len(cs)
           A == Cuts(CandidateSet)
           base == Cut(<<>>, <<>>)
           step == [xk \in A \X (1..n) |-> AddToBatch(xk[1], cs[xk[2]])]
           P(f) == f = [z \in SUBSET (DOMAIN cs) |->
                           IF z = {} THEN base ELSE AddToBatch(f[z \ {Max(z)}], cs[Max(z)])]
           it == CHOOSE f : P(f)
<1>1. n \in Nat /\ DOMAIN cs = 1..n /\ \A k \in 1..n : cs[k] \in CandidateSet
    OBVIOUS
<1>2. \A x \in A, k \in 1..n : step[<<x, k>>] = AddToBatch(x, cs[k])
    OBVIOUS
<1>3. step \in [A \X (1..n) -> A] /\ base \in A
    <2>1. base \in A
        BY DEF Cut, Cuts
    <2>2. \A x \in A, k \in 1..n : AddToBatch(x, cs[k]) \in A
        BY <1>1, AddToBatchType
    <2> HIDE DEF A, base
    <2> QED BY <2>1, <2>2
<1> HIDE DEF A, base, step, n
<1>4. ASSUME NEW f \in [SUBSET (1..n) -> A], Folds(base, n, step, f)
      PROVE  FoldsIn(A, base, n, step, it)
    <2>1. P(f)
        BY <1>1, <1>2, <1>4, LastOff DEF Folds
    <2>2. P(it)
        <3> HIDE DEF P
        <3> QED BY <2>1
    <2> HIDE DEF it
    <2> QED BY <1>1, <1>2, <2>2, LastOff DEF FoldsIn
<1>5. PICK acc \in [0..n -> A] : LoopOf(base, n, step, it, acc)
    <2> HIDE DEF it
    <2> QED BY <1>1, <1>3, <1>4, FoldLoop
<1>6. Batch(cs) = Pieces(it[1..n])
    BY <1>1 DEF Batch, FoldLeft, MapThenFoldSet, base
<1> HIDE DEF it
<1>7. ASSUME NEW k \in 0..n, k < n PROVE acc[k + 1] = AddToBatch(acc[k], cs[k + 1])
    <2>1. acc[k] \in A /\ k + 1 \in 1..n
        BY <1>1, <1>7
    <2> QED BY <1>2, <1>5, <1>7, <2>1 DEF LoopOf, Turns
<1> QED BY <1>5, <1>6, <1>7 DEF LoopOf, Turns, BatchLoop, n, A, base

\* A batch that is within the limits, and one that had no room for the first of the next.
WithinLimits(b) == Len(b) \in 1..MaxBatch /\ (Len(b) > 1 => Weight(b) <= MaxBatchChars)

\* A batch with no room for the candidate that the next one begins with.
Full(b, next) == Len(b) = MaxBatch \/ Weight(b) + Head(next).size > MaxBatchChars

\* Each batch is within the limits, and was full for the next.
GoodBatches(bs) ==
    \A n \in 1..Len(bs) : WithinLimits(bs[n]) /\ (n < Len(bs) => Full(bs[n], bs[n + 1]))

\* One batch more, of a candidate that did not fit.
LEMMA GoodAppend ==
    ASSUME NEW T, NEW bs \in Seq(T), NEW b \in T,
           \A n \in 1..Len(bs) : WithinLimits(bs[n]) /\ (n < Len(bs) => Full(bs[n], bs[n + 1])),
           WithinLimits(b), bs # <<>> => Full(bs[Len(bs)], b)
    PROVE  GoodBatches(Append(bs, b))
<1> DEFINE cs == Append(bs, b)
<1>1. /\ Len(bs) \in Nat /\ Len(cs) = Len(bs) + 1 /\ cs[Len(bs) + 1] = b
      /\ \A n \in 1..Len(bs) : cs[n] = bs[n]
      /\ bs = <<>> <=> Len(bs) = 0
    OBVIOUS
<1> HIDE DEF cs
<1>2. ASSUME NEW n \in 1..Len(cs) PROVE WithinLimits(cs[n]) /\ (n < Len(cs) => Full(cs[n], cs[n + 1]))
    <2>1. CASE n < Len(bs)
        <3>1. n \in 1..Len(bs) /\ n + 1 \in 1..Len(bs)
            BY <1>1, <2>1
        <3>2. cs[n] = bs[n] /\ cs[n + 1] = bs[n + 1]
            BY <1>1, <3>1
        <3> QED BY <2>1, <3>1, <3>2
    <2>2. CASE n = Len(bs)
        <3>1. n \in 1..Len(bs) /\ bs # <<>>
            BY <1>1, <2>2
        <3>2. cs[n] = bs[n] /\ cs[n + 1] = b
            BY <1>1, <2>2, <3>1
        <3> QED BY <2>2, <3>1, <3>2
    <2>3. CASE n = Len(cs)
        <3>1. cs[n] = b /\ ~(n < Len(cs))
            BY <1>1, <2>3
        <3> QED BY <3>1
    <2> QED BY <1>1, <2>1, <2>2, <2>3
<1> QED BY <1>2 DEF GoodBatches, cs

\* What the loop over candidates has cut: batches that are full, and one at hand.
BatchInv(cut, cs) ==
    /\ cut \in Cuts(CandidateSet)
    /\ cut.current = <<>> => cut.done = <<>>
    /\ FlattenSeq(Pieces(cut)) = cs
    /\ GoodBatches(Pieces(cut))

\* The pieces are batches.
LEMMA PiecesType ==
    ASSUME NEW T, NEW cut \in Cuts(T) PROVE Pieces(cut) \in Seq(Seq(T))
<1>1. cut.done \in Seq(Seq(T)) /\ cut.current \in Seq(T)
    BY DEF Cuts
<1> QED BY <1>1 DEF Pieces

\* A batch of one is within the limits.
LEMMA OneWithinLimits ==
    ASSUME NEW c \in CandidateSet PROVE WithinLimits(<<c>>)
<1>1. Len(<<c>>) = 1
    OBVIOUS
<1> QED BY <1>1, DiffAssumption DEF WithinLimits

\* A candidate more keeps the batches good, and itself last.
LEMMA AddToBatchKeeps ==
    ASSUME NEW cut, NEW cs \in Seq(CandidateSet), NEW c \in CandidateSet, BatchInv(cut, cs)
    PROVE  BatchInv(AddToBatch(cut, c), Append(cs, c))
<1> DEFINE new == AddToBatch(cut, c)
<1>1. /\ cut \in Cuts(CandidateSet) /\ cut.done \in Seq(Seq(CandidateSet))
      /\ cut.current \in Seq(CandidateSet)
    BY DEF BatchInv, Cuts
<1>2. new \in Cuts(CandidateSet)
    BY <1>1, AddToBatchType
<1>3. new.current # <<>> /\ <<c>> \in Seq(CandidateSet) /\ <<c>> # <<>>
    <2>1. <<c>> \in Seq(CandidateSet) /\ <<c>> # <<>>
        OBVIOUS
    <2>2. Append(cut.current, c) # <<>>
        <3>1. cut.current \in Seq(CandidateSet)
            BY <1>1
        <3> QED BY ONLY <3>1, c \in CandidateSet, Appended
    <2> QED BY <2>1, <2>2 DEF AddToBatch, Cut
<1>4. Append(cs, c) = cs \o <<c>>
    BY AppendIsConcat
<1>5. CASE cut.current = <<>>
    <2>1. cut.done = <<>> /\ Pieces(cut) = <<>>
        BY <1>5 DEF BatchInv, Pieces
    <2>2. cs = <<>>
        BY <2>1, FlatEmpty DEF BatchInv
    <2>3. new = Cut(<<>>, <<c>>)
        BY <1>5, <2>1 DEF AddToBatch, Cut
    <2>4. Pieces(new) = << <<c>> >>
        BY <1>3, <2>3 DEF Pieces, Cut
    <2>5. FlattenSeq(Pieces(new)) = Append(cs, c)
        <3>1. FlattenSeq(<< <<c>> >>) = <<c>>
            BY <1>3, FlatOne
        <3>2. Append(<<>>, c) = <<c>>
            OBVIOUS
        <3> QED BY <2>2, <2>4, <3>1, <3>2
    <2>6. GoodBatches(Pieces(new))
        BY <2>4, OneWithinLimits DEF GoodBatches
    <2> QED BY <1>2, <1>3, <2>5, <2>6 DEF BatchInv
<1>6. CASE cut.current # <<>>
    <2> DEFINE full == \/ Len(cut.current) >= MaxBatch
                       \/ Weight(cut.current) + c.size > MaxBatchChars
               done == cut.done
               b == cut.current
               old == Append(done, b)
    <2>1. Pieces(cut) = old /\ old \in Seq(Seq(CandidateSet)) /\ Len(old) = Len(done) + 1
          /\ Len(done) \in Nat /\ old[Len(done) + 1] = b /\ old # <<>>
          /\ \A n \in 1..Len(done) : old[n] = done[n]
        <3>1. old # <<>> /\ Pieces(cut) = old
            BY <1>1, <1>6, Appended DEF Pieces
        <3> QED BY <1>1, <3>1, Appended
    <2>2. \A n \in 1..Len(old) : WithinLimits(old[n]) /\ (n < Len(old) => Full(old[n], old[n + 1]))
        <3>1. GoodBatches(old)
            BY <2>1 DEF BatchInv
        <3> HIDE DEF old
        <3> QED BY ONLY <3>1 DEF GoodBatches
    <2>3. WithinLimits(b)
        <3>1. Len(old) \in 1..Len(old) /\ old[Len(old)] = b
            BY <2>1
        <3> QED BY ONLY <2>2, <3>1
    <2>4. CASE full
        <3>1. new = Cut(old, <<c>>)
            BY <1>6, <2>4 DEF AddToBatch
        <3>2. Pieces(new) = Append(old, <<c>>)
            BY <1>3, <3>1 DEF Pieces, Cut
        <3>3. FlattenSeq(Pieces(new)) = Append(cs, c)
            <4>1. FlattenSeq(Append(old, <<c>>)) = FlattenSeq(old) \o <<c>>
                BY <1>3, <2>1, FlatAppend
            <4> QED BY <1>4, <2>1, <3>2, <4>1 DEF BatchInv
        <3>4. Full(b, <<c>>)
            <4>1. Len(b) = MaxBatch \/ Weight(b) + c.size > MaxBatchChars
                BY <2>3, <2>4, DiffAssumption DEF WithinLimits
            <4>2. Head(<<c>>) = c
                OBVIOUS
            <4> QED BY <4>1, <4>2 DEF Full
        <3>5. GoodBatches(Append(old, <<c>>))
            <4> HIDE DEF old, b
            <4> QED BY <1>3, <2>1, <2>2, <3>4, OneWithinLimits, GoodAppend
        <3> QED BY <1>2, <1>3, <3>2, <3>3, <3>5 DEF BatchInv
    <2>5. CASE ~full
        <3> DEFINE bc == Append(b, c)
        <3>1. new = Cut(done, bc)
            BY <1>6, <2>5 DEF AddToBatch
        <3>2. bc \in Seq(CandidateSet) /\ bc # <<>> /\ Len(bc) = Len(b) + 1 /\ Head(bc) = Head(b)
            BY <1>1, <1>6, Appended
        <3>3. Pieces(new) = Append(done, bc)
            BY <3>1, <3>2 DEF Pieces, Cut
        <3>4. FlattenSeq(Pieces(new)) = Append(cs, c)
            <4>1. FlattenSeq(Append(done, bc)) = FlattenSeq(done) \o bc
                BY <1>1, <3>2, FlatAppend
            <4>2. FlattenSeq(old) = FlattenSeq(done) \o b
                BY <1>1, FlatAppend
            <4>3. bc = b \o <<c>>
                BY <1>1, AppendIsConcat
            <4>4. Associates(FlattenSeq(done), b, <<c>>)
                BY <1>1, <1>3, FlatType, Assoc
            <4>5. FlattenSeq(old) = cs
                BY <2>1 DEF BatchInv
            <4> HIDE DEF old, bc
            <4> QED BY <1>4, <3>3, <4>1, <4>2, <4>3, <4>4, <4>5 DEF Associates
        <3>5. WithinLimits(bc)
            <4>1. Weight(bc) = Weight(b) + c.size /\ Weight(b) \in Int
                BY <1>1, WeightAppend
            <4>2. Weight(b) + c.size <= MaxBatchChars
                <5>1. c.size \in Int
                    BY DEF CandidateSet
                <5> QED BY <2>5, <4>1, <5>1, DiffAssumption
            <4>3. Len(b) \in Nat /\ Len(b) < MaxBatch
                BY <1>1, <2>5, DiffAssumption
            <4> HIDE DEF bc, b
            <4> QED BY <3>2, <4>1, <4>2, <4>3, DiffAssumption DEF WithinLimits
        <3>6. \A n \in 1..Len(done) : WithinLimits(done[n]) /\ (n < Len(done) => Full(done[n], done[n + 1]))
            <4> TAKE n \in 1..Len(done)
            <4>1. n \in 1..Len(old) /\ n < Len(old) /\ old[n] = done[n]
                BY <2>1
            <4>2. n < Len(done) => n + 1 \in 1..Len(done)
                BY <2>1
            <4>3. n < Len(done) => old[n + 1] = done[n + 1]
                BY <2>1, <4>2
            <4> HIDE DEF old, done
            <4> QED BY <2>2, <4>1, <4>3
        <3>7. done # <<>> => Full(done[Len(done)], bc)
            <4> SUFFICES ASSUME done # <<>> PROVE Full(done[Len(done)], bc)
                OBVIOUS
            <4>1. Len(done) \in 1..Len(old) /\ Len(done) < Len(old) /\ Len(done) \in 1..Len(done)
                BY <1>1, <2>1
            <4>2. Full(old[Len(done)], old[Len(done) + 1])
                BY <2>2, <4>1
            <4>3. Full(done[Len(done)], b)
                BY <2>1, <4>1, <4>2
            <4> HIDE DEF bc, b, done
            <4> QED BY <3>2, <4>3 DEF Full
        <3>8. GoodBatches(Append(done, bc))
            <4> HIDE DEF bc, done
            <4> QED BY <1>1, <3>2, <3>5, <3>6, <3>7, GoodAppend DEF done
        <3> QED BY <1>2, <1>3, <3>3, <3>4, <3>8 DEF BatchInv
    <2> QED BY <2>4, <2>5
<1> QED BY <1>5, <1>6

\* The batches of candidates are good, and have all of them, in order.
LEMMA BatchIsGood ==
    ASSUME NEW cs \in Seq(CandidateSet)
    PROVE  FlattenSeq(Batch(cs)) = cs /\ GoodBatches(Batch(cs))
<1> DEFINE n == Len(cs)
<1>1. PICK acc \in [0..n -> Cuts(CandidateSet)] : BatchLoop(cs, acc) /\ Batch(cs) = Pieces(acc[n])
    BY BatchExists
<1> DEFINE S == {k \in 0..n : BatchInv(acc[k], Upto(cs, k))}
<1>2. 0 \in S
    <2>1. acc[0] = Cut(<<>>, <<>>) /\ Upto(cs, 0) = <<>>
        BY <1>1, UptoProperties DEF BatchLoop
    <2>2. Cut(<<>>, <<>>) \in Cuts(CandidateSet) /\ Pieces(Cut(<<>>, <<>>)) = <<>>
        BY DEF Cut, Cuts, Pieces
    <2>3. GoodBatches(<<>>)
        BY DEF GoodBatches
    <2>4. BatchInv(acc[0], Upto(cs, 0))
        BY <2>1, <2>2, <2>3, FlatEmpty DEF BatchInv, Cut
    <2> QED BY <2>4
<1>3. ASSUME NEW k \in 0..n, k < n, k \in S PROVE k + 1 \in S
    <2>1. /\ acc[k + 1] = AddToBatch(acc[k], cs[k + 1]) /\ Upto(cs, k) \in Seq(CandidateSet)
          /\ Upto(cs, k + 1) = Append(Upto(cs, k), cs[k + 1]) /\ cs[k + 1] \in CandidateSet
        BY <1>1, <1>3, UptoProperties DEF BatchLoop
    <2>2. BatchInv(acc[k + 1], Upto(cs, k + 1))
        BY <1>3, <2>1, AddToBatchKeeps
    <2> QED BY <1>3, <2>2
<1>4. n \in S
    <2> HIDE DEF S
    <2>1. n \in Nat
        OBVIOUS
    <2> HIDE DEF n
    <2>2. \A k \in 0..n : k < n /\ k \in S => k + 1 \in S
        BY <1>3
    <2>3. \A k \in 0..n : k \in S
        BY <1>2, <2>1, <2>2, BoundedInduction
    <2> QED BY <2>1, <2>3
<1> QED BY <1>1, <1>4, UptoProperties DEF BatchInv, GoodBatches

-----------------------------------------------------------------------------
(* Candidates put in place *)

\* A token, and the tokens of a text.
Token == Seq(Chars)

TokenText == Seq(Token)

\* They are closed under concatenation.
LEMMA TokenTextType == <<>> \in TokenText /\ \A s, t \in TokenText : s \o t \in TokenText
BY DEF TokenText

\* A turn over the characters of a text.
RunStep(chars, acc, g) ==
    IF acc # <<>> /\ Continues(Last(acc), g, chars)
    THEN Append(Front(acc), Append(Last(acc), g)) ELSE Append(acc, <<g>>)

\* A character more leaves runs of characters.
LEMMA RunStepType ==
    ASSUME NEW chars, NEW acc \in Seq(Text), NEW g \in Glyphs
    PROVE  RunStep(chars, acc, g) \in Seq(Text)
<1>1. <<g>> \in Text
    BY DEF Text
<1>2. CASE acc = <<>>
    BY <1>1, <1>2 DEF RunStep
<1>3. CASE acc # <<>>
    <2>1. Front(acc) \in Seq(Text) /\ Last(acc) \in Text
        <3>1. Last(acc) \in Text
            BY <1>3 DEF Last
        <3> QED BY <1>3, <3>1, TailType
    <2>2. Append(Last(acc), g) \in Text
        BY <2>1 DEF Text
    <2>3. Append(Front(acc), Append(Last(acc), g)) \in Seq(Text) /\ Append(acc, <<g>>) \in Seq(Text)
        BY <1>1, <2>1, <2>2
    <2> QED BY <2>3 DEF RunStep
<1> QED BY <1>2, <1>3

\* The turns.
RunLoop(ws, chars, acc) ==
    /\ acc[0] = <<>>
    /\ \A k \in 0..Len(ws) : k < Len(ws) => acc[k + 1] = RunStep(chars, acc[k], ws[k + 1])

\* Runs as a loop.
LEMMA RunsExist ==
    ASSUME NEW ws \in Text, NEW chars
    PROVE  \E acc \in [0..Len(ws) -> Seq(Text)] :
               RunLoop(ws, chars, acc) /\ Runs(ws, chars) = acc[Len(ws)]
<1> DEFINE n == Len(ws)
           A == Seq(Text)
           base == <<>>
           step == [xk \in A \X (1..n) |-> RunStep(chars, xk[1], ws[xk[2]])]
           P(f) == f = [z \in SUBSET (DOMAIN ws) |->
                           IF z = {} THEN base ELSE RunStep(chars, f[z \ {Max(z)}], ws[Max(z)])]
           it == CHOOSE f : P(f)
<1>1. n \in Nat /\ DOMAIN ws = 1..n /\ \A k \in 1..n : ws[k] \in Glyphs
    BY DEF Text
<1>2. \A x \in A, k \in 1..n : step[<<x, k>>] = RunStep(chars, x, ws[k])
    OBVIOUS
<1>3. step \in [A \X (1..n) -> A] /\ base \in A
    <2>1. base \in A
        OBVIOUS
    <2>2. \A x \in A, k \in 1..n : RunStep(chars, x, ws[k]) \in A
        BY <1>1, RunStepType
    <2> HIDE DEF A, base
    <2> QED BY <2>1, <2>2
<1> HIDE DEF A, base, step, n
<1>4. ASSUME NEW f \in [SUBSET (1..n) -> A], Folds(base, n, step, f)
      PROVE  FoldsIn(A, base, n, step, it)
    <2>1. P(f)
        BY <1>1, <1>2, <1>4, LastOff DEF Folds
    <2>2. P(it)
        <3> HIDE DEF P
        <3> QED BY <2>1
    <2> HIDE DEF it
    <2> QED BY <1>1, <1>2, <2>2, LastOff DEF FoldsIn
<1>5. PICK acc \in [0..n -> A] : LoopOf(base, n, step, it, acc)
    <2> HIDE DEF it
    <2> QED BY <1>1, <1>3, <1>4, FoldLoop
<1>6. Runs(ws, chars) = it[1..n]
    BY <1>1 DEF Runs, RunStep, FoldLeft, MapThenFoldSet, base
<1> HIDE DEF it
<1>7. ASSUME NEW k \in 0..n, k < n PROVE acc[k + 1] = RunStep(chars, acc[k], ws[k + 1])
    <2>1. acc[k] \in A /\ k + 1 \in 1..n
        BY <1>1, <1>7
    <2> QED BY <1>2, <1>5, <1>7, <2>1 DEF LoopOf, Turns
<1> QED BY <1>5, <1>6, <1>7 DEF LoopOf, Turns, RunLoop, n, A, base

\* The characters of a text.
LEMMA BareType == ASSUME NEW ws \in Text PROVE Bare(ws) \in Seq(Chars)
<1>1. \A g \in Glyphs : g.char \in Chars
    BY DEF Glyphs
<1>2. Len(ws) \in Nat /\ \A k \in 1..Len(ws) : ws[k] \in Glyphs
    BY DEF Text
<1> QED BY <1>1, <1>2 DEF Bare

\* The runs and the tokens of a text.
LEMMA TokensType ==
    ASSUME NEW ws \in Text
    PROVE  Runs(ws, WordChars) \in Seq(Text) /\ Tokens(ws) \in TokenText
<1>1. PICK acc \in [0..Len(ws) -> Seq(Text)] : Runs(ws, WordChars) = acc[Len(ws)]
    BY RunsExist
<1>2. Len(ws) \in 0..Len(ws)
    BY DEF Text
<1> DEFINE rs == Runs(ws, WordChars)
<1>3. rs \in Seq(Text)
    BY <1>1, <1>2
<1>4. Tokens(ws) = [n \in 1..Len(rs) |-> Bare(rs[n])]
    BY DEF Tokens, Spelled
<1> HIDE DEF rs
<1>5. Len(rs) \in Nat /\ \A n \in 1..Len(rs) : Bare(rs[n]) \in Token
    BY <1>3, BareType DEF Token
<1>6. Tokens(ws) \in TokenText
    BY <1>4, <1>5 DEF TokenText
<1> QED BY <1>3, <1>6 DEF rs

\* The candidates that make sense for two texts.
CandidatesIn(t1, t2) ==
    {c \in CandidateSet : /\ c.i1 \in 0..Len(t1) /\ c.i2 \in 0..Len(t1)
                          /\ c.j1 \in 0..Len(t2) /\ c.j2 \in 0..Len(t2)}

\* A text patched up to a position.
Patches(t1) == [at : 0..Len(t1), ts : TokenText]

\* One turn of Patched, and what it has made when the candidates are in place.
PatchStep(t1, t2, acc, c) ==
    [at |-> c.i2,
     ts |-> acc.ts \o SubSeq(t1, acc.at + 1, c.i1) \o SubSeq(t2, c.j1 + 1, c.j2)]

\* The text patched with candidates, before its rest.
PatchState(t1, t2, cs) ==
    FoldLeft(LAMBDA acc, c : PatchStep(t1, t2, acc, c), [at |-> 0, ts |-> <<>>], cs)

\* A part of a text is one.
LEMMA PartText ==
    ASSUME NEW T, NEW s \in Seq(T), NEW i \in 0..Len(s), NEW j \in 0..Len(s)
    PROVE  SubSeq(s, i + 1, j) \in Seq(T)
<1>1. Len(s) \in Nat
    OBVIOUS
<1>2. CASE i <= j
    BY <1>2, PartType
<1>3. CASE ~(i <= j)
    <2>1. SubSeq(s, i + 1, j) = <<>>
        BY <1>1, <1>3
    <2> QED BY <2>1
<1> QED BY <1>2, <1>3

\* A candidate put in place leaves a text patched.
LEMMA PatchStepType ==
    ASSUME NEW t1 \in TokenText, NEW t2 \in TokenText, NEW acc \in Patches(t1), NEW c \in CandidatesIn(t1, t2)
    PROVE  PatchStep(t1, t2, acc, c) \in Patches(t1)
<1> DEFINE u == SubSeq(t1, acc.at + 1, c.i1)
           v == SubSeq(t2, c.j1 + 1, c.j2)
           at == acc.at
           i == c.i1
           j == c.j1
           k == c.j2
<1>1. at \in 0..Len(t1) /\ i \in 0..Len(t1) /\ j \in 0..Len(t2) /\ k \in 0..Len(t2)
    BY DEF Patches, CandidatesIn
<1>2. c.i2 \in 0..Len(t1) /\ acc.ts \in TokenText
    BY DEF Patches, CandidatesIn
<1>3. u \in TokenText /\ v \in TokenText
    <2> HIDE DEF at, i, j, k
    <2>1. SubSeq(t1, at + 1, i) \in Seq(Token) /\ SubSeq(t2, j + 1, k) \in Seq(Token)
        BY <1>1, PartText DEF TokenText
    <2> QED BY <2>1 DEF TokenText, at, i, j, k
<1> HIDE DEF u, v
<1>4. acc.ts \o u \o v \in TokenText
    BY <1>2, <1>3, TokenTextType
<1>5. PatchStep(t1, t2, acc, c) = [at |-> c.i2, ts |-> acc.ts \o u \o v]
    BY DEF PatchStep, u, v
<1> QED BY <1>2, <1>4, <1>5 DEF Patches

\* The turns over the candidates.
PatchLoop(t1, t2, cs, acc) ==
    /\ acc[0] = [at |-> 0, ts |-> <<>>]
    /\ \A k \in 0..Len(cs) : k < Len(cs) => acc[k + 1] = PatchStep(t1, t2, acc[k], cs[k + 1])

\* Patch as a loop over the candidates.
LEMMA PatchExists ==
    ASSUME NEW t1 \in TokenText, NEW t2 \in TokenText, NEW cs \in Seq(CandidatesIn(t1, t2))
    PROVE  \E acc \in [0..Len(cs) -> Patches(t1)] :
               PatchLoop(t1, t2, cs, acc) /\ PatchState(t1, t2, cs) = acc[Len(cs)]
<1> DEFINE n == Len(cs)
           A == Patches(t1)
           base == [at |-> 0, ts |-> <<>>]
           step == [xk \in A \X (1..n) |-> PatchStep(t1, t2, xk[1], cs[xk[2]])]
           P(f) == f = [z \in SUBSET (DOMAIN cs) |->
                           IF z = {} THEN base ELSE PatchStep(t1, t2, f[z \ {Max(z)}], cs[Max(z)])]
           it == CHOOSE f : P(f)
<1>1. n \in Nat /\ DOMAIN cs = 1..n /\ \A k \in 1..n : cs[k] \in CandidatesIn(t1, t2)
    OBVIOUS
<1>2. \A x \in A, k \in 1..n : step[<<x, k>>] = PatchStep(t1, t2, x, cs[k])
    OBVIOUS
<1>3. step \in [A \X (1..n) -> A] /\ base \in A
    <2>1. base \in A
        <3>1. Len(t1) \in Nat
            BY DEF TokenText
        <3> QED BY <3>1, TokenTextType DEF Patches
    <2>2. \A x \in A, k \in 1..n : PatchStep(t1, t2, x, cs[k]) \in A
        BY <1>1, PatchStepType
    <2> HIDE DEF A, base
    <2> QED BY <2>1, <2>2
<1> HIDE DEF A, base, step, n
<1>4. ASSUME NEW f \in [SUBSET (1..n) -> A], Folds(base, n, step, f)
      PROVE  FoldsIn(A, base, n, step, it)
    <2>1. P(f)
        BY <1>1, <1>2, <1>4, LastOff DEF Folds
    <2>2. P(it)
        <3> HIDE DEF P
        <3> QED BY <2>1
    <2> HIDE DEF it
    <2> QED BY <1>1, <1>2, <2>2, LastOff DEF FoldsIn
<1>5. PICK acc \in [0..n -> A] : LoopOf(base, n, step, it, acc)
    <2> HIDE DEF it
    <2> QED BY <1>1, <1>3, <1>4, FoldLoop
<1>6. PatchState(t1, t2, cs) = it[1..n]
    BY <1>1 DEF PatchState, FoldLeft, MapThenFoldSet, base
<1> HIDE DEF it
<1>7. ASSUME NEW k \in 0..n, k < n PROVE acc[k + 1] = PatchStep(t1, t2, acc[k], cs[k + 1])
    <2>1. acc[k] \in A /\ k + 1 \in 1..n
        BY <1>1, <1>7
    <2> QED BY <1>2, <1>5, <1>7, <2>1 DEF LoopOf, Turns
<1> QED BY <1>5, <1>6, <1>7 DEF LoopOf, Turns, PatchLoop, n, A, base

\* Before the first candidate.
LEMMA PatchNone ==
    ASSUME NEW t1 \in TokenText, NEW t2 \in TokenText
    PROVE  PatchState(t1, t2, <<>>) = [at |-> 0, ts |-> <<>>]
<1> DEFINE cs == <<>>
<1>1. cs \in Seq(CandidatesIn(t1, t2)) /\ Len(cs) = 0
    OBVIOUS
<1> HIDE DEF cs
<1>2. PICK acc \in [0..Len(cs) -> Patches(t1)] :
          PatchLoop(t1, t2, cs, acc) /\ PatchState(t1, t2, cs) = acc[Len(cs)]
    BY <1>1, PatchExists
<1>3. PatchState(t1, t2, cs) = [at |-> 0, ts |-> <<>>]
    BY <1>1, <1>2 DEF PatchLoop
<1> QED BY <1>3 DEF cs

\* One candidate more.
LEMMA PatchAppend ==
    ASSUME NEW t1 \in TokenText, NEW t2 \in TokenText, NEW cs \in Seq(CandidatesIn(t1, t2)),
           NEW c \in CandidatesIn(t1, t2)
    PROVE  /\ PatchState(t1, t2, cs) \in Patches(t1)
           /\ PatchState(t1, t2, Append(cs, c)) = PatchStep(t1, t2, PatchState(t1, t2, cs), c)
<1> DEFINE n == Len(cs)
           ds == Append(cs, c)
<1>1. /\ n \in Nat /\ ds \in Seq(CandidatesIn(t1, t2)) /\ Len(ds) = n + 1 /\ ds[n + 1] = c
      /\ \A k \in 1..n : ds[k] = cs[k]
    BY Appended
<1>2. PICK f \in [0..n -> Patches(t1)] : PatchLoop(t1, t2, cs, f) /\ PatchState(t1, t2, cs) = f[n]
    BY PatchExists
<1> HIDE DEF ds
<1>3. PICK g \in [0..Len(ds) -> Patches(t1)] :
          PatchLoop(t1, t2, ds, g) /\ PatchState(t1, t2, ds) = g[Len(ds)]
    BY <1>1, PatchExists
<1> HIDE DEF n
<1> DEFINE S == {k \in 0..n : f[k] = g[k]}
<1>4. 0 \in S
    BY <1>1, <1>2, <1>3 DEF PatchLoop
<1>5. ASSUME NEW k \in 0..n, k < n, k \in S PROVE k + 1 \in S
    <2>1. k + 1 \in 1..n /\ k + 1 \in 0..n /\ k \in 0..Len(ds) /\ k < Len(ds)
        BY <1>1, <1>5
    <2>2. f[k + 1] = PatchStep(t1, t2, f[k], cs[k + 1])
        BY <1>2, <1>5 DEF PatchLoop, n
    <2>3. g[k + 1] = PatchStep(t1, t2, g[k], ds[k + 1])
        BY <1>3, <2>1 DEF PatchLoop
    <2> QED BY <1>1, <1>5, <2>1, <2>2, <2>3
<1>6. \A k \in 0..n : k \in S
    <2> HIDE DEF S
    <2> QED BY <1>1, <1>4, <1>5, BoundedInduction
<1>7. n \in 0..n /\ n \in 0..Len(ds) /\ n < Len(ds)
    BY <1>1
<1>8. g[n + 1] = PatchStep(t1, t2, g[n], ds[n + 1])
    BY <1>3, <1>7 DEF PatchLoop
<1>9. f[n] = g[n]
    BY <1>6, <1>7
<1> QED BY <1>1, <1>2, <1>3, <1>7, <1>8, <1>9 DEF ds

\* The candidates cs make the first q tokens of the second text of the first p of the
\* first.
PatchedTo(t1, t2, cs, p, q) ==
    /\ cs \in Seq(CandidatesIn(t1, t2))
    /\ p \in 0..Len(t1) /\ q \in 0..Len(t2)
    /\ PatchState(t1, t2, cs) \in Patches(t1)
    /\ PatchState(t1, t2, cs).at <= p
    /\ PatchState(t1, t2, cs).ts \o SubSeq(t1, PatchState(t1, t2, cs).at + 1, p) = Upto(t2, q)

\* A part, and the part that follows it.
LEMMA Parts ==
    ASSUME NEW T, NEW s \in Seq(T), NEW h \in 0..Len(s), NEW i \in 0..Len(s), NEW j \in 0..Len(s),
           h <= i, i <= j
    PROVE  SubSeq(s, h + 1, i) \o SubSeq(s, i + 1, j) = SubSeq(s, h + 1, j)
<1> DEFINE x == SubSeq(s, h + 1, i)
           y == SubSeq(s, i + 1, j)
           w == SubSeq(s, h + 1, j)
           a == i - h
           b == j - i
           c == j - h
<1>1. Len(s) \in Nat /\ h \in Nat /\ i \in Nat /\ j \in Nat /\ h <= j
    OBVIOUS
<1>2. x \in Seq(T) /\ Len(x) = a /\ \A k \in 1..a : x[k] = s[h + k]
    BY PartType
<1>3. y \in Seq(T) /\ Len(y) = b /\ \A k \in 1..b : y[k] = s[i + k]
    BY PartType
<1>4. w \in Seq(T) /\ Len(w) = c /\ \A k \in 1..c : w[k] = s[h + k]
    BY <1>1, PartType
<1>5. a \in Nat /\ b \in Nat /\ c \in Nat /\ a + b = c /\ h + a = i
    BY <1>1
<1>6. \A k \in 1..b : s[h + (a + k)] = s[i + k]
    BY <1>1
<1> HIDE DEF x, y, w, a, b, c
<1> DEFINE z == x \o y
<1>7. /\ z \in Seq(T) /\ Len(z) = c
      /\ \A k \in 1..c : z[k] = IF k <= a THEN x[k] ELSE y[k - a]
    <2>1. x \in Seq(T) /\ y \in Seq(T) /\ Len(x) = a /\ Len(y) = b
        BY ONLY <1>2, <1>3
    <2>2. z \in Seq(T) /\ Len(z) = c
        BY ONLY <1>5, <2>1
    <2>3. ASSUME NEW k \in 1..c PROVE z[k] = IF k <= a THEN x[k] ELSE y[k - a]
        <3>1. k \in 1..(a + b)
            BY ONLY <1>5, <2>3
        <3> QED BY ONLY <1>5, <2>1, <3>1
    <2> QED BY ONLY <2>2, <2>3
<1> HIDE DEF z
<1>8. ASSUME NEW k \in 1..c PROVE z[k] = w[k]
    <2>0. k \in Nat /\ a \in Nat
        BY ONLY k \in 1..c, <1>5
    <2>1. CASE k <= a
        <3>1. k \in 1..a
            BY ONLY k \in 1..c, <1>5, <2>1
        <3> QED BY ONLY k \in 1..c, <1>2, <1>4, <1>7, <2>1, <3>1
    <2>2. CASE ~(k <= a)
        <3>1. k - a \in 1..b /\ a + (k - a) = k
            BY ONLY k \in 1..c, <1>5, <2>2
        <3>2. s[h + k] = s[i + (k - a)]
            BY ONLY <1>6, <3>1
        <3> QED BY ONLY k \in 1..c, <1>3, <1>4, <1>7, <2>2, <3>1, <3>2
    <2> QED BY ONLY <2>1, <2>2
<1>9. z = w
    <2>1. w \in Seq(T) /\ Len(w) = Len(z)
        BY ONLY <1>4, <1>7
    <2>2. \A k \in 1..Len(z) : z[k] = w[k]
        BY ONLY <1>7, <1>8
    <2>3. z \in Seq(T)
        BY ONLY <1>7
    <2> QED BY ONLY <2>1, <2>2, <2>3, SeqEqual
<1> QED BY <1>9 DEF x, y, w, z

\* At the begin nothing is patched, and nothing has to be.
LEMMA PatchFirst ==
    ASSUME NEW t1 \in TokenText, NEW t2 \in TokenText
    PROVE  PatchedTo(t1, t2, <<>>, 0, 0)
<1> DEFINE st == PatchState(t1, t2, <<>>)
           z == 0
<1>1. st = [at |-> z, ts |-> <<>>]
    BY PatchNone
<1>2. Len(t1) \in Nat /\ Len(t2) \in Nat /\ t1 \in Seq(Token) /\ t2 \in Seq(Token)
    BY DEF TokenText
<1>3. SubSeq(t1, z + 1, z) = <<>> /\ Upto(t2, z) = <<>>
    BY <1>2, UptoProperties
<1>4. <<>> \in Seq(CandidatesIn(t1, t2))
    OBVIOUS
<1> HIDE DEF st
<1>5. st \in Patches(t1) /\ st.at = z /\ st.ts = <<>>
    BY <1>1, <1>2, TokenTextType DEF Patches
<1>6. st.ts \o SubSeq(t1, st.at + 1, z) = Upto(t2, z)
    <2>1. SubSeq(t1, st.at + 1, z) = <<>> /\ <<>> \o <<>> = <<>>
        BY <1>3, <1>5
    <2> QED BY <1>3, <1>5, <2>1
<1> QED BY <1>2, <1>4, <1>5, <1>6 DEF PatchedTo, st

\* Tokens that are equal need no candidate.
LEMMA PatchEqual ==
    ASSUME NEW t1 \in TokenText, NEW t2 \in TokenText, NEW cs, NEW p, NEW q, PatchedTo(t1, t2, cs, p, q),
           NEW i \in 0..Len(t1), NEW j \in 0..Len(t2), p <= i, q <= j,
           SubSeq(t1, p + 1, i) = SubSeq(t2, q + 1, j)
    PROVE  PatchedTo(t1, t2, cs, i, j)
<1> DEFINE st == PatchState(t1, t2, cs)
           at == st.at
           ts == st.ts
           u == SubSeq(t1, at + 1, p)
           v == SubSeq(t1, p + 1, i)
<1>1. /\ cs \in Seq(CandidatesIn(t1, t2)) /\ p \in 0..Len(t1) /\ q \in 0..Len(t2)
      /\ st \in Patches(t1) /\ at <= p /\ ts \o u = Upto(t2, q)
    BY DEF PatchedTo
<1>2. at \in 0..Len(t1) /\ ts \in TokenText /\ Len(t1) \in Nat
    BY <1>1 DEF Patches, TokenText
<1> HIDE DEF at, ts, st
<1>3. u \in TokenText /\ v \in TokenText
    BY <1>1, <1>2, PartText DEF TokenText
<1>4. u \o v = SubSeq(t1, at + 1, i)
    BY <1>1, <1>2, Parts DEF TokenText
<1>5. Upto(t2, q) \o SubSeq(t2, q + 1, j) = Upto(t2, j)
    BY <1>1, UptoPart DEF TokenText
<1> HIDE DEF u, v
<1>6. (ts \o u) \o v = ts \o (u \o v)
    <2>1. ts \in Seq(Token) /\ u \in Seq(Token) /\ v \in Seq(Token)
        BY <1>2, <1>3 DEF TokenText
    <2>2. Associates(ts, u, v)
        BY ONLY <2>1, Assoc
    <2> QED BY ONLY <2>2 DEF Associates
<1>7. ts \o SubSeq(t1, at + 1, i) = Upto(t2, j)
    BY <1>1, <1>4, <1>5, <1>6 DEF v
<1>8. at <= i
    BY <1>1, <1>2
<1> QED BY <1>1, <1>7, <1>8 DEF PatchedTo, st, at, ts

\* A candidate for a range gets the patch to its end.
LEMMA PatchMore ==
    ASSUME NEW t1 \in TokenText, NEW t2 \in TokenText, NEW cs, NEW p, NEW q, PatchedTo(t1, t2, cs, p, q),
           NEW c \in CandidateSet, c.i1 = p, c.j1 = q,
           c.i2 \in 0..Len(t1), c.j2 \in 0..Len(t2), q <= c.j2
    PROVE  PatchedTo(t1, t2, Append(cs, c), c.i2, c.j2)
<1> DEFINE st == PatchState(t1, t2, cs)
           nx == PatchState(t1, t2, Append(cs, c))
           at == st.at
           ts == st.ts
           i == c.i2
           j == c.j2
           u == SubSeq(t1, at + 1, p)
           v == SubSeq(t2, q + 1, j)
<1>1. /\ cs \in Seq(CandidatesIn(t1, t2)) /\ p \in 0..Len(t1) /\ q \in 0..Len(t2)
      /\ st \in Patches(t1) /\ at <= p /\ ts \o u = Upto(t2, q)
    BY DEF PatchedTo
<1>2. c \in CandidatesIn(t1, t2)
    BY <1>1 DEF CandidatesIn
<1>3. nx = PatchStep(t1, t2, st, c) /\ Append(cs, c) \in Seq(CandidatesIn(t1, t2))
    BY <1>1, <1>2, PatchAppend
<1>4. nx \in Patches(t1)
    BY <1>1, <1>2, <1>3, PatchStepType
<1>5. nx.at = i /\ nx.ts = (ts \o u) \o v
    <2>1. PatchStep(t1, t2, st, c) =
              [at |-> c.i2, ts |-> (st.ts \o SubSeq(t1, st.at + 1, c.i1)) \o SubSeq(t2, c.j1 + 1, c.j2)]
        BY DEF PatchStep
    <2>2. (ts \o u) \o v = (st.ts \o SubSeq(t1, st.at + 1, c.i1)) \o SubSeq(t2, c.j1 + 1, c.j2)
        OBVIOUS
    <2> HIDE DEF nx, ts, u, v, st
    <2>3. nx = [at |-> i, ts |-> (ts \o u) \o v]
        BY ONLY <1>3, <2>1, <2>2 DEF nx, st, i
    <2> HIDE DEF i
    <2> QED BY ONLY <2>3
<1> HIDE DEF st, nx, at, ts, u
<1>6. i \in 0..Len(t1) /\ j \in 0..Len(t2) /\ q <= j
    OBVIOUS
<1> HIDE DEF i, j
<1>7. Upto(t2, q) \o v = Upto(t2, j)
    BY <1>1, <1>6, UptoPart DEF TokenText
<1>8. Upto(t2, j) \in Seq(Token) /\ Len(t1) \in Nat
    BY <1>6, UptoProperties DEF TokenText
<1>9. SubSeq(t1, i + 1, i) = <<>>
    BY <1>6, <1>8
<1>10. nx.ts = Upto(t2, j)
    BY <1>1, <1>5, <1>7
<1>11. nx.ts \o SubSeq(t1, nx.at + 1, i) = Upto(t2, j)
    <2>1. \A s \in Seq(Token) : s \o <<>> = s
        OBVIOUS
    <2> QED BY <1>5, <1>8, <1>9, <1>10, <2>1
<1>12. i <= i
    BY <1>6, <1>8
<1>13. PatchedTo(t1, t2, Append(cs, c), i, j)
    BY <1>3, <1>4, <1>5, <1>6, <1>11, <1>12 DEF PatchedTo, nx
<1> QED BY <1>13 DEF i, j

\* When all are in place the second text is there.
LEMMA PatchLast ==
    ASSUME NEW t1 \in TokenText, NEW t2 \in TokenText, NEW cs, PatchedTo(t1, t2, cs, Len(t1), Len(t2))
    PROVE  PatchState(t1, t2, cs).ts \o SubSeq(t1, PatchState(t1, t2, cs).at + 1, Len(t1)) = t2
<1>1. Upto(t2, Len(t2)) = t2
    BY UptoProperties DEF TokenText
<1> QED BY <1>1 DEF PatchedTo

-----------------------------------------------------------------------------
(* Candidates *)

\* What is read of a side has a length.
LEMMA ReadWithType ==
    ASSUME NEW bs \in Seq(BlockSet) PROVE ReadWith(bs) \in Nat
<1>1. \A ws \in Text, max \in Nat : Clipped(ws, max) \in Nat
    BY DEF Clipped, Text
<1>2. CASE bs = <<>>
    BY <1>2 DEF ReadWith
<1>3. CASE bs # <<>>
    <2>1. Combine(bs) \in BlockSet /\ Words(bs) \in Text
        BY <1>3, CombineType, WordsType
    <2>2. Combine(bs).before \in Lines /\ Combine(bs).after \in Lines
        BY <2>1 DEF BlockSet
    <2>3. Combine(bs).before \in Text /\ Combine(bs).after \in Text
        BY <2>2, LinesType
    <2>4. /\ Clipped(Words(bs), MaxEvidence) \in Nat
          /\ Clipped(Combine(bs).before, MaxContext) \in Nat
          /\ Clipped(Combine(bs).after, MaxContext) \in Nat
        BY <1>1, <2>1, <2>3, DiffAssumption
    <2>5. ReadWith(bs) = Clipped(Words(bs), MaxEvidence)
                           + Clipped(Combine(bs).before, MaxContext)
                           + Clipped(Combine(bs).after, MaxContext)
        BY <1>3 DEF ReadWith
    <2> QED BY ONLY <2>4, <2>5
<1> QED BY <1>2, <1>3

\* A candidate with these positions.
At(c, i1, i2, j1, j2) ==
    c \in CandidateSet /\ c.i1 = i1 /\ c.i2 = i2 /\ c.j1 = j1 /\ c.j2 = j2

\* What a candidate puts in place of what.
LEMMA CandidateIs ==
    ASSUME NEW pair \in PairSet, NEW i1 \in Nat, NEW i2 \in Nat, NEW j1 \in Nat, NEW j2 \in Nat
    PROVE  At(Candidate(pair, i1, i2, j1, j2), i1, i2, j1, j2)
<1> DEFINE x == ReadWith(pair.file1)
           y == ReadWith(pair.file2)
<1>1. x \in Nat /\ y \in Nat
    <2>1. pair.file1 \in Seq(BlockSet) /\ pair.file2 \in Seq(BlockSet)
        BY DEF PairSet
    <2> QED BY <2>1, ReadWithType
<1>2. Candidate(pair, i1, i2, j1, j2) =
          [i1 |-> i1, i2 |-> i2, j1 |-> j1, j2 |-> j2, size |-> x + y + Overhead]
    BY DEF Candidate
<1> HIDE DEF x, y
<1>3. x + y + Overhead \in Nat
    BY <1>1, DiffAssumption
<1> QED BY <1>2, <1>3 DEF CandidateSet, At

\* An opcode, in numbers.
LEMMA OpcodeIs ==
    ASSUME NEW a, NEW b, Len(a) \in Nat, Len(b) \in Nat, NEW o \in OpcodeSet(a, b)
    PROVE  /\ o.op \in {"equal", "replace", "delete", "insert"}
           /\ o.i1 \in 0..Len(a) /\ o.i2 \in 0..Len(a) /\ o.i1 <= o.i2
           /\ o.j1 \in 0..Len(b) /\ o.j2 \in 0..Len(b) /\ o.j1 <= o.j2
           /\ o.i1 \in Nat /\ o.i2 \in Nat /\ o.j1 \in Nat /\ o.j2 \in Nat
           /\ o.op = "equal" => /\ o.i2 - o.i1 = o.j2 - o.j1
                                /\ \A k \in 1..(o.i2 - o.i1) : a[o.i1 + k] = b[o.j1 + k]
<1>1. /\ o.op \in {"equal", "replace", "delete", "insert"}
      /\ o.i1 \in 0..Len(a) /\ o.i2 \in 0..Len(a) /\ o.i1 <= o.i2
      /\ o.j1 \in 0..Len(b) /\ o.j2 \in 0..Len(b) /\ o.j1 <= o.j2
    BY DEF OpcodeSet
<1>2. o.op = "equal" => /\ o.i2 - o.i1 = o.j2 - o.j1
                        /\ \A k \in 1..(o.i2 - o.i1) : a[o.i1 + k] = b[o.j1 + k]
    BY DEF OpcodeSet
<1> QED BY <1>1, <1>2

\* The two parts of an "equal" opcode are the same.
LEMMA EqualParts ==
    ASSUME NEW T, NEW a \in Seq(T), NEW b \in Seq(T), NEW o \in OpcodeSet(a, b), o.op = "equal"
    PROVE  SubSeq(a, o.i1 + 1, o.i2) = SubSeq(b, o.j1 + 1, o.j2)
<1> DEFINE i1 == o.i1
           i2 == o.i2
           j1 == o.j1
           j2 == o.j2
           n == o.i2 - o.i1
           x == SubSeq(a, i1 + 1, i2)
           y == SubSeq(b, j1 + 1, j2)
<1>1. /\ i1 \in 0..Len(a) /\ i2 \in 0..Len(a) /\ i1 <= i2
      /\ j1 \in 0..Len(b) /\ j2 \in 0..Len(b) /\ j1 <= j2
      /\ n = i2 - i1 /\ n = j2 - j1
    <2>1. Len(a) \in Nat /\ Len(b) \in Nat
        OBVIOUS
    <2> QED BY <2>1, OpcodeIs
<1>2. \A k \in 1..n : a[i1 + k] = b[j1 + k]
    <2>1. Len(a) \in Nat /\ Len(b) \in Nat
        OBVIOUS
    <2> QED BY <2>1, OpcodeIs
<1> HIDE DEF i1, i2, j1, j2, n
<1>3. x \in Seq(T) /\ Len(x) = n /\ \A k \in 1..n : x[k] = a[i1 + k]
    BY <1>1, PartType
<1>4. y \in Seq(T) /\ Len(y) = n /\ \A k \in 1..n : y[k] = b[j1 + k]
    BY <1>1, PartType
<1> HIDE DEF x, y
<1>5. x = y
    <2>1. Len(x) = Len(y) /\ x \in Seq(T) /\ y \in Seq(T)
        BY ONLY <1>3, <1>4
    <2>2. \A k \in 1..Len(x) : x[k] = y[k]
        BY ONLY <1>2, <1>3, <1>4
    <2> QED BY ONLY <2>1, <2>2, SeqEqual
<1> QED BY <1>5 DEF x, y, i1, i2, j1, j2

\* As many tokens replaced by as many, one by one.
TokenByToken(pair, i, j, d) ==
    [k \in 1..d |-> Candidate(pair, i + k - 1, i + k, j + k - 1, j + k)]

\* Tokens replaced one by one.
LEMMA PatchOneByOne ==
    ASSUME NEW pair \in PairSet, NEW t1 \in TokenText, NEW t2 \in TokenText, NEW cs,
           NEW i \in Nat, NEW j \in Nat, NEW d \in Nat,
           NEW i2 \in 0..Len(t1), NEW j2 \in 0..Len(t2), i + d = i2, j + d = j2,
           PatchedTo(t1, t2, cs, i, j)
    PROVE  /\ TokenByToken(pair, i, j, d) \in Seq(CandidatesIn(t1, t2))
           /\ PatchedTo(t1, t2, cs \o TokenByToken(pair, i, j, d), i2, j2)
<1> DEFINE C == CandidatesIn(t1, t2)
           ds == TokenByToken(pair, i, j, d)
<1>1. Len(t1) \in Nat /\ Len(t2) \in Nat
    BY DEF TokenText
<1>0. ds = [k \in 1..d |-> Candidate(pair, i + k - 1, i + k, j + k - 1, j + k)]
    BY DEF TokenByToken
<1>2. ASSUME NEW k \in 1..d
      PROVE  /\ ds[k] \in CandidateSet /\ ds[k] \in C
             /\ ds[k].i1 = i + k - 1 /\ ds[k].i2 = i + k
             /\ ds[k].j1 = j + k - 1 /\ ds[k].j2 = j + k
    <2> DEFINE a1 == i + k - 1
               a2 == i + k
               b1 == j + k - 1
               b2 == j + k
    <2>0. k \in Nat /\ k >= 1 /\ k <= d /\ i2 <= Len(t1) /\ j2 <= Len(t2)
        BY <1>1
    <2>1. /\ a1 \in Nat /\ a2 \in Nat /\ b1 \in Nat /\ b2 \in Nat
          /\ a1 \in 0..Len(t1) /\ a2 \in 0..Len(t1) /\ b1 \in 0..Len(t2) /\ b2 \in 0..Len(t2)
        <3>1. k - 1 \in Nat /\ i + k \in Nat /\ j + k \in Nat /\ i + d = i2 /\ j + d = j2
            BY <2>0
        <3>2. i + k <= Len(t1) /\ j + k <= Len(t2)
            BY ONLY i \in Nat, j \in Nat, d \in Nat, <1>1, <2>0, <3>1
        <3> QED BY ONLY i \in Nat, j \in Nat, <1>1, <2>0, <3>1, <3>2
    <2>2. ds[k] = Candidate(pair, a1, a2, b1, b2)
        <3> HIDE DEF ds
        <3> QED BY ONLY <1>0, k \in 1..d
    <2> HIDE DEF a1, a2, b1, b2, ds
    <2>3. ds[k] \in CandidateSet /\ ds[k].i1 = a1 /\ ds[k].i2 = a2 /\ ds[k].j1 = b1 /\ ds[k].j2 = b2
        <3> DEFINE c == Candidate(pair, a1, a2, b1, b2)
        <3>1. a1 \in Nat /\ a2 \in Nat /\ b1 \in Nat /\ b2 \in Nat
            BY <2>1
        <3>2. At(c, a1, a2, b1, b2)
            BY ONLY pair \in PairSet, <3>1, CandidateIs
        <3> HIDE DEF c
        <3>3. ds[k] = c
            BY <2>2 DEF c
        <3> QED BY <3>2, <3>3 DEF At
    <2>4. ds[k] \in C
        BY <2>1, <2>3 DEF CandidatesIn
    <2> QED BY <2>3, <2>4 DEF a1, a2, b1, b2
<1> HIDE DEF C, ds
<1>3. ds \in Seq(C) /\ Len(ds) = d
    <2>1. \A k \in 1..d : ds[k] \in C
        BY <1>2
    <2>2. ds = [k \in 1..d |-> ds[k]]
        BY ONLY <1>0
    <2> QED BY ONLY d \in Nat, <2>1, <2>2
<1>4. cs \in Seq(C) /\ i \in 0..Len(t1) /\ j \in 0..Len(t2)
    BY DEF PatchedTo, C
<1>5. /\ Upto(ds, 0) = <<>> /\ Upto(ds, d) = ds
      /\ \A k \in 0..d : Upto(ds, k) \in Seq(C)
      /\ \A k \in 0..d : k < d => Upto(ds, k + 1) = Append(Upto(ds, k), ds[k + 1])
    BY ONLY <1>3, UptoProperties
<1> DEFINE S == {k \in 0..d : PatchedTo(t1, t2, cs \o Upto(ds, k), i + k, j + k)}
<1>6. 0 \in S
    <2>0. cs \in Seq(C) /\ Upto(ds, 0) = <<>>
        BY <1>4, <1>5
    <2>1. cs \o Upto(ds, 0) = cs /\ i + 0 = i /\ j + 0 = j
        BY ONLY i \in Nat, j \in Nat, <2>0
    <2>2. PatchedTo(t1, t2, cs \o Upto(ds, 0), i + 0, j + 0)
        BY <2>1
    <2> QED BY <2>2
<1>7. ASSUME NEW k \in 0..d, k < d, k \in S PROVE k + 1 \in S
    <2> DEFINE c == ds[k + 1]
               es == cs \o Upto(ds, k)
               p == i + k
               q == j + k
    <2>1. k + 1 \in 1..d /\ k + 1 \in 0..d
        BY <1>7
    <2>2. /\ c \in CandidateSet /\ c.i1 = i + (k + 1) - 1 /\ c.i2 = i + (k + 1)
          /\ c.j1 = j + (k + 1) - 1 /\ c.j2 = j + (k + 1)
        BY <1>2, <2>1
    <2>3. i + (k + 1) - 1 = p /\ j + (k + 1) - 1 = q /\ p \in Nat /\ q \in Nat
        OBVIOUS
    <2>4. i + (k + 1) \in 0..Len(t1) /\ j + (k + 1) \in 0..Len(t2) /\ q <= j + (k + 1)
        BY <1>1, <2>1
    <2>5. PatchedTo(t1, t2, es, p, q)
        BY <1>7
    <2> HIDE DEF c, es, p, q
    <2>6. PatchedTo(t1, t2, Append(es, c), c.i2, c.j2)
        BY <2>2, <2>3, <2>4, <2>5, PatchMore
    <2>7. Append(es, c) = cs \o Upto(ds, k + 1)
        <3>1. Upto(ds, k) \in Seq(C) /\ Upto(ds, k + 1) = Append(Upto(ds, k), c) /\ c \in C
            BY <1>2, <1>5, <1>7, <2>1 DEF c
        <3> DEFINE u == Upto(ds, k)
        <3> HIDE DEF u
        <3>2. u \in Seq(C) /\ cs \in Seq(C) /\ c \in C
            BY <1>4, <3>1 DEF u
        <3>3. Append(cs \o u, c) = cs \o Append(u, c)
            BY ONLY <3>2
        <3> QED BY <3>1, <3>3 DEF es, u
    <2>8. PatchedTo(t1, t2, cs \o Upto(ds, k + 1), i + (k + 1), j + (k + 1))
        BY <2>2, <2>6, <2>7
    <2> QED BY <2>1, <2>8
<1>8. d \in S
    <2> HIDE DEF S
    <2>1. \A k \in 0..d : k \in S
        BY <1>6, <1>7, BoundedInduction
    <2> QED BY <2>1
<1> QED BY <1>3, <1>5, <1>8 DEF C, ds

\* With the candidates of an opcode the patch gets to its end.
LEMMA OpcodePatches ==
    ASSUME NEW pair \in PairSet, NEW t1 \in TokenText, NEW t2 \in TokenText, NEW o \in OpcodeSet(t1, t2),
           NEW cs, PatchedTo(t1, t2, cs, o.i1, o.j1)
    PROVE  /\ OpcodeCandidates(pair, o) \in Seq(CandidatesIn(t1, t2))
           /\ PatchedTo(t1, t2, cs \o OpcodeCandidates(pair, o), o.i2, o.j2)
<1> DEFINE C == CandidatesIn(t1, t2)
           ds == OpcodeCandidates(pair, o)
           i1 == o.i1
           i2 == o.i2
           j1 == o.j1
           j2 == o.j2
<1>1. Len(t1) \in Nat /\ Len(t2) \in Nat /\ t1 \in Seq(Token) /\ t2 \in Seq(Token)
    BY DEF TokenText
<1>2. /\ o.op \in {"equal", "replace", "delete", "insert"}
      /\ i1 \in 0..Len(t1) /\ i2 \in 0..Len(t1) /\ i1 <= i2
      /\ j1 \in 0..Len(t2) /\ j2 \in 0..Len(t2) /\ j1 <= j2
      /\ i1 \in Nat /\ i2 \in Nat /\ j1 \in Nat /\ j2 \in Nat
    BY <1>1, OpcodeIs
<1>3. cs \in Seq(C)
    BY DEF PatchedTo
<1>4. PatchedTo(t1, t2, cs, i1, j1)
    OBVIOUS
<1>5. o.op = "equal" => SubSeq(t1, i1 + 1, i2) = SubSeq(t2, j1 + 1, j2)
    BY <1>1, EqualParts
<1>6. ds = IF o.op = "equal" THEN <<>>
           ELSE IF o.op = "replace" /\ i2 - i1 = j2 - j1
           THEN [k \in 1..(i2 - i1) |-> Candidate(pair, i1 + k - 1, i1 + k, j1 + k - 1, j1 + k)]
           ELSE <<Candidate(pair, i1, i2, j1, j2)>>
    BY DEF OpcodeCandidates
<1> HIDE DEF C, ds, i1, i2, j1, j2
<1>7. CASE o.op = "equal"
    <2>1. ds = <<>> /\ cs \o <<>> = cs
        BY <1>3, <1>6, <1>7
    <2>2. PatchedTo(t1, t2, cs, i2, j2)
        BY <1>2, <1>4, <1>5, <1>7, PatchEqual
    <2>3. ds \in Seq(C)
        BY <2>1
    <2> QED BY <2>1, <2>2, <2>3 DEF C, ds, i2, j2
<1>8. CASE o.op # "equal" /\ o.op = "replace" /\ i2 - i1 = j2 - j1
    <2> DEFINE d == i2 - i1
    <2>1. d \in Nat /\ i1 + d = i2 /\ j1 + d = j2
        BY <1>2, <1>8
    <2>2. ds = TokenByToken(pair, i1, j1, d)
        BY <1>6, <1>8 DEF TokenByToken
    <2> HIDE DEF d
    <2>3. ds \in Seq(C) /\ PatchedTo(t1, t2, cs \o ds, i2, j2)
        BY <1>2, <1>4, <2>1, <2>2, PatchOneByOne DEF C
    <2> QED BY <2>3 DEF C, ds, i2, j2
<1>9. CASE o.op # "equal" /\ ~(o.op = "replace" /\ i2 - i1 = j2 - j1)
    <2> DEFINE c == Candidate(pair, i1, i2, j1, j2)
    <2>1. c \in CandidateSet /\ c.i1 = i1 /\ c.i2 = i2 /\ c.j1 = j1 /\ c.j2 = j2
        <3>1. At(c, i1, i2, j1, j2)
            BY <1>2, CandidateIs
        <3> QED BY <3>1 DEF At
    <2>2. ds = <<c>>
        BY <1>6, <1>9
    <2> HIDE DEF c
    <2>3. PatchedTo(t1, t2, Append(cs, c), c.i2, c.j2)
        BY <1>2, <1>4, <2>1, PatchMore
    <2>4. c \in C
        BY <1>2, <2>1 DEF CandidatesIn, C
    <2>5. cs \o <<c>> = Append(cs, c) /\ <<c>> \in Seq(C)
        BY ONLY <1>3, <2>4
    <2> QED BY <2>1, <2>2, <2>3, <2>5 DEF C, ds, i2, j2
<1> QED BY <1>7, <1>8, <1>9

\* What the candidates of a pair are: candidates, and the whole difference.
Explains(pair, t1, t2, cs) ==
    cs \in Seq(CandidatesIn(t1, t2)) /\ PatchedTo(t1, t2, cs, Len(t1), Len(t2))

\* The tokens of the two sides of a pair.
Text1(pair) == Tokens(Words(pair.file1))
Text2(pair) == Tokens(Words(pair.file2))

\* The sides of a pair are texts.
LEMMA PairTexts ==
    ASSUME NEW pair \in PairSet
    PROVE  /\ Text1(pair) \in TokenText /\ Text2(pair) \in TokenText
           /\ Len(Text1(pair)) \in Nat /\ Len(Text2(pair)) \in Nat
<1>1. pair.file1 \in Seq(BlockSet) /\ pair.file2 \in Seq(BlockSet)
    BY DEF PairSet
<1>2. Text1(pair) \in TokenText /\ Text2(pair) \in TokenText
    BY <1>1, WordsType, TokensType DEF Text1, Text2
<1>3. \A t \in TokenText : Len(t) \in Nat
    BY DEF TokenText
<1> QED BY <1>2, <1>3

\* A candidate for the whole of a block explains its change.
LEMMA WholeBlockExplains ==
    ASSUME NEW pair \in PairSet
    PROVE  Explains(pair, Text1(pair), Text2(pair), WholeBlock(pair))
<1> DEFINE t1 == Text1(pair)
           t2 == Text2(pair)
           n1 == Len(t1)
           n2 == Len(t2)
           z == 0
           c == Candidate(pair, z, n1, z, n2)
<1>1. t1 \in TokenText /\ t2 \in TokenText /\ n1 \in Nat /\ n2 \in Nat /\ z \in Nat
    BY PairTexts
<1>2. WholeBlock(pair) = <<c>>
    BY DEF WholeBlock, Text1, Text2
<1> HIDE DEF t1, t2, z
<1>3. PatchedTo(t1, t2, <<>>, z, z)
    BY <1>1, PatchFirst DEF z
<1>4. n1 \in 0..Len(t1) /\ n2 \in 0..Len(t2) /\ z <= n2
    BY <1>1 DEF z
<1> HIDE DEF n1, n2
<1>5. c \in CandidateSet /\ c.i1 = z /\ c.i2 = n1 /\ c.j1 = z /\ c.j2 = n2
    <2>1. At(c, z, n1, z, n2)
        BY <1>1, CandidateIs
    <2> QED BY <2>1 DEF At
<1> HIDE DEF c
<1>6. PatchedTo(t1, t2, Append(<<>>, c), c.i2, c.j2)
    BY <1>1, <1>3, <1>4, <1>5, PatchMore
<1>7. PatchedTo(t1, t2, <<c>>, n1, n2)
    <2>1. Append(<<>>, c) = <<c>>
        OBVIOUS
    <2> QED BY <1>5, <1>6, <2>1
<1>8. <<c>> \in Seq(CandidatesIn(t1, t2))
    BY <1>7 DEF PatchedTo
<1> QED BY <1>2, <1>7, <1>8 DEF Explains, n1, n2, t1, t2

\* The candidates of all the opcodes explain the change.
LEMMA OpcodesExplain ==
    ASSUME NEW pair \in PairSet, NEW t1 \in TokenText, NEW t2 \in TokenText, NEW ops, ops = Opcodes(t1, t2)
    PROVE  Explains(pair, t1, t2, FlattenSeq([n \in 1..Len(ops) |-> OpcodeCandidates(pair, ops[n])]))
<1> DEFINE n == Len(ops)
           css == [k \in 1..n |-> OpcodeCandidates(pair, ops[k])]
           C == CandidatesIn(t1, t2)
           B == Seq(C)
           la == Len(t1)
           lb == Len(t2)
           z == 0
<1>1. la \in Nat /\ lb \in Nat /\ t1 \in Seq(Token) /\ t2 \in Seq(Token)
    BY DEF TokenText
<1>2. ops \in Seq(OpcodeSet(t1, t2)) /\ Leads(ops, <<z, z>>, <<la, lb>>)
    BY <1>1, OpcodesLead
<1>3. n \in Nat /\ \A k \in 1..n : ops[k] \in OpcodeSet(t1, t2)
    BY <1>2
<1>4. PICK at : Passes(ops, <<z, z>>, <<la, lb>>, at)
    BY <1>2 DEF Leads
<1>5. \A k \in 1..n : /\ at[k - 1] = <<ops[k].i1, ops[k].j1>>
                      /\ at[k] = <<ops[k].i2, ops[k].j2>>
    BY <1>4 DEF Passes
<1> HIDE DEF n, C
<1> DEFINE Good(cs, k) == cs \in B /\ PatchedTo(t1, t2, cs, at[k][1], at[k][2])
           S == {k \in 0..n : Upto(css, k) \in Seq(B) /\ Good(FlattenSeq(Upto(css, k)), k)}
<1>6. /\ Len(css) = n /\ \A k \in 1..n : css[k] = OpcodeCandidates(pair, ops[k])
      /\ css = [k \in 1..n |-> css[k]]
    BY <1>3
<1> HIDE DEF css
<1>7. css \in Seq({css[k] : k \in 1..n})
    BY ONLY <1>3, <1>6
<1>8. /\ Upto(css, 0) = <<>> /\ Upto(css, n) = css
      /\ \A k \in 0..n : k < n => Upto(css, k + 1) = Append(Upto(css, k), css[k + 1])
    BY ONLY <1>6, <1>7, UptoProperties
<1>9. z \in S
    <2>1. at[z] = <<z, z>>
        BY <1>4 DEF Passes
    <2>2. PatchedTo(t1, t2, <<>>, z, z)
        BY PatchFirst
    <2>3. z \in 0..n /\ <<>> \in B /\ <<>> \in Seq(B)
        BY <1>3
    <2>4. Upto(css, z) = <<>>
        BY <1>8
    <2> HIDE DEF z, B
    <2>5. Good(<<>>, z)
        BY <2>1, <2>2, <2>3
    <2> QED BY <2>3, <2>4, <2>5, FlatEmpty
<1>10. ASSUME NEW k \in 0..n, k < n, k \in S PROVE k + 1 \in S
    <2> DEFINE o == ops[k + 1]
               us == Upto(css, k)
               cs == FlattenSeq(us)
               ds == css[k + 1]
    <2>1. k + 1 \in 1..n /\ k + 1 \in 0..n /\ (k + 1) - 1 = k
        BY <1>3, <1>10
    <2>2. at[k] = <<o.i1, o.j1>> /\ at[k + 1] = <<o.i2, o.j2>> /\ o \in OpcodeSet(t1, t2)
        BY <1>3, <1>5, <2>1
    <2>3. us \in Seq(B) /\ cs \in B /\ PatchedTo(t1, t2, cs, at[k][1], at[k][2])
        BY <1>10
    <2>4. ds = OpcodeCandidates(pair, o) /\ Upto(css, k + 1) = Append(us, ds)
        BY <1>6, <1>8, <1>10, <2>1
    <2> HIDE DEF o, us, ds
    <2> DEFINE i1 == o.i1
               j1 == o.j1
    <2>5. PatchedTo(t1, t2, cs, o.i1, o.j1)
        BY <2>2, <2>3
    <2> HIDE DEF cs, B, Good
    <2>6. ds \in Seq(C) /\ PatchedTo(t1, t2, cs \o ds, o.i2, o.j2)
        BY <2>2, <2>4, <2>5, OpcodePatches DEF C
    <2>7. FlattenSeq(Append(us, ds)) = cs \o ds
        BY <2>3, <2>6, FlatAppend DEF cs, B
    <2>8. cs \o ds \in B /\ Append(us, ds) \in Seq(B)
        BY <2>3, <2>6 DEF B
    <2>9. Good(cs \o ds, k + 1)
        BY <2>2, <2>6, <2>8 DEF Good
    <2> QED BY <2>1, <2>4, <2>7, <2>8, <2>9
<1>11. n \in S
    <2> HIDE DEF S
    <2>1. \A k \in 0..n : k \in S
        BY <1>3, <1>9, <1>10, BoundedInduction
    <2> QED BY <1>3, <2>1
<1>12. Good(FlattenSeq(css), n)
    BY <1>8, <1>11
<1>13. at[n] = <<la, lb>>
    BY <1>4 DEF Passes, n
<1> QED BY <1>12, <1>13 DEF Explains, css, n, C

\* _diff_block_pair and _whole_block_candidate give the whole difference.
LEMMA PairCandidatesExplain ==
    ASSUME NEW pair \in PairSet
    PROVE  Explains(pair, Text1(pair), Text2(pair), PairCandidates(pair))
<1> DEFINE t1 == Text1(pair)
           t2 == Text2(pair)
<1>1. t1 \in TokenText /\ t2 \in TokenText /\ Len(t1) \in Nat /\ Len(t2) \in Nat
    BY PairTexts
<1>2. Explains(pair, t1, t2, WholeBlock(pair))
    BY WholeBlockExplains
<1>3. pair.op \in {"equal", "replace", "insert", "delete"}
    BY DEF PairSet
<1>4. CASE pair.op = "equal"
    <2>1. t1 = t2
        BY <1>4 DEF PairSet, Text1, Text2
    <2>2. PairCandidates(pair) = <<>>
        BY <1>4 DEF PairCandidates
    <2> HIDE DEF t1, t2
    <2>3. PatchedTo(t1, t2, <<>>, 0, 0)
        BY <1>1, PatchFirst
    <2> DEFINE n == Len(t1)
               z == 0
    <2>4. SubSeq(t1, z + 1, n) = SubSeq(t2, z + 1, n) /\ n \in 0..Len(t1) /\ n \in 0..Len(t2) /\ z <= n
        BY <1>1, <2>1
    <2>5. PatchedTo(t1, t2, <<>>, z, z)
        BY <2>3
    <2> HIDE DEF n, z
    <2>6. PatchedTo(t1, t2, <<>>, n, n)
        BY <1>1, <2>4, <2>5, PatchEqual
    <2>7. <<>> \in Seq(CandidatesIn(t1, t2))
        OBVIOUS
    <2> QED BY <2>1, <2>2, <2>6, <2>7 DEF Explains, n, t1, t2
<1>5. CASE pair.op \in {"insert", "delete"}
    BY <1>2, <1>5 DEF PairCandidates
<1>6. CASE pair.op = "replace"
    <2> DEFINE ops == Opcodes(t1, t2)
               found == FlattenSeq([n \in 1..Len(ops) |-> OpcodeCandidates(pair, ops[n])])
    <2>1. DiffBlockPair(pair) = IF found = <<>> /\ Key(Words(pair.file1)) # Key(Words(pair.file2))
                                THEN WholeBlock(pair) ELSE found
        BY DEF DiffBlockPair, Text1, Text2
    <2>2. PairCandidates(pair) = DiffBlockPair(pair)
        BY <1>6 DEF PairCandidates
    <2>3. Explains(pair, t1, t2, found)
        <3> HIDE DEF t1, t2
        <3> DEFINE p == ops
        <3>1. p = Opcodes(t1, t2)
            OBVIOUS
        <3> HIDE DEF p
        <3>2. Explains(pair, t1, t2, FlattenSeq([n \in 1..Len(p) |-> OpcodeCandidates(pair, p[n])]))
            BY <1>1, <3>1, OpcodesExplain
        <3> QED BY <3>2 DEF p
    <2> HIDE DEF found
    <2> QED BY <1>2, <2>1, <2>2, <2>3
<1> QED BY <1>3, <1>4, <1>5, <1>6
-----------------------------------------------------------------------------
(* Cutting a text *)

\* A text cut in pieces, the last of them at hand.
CutSet == [done : Seq(Text), current : Text]

\* The text ws, cut into pieces of the set P, the last one of the set Q.
IsCut(cut, ws, P, Q) ==
    /\ cut \in CutSet
    /\ cut.done \in Seq(P)
    /\ cut.current \in Q
    /\ FlattenSeq(cut.done) \o cut.current = ws

\* The pieces ps are ws.
PiecesOf(ps, ws, P) == ps \in Seq(P) /\ FlattenSeq(ps) = ws

\* Concatenation of texts.
LEMMA TextAssoc ==
    ASSUME NEW s \in Text, NEW t \in Text, NEW u \in Text
    PROVE  (s \o t) \o u = s \o (t \o u)
<1>1. s \in Seq(Glyphs) /\ t \in Seq(Glyphs) /\ u \in Seq(Glyphs)
    BY DEF Text
<1> QED BY <1>1, Assoc DEF Associates

\* Concatenation with no text.
LEMMA TextEmpty == \A s \in Text : s \o <<>> = s /\ <<>> \o s = s
BY DEF Text

\* Pieces of a text are a text.
LEMMA TextFlat ==
    ASSUME NEW P \in SUBSET Text, NEW ss \in Seq(P)
    PROVE  ss \in Seq(Text) /\ FlattenSeq(ss) \in Text
<1>1. ss \in Seq(Text)
    OBVIOUS
<1>2. ss \in Seq(Seq(Glyphs))
    BY <1>1 DEF Text
<1>3. FlattenSeq(ss) \in Seq(Glyphs)
    BY <1>2, FlatType
<1> QED BY <1>1, <1>3 DEF Text

\* One piece more.
LEMMA TextFlatAppend ==
    ASSUME NEW P \in SUBSET Text, NEW ss \in Seq(P), NEW s \in P
    PROVE  FlattenSeq(Append(ss, s)) = FlattenSeq(ss) \o s
<1>1. ss \in Seq(Text) /\ s \in Text
    BY TextFlat
<1>2. ss \in Seq(Seq(Glyphs)) /\ s \in Seq(Glyphs)
    BY <1>1 DEF Text
<1> QED BY <1>2, FlatAppend

\* Pieces after pieces.
LEMMA TextFlatConcat ==
    ASSUME NEW P \in SUBSET Text, NEW ss \in Seq(P), NEW tt \in Seq(P)
    PROVE  ss \o tt \in Seq(P) /\ FlattenSeq(ss \o tt) = FlattenSeq(ss) \o FlattenSeq(tt)
<1>1. ss \in Seq(Text) /\ tt \in Seq(Text)
    BY TextFlat
<1>2. ss \in Seq(Seq(Glyphs)) /\ tt \in Seq(Seq(Glyphs))
    BY <1>1 DEF Text
<1>3. ss \o tt \in Seq(P)
    OBVIOUS
<1> QED BY <1>2, <1>3, FlatConcat

\* Nothing is cut from nothing.
LEMMA CutNone ==
    ASSUME NEW P \in SUBSET Text, NEW Q \in SUBSET Text, <<>> \in Q
    PROVE  IsCut(Cut(<<>>, <<>>), <<>>, P, Q)
<1>1. Cut(<<>>, <<>>) \in CutSet
    BY TextType DEF Cut, CutSet
<1>2. <<>> \in Seq(P) /\ <<>> \o <<>> = <<>>
    OBVIOUS
<1> QED BY <1>1, <1>2, FlatEmpty DEF IsCut, Cut

\* A text is added to the piece at hand.
LEMMA CutLonger ==
    ASSUME NEW P \in SUBSET Text, NEW Q \in SUBSET Text, NEW cut, NEW ws, IsCut(cut, ws, P, Q),
           NEW s \in Text, NEW R \in SUBSET Text, cut.current \o s \in R
    PROVE  IsCut(Cut(cut.done, cut.current \o s), ws \o s, P, R)
<1> DEFINE d == cut.done
           c == cut.current
           f == FlattenSeq(d)
<1>1. d \in Seq(Text) /\ c \in Text /\ d \in Seq(P) /\ f \o c = ws
    BY DEF IsCut, CutSet
<1>2. f \in Text
    BY <1>1, TextFlat
<1> HIDE DEF d, c, f
<1>3. (f \o c) \o s = f \o (c \o s)
    BY <1>1, <1>2, TextAssoc
<1>4. Cut(d, c \o s).done = d /\ Cut(d, c \o s).current = c \o s
    BY DEF Cut
<1>5. c \o s \in Text /\ c \o s \in R
    BY DEF c
<1>6. Cut(d, c \o s) \in CutSet
    BY <1>1, <1>5 DEF Cut, CutSet
<1>7. IsCut(Cut(d, c \o s), ws \o s, P, R)
    BY <1>1, <1>3, <1>4, <1>5, <1>6 DEF IsCut, f
<1> QED BY <1>7 DEF d, c

\* The piece at hand is closed, and another one begun.
LEMMA CutClose ==
    ASSUME NEW P \in SUBSET Text, NEW Q \in SUBSET Text, NEW cut, NEW ws, IsCut(cut, ws, P, Q),
           cut.current \in P, NEW s \in Text, NEW R \in SUBSET Text, s \in R
    PROVE  IsCut(Cut(Append(cut.done, cut.current), s), ws \o s, P, R)
<1> DEFINE d == cut.done
           c == cut.current
           e == Append(d, c)
<1>1. d \in Seq(Text) /\ c \in Text /\ d \in Seq(P) /\ c \in P /\ FlattenSeq(d) \o c = ws
    BY DEF IsCut, CutSet
<1> HIDE DEF d, c
<1>2. FlattenSeq(e) = ws /\ e \in Seq(P) /\ e \in Seq(Text)
    <2>1. e \in Seq(P) /\ e \in Seq(Text)
        BY ONLY <1>1
    <2>2. FlattenSeq(e) = FlattenSeq(d) \o c
        BY ONLY <1>1, TextFlatAppend
    <2> QED BY ONLY <1>1, <2>1, <2>2
<1> HIDE DEF e
<1>3. Cut(e, s) \in CutSet /\ Cut(e, s).done = e /\ Cut(e, s).current = s
    BY <1>2 DEF Cut, CutSet
<1>4. IsCut(Cut(e, s), ws \o s, P, R)
    BY <1>2, <1>3 DEF IsCut
<1> QED BY <1>4 DEF e, d, c

\* The pieces of a text, the one at hand closed.
LEMMA CutPieces ==
    ASSUME NEW P \in SUBSET Text, NEW Q \in SUBSET P, NEW cut, NEW ws, IsCut(cut, ws, P, Q)
    PROVE  PiecesOf(Pieces(cut), ws, P)
<1> DEFINE d == cut.done
           c == cut.current
<1>1. d \in Seq(P) /\ c \in P /\ FlattenSeq(d) \o c = ws
    BY DEF IsCut
<1> HIDE DEF d, c
<1>2. CASE c = <<>>
    <2>1. FlattenSeq(d) \in Text
        BY <1>1, TextFlat
    <2>2. FlattenSeq(d) = ws
        BY <1>1, <1>2, <2>1, TextEmpty
    <2> QED BY <1>1, <1>2, <2>2 DEF PiecesOf, Pieces, d, c
<1>3. CASE c # <<>>
    <2>0. Append(d, c) \in Seq(P)
        BY <1>1
    <2>1. FlattenSeq(Append(d, c)) = ws
        BY <1>1, TextFlatAppend
    <2> QED BY <1>3, <2>0, <2>1 DEF PiecesOf, Pieces, d, c
<1> QED BY <1>2, <1>3

\* Pieces that are known are added.
LEMMA CutPiecewise ==
    ASSUME NEW P \in SUBSET Text, NEW Q \in SUBSET P, NEW cut, NEW ws, IsCut(cut, ws, P, Q),
           NEW s \in Text, NEW ps, PiecesOf(ps, s, P), <<>> \in Q
    PROVE  IsCut(Cut(Pieces(cut) \o ps, <<>>), ws \o s, P, Q)
<1> DEFINE e == Pieces(cut)
<1>1. e \in Seq(P) /\ FlattenSeq(e) = ws /\ ps \in Seq(P) /\ FlattenSeq(ps) = s
    BY CutPieces DEF PiecesOf
<1> HIDE DEF e
<1> DEFINE d == e \o ps
<1>2. d \in Seq(P) /\ FlattenSeq(d) = ws \o s
    BY <1>1, TextFlatConcat
<1> HIDE DEF d
<1>3. d \in Seq(Text) /\ FlattenSeq(d) \in Text
    BY <1>2, TextFlat
<1>4. Cut(d, <<>>) \in CutSet /\ Cut(d, <<>>).done = d /\ Cut(d, <<>>).current = <<>>
    BY <1>3, TextType DEF Cut, CutSet
<1>5. FlattenSeq(d) \o <<>> = ws \o s
    BY <1>2, <1>3, TextEmpty
<1>6. IsCut(Cut(d, <<>>), ws \o s, P, Q)
    BY <1>2, <1>4, <1>5 DEF IsCut
<1> QED BY <1>6 DEF d, e

-----------------------------------------------------------------------------
(* Sentences, slices and long paragraphs *)

\* A turn over the characters of a paragraph, of a long sentence, and over the sentences
\* of a paragraph.
SentenceStep(acc, g) ==
    IF EndsSentence(acc.current) /\ ~g.glued
    THEN Cut(Append(acc.done, acc.current), <<g>>)
    ELSE Cut(acc.done, Append(acc.current, g))

SliceStep(acc, g) ==
    IF Len(acc.current) = MaxChars
    THEN Cut(Append(acc.done, acc.current), <<Glyph(g.char, FALSE)>>)
    ELSE Cut(acc.done, Append(acc.current, g))

SplitStep(acc, s) ==
    IF Len(s) > MaxChars THEN Cut(Pieces(acc) \o Slices(s), <<>>)
    ELSE IF acc.current # <<>> /\ Len(acc.current) + Len(s) > MaxChars
    THEN Cut(Append(acc.done, acc.current), s)
    ELSE Cut(acc.done, acc.current \o s)

\* The texts of at most MaxChars, and those in which no sentence ends before the end.
Short == {t \in Lines : Len(t) <= MaxChars}

Unbroken == {t \in Lines : \A i \in 1..(Len(t) - 1) : ~EndsAt(t, i)}

\* They are texts, and the empty text is one of them.
LEMMA ShortTexts ==
    /\ Short \in SUBSET Lines /\ Short \in SUBSET Text /\ <<>> \in Short
    /\ Unbroken \in SUBSET Lines /\ Unbroken \in SUBSET Text /\ <<>> \in Unbroken
    /\ Short \in SUBSET Short /\ Unbroken \in SUBSET Unbroken
    /\ MaxChars \in Nat \ {0} /\ \A t \in Text : Len(t) \in Nat
<1>1. MaxChars \in Nat \ {0} /\ \A t \in Text : Len(t) \in Nat
    BY DiffAssumption DEF Text
<1>2. <<>> \in Lines /\ Len(<<>>) = 0 /\ Lines \in SUBSET Text
    BY LinesType
<1>3. 1..(Len(<<>>) - 1) = {}
    BY <1>2
<1> QED BY <1>1, <1>2, <1>3 DEF Short, Unbroken

\* A text with one character more.
LEMMA LongerText ==
    ASSUME NEW cut \in CutSet, NEW g \in Glyphs
    PROVE  /\ <<g>> \in Text /\ cut.current \in Text /\ cut.done \in Seq(Text)
           /\ Append(cut.current, g) = cut.current \o <<g>>
           /\ Append(cut.current, g) \in Text
           /\ Len(Append(cut.current, g)) = Len(cut.current) + 1
<1>1. cut.current \in Text /\ cut.done \in Seq(Text)
    BY DEF CutSet
<1> DEFINE c == cut.current
<1> HIDE DEF c
<1>2. c \in Seq(Glyphs) /\ g \in Glyphs
    BY <1>1 DEF c, Text
<1>3. /\ <<g>> \in Seq(Glyphs) /\ Append(c, g) = c \o <<g>> /\ Append(c, g) \in Seq(Glyphs)
      /\ Len(Append(c, g)) = Len(c) + 1
    BY ONLY <1>2
<1> QED BY <1>1, <1>3 DEF c, Text

\* A character at the begin of a piece.
LEMMA BeginsText ==
    ASSUME NEW g \in Glyphs PROVE Glyph(g.char, FALSE) \in Glyphs
<1>1. g.char \in Chars
    BY DEF Glyphs
<1> QED BY <1>1 DEF Glyph, Glyphs

\* Each turn leaves a text cut in pieces.
LEMMA StepTypes ==
    ASSUME NEW acc \in CutSet, NEW g \in Glyphs
    PROVE  SentenceStep(acc, g) \in CutSet /\ SliceStep(acc, g) \in CutSet
<1> DEFINE next == Append(acc.current, g)
           h == Glyph(g.char, FALSE)
<1>1. next \in Text /\ acc.done \in Seq(Text) /\ <<g>> \in Text /\ acc.current \in Text
    BY LongerText
<1>2. <<h>> \in Text
    BY BeginsText, LongerText
<1>3. SentenceStep(acc, g) \in {Cut(Append(acc.done, acc.current), <<g>>), Cut(acc.done, next)}
    BY DEF SentenceStep
<1>4. SliceStep(acc, g) \in {Cut(Append(acc.done, acc.current), <<h>>), Cut(acc.done, next)}
    BY DEF SliceStep
<1> HIDE DEF next, h
<1>5. Append(acc.done, acc.current) \in Seq(Text)
    BY <1>1
<1>6. \A d \in Seq(Text), t \in Text : Cut(d, t) \in CutSet
    BY DEF Cut, CutSet
<1> QED BY <1>1, <1>2, <1>3, <1>4, <1>5, <1>6

\* The turns of split_sentences.
SentenceLoop(ws, acc) ==
    /\ acc[0] = Cut(<<>>, <<>>)
    /\ \A k \in 0..Len(ws) : k < Len(ws) => acc[k + 1] = SentenceStep(acc[k], ws[k + 1])

\* Sentences as a loop.
LEMMA SentenceExists ==
    ASSUME NEW ws \in Text
    PROVE  \E acc \in [0..Len(ws) -> CutSet] :
               SentenceLoop(ws, acc) /\ Sentences(ws) = Pieces(acc[Len(ws)])
<1> DEFINE n == Len(ws)
           A == CutSet
           base == Cut(<<>>, <<>>)
           step == [xk \in A \X (1..n) |-> SentenceStep(xk[1], ws[xk[2]])]
           P(f) == f = [z \in SUBSET (DOMAIN ws) |->
                           IF z = {} THEN base ELSE SentenceStep(f[z \ {Max(z)}], ws[Max(z)])]
           it == CHOOSE f : P(f)
<1>1. n \in Nat /\ DOMAIN ws = 1..n /\ \A k \in 1..n : ws[k] \in Glyphs
    BY DEF Text
<1>2. \A x \in A, k \in 1..n : step[<<x, k>>] = SentenceStep(x, ws[k])
    OBVIOUS
<1>3. step \in [A \X (1..n) -> A] /\ base \in A
    <2>1. base \in A
        <3>1. <<>> \in Text /\ <<>> \in Seq(Text)
            BY TextType
        <3> QED BY <3>1 DEF Cut, CutSet
    <2>2. \A x \in A, k \in 1..n : SentenceStep(x, ws[k]) \in A
        BY <1>1, StepTypes
    <2> HIDE DEF A, base
    <2> QED BY <2>1, <2>2
<1> HIDE DEF A, base, step, n
<1>4. ASSUME NEW f \in [SUBSET (1..n) -> A], Folds(base, n, step, f)
      PROVE  FoldsIn(A, base, n, step, it)
    <2>1. P(f)
        BY <1>1, <1>2, <1>4, LastOff DEF Folds
    <2>2. P(it)
        <3> HIDE DEF P
        <3> QED BY <2>1
    <2> HIDE DEF it
    <2> QED BY <1>1, <1>2, <2>2, LastOff DEF FoldsIn
<1>5. PICK acc \in [0..n -> A] : LoopOf(base, n, step, it, acc)
    <2> HIDE DEF it
    <2> QED BY <1>1, <1>3, <1>4, FoldLoop
<1>6. Sentences(ws) = Pieces(it[1..n])
    BY <1>1 DEF Sentences, SentenceStep, FoldLeft, MapThenFoldSet, base
<1> HIDE DEF it
<1>7. ASSUME NEW k \in 0..n, k < n PROVE acc[k + 1] = SentenceStep(acc[k], ws[k + 1])
    <2>1. acc[k] \in A /\ k + 1 \in 1..n
        BY <1>1, <1>7
    <2> QED BY <1>2, <1>5, <1>7, <2>1 DEF LoopOf, Turns
<1> QED BY <1>5, <1>6, <1>7 DEF LoopOf, Turns, SentenceLoop, n, A, base

\* A text and one character more, that is one of them.
LEMMA OneMore ==
    ASSUME NEW c \in Text, NEW g \in Glyphs
    PROVE  /\ c \o <<g>> \in Text /\ Len(c \o <<g>>) = Len(c) + 1
           /\ (c \o <<g>>)[Len(c) + 1] = g
           /\ \A i \in 1..Len(c) : (c \o <<g>>)[i] = c[i]
           /\ c \o <<g>> # <<>>
BY DEF Text

\* A sentence goes on.
LEMMA UnbrokenLonger ==
    ASSUME NEW c \in Unbroken, NEW g \in Glyphs, c = <<>> => ~g.glued,
           ~(EndsSentence(c) /\ ~g.glued)
    PROVE  c \o <<g>> \in Unbroken
<1> DEFINE t == c \o <<g>>
<1>1. c \in Lines /\ c \in Text /\ Len(c) \in Nat
    BY ShortTexts
<1>2. /\ t \in Text /\ Len(t) = Len(c) + 1 /\ t[Len(c) + 1] = g /\ t # <<>>
      /\ \A i \in 1..Len(c) : t[i] = c[i]
    BY <1>1, OneMore
<1> HIDE DEF t
<1>3. ~t[1].glued
    <2>1. CASE c = <<>>
        <3>1. Len(c) + 1 = 1
            BY <2>1
        <3> QED BY <1>2, <2>1, <3>1
    <2>2. CASE c # <<>>
        <3>1. 1 \in 1..Len(c) /\ ~c[1].glued
            BY <1>1, <2>2 DEF Lines, Text
        <3> QED BY <1>2, <3>1
    <2> QED BY <2>1, <2>2
<1>4. t \in Lines
    BY <1>2, <1>3 DEF Lines
<1>5. ASSUME NEW i \in 1..(Len(t) - 1) PROVE ~EndsAt(t, i)
    <2>1. i \in 1..Len(c) /\ i < Len(t) /\ t[i] = c[i]
        BY <1>1, <1>2
    <2>2. CASE i < Len(c)
        <3>1. i \in 1..(Len(c) - 1) /\ i + 1 \in 1..Len(c)
            BY <1>1, <2>1, <2>2
        <3>2. ~EndsAt(c, i) /\ t[i + 1] = c[i + 1]
            BY <1>2, <3>1 DEF Unbroken
        <3> QED BY <2>1, <2>2, <3>2 DEF EndsAt
    <2>3. CASE i = Len(c)
        <3>1. t[i + 1] = g /\ c # <<>> /\ c[i] = Last(c)
            BY <1>1, <1>2, <2>1, <2>3 DEF Last
        <3>2. ~(c[i].char = "." /\ ~g.glued)
            BY <3>1 DEF EndsSentence
        <3> QED BY <2>1, <3>1, <3>2 DEF EndsAt
    <2> QED BY <1>1, <2>1, <2>2, <2>3
<1> QED BY <1>4, <1>5 DEF Unbroken, t

\* A sentence begins.
LEMMA UnbrokenFirst ==
    ASSUME NEW g \in Glyphs, ~g.glued PROVE <<g>> \in Unbroken
<1>1. <<g>> \in Text /\ Len(<<g>>) = 1 /\ <<g>>[1] = g
    BY DEF Text
<1>2. 1..(Len(<<g>>) - 1) = {}
    BY <1>1
<1> QED BY <1>1, <1>2 DEF Unbroken, Lines

\* The first k characters are cut into sentences.
SentenceInv(cut, ws, k) ==
    /\ IsCut(cut, Upto(ws, k), Unbroken, Unbroken)
    /\ cut.current = <<>> => k = 0

\* A character more keeps that.
LEMMA SentenceStepKeeps ==
    ASSUME NEW ws \in Lines, NEW k \in 0..Len(ws), k < Len(ws), NEW cut, SentenceInv(cut, ws, k)
    PROVE  SentenceInv(SentenceStep(cut, ws[k + 1]), ws, k + 1)
<1> DEFINE g == ws[k + 1]
           u == Upto(ws, k)
           c == cut.current
           d == cut.done
<1>1. ws \in Seq(Glyphs) /\ Len(ws) \in Nat /\ k + 1 \in 1..Len(ws)
    BY LinesType DEF Text
<1>2. g \in Glyphs /\ u \in Text /\ Upto(ws, k + 1) = u \o <<g>>
    <2>1. Upto(ws, k) \in Seq(Glyphs) /\ Upto(ws, k + 1) = Append(Upto(ws, k), ws[k + 1])
        BY <1>1, UptoProperties
    <2>2. g \in Glyphs
        BY <1>1
    <2> HIDE DEF g, u
    <2>3. Append(u, g) = u \o <<g>> /\ u \in Seq(Glyphs)
        BY <2>1, <2>2 DEF u
    <2> QED BY <2>1, <2>2, <2>3 DEF g, u, Text
<1>3. k = 0 => ~g.glued
    <2>1. ws # <<>> => ~ws[1].glued
        BY DEF Lines
    <2>2. ws # <<>>
        BY <1>1
    <2> QED BY <2>1, <2>2
<1> HIDE DEF u, g
<1>4. IsCut(cut, u, Unbroken, Unbroken) /\ (c = <<>> => k = 0) /\ cut \in CutSet
    BY DEF SentenceInv, IsCut, u
<1>5. c \in Unbroken
    BY <1>4 DEF IsCut
<1>6. Append(c, g) = c \o <<g>> /\ <<g>> \in Text
    BY <1>2, <1>4, LongerText
<1>7. SentenceStep(cut, g) = IF EndsSentence(c) /\ ~g.glued THEN Cut(Append(d, c), <<g>>)
                             ELSE Cut(d, c \o <<g>>)
    BY <1>6 DEF SentenceStep
<1>8. CASE EndsSentence(c) /\ ~g.glued
    <2>1. <<g>> \in Unbroken
        BY <1>2, <1>8, UnbrokenFirst
    <2>2. IsCut(Cut(Append(d, c), <<g>>), u \o <<g>>, Unbroken, Unbroken)
        BY <1>4, <1>5, <1>6, <2>1, CutClose, ShortTexts
    <2>3. Cut(Append(d, c), <<g>>).current # <<>>
        BY DEF Cut
    <2>4. SentenceStep(cut, g) = Cut(Append(d, c), <<g>>)
        BY <1>7, <1>8
    <2> HIDE DEF c, d
    <2> QED BY <1>2, <2>2, <2>3, <2>4 DEF SentenceInv, g
<1>9. CASE ~(EndsSentence(c) /\ ~g.glued)
    <2> DEFINE t == c \o <<g>>
    <2>1. t \in Unbroken
        BY <1>2, <1>3, <1>4, <1>5, <1>9, UnbrokenLonger
    <2>2. IsCut(Cut(d, t), u \o <<g>>, Unbroken, Unbroken)
        BY <1>4, <1>6, <2>1, CutLonger, ShortTexts
    <2>3. t # <<>>
        BY <1>2, <1>5, OneMore, ShortTexts
    <2> HIDE DEF t
    <2>4. Cut(d, t).current # <<>>
        BY <2>3 DEF Cut
    <2>5. SentenceStep(cut, g) = Cut(d, t)
        BY <1>7, <1>9 DEF t
    <2> HIDE DEF c, d
    <2> QED BY <1>2, <2>2, <2>4, <2>5 DEF SentenceInv, g
<1> QED BY <1>8, <1>9

\* The sentences are the paragraph, and none of them ends in the midst of one.
LEMMA SentencesKeep ==
    ASSUME NEW ws \in Lines
    PROVE  PiecesOf(Sentences(ws), ws, Unbroken)
<1> DEFINE n == Len(ws)
<1>1. n \in Nat /\ ws \in Text /\ ws \in Seq(Glyphs)
    BY LinesType DEF Text
<1>2. PICK acc \in [0..n -> CutSet] : SentenceLoop(ws, acc) /\ Sentences(ws) = Pieces(acc[n])
    BY <1>1, SentenceExists
<1>3. Upto(ws, 0) = <<>> /\ Upto(ws, n) = ws
    BY <1>1, UptoProperties
<1> DEFINE S == {k \in 0..n : SentenceInv(acc[k], ws, k)}
<1>4. 0 \in S
    <2>1. IsCut(Cut(<<>>, <<>>), <<>>, Unbroken, Unbroken)
        BY CutNone, ShortTexts
    <2>2. acc[0] = Cut(<<>>, <<>>)
        BY <1>2 DEF SentenceLoop
    <2>3. SentenceInv(acc[0], ws, 0)
        BY <1>3, <2>1, <2>2 DEF SentenceInv
    <2> QED BY <1>1, <2>3
<1>5. ASSUME NEW k \in 0..n, k < n, k \in S PROVE k + 1 \in S
    <2>1. k + 1 \in 0..n
        BY <1>1, <1>5
    <2>2. acc[k + 1] = SentenceStep(acc[k], ws[k + 1])
        BY <1>1, <1>2, <1>5 DEF SentenceLoop
    <2>3. SentenceInv(SentenceStep(acc[k], ws[k + 1]), ws, k + 1)
        BY <1>5, SentenceStepKeeps
    <2> QED BY <2>1, <2>2, <2>3
<1>6. n \in S
    <2> HIDE DEF S, n
    <2>1. \A k \in 0..n : k \in S
        BY <1>1, <1>4, <1>5, BoundedInduction
    <2> QED BY <1>1, <2>1
<1> DEFINE cut == acc[n]
<1>7. IsCut(cut, ws, Unbroken, Unbroken)
    BY <1>3, <1>6 DEF SentenceInv
<1> HIDE DEF cut
<1>8. PiecesOf(Pieces(cut), ws, Unbroken)
    BY <1>7, CutPieces, ShortTexts
<1> QED BY <1>2, <1>8 DEF cut

\* A text in pieces that are the text is that text.
LEMMA SplitsSame == ASSUME NEW ws \in Text PROVE Splits(ws, ws)
BY DEF Splits

\* More of a text does not change where its sentences end.
LEMMA EndsEarlier ==
    ASSUME NEW u \in Text, NEW v \in Text, NEW i \in 1..Len(u), i < Len(u)
    PROVE  EndsAt(u \o v, i) <=> EndsAt(u, i)
<1>1. u \in Seq(Glyphs) /\ v \in Seq(Glyphs) /\ Len(u) \in Nat /\ Len(v) \in Nat
    BY DEF Text
<1>2. (u \o v)[i] = u[i] /\ (u \o v)[i + 1] = u[i + 1] /\ i < Len(u \o v)
    BY <1>1
<1> QED BY <1>2 DEF EndsAt

LEMMA EndsLater ==
    ASSUME NEW u \in Text, NEW v \in Text, NEW i \in 1..Len(v), i < Len(v)
    PROVE  EndsAt(u \o v, Len(u) + i) <=> EndsAt(v, i)
<1>1. u \in Seq(Glyphs) /\ v \in Seq(Glyphs) /\ Len(u) \in Nat /\ Len(v) \in Nat
    BY DEF Text
<1> DEFINE a == Len(u) + i
<1>2. (u \o v)[a] = v[i] /\ (u \o v)[a + 1] = v[i + 1] /\ a < Len(u \o v)
    BY <1>1
<1> QED BY <1>2 DEF EndsAt

\* Nor where there is none for a slice's length.
LEMMA LongLater ==
    ASSUME NEW u \in Text, NEW v \in Text, NEW j \in 1..Len(v), LongBefore(v, j)
    PROVE  LongBefore(u \o v, Len(u) + j)
<1>1. PICK k \in Nat : k = Len(u) + j
    BY ShortTexts
<1>2. j > MaxChars /\ \A i \in (j - MaxChars)..(j - 1) : ~EndsAt(v, i)
    BY DEF LongBefore
<1>3. Len(u) \in Nat /\ Len(v) \in Nat /\ MaxChars \in Nat
    BY ShortTexts
<1>4. k > MaxChars
    BY ONLY <1>1, <1>2, <1>3, j \in 1..Len(v)
<1>5. ASSUME NEW i \in (k - MaxChars)..(k - 1) PROVE ~EndsAt(u \o v, i)
    <2>1. PICK h \in Int : h = i - Len(u)
        BY <1>3
    <2>2. h \in 1..Len(v) /\ h < Len(v) /\ h \in (j - MaxChars)..(j - 1) /\ Len(u) + h = i
        BY ONLY <1>1, <1>2, <1>3, <2>1, j \in 1..Len(v), i \in (k - MaxChars)..(k - 1)
    <2>3. EndsAt(u \o v, Len(u) + h) <=> EndsAt(v, h)
        BY <2>2, EndsLater
    <2> QED BY <1>2, <2>2, <2>3
<1>6. LongBefore(u \o v, k)
    BY <1>4, <1>5 DEF LongBefore
<1> QED BY <1>1, <1>6

\* Pieces of two texts are pieces of both together.
LEMMA SplitsConcat ==
    ASSUME NEW x \in Text, NEW u \in Text, NEW y \in Text, NEW v \in Text,
           Splits(x, u), Splits(y, v)
    PROVE  Splits(x \o y, u \o v)
<1> DEFINE m == Len(u)
           n == Len(v)
           z == x \o y
           w == u \o v
<1>1. /\ x \in Seq(Glyphs) /\ u \in Seq(Glyphs) /\ y \in Seq(Glyphs) /\ v \in Seq(Glyphs)
      /\ m \in Nat /\ n \in Nat /\ Len(x) = m /\ Len(y) = n /\ MaxChars \in Nat
    BY ShortTexts DEF Text, Splits
<1>2. Len(z) = m + n /\ Len(w) = m + n
    BY <1>1
<1>3. ASSUME NEW k \in 1..m
      PROVE  /\ z[k].char = w[k].char /\ (z[k].glued => w[k].glued)
             /\ (w[k].glued /\ ~z[k].glued => LongBefore(w, k))
    <2>1. z[k] = x[k] /\ w[k] = u[k]
        BY <1>1
    <2>2. /\ x[k].char = u[k].char /\ (x[k].glued => u[k].glued)
          /\ (u[k].glued /\ ~x[k].glued => LongBefore(u, k))
        BY DEF Splits
    <2>3. ASSUME LongBefore(u, k) PROVE LongBefore(w, k)
        <3>1. k > MaxChars /\ \A i \in (k - MaxChars)..(k - 1) : ~EndsAt(u, i)
            BY <2>3 DEF LongBefore
        <3>2. ASSUME NEW i \in (k - MaxChars)..(k - 1) PROVE ~EndsAt(w, i)
            <4>1. i \in 1..Len(u) /\ i < Len(u)
                BY <1>1, <3>1
            <4> QED BY <3>1, <4>1, EndsEarlier
        <3> QED BY <3>1, <3>2 DEF LongBefore
    <2> QED BY <2>1, <2>2, <2>3
<1>4. ASSUME NEW j \in 1..n
      PROVE  /\ z[m + j].char = w[m + j].char /\ (z[m + j].glued => w[m + j].glued)
             /\ (w[m + j].glued /\ ~z[m + j].glued => LongBefore(w, m + j))
    <2>1. z[m + j] = y[j] /\ w[m + j] = v[j]
        BY <1>1
    <2>2. /\ y[j].char = v[j].char /\ (y[j].glued => v[j].glued)
          /\ (v[j].glued /\ ~y[j].glued => LongBefore(v, j))
        BY DEF Splits
    <2>3. ASSUME LongBefore(v, j) PROVE LongBefore(w, m + j)
        BY <2>3, LongLater
    <2> QED BY <2>1, <2>2, <2>3
<1> HIDE DEF z, w, m, n
<1>5. ASSUME NEW k \in 1..Len(w)
      PROVE  /\ z[k].char = w[k].char /\ (z[k].glued => w[k].glued)
             /\ (w[k].glued /\ ~z[k].glued => LongBefore(w, k))
    <2>1. CASE k <= m
        <3>1. k \in 1..m
            BY <1>1, <1>2, <2>1
        <3> QED BY <1>3, <3>1
    <2>2. CASE ~(k <= m)
        <3> DEFINE j == k - m
        <3>1. j \in 1..n /\ m + j = k
            BY <1>1, <1>2, <2>2
        <3> HIDE DEF j
        <3> QED BY <1>4, <3>1
    <2> QED BY <2>1, <2>2
<1> QED BY <1>2, <1>5 DEF Splits, z, w

\* The turns over the characters of a long sentence.
SliceLoop(ws, acc) ==
    /\ acc[0] = Cut(<<>>, <<>>)
    /\ \A k \in 0..Len(ws) : k < Len(ws) => acc[k + 1] = SliceStep(acc[k], ws[k + 1])

\* Slices as a loop.
LEMMA SliceExists ==
    ASSUME NEW ws \in Text
    PROVE  \E acc \in [0..Len(ws) -> CutSet] : SliceLoop(ws, acc) /\ Slices(ws) = Pieces(acc[Len(ws)])
<1> DEFINE n == Len(ws)
           A == CutSet
           base == Cut(<<>>, <<>>)
           step == [xk \in A \X (1..n) |-> SliceStep(xk[1], ws[xk[2]])]
           P(f) == f = [z \in SUBSET (DOMAIN ws) |->
                           IF z = {} THEN base ELSE SliceStep(f[z \ {Max(z)}], ws[Max(z)])]
           it == CHOOSE f : P(f)
<1>1. n \in Nat /\ DOMAIN ws = 1..n /\ \A k \in 1..n : ws[k] \in Glyphs
    BY DEF Text
<1>2. \A x \in A, k \in 1..n : step[<<x, k>>] = SliceStep(x, ws[k])
    OBVIOUS
<1>3. step \in [A \X (1..n) -> A] /\ base \in A
    <2>1. base \in A
        <3>1. <<>> \in Text /\ <<>> \in Seq(Text)
            BY TextType
        <3> QED BY <3>1 DEF Cut, CutSet
    <2>2. \A x \in A, k \in 1..n : SliceStep(x, ws[k]) \in A
        BY <1>1, StepTypes
    <2> HIDE DEF A, base
    <2> QED BY <2>1, <2>2
<1> HIDE DEF A, base, step, n
<1>4. ASSUME NEW f \in [SUBSET (1..n) -> A], Folds(base, n, step, f)
      PROVE  FoldsIn(A, base, n, step, it)
    <2>1. P(f)
        BY <1>1, <1>2, <1>4, LastOff DEF Folds
    <2>2. P(it)
        <3> HIDE DEF P
        <3> QED BY <2>1
    <2> HIDE DEF it
    <2> QED BY <1>1, <1>2, <2>2, LastOff DEF FoldsIn
<1>5. PICK acc \in [0..n -> A] : LoopOf(base, n, step, it, acc)
    <2> HIDE DEF it
    <2> QED BY <1>1, <1>3, <1>4, FoldLoop
<1>6. Slices(ws) = Pieces(it[1..n])
    BY <1>1 DEF Slices, SliceStep, FoldLeft, MapThenFoldSet, base
<1> HIDE DEF it
<1>7. ASSUME NEW k \in 0..n, k < n PROVE acc[k + 1] = SliceStep(acc[k], ws[k + 1])
    <2>1. acc[k] \in A /\ k + 1 \in 1..n
        BY <1>1, <1>7
    <2> QED BY <1>2, <1>5, <1>7, <2>1 DEF LoopOf, Turns
<1> QED BY <1>5, <1>6, <1>7 DEF LoopOf, Turns, SliceLoop, n, A, base

\* The characters of x are those that ws begins with; only after the limit is there
\* white space that ws has not.
Sliced(x, ws) ==
    /\ x \in Text
    /\ \A j \in 1..Len(x) :
          /\ x[j].char = ws[j].char
          /\ x[j].glued => ws[j].glued
          /\ ws[j].glued /\ ~x[j].glued => j > MaxChars

\* The first k characters, x, are cut into slices.
SliceInv(cut, x, ws, k) ==
    /\ IsCut(cut, x, Short, Short)
    /\ Sliced(x, ws)
    /\ Len(x) = k
    /\ Len(cut.current) <= k
    /\ cut.current = <<>> => k = 0

\* One character more, with or without white space before it.
LEMMA SlicedLonger ==
    ASSUME NEW ws \in Text, NEW k \in 0..Len(ws), k < Len(ws), NEW x, Sliced(x, ws), Len(x) = k,
           NEW h \in Glyphs, h.char = ws[k + 1].char, h.glued => ws[k + 1].glued,
           ws[k + 1].glued /\ ~h.glued => k + 1 > MaxChars
    PROVE  Sliced(x \o <<h>>, ws) /\ Len(x \o <<h>>) = k + 1
<1> DEFINE y == x \o <<h>>
<1>1. x \in Text /\ k \in Nat
    BY DEF Sliced, Text
<1>2. y \in Text /\ Len(y) = k + 1 /\ y[k + 1] = h /\ \A i \in 1..k : y[i] = x[i]
    BY <1>1, OneMore
<1> HIDE DEF y
<1>3. ASSUME NEW j \in 1..Len(y)
      PROVE  /\ y[j].char = ws[j].char
             /\ y[j].glued => ws[j].glued
             /\ ws[j].glued /\ ~y[j].glued => j > MaxChars
    <2>1. CASE j \in 1..k
        <3>1. y[j] = x[j] /\ j \in 1..Len(x)
            BY <1>2, <2>1
        <3> QED BY <3>1 DEF Sliced
    <2>2. CASE j = k + 1
        BY <1>2, <2>2
    <2> QED BY <1>1, <1>2, <2>1, <2>2
<1> QED BY <1>2, <1>3 DEF Sliced, y

\* A slice begins.
LEMMA ShortFirst ==
    ASSUME NEW g \in Glyphs, ~g.glued PROVE <<g>> \in Short
<1>1. <<g>> \in Text /\ Len(<<g>>) = 1 /\ <<g>>[1] = g
    BY DEF Text
<1>2. Len(<<g>>) <= MaxChars
    BY <1>1, ShortTexts
<1> QED BY <1>1, <1>2 DEF Short, Lines

\* A slice goes on.
LEMMA ShortLonger ==
    ASSUME NEW c \in Short, NEW g \in Glyphs, c = <<>> => ~g.glued, Len(c) # MaxChars
    PROVE  c \o <<g>> \in Short
<1> DEFINE t == c \o <<g>>
<1>1. c \in Lines /\ c \in Text /\ Len(c) \in Nat /\ MaxChars \in Nat /\ Len(c) <= MaxChars
    BY ShortTexts DEF Short
<1>2. /\ t \in Text /\ Len(t) = Len(c) + 1 /\ t[Len(c) + 1] = g
      /\ \A i \in 1..Len(c) : t[i] = c[i]
    BY <1>1, OneMore
<1> HIDE DEF t
<1>3. ~t[1].glued
    <2>1. CASE c = <<>>
        <3>1. Len(c) + 1 = 1
            BY <2>1
        <3> QED BY <1>2, <2>1, <3>1
    <2>2. CASE c # <<>>
        <3>1. 1 \in 1..Len(c) /\ ~c[1].glued
            BY <1>1, <2>2 DEF Lines, Text
        <3> QED BY <1>2, <3>1
    <2> QED BY <2>1, <2>2
<1>4. t \in Lines
    BY <1>2, <1>3 DEF Lines
<1>5. Len(t) <= MaxChars
    BY <1>1, <1>2
<1> QED BY <1>4, <1>5 DEF Short, t

\* A character more keeps that.
LEMMA SliceStepKeeps ==
    ASSUME NEW ws \in Lines, NEW k \in 0..Len(ws), k < Len(ws), NEW cut, NEW x, SliceInv(cut, x, ws, k)
    PROVE  \E y : SliceInv(SliceStep(cut, ws[k + 1]), y, ws, k + 1)
<1> DEFINE g == ws[k + 1]
           h == Glyph(g.char, FALSE)
           c == cut.current
           d == cut.done
<1>1. ws \in Text /\ Len(ws) \in Nat /\ k + 1 \in 1..Len(ws) /\ g \in Glyphs /\ k \in Nat
    <2>1. ws \in Text
        BY LinesType
    <2> QED BY <2>1 DEF Text
<1>2. k = 0 => ~g.glued
    <2>1. ws # <<>> => ~ws[1].glued
        BY DEF Lines
    <2>2. ws # <<>>
        BY <1>1
    <2> QED BY <2>1, <2>2
<1>3. h \in Glyphs /\ h.char = ws[k + 1].char /\ ~h.glued
    <2>1. h \in Glyphs
        BY <1>1, BeginsText
    <2> QED BY <2>1 DEF Glyph
<1>4. IsCut(cut, x, Short, Short) /\ cut \in CutSet /\ c \in Short /\ c \in Text
    BY ShortTexts DEF SliceInv, IsCut
<1>5. Sliced(x, ws) /\ Len(x) = k /\ Len(c) <= k /\ (c = <<>> => k = 0)
    BY DEF SliceInv
<1>6. Append(c, g) = c \o <<g>> /\ <<g>> \in Text /\ <<h>> \in Text
    BY <1>1, <1>3, <1>4, LongerText
<1> HIDE DEF h
<1>7. SliceStep(cut, g) = IF Len(c) = MaxChars THEN Cut(Append(d, c), <<h>>) ELSE Cut(d, c \o <<g>>)
    BY <1>6 DEF SliceStep, h
<1>8. Len(c) \in Nat /\ MaxChars \in Nat /\ MaxChars # 0
    BY <1>4, ShortTexts
<1>9. CASE Len(c) = MaxChars
    <2> DEFINE y == x \o <<h>>
               new == Cut(Append(d, c), <<h>>)
    <2>1. <<h>> \in Short
        BY <1>3, ShortFirst
    <2>2. IsCut(new, y, Short, Short)
        BY <1>4, <1>6, <2>1, CutClose, ShortTexts
    <2>3. Sliced(y, ws) /\ Len(y) = k + 1
        <3>1. k + 1 > MaxChars
            BY <1>1, <1>5, <1>8, <1>9
        <3> QED BY <1>1, <1>3, <1>5, <3>1, SlicedLonger
    <2>4. new.current = <<h>> /\ Len(<<h>>) = 1 /\ <<h>> # <<>> /\ 1 <= k + 1
        BY <1>1 DEF Cut
    <2>5. SliceStep(cut, g) = new
        BY <1>7, <1>9
    <2> HIDE DEF y, new
    <2>6. SliceInv(new, y, ws, k + 1)
        BY <2>2, <2>3, <2>4 DEF SliceInv
    <2> QED BY <2>5, <2>6
<1>10. CASE Len(c) # MaxChars
    <2> DEFINE y == x \o <<g>>
               t == c \o <<g>>
               new == Cut(d, t)
    <2>1. t \in Short
        BY <1>1, <1>2, <1>4, <1>5, <1>10, ShortLonger
    <2>2. IsCut(new, y, Short, Short)
        BY <1>4, <1>6, <2>1, CutLonger, ShortTexts
    <2>3. Sliced(y, ws) /\ Len(y) = k + 1
        BY <1>1, <1>5, SlicedLonger
    <2>4. t # <<>> /\ Len(t) = Len(c) + 1
        BY <1>1, <1>4, OneMore
    <2>5. Len(t) <= k + 1
        BY <1>1, <1>5, <1>8, <2>4
    <2>6. SliceStep(cut, g) = new
        BY <1>7, <1>10
    <2> HIDE DEF y, t
    <2>7. new.current = t
        BY DEF Cut
    <2> HIDE DEF new
    <2>8. SliceInv(new, y, ws, k + 1)
        BY <2>2, <2>3, <2>4, <2>5, <2>7 DEF SliceInv
    <2> QED BY <2>6, <2>8
<1> QED BY <1>9, <1>10

\* Slices have the characters of their sentence, and no more than MaxChars each.
LEMMA SlicesKeep ==
    ASSUME NEW ws \in Unbroken
    PROVE  Slices(ws) \in Seq(Short) /\ Splits(FlattenSeq(Slices(ws)), ws)
<1> DEFINE n == Len(ws)
<1>1. n \in Nat /\ ws \in Lines /\ ws \in Text /\ MaxChars \in Nat
    BY ShortTexts
<1>2. PICK acc \in [0..n -> CutSet] : SliceLoop(ws, acc) /\ Slices(ws) = Pieces(acc[n])
    BY <1>1, SliceExists
<1> DEFINE S == {k \in 0..n : \E x : SliceInv(acc[k], x, ws, k)}
<1>3. 0 \in S
    <2> DEFINE e == <<>>
    <2>1. IsCut(Cut(<<>>, <<>>), e, Short, Short) /\ Cut(<<>>, <<>>).current = e
        BY CutNone, ShortTexts DEF Cut
    <2>2. acc[0] = Cut(<<>>, <<>>)
        BY <1>2 DEF SliceLoop
    <2>3. Len(e) = 0 /\ Sliced(e, ws)
        BY TextType DEF Sliced
    <2> HIDE DEF e
    <2>4. SliceInv(acc[0], e, ws, 0)
        BY <2>1, <2>2, <2>3 DEF SliceInv
    <2> QED BY <1>1, <2>4
<1>4. ASSUME NEW k \in 0..n, k < n, k \in S PROVE k + 1 \in S
    <2>1. k + 1 \in 0..n
        BY <1>1, <1>4
    <2>2. acc[k + 1] = SliceStep(acc[k], ws[k + 1])
        BY <1>1, <1>2, <1>4 DEF SliceLoop
    <2>3. PICK x : SliceInv(acc[k], x, ws, k)
        BY <1>4
    <2>4. PICK y : SliceInv(SliceStep(acc[k], ws[k + 1]), y, ws, k + 1)
        BY <1>1, <1>4, <2>3, SliceStepKeeps
    <2> QED BY <2>1, <2>2, <2>4
<1>5. n \in S
    <2> HIDE DEF S, n
    <2>1. \A k \in 0..n : k \in S
        BY <1>1, <1>3, <1>4, BoundedInduction
    <2> QED BY <1>1, <2>1
<1> DEFINE cut == acc[n]
<1>6. PICK x : SliceInv(cut, x, ws, n)
    BY <1>5
<1> HIDE DEF cut
<1>7. IsCut(cut, x, Short, Short) /\ Sliced(x, ws) /\ Len(x) = n
    BY <1>6 DEF SliceInv
<1>8. PiecesOf(Pieces(cut), x, Short)
    BY <1>7, CutPieces, ShortTexts
<1>9. Splits(x, ws)
    <2>1. ASSUME NEW k \in 1..n, k > MaxChars PROVE LongBefore(ws, k)
        <3>1. ASSUME NEW i \in (k - MaxChars)..(k - 1) PROVE ~EndsAt(ws, i)
            <4>1. i \in 1..(Len(ws) - 1)
                BY <1>1, <2>1
            <4> QED BY <4>1 DEF Unbroken
        <3> QED BY <2>1, <3>1 DEF LongBefore
    <2>2. ASSUME NEW k \in 1..n
          PROVE  /\ x[k].char = ws[k].char
                 /\ x[k].glued => ws[k].glued
                 /\ ws[k].glued /\ ~x[k].glued => LongBefore(ws, k)
        BY <1>7, <2>1 DEF Sliced
    <2> QED BY <1>7, <2>2 DEF Splits
<1> QED BY <1>2, <1>8, <1>9 DEF PiecesOf, cut

\* A sentence more leaves a text cut in pieces.
LEMMA SplitStepType ==
    ASSUME NEW acc \in CutSet, NEW s \in Unbroken
    PROVE  SplitStep(acc, s) \in CutSet
<1>1. acc.current \in Text /\ acc.done \in Seq(Text) /\ <<>> \in Text /\ s \in Text
    BY TextType, ShortTexts DEF CutSet
<1>2. Slices(s) \in Seq(Text)
    <2>1. Slices(s) \in Seq(Short)
        BY SlicesKeep
    <2> QED BY <2>1, ShortTexts
<1>3. Pieces(acc) \o Slices(s) \in Seq(Text)
    <2>1. Pieces(acc) \in Seq(Text)
        BY <1>1 DEF Pieces
    <2> QED BY <1>2, <2>1
<1>4. Cut(Pieces(acc) \o Slices(s), <<>>) \in CutSet
    BY <1>1, <1>3 DEF Cut, CutSet
<1>5. Cut(Append(acc.done, acc.current), s) \in CutSet
    BY <1>1 DEF Cut, CutSet
<1>6. Cut(acc.done, acc.current \o s) \in CutSet
    <2>1. acc.current \o s \in Text
        BY <1>1, TextType
    <2> QED BY <1>1, <2>1 DEF Cut, CutSet
<1> QED BY <1>4, <1>5, <1>6 DEF SplitStep

\* What was read of a paragraph is cut into pieces of at most MaxChars.
SplitInv(cut, ws) == \E x \in Text : IsCut(cut, x, Short, Short) /\ Splits(x, ws)

\* A sentence more keeps that.
LEMMA SplitKeeps ==
    ASSUME NEW acc, NEW ws \in Text, NEW s \in Unbroken, SplitInv(acc, ws)
    PROVE  SplitInv(SplitStep(acc, s), ws \o s)
<1>0. s \in Lines /\ s \in Text
    BY ShortTexts
<1>1. PICK x \in Text : IsCut(acc, x, Short, Short) /\ Splits(x, ws)
    BY DEF SplitInv
<1>2. /\ acc.current \in Short /\ acc.current \in Lines /\ acc.current \in Text
      /\ Len(acc.current) \in Nat /\ Len(s) \in Nat /\ MaxChars \in Nat
    <2>1. acc.current \in Short
        BY <1>1 DEF IsCut
    <2> QED BY <1>0, <2>1, ShortTexts
<1>3. x \o s \in Text /\ Splits(x \o s, ws \o s)
    BY <1>0, <1>1, SplitsSame, SplitsConcat, TextType
<1>4. CASE Len(s) > MaxChars
    <2> DEFINE f == FlattenSeq(Slices(s))
    <2>1. Slices(s) \in Seq(Short) /\ Splits(f, s)
        BY SlicesKeep
    <2>2. f \in Text
        BY <2>1, TextFlat, ShortTexts
    <2>3. PiecesOf(Slices(s), f, Short)
        BY <2>1 DEF PiecesOf
    <2> HIDE DEF f
    <2>4. IsCut(Cut(Pieces(acc) \o Slices(s), <<>>), x \o f, Short, Short)
        BY <1>1, <2>2, <2>3, CutPiecewise, ShortTexts
    <2>5. x \o f \in Text /\ Splits(x \o f, ws \o s)
        BY <1>0, <1>1, <2>1, <2>2, SplitsConcat, TextType
    <2> QED BY <1>4, <2>4, <2>5 DEF SplitStep, SplitInv
<1>5. CASE ~(Len(s) > MaxChars) /\ acc.current # <<>> /\ Len(acc.current) + Len(s) > MaxChars
    <2>1. s \in Short
        BY <1>0, <1>2, <1>5 DEF Short
    <2>2. IsCut(Cut(Append(acc.done, acc.current), s), x \o s, Short, Short)
        BY <1>0, <1>1, <1>2, <2>1, CutClose, ShortTexts
    <2> QED BY <1>3, <1>5, <2>2 DEF SplitStep, SplitInv
<1>6. CASE ~(Len(s) > MaxChars) /\ ~(acc.current # <<>> /\ Len(acc.current) + Len(s) > MaxChars)
    <2>1. acc.current \o s \in Short
        <3> DEFINE c == acc.current
        <3>1. c \o s \in Lines /\ c \in Text /\ (c = <<>> => c \o s = s)
            BY <1>0, <1>2, LinesType, TextEmpty
        <3> HIDE DEF c
        <3>2. Len(c \o s) = Len(c) + Len(s)
            BY <1>0, <3>1 DEF Text
        <3>3. Len(c \o s) <= MaxChars
            <4>1. CASE c = <<>>
                BY <1>2, <1>6, <3>1, <4>1
            <4>2. CASE c # <<>>
                BY <1>2, <1>6, <3>2, <4>2 DEF c
            <4> QED BY <4>1, <4>2
        <3> QED BY <3>1, <3>3 DEF Short, c
    <2>2. IsCut(Cut(acc.done, acc.current \o s), x \o s, Short, Short)
        BY <1>0, <1>1, <2>1, CutLonger, ShortTexts
    <2> QED BY <1>3, <1>6, <2>2 DEF SplitStep, SplitInv
<1> QED BY <1>2, <1>4, <1>5, <1>6

\* The turns over the sentences of a paragraph.
SplitLoop(ss, acc) ==
    /\ acc[0] = Cut(<<>>, <<>>)
    /\ \A k \in 0..Len(ss) : k < Len(ss) => acc[k + 1] = SplitStep(acc[k], ss[k + 1])

\* SplitLongParagraph, of sentences.
SplitFold(ss) == FoldLeft(LAMBDA acc, s : SplitStep(acc, s), Cut(<<>>, <<>>), ss)

\* The split of a paragraph as a loop.
LEMMA SplitExists ==
    ASSUME NEW ss \in Seq(Unbroken)
    PROVE  \E acc \in [0..Len(ss) -> CutSet] : SplitLoop(ss, acc) /\ SplitFold(ss) = acc[Len(ss)]
<1> DEFINE n == Len(ss)
           A == CutSet
           base == Cut(<<>>, <<>>)
           step == [xk \in A \X (1..n) |-> SplitStep(xk[1], ss[xk[2]])]
           P(f) == f = [z \in SUBSET (DOMAIN ss) |->
                           IF z = {} THEN base ELSE SplitStep(f[z \ {Max(z)}], ss[Max(z)])]
           it == CHOOSE f : P(f)
<1>1. n \in Nat /\ DOMAIN ss = 1..n /\ \A k \in 1..n : ss[k] \in Unbroken
    OBVIOUS
<1>2. \A x \in A, k \in 1..n : step[<<x, k>>] = SplitStep(x, ss[k])
    OBVIOUS
<1>3. step \in [A \X (1..n) -> A] /\ base \in A
    <2>1. base \in A
        <3>1. <<>> \in Text /\ <<>> \in Seq(Text)
            BY TextType
        <3> QED BY <3>1 DEF Cut, CutSet
    <2>2. \A x \in A, k \in 1..n : SplitStep(x, ss[k]) \in A
        BY <1>1, SplitStepType
    <2> HIDE DEF A, base
    <2> QED BY <2>1, <2>2
<1> HIDE DEF A, base, step, n
<1>4. ASSUME NEW f \in [SUBSET (1..n) -> A], Folds(base, n, step, f)
      PROVE  FoldsIn(A, base, n, step, it)
    <2>1. P(f)
        BY <1>1, <1>2, <1>4, LastOff DEF Folds
    <2>2. P(it)
        <3> HIDE DEF P
        <3> QED BY <2>1
    <2> HIDE DEF it
    <2> QED BY <1>1, <1>2, <2>2, LastOff DEF FoldsIn
<1>5. PICK acc \in [0..n -> A] : LoopOf(base, n, step, it, acc)
    <2> HIDE DEF it
    <2> QED BY <1>1, <1>3, <1>4, FoldLoop
<1>6. SplitFold(ss) = it[1..n]
    BY <1>1 DEF SplitFold, FoldLeft, MapThenFoldSet, base
<1> HIDE DEF it
<1>7. ASSUME NEW k \in 0..n, k < n PROVE acc[k + 1] = SplitStep(acc[k], ss[k + 1])
    <2>1. acc[k] \in A /\ k + 1 \in 1..n
        BY <1>1, <1>7
    <2> QED BY <1>2, <1>5, <1>7, <2>1 DEF LoopOf, Turns
<1> QED BY <1>5, <1>6, <1>7 DEF LoopOf, Turns, SplitLoop, n, A, base

\* The pieces of a paragraph have its characters.
LEMMA SplitsKeep ==
    ASSUME NEW ss \in Seq(Unbroken)
    PROVE  SplitInv(SplitFold(ss), FlattenSeq(ss))
<1> DEFINE n == Len(ss)
<1>1. n \in Nat /\ ss \in Seq(Unbroken) /\ \A k \in 1..n : ss[k] \in Unbroken
    OBVIOUS
<1>2. PICK acc \in [0..n -> CutSet] : SplitLoop(ss, acc) /\ SplitFold(ss) = acc[n]
    BY <1>1, SplitExists
<1>3. /\ Upto(ss, 0) = <<>> /\ Upto(ss, n) = ss
      /\ \A k \in 0..n : Upto(ss, k) \in Seq(Unbroken)
      /\ \A k \in 0..n : k < n => Upto(ss, k + 1) = Append(Upto(ss, k), ss[k + 1])
    BY <1>1, UptoProperties
<1> DEFINE S == {k \in 0..n : SplitInv(acc[k], FlattenSeq(Upto(ss, k)))}
<1>4. 0 \in S
    <2> DEFINE e == <<>>
    <2>1. IsCut(Cut(<<>>, <<>>), e, Short, Short) /\ e \in Text /\ Splits(e, e)
        BY CutNone, ShortTexts, TextType, SplitsSame
    <2>2. acc[0] = Cut(<<>>, <<>>) /\ FlattenSeq(Upto(ss, 0)) = e
        BY <1>2, <1>3, FlatEmpty DEF SplitLoop
    <2> HIDE DEF e
    <2>3. SplitInv(acc[0], FlattenSeq(Upto(ss, 0)))
        BY <2>1, <2>2 DEF SplitInv
    <2> QED BY <1>1, <2>3
<1>5. ASSUME NEW k \in 0..n, k < n, k \in S PROVE k + 1 \in S
    <2>1. k + 1 \in 1..n /\ k + 1 \in 0..n
        BY <1>1, <1>5
    <2>2. acc[k + 1] = SplitStep(acc[k], ss[k + 1]) /\ ss[k + 1] \in Unbroken
        BY <1>1, <1>2, <1>5, <2>1 DEF SplitLoop
    <2> DEFINE u == FlattenSeq(Upto(ss, k))
    <2>3. SplitInv(acc[k], u) /\ u \in Text
        <3>1. Upto(ss, k) \in Seq(Unbroken)
            BY <1>3
        <3> QED BY <1>5, <3>1, TextFlat, ShortTexts
    <2>4. FlattenSeq(Upto(ss, k + 1)) = u \o ss[k + 1]
        BY <1>3, <1>5, <2>2, TextFlatAppend, ShortTexts
    <2> HIDE DEF u
    <2>5. SplitInv(SplitStep(acc[k], ss[k + 1]), u \o ss[k + 1])
        BY <2>2, <2>3, SplitKeeps
    <2> QED BY <2>1, <2>2, <2>4, <2>5
<1>6. n \in S
    <2> HIDE DEF S, n
    <2>1. \A k \in 0..n : k \in S
        BY <1>1, <1>4, <1>5, BoundedInduction
    <2> QED BY <1>1, <2>1
<1> QED BY <1>2, <1>3, <1>6

\* _split_long_paragraph keeps the text, in pieces of at most MaxChars.
LEMMA SplitLongParagraphKeeps ==
    ASSUME NEW ws \in Lines
    PROVE  /\ SplitLongParagraph(ws) \in Seq(Short)
           /\ Splits(FlattenSeq(SplitLongParagraph(ws)), ws)
<1>1. Len(ws) \in Nat /\ MaxChars \in Nat /\ ws \in Text
    BY ShortTexts, LinesType
<1>2. CASE Len(ws) <= MaxChars
    <2>1. ws \in Short /\ <<ws>> \in Seq(Short)
        BY <1>2 DEF Short
    <2>2. FlattenSeq(<<ws>>) = ws
        BY <1>1, FlatOne DEF Text
    <2> QED BY <1>1, <1>2, <2>1, <2>2, SplitsSame DEF SplitLongParagraph
<1>3. CASE ~(Len(ws) <= MaxChars)
    <2> DEFINE ss == Sentences(ws)
               cut == SplitFold(ss)
    <2>1. SplitLongParagraph(ws) = Pieces(cut)
        BY <1>3 DEF SplitLongParagraph, SplitFold, SplitStep
    <2>2. ss \in Seq(Unbroken) /\ FlattenSeq(ss) = ws
        BY SentencesKeep DEF PiecesOf
    <2> HIDE DEF ss
    <2>3. SplitInv(cut, ws)
        BY <2>2, SplitsKeep
    <2> HIDE DEF cut
    <2>4. PICK x \in Text : IsCut(cut, x, Short, Short) /\ Splits(x, ws)
        BY <2>3 DEF SplitInv
    <2>5. PiecesOf(Pieces(cut), x, Short)
        BY <2>4, CutPieces, ShortTexts
    <2> QED BY <2>1, <2>4, <2>5 DEF PiecesOf
<1> QED BY <1>2, <1>3

-----------------------------------------------------------------------------
(* Pages without layout *)

\* A turn over the lines of a page.
UnwrapStep(hyphen, acc, line) ==
    IF acc # <<>> /\ Breaks(Last(acc), line, hyphen)
    THEN Append(Front(acc), Front(Last(acc)) \o Attached(line))
    ELSE Append(acc, line)

\* A word put together from two lines is in a line.
LEMMA AttachedType ==
    ASSUME NEW line \in Lines, NEW next \in Lines, Len(line) > 1
    PROVE  Front(line) \o Attached(next) \in Lines
<1> DEFINE f == Front(line)
           a == Attached(next)
<1>1. line \in Seq(Glyphs) /\ next \in Seq(Glyphs) /\ ~line[1].glued
    <2>1. line \in Text /\ next \in Text /\ (line # <<>> => ~line[1].glued)
        BY DEF Lines
    <2>2. line # <<>>
        OBVIOUS
    <2> QED BY <2>1, <2>2 DEF Text
<1>2. f \in Seq(Glyphs) /\ f # <<>> /\ f[1] = line[1]
    <2>1. SubSeq(line, 1, Len(line) - 1) \in Seq(Glyphs)
        BY <1>1
    <2>2. /\ Len(SubSeq(line, 1, Len(line) - 1)) = Len(line) - 1 /\ Len(line) \in Nat
          /\ SubSeq(line, 1, Len(line) - 1)[1] = line[1]
        BY <1>1
    <2>3. f = SubSeq(line, 1, Len(line) - 1)
        BY DEF Front
    <2>4. Len(f) = Len(line) - 1
        BY <2>2, <2>3
    <2> HIDE DEF f
    <2>5. f # <<>>
        <3>1. f = <<>> => Len(f) = 0
            OBVIOUS
        <3>2. Len(f) # 0
            BY ONLY <2>2, <2>4, Len(line) > 1
        <3> QED BY <3>1, <3>2
    <2> QED BY <2>1, <2>2, <2>3, <2>5
<1>3. a \in Seq(Glyphs)
    <2>1. \A g \in Glyphs : Glyph(g.char, TRUE) \in Glyphs
        <3>1. \A g \in Glyphs : g.char \in Chars
            BY DEF Glyphs
        <3> QED BY <3>1 DEF Glyph, Glyphs
    <2>2. Len(next) \in Nat /\ \A k \in 1..Len(next) : next[k] \in Glyphs
        BY <1>1
    <2>3. 1 \in 1..Len(next) => Glyph(next[1].char, TRUE) \in Glyphs
        BY <2>1, <2>2
    <2> DEFINE cell(k) == IF k = 1 THEN Glyph(next[1].char, TRUE) ELSE next[k]
    <2>4. \A k \in 1..Len(next) : cell(k) \in Glyphs
        BY <2>2, <2>3
    <2>5. a = [k \in 1..Len(next) |-> cell(k)]
        BY DEF Attached
    <2>6. a \in [1..Len(next) -> Glyphs]
        BY <2>4, <2>5
    <2> HIDE DEF cell, a
    <2> QED BY <2>2, <2>6
<1> HIDE DEF f, a
<1>4. f \o a \in Seq(Glyphs) /\ (f \o a)[1] = f[1]
    BY <1>2, <1>3
<1> QED BY <1>1, <1>2, <1>4 DEF Lines, Text, f, a

\* A line more leaves lines.
LEMMA UnwrapStepType ==
    ASSUME NEW hyphen, NEW acc \in Seq(Lines), NEW line \in Lines
    PROVE  UnwrapStep(hyphen, acc, line) \in Seq(Lines)
<1>1. CASE acc # <<>> /\ Breaks(Last(acc), line, hyphen)
    <2>1. Last(acc) \in Lines
        BY <1>1 DEF Last
    <2>2. Front(acc) \in Seq(Lines)
        BY <1>1, TailType
    <2>3. Len(Last(acc)) > 1
        BY <1>1 DEF Breaks
    <2> DEFINE l == Last(acc)
    <2> HIDE DEF l
    <2>4. Front(l) \o Attached(line) \in Lines
        BY <2>1, <2>3, AttachedType DEF l
    <2>5. Append(Front(acc), Front(l) \o Attached(line)) \in Seq(Lines)
        BY <2>2, <2>4
    <2> QED BY <1>1, <2>5 DEF UnwrapStep, l
<1>2. CASE ~(acc # <<>> /\ Breaks(Last(acc), line, hyphen))
    <2>1. Append(acc, line) \in Seq(Lines)
        OBVIOUS
    <2> QED BY <1>2, <2>1 DEF UnwrapStep
<1> QED BY <1>1, <1>2

\* The turns.
UnwrapLoop(page, hyphen, acc) ==
    /\ acc[0] = <<>>
    /\ \A k \in 0..Len(page) : k < Len(page) => acc[k + 1] = UnwrapStep(hyphen, acc[k], page[k + 1])

\* Unwrap as a loop over the lines.
LEMMA UnwrapExists ==
    ASSUME NEW page \in Seq(Lines), NEW hyphen
    PROVE  \E acc \in [0..Len(page) -> Seq(Lines)] :
               UnwrapLoop(page, hyphen, acc) /\ Unwrap(page, hyphen) = acc[Len(page)]
<1> DEFINE n == Len(page)
           A == Seq(Lines)
           base == <<>>
           step == [xk \in A \X (1..n) |-> UnwrapStep(hyphen, xk[1], page[xk[2]])]
           P(f) == f = [z \in SUBSET (DOMAIN page) |->
                           IF z = {} THEN base ELSE UnwrapStep(hyphen, f[z \ {Max(z)}], page[Max(z)])]
           it == CHOOSE f : P(f)
<1>1. n \in Nat /\ DOMAIN page = 1..n /\ \A k \in 1..n : page[k] \in Lines
    OBVIOUS
<1>2. \A x \in A, k \in 1..n : step[<<x, k>>] = UnwrapStep(hyphen, x, page[k])
    OBVIOUS
<1>3. step \in [A \X (1..n) -> A] /\ base \in A
    <2>1. base \in A
        OBVIOUS
    <2>2. \A x \in A, k \in 1..n : UnwrapStep(hyphen, x, page[k]) \in A
        BY <1>1, UnwrapStepType
    <2> HIDE DEF A, base
    <2> QED BY <2>1, <2>2
<1> HIDE DEF A, base, step, n
<1>4. ASSUME NEW f \in [SUBSET (1..n) -> A], Folds(base, n, step, f)
      PROVE  FoldsIn(A, base, n, step, it)
    <2>1. P(f)
        BY <1>1, <1>2, <1>4, LastOff DEF Folds
    <2>2. P(it)
        <3> HIDE DEF P
        <3> QED BY <2>1
    <2> HIDE DEF it
    <2> QED BY <1>1, <1>2, <2>2, LastOff DEF FoldsIn
<1>5. PICK acc \in [0..n -> A] : LoopOf(base, n, step, it, acc)
    <2> HIDE DEF it
    <2> QED BY <1>1, <1>3, <1>4, FoldLoop
<1>6. Unwrap(page, hyphen) = it[1..n]
    BY <1>1 DEF Unwrap, UnwrapStep, FoldLeft, MapThenFoldSet, base
<1> HIDE DEF it
<1>7. ASSUME NEW k \in 0..n, k < n PROVE acc[k + 1] = UnwrapStep(hyphen, acc[k], page[k + 1])
    <2>1. acc[k] \in A /\ k + 1 \in 1..n
        BY <1>1, <1>7
    <2> QED BY <1>2, <1>5, <1>7, <2>1 DEF LoopOf, Turns
<1> QED BY <1>5, <1>6, <1>7 DEF LoopOf, Turns, UnwrapLoop, n, A, base

\* Lines with words put together are lines.
LEMMA UnwrapType ==
    ASSUME NEW page \in Seq(Lines), NEW hyphen PROVE Unwrap(page, hyphen) \in Seq(Lines)
<1>1. PICK acc \in [0..Len(page) -> Seq(Lines)] : Unwrap(page, hyphen) = acc[Len(page)]
    BY UnwrapExists
<1>2. Len(page) \in 0..Len(page)
    OBVIOUS
<1> QED BY <1>1, <1>2

\* normalize_technical makes lines of lines.
LEMMA NormalizedType ==
    ASSUME NEW page \in Seq(Lines) PROVE Normalized(page) \in Seq(Lines)
<1> DEFINE soft == Unwrap(page, "~")
           bare == [n \in 1..Len(soft) |-> WithoutSoft(soft[n])]
<1>1. soft \in Seq(Lines)
    BY UnwrapType
<1>2. ASSUME NEW line \in Lines PROVE WithoutSoft(line) \in Lines
    <2> DEFINE K == {k \in 1..Len(line) : line[k].char # "~"}
    <2>1. K \in SUBSET (1..Len(line)) /\ line \in Text
        BY LinesType
    <2> HIDE DEF K
    <2>2. Keep(line, K) \in Lines
        BY <2>1, KeepType
    <2> QED BY <2>2 DEF WithoutSoft, K
<1>3. Normalized(page) = Unwrap(bare, "-")
    BY DEF Normalized
<1> HIDE DEF soft
<1>4. bare \in Seq(Lines)
    BY <1>1, <1>2
<1> HIDE DEF bare
<1> QED BY <1>3, <1>4, UnwrapType

-----------------------------------------------------------------------------
(* Segmentation *)

\* A block without its place: a paragraph is no longer than the limit.
RawSet == {r \in [kind : Kinds, words : Lines] : r.kind = "paragraph" => Len(r.words) <= MaxChars}

\* Records that have words.
Worded(B) == \A b \in B : b.words \in Text

\* Words of blocks after blocks.
LEMMA WordsConcat ==
    ASSUME NEW B, Worded(B), NEW xs \in Seq(B), NEW ys \in Seq(B)
    PROVE  Words(xs \o ys) = Words(xs) \o Words(ys)
<1> DEFINE s == [k \in 1..Len(xs) |-> xs[k].words]
           t == [k \in 1..Len(ys) |-> ys[k].words]
           all == xs \o ys
<1>1. /\ all \in Seq(B) /\ Len(all) = Len(xs) + Len(ys) /\ Len(xs) \in Nat /\ Len(ys) \in Nat
      /\ \A k \in 1..Len(xs) : all[k] = xs[k]
      /\ \A k \in 1..Len(ys) : all[Len(xs) + k] = ys[k]
    BY Concatenated
<1>2. s \in Seq(Seq(Glyphs)) /\ t \in Seq(Seq(Glyphs))
    <2>1. \A b \in B : b.words \in Seq(Glyphs)
        BY DEF Worded, Text
    <2>2. (\A k \in 1..Len(xs) : xs[k] \in B) /\ (\A k \in 1..Len(ys) : ys[k] \in B)
        OBVIOUS
    <2> QED BY <1>1, <2>1, <2>2
<1>3. Len(s) = Len(xs) /\ Len(t) = Len(ys)
    BY <1>1
<1> HIDE DEF all
<1>4. ASSUME NEW k \in 1..Len(all) PROVE all[k] = IF k <= Len(xs) THEN xs[k] ELSE ys[k - Len(xs)]
    <2>1. CASE k <= Len(xs)
        BY <1>1, <2>1
    <2>2. CASE ~(k <= Len(xs))
        <3>1. k - Len(xs) \in 1..Len(ys) /\ Len(xs) + (k - Len(xs)) = k
            BY <1>1, <2>2
        <3> QED BY <1>1, <2>2, <3>1
    <2> QED BY <2>1, <2>2
<1>5. [k \in 1..Len(all) |-> all[k].words] = s \o t
    BY <1>1, <1>3, <1>4
<1> HIDE DEF s, t
<1>6. FlattenSeq(s \o t) = FlattenSeq(s) \o FlattenSeq(t)
    BY <1>2, FlatConcat
<1> QED BY <1>5, <1>6 DEF Words, all, s, t

\* Words of blocks are a text.
LEMMA WordsText ==
    ASSUME NEW B, Worded(B), NEW xs \in Seq(B)
    PROVE  Words(xs) \in Text
<1> DEFINE s == [k \in 1..Len(xs) |-> xs[k].words]
<1>1. Len(xs) \in Nat /\ \A k \in 1..Len(xs) : xs[k].words \in Seq(Glyphs)
    BY DEF Worded, Text
<1>2. s \in Seq(Seq(Glyphs))
    BY <1>1
<1> QED BY <1>2, FlatType DEF Words, Text

\* Words of one block.
LEMMA WordsOne ==
    ASSUME NEW B, Worded(B), NEW b \in B
    PROVE  <<b>> \in Seq(B) /\ Words(<<b>>) = b.words
<1>1. [k \in 1..Len(<<b>>) |-> <<b>>[k].words] = <<b.words>>
    OBVIOUS
<1>2. b.words \in Seq(Glyphs)
    BY DEF Worded, Text
<1>3. FlattenSeq(<<b.words>>) = b.words
    BY <1>2, FlatOne
<1> QED BY <1>1, <1>3 DEF Words

\* Words of no block.
LEMMA WordsNone == Words(<<>>) = <<>>
<1>1. [k \in 1..Len(<<>>) |-> <<>>[k].words] = <<>>
    <2>1. Len(<<>>) = 0
        OBVIOUS
    <2>2. ASSUME NEW s, s = [n \in 1..0 |-> <<>>[n].words] PROVE s = <<>>
        BY <2>2
    <2> QED BY <2>1, <2>2
<1> QED BY <1>1, FlatEmpty DEF Words

\* Blocks before they are placed have words.
LEMMA RawWorded == Worded(RawSet)
<1>1. \A b \in RawSet : b.words \in Lines
    BY DEF RawSet
<1> QED BY <1>1, LinesType DEF Worded

\* The blocks of a paragraph have its words.
LEMMA ParagraphsRaw ==
    ASSUME NEW ps \in Seq(Short)
    PROVE  /\ [n \in 1..Len(ps) |-> Raw("paragraph", ps[n])] \in Seq(RawSet)
           /\ Words([n \in 1..Len(ps) |-> Raw("paragraph", ps[n])]) = FlattenSeq(ps)
<1> DEFINE n == Len(ps)
           rs == [k \in 1..n |-> Raw("paragraph", ps[k])]
<1>1. n \in Nat /\ ps = [k \in 1..n |-> ps[k]] /\ \A k \in 1..n : ps[k] \in Short
    OBVIOUS
<1>2. \A t \in Short : Raw("paragraph", t) \in RawSet /\ Raw("paragraph", t).words = t
    BY DEF Short, Raw, RawSet, Kinds
<1> HIDE DEF n
<1>3. rs \in Seq(RawSet) /\ Len(rs) = n
    BY <1>1, <1>2
<1>4. \A k \in 1..n : rs[k].words = ps[k]
    BY <1>1, <1>2
<1>5. [k \in 1..Len(rs) |-> rs[k].words] = ps
    <2> HIDE DEF rs
    <2> QED BY <1>1, <1>3, <1>4
<1>6. Words(rs) = FlattenSeq(ps)
    <2> HIDE DEF rs
    <2> QED BY <1>5 DEF Words
<1> QED BY <1>3, <1>6 DEF n

\* A page as far as it was read: its blocks, and the lines of a paragraph.
SegSet == [blocks : Seq(RawSet), para : Lines]

\* The text ws, read so far: what is in blocks, and the paragraph at hand.
ReadSoFar(acc, ws) ==
    acc \in SegSet /\ \E u \in Text : Splits(Words(acc.blocks), u) /\ u \o acc.para = ws

\* _flush_paragraph turns the lines at hand into blocks.
LEMMA FlushKeeps ==
    ASSUME NEW acc, NEW ws, ReadSoFar(acc, ws)
    PROVE  ReadSoFar(Flush(acc), ws) /\ Flush(acc).para = <<>>
<1> DEFINE b == acc.blocks
           p == acc.para
           ps == SplitLongParagraph(p)
           rs == [n \in 1..Len(ps) |-> Raw("paragraph", ps[n])]
           c == b \o (IF p = <<>> THEN <<>> ELSE rs)
<1>1. b \in Seq(RawSet) /\ p \in Lines /\ p \in Text
    BY LinesType DEF ReadSoFar, SegSet
<1>2. PICK u \in Text : Splits(Words(b), u) /\ u \o p = ws
    BY DEF ReadSoFar
<1>3. Flush(acc) = [blocks |-> c, para |-> <<>>]
    BY DEF Flush
<1>4. rs \in Seq(RawSet) /\ Splits(Words(rs), p)
    <2>1. ps \in Seq(Short) /\ Splits(FlattenSeq(ps), p)
        BY <1>1, SplitLongParagraphKeeps
    <2> HIDE DEF ps, p
    <2> QED BY <2>1, ParagraphsRaw
<1> HIDE DEF rs, ps, b, p
<1>5. Words(b) \in Text /\ Words(rs) \in Text /\ ws \in Text
    BY <1>1, <1>2, <1>4, WordsText, RawWorded, TextType
<1>6. c \in Seq(RawSet) /\ Splits(Words(c), ws)
    <2>1. CASE p = <<>>
        <3>1. b \o <<>> = b /\ u \o <<>> = u
            BY <1>1, TextEmpty
        <3> QED BY <1>1, <1>2, <2>1, <3>1
    <2>2. CASE p # <<>>
        <3>1. b \o rs \in Seq(RawSet)
            BY <1>1, <1>4
        <3>2. Words(b \o rs) = Words(b) \o Words(rs)
            BY <1>1, <1>4, WordsConcat, RawWorded
        <3>3. Splits(Words(b) \o Words(rs), u \o p)
            BY <1>1, <1>2, <1>4, <1>5, SplitsConcat
        <3> QED BY <1>2, <2>2, <3>1, <3>2, <3>3
    <2> QED BY <2>1, <2>2
<1> HIDE DEF c
<1>7. ws \o <<>> = ws
    BY <1>5, TextEmpty
<1> DEFINE x == [blocks |-> c, para |-> <<>>]
<1>8. x \in SegSet /\ x.blocks = c /\ x.para = <<>>
    BY <1>6, LinesType DEF SegSet
<1> HIDE DEF x
<1>9. ReadSoFar(x, ws)
    BY <1>5, <1>6, <1>7, <1>8 DEF ReadSoFar
<1> QED BY <1>3, <1>8, <1>9 DEF x

\* A line that is a block of its own.
LEMMA SpecialKinds ==
    ASSUME NEW line, SpecialKind(line) # "none", line \in Lines
    PROVE  Raw(SpecialKind(line), line) \in RawSet /\ Raw(SpecialKind(line), line).words = line
<1>1. SpecialKind(line) \in {"table_row", "list_item", "heading"}
    BY DEF SpecialKind
<1> DEFINE k == SpecialKind(line)
<1> HIDE DEF k
<1>2. k \in {"table_row", "list_item", "heading"}
    BY <1>1 DEF k
<1>3. Raw(k, line) \in RawSet /\ Raw(k, line).words = line
    BY <1>2 DEF Raw, RawSet, Kinds
<1> QED BY <1>3 DEF k

\* A record with one field changed.
LEMMA ParaExcept ==
    ASSUME NEW b, NEW p, NEW q
    PROVE  [[blocks |-> b, para |-> p] EXCEPT !.para = q] = [blocks |-> b, para |-> q]
OBVIOUS

\* A line read is in the blocks, or at hand.
LEMMA AddLineKeeps ==
    ASSUME NEW acc, NEW ws, ReadSoFar(acc, ws), NEW line \in Lines
    PROVE  ReadSoFar(AddLine(acc, line), ws \o line)
<1>0. ws \in Text /\ line \in Text
    <2>1. acc.para \in Text
        BY LinesType DEF ReadSoFar, SegSet
    <2>2. PICK u \in Text : u \o acc.para = ws
        BY DEF ReadSoFar
    <2> QED BY <2>1, <2>2, TextType, LinesType
<1>1. CASE line = <<>>
    <2>1. ws \o line = ws
        BY <1>0, <1>1, TextEmpty
    <2> QED BY <1>1, <2>1, FlushKeeps DEF AddLine
<1>2. CASE line # <<>> /\ SpecialKind(line) # "none"
    <2> DEFINE f == Flush(acc)
               b == f.blocks
               r == Raw(SpecialKind(line), line)
               c == Append(b, r)
    <2>1. AddLine(acc, line) = [f EXCEPT !.blocks = Append(@, r)]
        BY <1>2 DEF AddLine
    <2>2. f \in SegSet /\ b \in Seq(RawSet) /\ Splits(Words(b), ws) /\ f.para = <<>>
        <3>1. ReadSoFar(f, ws) /\ f.para = <<>>
            BY FlushKeeps
        <3> HIDE DEF f
        <3>2. f \in SegSet /\ b \in Seq(RawSet)
            BY <3>1 DEF ReadSoFar, SegSet
        <3>3. PICK u \in Text : Splits(Words(b), u) /\ u \o <<>> = ws
            BY <3>1 DEF ReadSoFar
        <3> QED BY <3>1, <3>2, <3>3, TextEmpty
    <2>3. r \in RawSet /\ r.words = line
        BY <1>2, SpecialKinds
    <2> HIDE DEF r, f
    <2>4. AddLine(acc, line) = [blocks |-> c, para |-> <<>>]
        BY <2>1, <2>2 DEF SegSet
    <2> HIDE DEF b
    <2>5. c = b \o <<r>> /\ <<r>> \in Seq(RawSet) /\ c \in Seq(RawSet)
        BY <2>2, <2>3
    <2>6. Words(b \o <<r>>) = Words(b) \o Words(<<r>>)
        BY <2>2, <2>5, WordsConcat, RawWorded
    <2>7. Words(<<r>>) = line
        BY <2>3, WordsOne, RawWorded
    <2>8. Words(b) \in Text
        BY <2>2, WordsText, RawWorded
    <2> HIDE DEF c
    <2>9. Splits(Words(c), ws \o line)
        <3>1. Splits(Words(b) \o line, ws \o line)
            BY <1>0, <2>2, <2>8, SplitsSame, SplitsConcat
        <3> QED BY <2>5, <2>6, <2>7, <3>1
    <2>10. ws \o line \in Text /\ (ws \o line) \o <<>> = ws \o line
        BY <1>0, TextType, TextEmpty
    <2> DEFINE x == [blocks |-> c, para |-> <<>>]
    <2>11. x \in SegSet /\ x.blocks = c /\ x.para = <<>>
        BY <2>5, LinesType DEF SegSet
    <2> HIDE DEF x
    <2>12. ReadSoFar(x, ws \o line)
        BY <2>9, <2>10, <2>11 DEF ReadSoFar
    <2> QED BY <2>4, <2>12 DEF x
<1>3. CASE line # <<>> /\ SpecialKind(line) = "none"
    <2> DEFINE b == acc.blocks
               p == acc.para
               q == p \o line
               next == [acc EXCEPT !.para = @ \o line]
    <2>1. b \in Seq(RawSet) /\ p \in Lines /\ p \in Text /\ acc \in SegSet
        BY LinesType DEF ReadSoFar, SegSet
    <2>2. next = [blocks |-> b, para |-> q]
        <3> DEFINE A == Seq(RawSet)
        <3>1. acc \in [blocks : A, para : Lines]
            BY <2>1 DEF SegSet
        <3> HIDE DEF A
        <3>2. acc = [blocks |-> acc.blocks, para |-> acc.para]
            BY ONLY <3>1
        <3> DEFINE r == [blocks |-> acc.blocks, para |-> acc.para]
        <3>3. [r EXCEPT !.para = q] = [blocks |-> acc.blocks, para |-> q]
            BY ONLY ParaExcept
        <3> HIDE DEF r
        <3>4. acc = r
            BY ONLY <3>2 DEF r
        <3>5. [acc EXCEPT !.para = q] = [blocks |-> acc.blocks, para |-> q]
            BY ONLY <3>3, <3>4
        <3> QED BY ONLY <3>5 DEF next
    <2>3. AddLine(acc, line) \in {Flush(next), next}
        BY <1>3 DEF AddLine
    <2>4. PICK u \in Text : Splits(Words(b), u) /\ u \o p = ws
        BY DEF ReadSoFar
    <2> HIDE DEF b, p, next
    <2>5. q \in Lines /\ q \in Text
        BY <1>0, <2>1, LinesType
    <2>6. u \o q = ws \o line
        <3>1. (u \o p) \o line = u \o (p \o line)
            BY <1>0, <2>1, <2>4, TextAssoc
        <3> QED BY <2>4, <3>1
    <2> HIDE DEF q
    <2> DEFINE x == [blocks |-> b, para |-> q]
    <2>7. x \in SegSet /\ x.blocks = b /\ x.para = q
        BY <2>1, <2>5 DEF SegSet
    <2> HIDE DEF x
    <2>8. ReadSoFar(x, ws \o line)
        BY <2>4, <2>6, <2>7 DEF ReadSoFar
    <2>9. ReadSoFar(next, ws \o line)
        BY <2>2, <2>8 DEF x
    <2>10. ReadSoFar(Flush(next), ws \o line)
        BY <2>9, FlushKeeps
    <2> QED BY <2>3, <2>9, <2>10
<1> QED BY <1>1, <1>2, <1>3

\* A line more leaves what _segment_page keeps.
LEMMA AddLineType ==
    ASSUME NEW acc \in SegSet, NEW line \in Lines
    PROVE  AddLine(acc, line) \in SegSet
<1>1. ReadSoFar(acc, Words(acc.blocks) \o acc.para)
    <2>1. acc.blocks \in Seq(RawSet)
        BY DEF SegSet
    <2>2. Words(acc.blocks) \in Text /\ Splits(Words(acc.blocks), Words(acc.blocks))
        BY <2>1, WordsText, RawWorded, SplitsSame
    <2> QED BY <2>2 DEF ReadSoFar
<1> QED BY <1>1, AddLineKeeps DEF ReadSoFar

\* The turns over the lines of a page.
PageLoop(page, acc) ==
    /\ acc[0] = [blocks |-> <<>>, para |-> <<>>]
    /\ \A k \in 0..Len(page) : k < Len(page) => acc[k + 1] = AddLine(acc[k], page[k + 1])

\* The blocks of lines that are without layout.
PageBlocks(page) ==
    Flush(FoldLeft(AddLine, [blocks |-> <<>>, para |-> <<>>], page)).blocks

\* They are made in a loop over the lines.
LEMMA PageExists ==
    ASSUME NEW page \in Seq(Lines)
    PROVE  \E acc \in [0..Len(page) -> SegSet] :
               PageLoop(page, acc) /\ PageBlocks(page) = Flush(acc[Len(page)]).blocks
<1> DEFINE n == Len(page)
           A == SegSet
           base == [blocks |-> <<>>, para |-> <<>>]
           step == [xk \in A \X (1..n) |-> AddLine(xk[1], page[xk[2]])]
           P(f) == f = [z \in SUBSET (DOMAIN page) |->
                           IF z = {} THEN base ELSE AddLine(f[z \ {Max(z)}], page[Max(z)])]
           it == CHOOSE f : P(f)
<1>1. n \in Nat /\ DOMAIN page = 1..n /\ \A k \in 1..n : page[k] \in Lines
    OBVIOUS
<1>2. \A x \in A, k \in 1..n : step[<<x, k>>] = AddLine(x, page[k])
    OBVIOUS
<1>3. step \in [A \X (1..n) -> A] /\ base \in A
    <2>1. base \in A
        BY LinesType DEF SegSet
    <2>2. \A x \in A, k \in 1..n : AddLine(x, page[k]) \in A
        BY <1>1, AddLineType
    <2> HIDE DEF A, base
    <2> QED BY <2>1, <2>2
<1> HIDE DEF A, base, step, n
<1>4. ASSUME NEW f \in [SUBSET (1..n) -> A], Folds(base, n, step, f)
      PROVE  FoldsIn(A, base, n, step, it)
    <2>1. P(f)
        BY <1>1, <1>2, <1>4, LastOff DEF Folds
    <2>2. P(it)
        <3> HIDE DEF P
        <3> QED BY <2>1
    <2> HIDE DEF it
    <2> QED BY <1>1, <1>2, <2>2, LastOff DEF FoldsIn
<1>5. PICK acc \in [0..n -> A] : LoopOf(base, n, step, it, acc)
    <2> HIDE DEF it
    <2> QED BY <1>1, <1>3, <1>4, FoldLoop
<1>6. PageBlocks(page) = Flush(it[1..n]).blocks
    BY <1>1 DEF PageBlocks, FoldLeft, MapThenFoldSet, base
<1> HIDE DEF it
<1>7. ASSUME NEW k \in 0..n, k < n PROVE acc[k + 1] = AddLine(acc[k], page[k + 1])
    <2>1. acc[k] \in A /\ k + 1 \in 1..n
        BY <1>1, <1>7
    <2> QED BY <1>2, <1>5, <1>7, <2>1 DEF LoopOf, Turns
<1> QED BY <1>5, <1>6, <1>7 DEF LoopOf, Turns, PageLoop, n, A, base


\* The blocks rs are the text ws.
BlocksOf(rs, ws) == rs \in Seq(RawSet) /\ Splits(Words(rs), ws)

\* The blocks of a page have its words.
LEMMA PageKeeps ==
    ASSUME NEW page \in Seq(Lines)
    PROVE  BlocksOf(PageBlocks(page), FlattenSeq(page))
<1> DEFINE n == Len(page)
<1>1. n \in Nat /\ page \in Seq(Lines) /\ \A k \in 1..n : page[k] \in Lines
    OBVIOUS
<1>2. PICK acc \in [0..n -> SegSet] : PageLoop(page, acc) /\ PageBlocks(page) = Flush(acc[n]).blocks
    BY <1>1, PageExists
<1>3. /\ Upto(page, 0) = <<>> /\ Upto(page, n) = page
      /\ \A k \in 0..n : Upto(page, k) \in Seq(Lines)
      /\ \A k \in 0..n : k < n => Upto(page, k + 1) = Append(Upto(page, k), page[k + 1])
    BY <1>1, UptoProperties
<1> DEFINE S == {k \in 0..n : ReadSoFar(acc[k], FlattenSeq(Upto(page, k)))}
<1>4. 0 \in S
    <2>1. ReadSoFar([blocks |-> <<>>, para |-> <<>>], <<>>)
        <3> DEFINE x == [blocks |-> <<>>, para |-> <<>>]
                   e == <<>>
        <3>1. x \in SegSet /\ x.blocks = e /\ x.para = e
            BY LinesType DEF SegSet
        <3>2. e \in Text /\ e \o e = e /\ Words(e) = e
            BY TextType, TextEmpty, WordsNone
        <3> HIDE DEF x, e
        <3>3. Splits(e, e)
            BY <3>2, SplitsSame
        <3>4. ReadSoFar(x, e)
            BY <3>1, <3>2, <3>3 DEF ReadSoFar
        <3> QED BY <3>4 DEF x, e
    <2>2. acc[0] = [blocks |-> <<>>, para |-> <<>>]
        BY <1>2 DEF PageLoop
    <2> QED BY <1>1, <1>3, <2>1, <2>2, FlatEmpty
<1>5. ASSUME NEW k \in 0..n, k < n, k \in S PROVE k + 1 \in S
    <2>1. k + 1 \in 1..n /\ k + 1 \in 0..n
        BY <1>1, <1>5
    <2>2. acc[k + 1] = AddLine(acc[k], page[k + 1]) /\ page[k + 1] \in Lines
        BY <1>1, <1>2, <1>5, <2>1 DEF PageLoop
    <2>3. ReadSoFar(acc[k], FlattenSeq(Upto(page, k)))
        BY <1>5
    <2>4. FlattenSeq(Upto(page, k + 1)) = FlattenSeq(Upto(page, k)) \o page[k + 1]
        BY <1>3, <1>5, <2>2, TextFlatAppend, LinesType
    <2>5. ReadSoFar(AddLine(acc[k], page[k + 1]), FlattenSeq(Upto(page, k)) \o page[k + 1])
        BY <2>2, <2>3, AddLineKeeps
    <2> QED BY <2>1, <2>2, <2>4, <2>5
<1>6. n \in S
    <2> HIDE DEF S, n
    <2>1. \A k \in 0..n : k \in S
        BY <1>1, <1>4, <1>5, BoundedInduction
    <2> QED BY <1>1, <2>1
<1>7. ReadSoFar(acc[n], FlattenSeq(page))
    BY <1>3, <1>6
<1> DEFINE last == acc[n]
           b == Flush(last).blocks
<1> HIDE DEF last
<1>8. ReadSoFar(Flush(last), FlattenSeq(page)) /\ Flush(last).para = <<>>
    BY <1>7, FlushKeeps DEF last
<1>9. b \in Seq(RawSet)
    BY <1>8 DEF ReadSoFar, SegSet
<1>10. PICK u \in Text : Splits(Words(b), u) /\ u \o <<>> = FlattenSeq(page)
    BY <1>8 DEF ReadSoFar
<1> HIDE DEF b
<1>11. BlocksOf(b, FlattenSeq(page))
    BY <1>9, <1>10, TextEmpty DEF BlocksOf
<1> QED BY <1>2, <1>11 DEF b, last

\* A block with its place.
PlacedSet ==
    {r \in [kind : Kinds, words : Lines, page : Nat, block : Nat] :
        r.kind = "paragraph" => Len(r.words) <= MaxChars}

\* A block placed on its page keeps its words.
LEMMA PlacedKeeps ==
    ASSUME NEW rs \in Seq(RawSet), NEW p \in Nat
    PROVE  Placed(rs, p) \in Seq(PlacedSet) /\ Words(Placed(rs, p)) = Words(rs)
<1> DEFINE n == Len(rs)
           bs == Placed(rs, p)
<1>1. n \in Nat /\ \A k \in 1..n : rs[k] \in RawSet
    OBVIOUS
<1>2. bs = [k \in 1..n |-> [kind |-> rs[k].kind, words |-> rs[k].words, page |-> p, block |-> k]]
    BY DEF Placed
<1>3. \A r \in RawSet, k \in Nat : [kind |-> r.kind, words |-> r.words, page |-> p, block |-> k] \in PlacedSet
    BY DEF RawSet, PlacedSet
<1> HIDE DEF n, bs
<1>4. bs \in Seq(PlacedSet) /\ Len(bs) = n /\ \A k \in 1..n : bs[k].words = rs[k].words
    <2>1. \A k \in 1..n : bs[k] \in PlacedSet
        BY <1>1, <1>2, <1>3
    <2> QED BY <1>1, <1>2, <2>1
<1>5. [k \in 1..Len(bs) |-> bs[k].words] = [k \in 1..Len(rs) |-> rs[k].words]
    BY <1>4 DEF n
<1>6. Words(bs) = Words(rs)
    BY <1>5 DEF Words
<1> QED BY <1>4, <1>6 DEF bs

\* Blocks on their pages have words.
LEMMA PlacedWorded == Worded(PlacedSet)
<1>1. \A b \in PlacedSet : b.words \in Lines
    BY DEF PlacedSet
<1> QED BY <1>1, LinesType DEF Worded

\* The paragraphs of blocks are no longer than the limit.
WithinMaxChars(bs) == \A k \in 1..Len(bs) : bs[k].kind = "paragraph" => Len(bs[k].words) <= MaxChars

\* The blocks of a text.
BlocksWithText(bs, ws) == bs \in Seq(BlockSet) /\ Splits(Words(bs), ws) /\ WithinMaxChars(bs)

\* A block given its context keeps its words.
LEMMA WithContextKeeps ==
    ASSUME NEW bs \in Seq(PlacedSet), NEW ws, Splits(Words(bs), ws)
    PROVE  BlocksWithText(WithContext(bs), ws)
<1> DEFINE n == Len(bs)
           cs == WithContext(bs)
           bf == [k \in 1..n |-> IF k > 1 THEN bs[k - 1].words ELSE <<>>]
           af == [k \in 1..n |-> IF k < n THEN bs[k + 1].words ELSE <<>>]
<1>1. n \in Nat /\ \A k \in 1..n : bs[k] \in PlacedSet
    OBVIOUS
<1>2. cs = [k \in 1..n |-> [kind |-> bs[k].kind, words |-> bs[k].words, page |-> bs[k].page,
                            block |-> bs[k].block, before |-> bf[k], after |-> af[k]]]
    BY DEF WithContext
<1>3. \A k \in 1..n : bf[k] \in Lines /\ af[k] \in Lines
    <2> TAKE k \in 1..n
    <2>1. k > 1 => k - 1 \in 1..n
        BY <1>1
    <2>2. k < n => k + 1 \in 1..n
        BY <1>1
    <2>3. \A m \in 1..n : bs[m].words \in Lines
        BY <1>1 DEF PlacedSet
    <2> QED BY <2>1, <2>2, <2>3, LinesType
<1> HIDE DEF n, cs, bf, af
<1>4. \A r \in PlacedSet, t \in Lines, u \in Lines :
        [kind |-> r.kind, words |-> r.words, page |-> r.page, block |-> r.block,
         before |-> t, after |-> u] \in BlockSet
    BY DEF PlacedSet, BlockSet
<1>5. cs \in Seq(BlockSet) /\ Len(cs) = n
    <2>1. \A k \in 1..n : cs[k] \in BlockSet
        BY <1>1, <1>2, <1>3, <1>4
    <2> QED BY <1>1, <1>2, <2>1
<1>6. \A k \in 1..n : cs[k].words = bs[k].words /\ cs[k].kind = bs[k].kind
    BY <1>2
<1>7. Words(cs) = Words(bs)
    <2>1. [k \in 1..Len(cs) |-> cs[k].words] = [k \in 1..Len(bs) |-> bs[k].words]
        BY <1>5, <1>6 DEF n
    <2> QED BY <2>1 DEF Words
<1>8. WithinMaxChars(cs)
    <2>1. \A k \in 1..n : bs[k].kind = "paragraph" => Len(bs[k].words) <= MaxChars
        BY <1>1 DEF PlacedSet
    <2> QED BY <1>5, <1>6, <2>1 DEF WithinMaxChars
<1> QED BY <1>5, <1>7, <1>8 DEF BlocksWithText, cs

\* The blocks of pages are blocks.
LEMMA PagesFlat ==
    ASSUME NEW ds \in Seq(Seq(Lines)), NEW d \in Seq(Lines)
    PROVE  FlattenSeq(FlattenSeq(Append(ds, d))) = FlattenSeq(FlattenSeq(ds)) \o FlattenSeq(d)
<1>1. FlattenSeq(Append(ds, d)) = FlattenSeq(ds) \o d
    BY FlatAppend
<1>2. FlattenSeq(ds) \in Seq(Lines)
    BY FlatType
<1> QED BY <1>1, <1>2, TextFlatConcat, LinesType

\* The placed blocks of pages are placed blocks.
LEMMA PlacesFlat ==
    ASSUME NEW ss \in Seq(Seq(PlacedSet)), NEW s \in Seq(PlacedSet)
    PROVE  Words(FlattenSeq(Append(ss, s))) = Words(FlattenSeq(ss)) \o Words(s)
<1>1. FlattenSeq(Append(ss, s)) = FlattenSeq(ss) \o s
    BY FlatAppend
<1>2. FlattenSeq(ss) \in Seq(PlacedSet)
    BY FlatType
<1> QED BY <1>1, <1>2, WordsConcat, PlacedWorded

\* Cutting a document into blocks keeps its text, and the paragraphs within the limit.
LEMMA SegmentPagesKeeps ==
    ASSUME NEW doc \in Seq(Seq(Lines))
    PROVE  BlocksWithText(SegmentPages(doc), DocText(doc))
<1> DEFINE n == Len(doc)
           norm == [p \in 1..n |-> Normalized(doc[p])]
           ss == [p \in 1..n |-> Placed(SegmentPage(doc[p]), p)]
<1>1. n \in Nat /\ \A k \in 1..n : doc[k] \in Seq(Lines)
    OBVIOUS
<1>2. norm \in Seq(Seq(Lines)) /\ Len(norm) = n /\ \A k \in 1..n : norm[k] = Normalized(doc[k])
    <2>1. \A k \in 1..n : Normalized(doc[k]) \in Seq(Lines)
        BY <1>1, NormalizedType
    <2> QED BY <1>1, <2>1
<1>3. ASSUME NEW k \in 1..n
      PROVE  ss[k] \in Seq(PlacedSet) /\ Splits(Words(ss[k]), FlattenSeq(norm[k]))
    <2> DEFINE rs == SegmentPage(doc[k])
               page == Normalized(doc[k])
    <2>1. rs = PageBlocks(page)
        BY DEF SegmentPage, PageBlocks
    <2>2. page \in Seq(Lines) /\ norm[k] = page
        BY <1>1, <1>2, NormalizedType
    <2> HIDE DEF rs, page
    <2>3. rs \in Seq(RawSet) /\ Splits(Words(rs), FlattenSeq(page))
        BY <2>1, <2>2, PageKeeps DEF BlocksOf
    <2>4. Placed(rs, k) \in Seq(PlacedSet) /\ Words(Placed(rs, k)) = Words(rs)
        BY <1>1, <2>3, PlacedKeeps
    <2> QED BY <2>2, <2>3, <2>4 DEF rs
<1>4. ss \in Seq(Seq(PlacedSet)) /\ Len(ss) = n
    BY <1>1, <1>3
<1>5. SegmentPages(doc) = WithContext(FlattenSeq(ss)) /\ DocText(doc) = FlattenSeq(FlattenSeq(norm))
    BY DEF SegmentPages, DocText
<1> HIDE DEF ss, norm, n
<1>6. /\ Upto(norm, 0) = <<>> /\ Upto(norm, n) = norm
      /\ \A k \in 0..n : Upto(norm, k) \in Seq(Seq(Lines))
      /\ \A k \in 0..n : k < n => Upto(norm, k + 1) = Append(Upto(norm, k), norm[k + 1])
    <2> DEFINE T == Seq(Lines)
    <2> HIDE DEF T
    <2>1. norm \in Seq(T) /\ Len(norm) = n
        BY <1>2 DEF T
    <2> QED BY <2>1, UptoProperties DEF T
<1>7. /\ Upto(ss, 0) = <<>> /\ Upto(ss, n) = ss
      /\ \A k \in 0..n : Upto(ss, k) \in Seq(Seq(PlacedSet))
      /\ \A k \in 0..n : k < n => Upto(ss, k + 1) = Append(Upto(ss, k), ss[k + 1])
    <2> DEFINE T == Seq(PlacedSet)
    <2> HIDE DEF T
    <2>1. ss \in Seq(T) /\ Len(ss) = n
        BY <1>4 DEF T
    <2> QED BY <2>1, UptoProperties DEF T
<1> DEFINE pieces(k) == Words(FlattenSeq(Upto(ss, k)))
           whole(k) == FlattenSeq(FlattenSeq(Upto(norm, k)))
           S == {k \in 0..n : Splits(pieces(k), whole(k))}
<1>8. \A k \in 0..n : pieces(k) \in Text /\ whole(k) \in Text
    <2> TAKE k \in 0..n
    <2>1. FlattenSeq(Upto(ss, k)) \in Seq(PlacedSet) /\ FlattenSeq(Upto(norm, k)) \in Seq(Lines)
        BY <1>6, <1>7, FlatType
    <2> QED BY <2>1, WordsText, PlacedWorded, TextFlat, LinesType
<1>9. 0 \in S
    <2>1. pieces(0) = <<>> /\ whole(0) = <<>>
        BY <1>6, <1>7, FlatEmpty, WordsNone
    <2>2. Splits(<<>>, <<>>)
        BY TextType, SplitsSame
    <2> QED BY <1>1, <2>1, <2>2
<1>10. ASSUME NEW k \in 0..n, k < n, k \in S PROVE k + 1 \in S
    <2>1. k + 1 \in 1..n /\ k + 1 \in 0..n
        BY <1>1, <1>10
    <2>2. /\ ss[k + 1] \in Seq(PlacedSet) /\ norm[k + 1] \in Seq(Lines)
          /\ Splits(Words(ss[k + 1]), FlattenSeq(norm[k + 1]))
        BY <1>2, <1>3, <2>1
    <2>3. pieces(k + 1) = pieces(k) \o Words(ss[k + 1])
        BY <1>7, <1>10, <2>2, PlacesFlat
    <2>4. whole(k + 1) = whole(k) \o FlattenSeq(norm[k + 1])
        BY <1>6, <1>10, <2>2, PagesFlat
    <2>5. Words(ss[k + 1]) \in Text /\ FlattenSeq(norm[k + 1]) \in Text
        BY <2>2, WordsText, PlacedWorded, TextFlat, LinesType
    <2>6. pieces(k) \in Text /\ whole(k) \in Text /\ Splits(pieces(k), whole(k))
        BY <1>8, <1>10
    <2> HIDE DEF pieces, whole
    <2>7. Splits(pieces(k + 1), whole(k + 1))
        BY <2>2, <2>3, <2>4, <2>5, <2>6, SplitsConcat
    <2> QED BY <2>1, <2>7
<1>11. n \in S
    <2> HIDE DEF S
    <2>1. \A k \in 0..n : k \in S
        BY <1>1, <1>9, <1>10, BoundedInduction
    <2> QED BY <1>1, <2>1
<1>12. Splits(Words(FlattenSeq(ss)), DocText(doc))
    BY <1>5, <1>6, <1>7, <1>11
<1>13. FlattenSeq(ss) \in Seq(PlacedSet)
    BY <1>4, FlatType
<1> QED BY <1>5, <1>12, <1>13, WithContextKeeps

-----------------------------------------------------------------------------
(* The machine *)

\* A pair that was compared, with its candidates.
ComparedSet ==
    {c \in [pair : PairSet, candidates : Seq(CandidateSet)] : c.candidates = PairCandidates(c.pair)}

\* The pairs compared, and those to come.
PairsOf(done, todo) == [n \in 1..Len(done) |-> done[n].pair] \o todo

\* What holds in every state: the blocks are the documents', the pairs, compared or not,
\* are made of the blocks, and the candidates are those of their pairs.
DiffInv ==
    /\ doc1 \in Seq(Seq(Lines)) /\ doc2 \in Seq(Seq(Lines))
    /\ pc \in {"segment", "align", "diff", "done"}
    /\ aligned \in Seq(PairSet) /\ compared \in Seq(ComparedSet)
    /\ pc \in {"segment", "align"} => aligned = <<>> /\ compared = <<>>
    /\ pc \in {"align", "diff"} => /\ BlocksWithText(blocks1, DocText(doc1))
                                   /\ BlocksWithText(blocks2, DocText(doc2))
    /\ pc = "diff" => MadeOf(PairsOf(compared, aligned), blocks1, blocks2)

\* At the begin all pairs are to come.
LEMMA NoneCompared ==
    ASSUME NEW todo \in Seq(PairSet)
    PROVE  PairsOf(<<>>, todo) = todo
<1>1. \A s : s = [n \in 1..0 |-> <<>>[n].pair] => s = <<>>
    OBVIOUS
<1>2. Len(<<>>) = 0 /\ <<>> \o todo = todo
    OBVIOUS
<1> QED BY <1>1, <1>2 DEF PairsOf

\* A step compares the first of those to come.
LEMMA OneMoreCompared ==
    ASSUME NEW done \in Seq(ComparedSet), NEW todo \in Seq(PairSet), todo # <<>>,
           NEW c \in ComparedSet, c.pair = Head(todo)
    PROVE  PairsOf(Append(done, c), Tail(todo)) = PairsOf(done, todo)
<1> DEFINE n == Len(done)
           s == [k \in 1..n |-> done[k].pair]
           more == Append(done, c)
           h == Head(todo)
           t == Tail(todo)
<1>1. /\ n \in Nat /\ Len(more) = n + 1 /\ more[n + 1] = c /\ \A k \in 1..n : more[k] = done[k]
    OBVIOUS
<1>2. s \in Seq(PairSet) /\ Len(s) = n
    <2>1. \A d \in ComparedSet : d.pair \in PairSet
        BY DEF ComparedSet
    <2>2. \A k \in 1..n : done[k].pair \in PairSet
        BY <2>1
    <2> QED BY <1>1, <2>2
<1>3. h \in PairSet /\ t \in Seq(PairSet) /\ todo = <<h>> \o t
    OBVIOUS
<1>4. \A k \in 1..n : s[k] = done[k].pair
    OBVIOUS
<1>5. c.pair = h
    OBVIOUS
<1> HIDE DEF n, s, more, h, t
<1>6. [k \in 1..Len(more) |-> more[k].pair] = Append(s, h)
    <2> DEFINE a == [k \in 1..Len(more) |-> more[k].pair]
               b == Append(s, h)
    <2>1. b \in Seq(PairSet) /\ Len(b) = n + 1 /\ b[n + 1] = h /\ \A k \in 1..n : b[k] = s[k]
        BY <1>1, <1>2, <1>3
    <2>2. b = [k \in 1..(n + 1) |-> b[k]]
        <3>1. \A x \in Seq(PairSet) : x = [k \in 1..Len(x) |-> x[k]]
            OBVIOUS
        <3> HIDE DEF b
        <3> QED BY ONLY <2>1, <3>1
    <2> HIDE DEF b
    <2>3. \A k \in 1..(n + 1) : more[k].pair = b[k]
        BY <1>1, <1>4, <1>5, <2>1
    <2>4. a = [k \in 1..(n + 1) |-> b[k]]
        BY <1>1, <2>3
    <2> QED BY <2>2, <2>4 DEF b
<1>7. Append(s, h) \o t = s \o (<<h>> \o t)
    <2>1. <<h>> \in Seq(PairSet) /\ Append(s, h) = s \o <<h>>
        BY <1>2, <1>3
    <2> DEFINE u == <<h>>
    <2> HIDE DEF u
    <2>2. u \in Seq(PairSet)
        BY <2>1 DEF u
    <2>3. (s \o u) \o t = s \o (u \o t)
        <3>1. s \in Seq(PairSet) /\ u \in Seq(PairSet) /\ t \in Seq(PairSet)
            BY ONLY <1>2, <1>3, <2>2
        <3>2. Associates(s, u, t)
            BY ONLY <3>1, Assoc
        <3> QED BY ONLY <3>2 DEF Associates
    <2> QED BY <2>1, <2>3 DEF u
<1> QED BY <1>3, <1>6, <1>7 DEF PairsOf, more, s, t, n

\* A pair with its candidates, as ComparePages keeps it.
LEMMA ComparedIs ==
    ASSUME NEW p \in PairSet
    PROVE  [pair |-> p, candidates |-> PairCandidates(p)] \in ComparedSet
<1>1. PairCandidates(p) \in Seq(CandidatesIn(Text1(p), Text2(p)))
    BY PairCandidatesExplain DEF Explains
<1>2. CandidatesIn(Text1(p), Text2(p)) \in SUBSET CandidateSet
    BY DEF CandidatesIn
<1>3. PairCandidates(p) \in Seq(CandidateSet)
    BY <1>1, <1>2
<1> QED BY <1>3 DEF ComparedSet

\* DiffInv holds at the start.
LEMMA DiffInvInit == DiffInit => DiffInv
<1> SUFFICES ASSUME DiffInit PROVE DiffInv
    OBVIOUS
<1>1. doc1 \in Seq(Seq(Lines)) /\ doc2 \in Seq(Seq(Lines))
    BY DiffAssumption DEF DiffInit
<1>2. pc = "segment" /\ aligned = <<>> /\ compared = <<>>
    BY DEF DiffInit
<1>3. <<>> \in Seq(PairSet) /\ <<>> \in Seq(ComparedSet)
    OBVIOUS
<1> QED BY <1>1, <1>2, <1>3 DEF DiffInv

\* Each step keeps DiffInv.
LEMMA DiffInvStep == DiffInv /\ [ComparePages]_diffVars => DiffInv'
<1> SUFFICES ASSUME DiffInv, [ComparePages]_diffVars PROVE DiffInv'
    OBVIOUS
<1>1. CASE Same
    <2>1. pc' = "done" /\ UNCHANGED <<doc1, doc2, blocks1, blocks2, aligned, compared>>
        BY <1>1 DEF Same
    <2> QED BY <2>1 DEF DiffInv
<1>2. CASE Segment
    <2>1. /\ pc = "segment" /\ pc' = "align" /\ UNCHANGED <<doc1, doc2, aligned, compared>>
          /\ blocks1' = SegmentPages(doc1) /\ blocks2' = SegmentPages(doc2)
        BY <1>2 DEF Segment
    <2>2. /\ BlocksWithText(SegmentPages(doc1), DocText(doc1))
          /\ BlocksWithText(SegmentPages(doc2), DocText(doc2))
        BY SegmentPagesKeeps DEF DiffInv
    <2>3. BlocksWithText(blocks1', DocText(doc1')) /\ BlocksWithText(blocks2', DocText(doc2'))
        BY <2>1, <2>2
    <2> QED BY <2>1, <2>3 DEF DiffInv
<1>3. CASE Align
    <2>1. /\ pc = "align" /\ pc' = "diff" /\ aligned' = AlignBlocks(blocks1, blocks2)
          /\ UNCHANGED <<doc1, doc2, blocks1, blocks2, compared>>
        BY <1>3 DEF Align
    <2>2. /\ blocks1 \in Seq(BlockSet) /\ blocks2 \in Seq(BlockSet) /\ compared = <<>>
          /\ BlocksWithText(blocks1, DocText(doc1)) /\ BlocksWithText(blocks2, DocText(doc2))
        BY <2>1 DEF DiffInv, BlocksWithText
    <2>3. MadeOf(AlignBlocks(blocks1, blocks2), blocks1, blocks2)
        BY <2>2, AlignBlocksCovers
    <2>4. aligned' \in Seq(PairSet)
        BY <2>1, <2>3 DEF MadeOf
    <2>5. PairsOf(compared', aligned') = aligned'
        BY <2>1, <2>2, <2>4, NoneCompared
    <2>6. MadeOf(PairsOf(compared', aligned'), blocks1', blocks2')
        BY <2>1, <2>3, <2>5
    <2>7. BlocksWithText(blocks1', DocText(doc1')) /\ BlocksWithText(blocks2', DocText(doc2'))
        BY <2>1, <2>2
    <2> QED BY <2>1, <2>4, <2>6, <2>7 DEF DiffInv
<1>4. CASE DiffNext
    <2> DEFINE c == [pair |-> Head(aligned), candidates |-> PairCandidates(Head(aligned))]
    <2>1. /\ pc = "diff" /\ aligned # <<>> /\ compared' = Append(compared, c)
          /\ aligned' = Tail(aligned) /\ UNCHANGED <<doc1, doc2, pc, blocks1, blocks2>>
        BY <1>4 DEF DiffNext
    <2>2. aligned \in Seq(PairSet) /\ compared \in Seq(ComparedSet)
        BY DEF DiffInv
    <2>3. Head(aligned) \in PairSet /\ Tail(aligned) \in Seq(PairSet)
        BY <2>1, <2>2
    <2>4. c \in ComparedSet /\ c.pair = Head(aligned)
        BY <2>3, ComparedIs
    <2> HIDE DEF c
    <2>5. PairsOf(compared', aligned') = PairsOf(compared, aligned)
        BY <2>1, <2>2, <2>4, OneMoreCompared
    <2>6. compared' \in Seq(ComparedSet)
        BY <2>1, <2>2, <2>4
    <2>7. MadeOf(PairsOf(compared', aligned'), blocks1', blocks2')
        <3>1. MadeOf(PairsOf(compared, aligned), blocks1, blocks2)
            BY <2>1 DEF DiffInv
        <3> QED BY <2>1, <2>5, <3>1
    <2>8. BlocksWithText(blocks1', DocText(doc1')) /\ BlocksWithText(blocks2', DocText(doc2'))
        BY <2>1 DEF DiffInv
    <2>9. /\ doc1' \in Seq(Seq(Lines)) /\ doc2' \in Seq(Seq(Lines)) /\ pc' = "diff"
          /\ aligned' \in Seq(PairSet)
        BY <2>1, <2>3 DEF DiffInv
    <2> QED BY <2>6, <2>7, <2>8, <2>9 DEF DiffInv
<1>5. CASE AllDiffed
    <2>1. pc' = "done" /\ UNCHANGED <<doc1, doc2, blocks1, blocks2, aligned, compared>>
        BY <1>5 DEF AllDiffed
    <2> QED BY <2>1 DEF DiffInv
<1>6. CASE UNCHANGED diffVars
    <2>1. UNCHANGED <<doc1, doc2, pc, blocks1, blocks2, aligned, compared>>
        BY <1>6 DEF diffVars
    <2> QED BY <2>1 DEF DiffInv
<1> QED BY <1>1, <1>2, <1>3, <1>4, <1>5, <1>6 DEF ComparePages

\* The invariant holds in every state.
THEOREM DiffInvariant == DiffSpec => []DiffInv
<1>1. DiffInit => DiffInv
    BY DiffInvInit
<1>2. DiffInv /\ [ComparePages]_diffVars => DiffInv'
    BY DiffInvStep
<1> QED BY <1>1, <1>2, PTL DEF DiffSpec

\* Cutting a document into blocks keeps every character of its text, in order, and every
\* word but those of a sentence over the limit; and no piece of a paragraph is over the
\* limit (_segment_page, _split_long_paragraph).
THEOREM BlocksKeepDocument == DiffSpec => []BlocksKeepText
<1>1. DiffInv => BlocksKeepText
    BY DEF DiffInv, BlocksKeepText, BlocksWithText, WithinMaxChars
<1> QED BY <1>1, DiffInvariant, PTL

\* Every block of either document is in exactly one pair, in the order of both
\* documents (_align_blocks, _align_changed_range).
THEOREM BlocksAlignedOnce == DiffSpec => []EveryBlockOnce
<1>1. Pairs = PairsOf(compared, aligned)
    BY DEF Pairs, PairsOf
<1>2. DiffInv => EveryBlockOnce
    BY <1>1 DEF DiffInv, EveryBlockOnce, MadeOf, Lefts, Rights
<1> QED BY <1>2, DiffInvariant, PTL

\* The candidates of a pair turn the tokens of its first side into those of its second.
LEMMA PatchedIs ==
    ASSUME NEW p \in PairSet
    PROVE  Patched(p, PairCandidates(p)) = Tokens(Words(p.file2))
<1> DEFINE t1 == Text1(p)
           t2 == Text2(p)
           cs == PairCandidates(p)
<1>1. t1 = Tokens(Words(p.file1)) /\ t2 = Tokens(Words(p.file2))
    BY DEF Text1, Text2
<1>2. t1 \in TokenText /\ t2 \in TokenText
    BY PairTexts
<1>3. Patched(p, cs) = PatchState(t1, t2, cs).ts \o SubSeq(t1, PatchState(t1, t2, cs).at + 1, Len(t1))
    BY DEF Patched, PatchState, PatchStep, Text1, Text2
<1>4. PatchedTo(t1, t2, cs, Len(t1), Len(t2))
    BY PairCandidatesExplain DEF Explains
<1> HIDE DEF t1, t2, cs
<1>5. PatchState(t1, t2, cs).ts \o SubSeq(t1, PatchState(t1, t2, cs).at + 1, Len(t1)) = t2
    BY <1>2, <1>4, PatchLast
<1> QED BY <1>1, <1>3, <1>5 DEF cs

\* The candidates of a pair, put in place one after the other, make its second text of
\* its first (_diff_block_pair).
THEOREM CandidatesAreTheChange == DiffSpec => []CandidatesExplainChange
<1>1. DiffInv => CandidatesExplainChange
    <2> SUFFICES ASSUME DiffInv, compared # <<>>
                 PROVE  Patched(Last(compared).pair, Last(compared).candidates)
                            = Tokens(Words(Last(compared).pair.file2))
        BY DEF CandidatesExplainChange
    <2>1. compared \in Seq(ComparedSet)
        BY DEF DiffInv
    <2>2. Last(compared) \in ComparedSet
        BY <2>1 DEF Last
    <2>3. Last(compared).pair \in PairSet /\ Last(compared).candidates = PairCandidates(Last(compared).pair)
        BY <2>2 DEF ComparedSet
    <2> QED BY <2>3, PatchedIs
<1> QED BY <1>1, DiffInvariant, PTL

\* The batches are the candidates in order, within the limits, and none is closed that
\* had room for the next (batch_for_classification).
THEOREM BatchesInOrder == DiffSpec => []BatchesKeepOrder
<1>1. DiffInv => BatchesKeepOrder
    <2> SUFFICES ASSUME DiffInv PROVE BatchesKeepOrder
        OBVIOUS
    <2> DEFINE T == Seq(CandidateSet)
    <2>1. compared \in Seq(ComparedSet) /\ \A c \in ComparedSet : c.candidates \in T
        BY DEF DiffInv, ComparedSet
    <2>2. Len(compared) \in Nat /\ \A n \in 1..Len(compared) : compared[n].candidates \in T
        BY <2>1
    <2> HIDE DEF T
    <2>3. [n \in 1..Len(compared) |-> compared[n].candidates] \in Seq(T)
        BY <2>2
    <2>4. Candidates \in Seq(CandidateSet)
        BY <2>3, FlatType DEF Candidates, T
    <2>5. FlattenSeq(Batch(Candidates)) = Candidates /\ GoodBatches(Batch(Candidates))
        BY <2>4, BatchIsGood
    <2> QED BY <2>5 DEF BatchesKeepOrder, GoodBatches, WithinLimits, Full
<1> QED BY <1>1, DiffInvariant, PTL

\* A changed range: the blocks of either side that an opcode stands for.
RangeIsCheapest(l, r, o) ==
    LET left  == SubSeq(l, o.i1 + 1, o.i2)
        right == SubSeq(r, o.j1 + 1, o.j2)
    IN  AlignmentCost(left, right, AlignChangedRange(left, right)) = Cheapest(left, right)

\* The alignment of any two ranges costs no more than the cheapest.
LEMMA RangesAreCheapest ==
    ASSUME NEW l \in Seq(BlockSet), NEW r \in Seq(BlockSet), NEW k \in 1..Len(Opcodes(Keys(l), Keys(r)))
    PROVE  RangeIsCheapest(l, r, Opcodes(Keys(l), Keys(r))[k])
<1> DEFINE a == Keys(l)
           b == Keys(r)
           ops == Opcodes(a, b)
           o == ops[k]
           la == Len(l)
           lb == Len(r)
<1>1. la \in Nat /\ lb \in Nat
    OBVIOUS
<1>2. a \in Seq(Text) /\ b \in Seq(Text) /\ Len(a) = la /\ Len(b) = lb
    <2>1. ASSUME NEW x \in BlockSet PROVE Key(x.words) \in Text
        <3>1. x.words \in Lines
            BY DEF BlockSet
        <3>2. x.words \in Text
            BY <3>1, LinesType
        <3> QED BY <3>2, KeyType
    <2>2. (\A n \in 1..la : l[n] \in BlockSet) /\ (\A n \in 1..lb : r[n] \in BlockSet)
        OBVIOUS
    <2> HIDE DEF la, lb
    <2> QED BY <1>1, <2>1, <2>2 DEF Keys, la, lb
<1> HIDE DEF a, b
<1>3. ops \in Seq(OpcodeSet(a, b))
    BY <1>2, OpcodesLead
<1>4. k \in 1..Len(ops)
    BY DEF a, b
<1> HIDE DEF ops
<1>5. o \in OpcodeSet(a, b)
    BY <1>3, <1>4
<1> HIDE DEF o
<1>6. /\ o.i1 \in 0..la /\ o.i2 \in 0..la /\ o.i1 <= o.i2
      /\ o.j1 \in 0..lb /\ o.j2 \in 0..lb /\ o.j1 <= o.j2
    BY <1>1, <1>2, <1>5, OpcodeIs
<1> DEFINE left == SubSeq(l, o.i1 + 1, o.i2)
           right == SubSeq(r, o.j1 + 1, o.j2)
<1>7. left \in Seq(BlockSet) /\ right \in Seq(BlockSet)
    BY <1>6, PartType
<1> HIDE DEF left, right
<1>8. AlignmentCost(left, right, AlignChangedRange(left, right)) = Cheapest(left, right)
    BY <1>7, TraceCosts, TableIsCheapest
<1>9. RangeIsCheapest(l, r, o)
    BY <1>8 DEF RangeIsCheapest, left, right
<1> QED BY <1>9 DEF o, ops, a, b

\* No other ordered alignment of a changed range, of whatever groups of up to three, is
\* cheaper than the one the table leads to (_align_changed_range).
THEOREM ChangedRangesOptimal == DiffSpec => []ChangedRangeOptimal
<1>1. DiffInv => ChangedRangeOptimal
    <2> SUFFICES ASSUME DiffInv, pc = "align",
                        NEW n \in 1..Len(Opcodes(Keys(blocks1), Keys(blocks2)))
                 PROVE  RangeIsCheapest(blocks1, blocks2, Opcodes(Keys(blocks1), Keys(blocks2))[n])
        BY DEF ChangedRangeOptimal, RangeIsCheapest
    <2>1. blocks1 \in Seq(BlockSet) /\ blocks2 \in Seq(BlockSet)
        BY DEF DiffInv, BlocksWithText
    <2> QED BY <2>1, RangesAreCheapest
<1> QED BY <1>1, DiffInvariant, PTL

=============================================================================
