-------------------------- MODULE HierarchicalDiff --------------------------
(***************************************************************************)
(* HierarchicalDiffEngine (services/hierarchical_diff.py): the pages of    *)
(* two documents are cut into blocks, the blocks aligned, the aligned      *)
(* pairs compared token by token; and the batches that the classifier      *)
(* makes of candidates.                                                    *)
(*                                                                         *)
(* A document is a sequence of pages, a page a sequence of lines as        *)
(* PageText has them.                                                      *)
(***************************************************************************)
EXTENDS Difflib, PageText

CONSTANTS
    Documents,      \* the documents compared with one another
    MaxChars,       \* longest paragraph block (4000)
    HeadingChars,   \* longest heading (120)
    MaxEvidence,    \* longest text of a block that the classifier reads (4000)
    MaxContext,     \* and of the blocks around it (600)
    MaxBatch,       \* max_candidates of a batch (6)
    MaxBatchChars,  \* max_chars of a batch (10000)
    Overhead        \* what a candidate weighs beside its texts (300)

ASSUME DiffAssumption ==
    /\ Documents \subseteq Seq(Seq(Lines))
    /\ MaxChars \in Nat \ {0}
    /\ HeadingChars \in Nat
    /\ MaxEvidence \in Nat
    /\ MaxContext \in Nat
    /\ MaxBatch \in Nat \ {0}
    /\ MaxBatchChars \in Nat
    /\ Overhead \in Nat

-----------------------------------------------------------------------------
(* Blocks *)

\* _SENTENCE_END_RE.
EndsSentence(ws) == ws # <<>> /\ Last(ws).char = "."

\* The text goes on after its first word.
GoesOn(ws) == Len(FirstWord(ws)) < Len(ws)

\* _LIST_RE.
IsListItem(line) ==
    LET w == FirstWord(line)
    IN  /\ GoesOn(line)
        /\ \/ w \in {<<c>> : c \in {"*"} \cup Dashes}
           \/ IsNumbering(w) /\ \A k \in 1..(Len(w) - 1) : w[k] # "."
           \/ IsLettering(w)

\* _NUMBERED_HEADING_RE, or seven letters of ten in upper case.
IsHeading(line) ==
    LET letters == {k \in 1..Len(line) : line[k].char \in Letters}
        upper   == {k \in letters : line[k].char = "A"}
    IN  /\ Len(line) <= HeadingChars
        /\ \/ GoesOn(line) /\ IsNumber(FirstWord(line))
           \/ /\ letters # {}
              /\ 10 * Cardinality(upper) >= 7 * Cardinality(letters)
              /\ ~EndsSentence(line)

\* _special_block_kind: a line that is a block of its own.
SpecialKind(line) ==
    IF \E k \in 1..Len(line) : line[k].char = "|" THEN "table_row"
    ELSE IF IsListItem(line) THEN "list_item"
    ELSE IF IsHeading(line) THEN "heading"
    ELSE "none"

\* What was cut off, and what has not been cut off yet.
Cut(done, current) == [done |-> done, current |-> current]

Pieces(cut) == IF cut.current = <<>> THEN cut.done ELSE Append(cut.done, cut.current)

\* The sentences of a paragraph: each begins after white space.
Sentences(ws) ==
    LET Add(acc, g) ==
            IF EndsSentence(acc.current) /\ ~g.glued
            THEN Cut(Append(acc.done, acc.current), <<g>>)
            ELSE Cut(acc.done, Append(acc.current, g))
    IN  Pieces(FoldLeft(Add, Cut(<<>>, <<>>), ws))

\* Slices of at most MaxChars characters, in the midst of a word too.
Slices(ws) ==
    LET Add(acc, g) ==
            IF Len(acc.current) = MaxChars
            THEN Cut(Append(acc.done, acc.current), <<Glyph(g.char, FALSE)>>)
            ELSE Cut(acc.done, Append(acc.current, g))
    IN  Pieces(FoldLeft(Add, Cut(<<>>, <<>>), ws))

\* Mutant: a sentence that is cut into slices loses the one before it.
SplitForgetsCurrent(ws) ==
    IF Len(ws) <= MaxChars THEN <<ws>>
    ELSE LET Add(acc, s) ==
               IF Len(s) > MaxChars THEN Cut(acc.done \o Slices(s), <<>>)
               ELSE IF acc.current # <<>> /\ Len(acc.current) + Len(s) > MaxChars
               THEN Cut(Append(acc.done, acc.current), s)
               ELSE Cut(acc.done, acc.current \o s)
         IN  Pieces(FoldLeft(Add, Cut(<<>>, <<>>), Sentences(ws)))

\* _split_long_paragraph: whole sentences as long as they fit, a longer sentence in
\* slices.
SplitLongParagraph(ws) ==
    IF Len(ws) <= MaxChars THEN <<ws>>
    ELSE LET Add(acc, s) ==
               IF Len(s) > MaxChars THEN Cut(Pieces(acc) \o Slices(s), <<>>)
               ELSE IF acc.current # <<>> /\ Len(acc.current) + Len(s) > MaxChars
               THEN Cut(Append(acc.done, acc.current), s)
               ELSE Cut(acc.done, acc.current \o s)
         IN  Pieces(FoldLeft(Add, Cut(<<>>, <<>>), Sentences(ws)))

Raw(kind, ws) == [kind |-> kind, words |-> ws]

\* flush_paragraph.
Flush(acc) ==
    [blocks |-> acc.blocks \o
        (IF acc.para = <<>> THEN <<>>
         ELSE LET ps == SplitLongParagraph(acc.para)
              IN  [n \in 1..Len(ps) |-> Raw("paragraph", ps[n])]),
     para   |-> <<>>]

\* A line: blank, a block of its own, or the next of a paragraph, which it ends
\* with its sentence or when the paragraph is long enough.
AddLine(acc, line) ==
    IF line = <<>> THEN Flush(acc)
    ELSE IF SpecialKind(line) # "none"
         THEN [Flush(acc) EXCEPT !.blocks = Append(@, Raw(SpecialKind(line), line))]
         ELSE LET next == [acc EXCEPT !.para = @ \o line]
              IN  IF EndsSentence(line) \/ Len(next.para) >= MaxChars
                  THEN Flush(next) ELSE next

\* _segment_page.
SegmentPage(page) ==
    Flush(FoldLeft(AddLine, [blocks |-> <<>>, para |-> <<>>], Normalized(page))).blocks

\* The blocks of page p, with their place.
Placed(raw, p) ==
    [n \in 1..Len(raw) |-> [kind |-> raw[n].kind, words |-> raw[n].words, page |-> p, block |-> n]]

\* Blocks with the texts before and after each, across pages.
WithContext(blocks) ==
    [k \in 1..Len(blocks) |->
        [kind |-> blocks[k].kind, words |-> blocks[k].words,
         page |-> blocks[k].page, block |-> blocks[k].block,
         before |-> IF k > 1 THEN blocks[k - 1].words ELSE <<>>,
         after  |-> IF k < Len(blocks) THEN blocks[k + 1].words ELSE <<>>]]

\* _segment_pages.
SegmentPages(pages) ==
    WithContext(FlattenSeq([p \in 1..Len(pages) |-> Placed(SegmentPage(pages[p]), p)]))

Words(blocks) == FlattenSeq([k \in 1..Len(blocks) |-> blocks[k].words])

\* _combine_blocks.
Combine(blocks) ==
    [blocks[1] EXCEPT
        !.kind  = IF \A k \in 1..Len(blocks) : blocks[k].kind = @ THEN @ ELSE "group",
        !.words = Words(blocks),
        !.after = Last(blocks).after]

-----------------------------------------------------------------------------
(* Alignment *)

Pair(op, left, right) == [op |-> op, file1 |-> left, file2 |-> right]

\* A block, or several, of each side.  Mutant: they are the same when their keys are.
MatchedByKey(left, right) ==
    Pair(IF Key(Words(left)) = Key(Words(right)) THEN "equal" ELSE "replace", left, right)

\* A block, or several, of each side: the same when the literal keys are.
Matched(left, right) ==
    Pair(IF Words(left) = Words(right) THEN "equal" ELSE "replace", left, right)

\* The ways to go on, in the order of the code: leave a block of the left side out,
\* leave one of the right side out, or match up to three with up to three.
Moves == << <<1, 0>>, <<0, 1>>, <<1, 1>>, <<1, 2>>, <<1, 3>>, <<2, 1>>, <<2, 2>>, <<2, 3>>,
            <<3, 1>>, <<3, 2>>, <<3, 3>> >>

\* The cells <<i, j>> that a move leads to and comes from.
After(cell, mv) == <<cell[1] + mv[1], cell[2] + mv[2]>>

Prior(cell, mv) == <<cell[1] - mv[1], cell[2] - mv[2]>>

\* So many blocks are left on either side of a cell.
Fits(left, right, cell, mv) == cell[1] + mv[1] <= Len(left) /\ cell[2] + mv[2] <= Len(right)

IsGap(mv) == 0 \in {mv[1], mv[2]}

GapCost == 700

\* The cost of a move from (i, j), in thousandths.
MoveCost(left, right, i, j, mv) ==
    LET ls == Combine(SubSeq(left, i + 1, i + mv[1]))
        rs == Combine(SubSeq(right, j + 1, j + mv[2]))
        kinds == IF mv = <<1, 1>> /\ ls.kind # rs.kind THEN 60 ELSE 0
        cost  == 1000 - Ratio(Key(ls.words), Key(rs.words))
                   + kinds + 30 * (mv[1] + mv[2] - 2)
    IN  IF IsGap(mv) THEN GapCost ELSE IF cost < 1350 THEN cost ELSE 1350

\* No way to a cell is known yet (infinity).
Unreached == -1

\* Mutant: the last way to a cell is kept, not the cheapest.
RelaxAlways(left, right, cell, table, mv) ==
    LET cost == table.cost[cell] + MoveCost(left, right, cell[1], cell[2], mv)
        next == After(cell, mv)
    IN  [cost |-> [table.cost EXCEPT ![next] = cost], move |-> [table.move EXCEPT ![next] = mv]]

\* One way on from a cell whose cost is known: a gap must be cheaper than what was
\* found, a match at least as cheap.
Relax(left, right, cell, table, mv) ==
    LET cost == table.cost[cell] + MoveCost(left, right, cell[1], cell[2], mv)
        next == After(cell, mv)
    IN  IF \/ table.cost[next] = Unreached
           \/ cost < table.cost[next]
           \/ ~IsGap(mv) /\ cost = table.cost[next]
        THEN [cost |-> [table.cost EXCEPT ![next] = cost],
              move |-> [table.move EXCEPT ![next] = mv]]
        ELSE table

Cells(left, right) == (0..Len(left)) \X (0..Len(right))

\* All ways on from a cell.
RelaxFrom(left, right, table, cell) ==
    LET Try(t, mv) == IF Fits(left, right, cell, mv)
                      THEN Relax(left, right, cell, t, mv) ELSE t
    IN  IF table.cost[cell] = Unreached THEN table ELSE FoldLeft(Try, table, Moves)

\* range(n), counted from 1.
Steps(n) == [k \in 1..n |-> k]

\* The ways on from every cell of a row.
RelaxRow(left, right, table, row) ==
    FoldLeft(LAMBDA t, col : RelaxFrom(left, right, t, <<row - 1, col - 1>>),
             table, Steps(Len(right) + 1))

\* Only the first cell is known how to get to.
NoRoutes(left, right) ==
    [cost |-> [c \in Cells(left, right) |-> IF c = <<0, 0>> THEN 0 ELSE Unreached],
     move |-> [c \in Cells(left, right) |-> <<0, 0>>]]

\* The table, row by row and in a row cell by cell.
CostTable(left, right) ==
    FoldLeft(LAMBDA table, row : RelaxRow(left, right, table, row),
             NoRoutes(left, right), Steps(Len(left) + 1))

\* The pair that the move mv to a cell makes.
MovePair(left, right, cell, mv) ==
    LET ls == SubSeq(left, cell[1] - mv[1] + 1, cell[1])
        rs == SubSeq(right, cell[2] - mv[2] + 1, cell[2])
    IN  IF mv[2] = 0 THEN Pair("delete", ls, <<>>)
        ELSE IF mv[1] = 0 THEN Pair("insert", <<>>, rs)
        ELSE Matched(ls, rs)

\* The way back from the last cell to (0, 0), read forward.
Trace(left, right, move) ==
    LET to[cell \in Cells(left, right)] ==
            LET mv == move[cell]
            IN  IF cell = <<0, 0>> THEN <<>>
                ELSE Append(to[Prior(cell, mv)],
                            MovePair(left, right, cell, mv))
    IN  to[<<Len(left), Len(right)>>]

\* _align_changed_range.
AlignChangedRange(left, right) == Trace(left, right, CostTable(left, right).move)

Keys(blocks) == [k \in 1..Len(blocks) |-> Key(blocks[k].words)]

\* Mutant: blocks of the second side alone are forgotten.
AlignForgetsInserts(blocks1, blocks2) ==
    LET ops == Opcodes(Keys(blocks1), Keys(blocks2))
        Aligned(o) ==
            LET left  == SubSeq(blocks1, o.i1 + 1, o.i2)
                right == SubSeq(blocks2, o.j1 + 1, o.j2)
            IN  CASE o.op = "equal"  -> [k \in 1..Len(left) |-> Matched(<<left[k]>>, <<right[k]>>)]
                  [] o.op = "delete" -> [k \in 1..Len(left) |-> Pair("delete", <<left[k]>>, <<>>)]
                  [] o.op = "insert" -> <<>>
                  [] OTHER           -> AlignChangedRange(left, right)
    IN  FlattenSeq([n \in 1..Len(ops) |-> Aligned(ops[n])])

\* _align_blocks: equal keys are matched one by one, what lies between is aligned by
\* cost.
AlignBlocks(blocks1, blocks2) ==
    LET ops == Opcodes(Keys(blocks1), Keys(blocks2))
        Aligned(o) ==
            LET left  == SubSeq(blocks1, o.i1 + 1, o.i2)
                right == SubSeq(blocks2, o.j1 + 1, o.j2)
            IN  CASE o.op = "equal"  -> [k \in 1..Len(left) |-> Matched(<<left[k]>>, <<right[k]>>)]
                  [] o.op = "delete" -> [k \in 1..Len(left) |-> Pair("delete", <<left[k]>>, <<>>)]
                  [] o.op = "insert" -> [k \in 1..Len(right) |-> Pair("insert", <<>>, <<right[k]>>)]
                  [] OTHER           -> AlignChangedRange(left, right)
    IN  FlattenSeq([n \in 1..Len(ops) |-> Aligned(ops[n])])

-----------------------------------------------------------------------------
(* Candidates *)

\* The length of a text that is clipped to max.
Clipped(ws, max) == IF Len(ws) <= max THEN Len(ws) ELSE max

\* What the classifier reads of one side: the block and the texts around it.
ReadWith(blocks) ==
    IF blocks = <<>> THEN 0
    ELSE Clipped(Words(blocks), MaxEvidence) + Clipped(Combine(blocks).before, MaxContext)
            + Clipped(Combine(blocks).after, MaxContext)

\* A difference: the tokens [i1, i2) of one side against [j1, j2) of the other.
Candidate(pair, i1, i2, j1, j2) ==
    [i1 |-> i1, i2 |-> i2, j1 |-> j1, j2 |-> j2,
     size |-> ReadWith(pair.file1) + ReadWith(pair.file2) + Overhead]

\* _whole_block_candidate.
WholeBlock(pair) ==
    <<Candidate(pair, 0, Len(Tokens(Words(pair.file1))), 0, Len(Tokens(Words(pair.file2))))>>

\* The candidates of one opcode: as many tokens replaced by as many are taken one by
\* one.
OpcodeCandidates(pair, o) ==
    IF o.op = "equal" THEN <<>>
    ELSE IF o.op = "replace" /\ o.i2 - o.i1 = o.j2 - o.j1
    THEN [k \in 1..(o.i2 - o.i1) |->
            Candidate(pair, o.i1 + k - 1, o.i1 + k, o.j1 + k - 1, o.j1 + k)]
    ELSE <<Candidate(pair, o.i1, o.i2, o.j1, o.j2)>>

\* _diff_block_pair, with its net for texts that have the same tokens and not the
\* same key.
DiffBlockPair(pair) ==
    LET ops == Opcodes(Tokens(Words(pair.file1)), Tokens(Words(pair.file2)))
        found == FlattenSeq([n \in 1..Len(ops) |-> OpcodeCandidates(pair, ops[n])])
    IN  IF found = <<>> /\ Key(Words(pair.file1)) # Key(Words(pair.file2))
        THEN WholeBlock(pair) ELSE found

PairCandidates(pair) ==
    CASE pair.op = "equal"                -> <<>>
      [] pair.op \in {"insert", "delete"} -> WholeBlock(pair)
      [] pair.op = "replace"              -> DiffBlockPair(pair)

\* current_chars.
Weight(cs) == FoldLeft(LAMBDA sum, c : sum + c.size, 0, cs)

\* Mutant: the candidate that closes a batch is in neither.
BatchDropsOne(acc, c) ==
    IF acc.current # <<>> /\ (\/ Len(acc.current) >= MaxBatch
                              \/ Weight(acc.current) + c.size > MaxBatchChars)
    THEN Cut(Append(acc.done, acc.current), <<>>)
    ELSE Cut(acc.done, Append(acc.current, c))

\* A candidate goes into the batch at hand, or begins the next.
AddToBatch(acc, c) ==
    IF acc.current # <<>> /\ (\/ Len(acc.current) >= MaxBatch
                              \/ Weight(acc.current) + c.size > MaxBatchChars)
    THEN Cut(Append(acc.done, acc.current), <<c>>)
    ELSE Cut(acc.done, Append(acc.current, c))

\* batch_for_classification.
Batch(cs) == Pieces(FoldLeft(AddToBatch, Cut(<<>>, <<>>), cs))

-----------------------------------------------------------------------------
(* compare_pages *)

VARIABLES
    doc1, doc2,     \* the documents
    pc,             \* "segment", "align", "diff" or "done"
    blocks1, blocks2,
    aligned,        \* the pairs that are still to be compared
    compared        \* those that were, each with its candidates

diffVars == <<doc1, doc2, pc, blocks1, blocks2, aligned, compared>>

\* The text of a document, its pages one after the other.
DocText(doc) == FlattenSeq(FlattenSeq([p \in 1..Len(doc) |-> Normalized(doc[p])]))

\* Mutant: the documents are the same when they are without structure.
KeyWithoutStructure(doc) == Key(DocText(doc))

\* _document_literal_key.
LiteralKey(doc) == DocText(doc)

DiffInit ==
    /\ doc1 \in Documents
    /\ doc2 \in Documents
    /\ pc = "segment"
    /\ blocks1 = <<>>
    /\ blocks2 = <<>>
    /\ aligned = <<>>
    /\ compared = <<>>

\* The literal keys of the documents are the same: nothing is compared.
Same ==
    /\ pc = "segment"
    /\ LiteralKey(doc1) = LiteralKey(doc2)
    /\ pc' = "done"
    /\ UNCHANGED <<doc1, doc2, blocks1, blocks2, aligned, compared>>

Segment ==
    /\ pc = "segment"
    /\ LiteralKey(doc1) # LiteralKey(doc2)
    /\ blocks1' = SegmentPages(doc1)
    /\ blocks2' = SegmentPages(doc2)
    /\ pc' = "align"
    /\ UNCHANGED <<doc1, doc2, aligned, compared>>

Align ==
    /\ pc = "align"
    /\ aligned' = AlignBlocks(blocks1, blocks2)
    /\ pc' = "diff"
    /\ UNCHANGED <<doc1, doc2, blocks1, blocks2, compared>>

DiffNext ==
    /\ pc = "diff"
    /\ aligned # <<>>
    /\ compared' = Append(compared, [pair       |-> Head(aligned),
                                    candidates |-> PairCandidates(Head(aligned))])
    /\ aligned' = Tail(aligned)
    /\ UNCHANGED <<doc1, doc2, pc, blocks1, blocks2>>

AllDiffed ==
    /\ pc = "diff"
    /\ aligned = <<>>
    /\ pc' = "done"
    /\ UNCHANGED <<doc1, doc2, blocks1, blocks2, aligned, compared>>

Candidates == FlattenSeq([n \in 1..Len(compared) |-> compared[n].candidates])

ComparePages == Same \/ Segment \/ Align \/ DiffNext \/ AllDiffed

DiffSpec == DiffInit /\ [][ComparePages]_diffVars

-----------------------------------------------------------------------------
(* Properties *)

\* A sentence of the text is over after the k-th character.
EndsAt(ws, k) == ws[k].char = "." /\ (k < Len(ws) => ~ws[k + 1].glued)

\* Before the k-th character lie more of its sentence than a block may hold.
LongBefore(ws, k) == k > MaxChars /\ \A i \in (k - MaxChars)..(k - 1) : ~EndsAt(ws, i)

\* The text in pieces, with white space between them, for a text: the same characters,
\* and white space where the text has it.  Only a sentence that is too long has more.
Splits(pieces, ws) ==
    /\ Len(pieces) = Len(ws)
    /\ \A k \in 1..Len(ws) :
          /\ pieces[k].char = ws[k].char
          /\ pieces[k].glued => ws[k].glued
          /\ ws[k].glued /\ ~pieces[k].glued => LongBefore(ws, k)

\* Cutting a document into blocks keeps every character of its text, in order, and
\* every word but those of a sentence longer than the limit, which is cut through the
\* midst of a word; and no piece of a paragraph is longer than the limit
\* (_segment_page, _split_long_paragraph).
BlocksKeepText ==
    pc \in {"align", "diff"} =>
        /\ Splits(Words(blocks1), DocText(doc1))
        /\ Splits(Words(blocks2), DocText(doc2))
        /\ \A bs \in {blocks1, blocks2} : \A k \in 1..Len(bs) :
               bs[k].kind = "paragraph" => Len(bs[k].words) <= MaxChars

Pairs == [n \in 1..Len(compared) |-> compared[n].pair] \o aligned

\* Every block of either document is in exactly one pair, and the pairs are in the
\* order of both documents, through equal keys, groups of up to three and blocks left
\* out (_align_blocks, _align_changed_range).
EveryBlockOnce ==
    pc = "diff" =>
        /\ FlattenSeq([n \in 1..Len(Pairs) |-> Pairs[n].file1]) = blocks1
        /\ FlattenSeq([n \in 1..Len(Pairs) |-> Pairs[n].file2]) = blocks2

\* The cheapest way from (0, 0) to the end, by trying them all.
Cheapest(left, right) ==
    LET from[cell \in Cells(left, right)] ==
            LET moves == {mv \in ToSet(Moves) : Fits(left, right, cell, mv)}
                costs == {MoveCost(left, right, cell[1], cell[2], mv)
                            + from[After(cell, mv)] : mv \in moves}
            IN  IF moves = {} THEN 0 ELSE Min(costs)
    IN  from[<<0, 0>>]

\* What an alignment of left and right costs.
AlignmentCost(left, right, pairs) ==
    LET upto[n \in 0..Len(pairs)] ==
            IF n = 0 THEN [i |-> 0, j |-> 0, cost |-> 0]
            ELSE LET acc == upto[n - 1]
                     mv  == <<Len(pairs[n].file1), Len(pairs[n].file2)>>
                 IN  [i |-> acc.i + mv[1], j |-> acc.j + mv[2],
                      cost |-> acc.cost + MoveCost(left, right, acc.i, acc.j, mv)]
    IN  upto[Len(pairs)].cost

\* No other ordered alignment of a changed range, of whatever groups, is cheaper than
\* the one the table leads to (_align_changed_range).
ChangedRangeOptimal ==
    pc = "align" =>
        LET ops == Opcodes(Keys(blocks1), Keys(blocks2))
        IN  \A n \in 1..Len(ops) : ops[n].op = "replace" =>
                LET left  == SubSeq(blocks1, ops[n].i1 + 1, ops[n].i2)
                    right == SubSeq(blocks2, ops[n].j1 + 1, ops[n].j2)
                IN  AlignmentCost(left, right, AlignChangedRange(left, right))
                        = Cheapest(left, right)

\* The tokens of the first side with every candidate put in place.
Patched(pair, cs) ==
    LET t1 == Tokens(Words(pair.file1))
        t2 == Tokens(Words(pair.file2))
        all == FoldLeft(LAMBDA acc, c :
                  [at |-> c.i2,
                   ts |-> acc.ts \o SubSeq(t1, acc.at + 1, c.i1) \o SubSeq(t2, c.j1 + 1, c.j2)],
                  [at |-> 0, ts |-> <<>>], cs)
    IN  all.ts \o SubSeq(t1, all.at + 1, Len(t1))

\* The candidates of a pair are the whole difference: put in place one after the
\* other they make the second text of the first, so none is missing, doubled or
\* shifted (_diff_block_pair, the split of replacements into single tokens).
CandidatesExplainChange ==
    pc = "diff" /\ compared # <<>> =>
        Patched(Last(compared).pair, Last(compared).candidates)
            = Tokens(Words(Last(compared).pair.file2))

\* The batches are the candidates in order, none lost or doubled; only a candidate
\* alone may be over the limit, and no batch is closed that had room for the next
\* (batch_for_classification).
BatchesKeepOrder ==
    pc = "done" => LET batches == Batch(Candidates) IN
        /\ FlattenSeq(batches) = Candidates
        /\ \A n \in 1..Len(batches) :
              /\ Len(batches[n]) \in 1..MaxBatch
              /\ Len(batches[n]) > 1 => Weight(batches[n]) <= MaxBatchChars
              /\ n < Len(batches) =>
                    \/ Len(batches[n]) = MaxBatch
                    \/ Weight(batches[n]) + Head(batches[n + 1]).size > MaxBatchChars
=============================================================================
