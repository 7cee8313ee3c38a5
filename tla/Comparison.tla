----------------------------- MODULE Comparison -----------------------------
(***************************************************************************)
(* A comparison from text to verdict: HierarchicalDiff finds the           *)
(* candidates, Classifier decides them.  What the classifier's rules see   *)
(* of a candidate is read off its text here, and the verdict is related    *)
(* to the documents.                                                       *)
(***************************************************************************)
EXTENDS HierarchicalDiff, Classifier

CONSTANTS
    NearStart,      \* a change at one of the first tokens is at the start (3)
    NearEnd,        \* one with so many tokens behind it is at the end (2)
    HeaderBlocks,   \* the blocks of page one that may be its header (3)
    HeaderChars,    \* and their longest text (80)
    EdgeBlocks,     \* the blocks of a page that may hold its number (2)
    MaxClassified   \* bound: candidates of a comparison that are classified

ASSUME ComparisonAssumption ==
    /\ NearStart \in Nat
    /\ NearEnd \in Nat
    /\ HeaderBlocks \in Nat
    /\ HeaderChars \in Nat
    /\ EdgeBlocks \in Nat
    /\ MaxClassified \in Nat

TextOf(blocks) == Tokens(Words(blocks))

\* _changed_text: the text from one token to another.
ChangedText(blocks, from, to) ==
    Begun(FlattenSeq(SubSeq(Runs(Words(blocks), WordChars), from + 1, to)))

LeftOf(pair, c)  == ChangedText(pair.file1, c.i1, c.i2)
RightOf(pair, c) == ChangedText(pair.file2, c.j1, c.j2)

\* changed1 or changed2: the right side only where the left is empty.
EitherSide(left, right) == IF left # <<>> THEN left ELSE right

\* _change_position.
AtStart(c) == c.i1 <= NearStart \/ c.j1 <= NearStart
AtEnd(pair, c) ==
    /\ Len(TextOf(pair.file1)) - c.i2 <= NearEnd
    /\ Len(TextOf(pair.file2)) - c.j2 <= NearEnd
WholeBlockPosition(pair, c) == AtStart(c) /\ AtEnd(pair, c)

\* The place a candidate is reported at: of the first file, or else of the second.
Place(pair) == IF pair.file1 # <<>> THEN pair.file1[1] ELSE pair.file2[1]

\* The text is one word, or signs without white space between them.
OneWord(ws) == ws # <<>> /\ ~GoesOn(ws)

\* _dash_equivalent.
IsDash(left, right) == left # right /\ Dashed(left) = Dashed(right)

\* _is_numbering.
NumbersItem(ws) == OneWord(ws) /\ IsNumbering(Bare(ws))

\* The rules for list_marker and markdown.
IsMarker(pair, c, changed) ==
    \/ /\ Bare(changed) \in {<<m>> : m \in {"*"} \cup Dashes}
       /\ AtStart(c) /\ ~AtEnd(pair, c)
    \/ /\ OneWord(changed)
       /\ \E m \in {"#", "*"} : \A k \in 1..Len(changed) : changed[k].char = m

\* str.isdigit.
IsDigits(ws) == OneWord(ws) /\ \A k \in 1..Len(ws) : ws[k].char = "1"

AtPageEdge(blocks, of) ==
    LET count == Cardinality({k \in 1..Len(of) : of[k].page = Last(blocks).page})
    IN  \/ blocks[1].block <= EdgeBlocks
        \/ blocks[1].block >= count - EdgeBlocks + 1

\* _is_page_number.
IsPageNumber(pair, c, changed) ==
    /\ IsDigits(changed)
    /\ WholeBlockPosition(pair, c)
    /\ \A text \in {Words(pair.file1), Words(pair.file2)} \ {<<>>} : IsDigits(text)
    /\ \/ pair.file1 # <<>> /\ AtPageEdge(pair.file1, blocks1)
       \/ pair.file2 # <<>> /\ AtPageEdge(pair.file2, blocks2)

\* The text is there still when it is taken away where it is first.
Repeated(ws, text) ==
    LET places == Places(ws, text)
        first  == Min(places)
    IN  /\ places # {}
        /\ Places(ws, Keep(text, (1..Len(text)) \ ((first + 1)..(first + Len(ws))))) # {}

TextAround(pair) ==
    LET Before(blocks) == IF blocks = <<>> THEN <<>> ELSE Combine(blocks).before
        Following(blocks) == IF blocks = <<>> THEN <<>> ELSE Combine(blocks).after
    IN  Words(pair.file1) \o Words(pair.file2) \o Before(pair.file1) \o Before(pair.file2)
            \o Following(pair.file1) \o Following(pair.file2)

\* _is_header_artifact, of two documents read alike (no OCR on one side only).
IsHeader(pair, c, changed) ==
    LET letters == {k \in 1..Len(changed) : changed[k].char \in Letters}
        upper   == {k \in letters : changed[k].char = "A"}
    IN  /\ WholeBlockPosition(pair, c)
        /\ Len(changed) <= HeaderChars
        /\ Place(pair).page = 1
        /\ Place(pair).block <= HeaderBlocks
        /\ \/ \A k \in 1..Len(changed) : changed[k].char \notin WordChars
           \/ /\ letters # {}
              /\ 10 * Cardinality(upper) >= 8 * Cardinality(letters)
              /\ Repeated(Casefold(changed), Casefold(TextAround(pair)))

\* _technical_candidate_decision: one of the rules for a single candidate holds.
Artefact(pair, c) ==
    LET left    == LeftOf(pair, c)
        right   == RightOf(pair, c)
        changed == EitherSide(left, right)
    IN  \/ IsDash(left, right)
        \/ NumbersItem(left)
        \/ NumbersItem(right)
        \/ IsMarker(pair, c, changed)
        \/ IsPageNumber(pair, c, changed)
        \/ IsHeader(pair, c, changed)
        \/ left # <<>> /\ right # <<>> /\ Key(left) = Key(right)

\* The words of letters alone.
LetterWords(ws) ==
    SelectSeq(Spelled(Runs(ws, Letters)), LAMBDA w : w[1] \in Letters)

\* _ABBREVIATION_RE.
IsAbbreviation(w) == Len(w) \in 2..8 /\ \A k \in 1..Len(w) : w[k] = "A"

\* _protection_tags: other words, a number (dates and sums among them), an abbreviation
\* or a phrase.
Protected(left, right) ==
    \/ LetterWords(left) # LetterWords(right)
    \/ /\ "1" \in ToSet(Bare(left)) \cup ToSet(Bare(right))
       /\ ~NumbersItem(left) /\ ~NumbersItem(right)
    \/ \E w \in ToSet(Tokens(left)) \cup ToSet(Tokens(right)) : IsAbbreviation(w)
    \/ Len(LetterWords(left)) > 1
    \/ Len(LetterWords(right)) > 1

\* _technical_group_decision asks whether both texts are there and the same after
\* normalisation.  A change is no obstacle when the whole texts are, or when it is one
\* of dashes alone.
Vanishes(pair, c) ==
    /\ pair.file1 # <<>>
    /\ pair.file2 # <<>>
    /\ \/ Key(Words(pair.file1)) = Key(Words(pair.file2))
       \/ IsDash(LeftOf(pair, c), RightOf(pair, c))

\* What the classifier is given of the n-th pair.
Classifiable(n) ==
    LET pair == compared[n].pair
        cs   == compared[n].candidates
    IN  [k \in 1..Len(cs) |->
            [alignment |-> n,
             left      |-> LeftOf(pair, cs[k]),
             right     |-> RightOf(pair, cs[k]),
             vanishes  |-> Vanishes(pair, cs[k]),
             artefact  |-> Artefact(pair, cs[k]),
             protected |-> Protected(LeftOf(pair, cs[k]), RightOf(pair, cs[k]))]]

AllClassifiable == FlattenSeq([n \in 1..Len(compared) |-> Classifiable(n)])

-----------------------------------------------------------------------------
vars == <<diffVars, classifierVars>>

Init ==
    /\ DiffInit
    /\ NothingDone
    /\ candidates = <<>>
    /\ llm = <<>>
    /\ stored = <<>>

\* compare_pages, up to the list of its candidates.
Compare ==
    /\ ComparePages
    /\ UNCHANGED classifierVars

\* save_diff_candidates: the rows, with no decision yet.
SaveCandidates ==
    /\ pc = "done"
    /\ stage = "new"
    /\ candidates = <<>>
    /\ Candidates # <<>>
    /\ Len(Candidates) <= MaxClassified
    /\ candidates' = AllClassifiable
    /\ llm' = [i \in 1..Len(Candidates) |-> NoDecision]
    /\ stored' = [i \in 1..Len(Candidates) |-> NoDecision]
    /\ UNCHANGED <<diffVars, stage, round, pending, todo, batch, index, attempt, answered,
                   failures, rows>>

\* classify, of the candidates that were saved.
ClassifySaved ==
    /\ pc = "done"
    /\ Len(candidates) = Len(Candidates)
    /\ Classify
    /\ UNCHANGED diffVars

Next == Compare \/ SaveCandidates \/ ClassifySaved

Spec == Init /\ [][Next]_vars

-----------------------------------------------------------------------------
(* Properties *)

\* Every character attached to the one before it is attached to it in every piece of
\* the text: no sentence is cut through the midst of a word.
Uncut(ws) == \A k \in 1..Len(ws) : ~(ws[k].glued /\ LongBefore(ws, k))

\* The verdict "identical" is given only for documents with the same characters once
\* soft hyphens and the hyphens at the ends of lines are away, and with the same words
\* where no sentence is longer than a block may be: structure, list markers, grouping,
\* doubles and what the model says hide no difference altogether (compare_pages,
\* DocumentComparator.compare).
IdenticalMeansSame ==
    stage = "done" /\ Verdict = "identical" =>
        LET text1 == DocText(doc1)
            text2 == DocText(doc2)
        IN  /\ Bare(text1) = Bare(text2)
            /\ Uncut(text1) /\ Uncut(text2) => Tokens(text1) = Tokens(text2)

\* The words and numbers of a text.
Body(text) == SelectSeq(Tokens(text), LAMBDA w : w[1] \in WordChars)

\* Changes of words, numbers, dates, sums or negation are not hidden as technical:
\* documents whose content is called equal have the same words and numbers.
ContentEqualSameWords ==
    stage = "done" /\ Verdict = "content_equal" =>
        Body(DocText(doc1)) = Body(DocText(doc2))
=============================================================================
