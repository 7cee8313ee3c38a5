------------------------------ MODULE PageText ------------------------------
(***************************************************************************)
(* The text of a page and what services/hierarchical_diff.py makes of it:  *)
(* normalize_technical, normalize_for_alignment and the tokens.            *)
(*                                                                         *)
(* A text is the sequence of its characters without the white space; each  *)
(* says whether it is attached to the one before it or white space lies    *)
(* between.  So texts that differ in the amount of white space are equal,  *)
(* as collapse_whitespace makes them, and a length counts the characters   *)
(* other than blanks.  A page is a sequence of lines.                      *)
(***************************************************************************)
EXTENDS Integers, Sequences, SequencesExt, FiniteSets

\* Characters of each kind: lower-case letters and one of them in upper case, a digit,
\* a hyphen and a long dash, a star, a table border, a full stop, a soft hyphen.
Letters == {"a", "b", "A"}

WordChars == Letters \cup {"1"}

Dashes == {"-", "--"}

Chars == WordChars \cup Dashes \cup {"*", "#", "|", ".", "~"}

Glyph(char, glued) == [char |-> char, glued |-> glued]

Glyphs == [char : Chars, glued : BOOLEAN]

Text == Seq(Glyphs)

\* Lines, blocks and whatever else no word goes on into.
Lines == {ws \in Text : ws # <<>> => ~ws[1].glued}

\* The characters of a text.
Bare(ws) == [k \in 1..Len(ws) |-> ws[k].char]

\* The characters at the positions of K: what white space lay between them is there
\* still.
Keep(ws, K) ==
    LET Kept(k) == Glyph(ws[k].char, \E j \in K : j < k /\ \A i \in (j + 1)..k : ws[i].glued)
    IN  FlattenSeq([k \in 1..Len(ws) |-> IF k \in K THEN <<Kept(k)>> ELSE <<>>])

-----------------------------------------------------------------------------
(* normalize_technical *)

\* A word is broken off at the end of line, and next goes on with it.
Breaks(line, next, hyphen) ==
    LET n == Len(line)
    IN  /\ n > 1
        /\ line[n] = Glyph(hyphen, TRUE)
        /\ line[n - 1].char \in WordChars
        /\ next # <<>>
        /\ next[1].char \in WordChars

Attached(line) == [k \in 1..Len(line) |-> IF k = 1 THEN Glyph(line[1].char, TRUE) ELSE line[k]]

\* Words that were broken off with the hyphen are put together, without it.
Unwrap(page, hyphen) ==
    LET Add(acc, line) ==
            IF acc # <<>> /\ Breaks(Last(acc), line, hyphen)
            THEN Append(Front(acc), Front(Last(acc)) \o Attached(line))
            ELSE Append(acc, line)
    IN  FoldLeft(Add, <<>>, page)

WithoutSoft(ws) == Keep(ws, {k \in 1..Len(ws) : ws[k].char # "~"})

\* normalize_technical.
Normalized(page) ==
    LET soft == Unwrap(page, "~")
    IN  Unwrap([n \in 1..Len(soft) |-> WithoutSoft(soft[n])], "-")

-----------------------------------------------------------------------------
(* normalize_for_alignment *)

Dashed(ws) ==
    [k \in 1..Len(ws) |-> IF ws[k].char \in Dashes THEN Glyph("-", ws[k].glued) ELSE ws[k]]

\* The characters of the first word.
FirstWord(ws) ==
    Bare(SubSeq(ws, 1, Cardinality({k \in 1..Len(ws) : \A i \in 2..k : ws[i].glued})))

\* 1, 1.1, 1.1.1, with or without a full stop.
IsNumber(w) ==
    w # <<>> /\ \A k \in 1..Len(w) : w[k] = "1" \/ (k > 1 /\ w[k] = "." /\ w[k - 1] = "1")

IsNumbering(w) == IsNumber(w) /\ Last(w) = "."

IsLettering(w) == Len(w) = 2 /\ w[1] \in Letters /\ w[2] = "."

\* _STRUCTURAL_PREFIX_RE: a heading, list marker, number or letter before the text.
WithoutPrefix(ws) ==
    LET w == FirstWord(ws)
    IN  IF /\ Len(w) < Len(ws)
           /\ \/ w \in {<<c>> : c \in {"*"} \cup Dashes}
              \/ \A k \in 1..Len(w) : w[k] = "#"
              \/ IsNumbering(w)
              \/ IsLettering(w)
        THEN Keep(ws, (Len(w) + 1)..Len(ws)) ELSE ws

\* How many stars, one after the other, go up to and with the k-th character.
Stars(ws, k) ==
    Cardinality({i \in 1..k : \A j \in i..k : ws[j].char = "*" /\ (j > i => ws[j].glued)})

\* It is one of a pair of stars.
Paired(ws, k) ==
    \/ Stars(ws, k) > 0 /\ Stars(ws, k) % 2 = 0
    \/ Stars(ws, k) % 2 = 1 /\ k < Len(ws) /\ Stars(ws, k + 1) > 1

\* It is one of the stars that the text begins with, or that it ends with.
Outer(ws, k) ==
    \/ Stars(ws, k) = k
    \/ Stars(ws, Len(ws)) > Len(ws) - k

WithoutEmphasis(ws) == Keep(ws, {k \in 1..Len(ws) : ~Paired(ws, k) /\ ~Outer(ws, k)})

\* normalize_for_alignment, of a text of one line.
Key(ws) == WithoutPrefix(WithoutEmphasis(WithoutPrefix(Dashed(ws))))

-----------------------------------------------------------------------------
(* Tokens *)

\* A run of the characters goes on with the next.
Continues(run, g, chars) == g.glued /\ g.char \in chars /\ Last(run).char \in chars

\* The parts of a text: the runs of the characters, and every other one by itself.
Runs(ws, chars) ==
    LET Add(acc, g) ==
            IF acc # <<>> /\ Continues(Last(acc), g, chars)
            THEN Append(Front(acc), Append(Last(acc), g))
            ELSE Append(acc, <<g>>)
    IN  FoldLeft(Add, <<>>, ws)

\* Their characters.
Spelled(runs) == [n \in 1..Len(runs) |-> Bare(runs[n])]

\* _TOKEN_RE: words and single signs.
Tokens(ws) == Spelled(Runs(ws, WordChars))

\* A part of a text as a text of its own.
Begun(ws) == [k \in 1..Len(ws) |-> IF k = 1 THEN Glyph(ws[1].char, FALSE) ELSE ws[k]]
=============================================================================
