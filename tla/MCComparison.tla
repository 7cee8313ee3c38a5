---------------------------- MODULE MCComparison ----------------------------
(***************************************************************************)
(* Documents for Comparison.                                               *)
(***************************************************************************)
EXTENDS Comparison

\* The line with these characters and blanks.
Line(cs) ==
    FlattenSeq([k \in 1..Len(cs) |->
        IF cs[k] = " " THEN <<>> ELSE <<Glyph(cs[k], k > 1 /\ cs[k - 1] # " ")>>])

Page(lines) == [n \in 1..Len(lines) |-> Line(lines[n])]

Document(pages) == [p \in 1..Len(pages) |-> Page(pages[p])]

\* Paragraphs of one and of several lines, a sentence longer than a block may be, a
\* heading and a line too long for one, a list item and the same without its marker,
\* numbering, emphasis, a table row, a page number, a dash of either kind, a word
\* broken off with a hyphen and with a soft one, the same lines on one page and on two,
\* in another order and in other lines, and no text at all.
MCDocuments == {Document(pages) : pages \in {
    << <<>> >>,
    << << <<"a", " ", "b">>, <<"b", " ", "a", ".">> >> >>,
    << << <<"a", " ", "b">>, <<>>, <<"b", " ", "a", ".">> >> >>,
    << << <<"a", " ", "b", " ", "b", " ", "a", " ", ".">> >> >>,
    << << <<"a", " ", "b">> >>, << <<"a", ".">>, <<"b", " ", "b", " ", "a", ".">> >> >>,
    << << <<"a", "a", ".", " ", "b", "b", "b", "-">>, <<"b", "b", "~">>, <<"b">> >> >>,
    << << <<"a", "a", ".", " ", "b", "b", "b", "b", "b", "b">> >> >>,
    << << <<"a", "a", ".", " ", "b", "b", "b", "b">>, <<"b", "~", "b">> >> >>,
    << << <<"A">>, <<"a", " ", "b">>, <<"A">> >> >>,
    << << <<"*", " ", "a", " ", "b">>, <<"b", " ", "a", ".">> >> >>,
    << << <<"*", " ", "b">>, <<"A">> >>, << <<"*", " ", "a", " ", "b">>, <<"1">> >> >>,
    << << <<"a", "|", "b">>, <<"A", "A", "A", "b">> >> >>,
    << << <<"b", " ", "a", ".">> >>, << <<"a", " ", "b">>, <<"|">> >> >>,
    << << <<"a", "|", "b", "|", "--">>, <<"A">>, <<"a", " ", ".">> >> >>,
    << << <<"a", "|", "b", "|", "-">>, <<"A">>, <<"a", " ", ".">> >> >>,
    << << <<"b">>, <<"1", ".", " ", "a">>, <<"*">> >> >>,
    << << <<"b">>, <<"*", "*", "a", "*", "*">> >> >>,
    << << <<"a", "|", "b", "a", " ", "b", "|", "1">> >> >>,
    << << <<"a", "|", "b", "a", " ", "b", "|", "--">> >> >>,
    << << <<"a", "|", "--", "b", "1">> >> >>,
    << << <<"a", "|", "-", " ", "b", " ", "b">> >> >>
}}

\* A dash in the place of a number.
DashAndNumber == {Document(pages) : pages \in {
    << << <<"a", " ", "-">> >> >>,
    << << <<"a", " ", "1">> >> >>
}}

=============================================================================
