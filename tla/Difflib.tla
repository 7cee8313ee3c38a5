------------------------------ MODULE Difflib ------------------------------
(***************************************************************************)
(* difflib.SequenceMatcher(autojunk=False) of the Python library, as       *)
(* hierarchical_diff.py uses it: on the keys of blocks, on the characters  *)
(* of two keys (ratio) and on the tokens of two blocks.  Without junk the  *)
(* match that is picked is the longest one, of these the one that starts   *)
(* first in a, of these the one that starts first in b.                    *)
(***************************************************************************)
EXTENDS Integers, Sequences, SequencesExt

\* a[i+1..i+n] and b[j+1..j+n] are the same: positions count from 0, as slices do.
Match(i, j, n) == [i |-> i, j |-> j, n |-> n]

\* The matches within a[alo:ahi] and b[blo:bhi], for a range r.
Matches(a, b, r) ==
    {m \in [i : r.alo..(r.ahi - 1), j : r.blo..(r.bhi - 1), n : 1..(r.ahi - r.alo)] :
        /\ m.i + m.n <= r.ahi
        /\ m.j + m.n <= r.bhi
        /\ \A k \in 1..m.n : a[m.i + k] = b[m.j + k]}

\* find_longest_match, of a set of matches that is not empty.
Longest(ms) ==
    CHOOSE m \in ms : \A o \in ms :
        \/ m.n > o.n
        \/ m.n = o.n /\ m.i < o.i
        \/ m.n = o.n /\ m.i = o.i /\ m.j <= o.j

\* The parts of a and b that may be searched.
Ranges(a, b) == [alo : 0..Len(a), ahi : 0..Len(a), blo : 0..Len(b), bhi : 0..Len(b)]

\* get_matching_blocks: the longest match of a range, and those to either side of it.
MatchingBlocks(a, b) ==
    LET within[r \in Ranges(a, b)] ==
            LET ms == Matches(a, b, r)
                m  == Longest(ms)
            IN  IF ms = {} THEN <<>>
                ELSE within[[r EXCEPT !.ahi = m.i, !.bhi = m.j]]
                        \o <<m>>
                        \o within[[r EXCEPT !.alo = m.i + m.n, !.blo = m.j + m.n]]
    IN  within[[alo |-> 0, ahi |-> Len(a), blo |-> 0, bhi |-> Len(b)]]

Opcode(op, i1, i2, j1, j2) == [op |-> op, i1 |-> i1, i2 |-> i2, j1 |-> j1, j2 |-> j2]

\* What lies between two matches, if anything.
Gap(i1, i2, j1, j2) ==
    CASE i1 < i2 /\ j1 < j2 -> <<Opcode("replace", i1, i2, j1, j2)>>
      [] i1 < i2 /\ j1 = j2 -> <<Opcode("delete", i1, i2, j1, j2)>>
      [] i1 = i2 /\ j1 < j2 -> <<Opcode("insert", i1, i2, j1, j2)>>
      [] OTHER              -> <<>>

\* get_opcodes: the matches in order, with what lies between them.
Opcodes(a, b) ==
    LET blocks == <<Match(0, 0, 0)>> \o MatchingBlocks(a, b) \o <<Match(Len(a), Len(b), 0)>>
        Equal(m) == IF m.n = 0 THEN <<>>
                    ELSE <<Opcode("equal", m.i, m.i + m.n, m.j, m.j + m.n)>>
        From(k) == Gap(blocks[k - 1].i + blocks[k - 1].n, blocks[k].i,
                       blocks[k - 1].j + blocks[k - 1].n, blocks[k].j)
                    \o Equal(blocks[k])
    IN  FlattenSeq([k \in 1..(Len(blocks) - 1) |-> From(k + 1)])

\* The length of matches together.
MatchedLength(ms) == FoldLeft(LAMBDA sum, m : sum + m.n, 0, ms)

\* ratio, in thousandths: twice the matched length by the length of both.
Ratio(a, b) ==
    IF Len(a) + Len(b) = 0 THEN 1000
    ELSE (2000 * MatchedLength(MatchingBlocks(a, b))) \div (Len(a) + Len(b))
=============================================================================
