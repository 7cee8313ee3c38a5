-------------------------- MODULE ComparisonProofs --------------------------
(***************************************************************************)
(* Proofs about Comparison, for any two documents, any page size, any      *)
(* limits and any answers of the language model: what is proved of its two *)
(* parts holds of them together, and the verdict "identical" is true of    *)
(* the documents.                                                          *)
(***************************************************************************)
EXTENDS Comparison, HierarchicalDiffProofs, ClassifierProofs

-----------------------------------------------------------------------------
(* Text *)

\* A sequence is its front and its last element.
LEMMA FrontLast ==
    ASSUME NEW T, NEW s \in Seq(T), s # <<>>
    PROVE  /\ Front(s) \in Seq(T) /\ Last(s) \in T /\ s = Append(Front(s), Last(s))
<1>1. Front(s) \in Seq(T)
    BY TailType
<1>2. PICK m \in Nat : Len(s) = m + 1
    <2>1. Len(s) \in Nat /\ Len(s) # 0
        OBVIOUS
    <2>2. Len(s) - 1 \in Nat /\ Len(s) = (Len(s) - 1) + 1
        BY <2>1
    <2> QED BY <2>2
<1>3. Last(s) = s[m + 1] /\ Last(s) \in T
    BY <1>2 DEF Last
<1> DEFINE f == Front(s)
<1>4. Len(f) = m /\ \A k \in 1..m : f[k] = s[k]
    <2>1. f = SubSeq(s, 1, m)
        BY <1>2 DEF Front
    <2> QED BY <1>2, <2>1
<1> HIDE DEF f
<1>5. f \in Seq(T)
    BY <1>1 DEF f
<1>6. Append(f, s[m + 1]) = s
    <2> DEFINE t == Append(f, s[m + 1])
    <2>1. t \in Seq(T) /\ Len(t) = m + 1
        BY <1>2, <1>3, <1>4, <1>5
    <2>2. \A k \in 1..m : t[k] = f[k]
        BY <1>2, <1>4, <1>5
    <2>3. t[m + 1] = s[m + 1]
        BY <1>2, <1>4, <1>5
    <2> HIDE DEF t
    <2>4. \A k \in 1..(m + 1) : t[k] = s[k]
        BY <1>2, <1>4, <2>2, <2>3
    <2>5. t = s
        BY <1>2, <2>1, <2>4
    <2> QED BY <2>5 DEF t
<1> QED BY <1>1, <1>3, <1>6 DEF f

\* The front and the last element of a sequence after another.
LEMMA FrontLater ==
    ASSUME NEW T, NEW s \in Seq(T), NEW t \in Seq(T), t # <<>>
    PROVE  s \o t # <<>> /\ Front(s \o t) = s \o Front(t) /\ Last(s \o t) = Last(t)
<1>1. Front(t) \in Seq(T) /\ Last(t) \in T /\ t = Append(Front(t), Last(t))
    BY FrontLast
<1> DEFINE f == Front(t)
           l == Last(t)
           w == s \o t
           v == s \o f
<1>2. /\ w \in Seq(T) /\ Len(s) \in Nat /\ Len(t) \in Nat /\ Len(w) = Len(s) + Len(t)
      /\ \A k \in 1..Len(s) : w[k] = s[k]
      /\ \A k \in 1..Len(t) : w[Len(s) + k] = t[k]
    BY Concatenated
<1> HIDE DEF w
<1>3. Len(t) = Len(f) + 1 /\ t[Len(t)] = l /\ (\A k \in 1..Len(f) : t[k] = f[k]) /\ Len(f) \in Nat
    BY <1>1
<1>4. Len(t) \in 1..Len(t) /\ Len(w) # 0
    BY <1>2, <1>3
<1>5. w # <<>>
    BY <1>4
<1>6. Last(w) = l
    BY <1>2, <1>3, <1>4 DEF Last
<1>7. /\ v \in Seq(T) /\ Len(v) = Len(s) + Len(f)
      /\ \A k \in 1..Len(s) : v[k] = s[k]
      /\ \A k \in 1..Len(f) : v[Len(s) + k] = f[k]
    BY <1>1, Concatenated
<1> HIDE DEF v, f, l
<1>8. Front(w) = v
    <2> DEFINE u == SubSeq(w, 1, Len(w) - 1)
    <2>1. Front(w) = u
        BY DEF Front
    <2>2. u \in Seq(T) /\ Len(u) = Len(s) + Len(f) /\ \A k \in 1..(Len(s) + Len(f)) : u[k] = w[k]
        BY <1>2, <1>3
    <2>3. ASSUME NEW k \in 1..(Len(s) + Len(f)) PROVE v[k] = w[k]
        <3>1. CASE k <= Len(s)
            BY <1>2, <1>3, <1>7, <3>1
        <3>2. CASE ~(k <= Len(s))
            <4>1. PICK j \in 1..Len(f) : k = Len(s) + j
                <5>1. k - Len(s) \in 1..Len(f) /\ k = Len(s) + (k - Len(s))
                    BY <1>2, <1>3, <3>2
                <5> QED BY <5>1
            <4>2. j \in 1..Len(t)
                BY <1>2, <1>3
            <4> QED BY <1>2, <1>3, <1>7, <4>1, <4>2
        <3> QED BY <3>1, <3>2
    <2> HIDE DEF u
    <2>4. u = v
        BY <1>7, <2>2, <2>3
    <2> QED BY <2>1, <2>4
<1> QED BY <1>5, <1>6, <1>8 DEF w, v, f, l

\* The characters of a text with one more.
LEMMA BareAppend ==
    ASSUME NEW r \in Text, NEW g \in Glyphs PROVE Bare(Append(r, g)) = Append(Bare(r), g.char)
<1>1. r \in Seq(Glyphs) /\ Len(r) \in Nat
    BY DEF Text
<1> DEFINE q == Append(r, g)
<1>2. Len(q) = Len(r) + 1 /\ q[Len(r) + 1] = g /\ \A k \in 1..Len(r) : q[k] = r[k]
    BY <1>1
<1> HIDE DEF q
<1>3. Bare(r) \in Seq(Chars) /\ Len(Bare(r)) = Len(r) /\ \A k \in 1..Len(r) : Bare(r)[k] = r[k].char
    <2>1. Bare(r) \in Seq(Chars)
        BY BareType
    <2> QED BY <1>1, <2>1 DEF Bare
<1> DEFINE s == Append(Bare(r), g.char)
           t == [k \in 1..Len(q) |-> q[k].char]
<1>4. g.char \in Chars
    BY DEF Glyphs
<1>5. s \in Seq(Chars) /\ Len(s) = Len(r) + 1 /\ s[Len(r) + 1] = g.char /\ \A k \in 1..Len(r) : s[k] = r[k].char
    BY <1>1, <1>3, <1>4
<1>6. DOMAIN t = 1..(Len(r) + 1) /\ \A k \in 1..(Len(r) + 1) : t[k] = q[k].char
    BY <1>2
<1> HIDE DEF s
<1>7. \A k \in 1..(Len(r) + 1) : s[k] = q[k].char
    BY <1>1, <1>2, <1>5
<1>8. s = [k \in 1..(Len(r) + 1) |-> q[k].char]
    BY <1>5, <1>7
<1>9. t = s
    BY <1>2, <1>8
<1> QED BY <1>9 DEF Bare, q, s

\* The tokens that runs spell.
LEMMA SpelledType ==
    ASSUME NEW rs \in Seq(Text)
    PROVE  /\ Spelled(rs) \in Seq(Token) /\ Len(Spelled(rs)) = Len(rs)
           /\ \A k \in 1..Len(rs) : Spelled(rs)[k] = Bare(rs[k])
<1>1. Len(rs) \in Nat /\ \A k \in 1..Len(rs) : Bare(rs[k]) \in Token
    BY BareType DEF Token
<1>2. Spelled(rs) = [k \in 1..Len(rs) |-> Bare(rs[k])]
    BY DEF Spelled
<1> QED BY <1>1, <1>2

LEMMA SpelledConcat ==
    ASSUME NEW rs \in Seq(Text), NEW qs \in Seq(Text)
    PROVE  Spelled(rs \o qs) = Spelled(rs) \o Spelled(qs)
<1> DEFINE w == rs \o qs
           x == Spelled(rs)
           y == Spelled(qs)
           v == x \o y
           u == Spelled(w)
           n == Len(rs) + Len(qs)
<1>1. /\ w \in Seq(Text) /\ Len(rs) \in Nat /\ Len(qs) \in Nat /\ Len(w) = n
      /\ \A k \in 1..Len(rs) : w[k] = rs[k]
      /\ \A k \in 1..Len(qs) : w[Len(rs) + k] = qs[k]
    BY Concatenated
<1>2. /\ x \in Seq(Token) /\ Len(x) = Len(rs) /\ \A k \in 1..Len(rs) : x[k] = Bare(rs[k])
      /\ y \in Seq(Token) /\ Len(y) = Len(qs) /\ \A k \in 1..Len(qs) : y[k] = Bare(qs[k])
    BY SpelledType
<1> HIDE DEF w, x, y
<1>3. u \in Seq(Token) /\ Len(u) = Len(w) /\ \A k \in 1..Len(w) : u[k] = Bare(w[k])
    BY <1>1, SpelledType
<1>4. /\ v \in Seq(Token) /\ Len(v) = n
      /\ \A k \in 1..Len(rs) : v[k] = x[k]
      /\ \A k \in 1..Len(qs) : v[Len(rs) + k] = y[k]
    <2>1. /\ v \in Seq(Token) /\ Len(v) = Len(x) + Len(y)
          /\ \A k \in 1..Len(x) : v[k] = x[k]
          /\ \A k \in 1..Len(y) : v[Len(x) + k] = y[k]
        <3>1. x \in Seq(Token) /\ y \in Seq(Token)
            BY <1>2
        <3> HIDE DEF u
        <3> QED BY ONLY <3>1, Concatenated
    <2> HIDE DEF v
    <2> QED BY <1>2, <2>1
<1> HIDE DEF u, v, n
<1>5. ASSUME NEW k \in 1..n PROVE u[k] = v[k]
    <2>1. CASE k <= Len(rs)
        <3>1. k \in 1..Len(rs) /\ k \in 1..Len(w)
            BY <1>1, <2>1 DEF n
        <3> QED BY <1>1, <1>2, <1>3, <1>4, <3>1
    <2>2. CASE ~(k <= Len(rs))
        <3>1. PICK j \in 1..Len(qs) : k = Len(rs) + j
            <4>1. k - Len(rs) \in 1..Len(qs) /\ k = Len(rs) + (k - Len(rs))
                BY <1>1, <2>2 DEF n
            <4> QED BY <4>1
        <3>2. w[k] = qs[j] /\ v[k] = y[j] /\ y[j] = Bare(qs[j])
            BY <1>1, <1>2, <1>4, <3>1
        <3>3. u[k] = Bare(w[k])
            BY <1>1, <1>3
        <3> QED BY <3>2, <3>3
    <2> QED BY <2>1, <2>2
<1>6. u = v
    BY <1>1, <1>3, <1>4, <1>5
<1> QED BY <1>6 DEF u, v, x, y, w

LEMMA SpelledOne ==
    ASSUME NEW r \in Text PROVE <<r>> \in Seq(Text) /\ Spelled(<<r>>) = <<Bare(r)>>
<1>1. <<r>> \in Seq(Text) /\ Len(<<r>>) = 1 /\ <<r>>[1] = r
    OBVIOUS
<1> DEFINE q == <<r>>
           u == Spelled(q)
<1> HIDE DEF q
<1>2. u \in Seq(Token) /\ Len(u) = Len(q) /\ \A k \in 1..Len(q) : u[k] = Bare(q[k])
    BY <1>1, SpelledType DEF q
<1> HIDE DEF u
<1>3. Len(q) = 1 /\ q[1] = r
    BY <1>1 DEF q
<1>4. u \in Seq(Token) /\ Len(u) = 1 /\ u[1] = Bare(r)
    BY <1>2, <1>3
<1>5. u = <<Bare(r)>>
    BY <1>4
<1> QED BY <1>1, <1>5 DEF u, q

LEMMA SpelledAppend ==
    ASSUME NEW rs \in Seq(Text), NEW r \in Text
    PROVE  Spelled(Append(rs, r)) = Append(Spelled(rs), Bare(r))
<1>1. <<r>> \in Seq(Text) /\ Spelled(<<r>>) = <<Bare(r)>>
    BY SpelledOne
<1>2. Spelled(rs \o <<r>>) = Spelled(rs) \o <<Bare(r)>>
    BY <1>1, SpelledConcat
<1>3. Append(rs, r) = rs \o <<r>>
    BY AppendIsConcat
<1>4. Spelled(rs) \in Seq(Token) /\ Bare(r) \in Token
    BY SpelledType, BareType DEF Token
<1>5. Append(Spelled(rs), Bare(r)) = Spelled(rs) \o <<Bare(r)>>
    BY <1>4, AppendIsConcat
<1> QED BY <1>2, <1>3, <1>5

\* The characters of runs, one after the other.
Characters(rs) == FlattenSeq(Spelled(rs))

LEMMA CharactersAppend ==
    ASSUME NEW rs \in Seq(Text), NEW r \in Text
    PROVE  /\ Characters(rs) \in Seq(Chars)
           /\ Characters(Append(rs, r)) = Characters(rs) \o Bare(r)
<1>1. Spelled(rs) \in Seq(Seq(Chars)) /\ Bare(r) \in Seq(Chars)
    BY SpelledType, BareType DEF Token
<1>2. FlattenSeq(Append(Spelled(rs), Bare(r))) = FlattenSeq(Spelled(rs)) \o Bare(r)
    BY <1>1, FlatAppend
<1> QED BY <1>1, <1>2, FlatType, SpelledAppend DEF Characters

\* A turn of Runs adds the character.
LEMMA RunStepSpells ==
    ASSUME NEW chars, NEW acc \in Seq(Text), NEW g \in Glyphs
    PROVE  Characters(RunStep(chars, acc, g)) = Append(Characters(acc), g.char)
<1>1. g.char \in Chars
    BY DEF Glyphs
<1>2. CASE acc # <<>> /\ Continues(Last(acc), g, chars)
    <2> DEFINE f == Front(acc)
               l == Last(acc)
    <2>1. f \in Seq(Text) /\ l \in Text /\ acc = Append(f, l)
        BY <1>2, FrontLast
    <2>2. RunStep(chars, acc, g) = Append(f, Append(l, g))
        BY <1>2 DEF RunStep
    <2> HIDE DEF f, l
    <2>3. Append(l, g) \in Text
        BY <2>1 DEF Text
    <2>4. /\ Characters(f) \in Seq(Chars) /\ Characters(acc) = Characters(f) \o Bare(l)
          /\ Characters(Append(f, Append(l, g))) = Characters(f) \o Bare(Append(l, g))
        BY <2>1, <2>3, CharactersAppend
    <2>5. Bare(l) \in Seq(Chars) /\ Bare(Append(l, g)) = Append(Bare(l), g.char)
        BY <2>1, BareType, BareAppend
    <2> DEFINE x == Characters(f)
               y == Bare(l)
               c == g.char
    <2>6. x \o Append(y, c) = Append(x \o y, c)
        <3>1. x \in Seq(Chars) /\ y \in Seq(Chars) /\ c \in Chars
            BY <1>1, <2>4, <2>5
        <3> HIDE DEF x, y, c
        <3>2. Append(y, c) = y \o <<c>> /\ x \o y \in Seq(Chars) /\ <<c>> \in Seq(Chars)
            BY <3>1, AppendIsConcat
        <3>3. Append(x \o y, c) = (x \o y) \o <<c>>
            BY <3>1, <3>2, AppendIsConcat
        <3>4. x \o (y \o <<c>>) = (x \o y) \o <<c>>
            BY <3>1, <3>2, Assoc DEF Associates
        <3> QED BY <3>2, <3>3, <3>4
    <2> QED BY <2>2, <2>4, <2>5, <2>6
<1>3. CASE ~(acc # <<>> /\ Continues(Last(acc), g, chars))
    <2>1. <<g>> \in Text
        BY DEF Text
    <2>2. RunStep(chars, acc, g) = Append(acc, <<g>>)
        BY <1>3 DEF RunStep
    <2>3. Characters(acc) \in Seq(Chars) /\ Characters(Append(acc, <<g>>)) = Characters(acc) \o Bare(<<g>>)
        BY <2>1, CharactersAppend
    <2>4. Bare(<<g>>) = <<g.char>>
        <3> DEFINE q == <<g>>
        <3>1. Len(q) = 1 /\ q[1] = g
            OBVIOUS
        <3> HIDE DEF q
        <3>2. Bare(q) = [k \in 1..1 |-> q[k].char]
            BY <3>1 DEF Bare
        <3>3. Bare(q) = <<g.char>>
            BY <3>1, <3>2
        <3> QED BY <3>3 DEF q
    <2>5. Append(Characters(acc), g.char) = Characters(acc) \o <<g.char>>
        BY <1>1, <2>3, AppendIsConcat
    <2> QED BY <2>2, <2>3, <2>4, <2>5
<1> QED BY <1>2, <1>3

\* The tokens of a text spell its characters.
LEMMA TokensSpell ==
    ASSUME NEW ws \in Text PROVE FlattenSeq(Tokens(ws)) = Bare(ws)
<1> DEFINE n == Len(ws)
<1>1. PICK acc \in [0..n -> Seq(Text)] : RunLoop(ws, WordChars, acc) /\ Runs(ws, WordChars) = acc[n]
    BY RunsExist
<1>2. /\ n \in Nat /\ Upto(ws, 0) = <<>> /\ Upto(ws, n) = ws
      /\ \A k \in 0..n : Upto(ws, k) \in Text
      /\ \A k \in 0..n : k < n => Upto(ws, k + 1) = Append(Upto(ws, k), ws[k + 1])
    BY UptoProperties DEF Text
<1>3. \A k \in 1..n : ws[k] \in Glyphs
    BY DEF Text
<1> DEFINE S == {k \in 0..n : Characters(acc[k]) = Bare(Upto(ws, k))}
<1>4. 0 \in S
    <2>1. acc[0] = <<>>
        BY <1>1 DEF RunLoop
    <2>2. Spelled(<<>>) = <<>> /\ Bare(<<>>) = <<>>
        <3>1. \A e : e = <<>> => Len(e) = 0
            OBVIOUS
        <3>2. \A e : e = <<>> => Spelled(e) = <<>> /\ Bare(e) = <<>>
            BY <3>1 DEF Spelled, Bare
        <3> QED BY <3>2
    <2>3. Characters(acc[0]) = Bare(Upto(ws, 0))
        BY <1>2, <2>1, <2>2, FlatEmpty DEF Characters
    <2> QED BY <1>2, <2>3
<1>5. ASSUME NEW k \in 0..n, k < n, k \in S PROVE k + 1 \in S
    <2>1. k + 1 \in 1..n /\ k + 1 \in 0..n
        BY <1>2, <1>5
    <2>2. acc[k] \in Seq(Text) /\ ws[k + 1] \in Glyphs /\ acc[k + 1] = RunStep(WordChars, acc[k], ws[k + 1])
        BY <1>1, <1>3, <1>5, <2>1 DEF RunLoop
    <2>3. Characters(acc[k + 1]) = Append(Characters(acc[k]), ws[k + 1].char)
        BY <2>2, RunStepSpells
    <2>4. Upto(ws, k) \in Text /\ Upto(ws, k + 1) = Append(Upto(ws, k), ws[k + 1])
        BY <1>2, <1>5
    <2>5. Bare(Upto(ws, k + 1)) = Append(Bare(Upto(ws, k)), ws[k + 1].char)
        BY <2>2, <2>4, BareAppend
    <2> QED BY <1>5, <2>1, <2>3, <2>5
<1>6. n \in S
    <2> HIDE DEF S, n
    <2>1. \A k \in 0..n : k \in S
        BY <1>2, <1>4, <1>5, BoundedInduction
    <2> QED BY <1>2, <2>1
<1>7. Characters(acc[n]) = Bare(ws)
    BY <1>2, <1>6
<1> QED BY <1>1, <1>7 DEF Tokens, Characters

\* A turn of Runs after other runs, which a character goes on with only where it is
\* attached and there is no later run.
LEMMA RunStepLater ==
    ASSUME NEW chars, NEW before \in Seq(Text), NEW acc \in Seq(Text), NEW g \in Glyphs,
           acc # <<>> \/ ~g.glued
    PROVE  RunStep(chars, before \o acc, g) = before \o RunStep(chars, acc, g)
<1> DEFINE w == before \o acc
<1>1. w \in Seq(Text) /\ <<g>> \in Text
    BY DEF Text
<1>2. before \o Append(acc, <<g>>) = Append(w, <<g>>)
    <2> DEFINE x == <<g>>
    <2>1. x \in Text
        BY <1>1
    <2> HIDE DEF x
    <2>2. /\ Append(acc, x) = acc \o <<x>> /\ <<x>> \in Seq(Text)
          /\ Append(before \o acc, x) = (before \o acc) \o <<x>>
        BY <1>1, <2>1, AppendIsConcat
    <2>3. before \o (acc \o <<x>>) = (before \o acc) \o <<x>>
        BY <2>2, Assoc DEF Associates
    <2>4. before \o Append(acc, x) = Append(before \o acc, x)
        BY <2>2, <2>3
    <2> QED BY <2>4 DEF x
<1>3. CASE acc # <<>>
    <2> DEFINE f == Front(acc)
               l == Last(acc)
    <2>1. w # <<>> /\ Front(w) = before \o f /\ Last(w) = l
        BY <1>3, FrontLater
    <2>2. f \in Seq(Text) /\ l \in Text
        BY <1>3, FrontLast
    <2>3. RunStep(chars, acc, g) =
              IF Continues(l, g, chars) THEN Append(f, Append(l, g)) ELSE Append(acc, <<g>>)
        BY <1>3 DEF RunStep
    <2>4. RunStep(chars, w, g) =
              IF Continues(l, g, chars) THEN Append(before \o f, Append(l, g)) ELSE Append(w, <<g>>)
        BY <2>1 DEF RunStep
    <2> HIDE DEF w, f, l
    <2> DEFINE x == Append(l, g)
    <2>5. x \in Text
        BY <2>2 DEF Text
    <2> HIDE DEF x
    <2>6. Append(before \o f, x) = before \o Append(f, x)
        <3>1. /\ Append(f, x) = f \o <<x>> /\ <<x>> \in Seq(Text) /\ before \o f \in Seq(Text)
              /\ Append(before \o f, x) = (before \o f) \o <<x>>
            BY <2>2, <2>5, AppendIsConcat
        <3>2. before \o (f \o <<x>>) = (before \o f) \o <<x>>
            BY <2>2, <3>1, Assoc DEF Associates
        <3> QED BY <3>1, <3>2
    <2>7. CASE Continues(l, g, chars)
        BY <2>3, <2>4, <2>6, <2>7 DEF x, w
    <2>8. CASE ~Continues(l, g, chars)
        BY <1>2, <2>3, <2>4, <2>8 DEF w
    <2> QED BY <2>7, <2>8
<1>4. CASE acc = <<>>
    <2>1. ~Continues(Last(w), g, chars)
        BY <1>4 DEF Continues
    <2>2. RunStep(chars, w, g) = Append(w, <<g>>)
        BY <2>1 DEF RunStep
    <2>3. RunStep(chars, acc, g) = Append(acc, <<g>>)
        BY <1>4 DEF RunStep
    <2> QED BY <1>2, <2>2, <2>3
<1> QED BY <1>3, <1>4

\* After a character there is a run.
LEMMA RunStepSome ==
    ASSUME NEW chars, NEW acc \in Seq(Text), NEW g \in Glyphs
    PROVE  RunStep(chars, acc, g) # <<>>
<1>1. \A s \in Seq(Text) : \A t \in Text : Append(s, t) # <<>>
    OBVIOUS
<1>2. <<g>> \in Text
    BY DEF Text
<1>3. CASE acc # <<>> /\ Continues(Last(acc), g, chars)
    <2>1. Front(acc) \in Seq(Text) /\ Last(acc) \in Text
        BY <1>3, FrontLast
    <2>2. Append(Last(acc), g) \in Text
        BY <2>1 DEF Text
    <2> QED BY <1>1, <1>3, <2>1, <2>2 DEF RunStep
<1>4. CASE ~(acc # <<>> /\ Continues(Last(acc), g, chars))
    BY <1>1, <1>2, <1>4 DEF RunStep
<1> QED BY <1>3, <1>4

\* The runs of a text after another, which no word of the other goes on into.
LEMMA RunsConcat ==
    ASSUME NEW s \in Text, NEW t \in Lines, NEW chars
    PROVE  Runs(s \o t, chars) = Runs(s, chars) \o Runs(t, chars)
<1> DEFINE w == s \o t
           m == Len(s)
           n == Len(t)
<1>1. t \in Text /\ s \in Seq(Glyphs) /\ t \in Seq(Glyphs) /\ (t # <<>> => ~t[1].glued)
    BY DEF Lines, Text
<1>2. /\ w \in Text /\ m \in Nat /\ n \in Nat /\ Len(w) = m + n
      /\ \A k \in 1..m : w[k] = s[k]
      /\ \A k \in 1..n : w[m + k] = t[k]
    BY <1>1, Concatenated DEF Text
<1> HIDE DEF w
<1>3. PICK a \in [0..m -> Seq(Text)] : RunLoop(s, chars, a) /\ Runs(s, chars) = a[m]
    BY RunsExist
<1>4. PICK b \in [0..n -> Seq(Text)] : RunLoop(t, chars, b) /\ Runs(t, chars) = b[n]
    BY <1>1, RunsExist
<1>5. PICK c \in [0..Len(w) -> Seq(Text)] : RunLoop(w, chars, c) /\ Runs(w, chars) = c[Len(w)]
    BY <1>2, RunsExist
<1>6. /\ a[0] = <<>> /\ \A k \in 0..m : k < m => a[k + 1] = RunStep(chars, a[k], s[k + 1])
      /\ b[0] = <<>> /\ \A k \in 0..n : k < n => b[k + 1] = RunStep(chars, b[k], t[k + 1])
      /\ c[0] = <<>> /\ \A k \in 0..(m + n) : k < m + n => c[k + 1] = RunStep(chars, c[k], w[k + 1])
    BY <1>2, <1>3, <1>4, <1>5 DEF RunLoop
<1>7. (\A k \in 1..n : t[k] \in Glyphs) /\ (\A k \in 0..m : a[k] \in Seq(Text)) /\ \A k \in 0..n : b[k] \in Seq(Text)
    <2>1. \A k \in 1..n : t[k] \in Glyphs
        BY <1>1
    <2> HIDE DEF m, n
    <2>2. \A k \in 0..m : a[k] \in Seq(Text)
        BY ONLY <1>3
    <2>3. \A k \in 0..n : b[k] \in Seq(Text)
        BY ONLY <1>4
    <2> QED BY <2>1, <2>2, <2>3
<1>8. 1 \in 1..n => ~t[1].glued
    BY <1>1
<1> HIDE DEF m, n
<1> DEFINE S == {k \in 0..m : c[k] = a[k]}
<1>9. 0 \in S
    BY <1>2, <1>6
<1>10. ASSUME NEW k \in 0..m, k < m, k \in S PROVE k + 1 \in S
    <2>1. k + 1 \in 0..m /\ k + 1 \in 1..m /\ k \in 0..(m + n) /\ k < m + n
        BY <1>2, <1>10
    <2>2. c[k] = a[k] /\ w[k + 1] = s[k + 1]
        BY <1>2, <1>10, <2>1
    <2> QED BY <1>6, <1>10, <2>1, <2>2
<1>11. c[m] = a[m]
    <2> HIDE DEF S
    <2>1. \A k \in 0..m : k \in S
        BY <1>2, <1>9, <1>10, BoundedInduction
    <2>2. m \in S
        BY <1>2, <2>1
    <2> QED BY <2>2 DEF S
<1> DEFINE R == {k \in 0..n : c[m + k] = a[m] \o b[k] /\ (k # 0 => b[k] # <<>>)}
<1>12. 0 \in R
    <2>1. m \in 0..m /\ m + 0 = m /\ 0 \in 0..n
        BY <1>2
    <2>2. a[m] \o <<>> = a[m]
        BY <1>7, <2>1, ConcatEmptySeq
    <2>3. c[m + 0] = a[m] \o b[0]
        BY <1>6, <1>11, <2>1, <2>2
    <2> QED BY <2>1, <2>3
<1>13. ASSUME NEW k \in 0..n, k < n, k \in R PROVE k + 1 \in R
    <2> DEFINE j == m + k
    <2>1. k + 1 \in 0..n /\ k + 1 \in 1..n /\ j \in 0..(m + n) /\ j < m + n /\ m + (k + 1) = j + 1 /\ m \in 0..m
        BY <1>2, <1>13
    <2>2. c[j] = a[m] \o b[k] /\ (k # 0 => b[k] # <<>>) /\ w[m + (k + 1)] = t[k + 1]
        BY <1>2, <1>13, <2>1
    <2> HIDE DEF j
    <2>3. c[j + 1] = RunStep(chars, a[m] \o b[k], t[k + 1])
        BY <1>6, <2>1, <2>2
    <2>4. a[m] \in Seq(Text) /\ b[k] \in Seq(Text) /\ t[k + 1] \in Glyphs
        BY <1>7, <2>1
    <2>5. b[k] # <<>> \/ ~t[k + 1].glued
        <3>1. CASE k = 0
            <4>1. k + 1 = 1 /\ 1 \in 1..n
                BY <2>1, <3>1
            <4> QED BY <1>8, <4>1
        <3> QED BY <2>2, <3>1
    <2>6. c[j + 1] = a[m] \o RunStep(chars, b[k], t[k + 1])
        BY <2>3, <2>4, <2>5, RunStepLater
    <2>7. b[k + 1] = RunStep(chars, b[k], t[k + 1]) /\ RunStep(chars, b[k], t[k + 1]) # <<>>
        BY <1>6, <1>13, <2>4, RunStepSome
    <2> QED BY <2>1, <2>6, <2>7
<1>14. c[m + n] = a[m] \o b[n]
    <2> HIDE DEF R
    <2>1. \A k \in 0..n : k \in R
        BY <1>2, <1>12, <1>13, BoundedInduction
    <2>2. n \in R
        BY <1>2, <2>1
    <2> QED BY <2>2 DEF R
<1>15. Runs(w, chars) = c[m + n]
    BY <1>2, <1>5
<1>16. Runs(w, chars) = Runs(s, chars) \o Runs(t, chars)
    BY <1>3, <1>4, <1>14, <1>15
<1> QED BY <1>16 DEF w

\* The tokens of a text are those of its parts.
LEMMA TokensConcat ==
    ASSUME NEW s \in Text, NEW t \in Lines
    PROVE  Tokens(s \o t) = Tokens(s) \o Tokens(t)
<1>1. t \in Text
    BY LinesType
<1>2. Runs(s, WordChars) \in Seq(Text) /\ Runs(t, WordChars) \in Seq(Text)
    BY <1>1, TokensType
<1>3. Runs(s \o t, WordChars) = Runs(s, WordChars) \o Runs(t, WordChars)
    BY RunsConcat
<1> QED BY <1>2, <1>3, SpelledConcat DEF Tokens

\* The blocks have words.
LEMMA BlocksWorded == Worded(BlockSet)
<1>1. \A b \in BlockSet : b.words \in Lines
    BY DEF BlockSet
<1>2. \A b \in BlockSet : b.words \in Text
    BY <1>1, LinesType
<1> QED BY <1>2 DEF Worded

\* The tokens of blocks after blocks.
LEMMA BlockTokens ==
    ASSUME NEW xs \in Seq(BlockSet), NEW ys \in Seq(BlockSet)
    PROVE  Tokens(Words(xs \o ys)) = Tokens(Words(xs)) \o Tokens(Words(ys))
<1>1. Words(xs \o ys) = Words(xs) \o Words(ys)
    BY BlocksWorded, WordsConcat
<1>2. Words(xs) \in Text /\ Words(ys) \in Lines
    BY WordsType
<1> QED BY <1>1, <1>2, TokensConcat

\* Both sides of a pair have the same tokens.
SameTokens(pair) == Text1(pair) = Text2(pair)

\* Where both sides of every pair have the same tokens, both sides of them all have.
LEMMA PairsSame ==
    ASSUME NEW ps \in Seq(PairSet), \A n \in 1..Len(ps) : SameTokens(ps[n])
    PROVE  Tokens(Words(Lefts(ps))) = Tokens(Words(Rights(ps)))
<1> DEFINE n == Len(ps)
           P(k) == Tokens(Words(Lefts(Upto(ps, k)))) = Tokens(Words(Rights(Upto(ps, k))))
           S == {k \in 0..n : P(k)}
<1>1. /\ n \in Nat /\ Upto(ps, 0) = <<>> /\ Upto(ps, n) = ps
      /\ \A k \in 0..n : Upto(ps, k) \in Seq(PairSet)
      /\ \A k \in 0..n : k < n => Upto(ps, k + 1) = Append(Upto(ps, k), ps[k + 1])
    BY UptoProperties
<1>2. \A k \in 1..n : ps[k] \in PairSet /\ SameTokens(ps[k])
    OBVIOUS
<1> HIDE DEF n
<1>3. 0 \in S
    <2>1. P(0)
        BY <1>1, SidesNone
    <2> QED BY <1>1, <2>1
<1>4. ASSUME NEW k \in 0..n, k < n, k \in S PROVE k + 1 \in S
    <2> DEFINE us == Upto(ps, k)
               p == ps[k + 1]
    <2>1. k + 1 \in 1..n /\ k + 1 \in 0..n
        BY <1>1, <1>4
    <2>2. us \in Seq(PairSet) /\ p \in PairSet /\ SameTokens(p) /\ Upto(ps, k + 1) = Append(us, p)
        BY <1>1, <1>2, <1>4, <2>1
    <2>3. Tokens(Words(Lefts(us))) = Tokens(Words(Rights(us)))
        BY <1>4
    <2> HIDE DEF us, p
    <2>4. Lefts(Append(us, p)) = Lefts(us) \o p.file1 /\ Rights(Append(us, p)) = Rights(us) \o p.file2
        BY <2>2, SidesAppend
    <2>5. Lefts(us) \in Seq(BlockSet) /\ Rights(us) \in Seq(BlockSet)
        BY <2>2, SidesType, FlatType DEF Lefts, Rights
    <2>6. p.file1 \in Seq(BlockSet) /\ p.file2 \in Seq(BlockSet)
        BY <2>2 DEF PairSet
    <2>7. /\ Tokens(Words(Lefts(us) \o p.file1)) = Tokens(Words(Lefts(us))) \o Tokens(Words(p.file1))
          /\ Tokens(Words(Rights(us) \o p.file2)) = Tokens(Words(Rights(us))) \o Tokens(Words(p.file2))
        BY <2>5, <2>6, BlockTokens
    <2>8. Tokens(Words(p.file1)) = Tokens(Words(p.file2))
        BY <2>2 DEF SameTokens, Text1, Text2
    <2>9. P(k + 1)
        BY <2>2, <2>3, <2>4, <2>7, <2>8
    <2> QED BY <2>1, <2>9
<1>5. n \in S
    <2> HIDE DEF S
    <2>1. \A k \in 0..n : k \in S
        BY <1>1, <1>3, <1>4, BoundedInduction
    <2> QED BY <1>1, <2>1
<1> QED BY <1>1, <1>5

\* A pair without candidates has the same tokens on both sides.
LEMMA NoCandidateSame ==
    ASSUME NEW p \in PairSet, PairCandidates(p) = <<>> PROVE SameTokens(p)
<1> DEFINE t1 == Text1(p)
           t2 == Text2(p)
           st == PatchState(t1, t2, <<>>)
<1>1. t1 \in TokenText /\ t2 \in TokenText
    BY PairTexts
<1>2. PatchedTo(t1, t2, <<>>, Len(t1), Len(t2))
    BY PairCandidatesExplain DEF Explains
<1> HIDE DEF t1, t2
<1>3. st.ts \o SubSeq(t1, st.at + 1, Len(t1)) = t2
    BY <1>1, <1>2, PatchLast
<1>4. st = [at |-> 0, ts |-> <<>>]
    BY <1>1, PatchNone
<1> HIDE DEF st
<1>5. st.at + 1 = 1 /\ st.ts = <<>>
    BY <1>4
<1>6. Upto(t1, Len(t1)) = t1
    BY <1>1, UptoProperties DEF TokenText
<1>7. <<>> \o t1 = t2
    BY <1>3, <1>5, <1>6 DEF Upto
<1>8. t1 = t2
    BY <1>1, <1>7, ConcatEmptySeq DEF TokenText
<1> QED BY <1>8 DEF SameTokens, t1, t2

-----------------------------------------------------------------------------
(* Sequences of sequences *)

\* Of as long pieces the whole is as long.
LEMMA FlatLength ==
    ASSUME NEW T, NEW U, NEW ss \in Seq(Seq(T)), NEW tt \in Seq(Seq(U)), Len(ss) = Len(tt),
           \A k \in 1..Len(ss) : Len(ss[k]) = Len(tt[k])
    PROVE  Len(FlattenSeq(ss)) = Len(FlattenSeq(tt))
<1> DEFINE n == Len(ss)
<1>1. PICK f \in [0..Len(ss) -> Seq(T)] : IsFlat(ss, f)
    BY FlatExists
<1>2. PICK g \in [0..Len(tt) -> Seq(U)] : IsFlat(tt, g)
    BY FlatExists
<1>3. FlattenSeq(ss) = f[n] /\ FlattenSeq(tt) = g[n]
    BY <1>1, <1>2, FlatIs
<1> DEFINE S == {k \in 0..n : Len(f[k]) = Len(g[k])}
<1>4. n \in Nat /\ n = Len(tt) /\ \A k \in 1..n : ss[k] \in Seq(T) /\ tt[k] \in Seq(U) /\ Len(ss[k]) = Len(tt[k])
    OBVIOUS
<1>5. 0 \in S
    BY <1>1, <1>2, <1>4 DEF IsFlat
<1>6. ASSUME NEW k \in 0..n, k < n, k \in S PROVE k + 1 \in S
    <2>1. k + 1 \in 1..n /\ k + 1 \in 0..n
        BY <1>4, <1>6
    <2>2. f[k + 1] = f[k] \o ss[k + 1] /\ g[k + 1] = g[k] \o tt[k + 1]
        BY <1>1, <1>2, <1>4, <1>6 DEF IsFlat
    <2>3. f[k] \in Seq(T) /\ g[k] \in Seq(U) /\ Len(f[k]) = Len(g[k])
        BY <1>1, <1>2, <1>4, <1>6
    <2>4. ss[k + 1] \in Seq(T) /\ tt[k + 1] \in Seq(U) /\ Len(ss[k + 1]) = Len(tt[k + 1])
        BY <1>4, <2>1
    <2>5. Len(f[k] \o ss[k + 1]) = Len(f[k]) + Len(ss[k + 1]) /\ Len(g[k] \o tt[k + 1]) = Len(g[k]) + Len(tt[k + 1])
        BY <2>3, <2>4, ConcatProperties
    <2> QED BY <2>1, <2>2, <2>3, <2>4, <2>5
<1>7. n \in S
    <2> HIDE DEF S, n
    <2>1. \A k \in 0..n : k \in S
        BY <1>4, <1>5, <1>6, BoundedInduction
    <2> QED BY <1>4, <2>1
<1> QED BY <1>3, <1>7

\* A whole of nothing has no piece of anything.
LEMMA FlatNothing ==
    ASSUME NEW T, NEW ss \in Seq(Seq(T)), FlattenSeq(ss) = <<>>, NEW m \in 1..Len(ss)
    PROVE  ss[m] = <<>>
<1> DEFINE n == Len(ss)
<1>1. PICK f \in [0..Len(ss) -> Seq(T)] : IsFlat(ss, f)
    BY FlatExists
<1>2. FlattenSeq(ss) = f[n]
    BY <1>1, FlatIs
<1> DEFINE S == {k \in 0..n : m <= k => Len(ss[m]) <= Len(f[k])}
<1>3. n \in Nat /\ \A k \in 1..n : ss[k] \in Seq(T)
    OBVIOUS
<1>4. 0 \in S
    BY <1>3
<1>5. ASSUME NEW k \in 0..n, k < n, k \in S PROVE k + 1 \in S
    <2>1. k + 1 \in 1..n /\ k + 1 \in 0..n
        BY <1>3, <1>5
    <2>2. f[k + 1] = f[k] \o ss[k + 1]
        BY <1>1, <1>5 DEF IsFlat
    <2>3. f[k] \in Seq(T) /\ ss[k + 1] \in Seq(T)
        BY <1>1, <1>3, <2>1
    <2> DEFINE a == Len(f[k])
               b == Len(ss[k + 1])
               c == Len(ss[m])
               d == Len(f[k + 1])
    <2>4. d = a + b /\ a \in Nat /\ b \in Nat
        BY <2>2, <2>3, ConcatProperties
    <2>5. m <= k => c <= a
        BY <1>5
    <2>6. c \in Nat /\ (m = k + 1 => c = b)
        BY <1>3
    <2> HIDE DEF a, b, c, d
    <2>7. m <= k + 1 => c <= d
        BY <1>3, <2>4, <2>5, <2>6
    <2> QED BY <2>1, <2>7 DEF c, d
<1>6. n \in S
    <2> HIDE DEF S, n
    <2>1. \A k \in 0..n : k \in S
        BY <1>3, <1>4, <1>5, BoundedInduction
    <2> QED BY <1>3, <2>1
<1>7. Len(ss[m]) <= Len(f[n])
    BY <1>3, <1>6
<1>8. Len(f[n]) = 0
    BY <1>2
<1>9. ss[m] \in Seq(T) /\ Len(ss[m]) \in Nat
    BY <1>3
<1>10. Len(ss[m]) = 0
    BY <1>7, <1>8, <1>9
<1> QED BY <1>9, <1>10

-----------------------------------------------------------------------------
(* The two parts in one machine *)

\* What the classifier's proofs need.
ClassifierInv == ProvenInv /\ SettledInv /\ LogInv /\ VisibleInv

\* It holds before the candidates are classified.
LEMMA ClassifierStarts == ClassifierInit => ClassifierInv
<1> SUFFICES ASSUME ClassifierInit PROVE ClassifierInv
    OBVIOUS
<1>1. RowsInv /\ LogInv
    BY RowsInit, LogInit
<1>2. ProvenInv
    BY DEF ClassifierInit, ProvenInv, Numbered, TechnicalIsProven
<1>3. SettledInv
    BY <1>1 DEF ClassifierInit, NothingDone, SettledInv, Numbered
<1>4. VisibleInv
    BY <1>1 DEF ClassifierInit, NothingDone, VisibleInv, ShownInv, Numbered, EveryCandidateVisible
<1> QED BY <1>1, <1>2, <1>3, <1>4 DEF ClassifierInv

\* Each of its steps keeps it.
LEMMA ClassifierKeeps ==
    ASSUME ClassifierInv, [Classify]_classifierVars PROVE ClassifierInv'
<1>1. ProvenInv' /\ SettledInv' /\ LogInv' /\ VisibleInv'
    BY ProvenStep, SettledStep, LogStep, VisibleStep DEF ClassifierInv
<1> QED BY <1>1 DEF ClassifierInv

\* The comparison is over: the literal keys were the same, or every block was compared.
AllCompared ==
    \/ LiteralKey(doc1) = LiteralKey(doc2)
    \/ /\ BlocksWithText(blocks1, DocText(doc1))
       /\ BlocksWithText(blocks2, DocText(doc2))
       /\ aligned = <<>>
       /\ MadeOf(PairsOf(compared, aligned), blocks1, blocks2)

\* What holds in every state: of either part what was proved of it, all is compared when
\* comparing is over, and the candidates that are classified are those that were found.
ComparisonInv ==
    /\ DiffInv
    /\ ClassifierInv
    /\ pc = "done" => AllCompared
    /\ Len(candidates) \in Nat /\ Ids = 1..Len(candidates)
    /\ stage = "new" => NothingDone
    /\ stage # "new" => pc = "done" /\ Len(candidates) = Len(Candidates)

\* A found candidate is one that is classified.
LEMMA AsManyClassified ==
    ASSUME DiffInv
    PROVE  /\ Len(AllClassifiable) = Len(Candidates) /\ Len(AllClassifiable) \in Nat
           /\ DOMAIN AllClassifiable = 1..Len(Candidates)
<1> DEFINE n == Len(compared)
           cs == [k \in 1..n |-> compared[k].candidates]
           ds == [k \in 1..n |-> Classifiable(k)]
           D == UNION {{Classifiable(k)[m] : m \in 1..Len(compared[k].candidates)} : k \in 1..n}
           C == Seq(CandidateSet)
           E == Seq(D)
<1>1. n \in Nat /\ \A k \in 1..n : compared[k].candidates \in C
    <2>1. compared \in Seq(ComparedSet)
        BY DEF DiffInv
    <2>2. \A c \in ComparedSet : c.candidates \in C
        BY DEF ComparedSet
    <2> QED BY <2>1, <2>2
<1>2. \A k \in 1..n : Len(compared[k].candidates) \in Nat
    BY <1>1
<1>3. ASSUME NEW k \in 1..n
      PROVE  Classifiable(k) \in E /\ Len(Classifiable(k)) = Len(compared[k].candidates)
    <2> DEFINE q == Len(compared[k].candidates)
    <2>1. \E F : Classifiable(k) = [m \in 1..q |-> F[m]]
        <3> DEFINE pair == compared[k].pair
                   c(m) == compared[k].candidates[m]
                   F == [m \in 1..q |->
                            [alignment |-> k,
                             left      |-> LeftOf(pair, c(m)),
                             right     |-> RightOf(pair, c(m)),
                             vanishes  |-> Vanishes(pair, c(m)),
                             artefact  |-> Artefact(pair, c(m)),
                             protected |-> Protected(LeftOf(pair, c(m)), RightOf(pair, c(m)))]]
        <3>1. Classifiable(k) = F
            BY DEF Classifiable
        <3> HIDE DEF F
        <3>2. F = [m \in 1..q |-> F[m]]
            BY DEF F
        <3> QED BY <3>1, <3>2
    <2>2. PICK F : Classifiable(k) = [m \in 1..q |-> F[m]]
        BY <2>1
    <2>3. \A m \in 1..q : Classifiable(k)[m] \in D
        OBVIOUS
    <2>4. q \in Nat
        BY <1>2
    <2> HIDE DEF q, D
    <2>5. \A m \in 1..q : F[m] \in D
        BY <2>2, <2>3
    <2>6. [m \in 1..q |-> F[m]] \in Seq(D) /\ Len([m \in 1..q |-> F[m]]) = q
        BY <2>4, <2>5
    <2> QED BY <2>2, <2>6 DEF q
<1> HIDE DEF C, D, E, n
<1>4. cs \in Seq(C) /\ ds \in Seq(E) /\ Len(cs) = n /\ Len(ds) = n
    BY <1>1, <1>3
<1>5. \A k \in 1..n : Len(ds[k]) = Len(cs[k])
    BY <1>3
<1>6. Candidates = FlattenSeq(cs) /\ AllClassifiable = FlattenSeq(ds)
    BY DEF Candidates, AllClassifiable, n
<1> HIDE DEF cs, ds
<1>7. Len(FlattenSeq(ds)) = Len(FlattenSeq(cs))
    <2>1. ds \in Seq(Seq(D)) /\ cs \in Seq(Seq(CandidateSet)) /\ Len(ds) = Len(cs)
        BY <1>4 DEF C, E
    <2>2. \A k \in 1..Len(ds) : Len(ds[k]) = Len(cs[k])
        BY <1>4, <1>5
    <2> QED BY <2>1, <2>2, FlatLength
<1>8. FlattenSeq(ds) \in Seq(D)
    BY <1>4, FlatType DEF E
<1>9. Len(FlattenSeq(ds)) \in Nat /\ DOMAIN FlattenSeq(ds) = 1..Len(FlattenSeq(ds))
    BY <1>8
<1> QED BY <1>6, <1>7, <1>9

\* ComparisonInv holds at the start.
LEMMA ComparisonStarts == Init => ComparisonInv
<1> SUFFICES ASSUME Init PROVE ComparisonInv
    OBVIOUS
<1>1. DiffInv /\ pc = "segment"
    BY DiffInvInit DEF Init, DiffInit
<1>2. NothingDone /\ stage = "new"
    BY DEF Init, NothingDone
<1>3. Len(candidates) = 0 /\ Ids = 1..0
    BY DEF Init, Ids
<1>4. ClassifierInit
    <2>1. candidates = <<>> /\ llm = <<>> /\ stored = <<>>
        BY DEF Init
    <2>2. \A f : f = [i \in 1..0 |-> NoDecision] => f = <<>>
        OBVIOUS
    <2> QED BY <1>2, <1>3, <2>1, <2>2 DEF ClassifierInit
<1>5. ClassifierInv
    BY <1>4, ClassifierStarts
<1> QED BY <1>1, <1>2, <1>3, <1>5 DEF ComparisonInv

\* Each step keeps ComparisonInv.
LEMMA ComparisonKeeps == ComparisonInv /\ [Next]_vars => ComparisonInv'
<1> SUFFICES ASSUME ComparisonInv, [Next]_vars PROVE ComparisonInv'
    OBVIOUS
<1>1. CASE Compare
    <2>1. ComparePages /\ UNCHANGED classifierVars
        BY <1>1 DEF Compare
    <2>2. DiffInv'
        BY <2>1, DiffInvStep DEF ComparisonInv
    <2>3. ClassifierInv'
        BY <2>1, ClassifierKeeps DEF ComparisonInv
    <2>4. pc # "done" /\ stage = "new"
        BY <2>1 DEF ComparisonInv, ComparePages, Same, Segment, Align, DiffNext, AllDiffed
    <2>5. UNCHANGED <<candidates, stage>> /\ NothingDone' = NothingDone /\ Ids' = Ids
        BY <2>1 DEF classifierVars, NothingDone, Ids
    <2>6. pc' = "done" => AllCompared'
        <3>1. CASE Same
            BY <3>1 DEF Same, AllCompared, LiteralKey
        <3>2. CASE AllDiffed
            <4>1. /\ BlocksWithText(blocks1, DocText(doc1)) /\ BlocksWithText(blocks2, DocText(doc2))
                  /\ aligned = <<>> /\ MadeOf(PairsOf(compared, aligned), blocks1, blocks2)
                BY <3>2 DEF ComparisonInv, DiffInv, AllDiffed
            <4>2. UNCHANGED <<doc1, doc2, blocks1, blocks2, aligned, compared>>
                BY <3>2 DEF AllDiffed
            <4> QED BY <4>1, <4>2 DEF AllCompared
        <3>3. CASE Segment \/ Align \/ DiffNext
            BY <3>3 DEF Segment, Align, DiffNext
        <3> QED BY <2>1, <3>1, <3>2, <3>3 DEF ComparePages
    <2> QED BY <2>2, <2>3, <2>4, <2>5, <2>6 DEF ComparisonInv
<1>2. CASE SaveCandidates
    <2>1. /\ UNCHANGED diffVars /\ pc = "done" /\ stage = "new"
          /\ candidates' = AllClassifiable
          /\ llm' = [i \in 1..Len(Candidates) |-> NoDecision]
          /\ stored' = [i \in 1..Len(Candidates) |-> NoDecision]
          /\ UNCHANGED <<stage, round, pending, todo, batch, index, attempt, answered, failures, rows>>
        BY <1>2 DEF SaveCandidates
    <2>2. DiffInv'
        BY <2>1, DiffInvStep DEF ComparisonInv
    <2>3. NothingDone'
        BY <2>1 DEF ComparisonInv, NothingDone
    <2>4. /\ Len(AllClassifiable) = Len(Candidates) /\ Len(AllClassifiable) \in Nat
          /\ DOMAIN AllClassifiable = 1..Len(Candidates)
        BY AsManyClassified DEF ComparisonInv
    <2>5. Len(candidates') \in Nat /\ Ids' = 1..Len(candidates') /\ Len(candidates') = Len(Candidates)
        BY <2>1, <2>4 DEF Ids
    <2>6. ClassifierInit'
        BY <2>1, <2>3, <2>5 DEF ClassifierInit
    <2>7. ClassifierInv'
        BY <2>6, ClassifierStarts, PTL
    <2>8. AllCompared' /\ pc' = "done" /\ stage' = "new"
        BY <2>1 DEF ComparisonInv, AllCompared, diffVars
    <2> QED BY <2>2, <2>3, <2>5, <2>7, <2>8 DEF ComparisonInv
<1>3. CASE ClassifySaved
    <2>1. Classify /\ UNCHANGED diffVars /\ pc = "done" /\ Len(candidates) = Len(Candidates)
        BY <1>3 DEF ClassifySaved
    <2>2. DiffInv' /\ ClassifierInv'
        BY <2>1, DiffInvStep, ClassifierKeeps DEF ComparisonInv
    <2>3. UNCHANGED candidates /\ Ids' = Ids
        BY <2>1, StepsKeepStored DEF Ids
    <2>4. stage' # "new"
        BY <2>1
        DEF Classify, Sort, RecordBatch, ChatRetries, ChatRaises, ChatAnswers, CompleteBatch,
            RetryAlignment, StoreDecisions, StoreRaises
    <2>5. AllCompared' /\ pc' = "done" /\ Candidates' = Candidates
        BY <2>1 DEF ComparisonInv, AllCompared, diffVars, Candidates
    <2> QED BY <2>1, <2>2, <2>3, <2>4, <2>5 DEF ComparisonInv
<1>4. CASE UNCHANGED vars
    <2>1. UNCHANGED diffVars /\ UNCHANGED classifierVars
        BY <1>4 DEF vars
    <2>2. DiffInv' /\ ClassifierInv'
        BY <2>1, DiffInvStep, ClassifierKeeps DEF ComparisonInv
    <2>3. /\ AllCompared' = AllCompared /\ pc' = pc /\ Candidates' = Candidates /\ Ids' = Ids
          /\ UNCHANGED <<candidates, stage>> /\ NothingDone' = NothingDone
        BY <2>1 DEF AllCompared, diffVars, classifierVars, Candidates, Ids, NothingDone
    <2> QED BY <2>2, <2>3 DEF ComparisonInv
<1> QED BY <1>1, <1>2, <1>3, <1>4 DEF Next

\* The invariant holds in every state of a comparison.
THEOREM ComparisonInvariant == Spec => []ComparisonInv
BY ComparisonStarts, ComparisonKeeps, PTL DEF Spec

\* A comparison is a run of the text engine, in which classifying changes nothing: what
\* is proved of DiffSpec holds of it.
THEOREM ComparesAsSpecified == Spec => DiffSpec
<1>1. Init => DiffInit
    BY DEF Init
<1>2. [Next]_vars => [ComparePages]_diffVars
    BY DEF Next, Compare, SaveCandidates, ClassifySaved, vars
<1> QED BY <1>1, <1>2, PTL DEF Spec, DiffSpec

\* What was proved of the text engine, said of the comparison.
THEOREM ComparisonKeepsText ==
    Spec => [](/\ BlocksKeepText /\ EveryBlockOnce /\ ChangedRangeOptimal
               /\ CandidatesExplainChange /\ BatchesKeepOrder)
BY ComparesAsSpecified, BlocksKeepDocument, BlocksAlignedOnce, ChangedRangesOptimal,
   CandidatesAreTheChange, BatchesInOrder, PTL

\* What the classifier promises holds of the candidates that the text engine finds: none
\* is lost, none asked about a third time, none hidden on the model's word, the rows tell
\* it, and the verdict "content_equal" speaks of all of them.
THEOREM ClassifiesAsProven ==
    Spec => [](/\ EveryCandidateVisible /\ MisalignedIsSettled /\ TechnicalIsProven
               /\ RowsTellDecisions /\ ContentEqualMeansTechnical)
<1>1. ComparisonInv => /\ EveryCandidateVisible /\ MisalignedIsSettled /\ TechnicalIsProven
                       /\ RowsTellDecisions /\ ContentEqualMeansTechnical
    BY SettledImplies, LogImplies, ShownTellsAll
    DEF ComparisonInv, ClassifierInv, VisibleInv, ProvenInv
<1> QED BY <1>1, ComparisonInvariant, PTL

\* The text of a document.
LEMMA DocTextType == ASSUME NEW doc \in Seq(Seq(Lines)) PROVE DocText(doc) \in Text
<1> DEFINE norm == [p \in 1..Len(doc) |-> Normalized(doc[p])]
<1>1. Len(doc) \in Nat /\ \A p \in 1..Len(doc) : doc[p] \in Seq(Lines)
    OBVIOUS
<1>2. norm \in Seq(Seq(Lines))
    <2>1. \A p \in 1..Len(doc) : Normalized(doc[p]) \in Seq(Lines)
        BY <1>1, NormalizedType
    <2> QED BY <1>1, <2>1
<1> HIDE DEF norm
<1>3. FlattenSeq(norm) \in Seq(Lines)
    BY <1>2, FlatType
<1>4. FlattenSeq(FlattenSeq(norm)) \in Text
    BY <1>3, LinesFlat, LinesType
<1> QED BY <1>4 DEF DocText, norm

\* The pieces of a text have its characters.
LEMMA SplitsSpell ==
    ASSUME NEW x \in Text, NEW ws \in Text, Splits(x, ws) PROVE Bare(x) = Bare(ws)
BY DEF Splits, Bare

\* They are the text when no sentence is cut through the midst of a word.
LEMMA SplitsUncut ==
    ASSUME NEW x \in Text, NEW ws \in Text, Splits(x, ws), Uncut(ws) PROVE x = ws
<1>1. x \in Seq(Glyphs) /\ ws \in Seq(Glyphs) /\ Len(x) = Len(ws) /\ Len(ws) \in Nat
    BY DEF Text, Splits
<1>2. ASSUME NEW k \in 1..Len(ws) PROVE x[k] = ws[k]
    <2>1. x[k].char = ws[k].char /\ (x[k].glued => ws[k].glued)
        BY DEF Splits
    <2>2. ws[k].glued => x[k].glued
        BY DEF Splits, Uncut
    <2>3. x[k] \in Glyphs /\ ws[k] \in Glyphs
        BY <1>1
    <2>4. \A g \in Glyphs : g = [char |-> g.char, glued |-> g.glued] /\ g.glued \in BOOLEAN
        BY DEF Glyphs
    <2>5. x[k].glued = ws[k].glued
        BY <2>1, <2>2, <2>3, <2>4
    <2> QED BY <2>1, <2>3, <2>4, <2>5
<1> QED BY <1>1, <1>2

\* Texts that differ in nothing but words that the slices of a long sentence cut.
SameText(text1, text2) ==
    /\ Bare(text1) = Bare(text2)
    /\ Uncut(text1) /\ Uncut(text2) => Tokens(text1) = Tokens(text2)

\* When the comparison found no candidate, the documents have the same text.
LEMMA NothingFound ==
    ASSUME DiffInv, AllCompared, Len(Candidates) = 0
    PROVE  SameText(DocText(doc1), DocText(doc2))
<1>1. CASE LiteralKey(doc1) = LiteralKey(doc2)
    BY <1>1 DEF LiteralKey, SameText
<1>2. CASE ~(LiteralKey(doc1) = LiteralKey(doc2))
    <2> DEFINE n == Len(compared)
               ps == [k \in 1..n |-> compared[k].pair]
               cs == [k \in 1..n |-> compared[k].candidates]
               C == Seq(CandidateSet)
    <2>1. /\ BlocksWithText(blocks1, DocText(doc1)) /\ BlocksWithText(blocks2, DocText(doc2))
          /\ aligned = <<>> /\ MadeOf(PairsOf(compared, aligned), blocks1, blocks2)
        BY <1>2 DEF AllCompared
    <2>2. n \in Nat /\ \A k \in 1..n : compared[k] \in ComparedSet
        BY DEF DiffInv
    <2>3. \A k \in 1..n : /\ compared[k].pair \in PairSet /\ compared[k].candidates \in C
                          /\ compared[k].candidates = PairCandidates(compared[k].pair)
        BY <2>2 DEF ComparedSet
    <2> HIDE DEF C
    <2>4. ps \in Seq(PairSet) /\ cs \in Seq(C) /\ Len(ps) = n /\ Len(cs) = n
        BY <2>2, <2>3
    <2>5. PairsOf(compared, aligned) = ps
        <3>1. PairsOf(compared, aligned) = ps \o <<>>
            BY <2>1 DEF PairsOf
        <3> HIDE DEF ps
        <3> QED BY <2>4, <3>1, ConcatEmptySeq
    <2>6. Lefts(ps) = blocks1 /\ Rights(ps) = blocks2
        BY <2>1, <2>5 DEF MadeOf
    <2>7. FlattenSeq(cs) = <<>>
        <3>1. Candidates = FlattenSeq(cs)
            BY DEF Candidates
        <3> HIDE DEF cs
        <3>2. Candidates \in Seq(CandidateSet)
            BY <2>4, <3>1, FlatType DEF C
        <3> QED BY <3>1, <3>2
    <2>8. ASSUME NEW k \in 1..n PROVE SameTokens(ps[k])
        <3>1. cs[k] = <<>>
            <4> HIDE DEF cs, n
            <4> QED BY <2>4, <2>7, FlatNothing DEF C
        <3>2. PairCandidates(compared[k].pair) = <<>>
            BY <2>3, <3>1
        <3> QED BY <2>3, <3>2, NoCandidateSame
    <2> HIDE DEF ps, n
    <2>9. Tokens(Words(Lefts(ps))) = Tokens(Words(Rights(ps)))
        BY <2>4, <2>8, PairsSame
    <2> DEFINE x1 == Words(blocks1)
               x2 == Words(blocks2)
               text1 == DocText(doc1)
               text2 == DocText(doc2)
    <2>10. x1 \in Text /\ x2 \in Text /\ text1 \in Text /\ text2 \in Text
        BY <2>1, WordsType, DocTextType DEF BlocksWithText, DiffInv
    <2>11. Splits(x1, text1) /\ Splits(x2, text2) /\ Tokens(x1) = Tokens(x2)
        BY <2>1, <2>6, <2>9 DEF BlocksWithText
    <2> HIDE DEF x1, x2, text1, text2
    <2>12. Bare(x1) = Bare(x2)
        BY <2>10, <2>11, TokensSpell
    <2>13. Bare(x1) = Bare(text1) /\ Bare(x2) = Bare(text2)
        BY <2>10, <2>11, SplitsSpell
    <2>14. ASSUME Uncut(text1), Uncut(text2) PROVE Tokens(text1) = Tokens(text2)
        <3>1. x1 = text1 /\ x2 = text2
            BY <2>10, <2>11, <2>14, SplitsUncut
        <3> QED BY <2>11, <3>1
    <2> QED BY <2>12, <2>13, <2>14 DEF SameText, text1, text2
<1> QED BY <1>1, <1>2

\* The verdict "identical" is true of the documents, once soft hyphens and the hyphens
\* at the ends of lines are away: cutting, aligning, comparing, grouping, doubles and
\* what the model says hide no difference of their characters, nor of their words where
\* no sentence is longer than a block may be (compare_pages, DocumentComparator.compare).
THEOREM IdenticalIsTrue == Spec => []IdenticalMeansSame
<1>1. ComparisonInv => IdenticalMeansSame
    <2> SUFFICES ASSUME ComparisonInv, stage = "done", Verdict = "identical"
                 PROVE  SameText(DocText(doc1), DocText(doc2))
        BY DEF IdenticalMeansSame, SameText
    <2>1. Output = {}
        BY DEF Verdict
    <2>2. EveryCandidateVisible
        BY DEF ComparisonInv, ClassifierInv, VisibleInv
    <2>3. Ids = {}
        BY <2>1, <2>2 DEF EveryCandidateVisible
    <2>4. Len(Candidates) = 0
        BY <2>3 DEF ComparisonInv
    <2>5. DiffInv /\ AllCompared
        BY DEF ComparisonInv
    <2> QED BY <2>4, <2>5, NothingFound
<1> QED BY <1>1, ComparisonInvariant, PTL
=============================================================================
