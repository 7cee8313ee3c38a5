-------------------------- MODULE ClassifierProofs --------------------------
(***************************************************************************)
(* Proofs about Classifier, for any candidates, any reach of the evidence, *)
(* any limit of a batch and any answers of the language model.             *)
(***************************************************************************)
EXTENDS Classifier, WellFoundedInduction, FiniteSetTheorems, TLAPS

Numbered == \E n \in Nat : Ids = 1..n

LEMMA IdsAreNaturals == Numbered => Ids \subseteq Nat
<1> SUFFICES ASSUME Numbered PROVE Ids \subseteq Nat
    OBVIOUS
<1>1. PICK n \in Nat : Ids = 1..n
    BY DEF Numbered
<1> QED BY <1>1

\* First is the least of the numbers that it is asked about.
LEMMA FirstIsLeast ==
    ASSUME NEW ids, ids \subseteq Nat, ids # {}
    PROVE  First(ids) \in ids /\ \A j \in ids : First(ids) <= j
<1>1. PICK i \in ids : \A j \in ids : ~(<<j, i>> \in OpToRel(<, Nat))
    BY WFMin, NatLessThanWellFounded, Zenon
<1>2. \A j \in ids : ~(j < i)
    BY <1>1, Zenon DEF OpToRel
<1>3. \A j \in ids : i <= j
    BY <1>2
<1>4. \E k \in ids : \A j \in ids : k <= j
    BY <1>3
<1> QED BY <1>4 DEF First

LEMMA FirstOfGroup ==
    ASSUME Numbered, NEW i \in Ids
    PROVE  First(Group(i)) \in Group(i) /\ First(Group(i)) \in Nat
<1>1. Group(i) \subseteq Nat /\ i \in Group(i)
    BY IdsAreNaturals DEF Group
<1> QED BY <1>1, FirstIsLeast

-----------------------------------------------------------------------------
(* What is technical *)

TechnicalRule(i) ==
    \/ candidates[i].artefact
    \/ candidates[i].vanishes
    \/ \E j \in Group(i) : j + Reach <= i /\ candidates[j].vanishes

\* The rules call a candidate technical for its own sake, or with its group, of which
\* at least the first change vanishes.
LEMMA RulesAreProven ==
    ASSUME Numbered, NEW i \in Ids, i \notin Undecided
    PROVE  TechnicalRule(i) /\ Deterministic(i).category = "technical"
<1>1. Deterministic(i) # NoDecision
    BY DEF Undecided
<1>2. CASE GroupTechnical(i)
    <2> DEFINE f == First(Group(i))
    <2>1. f \in Group(i) /\ f \in Nat /\ i \in Nat /\ Reach \in Nat /\ Reach > 0
        BY FirstOfGroup, IdsAreNaturals, ClassifierAssumption
    <2>2. i \in Group(i)
        BY DEF Group
    <2>3. \A j \in Group(i) : j < f + Reach => candidates[j].vanishes
        BY <1>2 DEF GroupTechnical
    <2>4. candidates[f].vanishes
        BY <2>1, <2>3
    <2>5. i < f + Reach \/ f + Reach <= i
        BY <2>1
    <2>6. TechnicalRule(i)
        BY <2>1, <2>2, <2>3, <2>4, <2>5 DEF TechnicalRule
    <2> QED BY <1>2, <2>6 DEF Deterministic, Decision
<1>3. CASE ~GroupTechnical(i)
    BY <1>1, <1>3 DEF Deterministic, Decision, TechnicalRule
<1> QED BY <1>2, <1>3

\* What passes the gate is not technical.
LEMMA GateHidesNothing ==
    ASSUME NEW i, NEW d
    PROVE  /\ SafetyGate(i, d).category # "technical"
           /\ SafetyGate(i, d).category = "alignment_error" => d.category = "alignment_error"
BY DEF SafetyGate, Decision

LEMMA FinalIsProven ==
    ASSUME Numbered, NEW i \in Ids, Final(i).category = "technical"
    PROVE  TechnicalRule(i)
<1>1. CASE i \notin Undecided
    BY <1>1, RulesAreProven
<1>2. CASE i \in Undecided
    BY <1>2, GateHidesNothing DEF Final, Decision
<1> QED BY <1>1, <1>2

\* Of all steps only StoreDecisions writes to diff_candidates.
LEMMA StepsKeepStored ==
    ASSUME [Classify]_classifierVars
    PROVE  /\ UNCHANGED candidates
           /\ UNCHANGED stored \/ StoreDecisions
BY DEF Classify, classifierVars, Sort, RecordBatch, ChatRetries, ChatRaises, ChatAnswers,
       CompleteBatch, RetryAlignment, StoreDecisions, StoreRaises

ProvenInv == Numbered /\ TechnicalIsProven

LEMMA ProvenStep ==
    ASSUME ProvenInv, [Classify]_classifierVars PROVE ProvenInv'
<1>1. UNCHANGED candidates /\ (UNCHANGED stored \/ StoreDecisions)
    BY StepsKeepStored
<1>2. Numbered'
    BY <1>1 DEF ProvenInv, Numbered, Ids
<1>3. CASE UNCHANGED stored
    BY <1>1, <1>2, <1>3 DEF ProvenInv, TechnicalIsProven, Ids, Group
<1>4. CASE StoreDecisions
    <2>1. stored' = [i \in Ids |-> Final(i)]
        BY <1>4 DEF StoreDecisions
    <2>2. ASSUME NEW i \in Ids, stored'[i].category = "technical"
          PROVE  TechnicalRule(i)
        BY <2>1, <2>2, FinalIsProven DEF ProvenInv
    <2> QED
        BY <1>1, <1>2, <2>2 DEF ProvenInv, TechnicalIsProven, TechnicalRule, Ids, Group
<1> QED BY <1>1, <1>3, <1>4

\* Nothing is hidden as technical on the word of the model: of every run of classify,
\* whatever the model answers, a candidate stored as technical has a rule for itself,
\* or one for its group as far as the evidence text reaches.
THEOREM NothingHidden == ClassifierSpec => []TechnicalIsProven
<1>1. ClassifierInit => ProvenInv
    BY DEF ClassifierInit, ProvenInv, Numbered, TechnicalIsProven
<1>2. ProvenInv /\ [Classify]_classifierVars => ProvenInv'
    BY ProvenStep
<1>3. ProvenInv => TechnicalIsProven
    BY DEF ProvenInv
<1> QED BY <1>1, <1>2, <1>3, PTL DEF ClassifierSpec

-----------------------------------------------------------------------------
(* How often a candidate is asked about *)

\* The rows of candidate i.
Asked(i) == {n \in DOMAIN rows : i \in rows[n].ids}

AtMostOne(S) == \A m, n \in S : m = n
AtMostTwo(S) == \A k, m, n \in S : k = m \/ m = n \/ k = n

LEMMA CardinalityOfTwo ==
    ASSUME NEW S, AtMostTwo(S) PROVE Cardinality(S) <= 2
<1>1. CASE S = {}
    BY <1>1, FS_EmptySet
<1>2. CASE S # {}
    <2>1. PICK a \in S : TRUE
        BY <1>2
    <2>2. PICK b \in S : S \subseteq {a, b}
        <3>1. CASE S \subseteq {a}
            BY <2>1, <3>1
        <3>2. CASE ~(S \subseteq {a})
            <4>1. PICK b \in S : b # a
                BY <3>2
            <4>2. S \subseteq {a, b}
                BY <2>1, <4>1 DEF AtMostTwo
            <4> QED BY <4>1, <4>2
        <3> QED BY <3>1, <3>2
    <2>3. IsFiniteSet({a}) /\ Cardinality({a}) = 1
        BY FS_Singleton
    <2>4. IsFiniteSet({a} \cup {b}) /\ Cardinality({a} \cup {b}) <= 2
        BY <2>3, FS_AddElement
    <2>5. S \subseteq {a} \cup {b}
        BY <2>2
    <2>6. Cardinality(S) <= Cardinality({a} \cup {b}) /\ Cardinality(S) \in Nat
        BY <2>4, <2>5, FS_Subset, FS_CardinalityType
    <2>7. Cardinality({a} \cup {b}) \in Nat
        BY <2>4, FS_CardinalityType
    <2> QED BY <2>4, <2>6, <2>7
<1> QED BY <1>1, <1>2

\* The rows are numbered through, and who is still to be asked in this round has one
\* row less than the round allows.
RowsInv ==
    /\ round \in {"first", "retry"}
    /\ index \in Nat
    /\ DOMAIN rows = 1..index
    /\ todo \subseteq pending
    /\ batch \subseteq pending
    /\ stage = "new" => index = 0 /\ round = "first" /\ batch = {}
    /\ round = "first" => \A i : AtMostOne(Asked(i)) /\ (i \in todo => Asked(i) = {})
    /\ round = "retry" => \A i : AtMostTwo(Asked(i)) /\ (i \in todo => AtMostOne(Asked(i)))

LEMMA RowsInit == ClassifierInit => RowsInv
BY DEF ClassifierInit, NothingDone, RowsInv, Asked, AtMostOne

LEMMA RowsRecord ==
    ASSUME RowsInv, RecordBatch PROVE RowsInv'
<1>1. PICK taken \in SUBSET todo :
          /\ batch' = taken
          /\ todo' = todo \ taken
          /\ index' = index + 1
          /\ rows' = [n \in DOMAIN rows \cup {index + 1} |->
                        IF n = index + 1 THEN [ids |-> taken, parse_ok |-> FALSE]
                                         ELSE rows[n]]
    BY DEF RecordBatch, NextIndex
<1>2. round' = round /\ pending' = pending /\ stage' = "ask"
    BY DEF RecordBatch
<1>3. index \in Nat /\ DOMAIN rows = 1..index /\ todo \subseteq pending
    BY DEF RowsInv
<1>4. index' \in Nat /\ DOMAIN rows' = 1..index'
    BY <1>1, <1>3
<1>5. ASSUME NEW i
      PROVE  Asked(i)' = IF i \in taken THEN Asked(i) \cup {index + 1} ELSE Asked(i)
    <2>1. index + 1 \notin DOMAIN rows
        BY <1>3
    <2>2. ASSUME NEW n \in DOMAIN rows PROVE n \in DOMAIN rows' /\ rows'[n] = rows[n]
        BY <1>1, <2>1
    <2>3. index + 1 \in DOMAIN rows' /\ rows'[index + 1].ids = taken
        BY <1>1
    <2>4. DOMAIN rows' = DOMAIN rows \cup {index + 1}
        BY <1>1
    <2> QED BY <2>1, <2>2, <2>3, <2>4 DEF Asked
<1>6. ASSUME round = "first", NEW i
      PROVE  AtMostOne(Asked(i)') /\ (i \in todo' => Asked(i)' = {})
    <2>1. AtMostOne(Asked(i)) /\ (i \in todo => Asked(i) = {})
        BY <1>6 DEF RowsInv
    <2> QED BY <1>1, <1>5, <2>1 DEF AtMostOne
<1>7. ASSUME round = "retry", NEW i
      PROVE  AtMostTwo(Asked(i)') /\ (i \in todo' => AtMostOne(Asked(i)'))
    <2>1. AtMostTwo(Asked(i)) /\ (i \in todo => AtMostOne(Asked(i)))
        BY <1>7 DEF RowsInv
    <2> QED BY <1>1, <1>5, <2>1 DEF AtMostOne, AtMostTwo
<1> QED BY <1>1, <1>2, <1>3, <1>4, <1>6, <1>7 DEF RowsInv, AtMostOne, AtMostTwo

LEMMA RowsStep ==
    ASSUME RowsInv, [Classify]_classifierVars PROVE RowsInv'
<1>1. CASE Sort
    <2>1. round = "first" /\ DOMAIN rows = {} /\ todo' = pending'
        BY <1>1 DEF Sort, RowsInv
    <2>2. UNCHANGED <<round, index, rows>> /\ stage' = "record" /\ batch' = batch
        BY <1>1 DEF Sort
    <2>3. batch = {}
        BY <1>1 DEF Sort, RowsInv
    <2> QED BY <2>1, <2>2, <2>3 DEF RowsInv, Asked, AtMostOne
<1>2. CASE RecordBatch
    BY <1>2, RowsRecord
<1>3. CASE ChatRetries
    BY <1>3 DEF ChatRetries, RowsInv, Asked, AtMostOne, AtMostTwo
<1>4. CASE ChatRaises
    BY <1>4 DEF ChatRaises, RowsInv, Asked, AtMostOne, AtMostTwo
<1>5. CASE ChatAnswers
    BY <1>5 DEF ChatAnswers, RowsInv, Asked, AtMostOne, AtMostTwo
<1>6. CASE CompleteBatch
    <2>1. DOMAIN rows' = DOMAIN rows /\ \A n \in DOMAIN rows : rows'[n].ids = rows[n].ids
        BY <1>6 DEF CompleteBatch
    <2>2. \A i : Asked(i)' = Asked(i)
        BY <2>1 DEF Asked
    <2>3. UNCHANGED <<round, index, todo, pending>> /\ batch' = {} /\ stage' = "record"
        BY <1>6 DEF CompleteBatch
    <2> QED BY <2>1, <2>2, <2>3 DEF RowsInv, AtMostOne, AtMostTwo
<1>7. CASE RetryAlignment
    <2>1. round = "first" /\ round' = "retry" /\ todo' \subseteq pending
        BY <1>7 DEF RetryAlignment, Misaligned
    <2>2. UNCHANGED <<stage, index, rows, pending, batch>> /\ stage = "record"
        BY <1>7 DEF RetryAlignment
    <2>3. \A i : AtMostOne(Asked(i)) /\ Asked(i)' = Asked(i)
        BY <2>1, <2>2 DEF RowsInv, Asked
    <2>4. \A i : AtMostTwo(Asked(i))' /\ AtMostOne(Asked(i))'
        BY <2>3 DEF AtMostOne, AtMostTwo
    <2>5. round' = "retry" /\ round' # "first" /\ stage' # "new"
        BY <2>1, <2>2
    <2>6. /\ index' \in Nat /\ DOMAIN rows' = 1..index'
          /\ todo' \subseteq pending' /\ batch' \subseteq pending'
        BY <2>1, <2>2 DEF RowsInv
    <2> QED BY <2>4, <2>5, <2>6 DEF RowsInv
<1>8. CASE StoreDecisions
    BY <1>8 DEF StoreDecisions, RowsInv, Asked, AtMostOne, AtMostTwo
<1>9. CASE StoreRaises
    BY <1>9 DEF StoreRaises, RowsInv, Asked, AtMostOne, AtMostTwo
<1>10. CASE UNCHANGED classifierVars
    BY <1>10 DEF classifierVars, RowsInv, Asked, AtMostOne, AtMostTwo
<1> QED BY <1>1, <1>2, <1>3, <1>4, <1>5, <1>6, <1>7, <1>8, <1>9, <1>10 DEF Classify

-----------------------------------------------------------------------------
(* What is misaligned *)

\* In the second round only what has not been asked again may be misaligned.
SettledInv ==
    /\ Numbered
    /\ RowsInv
    /\ round = "retry" =>
          \A i \in pending \cap Ids : llm[i].category = "alignment_error" =>
              i \in todo \/ (stage = "ask" /\ i \in batch)
    /\ stage = "done" => \A i \in Ids : stored[i].category # "alignment_error"

\* A decision of the second round is not misaligned.
LEMMA RetryDecides ==
    /\ AfterRetry(Fallback).category # "alignment_error"
    /\ \A raw, i : AfterRetry(Parsed(raw, i)).category # "alignment_error"
BY DEF AfterRetry, Fallback, Parsed, Decision

LEMMA DecideSettles ==
    ASSUME NEW f, round = "retry", Decide(f), UNCHANGED candidates,
           \A i \in batch : AfterRetry(f[i]).category # "alignment_error"
    PROVE  \A i \in Ids : IF i \in batch THEN llm'[i].category # "alignment_error"
                                         ELSE llm'[i] = llm[i]
BY DEF Decide

LEMMA FinalIsAligned ==
    ASSUME Numbered, NEW i \in Ids, i \in pending => llm[i].category # "alignment_error"
    PROVE  Final(i).category # "alignment_error"
<1>1. CASE i \notin Undecided
    BY <1>1, RulesAreProven DEF Final
<1>2. CASE i \in Undecided
    BY <1>2, GateHidesNothing DEF Final, Decision
<1> QED BY <1>1, <1>2

LEMMA SettledStep ==
    ASSUME SettledInv, [Classify]_classifierVars PROVE SettledInv'
<1>1. UNCHANGED candidates
    BY StepsKeepStored
<1>2. Numbered' /\ RowsInv' /\ Ids' = Ids
    BY <1>1, RowsStep DEF SettledInv, Numbered, Ids
<1> USE <1>1, <1>2
<1>3. CASE Sort
    BY <1>3 DEF Sort, SettledInv, RowsInv
<1>4. CASE RecordBatch
    BY <1>4 DEF RecordBatch, SettledInv
<1>5. CASE ChatRetries
    BY <1>5 DEF ChatRetries, SettledInv
<1>6. CASE ChatRaises
    <2>1. \A i \in batch : AfterRetry([j \in batch |-> Fallback][i]).category # "alignment_error"
        BY RetryDecides
    <2>2. Decide([j \in batch |-> Fallback])
        BY <1>6 DEF ChatRaises
    <2>3. round = "retry" =>
              \A i \in Ids : IF i \in batch THEN llm'[i].category # "alignment_error"
                                            ELSE llm'[i] = llm[i]
        BY <2>1, <2>2, DecideSettles
    <2>4. UNCHANGED <<round, pending, todo>> /\ stage' = "log"
        BY <1>6 DEF ChatRaises
    <2> QED BY <2>3, <2>4 DEF SettledInv
<1>7. CASE ChatAnswers
    <2>1. PICK raw \in Answers :
              Decide([i \in batch |-> IF ValidBatch(raw) THEN Parsed(raw, i) ELSE Fallback])
        BY <1>7 DEF ChatAnswers
    <2>2. \A i \in batch :
              AfterRetry([j \in batch |-> IF ValidBatch(raw) THEN Parsed(raw, j)
                                                             ELSE Fallback][i]).category
                  # "alignment_error"
        BY RetryDecides
    <2>3. round = "retry" =>
              \A i \in Ids : IF i \in batch THEN llm'[i].category # "alignment_error"
                                            ELSE llm'[i] = llm[i]
        BY <2>1, <2>2, DecideSettles
    <2>4. UNCHANGED <<round, pending, todo>> /\ stage' = "log"
        BY <1>7 DEF ChatAnswers
    <2> QED BY <2>3, <2>4 DEF SettledInv
<1>8. CASE CompleteBatch
    BY <1>8 DEF CompleteBatch, SettledInv
<1>9. CASE RetryAlignment
    BY <1>9 DEF RetryAlignment, Misaligned, SettledInv
<1>10. CASE StoreDecisions
    <2>1. ASSUME NEW i \in Ids, i \in pending PROVE llm[i].category # "alignment_error"
        <3>1. CASE round = "first"
            BY <1>10, <2>1, <3>1 DEF StoreDecisions, Misaligned
        <3>2. CASE round = "retry"
            BY <1>10, <2>1, <3>2 DEF StoreDecisions, SettledInv
        <3> QED BY <3>1, <3>2 DEF SettledInv, RowsInv
    <2>2. \A i \in Ids : Final(i).category # "alignment_error"
        BY <2>1, FinalIsAligned DEF SettledInv
    <2>3. \A i \in Ids : stored'[i].category # "alignment_error"
        BY <1>10, <2>2 DEF StoreDecisions
    <2> QED BY <1>10, <2>3 DEF StoreDecisions, SettledInv
<1>11. CASE StoreRaises
    BY <1>11 DEF StoreRaises, SettledInv
<1>12. CASE UNCHANGED classifierVars
    BY <1>12 DEF classifierVars, SettledInv
<1> QED BY <1>3, <1>4, <1>5, <1>6, <1>7, <1>8, <1>9, <1>10, <1>11, <1>12 DEF Classify

LEMMA SettledImplies == SettledInv => MisalignedIsSettled
<1> SUFFICES ASSUME SettledInv PROVE MisalignedIsSettled
    OBVIOUS
<1>1. \A i : AtMostTwo(Asked(i))
    BY DEF SettledInv, RowsInv, AtMostOne, AtMostTwo
<1>2. \A i : Cardinality(Asked(i)) <= 2
    BY <1>1, CardinalityOfTwo
<1> QED BY <1>2 DEF SettledInv, MisalignedIsSettled, Asked

\* The retry of misaligned candidates ends: whatever the model answers and however the
\* batches are cut, no candidate is asked about a third time and none is stored as
\* misaligned.
THEOREM RetryEnds == ClassifierSpec => []MisalignedIsSettled
<1>1. ClassifierInit => SettledInv
    BY RowsInit DEF ClassifierInit, NothingDone, SettledInv, Numbered
<1>2. SettledInv /\ [Classify]_classifierVars => SettledInv'
    BY SettledStep
<1>3. SettledInv => MisalignedIsSettled
    BY SettledImplies
<1> QED BY <1>1, <1>2, <1>3, PTL DEF ClassifierSpec

-----------------------------------------------------------------------------
(* What the rows say *)

Unparsed == {n \in DOMAIN rows : ~rows[n].parse_ok}

ByModel(i) == llm[i].classified_by # "fallback"

\* The last row of candidate i says how it was decided, once it is complete.
Told(i) ==
    \E n \in Asked(i) :
        /\ \A m \in Asked(i) : m <= n
        /\ i \notin batch => (rows[n].parse_ok <=> ByModel(i))
        /\ i \in batch /\ stage = "log" => (answered <=> ByModel(i))

\* The row of the batch being asked is not counted until its answer is known.
LogInv ==
    /\ RowsInv
    /\ pending \subseteq Ids
    /\ stage \in {"ask", "log"} =>
          index \in DOMAIN rows /\ rows[index] = [ids |-> batch, parse_ok |-> FALSE]
    /\ stage \in {"record", "done"} => batch = {}
    /\ stage # "failed" =>
          /\ stage \in {"new", "record", "done"} => failures = Cardinality(Unparsed)
          /\ stage = "ask" => failures = Cardinality(Unparsed \ {index})
          /\ stage = "log" =>
                failures = Cardinality(IF answered THEN Unparsed \ {index} ELSE Unparsed)
          /\ \A i \in pending : (round = "first" /\ i \in todo) \/ Told(i)
    /\ stage \in {"new", "record", "ask", "log", "done", "failed"}
    /\ stage = "done" => todo = {}

LEMMA UnparsedIsFinite ==
    ASSUME RowsInv PROVE IsFiniteSet(Unparsed) /\ Unparsed \subseteq 1..index
<1>1. index \in Nat /\ DOMAIN rows = 1..index
    BY DEF RowsInv
<1>2. IsFiniteSet(1..index)
    BY <1>1, FS_Interval
<1>3. Unparsed \subseteq 1..index
    BY <1>1 DEF Unparsed
<1> QED BY <1>2, <1>3, FS_Subset

LEMMA LogInit == ClassifierInit => LogInv
<1> SUFFICES ASSUME ClassifierInit PROVE LogInv
    OBVIOUS
<1>1. RowsInv
    BY RowsInit
<1>2. Unparsed = {}
    BY DEF ClassifierInit, NothingDone, Unparsed
<1>3. failures = Cardinality(Unparsed)
    BY <1>2, FS_EmptySet DEF ClassifierInit, NothingDone
<1> QED BY <1>1, <1>3 DEF ClassifierInit, NothingDone, LogInv

LEMMA LogRecord ==
    ASSUME LogInv, RecordBatch, RowsInv' PROVE LogInv'
<1>1. PICK taken \in SUBSET todo :
          /\ batch' = taken
          /\ todo' = todo \ taken
          /\ index' = index + 1
          /\ rows' = [n \in DOMAIN rows \cup {index + 1} |->
                        IF n = index + 1 THEN [ids |-> taken, parse_ok |-> FALSE]
                                         ELSE rows[n]]
    BY DEF RecordBatch, NextIndex
<1>2. /\ UNCHANGED <<candidates, round, pending, failures, llm>>
      /\ stage = "record" /\ stage' = "ask"
    BY DEF RecordBatch
<1>3. index \in Nat /\ DOMAIN rows = 1..index
    BY DEF LogInv, RowsInv
<1>4. /\ DOMAIN rows' = DOMAIN rows \cup {index'}
      /\ index' \notin DOMAIN rows
      /\ rows'[index'] = [ids |-> taken, parse_ok |-> FALSE]
      /\ \A n \in DOMAIN rows : rows'[n] = rows[n]
    BY <1>1, <1>3
<1>5. Unparsed' \ {index'} = Unparsed
    BY <1>4 DEF Unparsed
<1>6. failures' = Cardinality(Unparsed' \ {index'})
    BY <1>2, <1>5 DEF LogInv
<1>7. ASSUME NEW i \in pending
      PROVE  (round = "first" /\ i \in todo') \/ Told(i)'
    <2>1. CASE i \in taken
        <3>1. index' \in Asked(i)'
            BY <1>4, <2>1 DEF Asked
        <3>2. \A m \in Asked(i)' : m <= index'
            BY <1>1, <1>3, <1>4 DEF Asked
        <3> QED BY <1>1, <1>2, <2>1, <3>1, <3>2 DEF Told
    <2>2. CASE i \notin taken
        <3>1. Asked(i)' = Asked(i)
            BY <1>4, <2>2 DEF Asked
        <3>2. CASE round = "first" /\ i \in todo
            BY <1>1, <2>2, <3>2
        <3>3. CASE Told(i)
            <4>1. PICK n \in Asked(i) :
                      /\ \A m \in Asked(i) : m <= n
                      /\ i \notin batch => (rows[n].parse_ok <=> ByModel(i))
                BY <3>3 DEF Told
            <4>2. i \notin batch
                BY <1>2 DEF LogInv
            <4>3. n \in DOMAIN rows /\ rows'[n] = rows[n]
                BY <1>4 DEF Asked
            <4>4. rows'[n].parse_ok <=> ByModel(i)'
                BY <1>2, <4>1, <4>2, <4>3 DEF ByModel
            <4> QED BY <1>1, <2>2, <3>1, <4>1, <4>4 DEF Told
        <3> QED BY <1>2, <3>2, <3>3 DEF LogInv
    <2> QED BY <2>1, <2>2
<1>8. Ids' = Ids /\ index' \in DOMAIN rows' /\ rows'[index'] = [ids |-> batch', parse_ok |-> FALSE]
    BY <1>1, <1>2, <1>4 DEF Ids
<1> QED BY <1>2, <1>6, <1>7, <1>8 DEF LogInv

\* A request that ended: who is in the batch is decided as the answer was.
LEMMA LogDecided ==
    ASSUME LogInv, RowsInv', stage = "ask", stage' = "log", answered' \in BOOLEAN,
           UNCHANGED <<candidates, round, pending, todo, batch, index, rows>>,
           failures' = IF answered' THEN failures ELSE failures + 1,
           \A i \in Ids : IF i \in batch THEN ByModel(i)' <=> answered'
                                         ELSE llm'[i] = llm[i]
    PROVE  LogInv'
<1>1. index \in DOMAIN rows /\ rows[index] = [ids |-> batch, parse_ok |-> FALSE]
    BY DEF LogInv
<1>2. failures = Cardinality(Unparsed \ {index}) /\ Unparsed' = Unparsed
    BY DEF LogInv, Unparsed
<1>3. index \in Unparsed /\ IsFiniteSet(Unparsed)
    BY <1>1, UnparsedIsFinite DEF Unparsed, LogInv
<1>4. Cardinality(Unparsed) = Cardinality(Unparsed \ {index}) + 1
    <2>1. IsFiniteSet(Unparsed \ {index}) /\ Cardinality(Unparsed \ {index}) = Cardinality(Unparsed) - 1
        BY <1>3, FS_RemoveElement
    <2>2. Cardinality(Unparsed) \in Nat
        BY <1>3, FS_CardinalityType
    <2> QED BY <2>1, <2>2
<1>5. failures' = Cardinality(IF answered' THEN Unparsed' \ {index'} ELSE Unparsed')
    <2>1. CASE answered'
        BY <1>2, <2>1
    <2>2. CASE ~answered'
        BY <1>2, <1>4, <2>2
    <2> QED BY <2>1, <2>2
<1>6. ASSUME NEW i \in pending, Told(i)
      PROVE  Told(i)'
    <2>1. PICK n \in Asked(i) :
              /\ \A m \in Asked(i) : m <= n
              /\ i \notin batch => (rows[n].parse_ok <=> ByModel(i))
        BY <1>6 DEF Told
    <2>2. i \in Ids
        BY DEF LogInv
    <2>3. i \notin batch => (ByModel(i)' <=> ByModel(i))
        BY <2>2 DEF ByModel
    <2>4. i \in batch => (ByModel(i)' <=> answered')
        BY <2>2
    <2>5. Asked(i)' = Asked(i)
        BY DEF Asked
    <2> QED BY <2>1, <2>3, <2>4, <2>5 DEF Told
<1>7. \A i \in pending' : (round' = "first" /\ i \in todo') \/ Told(i)'
    BY <1>6 DEF LogInv
<1>8. Ids' = Ids
    BY DEF Ids
<1> QED BY <1>1, <1>5, <1>7, <1>8 DEF LogInv

LEMMA DecisionsTell ==
    /\ ~(AfterRetry(Fallback).classified_by # "fallback")
    /\ ~(Fallback.classified_by # "fallback")
    /\ \A raw, i : AfterRetry(Parsed(raw, i)).classified_by # "fallback"
    /\ \A raw, i : Parsed(raw, i).classified_by # "fallback"
BY DEF AfterRetry, Fallback, Parsed, Decision

LEMMA LogComplete ==
    ASSUME LogInv, CompleteBatch, RowsInv' PROVE LogInv'
<1>1. /\ rows' = [rows EXCEPT ![index].parse_ok = answered]
      /\ UNCHANGED <<candidates, round, pending, todo, index, llm, failures>>
      /\ batch' = {} /\ stage = "log" /\ stage' = "record"
    BY DEF CompleteBatch
<1>2. index \in DOMAIN rows /\ rows[index] = [ids |-> batch, parse_ok |-> FALSE]
    BY <1>1 DEF LogInv
<1>3. /\ DOMAIN rows' = DOMAIN rows
      /\ \A n \in DOMAIN rows : n # index => rows'[n] = rows[n]
      /\ rows'[index].ids = batch
      /\ rows'[index].parse_ok = answered
    BY <1>1, <1>2
<1>4. Unparsed' = IF answered THEN Unparsed \ {index} ELSE Unparsed
    BY <1>2, <1>3 DEF Unparsed
<1>5. failures' = Cardinality(Unparsed')
    BY <1>1, <1>4 DEF LogInv
<1>6. ASSUME NEW i \in pending, Told(i)
      PROVE  Told(i)'
    <2>1. PICK n \in Asked(i) :
              /\ \A m \in Asked(i) : m <= n
              /\ i \notin batch => (rows[n].parse_ok <=> ByModel(i))
              /\ i \in batch => (answered <=> ByModel(i))
        BY <1>1, <1>6 DEF Told
    <2>2. \A m \in DOMAIN rows : rows'[m].ids = rows[m].ids
        BY <1>2, <1>3
    <2>3. Asked(i)' = Asked(i)
        BY <1>3, <2>2 DEF Asked
    <2>4. CASE i \in batch
        <3>1. index \in Asked(i)
            BY <1>2, <2>4 DEF Asked
        <3>2. n \in 1..index /\ index <= n /\ index \in Nat
            BY <2>1, <3>1 DEF Asked, LogInv, RowsInv
        <3>3. n = index
            BY <3>2
        <3>4. rows'[n].parse_ok <=> ByModel(i)'
            BY <1>1, <1>3, <2>1, <2>4, <3>3 DEF ByModel
        <3> QED BY <1>1, <2>1, <2>3, <3>4 DEF Told
    <2>5. CASE i \notin batch
        <3>1. n # index /\ n \in DOMAIN rows
            BY <1>2, <2>1, <2>5 DEF Asked
        <3>2. rows'[n].parse_ok <=> ByModel(i)'
            BY <1>1, <1>3, <2>1, <2>5, <3>1 DEF ByModel
        <3> QED BY <1>1, <2>1, <2>3, <3>2 DEF Told
    <2> QED BY <2>4, <2>5
<1>7. \A i \in pending' : (round' = "first" /\ i \in todo') \/ Told(i)'
    BY <1>1, <1>6 DEF LogInv
<1>8. Ids' = Ids
    BY <1>1 DEF Ids
<1> QED BY <1>1, <1>5, <1>7, <1>8 DEF LogInv

LEMMA ToldStays ==
    ASSUME UNCHANGED <<rows, llm, batch>>, batch = {}, NEW i, Told(i)
    PROVE  Told(i)'
BY DEF Told, Asked, ByModel

LEMMA LogStep ==
    ASSUME LogInv, [Classify]_classifierVars PROVE LogInv'
<1>1. RowsInv'
    BY RowsStep DEF LogInv
<1>2. Ids' = Ids
    BY StepsKeepStored DEF Ids
<1>3. CASE Sort
    <2>1. pending' \subseteq Ids
        BY <1>3 DEF Sort, Unique
    <2>2. Unparsed' = Unparsed /\ failures' = failures /\ batch' = batch /\ stage' = "record"
        BY <1>3 DEF Sort, Unparsed
    <2>3. batch = {} /\ round' = "first" /\ todo' = pending' /\ stage = "new"
        BY <1>3 DEF Sort, LogInv, RowsInv
    <2> QED BY <1>1, <1>2, <2>1, <2>2, <2>3 DEF LogInv
<1>4. CASE RecordBatch
    BY <1>1, <1>4, LogRecord
<1>5. CASE ChatRetries
    <2>1. UNCHANGED <<stage, round, pending, todo, batch, index, answered, llm, failures, rows>>
        BY <1>5 DEF ChatRetries
    <2> QED BY <1>1, <1>2, <2>1 DEF LogInv, Unparsed, Told, Asked, ByModel
<1>6. CASE ChatRaises
    <2>1. Decide([i \in batch |-> Fallback])
        BY <1>6 DEF ChatRaises
    <2>2. \A i \in Ids : IF i \in batch THEN ByModel(i)' <=> FALSE
                                        ELSE llm'[i] = llm[i]
        BY <2>1, DecisionsTell DEF Decide, ByModel
    <2> QED BY <1>1, <1>6, <2>2, LogDecided DEF ChatRaises
<1>7. CASE ChatAnswers
    <2>1. PICK raw \in Answers :
              /\ Decide([i \in batch |-> IF ValidBatch(raw) THEN Parsed(raw, i) ELSE Fallback])
              /\ answered' = ValidBatch(raw)
              /\ failures' = IF ValidBatch(raw) THEN failures ELSE failures + 1
        BY <1>7 DEF ChatAnswers
    <2>2. ValidBatch(raw) \in BOOLEAN
        BY DEF ValidBatch
    <2>3. \A i \in Ids : IF i \in batch THEN ByModel(i)' <=> ValidBatch(raw)
                                        ELSE llm'[i] = llm[i]
        BY <2>1, DecisionsTell DEF Decide, ByModel
    <2> QED BY <1>1, <1>7, <2>1, <2>2, <2>3, LogDecided DEF ChatAnswers
<1>8. CASE CompleteBatch
    BY <1>1, <1>8, LogComplete
<1>9. CASE RetryAlignment
    <2>1. /\ UNCHANGED <<stage, pending, batch, index, llm, failures, rows>>
          /\ stage = "record" /\ todo = {}
        BY <1>9 DEF RetryAlignment
    <2>2. Unparsed' = Unparsed /\ batch = {}
        BY <2>1 DEF Unparsed, LogInv
    <2>3. \A i \in pending : Told(i)'
        BY <2>1, <2>2, ToldStays DEF LogInv
    <2> QED BY <1>1, <1>2, <2>1, <2>2, <2>3 DEF LogInv
<1>10. CASE StoreDecisions
    <2>1. /\ UNCHANGED <<round, pending, todo, batch, index, llm, failures, rows>>
          /\ stage = "record" /\ todo = {} /\ stage' = "done"
        BY <1>10 DEF StoreDecisions
    <2>2. Unparsed' = Unparsed /\ batch = {}
        BY <2>1 DEF Unparsed, LogInv
    <2>3. \A i \in pending : Told(i)'
        BY <2>1, <2>2, ToldStays DEF LogInv
    <2> QED BY <1>1, <1>2, <2>1, <2>2, <2>3 DEF LogInv
<1>11. CASE StoreRaises
    BY <1>1, <1>2, <1>11 DEF StoreRaises, LogInv
<1>12. CASE UNCHANGED classifierVars
    BY <1>1, <1>2, <1>12 DEF classifierVars, LogInv, Unparsed, Told, Asked, ByModel
<1> QED BY <1>3, <1>4, <1>5, <1>6, <1>7, <1>8, <1>9, <1>10, <1>11, <1>12 DEF Classify

LEMMA LogImplies == LogInv => RowsTellDecisions
<1> SUFFICES ASSUME LogInv, stage = "done" PROVE RowsTellDecisions
    BY DEF RowsTellDecisions
<1>1. batch = {} /\ todo = {} /\ failures = Cardinality(Unparsed)
    BY DEF LogInv
<1>2. \A i \in pending : Told(i)
    BY <1>1 DEF LogInv
<1>3. Fallback.classified_by = "fallback"
    BY DEF Fallback, Decision
<1>4. ASSUME NEW i \in pending
      PROVE  /\ Asked(i) # {}
             /\ \E n \in Asked(i) :
                   /\ \A m \in Asked(i) : m <= n
                   /\ rows[n].parse_ok <=> Fallback.classified_by # llm[i].classified_by
    BY <1>1, <1>2, <1>3 DEF Told, ByModel
<1> QED BY <1>1, <1>4 DEF RowsTellDecisions, Unparsed, Asked

\* The log of batches is true of what was decided: however answers, failures, batches
\* and rounds fall, the last row of a candidate says whether the model decided it, and
\* the summary counts the rows that are not parsed.
THEOREM RowsAreTrue == ClassifierSpec => []RowsTellDecisions
<1>1. LogInv /\ [Classify]_classifierVars => LogInv'
    BY LogStep
<1> QED BY <1>1, LogInit, LogImplies, PTL DEF ClassifierSpec

-----------------------------------------------------------------------------
(* Doubles *)

\* Induction over the natural numbers, as a fact about sets.
LEMMA SetInduction ==
    ASSUME NEW S \in SUBSET Nat, 0 \in S, \A n \in S : n + 1 \in S
    PROVE  S = Nat
<1>1. ASSUME Nat \ S # {} PROVE FALSE
    <2>1. PICK m \in Nat \ S : \A j \in Nat \ S : ~(j < m)
        <3>1. PICK m \in Nat \ S : \A j \in Nat \ S : ~(<<j, m>> \in OpToRel(<, Nat))
            BY <1>1, WFMin, NatLessThanWellFounded, Zenon
        <3>2. \A j \in Nat \ S : ~(j < m)
            BY <3>1, Zenon DEF OpToRel
        <3> QED BY <3>2
    <2>2. m # 0
        OBVIOUS
    <2>3. m - 1 \in Nat /\ (m - 1) + 1 = m
        BY <2>2
    <2>4. m - 1 \in S
        BY <2>1, <2>3
    <2> QED BY <2>3, <2>4
<1> QED BY <1>1

\* What _dedupe_pending has kept when it comes to candidate i.
KeptOf(i, kept) ==
    /\ i \in Undecided
    /\ ~\E j \in Undecided \cap Group(i) : j < i /\ kept[j] /\ SameChange(j, i)

KeptUpTo(m, kept) == \A i \in 1..m : kept[i] = KeptOf(i, kept)

\* The loop of _dedupe_pending has a result, whatever the candidates are: each of its
\* turns looks back only.
LEMMA KeptExists ==
    ASSUME Numbered
    PROVE  \E kept : kept = [i \in Ids |-> KeptOf(i, kept)]
<1>1. PICK n \in Nat : Ids = 1..n
    BY DEF Numbered
<1> DEFINE S == {m \in Nat : \E f \in [Nat -> BOOLEAN] : KeptUpTo(m, f)}
<1>2. 0 \in S
    <2>1. KeptUpTo(0, [i \in Nat |-> FALSE])
        BY DEF KeptUpTo
    <2> QED BY <2>1
<1>3. ASSUME NEW m \in S PROVE m + 1 \in S
    <2>1. PICK f \in [Nat -> BOOLEAN] : KeptUpTo(m, f)
        OBVIOUS
    <2> DEFINE g == [i \in Nat |-> IF i = m + 1 THEN KeptOf(m + 1, f) ELSE f[i]]
    <2>2. g \in [Nat -> BOOLEAN]
        BY DEF KeptOf
    <2>3. ASSUME NEW i \in 1..(m + 1) PROVE KeptOf(i, g) = KeptOf(i, f)
        <3>1. ASSUME NEW j \in Group(i), j < i PROVE g[j] = f[j]
            <4>1. j \in Nat
                BY <3>1, IdsAreNaturals DEF Group
            <4> QED BY <3>1, <4>1
        <3> HIDE DEF g
        <3> QED BY <3>1 DEF KeptOf
    <2>4. ASSUME NEW i \in 1..(m + 1) PROVE g[i] = KeptOf(i, g)
        <3>1. CASE i = m + 1
            BY <2>3, <3>1
        <3>2. CASE i # m + 1
            BY <2>1, <2>3, <3>2 DEF KeptUpTo
        <3> QED BY <3>1, <3>2
    <2> HIDE DEF g
    <2>5. KeptUpTo(m + 1, g)
        BY <2>4 DEF KeptUpTo
    <2> QED BY <2>2, <2>5
<1>4. S = Nat
    <2> HIDE DEF S
    <2>1. S \in SUBSET Nat
        BY DEF S
    <2> QED BY <1>2, <1>3, <2>1, SetInduction
<1>5. PICK f \in [Nat -> BOOLEAN] : KeptUpTo(n, f)
    BY <1>1, <1>4
<1> DEFINE k == [i \in Ids |-> f[i]]
<1>6. \A i \in Ids : KeptOf(i, k) = KeptOf(i, f)
    BY DEF KeptOf, Group
<1>7. k = [i \in Ids |-> KeptOf(i, k)]
    BY <1>1, <1>5, <1>6 DEF KeptUpTo
<1> QED BY <1>7

LEMMA UniqueIs ==
    ASSUME Numbered
    PROVE  \A i \in Ids : i \in Unique <=>
                /\ i \in Undecided
                /\ ~\E j \in Undecided \cap Group(i) : j < i /\ j \in Unique /\ SameChange(j, i)
<1> DEFINE kept == CHOOSE f : f = [i \in Ids |-> KeptOf(i, f)]
<1>1. kept = [i \in Ids |-> KeptOf(i, kept)]
    BY KeptExists
<1>2. Unique = {i \in Ids : kept[i]}
    BY DEF Unique, KeptOf
<1> QED BY <1>1, <1>2 DEF KeptOf, Group

-----------------------------------------------------------------------------
(* What is shown *)

\* A decision that is shown to the user.
IsShown(d) == \E category \in Categories, by \in Deciders : d = Decision(category, by, TRUE)

LEMMA ShownAre ==
    ASSUME NEW category \in Categories, NEW by \in Deciders
    PROVE  IsShown(Decision(category, by, TRUE))
BY DEF IsShown

LEMMA ShownIsDecision ==
    ASSUME NEW d, IsShown(d)
    PROVE  /\ d # NoDecision /\ d.include_in_result = TRUE
           /\ IsShown(AfterRetry(d))
           /\ \A i : /\ IsShown(SafetyGate(i, d))
                     /\ SafetyGate(i, d).category # "technical"
<1>1. PICK category \in Categories, by \in Deciders : d = Decision(category, by, TRUE)
    BY DEF IsShown
<1>2. d # NoDecision /\ d.include_in_result = TRUE
    <2>1. d # NoDecision
        BY <1>1, ClassifierAssumption
    <2>2. d.include_in_result = TRUE
        BY <1>1 DEF Decision
    <2> QED BY <2>1, <2>2
<1>3. IsShown(AfterRetry(d))
    <2>1. AfterRetry(d) \in {Decision("ocr_uncertain", "alignment_retry", TRUE),
                             Decision(category, "alignment_retry", TRUE), d}
        BY <1>1 DEF AfterRetry, Decision
    <2> QED BY <2>1, ShownAre DEF Categories, Deciders
<1>4. ASSUME NEW i
      PROVE  IsShown(SafetyGate(i, d)) /\ SafetyGate(i, d).category # "technical"
    <2>1. SafetyGate(i, d) \in {Decision("substantive", "safety_override", TRUE),
                                Decision("ocr_uncertain", "safety_override", TRUE), d}
        BY DEF SafetyGate
    <2>2. IsShown(SafetyGate(i, d))
        BY <2>1, ShownAre DEF Categories, Deciders
    <2> QED BY <2>2, GateHidesNothing
<1> QED BY <1>2, <1>3, <1>4

\* Whatever the model answers, the candidates of the batch get a decision to show.
LEMMA DecideShows ==
    ASSUME NEW f, Decide(f), \A i \in batch : IsShown(f[i])
    PROVE  \A i \in Ids : IF i \in batch THEN IsShown(llm'[i])
                                         ELSE llm'[i] = llm[i]
BY ShownIsDecision DEF Decide

LEMMA FallbackShown == IsShown(Fallback)
BY ShownAre DEF Fallback, Categories, Deciders

LEMMA ParsedShown ==
    ASSUME NEW raw, ValidBatch(raw), NEW i \in batch
    PROVE  IsShown(Parsed(raw, i))
<1>1. \E n \in DOMAIN raw : raw[n].candidate_id = i
    BY DEF ValidBatch
<1>2. PICK n \in DOMAIN raw : Parsed(raw, i) = Decision(raw[n].category, "llm", TRUE)
    BY <1>1 DEF Parsed
<1> QED BY <1>2, ShownAre DEF ValidBatch, Deciders

\* The candidates still to be asked about for the first time.
Unasked(i) == round = "first" /\ (i \in todo \/ (stage = "ask" /\ i \in batch))

\* Who is asked about is fixed by the rules; who has been asked has a decision to show.
ShownInv ==
    /\ Numbered
    /\ RowsInv
    /\ pending \subseteq Ids
    /\ stage # "new" => pending = Unique
    /\ \A i \in pending : Unasked(i) \/ IsShown(llm[i])

LEMMA UniqueIsFixed ==
    ASSUME UNCHANGED candidates
    PROVE  Unique' = Unique /\ Ids' = Ids
BY DEF Unique, Undecided, Deterministic, GroupTechnical, Group, SameChange, Contained, Ids

\* A step that decides nothing of the model's.
LEMMA ShownKept ==
    ASSUME ShownInv, RowsInv', UNCHANGED <<candidates, pending, llm>>,
           stage' # "new" => stage # "new",
           \A i \in pending : Unasked(i) => Unasked(i)'
    PROVE  ShownInv'
<1>1. Unique' = Unique /\ Ids' = Ids
    BY UniqueIsFixed
<1>2. Numbered'
    BY <1>1 DEF ShownInv, Numbered
<1> QED BY <1>1, <1>2 DEF ShownInv

\* The answer to a batch, or its failure.
LEMMA ShownDecided ==
    ASSUME ShownInv, RowsInv', stage = "ask", stage' = "log",
           UNCHANGED <<candidates, pending, round, todo>>,
           NEW f, Decide(f), \A i \in batch : IsShown(f[i])
    PROVE  ShownInv'
<1>1. Unique' = Unique /\ Ids' = Ids
    BY UniqueIsFixed
<1>2. Numbered'
    BY <1>1 DEF ShownInv, Numbered
<1>3. \A i \in Ids : IF i \in batch THEN IsShown(llm'[i]) ELSE llm'[i] = llm[i]
    BY DecideShows
<1>4. \A i \in pending : Unasked(i)' \/ IsShown(llm'[i])
    BY <1>3 DEF ShownInv, Unasked
<1> QED BY <1>1, <1>2, <1>4 DEF ShownInv

LEMMA ShownStep ==
    ASSUME ShownInv, [Classify]_classifierVars PROVE ShownInv'
<1>1. UNCHANGED candidates /\ RowsInv'
    BY StepsKeepStored, RowsStep DEF ShownInv
<1>2. CASE Sort
    <2>1. Unique' = Unique /\ Ids' = Ids /\ Numbered'
        BY <1>1, UniqueIsFixed DEF ShownInv, Numbered
    <2>2. pending' = Unique /\ todo' = Unique /\ round' = "first"
        BY <1>2 DEF Sort, ShownInv, RowsInv
    <2>3. Unique \subseteq Ids
        BY DEF Unique
    <2> QED BY <1>1, <2>1, <2>2, <2>3 DEF ShownInv, Unasked
<1>3. CASE RecordBatch
    <2>1. /\ UNCHANGED <<pending, llm, round>>
          /\ stage = "record" /\ stage' = "ask"
          /\ todo \subseteq todo' \cup batch'
        BY <1>3 DEF RecordBatch
    <2> QED BY <1>1, <2>1, ShownKept DEF Unasked
<1>4. CASE ChatRetries \/ CompleteBatch \/ StoreDecisions \/ StoreRaises
    <2>1. UNCHANGED <<pending, llm, round, todo>>
        BY <1>4 DEF ChatRetries, CompleteBatch, StoreDecisions, StoreRaises
    <2>2. /\ stage # "new"
          /\ stage = "ask" => stage' = "ask" /\ batch' = batch
        BY <1>4 DEF ChatRetries, CompleteBatch, StoreDecisions, StoreRaises
    <2> QED BY <1>1, <2>1, <2>2, ShownKept DEF Unasked
<1>5. CASE ChatRaises
    <2> DEFINE f == [i \in batch |-> Fallback]
    <2>1. /\ stage = "ask" /\ stage' = "log"
          /\ UNCHANGED <<pending, round, todo>>
          /\ Decide(f)
        BY <1>5 DEF ChatRaises
    <2>2. \A i \in batch : IsShown(f[i])
        BY FallbackShown
    <2> HIDE DEF f
    <2> QED BY <1>1, <2>1, <2>2, ShownDecided
<1>6. CASE ChatAnswers
    <2>1. PICK raw \in Answers :
              Decide([i \in batch |-> IF ValidBatch(raw) THEN Parsed(raw, i) ELSE Fallback])
        BY <1>6 DEF ChatAnswers
    <2> DEFINE f == [i \in batch |-> IF ValidBatch(raw) THEN Parsed(raw, i) ELSE Fallback]
    <2>2. \A i \in batch : IsShown(f[i])
        BY FallbackShown, ParsedShown
    <2>3. Decide(f)
        BY <2>1
    <2>4. stage = "ask" /\ stage' = "log" /\ UNCHANGED <<pending, round, todo>>
        BY <1>6 DEF ChatAnswers
    <2> HIDE DEF f
    <2> QED BY <1>1, <2>2, <2>3, <2>4, ShownDecided
<1>7. CASE RetryAlignment
    <2>1. UNCHANGED <<pending, llm>> /\ stage = "record" /\ todo = {} /\ stage' = stage
        BY <1>7 DEF RetryAlignment
    <2> QED BY <1>1, <2>1, ShownKept DEF Unasked
<1>8. CASE UNCHANGED classifierVars
    BY <1>1, <1>8, ShownKept DEF classifierVars, Unasked
<1> QED BY <1>2, <1>3, <1>4, <1>5, <1>6, <1>7, <1>8 DEF Classify

\* A group of which the first evidence is technical is represented by its first
\* candidate.
LEMMA GroupHasFirst ==
    ASSUME Numbered, NEW i \in Ids, GroupTechnical(i), i # First(Group(i))
    PROVE  LET j == First(Group(i))
           IN  /\ j \in Group(i) /\ j < i
               /\ Deterministic(j) = Decision("technical", "deterministic", TRUE)
<1> DEFINE j == First(Group(i))
<1>1. j \in Group(i) /\ \A k \in Group(i) : j <= k
    BY IdsAreNaturals, FirstIsLeast DEF Group
<1>2. i \in Group(i) /\ i \in Nat /\ j \in Nat
    BY <1>1, IdsAreNaturals DEF Group
<1>3. Group(j) = Group(i)
    BY <1>1 DEF Group
<1> HIDE DEF j
<1>4. GroupTechnical(j) /\ j = First(Group(j))
    BY <1>3 DEF GroupTechnical, j
<1>5. j < i
    BY <1>1, <1>2 DEF j
<1> QED BY <1>1, <1>4, <1>5 DEF Deterministic, j

\* The decisions of the rules are decisions.
LEMMA RulesDecide ==
    ASSUME NEW i, i \notin Undecided, i \in Ids
    PROVE  /\ Deterministic(i) # NoDecision
           /\ Deterministic(i).category = "technical"
           /\ \/ Deterministic(i).include_in_result = TRUE
              \/ GroupTechnical(i) /\ i # First(Group(i))
<1>1. Deterministic(i) # NoDecision
    BY DEF Undecided
<1> QED BY <1>1 DEF Deterministic, Decision

\* The candidate shown in place of i.
StandsFor(j, i) ==
    /\ j \in Group(i) /\ j < i
    /\ Final(j).include_in_result
    /\ \/ Final(i).category = "technical" /\ Final(j).category = "technical"
       \/ Final(j).category # "technical" /\ SameChange(j, i)

LEMMA FinalVisible ==
    ASSUME Numbered, pending = Unique, \A i \in pending : IsShown(llm[i]),
           NEW i \in Ids
    PROVE  /\ Final(i) # NoDecision
           /\ Final(i).include_in_result \/ \E j \in Ids : StandsFor(j, i)
<1>1. CASE i \notin Undecided
    <2>1. Final(i) = Deterministic(i)
        BY <1>1 DEF Final
    <2>2. CASE GroupTechnical(i) /\ i # First(Group(i))
        <3> DEFINE j == First(Group(i))
        <3>1. /\ j \in Group(i) /\ j < i
              /\ Deterministic(j) = Decision("technical", "deterministic", TRUE)
            BY <2>2, GroupHasFirst
        <3>2. j \in Ids \ Undecided
            BY <3>1, ClassifierAssumption
            DEF Undecided, Group, Categories, Deciders
        <3> HIDE DEF j
        <3>3. Final(j) = Decision("technical", "deterministic", TRUE)
            BY <3>1, <3>2 DEF Final
        <3>4. StandsFor(j, i)
            <4>1. Final(i).category = "technical"
                BY <1>1, <2>1, RulesDecide
            <4>2. Final(j).category = "technical" /\ Final(j).include_in_result = TRUE
                BY <3>3 DEF Decision
            <4> QED BY <3>1, <4>1, <4>2 DEF StandsFor
        <3> QED BY <1>1, <2>1, <3>2, <3>4, RulesDecide
    <2>3. CASE ~(GroupTechnical(i) /\ i # First(Group(i)))
        BY <1>1, <2>1, <2>3, RulesDecide
    <2> QED BY <2>2, <2>3
<1>2. CASE i \in pending
    <2>1. i \in Undecided
        BY <1>2, UniqueIs
    <2>2. Final(i) = SafetyGate(i, llm[i])
        BY <1>2, <2>1 DEF Final
    <2> QED BY <1>2, <2>2, ShownIsDecision
<1>3. CASE i \in Undecided /\ i \notin pending
    <2>1. Final(i) = Decision("substantive", "deterministic", FALSE)
        BY <1>3 DEF Final
    <2>2. Final(i) # NoDecision
        BY <2>1, ClassifierAssumption DEF Categories, Deciders
    <2>3. PICK j \in Undecided \cap Group(i) :
              j < i /\ j \in Unique /\ SameChange(j, i)
        BY <1>3, UniqueIs
    <2>4. j \in Ids /\ Final(j) = SafetyGate(j, llm[j]) /\ IsShown(llm[j])
        BY <2>3 DEF Final, Group
    <2>5. StandsFor(j, i)
        BY <2>3, <2>4, ShownIsDecision DEF StandsFor
    <2> QED BY <2>2, <2>4, <2>5
<1> QED BY <1>1, <1>2, <1>3

VisibleInv == ShownInv /\ EveryCandidateVisible

LEMMA VisibleStep ==
    ASSUME VisibleInv, [Classify]_classifierVars PROVE VisibleInv'
<1>1. ShownInv'
    BY ShownStep DEF VisibleInv
<1>2. UNCHANGED candidates /\ Ids' = Ids
    BY StepsKeepStored DEF Ids
<1>3. CASE StoreDecisions
    <2>1. /\ stage = "record" /\ todo = {}
          /\ stored' = [i \in Ids |-> Final(i)]
        BY <1>3 DEF StoreDecisions
    <2>2. pending = Unique /\ \A i \in pending : IsShown(llm[i])
        BY <2>1 DEF VisibleInv, ShownInv, Unasked
    <2>3. ASSUME NEW i \in Ids
          PROVE  /\ stored'[i] # NoDecision
                 /\ i \in Output' \/ \E j \in Output' \cap Group(i) :
                       /\ j < i
                       /\ \/ stored'[i].category = "technical" /\ stored'[j].category = "technical"
                          \/ stored'[j].category # "technical" /\ SameChange(j, i)
        <3>1. /\ Final(i) # NoDecision
              /\ Final(i).include_in_result \/ \E j \in Ids : StandsFor(j, i)
            BY <2>2, FinalVisible DEF VisibleInv, ShownInv
        <3> QED BY <1>2, <2>1, <3>1 DEF Output, StandsFor
    <2> QED
        BY <1>1, <1>2, <2>3
        DEF VisibleInv, EveryCandidateVisible, Group, SameChange, Contained
<1>4. CASE ~StoreDecisions
    <2>1. UNCHANGED stored /\ (stage' = "done" => stage = "done")
        BY <1>4
        DEF Classify, classifierVars, Sort, RecordBatch, ChatRetries, ChatRaises, ChatAnswers,
            CompleteBatch, RetryAlignment, StoreRaises
    <2> QED
        BY <1>1, <1>2, <2>1
        DEF VisibleInv, EveryCandidateVisible, Output, Group, SameChange, Contained
<1> QED BY <1>3, <1>4

LEMMA VisibleHolds == ClassifierSpec => []VisibleInv
<1>1. ClassifierInit => VisibleInv
    BY RowsInit
    DEF ClassifierInit, NothingDone, VisibleInv, ShownInv, Numbered, EveryCandidateVisible
<1>2. VisibleInv /\ [Classify]_classifierVars => VisibleInv'
    BY VisibleStep
<1> QED BY <1>1, <1>2, PTL DEF ClassifierSpec

\* No difference is lost between the rules, the doubles and the batches: whatever the
\* candidates are and the model answers, one that is not shown has a shown one in its
\* place.
THEOREM NoneLost == ClassifierSpec => []EveryCandidateVisible
BY VisibleHolds, PTL DEF VisibleInv

\* Where none is lost, what is shown tells of all.
LEMMA ShownTellsAll == EveryCandidateVisible => ContentEqualMeansTechnical
<1> SUFFICES ASSUME EveryCandidateVisible, stage = "done", Verdict = "content_equal",
                    NEW i \in Ids
             PROVE  stored[i].category = "technical"
    BY DEF ContentEqualMeansTechnical
<1>1. \A j \in Output : stored[j].category = "technical"
    BY DEF Verdict, Shown
<1> QED BY <1>1 DEF EveryCandidateVisible

\* A verdict "content_equal" speaks of every candidate, though it is computed of those
\* that are shown.
THEOREM ContentEqualProven == ClassifierSpec => []ContentEqualMeansTechnical
BY ShownTellsAll, NoneLost, PTL
=============================================================================
