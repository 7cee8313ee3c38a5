----------------------------- MODULE Classifier -----------------------------
(***************************************************************************)
(* DifferenceClassifier (services/difference_classifier.py) on the         *)
(* candidates of one comparison run: what follows from rules alone is      *)
(* decided at once, doubles within a paragraph are put aside, the rest is  *)
(* asked of the language model batch by batch, once more where it found    *)
(* the paragraphs misaligned, and what it says passes the safety gate.     *)
(*                                                                         *)
(* A candidate is a record of what the rules see of its text:              *)
(*   alignment        the pair of blocks it belongs to                     *)
(*   left, right      the changed text of either side                      *)
(*   vanishes         normalize_for_alignment leaves nothing of the change *)
(*   artefact         one of the rules for a single candidate holds        *)
(*   protected        _protection_tags finds something to protect          *)
(* A decision of the first round and of the round for misaligned           *)
(* candidates is one write here, as nothing reads between the two.         *)
(***************************************************************************)
EXTENDS PageText

CONSTANTS
    ShortNumber,    \* the digits of a short number (4)
    Reach,          \* how many changes of a block its evidence text shows (4000 chars)
    BatchLimit,     \* max_candidates of batch_for_classification (6)
    Attempts,       \* requests for one batch (ollama_retries + 1)
    NoDecision      \* classified_by IS NULL

Categories == {"substantive", "technical", "alignment_error", "ocr_uncertain"}

\* The values of classified_by.
Deciders == {"deterministic", "llm", "fallback", "alignment_retry", "safety_override"}

Decision(category, by, shown) ==
    [category |-> category, classified_by |-> by, include_in_result |-> shown]

ASSUME ClassifierAssumption ==
    /\ ShortNumber \in Nat
    /\ Reach \in Nat \ {0}
    /\ BatchLimit \in Nat \ {0}
    /\ Attempts \in Nat \ {0}
    /\ \A category \in Categories, by \in Deciders, shown \in BOOLEAN :
          NoDecision # Decision(category, by, shown)

VARIABLES
    candidates,     \* the candidates, by their number
    stage,          \* "new", "record", "ask", "log", "done" or "failed"
    round,          \* "first" or "retry"
    pending,        \* the candidates that the model is asked about
    todo,           \* those of this round that are in no batch yet
    batch,          \* the candidates of the batch being asked
    index,          \* its batch_index
    attempt,        \* requests made for it
    answered,       \* its answer was usable (parse_ok)
    llm,            \* what was decided of the candidates asked about
    failures,       \* classification_failures
    rows,           \* classification_batches: by index, the candidates and parse_ok
    stored          \* diff_candidates: the decision of each candidate

classifierVars == <<candidates, stage, round, pending, todo, batch, index, attempt, answered,
                    llm, failures, rows, stored>>

Ids == DOMAIN candidates

First(ids) == CHOOSE i \in ids : \A j \in ids : i <= j

-----------------------------------------------------------------------------
(* Rules *)

\* _group_by_alignment.
Group(i) == {j \in Ids : candidates[j].alignment = candidates[i].alignment}

\* _technical_group_decision: the evidence of the first candidate, both texts cut to
\* what it reaches, is the same after normalisation.
GroupTechnical(i) ==
    \A j \in Group(i) : j < First(Group(i)) + Reach => candidates[j].vanishes

\* What the rules decide: a whole group, of which the first stands for all, or a
\* candidate by itself (_technical_candidate_decision).
Deterministic(i) ==
    IF GroupTechnical(i)
    THEN Decision("technical", "deterministic", i = First(Group(i)))
    ELSE IF candidates[i].artefact THEN Decision("technical", "deterministic", TRUE)
    ELSE NoDecision

Undecided == {i \in Ids : Deterministic(i) = NoDecision}

\* Where the text ws is found in text: after so many characters.
Places(ws, text) ==
    {k \in 0..(Len(text) - Len(ws)) : Begun(SubSeq(text, k + 1, k + Len(ws))) = ws}

\* str.casefold.
Casefold(ws) ==
    [k \in 1..Len(ws) |-> IF ws[k].char = "A" THEN Glyph("a", ws[k].glued) ELSE ws[k]]

IsShortNumber(ws) ==
    /\ Len(ws) <= ShortNumber
    /\ \A k \in 1..Len(ws) : ws[k].char = "1" /\ (k > 1 => ws[k].glued)

\* The shorter text is part of the longer, if only of a word, and no short number.
Within(shorter, longer) ==
    shorter # <<>> /\ ~IsShortNumber(shorter) /\ Places(shorter, longer) # {}

\* contained: one side of two changes.
Contained(first, second) ==
    \/ first = second
    \/ Within(first, second)
    \/ Within(second, first)

\* _same_change.
SameChange(i, j) ==
    /\ Contained(Casefold(candidates[i].left), Casefold(candidates[j].left))
    /\ Contained(Casefold(candidates[i].right), Casefold(candidates[j].right))

\* Mutant: doubles are looked for in the whole document.
UniqueInDocument ==
    LET kept[i \in Ids] ==
            i \in Undecided /\ ~\E j \in Undecided : j < i /\ kept[j] /\ SameChange(j, i)
    IN  {i \in Ids : kept[i]}

\* _dedupe_pending: the undecided candidates that are no double of one that is kept,
\* of the same group.
Unique ==
    LET kept[i \in Ids] ==
            /\ i \in Undecided
            /\ ~\E j \in Undecided \cap Group(i) : j < i /\ kept[j] /\ SameChange(j, i)
    IN  {i \in Ids : kept[i]}

\* Mutant: what the model calls technical and no tag protects is hidden.
GateProtectsOnly(i, decision) ==
    IF decision.category = "technical" /\ candidates[i].protected
    THEN Decision("substantive", "safety_override", TRUE) ELSE decision

\* _apply_safety_gate.
SafetyGate(i, decision) ==
    IF decision.category # "technical" THEN decision
    ELSE IF candidates[i].protected THEN Decision("substantive", "safety_override", TRUE)
    ELSE Decision("ocr_uncertain", "safety_override", TRUE)

\* What is written of candidate i: the rules' decision, a double's, or the model's
\* behind the gate.
Final(i) ==
    IF i \notin Undecided THEN Deterministic(i)
    ELSE IF i \notin pending THEN Decision("substantive", "deterministic", FALSE)
    ELSE SafetyGate(i, llm[i])

-----------------------------------------------------------------------------
(* The language model *)

\* An item of the model's answer: the candidate it names, 0 for one that is not of the
\* batch, and the category; "invalid" is an item with an unknown category, without a
\* reason or confidence, or that does not echo the change.
Items == [candidate_id : batch \cup {0}, category : Categories \cup {"invalid"}]

Answers == UNION {[1..k -> Items] : k \in 0..Cardinality(batch)}

\* _validate_batch: one valid item for each candidate of the batch and no other.
ValidBatch(raw) ==
    /\ Cardinality(DOMAIN raw) = Cardinality(batch)
    /\ {raw[n].candidate_id : n \in DOMAIN raw} = batch
    /\ \A n \in DOMAIN raw : raw[n].category \in Categories

Parsed(raw, i) ==
    Decision(raw[CHOOSE n \in DOMAIN raw : raw[n].candidate_id = i].category, "llm", TRUE)

\* _fallback_decisions.
Fallback == Decision("ocr_uncertain", "fallback", TRUE)

\* Mutant: a second answer counts as the first.
AsAnswered(decision) == decision

\* A decision of the retry round: still misaligned becomes uncertain.
AfterRetry(decision) ==
    IF decision.category = "alignment_error"
    THEN Decision("ocr_uncertain", "alignment_retry", TRUE)
    ELSE IF decision.classified_by = "llm"
    THEN [decision EXCEPT !.classified_by = "alignment_retry"]
    ELSE decision

\* What is kept of decisions for the batch.
Decide(decisions) ==
    llm' = [i \in Ids |->
              IF i \notin batch THEN llm[i]
              ELSE IF round = "retry" THEN AfterRetry(decisions[i])
              ELSE decisions[i]]

-----------------------------------------------------------------------------
(* Steps *)

NothingDone ==
    /\ stage = "new"
    /\ round = "first"
    /\ pending = {}
    /\ todo = {}
    /\ batch = {}
    /\ index = 0
    /\ attempt = 0
    /\ answered = FALSE
    /\ failures = 0
    /\ rows = <<>>

ClassifierInit ==
    /\ \E n \in Nat : Ids = 1..n
    /\ NothingDone
    /\ llm = [i \in Ids |-> NoDecision]
    /\ stored = [i \in Ids |-> NoDecision]

\* classify up to its first wait: rules and doubles.
Sort ==
    /\ stage = "new"
    /\ stage' = "record"
    /\ pending' = Unique
    /\ todo' = pending'
    /\ UNCHANGED <<candidates, round, batch, index, attempt, answered, llm, failures, rows,
                   stored>>

\* Mutant: the batches of the retry round are numbered from one again.
NextIndexOfRound == IF round = "retry" THEN 1 ELSE index + 1

\* first_batch_index + offset: the rounds are numbered through.
NextIndex == index + 1

\* record_classification_batch: the next candidates, no more than the limit (fewer
\* when their texts are long), are a row that is not answered yet.
RecordBatch ==
    /\ stage = "record"
    /\ todo # {}
    /\ \E taken \in SUBSET todo :
          /\ taken # {}
          /\ Cardinality(taken) <= BatchLimit
          /\ \A i \in taken, j \in todo \ taken : i < j
          /\ batch' = taken
          /\ todo' = todo \ taken
          /\ index' = NextIndex
          /\ rows' = [n \in DOMAIN rows \cup {NextIndex} |->
                        IF n = NextIndex THEN [ids |-> taken, parse_ok |-> FALSE]
                                         ELSE rows[n]]
    /\ attempt' = 1
    /\ stage' = "ask"
    /\ UNCHANGED <<candidates, round, pending, answered, llm, failures, stored>>

\* OllamaClient._chat_locked: no connection, no answer in time or a server error, and
\* another try.
ChatRetries ==
    /\ stage = "ask"
    /\ attempt < Attempts
    /\ attempt' = attempt + 1
    /\ UNCHANGED <<candidates, stage, round, pending, todo, batch, index, answered, llm, failures,
                   rows, stored>>

\* The last try failed, or one in a way that is not tried again: the batch is left to
\* the user.
ChatRaises ==
    /\ stage = "ask"
    /\ Decide([i \in batch |-> Fallback])
    /\ failures' = failures + 1
    /\ answered' = FALSE
    /\ stage' = "log"
    /\ attempt' = 0
    /\ UNCHANGED <<candidates, round, pending, todo, batch, index, rows, stored>>

\* An answer, taken as a whole or not at all.
ChatAnswers ==
    /\ stage = "ask"
    /\ \E raw \in Answers :
          /\ Decide([i \in batch |-> IF ValidBatch(raw) THEN Parsed(raw, i) ELSE Fallback])
          /\ answered' = ValidBatch(raw)
          /\ failures' = IF ValidBatch(raw) THEN failures ELSE failures + 1
    /\ stage' = "log"
    /\ attempt' = 0
    /\ UNCHANGED <<candidates, round, pending, todo, batch, index, rows, stored>>

\* complete_classification_batch.
CompleteBatch ==
    /\ stage = "log"
    /\ rows' = [rows EXCEPT ![index].parse_ok = answered]
    /\ stage' = "record"
    /\ batch' = {}
    /\ answered' = FALSE
    /\ UNCHANGED <<candidates, round, pending, todo, index, attempt, llm, failures, stored>>

\* The candidates that are asked about again.
Misaligned == {i \in pending : llm[i].category = "alignment_error"}

\* The first round is over and some candidates are misaligned: they are asked about
\* once more, with the texts around them.
RetryAlignment ==
    /\ stage = "record"
    /\ todo = {}
    /\ round = "first"
    /\ Misaligned # {}
    /\ round' = "retry"
    /\ todo' = Misaligned
    /\ UNCHANGED <<candidates, stage, pending, batch, index, attempt, answered, llm, failures,
                   rows, stored>>

\* All are decided: update_candidate_classifications.
StoreDecisions ==
    /\ stage = "record"
    /\ todo = {}
    /\ round = "first" => Misaligned = {}
    /\ stored' = [i \in Ids |-> Final(i)]
    /\ stage' = "done"
    /\ UNCHANGED <<candidates, round, pending, todo, batch, index, attempt, answered, llm,
                   failures, rows>>

\* A write to the database fails: classify raises, the comparison has failed.
StoreRaises ==
    /\ stage \in {"record", "log"}
    /\ stage' = "failed"
    /\ UNCHANGED <<candidates, round, pending, todo, batch, index, attempt, answered, llm,
                   failures, rows, stored>>

Classify ==
    \/ Sort \/ RecordBatch \/ ChatRetries \/ ChatRaises \/ ChatAnswers \/ CompleteBatch
    \/ RetryAlignment \/ StoreDecisions \/ StoreRaises

ClassifierSpec == ClassifierInit /\ [][Classify]_classifierVars

\* The answer: what is shown of the candidates.
Output == {i \in Ids : stored[i].include_in_result}

Shown == {stored[i].category : i \in Output}

\* Mutant: one technical difference is enough.
VerdictOfAny ==
    IF Output = {} THEN "identical"
    ELSE IF "technical" \in Shown THEN "content_equal" ELSE "different"

\* The verdict of a comparison (DocumentComparator.compare).
Verdict ==
    IF Output = {} THEN "identical"
    ELSE IF Shown \subseteq {"technical"} THEN "content_equal" ELSE "different"

-----------------------------------------------------------------------------
(* Properties *)

\* Every candidate ends with a decision, and one that is not shown has another shown
\* in its place, earlier in the same paragraph: like itself technical, or a double by
\* _same_change, each side of one of the two a part of that side of the other.  The
\* part may be the one shown, and what the whole has beyond it is then shown nowhere;
\* grouping, doubles and batches lose nothing else (classify, _dedupe_pending).
EveryCandidateVisible ==
    stage = "done" => \A i \in Ids :
        /\ stored[i] # NoDecision
        /\ i \in Output \/ \E j \in Output \cap Group(i) :
              /\ j < i
              /\ \/ stored[i].category = "technical" /\ stored[j].category = "technical"
                 \/ stored[j].category # "technical" /\ SameChange(j, i)

\* "content_equal" is given only when every candidate is technical, those put aside as
\* doubles or merged into another included (DocumentComparator.compare).
ContentEqualMeansTechnical ==
    stage = "done" /\ Verdict = "content_equal" =>
        \A i \in Ids : stored[i].category = "technical"

\* A candidate is asked about at most twice, and none is left as misaligned, whatever
\* the model answers the second time (the retry of alignment errors in classify).
MisalignedIsSettled ==
    /\ \A i \in Ids : Cardinality({n \in DOMAIN rows : i \in rows[n].ids}) <= 2
    /\ stage = "done" => \A i \in Ids : stored[i].category # "alignment_error"

\* Nothing is hidden as technical on the word of the model: there is a rule for the
\* change, or for the paragraph as far as the evidence of its first change reaches
\* (_apply_safety_gate, _technical_group_decision).
TechnicalIsProven ==
    \A i \in Ids : stored[i] # NoDecision /\ stored[i].category = "technical" =>
        \/ candidates[i].artefact
        \/ candidates[i].vanishes
        \/ \E j \in Group(i) : j + Reach <= i /\ candidates[j].vanishes

\* The rows of classification_batches tell what happened: the last row of a candidate
\* is marked as parsed when the model decided it and not when it was left to the
\* user, every candidate asked about has a row, and the rows that are not parsed are
\* the failures that the summary counts.
RowsTellDecisions ==
    stage = "done" =>
        /\ failures = Cardinality({n \in DOMAIN rows : ~rows[n].parse_ok})
        /\ \A i \in pending :
              LET mine == {n \in DOMAIN rows : i \in rows[n].ids}
              IN  /\ mine # {}
                  /\ \E n \in mine :
                        /\ \A m \in mine : m <= n
                        /\ rows[n].parse_ok <=> Fallback.classified_by # llm[i].classified_by
=============================================================================
