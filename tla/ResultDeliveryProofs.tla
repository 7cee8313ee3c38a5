------------------------- MODULE ResultDeliveryProofs -------------------------
(***************************************************************************)
(* Proofs about ResultDelivery and the outbox that it reads from, for any  *)
(* number of replicas, sockets, readers, rows and faults of any kind: the  *)
(* outbox and its publishers, each step of them as one of an at-least-once *)
(* sender, then the delivery of results.                                   *)
(***************************************************************************)
EXTENDS ResultDelivery, TLAPS

-----------------------------------------------------------------------------
(* The outbox *)

\* The rows come one after the other, those in a publisher's hands are stored, and
\* those that it goes on to mark are on the topic.
OutboxInv ==
    /\ \E n \in 0..RowCount : \A m \in Rows : Stored(m) <=> m <= n
    /\ \A r \in Replicas : \A n \in publisher[r].batch : Stored(n)
    /\ \A r \in Replicas : publisher[r].pc = "mark" => publisher[r].row \in OnTopic
    /\ \A m \in Rows : outbox[m] = "published" => m \in OnTopic
    /\ \A m \in OnTopic : Stored(m)

Records == Rows \cup {Invalid, NotJson}

LEMMA Foreign == Invalid \notin Rows /\ NotJson \notin Rows
BY OutboxAssumption DEF Rows, Invalid, NotJson

LEMMA AppendOnTopic ==
    ASSUME log \in Seq(Records), NEW n \in Records, log' = Append(log, n)
    PROVE  /\ log' \in Seq(Records)
           /\ Len(log') = Len(log) + 1
           /\ OnTopic' = OnTopic \cup ({n} \cap Rows)
<1>1. Len(log') = Len(log) + 1 /\ Len(log) \in Nat /\ log' \in Seq(Records)
    OBVIOUS
<1>2. \A k \in 1..Len(log) : log'[k] = log[k]
    OBVIOUS
<1>3. log'[Len(log) + 1] = n
    OBVIOUS
<1>4. 1..Len(log') = (1..Len(log)) \cup {Len(log) + 1}
    BY <1>1
<1>5. \A m : (\E k \in 1..Len(log') : log'[k] = m) <=> (\E k \in 1..Len(log) : log[k] = m) \/ m = n
    BY <1>2, <1>3, <1>4
<1> QED
    BY <1>1, <1>5 DEF OnTopic

LEMMA RowsAreRecords == \A n \in Rows : n \in Records
BY DEF Records

LEMMA OutboxTypeInit == OutboxInit => OutboxTypeOK
BY DEF OutboxInit, OutboxTypeOK, Polling, PublisherRecord

\* The publisher's record after it has taken a row in hand or let go of one.
LEMMA HandType ==
    ASSUME OutboxTypeOK, NEW r \in Replicas, NEW pc \in {"poll", "publish", "mark", "error"},
           NEW n \in Rows \cup {0}, NEW b \in SUBSET Rows, pc \in {"mark", "error"} => n \in Rows,
           publisher' = [publisher EXCEPT ![r] = [pc |-> pc, row |-> n, batch |-> b]]
    PROVE  /\ publisher' \in [Replicas -> PublisherRecord]
           /\ \A s \in Replicas : publisher'[s].pc \in {"mark", "error"} => publisher'[s].row \in Rows
BY DEF OutboxTypeOK, PublisherRecord

LEMMA NextOfBatchType ==
    ASSUME OutboxTypeOK, NEW r \in Replicas, NextOfBatch(r)
    PROVE  /\ publisher' \in [Replicas -> PublisherRecord]
           /\ \A s \in Replicas : publisher'[s].pc \in {"mark", "error"} => publisher'[s].row \in Rows
<1>1. publisher[r].batch \in SUBSET Rows
    BY DEF OutboxTypeOK, PublisherRecord
<1>2. CASE publisher[r].batch = {}
    <2>1. publisher' = [publisher EXCEPT ![r] = [pc |-> "poll", row |-> 0, batch |-> publisher[r].batch]]
        BY <1>2 DEF NextOfBatch
    <2> QED
        BY <1>1, <2>1, HandType
<1>3. CASE publisher[r].batch # {}
    <2>1. publisher' = [publisher EXCEPT ![r] = [pc |-> "publish", row |-> 0, batch |-> publisher[r].batch]]
        BY <1>3 DEF NextOfBatch
    <2> QED
        BY <1>1, <2>1, HandType
<1> QED
    BY <1>2, <1>3

LEMMA OutboxTypeStep ==
    ASSUME OutboxTypeOK, NEW r \in Replicas, PublisherTurn(r) \/ PublisherFault(r)
    PROVE  OutboxTypeOK'
<1>1. CASE ClaimRows(r)
    <2> DEFINE b == {n \in Rows : Claimable(n) /\
                       Cardinality({m \in 1..(n - 1) : Claimable(m)}) < BatchLimit}
    <2>1. /\ outbox' = [n \in Rows |-> IF n \in b THEN "claimed" ELSE outbox[n]]
          /\ publisher' = [publisher EXCEPT ![r] = [pc |-> "publish", row |-> 0, batch |-> b]]
        BY <1>1 DEF ClaimRows
    <2>2. b \in SUBSET Rows
        OBVIOUS
    <2> HIDE DEF b
    <2>3. outbox' \in [Rows -> {"absent", "open", "claimed", "stale", "published"}]
        BY <2>1 DEF OutboxTypeOK
    <2>4. /\ publisher' \in [Replicas -> PublisherRecord]
          /\ \A s \in Replicas : publisher'[s].pc \in {"mark", "error"} => publisher'[s].row \in Rows
        BY <2>1, <2>2, HandType
    <2> QED
        BY <1>1, <2>1, <2>3, <2>4 DEF ClaimRows, OutboxTypeOK
<1>2. CASE PublishRow(r)
    <2>1. PICK n \in publisher[r].batch :
            /\ log' = Append(log, n)
            /\ publisher' = [publisher EXCEPT ![r] =
                                [pc |-> "mark", row |-> n, batch |-> publisher[r].batch \ {n}]]
        BY <1>2 DEF PublishRow
    <2>2. n \in Rows /\ publisher[r].batch \ {n} \in SUBSET Rows
        BY DEF OutboxTypeOK, PublisherRecord
    <2>3. log' \in Seq(Records)
        BY <2>1, <2>2, AppendOnTopic, RowsAreRecords DEF OutboxTypeOK, Records
    <2>4. /\ publisher' \in [Replicas -> PublisherRecord]
          /\ \A s \in Replicas : publisher'[s].pc \in {"mark", "error"} => publisher'[s].row \in Rows
        BY <2>1, <2>2 DEF OutboxTypeOK, PublisherRecord
    <2> QED
        BY <1>2, <2>1, <2>3, <2>4 DEF PublishRow, OutboxTypeOK, Records
<1>3. CASE PublishRaises(r)
    <2>1. PICK n \in publisher[r].batch :
            /\ log' \in {log, Append(log, n)}
            /\ publisher' = [publisher EXCEPT ![r] =
                                [pc |-> "error", row |-> n, batch |-> publisher[r].batch \ {n}]]
        BY <1>3 DEF PublishRaises
    <2>2. n \in Rows /\ publisher[r].batch \ {n} \in SUBSET Rows
        BY DEF OutboxTypeOK, PublisherRecord
    <2>3. log' \in Seq(Records) /\ faults' \in Nat
        BY <1>3, <2>1, <2>2, AppendOnTopic, RowsAreRecords
           DEF OutboxTypeOK, PublishRaises, Fault, Records
    <2>4. /\ publisher' \in [Replicas -> PublisherRecord]
          /\ \A s \in Replicas : publisher'[s].pc \in {"mark", "error"} => publisher'[s].row \in Rows
        BY <2>1, <2>2 DEF OutboxTypeOK, PublisherRecord
    <2> QED
        BY <1>3, <2>1, <2>3, <2>4 DEF PublishRaises, OutboxTypeOK, Records
<1>4. CASE MarkPublished(r)
    BY <1>4, NextOfBatchType DEF MarkPublished, OutboxTypeOK
<1>5. CASE MarkError(r)
    BY <1>5, NextOfBatchType DEF MarkError, OutboxTypeOK
<1>6. CASE MarkRaises(r)
    <2>1. publisher' = [publisher EXCEPT ![r].pc = "error"] /\ publisher[r].row \in Rows
        BY <1>6 DEF MarkRaises, OutboxTypeOK
    <2>2. /\ publisher' \in [Replicas -> PublisherRecord]
          /\ \A s \in Replicas : publisher'[s].pc \in {"mark", "error"} => publisher'[s].row \in Rows
        BY <2>1 DEF OutboxTypeOK, PublisherRecord
    <2>3. /\ outbox' \in [Rows -> {"absent", "open", "claimed", "stale", "published"}]
          /\ faults' \in Nat
        BY <1>6 DEF MarkRaises, Fault, OutboxTypeOK
    <2> QED
        BY <1>6, <2>2, <2>3 DEF MarkRaises, OutboxTypeOK
<1>7. CASE PublisherDies(r)
    <2>1. /\ publisher' \in [Replicas -> PublisherRecord]
          /\ \A s \in Replicas : publisher'[s].pc \in {"mark", "error"} => publisher'[s].row \in Rows
        BY <1>7 DEF PublisherDies, Dead, OutboxTypeOK, PublisherRecord
    <2> QED
        BY <1>7, <2>1 DEF PublisherDies, Fault, OutboxTypeOK
<1> QED
    BY <1>1, <1>2, <1>3, <1>4, <1>5, <1>6, <1>7 DEF PublisherTurn, PublisherFault

LEMMA LogGrows ==
    ASSUME OutboxTypeOK, NEW r \in Replicas, PublisherTurn(r) \/ PublisherFault(r)
    PROVE  Len(log) \in Nat /\ Len(log') \in Nat /\ Len(log) <= Len(log')
<1>1. log' = log \/ \E n \in Rows : log' = Append(log, n)
    BY DEF PublisherTurn, PublisherFault, ClaimRows, PublishRow, PublishRaises, MarkPublished,
           MarkRaises, MarkError, PublisherDies, OutboxTypeOK, PublisherRecord
<1>2. log \in Seq(Records)
    BY DEF OutboxTypeOK, Records
<1> QED
    BY <1>1, <1>2, AppendOnTopic, RowsAreRecords

-----------------------------------------------------------------------------
(* What a step does to the rows and the topic *)

Quiet ==
    /\ OnTopic' = OnTopic
    /\ \A m \in Rows : /\ Stored(m)' <=> Stored(m)
                       /\ outbox'[m] = "published" <=> outbox[m] = "published"

Puts(n) ==
    /\ n \in Rows
    /\ Stored(n)
    /\ OnTopic' = OnTopic \cup {n}
    /\ outbox' = outbox

Settles(n) ==
    /\ n \in Rows
    /\ n \in OnTopic
    /\ OnTopic' = OnTopic
    /\ outbox' = [outbox EXCEPT ![n] = "published"]

Enqueues(n) ==
    /\ n \in Rows
    /\ ~Stored(n)
    /\ \A m \in Rows : Stored(m) <=> m <= n - 1
    /\ OnTopic' = OnTopic
    /\ outbox' = [outbox EXCEPT ![n] = "open"]

Visible == Quiet \/ \E n \in Rows : Puts(n) \/ Settles(n) \/ Enqueues(n)

LEMMA QuietClaim ==
    ASSUME OutboxTypeOK, NEW r \in Replicas, ClaimRows(r)
    PROVE  Quiet
<1> DEFINE b == {n \in Rows : Claimable(n) /\
                   Cardinality({m \in 1..(n - 1) : Claimable(m)}) < BatchLimit}
<1>1. outbox' = [n \in Rows |-> IF n \in b THEN "claimed" ELSE outbox[n]]
    BY DEF ClaimRows
<1>2. \A n \in b : outbox[n] \in {"open", "stale"}
    BY DEF Claimable
<1> HIDE DEF b
<1>3. OnTopic' = OnTopic
    BY DEF ClaimRows, OnTopic
<1> QED
    BY <1>1, <1>2, <1>3 DEF Quiet, Stored

LEMMA PublisherVisible ==
    ASSUME OutboxTypeOK, OutboxInv, NEW r \in Replicas, PublisherTurn(r) \/ PublisherFault(r)
    PROVE  Visible
<1>1. \A n \in Rows : log' = Append(log, n) => OnTopic' = OnTopic \cup {n}
    BY AppendOnTopic, RowsAreRecords DEF OutboxTypeOK, Records
<1>2. log' = log => OnTopic' = OnTopic
    BY DEF OnTopic
<1>3. \A n \in publisher[r].batch : n \in Rows /\ Stored(n)
    BY DEF OutboxInv, OutboxTypeOK, PublisherRecord
<1>4. UNCHANGED <<outbox, log>> => Quiet
    BY <1>2 DEF Quiet, Stored
<1>5. CASE ClaimRows(r)
    BY <1>5, QuietClaim DEF Visible
<1>6. CASE PublishRow(r)
    <2>1. PICK n \in publisher[r].batch : log' = Append(log, n)
        BY <1>6 DEF PublishRow
    <2>2. n \in Rows /\ Puts(n)
        BY <1>1, <1>3, <1>6, <2>1 DEF PublishRow, Puts
    <2> QED
        BY <2>2 DEF Visible
<1>7. CASE PublishRaises(r)
    <2>1. PICK n \in publisher[r].batch : log' \in {log, Append(log, n)}
        BY <1>7 DEF PublishRaises
    <2>2. n \in Rows /\ (Puts(n) \/ Quiet)
        BY <1>1, <1>3, <1>4, <1>7, <2>1 DEF PublishRaises, Puts
    <2> QED
        BY <2>2 DEF Visible
<1>8. CASE MarkPublished(r)
    <2>1. publisher[r].row \in Rows /\ publisher[r].row \in OnTopic
        BY <1>8 DEF MarkPublished, OutboxInv, OutboxTypeOK
    <2>2. Settles(publisher[r].row)
        BY <1>2, <1>8, <2>1 DEF MarkPublished, Settles
    <2> QED
        BY <2>1, <2>2 DEF Visible
<1>9. CASE MarkRaises(r)
    <2>1. publisher[r].row \in Rows /\ publisher[r].row \in OnTopic
        BY <1>9 DEF MarkRaises, OutboxInv, OutboxTypeOK
    <2>2. Settles(publisher[r].row) \/ Quiet
        BY <1>2, <1>4, <1>9, <2>1 DEF MarkRaises, Settles
    <2> QED
        BY <2>1, <2>2 DEF Visible
<1>10. CASE MarkError(r) \/ PublisherDies(r)
    BY <1>4, <1>10 DEF MarkError, PublisherDies, Visible
<1> QED
    BY <1>5, <1>6, <1>7, <1>8, <1>9, <1>10 DEF PublisherTurn, PublisherFault

LEMMA StaleVisible ==
    ASSUME OutboxTypeOK, NEW n \in Rows, ClaimGrowsStale(n)
    PROVE  Visible
<1>1. OnTopic' = OnTopic
    BY DEF ClaimGrowsStale, OnTopic
<1>2. outbox[n] = "claimed" /\ outbox' = [outbox EXCEPT ![n] = "stale"]
    BY DEF ClaimGrowsStale
<1> QED
    BY <1>1, <1>2 DEF Visible, Quiet, Stored, OutboxTypeOK

\* What a publisher has in hand.
HandsHold ==
    /\ \A r \in Replicas : \A n \in publisher[r].batch : Stored(n)
    /\ \A r \in Replicas : publisher[r].pc = "mark" => publisher[r].row \in OnTopic

LEMMA NextOfBatchHands ==
    ASSUME OutboxTypeOK, NEW r \in Replicas, NextOfBatch(r)
    PROVE  /\ publisher'[r].pc # "mark"
           /\ publisher'[r].batch = publisher[r].batch
           /\ \A s \in Replicas : s # r => publisher'[s] = publisher[s]
<1>1. CASE publisher[r].batch = {}
    <2>1. publisher' = [publisher EXCEPT ![r] = [pc |-> "poll", row |-> 0, batch |-> publisher[r].batch]]
        BY <1>1 DEF NextOfBatch
    <2> QED
        BY <2>1 DEF OutboxTypeOK
<1>2. CASE publisher[r].batch # {}
    <2>1. publisher' = [publisher EXCEPT ![r] = [pc |-> "publish", row |-> 0, batch |-> publisher[r].batch]]
        BY <1>2 DEF NextOfBatch
    <2> QED
        BY <2>1 DEF OutboxTypeOK
<1> QED
    BY <1>1, <1>2

LEMMA VisibleGrows ==
    ASSUME OutboxTypeOK, OutboxInv, Visible
    PROVE  /\ \A m \in Rows : Stored(m) => Stored(m)'
           /\ \A m \in OnTopic : m \in OnTopic'
<1>1. CASE Quiet
    BY <1>1 DEF Quiet
<1>2. CASE \E n \in Rows : Puts(n)
    BY <1>2 DEF Puts, Stored
<1>3. CASE \E n \in Rows : Settles(n) \/ Enqueues(n)
    BY <1>3 DEF Settles, Enqueues, Stored, OutboxTypeOK
<1> QED
    BY <1>1, <1>2, <1>3 DEF Visible

\* A step after which each publisher has in hand what it had, or rows that are there.
LEMMA HandsStep ==
    ASSUME OutboxTypeOK, OutboxInv, NEW r \in Replicas, PublisherTurn(r) \/ PublisherFault(r)
    PROVE  HandsHold'
<1>1. /\ \A m \in Rows : Stored(m) => Stored(m)'
      /\ \A m \in OnTopic : m \in OnTopic'
    BY PublisherVisible, VisibleGrows
<1>2. \A s \in Replicas : s # r => publisher'[s] = publisher[s]
    <2>1. CASE MarkPublished(r) \/ MarkError(r)
        BY <2>1, NextOfBatchHands DEF MarkPublished, MarkError
    <2>2. CASE ClaimRows(r) \/ PublishRow(r) \/ PublisherFault(r)
        BY <2>2 DEF ClaimRows, PublishRow, PublisherFault, PublishRaises, MarkRaises, PublisherDies,
                    OutboxTypeOK
    <2> QED
        BY <2>1, <2>2 DEF PublisherTurn
<1>3. /\ \A n \in publisher'[r].batch : n \in Rows /\ Stored(n)'
      /\ publisher'[r].pc = "mark" => publisher'[r].row \in OnTopic'
    <2>1. \A n \in publisher[r].batch : n \in Rows /\ Stored(n)'
        BY <1>1 DEF OutboxInv, OutboxTypeOK, PublisherRecord
    <2>2. CASE MarkPublished(r) \/ MarkError(r)
        BY <2>1, <2>2, NextOfBatchHands DEF MarkPublished, MarkError
    <2>3. CASE ClaimRows(r)
        <3> DEFINE b == {n \in Rows : Claimable(n) /\
                           Cardinality({m \in 1..(n - 1) : Claimable(m)}) < BatchLimit}
        <3>1. publisher' = [publisher EXCEPT ![r] = [pc |-> "publish", row |-> 0, batch |-> b]]
            BY <2>3 DEF ClaimRows
        <3>2. \A n \in b : n \in Rows /\ Stored(n)
            BY DEF Claimable, Stored
        <3> HIDE DEF b
        <3> QED
            BY <1>1, <3>1, <3>2 DEF OutboxTypeOK
    <2>4. CASE PublishRow(r)
        <3>1. PICK n \in publisher[r].batch :
                /\ log' = Append(log, n)
                /\ publisher' = [publisher EXCEPT ![r] =
                                    [pc |-> "mark", row |-> n, batch |-> publisher[r].batch \ {n}]]
            BY <2>4 DEF PublishRow
        <3>2. n \in OnTopic'
            BY <2>1, <3>1, AppendOnTopic, RowsAreRecords DEF OutboxTypeOK, Records
        <3>3. publisher'[r].row = n /\ publisher'[r].batch \subseteq publisher[r].batch
            BY <3>1 DEF OutboxTypeOK
        <3> QED
            BY <2>1, <3>2, <3>3
    <2>5. CASE PublishRaises(r)
        <3>1. PICK n \in publisher[r].batch :
                publisher' = [publisher EXCEPT ![r] =
                                    [pc |-> "error", row |-> n, batch |-> publisher[r].batch \ {n}]]
            BY <2>5 DEF PublishRaises
        <3>2. publisher'[r].pc = "error" /\ publisher'[r].batch \subseteq publisher[r].batch
            BY <3>1 DEF OutboxTypeOK
        <3> QED
            BY <2>1, <3>2
    <2>6. CASE MarkRaises(r)
        BY <2>1, <2>6 DEF MarkRaises, OutboxTypeOK, PublisherRecord
    <2>7. CASE PublisherDies(r)
        BY <2>7 DEF PublisherDies, Dead, OutboxTypeOK
    <2> QED
        BY <2>2, <2>3, <2>4, <2>5, <2>6, <2>7 DEF PublisherTurn, PublisherFault
<1>4. \A s \in Replicas : \A n \in publisher[s].batch : n \in Rows
    BY DEF OutboxTypeOK, PublisherRecord
<1> QED
    BY <1>1, <1>2, <1>3, <1>4 DEF HandsHold, OutboxInv

\* The rest of the invariant.
LEMMA VisibleInv ==
    ASSUME OutboxTypeOK, OutboxInv, Visible, HandsHold'
    PROVE  OutboxInv'
<1>t. OnTopic \subseteq Rows
    BY DEF OnTopic
<1>1. CASE Quiet
    BY <1>t, <1>1 DEF Quiet, OutboxInv, HandsHold
<1>2. CASE \E n \in Rows : Puts(n)
    BY <1>t, <1>2 DEF Puts, Stored, OutboxInv, HandsHold
<1>3. ASSUME NEW n \in Rows, Settles(n) PROVE OutboxInv'
    <2>1. \A m \in Rows : Stored(m)' <=> Stored(m)
        BY <1>3 DEF Settles, Stored, OutboxInv, OutboxTypeOK
    <2> QED
        BY <1>t, <1>3, <2>1 DEF Settles, OutboxInv, HandsHold, OutboxTypeOK
<1>4. ASSUME NEW n \in Rows, Enqueues(n) PROVE OutboxInv'
    <2>1. \A m \in Rows : Stored(m)' <=> m <= n
        BY <1>4, OutboxAssumption DEF Enqueues, Stored, OutboxTypeOK, Rows
    <2>2. n \in 0..RowCount
        BY OutboxAssumption DEF Rows
    <2>3. \A m \in Rows : outbox'[m] = "published" => outbox[m] = "published"
        BY <1>4 DEF Enqueues, OutboxTypeOK
    <2>4. \A m \in OnTopic' : m \in Rows /\ Stored(m)
        BY <1>t, <1>4 DEF Enqueues, OutboxInv
    <2>5. \A m \in Rows : Stored(m) => Stored(m)'
        BY <1>4 DEF Enqueues, Stored, OutboxTypeOK
    <2> QED
        BY <1>4, <2>1, <2>2, <2>3, <2>4, <2>5 DEF Enqueues, OutboxInv, HandsHold
<1> QED
    BY <1>1, <1>2, <1>3, <1>4 DEF Visible

LEMMA SenderStep ==
    ASSUME OutboxTypeOK, OutboxInv, Visible
    PROVE  Sender!Next \/ UNCHANGED Sender!vars
<1>1. CASE Quiet
    <2>1. {n \in Rows : Stored(n)}' = {n \in Rows : Stored(n)}
        BY <1>1 DEF Quiet
    <2>2. {n \in Rows : outbox[n] = "published"}' = {n \in Rows : outbox[n] = "published"}
        BY <1>1 DEF Quiet
    <2>3. OnTopic' = OnTopic
        BY <1>1 DEF Quiet
    <2> QED
        BY <2>1, <2>2, <2>3 DEF Sender!vars
<1>2. ASSUME NEW n \in Rows, Puts(n) PROVE Sender!Send(n)
    BY <1>2 DEF Puts, Stored, Sender!Send
<1>3. ASSUME NEW n \in Rows, Settles(n) PROVE Sender!Settle(n)
    <2>1. \A m \in Rows : Stored(m)' <=> Stored(m)
        BY <1>3 DEF Settles, Stored, OutboxInv, OutboxTypeOK
    <2>2. \A m \in Rows : outbox'[m] = "published" <=> (outbox[m] = "published" \/ m = n)
        BY <1>3 DEF Settles, OutboxTypeOK
    <2>3. {m \in Rows : Stored(m)}' = {m \in Rows : Stored(m)}
        BY <2>1
    <2>4. {m \in Rows : outbox[m] = "published"}'
            = {m \in Rows : outbox[m] = "published"} \cup {n}
        BY <2>2
    <2>5. n \in OnTopic /\ OnTopic' = OnTopic
        BY <1>3 DEF Settles
    <2> QED
        BY <2>3, <2>4, <2>5 DEF Sender!Settle
<1>4. ASSUME NEW n \in Rows, Enqueues(n) PROVE Sender!Owe(n)
    <2>1. \A m \in Rows : Stored(m)' <=> (Stored(m) \/ m = n)
        BY <1>4 DEF Enqueues, Stored, OutboxTypeOK
    <2>2. \A m \in Rows : outbox'[m] = "published" <=> outbox[m] = "published"
        BY <1>4 DEF Enqueues, Stored, OutboxTypeOK
    <2>3. {m \in Rows : Stored(m)}' = {m \in Rows : Stored(m)} \cup {n}
        BY <2>1
    <2>4. {m \in Rows : outbox[m] = "published"}' = {m \in Rows : outbox[m] = "published"}
        BY <2>2
    <2>5. OnTopic' = OnTopic
        BY <1>4 DEF Enqueues
    <2> QED
        BY <2>3, <2>4, <2>5 DEF Sender!Owe
<1> QED
    BY <1>1, <1>2, <1>3, <1>4 DEF Visible, Sender!Next

LEMMA SenderInit == OutboxInit => Sender!Init /\ OutboxInv
<1> SUFFICES ASSUME OutboxInit PROVE Sender!Init /\ OutboxInv
    OBVIOUS
<1>1. OnTopic = {} /\ \A m \in Rows : ~Stored(m) /\ outbox[m] # "published"
    BY DEF OutboxInit, OnTopic, Stored
<1>2. \A m \in Rows : Stored(m) <=> m <= 0
    BY <1>1, OutboxAssumption DEF Rows
<1>3. 0 \in 0..RowCount
    BY OutboxAssumption
<1> QED
    BY <1>1, <1>2, <1>3 DEF OutboxInit, OutboxInv, Polling, Sender!Init

-----------------------------------------------------------------------------
(* The delivery of results *)

LEMMA LatestIsLast ==
    ASSUME OutboxInv
    PROVE  /\ Latest \in Rows \cup {0}
           /\ \A m \in Rows : Stored(m) <=> m <= Latest
           /\ Latest # 0 => Stored(Latest)
<1>1. PICK n \in 0..RowCount : \A m \in Rows : Stored(m) <=> m <= n
    BY DEF OutboxInv
<1>2. n \in Rows \cup {0}
    BY <1>1, OutboxAssumption DEF Rows
<1>3. (n # 0 => Stored(n)) /\ \A m \in Rows : Stored(m) => m <= n
    BY <1>1, <1>2 DEF Rows
<1>4. \A k \in Rows \cup {0} :
        (k # 0 => Stored(k)) /\ (\A m \in Rows : Stored(m) => m <= k) => k = n
    BY <1>1, <1>2 DEF Rows
<1>5. Latest = n
    BY <1>2, <1>3, <1>4 DEF Latest
<1> QED
    BY <1>1, <1>2, <1>3, <1>5

-----------------------------------------------------------------------------
(* Types *)

TopicType ==
    /\ member \in Replicas \cup {NoReplica}
    /\ position \in 0..Len(log)
    /\ committed \in 0..Len(log)
    /\ relay \in [Replicas -> RelayRecord]

ReplicaType ==
    /\ direct \in [Replicas -> Rows \cup {0}]
    /\ cache \in [Replicas -> Rows \cup {0}]
    /\ relayed \in [Replicas -> BOOLEAN]
    /\ answers \in [Replicas -> SUBSET Rows]

CallerType ==
    /\ caller \in [Callers -> CallerRecord]
    /\ \A c \in Callers : caller[c].pc = "away" <=> caller[c].at = NoReplica
    /\ \A c \in Callers : caller[c].pc = "fill" => caller[c].value \in Rows
    /\ hub \subseteq Sockets
    /\ served \subseteq Sockets

Types == OutboxTypeOK /\ TopicType /\ ReplicaType /\ CallerType

LEMMA TypesInit == Init => Types
<1> SUFFICES ASSUME Init PROVE Types
    OBVIOUS
<1>1. OutboxTypeOK /\ Len(log) = 0
    BY OutboxTypeInit DEF Init, OutboxInit
<1>2. TopicType
    BY <1>1 DEF Init, IdleRelay, TopicType, RelayRecord
<1>3. ReplicaType
    BY DEF Init, ReplicaType
<1>4. CallerType
    BY DEF Init, CallerType, CallerRecord, Away
<1> QED
    BY <1>1, <1>2, <1>3, <1>4 DEF Types

LEMMA TopicGrows ==
    ASSUME TopicType, Len(log) \in Nat, Len(log') \in Nat, Len(log) <= Len(log'),
           UNCHANGED <<topicVars, relay>>
    PROVE  TopicType'
BY DEF TopicType, topicVars, RelayRecord

LEMMA RelayType ==
    ASSUME Types, NEW r \in Replicas, log' = log, committed' \in 0..Len(log),
           position' \in 0..Len(log), member' \in Replicas \cup {NoReplica},
           NEW rec \in RelayRecord, relay' = [relay EXCEPT ![r] = rec]
    PROVE  TopicType'
BY DEF Types, TopicType, RelayRecord

LEMMA OneCallerType ==
    ASSUME Types, NEW c \in Callers, NEW rec \in CallerRecord,
           rec.pc = "away" <=> rec.at = NoReplica, rec.pc = "fill" => rec.value \in Rows,
           caller' = [caller EXCEPT ![c] = rec], served' \subseteq Sockets,
           hub' \subseteq Sockets
    PROVE  CallerType'
BY DEF Types, CallerType, CallerRecord

LEMMA SameCallers ==
    ASSUME CallerType, UNCHANGED clientVars PROVE CallerType'
BY DEF CallerType, CallerRecord, clientVars

LEMMA SameReplicas ==
    ASSUME ReplicaType, UNCHANGED <<direct, cache, relayed, answers>> PROVE ReplicaType'
BY DEF ReplicaType

LEMMA SameTopic ==
    ASSUME OutboxTypeOK, TopicType, log' = log, UNCHANGED <<topicVars, relay>> PROVE TopicType'
BY DEF OutboxTypeOK, TopicType, topicVars, RelayRecord

LEMMA SameOutbox ==
    ASSUME OutboxTypeOK, UNCHANGED <<outbox, publisher, log>>, faults' \in Nat PROVE OutboxTypeOK'
BY DEF OutboxTypeOK, PublisherRecord

LEMMA FaultCounts ==
    ASSUME OutboxTypeOK, NEW kind, Fault(kind) PROVE faults' \in Nat
BY DEF OutboxTypeOK, Fault

LEMMA StaleType ==
    ASSUME OutboxTypeOK, NEW n \in Rows, ClaimGrowsStale(n) PROVE OutboxTypeOK'
<1>1. faults' \in Nat
    BY FaultCounts DEF ClaimGrowsStale, OutboxTypeOK
<1> QED
    BY <1>1 DEF ClaimGrowsStale, OutboxTypeOK, PublisherRecord

LEMMA OutboxSteps ==
    ASSUME Types, Alone,
           \/ \E r \in Replicas : PublisherTurn(r) \/ PublisherFault(r)
           \/ \E n \in Rows : ClaimGrowsStale(n)
    PROVE  Types'
<1>1. OutboxTypeOK'
    BY OutboxTypeStep, StaleType DEF Types
<1>2. Len(log) \in Nat /\ Len(log') \in Nat /\ Len(log) <= Len(log')
    <2>1. CASE \E r \in Replicas : PublisherTurn(r) \/ PublisherFault(r)
        BY <2>1, LogGrows DEF Types
    <2>2. CASE \E n \in Rows : ClaimGrowsStale(n)
        BY <2>2 DEF ClaimGrowsStale, Types, OutboxTypeOK
    <2> QED
        BY <2>1, <2>2
<1>3. UNCHANGED <<topicVars, relay>> /\ UNCHANGED clientVars
      /\ UNCHANGED <<direct, cache, relayed, answers>>
    BY DEF Alone, replicaVars
<1>4. TopicType'
    BY <1>2, <1>3, TopicGrows DEF Types
<1>5. ReplicaType' /\ CallerType'
    BY <1>3, SameReplicas, SameCallers DEF Types
<1> QED
    BY <1>1, <1>4, <1>5 DEF Types

LEMMA AnswerType ==
    ASSUME Types, NEW c \in Callers, NEW r \in Replicas, NEW n \in Rows,
           NEW sockets \in SUBSET (Sockets \cup {c}), Answer(c, r, n, sockets), hub' \subseteq Sockets
    PROVE  CallerType' /\ answers' \in [Replicas -> SUBSET Rows]
<1>1. answers' \in [Replicas -> SUBSET Rows]
    BY DEF Answer, Types, ReplicaType
<1>2. served' \subseteq Sockets
    BY DEF Answer, Types, CallerType
<1>3. CASE c \in Readers
    <2>1. Away \in CallerRecord /\ Away.pc = "away" /\ Away.at = NoReplica
        BY DEF Away, CallerRecord
    <2>2. caller' = [caller EXCEPT ![c] = Away]
        BY <1>3 DEF Answer
    <2> QED
        BY <1>1, <1>2, <2>1, <2>2, OneCallerType
<1>4. CASE c \notin Readers
    <2> DEFINE rec == [pc |-> "send", at |-> r, value |-> n, to |-> sockets, lost |-> {}]
    <2>1. sockets \in SUBSET Sockets
        BY <1>4 DEF Callers
    <2>2. rec \in CallerRecord /\ rec.pc = "send" /\ rec.at # NoReplica
        BY <2>1, DeliveryAssumption DEF CallerRecord
    <2>3. caller' = [caller EXCEPT ![c] = rec]
        BY <1>4 DEF Answer
    <2> HIDE DEF rec
    <2> QED
        BY <1>1, <1>2, <2>2, <2>3, OneCallerType
<1> QED
    BY <1>3, <1>4

LEMMA ResultSteps ==
    ASSUME Types, OutboxInv, NEW r \in Replicas, Finalize(r) \/ PublishDirectly(r)
    PROVE  Types'
<1>1. UNCHANGED <<topicVars, relay>> /\ UNCHANGED clientVars
    BY DEF Finalize, PublishDirectly
<1>2. CallerType'
    BY <1>1, SameCallers DEF Types
<1>3. CASE Finalize(r)
    <2>1. PICK n \in Rows : EnqueueOutbox(n) /\ direct' = [direct EXCEPT ![r] = n]
        BY <1>3 DEF Finalize
    <2>2. OutboxTypeOK'
        BY <1>3, <2>1 DEF Finalize, EnqueueOutbox, Types, OutboxTypeOK, PublisherRecord
    <2>3. ReplicaType'
        BY <1>3, <2>1 DEF Finalize, Types, ReplicaType
    <2>4. TopicType'
        BY <1>1, <1>3, SameTopic DEF Finalize, Types
    <2> QED
        BY <1>2, <2>2, <2>3, <2>4 DEF Types
<1>4. CASE PublishDirectly(r)
    <2>1. direct[r] \in Rows
        BY <1>4 DEF PublishDirectly, Types, ReplicaType
    <2>2. log \in Seq(Records) /\ (log' = log \/ log' = Append(log, direct[r]))
        BY <1>4 DEF PublishDirectly, Types, OutboxTypeOK, Records
    <2>3. log' \in Seq(Records) /\ Len(log') \in Nat /\ Len(log) \in Nat /\ Len(log) <= Len(log')
        BY <2>1, <2>2, AppendOnTopic, RowsAreRecords
    <2>4. faults' \in Nat
        BY <1>4, FaultCounts DEF PublishDirectly, Types, OutboxTypeOK
    <2>5. OutboxTypeOK'
        BY <1>4, <2>3, <2>4 DEF PublishDirectly, Types, OutboxTypeOK, PublisherRecord, Records
    <2>6. ReplicaType'
        BY <1>4 DEF PublishDirectly, Types, ReplicaType
    <2>7. TopicType'
        BY <1>1, <2>3, TopicGrows DEF Types
    <2> QED
        BY <1>2, <2>5, <2>6, <2>7 DEF Types
<1> QED
    BY <1>3, <1>4

\* The fetched record of the service itself.
LEMMA Fetched ==
    ASSUME Types, NEW r \in Replicas, NEW n \in Records, Fetches(r, n)
    PROVE  position + 1 \in 0..Len(log) /\ log[position + 1] = n /\ relay[r].pc = "idle"
BY DEF Fetches, Types, OutboxTypeOK, TopicType

RelayStep(r) == RelayTurn(r) \/ RelayFault(r) \/ Rebalance(r)

LEMMA RelayLeaves ==
    ASSUME Types, NEW r \in Replicas, RelayStep(r)
    PROVE  UNCHANGED <<outbox, publisher, log, direct, caller>> /\ faults' \in Nat
<1>1. UNCHANGED <<outbox, publisher, log, direct, caller>>
    BY DEF RelayStep, RelayTurn, RelayFault, HandleRecord, SkipInvalid, RelayChokes, RelayEnds,
           RelayDies, RelaySends, RelaySendRaises, RelayDrops, RelayCommits, RelayRaises, Rebalance,
           outboxVars, replicaVars, clientVars
<1>2. \/ faults' = faults
      \/ \E kind \in {"relay_error", "rebalance", "send_error", "iterator_error"} : Fault(kind)
    BY DEF RelayStep, RelayTurn, RelayFault, HandleRecord, SkipInvalid, RelayChokes, RelayDies,
           RelaySends, RelaySendRaises, RelayDrops, RelayCommits, RelayRaises, Rebalance, outboxVars
<1>3. faults' \in Nat
    BY <1>2, FaultCounts DEF Types, OutboxTypeOK
<1> QED
    BY <1>1, <1>3

LEMMA RelaySteps ==
    ASSUME Types, NEW r \in Replicas, RelayStep(r)
    PROVE  Types'
<1>1. UNCHANGED <<outbox, publisher, log, direct, caller>> /\ faults' \in Nat
    BY RelayLeaves
<1>3. OutboxTypeOK'
    BY <1>1, SameOutbox DEF Types
<1>4. log \in Seq(Records) /\ Len(log) \in Nat /\ 0 \in 0..Len(log)
    BY DEF Types, OutboxTypeOK, Records
<1>t. /\ committed \in 0..Len(log) /\ position \in 0..Len(log)
      /\ member \in Replicas \cup {NoReplica}
    BY DEF Types, TopicType
<1>5. CASE HandleRecord(r)
    <2>1. position + 1 \in 0..Len(log) /\ log[position + 1] \in Rows
        BY <1>5, Fetched, RowsAreRecords DEF HandleRecord
    <2>2. cache' \in [Replicas -> Rows \cup {0}] /\ cache'[r] \in Rows
        BY <1>5, <2>1 DEF HandleRecord, Types, ReplicaType
    <2>3. answers' \in [Replicas -> SUBSET Rows]
        BY <1>5, <2>2 DEF HandleRecord, Types, ReplicaType
    <2>4. ReplicaType'
        BY <1>1, <1>5, <2>2, <2>3 DEF HandleRecord, Types, ReplicaType
    <2>5. Connected(r) \in SUBSET Sockets
        BY DEF Connected, Types, CallerType
    <2>6. relay' = [relay EXCEPT ![r] = [pc |-> "send", record |-> position + 1, to |-> Connected(r),
                                        lost |-> {}]]
        BY <1>5 DEF HandleRecord
    <2>7. /\ position' = position + 1
          /\ UNCHANGED <<member, committed, log>>
          /\ UNCHANGED clientVars
        BY <1>1, <1>5 DEF HandleRecord
    <2>8. [pc |-> "send", record |-> position + 1, to |-> Connected(r), lost |-> {}] \in RelayRecord
        BY <2>1, <2>5 DEF RelayRecord
    <2>9. TopicType'
        BY <1>t, <2>1, <2>6, <2>7, <2>8, RelayType
    <2> QED
        BY <1>3, <2>4, <2>7, <2>9, SameCallers DEF Types
<1>6. CASE SkipInvalid(r)
    <2>1. position + 1 \in 0..Len(log)
        BY <1>6, Fetched DEF SkipInvalid, Records
    <2>2. relay' = [relay EXCEPT ![r] = [pc |-> "skip", record |-> position + 1, to |-> {},
                                        lost |-> {}]]
        BY <1>6 DEF SkipInvalid
    <2>r. [pc |-> "skip", record |-> position + 1, to |-> {}, lost |-> {}] \in RelayRecord
        BY <2>1 DEF RelayRecord
    <2>3. /\ position' = position + 1
          /\ UNCHANGED <<member, committed, log>>
          /\ UNCHANGED clientVars
          /\ UNCHANGED <<direct, cache, relayed, answers>>
        BY <1>1, <1>6 DEF SkipInvalid
    <2>4. TopicType'
        BY <1>t, <2>1, <2>2, <2>3, <2>r, RelayType
    <2> QED
        BY <1>3, <2>3, <2>4, SameCallers, SameReplicas DEF Types
<1>7. CASE RelayEnds(r)
    <2>1. relay' = [relay EXCEPT ![r] = [pc |-> "dead", record |-> 0, to |-> {}, lost |-> {}]]
        BY <1>7 DEF RelayEnds, DeadRelay
    <2>2. /\ UNCHANGED <<member, position, committed, log>>
          /\ UNCHANGED clientVars
          /\ UNCHANGED <<direct, cache, relayed, answers>>
        BY <1>7 DEF RelayEnds, topicVars
    <2>r. [pc |-> "dead", record |-> 0, to |-> {}, lost |-> {}] \in RelayRecord
        BY <1>4 DEF RelayRecord
    <2>3. TopicType'
        BY <1>t, <2>1, <2>2, <2>r, RelayType
    <2> QED
        BY <1>3, <2>2, <2>3, SameCallers, SameReplicas DEF Types
<1>8. CASE RelaySends(r) \/ RelaySendRaises(r) \/ RelayDrops(r)
    <2>1. relay[r] \in RelayRecord
        BY DEF Types, TopicType
    <2>2. PICK to \in SUBSET Sockets, lost \in SUBSET Sockets :
            relay' = [relay EXCEPT ![r].to = to, ![r].lost = lost]
        <3>1. CASE RelaySends(r)
            <4>1. PICK c \in relay[r].to : relay' = [relay EXCEPT ![r].to = relay[r].to \ {c}]
                BY <3>1 DEF RelaySends
            <4>2. relay' = [relay EXCEPT ![r].to = relay[r].to \ {c}, ![r].lost = relay[r].lost]
                BY <4>1 DEF Types, TopicType, RelayRecord
            <4> QED
                BY <2>1, <4>2 DEF RelayRecord
        <3>2. CASE RelaySendRaises(r)
            <4>1. PICK c \in relay[r].to :
                    relay' = [relay EXCEPT ![r].to = relay[r].to \ {c},
                                           ![r].lost = relay[r].lost \cup {c}]
                BY <3>2 DEF RelaySendRaises
            <4> QED
                BY <2>1, <4>1 DEF RelayRecord
        <3>3. CASE RelayDrops(r)
            <4>1. relay' = [relay EXCEPT ![r].to = relay[r].to, ![r].lost = {}]
                BY <3>3 DEF RelayDrops, Types, TopicType, RelayRecord
            <4> QED
                BY <2>1, <4>1 DEF RelayRecord
        <3> QED
            BY <1>8, <3>1, <3>2, <3>3
    <2>3. /\ UNCHANGED <<member, position, committed, log>>
          /\ UNCHANGED <<direct, cache, relayed, answers>>
        BY <1>8 DEF RelaySends, RelaySendRaises, RelayDrops, outboxVars, topicVars
    <2>4. TopicType'
        BY <2>1, <2>2, <2>3 DEF Types, TopicType, RelayRecord
    <2>5. served' \subseteq Sockets /\ hub' \subseteq Sockets
        BY <1>8, <2>1 DEF RelaySends, RelaySendRaises, RelayDrops, clientVars, Types, CallerType,
                          RelayRecord
    <2>6. CallerType'
        BY <1>1, <2>5 DEF Types, CallerType, CallerRecord
    <2> QED
        BY <1>3, <2>3, <2>4, <2>6, SameReplicas DEF Types
<1>9. CASE RelayCommits(r) \/ RelayRaises(r)
    <2>1. relay' = [relay EXCEPT ![r] = [pc |-> "idle", record |-> 0, to |-> {}, lost |-> {}]]
        BY <1>9 DEF RelayCommits, RelayRaises, HasSent, IdleRelay
    <2>2. /\ committed' \in 0..Len(log)
          /\ UNCHANGED <<member, position>>
          /\ UNCHANGED clientVars
          /\ UNCHANGED <<direct, cache, answers>>
        BY <1>9 DEF RelayCommits, RelayRaises, topicVars, Types, TopicType, RelayRecord
    <2>3. relayed' \in [Replicas -> BOOLEAN]
        BY <1>9 DEF RelayCommits, RelayRaises, HasSent, Types, ReplicaType
    <2>r. [pc |-> "idle", record |-> 0, to |-> {}, lost |-> {}] \in RelayRecord
        BY <1>4 DEF RelayRecord
    <2>4. TopicType'
        BY <1>1, <1>t, <2>1, <2>2, <2>r, RelayType
    <2>5. ReplicaType'
        BY <2>2, <2>3 DEF Types, ReplicaType
    <2> QED
        BY <1>3, <2>2, <2>4, <2>5, SameCallers DEF Types
<1>10. CASE Rebalance(r)
    <2>1. UNCHANGED clientVars /\ UNCHANGED <<direct, cache, relayed, answers>>
        BY <1>10 DEF Rebalance, replicaVars
    <2>2. TopicType'
        BY <1>1, <1>10 DEF Rebalance, replicaVars, Types, TopicType, RelayRecord
    <2> QED
        BY <1>3, <2>1, <2>2, SameCallers, SameReplicas DEF Types
<1> QED
    BY <1>5, <1>6, <1>7, <1>8, <1>9, <1>10
       DEF RelayStep, RelayTurn, RelayFault, RelayChokes, RelayDies

LEMMA ForeignSteps ==
    ASSUME Types, ForeignRecord
    PROVE  Types' /\ OnTopic' = OnTopic
<1>1. PICK n \in {Invalid, NotJson} : log' = Append(log, n)
    BY DEF ForeignRecord
<1>2. n \in Records /\ n \notin Rows /\ log \in Seq(Records)
    BY <1>1, Foreign DEF Records, Types, OutboxTypeOK
<1>3. log' \in Seq(Records) /\ Len(log') \in Nat /\ Len(log) \in Nat /\ Len(log) <= Len(log')
      /\ OnTopic' = OnTopic
    BY <1>1, <1>2, AppendOnTopic
<1>4. faults' \in Nat
    BY FaultCounts DEF ForeignRecord, Types
<1>5. OutboxTypeOK'
    BY <1>3, <1>4 DEF ForeignRecord, Types, OutboxTypeOK, PublisherRecord, Records
<1>6. UNCHANGED <<topicVars, relay>> /\ UNCHANGED clientVars
      /\ UNCHANGED <<direct, cache, relayed, answers>>
    BY DEF ForeignRecord, replicaVars
<1>7. TopicType'
    BY <1>3, <1>6, TopicGrows DEF Types
<1> QED
    BY <1>3, <1>5, <1>6, <1>7, SameReplicas, SameCallers DEF Types

LEMMA LookupSteps ==
    ASSUME Types, OutboxInv, NEW c \in Callers, NEW r \in Replicas,
           \/ ArriveHit(c, r) \/ ArriveMiss(c, r) \/ LookupReads(c) \/ LookupRaises(c)
           \/ LookupFills(c)
    PROVE  Types'
<1>1. UNCHANGED <<outbox, publisher, log>> /\ UNCHANGED <<topicVars, relay>>
      /\ UNCHANGED <<direct, relayed>>
    BY DEF ArriveHit, ArriveMiss, LookupReads, LookupRaises, LookupFills, outboxVars, replicaVars
<1>2. faults' \in Nat
    <2>1. faults' = faults \/ Fault("lookup_error")
        BY DEF ArriveHit, ArriveMiss, LookupReads, LookupRaises, LookupFills, outboxVars
    <2> QED
        BY <2>1, FaultCounts DEF Types, OutboxTypeOK
<1>3. OutboxTypeOK' /\ TopicType'
    BY <1>1, <1>2, SameOutbox, SameTopic DEF Types
<1>4. CASE ArriveHit(c, r)
    <2>1. cache[r] \in Rows
        BY <1>4 DEF ArriveHit, Types, ReplicaType
    <2>2. hub' \subseteq Sockets /\ Connected(r) \cup {c} \in SUBSET (Sockets \cup {c})
        BY <1>4 DEF ArriveHit, Registered, Connected, Types, CallerType
    <2>3. CallerType' /\ answers' \in [Replicas -> SUBSET Rows]
        BY <1>4, <2>1, <2>2, AnswerType DEF ArriveHit
    <2> QED
        BY <1>1, <1>3, <1>4, <2>3 DEF ArriveHit, Types, ReplicaType
<1>5. CASE ArriveMiss(c, r)
    <2> DEFINE rec == [pc |-> "lookup", at |-> r, value |-> 0, to |-> {}, lost |-> {}]
    <2>1. rec \in CallerRecord /\ rec.pc = "lookup" /\ rec.at # NoReplica
        BY DeliveryAssumption DEF CallerRecord
    <2>2. caller' = [caller EXCEPT ![c] = rec] /\ served' \subseteq Sockets /\ hub' \subseteq Sockets
        BY <1>5 DEF ArriveMiss, Registered, Types, CallerType
    <2> HIDE DEF rec
    <2>3. CallerType'
        BY <2>1, <2>2, OneCallerType
    <2>4. ReplicaType'
        BY <1>5, SameReplicas DEF ArriveMiss, Types, replicaVars
    <2> QED
        BY <1>3, <2>3, <2>4 DEF Types
<1>6. CASE LookupReads(c) \/ LookupRaises(c)
    <2>1. caller[c] \in CallerRecord /\ caller[c].pc = "lookup" /\ caller[c].at # NoReplica
        BY <1>6 DEF LookupReads, LookupRaises, Types, CallerType
    <2>2. PICK rec \in CallerRecord :
            /\ rec.pc = "away" <=> rec.at = NoReplica
            /\ rec.pc = "fill" => rec.value \in Rows
            /\ caller' = [caller EXCEPT ![c] = rec]
        <3>1. Away \in CallerRecord /\ Away.pc = "away" /\ Away.at = NoReplica
            BY DEF Away, CallerRecord
        <3>2. [caller[c] EXCEPT !.pc = "receive"] \in CallerRecord
            BY <2>1 DEF CallerRecord
        <3>3. /\ [caller[c] EXCEPT !.pc = "receive"].pc = "receive"
              /\ [caller[c] EXCEPT !.pc = "receive"].at = caller[c].at
            BY <2>1 DEF CallerRecord
        <3>4. CASE LookupReads(c) /\ Latest # 0
            <4>1. Latest \in Rows
                BY <3>4, LatestIsLast
            <4>2. caller' = [caller EXCEPT ![c] = [caller[c] EXCEPT !.pc = "fill", !.value = Latest]]
                BY <3>4 DEF LookupReads
            <4>3. [caller[c] EXCEPT !.pc = "fill", !.value = Latest] \in CallerRecord
                BY <2>1, <4>1 DEF CallerRecord
            <4>4. /\ [caller[c] EXCEPT !.pc = "fill", !.value = Latest].pc = "fill"
                  /\ [caller[c] EXCEPT !.pc = "fill", !.value = Latest].value = Latest
                  /\ [caller[c] EXCEPT !.pc = "fill", !.value = Latest].at = caller[c].at
                BY <2>1 DEF CallerRecord
            <4> QED
                BY <2>1, <4>1, <4>2, <4>3, <4>4
        <3>5. CASE LookupRaises(c) \/ Latest = 0
            <4>1. caller' = [caller EXCEPT ![c] = WithoutResult(c)]
                BY <1>6, <3>5 DEF LookupReads, LookupRaises
            <4>2. CASE c \in Readers
                BY <3>1, <4>1, <4>2 DEF WithoutResult
            <4>3. CASE c \notin Readers
                BY <2>1, <3>2, <3>3, <4>1, <4>3 DEF WithoutResult
            <4> QED
                BY <4>2, <4>3
        <3> QED
            BY <1>6, <3>4, <3>5
    <2>3. served' \subseteq Sockets /\ hub' \subseteq Sockets
        BY <1>6 DEF LookupReads, LookupRaises, Types, CallerType
    <2>4. CallerType'
        BY <2>2, <2>3, OneCallerType
    <2>5. ReplicaType'
        BY <1>6, SameReplicas DEF LookupReads, LookupRaises, Types, replicaVars
    <2> QED
        BY <1>3, <2>4, <2>5 DEF Types
<1>7. CASE LookupFills(c)
    <2>1. caller[c].at \in Replicas /\ caller[c].value \in Rows
        BY <1>7 DEF LookupFills, Types, CallerType, CallerRecord
    <2>2. cache' \in [Replicas -> Rows \cup {0}] /\ cache'[caller[c].at] \in Rows
        BY <1>7, <2>1 DEF LookupFills, Types, ReplicaType
    <2>3. /\ Answer(c, caller[c].at, cache'[caller[c].at], Connected(caller[c].at))
          /\ hub' \subseteq Sockets
          /\ Connected(caller[c].at) \in SUBSET (Sockets \cup {c})
        BY <1>7 DEF LookupFills, Connected, Types, CallerType
    <2>4. CallerType' /\ answers' \in [Replicas -> SUBSET Rows]
        BY <2>1, <2>2, <2>3, AnswerType
    <2> QED
        BY <1>1, <1>3, <2>2, <2>4 DEF Types, ReplicaType
<1> QED
    BY <1>4, <1>5, <1>6, <1>7

LEMMA SocketSteps ==
    ASSUME Types, NEW c \in Callers,
           \/ CallerSends(c) \/ CallerSendRaises(c) \/ CallerDrops(c) \/ CallerSent(c)
           \/ Leave(c)
    PROVE  Types'
<1>1. UNCHANGED <<outbox, publisher, log>> /\ UNCHANGED topicVars
      /\ UNCHANGED <<direct, cache, relayed, answers>>
    BY DEF CallerSends, CallerSendRaises, CallerDrops, CallerSent, Leave, outboxVars, replicaVars,
           topicVars
<1>2. faults' \in Nat
    <2>1. faults' = faults \/ Fault("leave") \/ Fault("send_error")
        BY DEF CallerSends, CallerSendRaises, CallerDrops, CallerSent, Leave, outboxVars
    <2> QED
        BY <2>1, FaultCounts DEF Types, OutboxTypeOK
<1>3. OutboxTypeOK' /\ ReplicaType'
    BY <1>1, <1>2, SameOutbox, SameReplicas DEF Types
<1>c. caller[c] \in CallerRecord
    BY DEF Types, CallerType
<1>4. CASE CallerSends(c) \/ CallerSendRaises(c) \/ CallerDrops(c)
    <2>1. PICK to \in SUBSET Sockets, lost \in SUBSET Sockets :
            caller' = [caller EXCEPT ![c] = [caller[c] EXCEPT !.to = to, !.lost = lost]]
        <3>1. CASE CallerSends(c)
            <4>1. PICK d \in caller[c].to : caller' = [caller EXCEPT ![c].to = caller[c].to \ {d}]
                BY <3>1 DEF CallerSends
            <4>2. caller' = [caller EXCEPT ![c] = [caller[c] EXCEPT !.to = caller[c].to \ {d},
                                                                  !.lost = caller[c].lost]]
                BY <4>1 DEF Types, CallerType, CallerRecord
            <4> QED
                BY <1>c, <4>2 DEF CallerRecord
        <3>2. CASE CallerSendRaises(c)
            <4>1. PICK d \in caller[c].to :
                    caller' = [caller EXCEPT ![c] = [caller[c] EXCEPT !.to = caller[c].to \ {d},
                                                    !.lost = caller[c].lost \cup {d}]]
                BY <3>2 DEF CallerSendRaises, Types, CallerType
            <4> QED
                BY <1>c, <4>1 DEF CallerRecord
        <3>3. CASE CallerDrops(c)
            <4>1. caller' = [caller EXCEPT ![c] = [caller[c] EXCEPT !.to = caller[c].to, !.lost = {}]]
                BY <3>3 DEF CallerDrops, Types, CallerType, CallerRecord
            <4> QED
                BY <1>c, <4>1 DEF CallerRecord
        <3> QED
            BY <1>4, <3>1, <3>2, <3>3
    <2>2. served' \subseteq Sockets /\ hub' \subseteq Sockets
        BY <1>4, <1>c DEF CallerSends, CallerSendRaises, CallerDrops, Types, CallerType, CallerRecord
    <2> DEFINE rec == [caller[c] EXCEPT !.to = to, !.lost = lost]
    <2>r. rec \in CallerRecord /\ rec.pc = caller[c].pc /\ rec.at = caller[c].at
          /\ rec.value = caller[c].value
        BY <1>c DEF CallerRecord
    <2>v. /\ rec.pc = "away" <=> rec.at = NoReplica
          /\ rec.pc = "fill" => rec.value \in Rows
        BY <2>r DEF Types, CallerType
    <2>c. caller' = [caller EXCEPT ![c] = rec]
        BY <2>1
    <2> HIDE DEF rec
    <2>3. CallerType'
        BY <2>2, <2>r, <2>v, <2>c, OneCallerType
    <2>4. TopicType'
        BY <1>1, <1>4, SameTopic DEF CallerSends, CallerSendRaises, CallerDrops, replicaVars, Types
    <2> QED
        BY <1>3, <2>3, <2>4 DEF Types
<1>5. CASE CallerSent(c)
    <2>1. caller' = [caller EXCEPT ![c].pc = "receive"] /\ served' = served /\ hub' = hub
          /\ caller[c].at # NoReplica
        BY <1>5 DEF CallerSent, Types, CallerType
    <2>2. CallerType'
        BY <2>1 DEF Types, CallerType, CallerRecord
    <2>3. TopicType'
        BY <1>1, <1>5, SameTopic DEF CallerSent, replicaVars, Types
    <2> QED
        BY <1>3, <2>2, <2>3 DEF Types
<1>6. CASE Leave(c)
    <2>1. relay' \in [Replicas -> RelayRecord]
        BY <1>6 DEF Leave, Without, Types, TopicType, RelayRecord
    <2>2. TopicType'
        BY <1>1, <2>1 DEF topicVars, Types, TopicType, RelayRecord
    <2>3. Away \in CallerRecord /\ Away.pc = "away" /\ Away.at = NoReplica
        BY DEF Away, CallerRecord
    <2>4. ASSUME NEW d \in Callers
          PROVE  /\ caller'[d] \in CallerRecord
                 /\ caller'[d].pc = "away" <=> caller'[d].at = NoReplica
                 /\ caller'[d].pc = "fill" => caller'[d].value \in Rows
        <3>1. CASE d = c
            BY <1>6, <2>3, <3>1 DEF Leave
        <3>2. CASE d # c
            <4>1. caller'[d] = [caller[d] EXCEPT !.to = @ \ {c}, !.lost = @ \ {c}]
                BY <1>6, <3>2 DEF Leave, Without
            <4> QED
                BY <4>1 DEF Types, CallerType, CallerRecord
        <3> QED
            BY <3>1, <3>2
    <2>5. caller' = [d \in Callers |-> caller'[d]] /\ served' \subseteq Sockets /\ hub' \subseteq Sockets
        BY <1>6 DEF Leave, Types, CallerType
    <2>6. CallerType'
        BY <2>4, <2>5 DEF CallerType, CallerRecord
    <2> QED
        BY <1>3, <2>2, <2>6 DEF Types
<1> QED
    BY <1>4, <1>5, <1>6

LEMMA CrashSteps ==
    ASSUME Types, NEW r \in Replicas, Crash(r) \/ Restart(r)
    PROVE  Types'
<1>1. CASE Restart(r)
    <2>1. OutboxTypeOK'
        BY <1>1 DEF Restart, Polling, Types, OutboxTypeOK, PublisherRecord
    <2>2. TopicType' /\ ReplicaType' /\ CallerType'
        BY <1>1, SameTopic, SameReplicas, SameCallers DEF Restart, replicaVars, Types
    <2> QED
        BY <2>1, <2>2 DEF Types
<1>2. CASE Crash(r)
    <2>1. faults' \in Nat
        BY <1>2, FaultCounts DEF Crash, Types
    <2>2. OutboxTypeOK'
        BY <1>2, <2>1 DEF Crash, Down, Types, OutboxTypeOK, PublisherRecord
    <2>3. relay' = [relay EXCEPT ![r] = [pc |-> "idle", record |-> 0, to |-> {}, lost |-> {}]]
        BY <1>2 DEF Crash, IdleRelay
    <2>4. /\ log' = log
          /\ committed' \in 0..Len(log)
          /\ position' \in 0..Len(log)
          /\ member' \in Replicas \cup {NoReplica}
          /\ 0 \in 0..Len(log)
        BY <1>2 DEF Crash, Types, TopicType, OutboxTypeOK
    <2>5. TopicType'
        BY <2>3, <2>4 DEF Types, TopicType, RelayRecord
    <2>6. ReplicaType'
        BY <1>2 DEF Crash, Types, ReplicaType
    <2>7. CallerType'
        BY <1>2 DEF Crash, Away, Types, CallerType, CallerRecord
    <2> QED
        BY <2>2, <2>5, <2>6, <2>7 DEF Types
<1> QED
    BY <1>1, <1>2

LEMMA TypesStep == Types /\ OutboxInv /\ [Next]_vars => Types'
<1> SUFFICES ASSUME Types, OutboxInv, [Next]_vars PROVE Types'
    OBVIOUS
<1>1. CASE \E n \in Rows : RowGrowsStale(n)
    BY <1>1, OutboxSteps DEF RowGrowsStale
<1>0. CASE ForeignRecord
    BY <1>0, ForeignSteps
<1>2. ASSUME NEW r \in Replicas, ReplicaStep(r) PROVE Types'
    BY <1>2, OutboxSteps, ResultSteps, RelaySteps, CrashSteps
       DEF ReplicaStep, RelayStep, OutboxTurn, OutboxFault
<1>3. ASSUME NEW c \in Callers, CallerStep(c) PROVE Types'
    <2>1. CASE \E r \in Replicas : ArriveHit(c, r) \/ ArriveMiss(c, r)
        BY <2>1, LookupSteps
    <2>2. CASE LookupReads(c) \/ LookupRaises(c) \/ LookupFills(c)
        <3>1. caller[c].at \in Replicas
            BY <2>2 DEF LookupReads, LookupRaises, LookupFills, Types, CallerType, CallerRecord
        <3> QED
            BY <2>2, <3>1, LookupSteps
    <2>3. CASE \/ CallerSends(c) \/ CallerSendRaises(c) \/ CallerDrops(c) \/ CallerSent(c)
               \/ Leave(c)
        BY <2>3, SocketSteps
    <2> QED
        BY <1>3, <2>1, <2>2, <2>3 DEF CallerStep, CallerTurn
<1>4. CASE UNCHANGED vars
    <2>1. OutboxTypeOK'
        BY <1>4 DEF vars, outboxVars, Types, OutboxTypeOK, PublisherRecord
    <2>2. TopicType' /\ ReplicaType' /\ CallerType'
        BY <1>4, SameTopic, SameReplicas, SameCallers DEF vars, outboxVars, replicaVars, Types
    <2> QED
        BY <2>1, <2>2 DEF Types
<1> QED
    BY <1>0, <1>1, <1>2, <1>3, <1>4 DEF Next

-----------------------------------------------------------------------------
(* The outbox and the direct publishes *)

\* What a replica is about to publish directly is stored.
DirectHolds == \A r \in Replicas : direct[r] # 0 => Stored(direct[r])

\* A step by which no publisher takes anything in hand.
LEMMA HandsKept ==
    ASSUME OutboxTypeOK, OutboxInv, Visible,
           \A r \in Replicas : publisher'[r] \in {publisher[r], Down, Polling}
    PROVE  HandsHold'
<1>1. /\ \A m \in Rows : Stored(m) => Stored(m)'
      /\ \A m \in OnTopic : m \in OnTopic'
    BY VisibleGrows
<1>2. \A s \in Replicas : \A n \in publisher[s].batch : n \in Rows
    BY DEF OutboxTypeOK, PublisherRecord
<1> QED
    BY <1>1, <1>2 DEF HandsHold, OutboxInv, Down, Polling

LEMMA FinalizeEnqueues ==
    ASSUME Types, OutboxInv, NEW r \in Replicas, Finalize(r)
    PROVE  \E n \in Rows : Enqueues(n) /\ direct' = [direct EXCEPT ![r] = n]
<1>1. PICK n \in Rows : /\ n = Latest + 1
                        /\ EnqueueOutbox(n)
                        /\ direct' = [direct EXCEPT ![r] = n]
    BY DEF Finalize
<1>2. OnTopic' = OnTopic
    BY DEF Finalize, OnTopic
<1>3. ~Stored(n) /\ \A m \in Rows : Stored(m) <=> m <= n - 1
    BY <1>1, LatestIsLast DEF Rows
<1> QED
    BY <1>1, <1>2, <1>3 DEF Enqueues, EnqueueOutbox

LEMMA StepVisible ==
    ASSUME Types, OutboxInv, DirectHolds, [Next]_vars
    PROVE  Visible /\ HandsHold'
<1> USE DEF Types
<1>q. UNCHANGED <<outbox, log>> => Visible
    BY DEF Visible, Quiet, Stored, OnTopic
<1>1. CASE \E r \in Replicas : PublisherTurn(r) \/ PublisherFault(r)
    BY <1>1, PublisherVisible, HandsStep
<1>2. CASE \E n \in Rows : ClaimGrowsStale(n)
    BY <1>2, StaleVisible, HandsKept DEF ClaimGrowsStale
<1>3. CASE \E r \in Replicas : Finalize(r)
    <2>1. Visible
        BY <1>3, FinalizeEnqueues DEF Visible
    <2> QED
        BY <1>3, <2>1, HandsKept DEF Finalize
<1>4. ASSUME NEW r \in Replicas, PublishDirectly(r) PROVE Visible /\ HandsHold'
    <2>1. direct[r] \in Rows /\ Stored(direct[r])
        BY <1>4 DEF PublishDirectly, ReplicaType, DirectHolds
    <2>2. CASE log' = Append(log, direct[r])
        <3>1. OnTopic' = OnTopic \cup {direct[r]}
            BY <2>1, <2>2, AppendOnTopic, RowsAreRecords DEF OutboxTypeOK, Records
        <3>2. Puts(direct[r])
            BY <1>4, <2>1, <3>1 DEF PublishDirectly, Puts
        <3> QED
            BY <1>4, <2>1, <3>2, HandsKept DEF PublishDirectly, Visible
    <2>3. CASE log' = log
        BY <1>q, <1>4, <2>3, HandsKept DEF PublishDirectly
    <2> QED
        BY <1>4, <2>2, <2>3 DEF PublishDirectly
<1>5. CASE \E r \in Replicas : Crash(r) \/ Restart(r)
    <2>1. Visible
        BY <1>q, <1>5 DEF Crash, Restart
    <2>2. \A r \in Replicas : publisher'[r] \in {publisher[r], Down, Polling}
        BY <1>5 DEF Crash, Restart, OutboxTypeOK
    <2> QED
        BY <2>1, <2>2, HandsKept
<1>6. CASE UNCHANGED <<outbox, publisher, log>>
    BY <1>q, <1>6, HandsKept
<1>7. CASE \E r \in Replicas : RelayStep(r)
    <2>1. UNCHANGED <<outbox, publisher, log>>
        BY <1>7, RelayLeaves
    <2> QED
        BY <1>6, <2>1
<1>8. CASE \E c \in Callers : CallerStep(c)
    <2>1. UNCHANGED <<outbox, publisher, log>>
        BY <1>8 DEF CallerStep, CallerTurn, ArriveHit, ArriveMiss, LookupReads, LookupRaises,
                    LookupFills, CallerSends, CallerSendRaises, CallerDrops, CallerSent, Leave,
                    outboxVars
    <2> QED
        BY <1>6, <2>1
<1>9. CASE UNCHANGED vars
    BY <1>6, <1>9 DEF vars, outboxVars
<1>10. CASE ForeignRecord
    <2>1. Visible
        BY <1>10, ForeignSteps DEF ForeignRecord, Visible, Quiet, Stored
    <2> QED
        BY <1>10, <2>1, HandsKept DEF ForeignRecord
<1> QED
    BY <1>1, <1>2, <1>3, <1>4, <1>5, <1>7, <1>8, <1>9, <1>10
       DEF Next, ReplicaStep, RelayStep, OutboxTurn, OutboxFault, RowGrowsStale

LEMMA DirectStep ==
    ASSUME Types, OutboxInv, DirectHolds, [Next]_vars
    PROVE  DirectHolds'
<1>1. \A m \in Rows : Stored(m) => Stored(m)'
    BY StepVisible, VisibleGrows DEF Types
<1>2. CASE \A r \in Replicas : direct'[r] \in {direct[r], 0}
    BY <1>1, <1>2 DEF DirectHolds, Types, ReplicaType
<1>3. ASSUME NEW r \in Replicas, Finalize(r) PROVE DirectHolds'
    <2>1. PICK n \in Rows : Enqueues(n) /\ direct' = [direct EXCEPT ![r] = n]
        BY <1>3, FinalizeEnqueues
    <2>2. Stored(n)'
        BY <2>1 DEF Enqueues, Stored, Types, OutboxTypeOK
    <2> QED
        BY <1>1, <2>1, <2>2 DEF DirectHolds, Types, ReplicaType
<1>4. CASE \E r \in Replicas : PublishDirectly(r) \/ Crash(r)
    BY <1>2, <1>4 DEF PublishDirectly, Crash, Types, ReplicaType
<1>5. CASE UNCHANGED direct
    BY <1>2, <1>5
<1>6. ASSUME NEW r \in Replicas, ReplicaStep(r), ~Finalize(r), ~PublishDirectly(r), ~Crash(r)
      PROVE  UNCHANGED direct
    BY <1>6, RelayLeaves DEF ReplicaStep, RelayStep, OutboxTurn, OutboxFault, Alone, Restart,
                             replicaVars
<1>7. ASSUME NEW c \in Callers, CallerStep(c) PROVE UNCHANGED direct
    BY <1>7 DEF CallerStep, CallerTurn, ArriveHit, ArriveMiss, LookupReads, LookupRaises,
                LookupFills, CallerSends, CallerSendRaises, CallerDrops, CallerSent, Leave,
                replicaVars
<1>8. CASE UNCHANGED vars \/ ForeignRecord \/ \E n \in Rows : RowGrowsStale(n)
    BY <1>5, <1>8 DEF vars, ForeignRecord, RowGrowsStale, Alone, replicaVars
<1> QED
    BY <1>3, <1>4, <1>5, <1>6, <1>7, <1>8 DEF Next

Delivered == Types /\ OutboxInv /\ DirectHolds

LEMMA DeliveredInit == Init => Delivered
<1>1. Init => DirectHolds
    BY DEF Init, DirectHolds
<1> QED
    BY <1>1, TypesInit, SenderInit DEF Delivered, Init

LEMMA DeliveredStep == Delivered /\ [Next]_vars => Delivered'
BY TypesStep, StepVisible, VisibleInv, DirectStep DEF Delivered, Types

\* Every variable keeps its type: no offset passes the end of the topic, no handler
\* runs at a replica that is not there (repository.py, outbox.py, manual_consumer.py,
\* result_aggregator.py, websocket.py).
THEOREM TypeCorrect == Spec => []TypeOK
<1>1. Delivered => TypeOK
    BY DEF Delivered, Types, TopicType, ReplicaType, CallerType, TypeOK
<1> QED
    BY <1>1, DeliveredInit, DeliveredStep, PTL DEF Spec

\* The outbox and its publishers are an at-least-once sender: only what is stored comes
\* on the topic, and only what is there is marked published (services/outbox.py).
THEOREM AtLeastOnceRefined == Spec => RefinesAtLeastOnce
<1>1. Init => Sender!Init
    BY SenderInit DEF Init
<1>2. Delivered /\ [Next]_vars => [Sender!Next]_Sender!vars
    BY StepVisible, SenderStep DEF Delivered, Types
<1> QED
    BY <1>1, <1>2, DeliveredInit, DeliveredStep, PTL DEF Spec, RefinesAtLeastOnce, Sender!Spec

-----------------------------------------------------------------------------
(* Who has been told what *)

LEMMA AnswerInit == Init => OneAnswerPerLife
BY DEF Init, OneAnswerPerLife

LEMMA AnswerStep ==
    ASSUME Types, OneAnswerPerLife, [Next]_vars
    PROVE  OneAnswerPerLife'
<1>1. CASE UNCHANGED <<cache, answers>>
    BY <1>1 DEF OneAnswerPerLife
<1>2. ASSUME NEW r \in Replicas, HandleRecord(r) PROVE OneAnswerPerLife'
    <2>1. log[position + 1] \in Rows
        BY <1>2 DEF HandleRecord, Fetches
    <2>2. cache' = [cache EXCEPT ![r] = IF @ = 0 THEN log[position + 1] ELSE @]
        BY <1>2 DEF HandleRecord
    <2>3. cache'[r] # 0 /\ (cache[r] # 0 => cache'[r] = cache[r])
        BY <2>1, <2>2 DEF Types, ReplicaType, Rows
    <2>4. answers' = [answers EXCEPT ![r] = @ \cup {cache'[r]}]
        BY <1>2 DEF HandleRecord
    <2>5. \A q \in Replicas : q # r => cache'[q] = cache[q] /\ answers'[q] = answers[q]
        BY <2>2, <2>4 DEF Types, ReplicaType
    <2>6. answers'[r] = answers[r] \cup {cache'[r]}
        BY <2>4 DEF Types, ReplicaType
    <2> QED
        BY <2>3, <2>5, <2>6 DEF OneAnswerPerLife
<1>3. ASSUME NEW c \in Callers, NEW r \in Replicas, ArriveHit(c, r) PROVE OneAnswerPerLife'
    BY <1>3 DEF ArriveHit, Answer, OneAnswerPerLife, Types, ReplicaType
<1>4. ASSUME NEW c \in Callers, LookupFills(c) PROVE OneAnswerPerLife'
    <2> DEFINE r == caller[c].at
    <2>1. r \in Replicas /\ caller[c].value \in Rows
        BY <1>4 DEF LookupFills, Types, CallerType, CallerRecord
    <2>2. cache' = [cache EXCEPT ![r] = IF @ = 0 THEN caller[c].value ELSE @]
        BY <1>4 DEF LookupFills
    <2>3. cache'[r] # 0 /\ (cache[r] # 0 => cache'[r] = cache[r])
        BY <2>1, <2>2 DEF Types, ReplicaType, Rows
    <2>4. answers' = [answers EXCEPT ![r] = @ \cup {cache'[r]}]
        BY <1>4 DEF LookupFills, Answer
    <2>5. \A q \in Replicas : q # r => cache'[q] = cache[q] /\ answers'[q] = answers[q]
        BY <2>2, <2>4 DEF Types, ReplicaType
    <2>6. answers'[r] = answers[r] \cup {cache'[r]}
        BY <2>1, <2>4 DEF Types, ReplicaType
    <2> HIDE DEF r
    <2> QED
        BY <2>3, <2>5, <2>6 DEF OneAnswerPerLife
<1>5. ASSUME NEW r \in Replicas, Crash(r) PROVE OneAnswerPerLife'
    BY <1>5 DEF Crash, OneAnswerPerLife, Types, ReplicaType
<1>6. ASSUME NEW r \in Replicas, ReplicaStep(r), ~HandleRecord(r), ~Crash(r)
      PROVE  UNCHANGED <<cache, answers>>
    BY <1>6 DEF ReplicaStep, OutboxTurn, OutboxFault, Alone, Finalize, PublishDirectly, RelayTurn,
                RelayFault, SkipInvalid, RelayChokes, RelayEnds, RelayDies, RelaySends,
                RelaySendRaises, RelayDrops, RelayCommits, RelayRaises, Rebalance, Restart,
                replicaVars
<1>7. ASSUME NEW c \in Callers, CallerStep(c), ~LookupFills(c),
             ~\E r \in Replicas : ArriveHit(c, r)
      PROVE  UNCHANGED <<cache, answers>>
    BY <1>7 DEF CallerStep, CallerTurn, ArriveMiss, LookupReads, LookupRaises, CallerSends,
                CallerSendRaises, CallerDrops, CallerSent, Leave, replicaVars
<1>8. CASE UNCHANGED vars \/ ForeignRecord \/ \E n \in Rows : RowGrowsStale(n)
    BY <1>1, <1>8 DEF vars, ForeignRecord, RowGrowsStale, Alone, replicaVars
<1> QED
    BY <1>1, <1>2, <1>3, <1>4, <1>5, <1>6, <1>7, <1>8 DEF Next

\* Between two starts a replica gives one and the same answer, on every socket and every
\* request (setdefault in get_result, the cache in handle_processed_result).
THEOREM OneAnswer == Spec => []OneAnswerPerLife
<1>1. Delivered /\ OneAnswerPerLife /\ [Next]_vars => OneAnswerPerLife'
    BY AnswerStep DEF Delivered
<1> QED
    BY <1>1, AnswerInit, DeliveredInit, DeliveredStep, PTL DEF Spec

\* A registered socket that nobody has sent a result to.
Waits(c) ==
    /\ c \in hub
    /\ c \notin served
    /\ caller[c].pc \in {"lookup", "fill", "receive"}

\* A broadcast has the socket before it, or has failed on it and will drop it.
Reaches(broadcast, c) == c \in broadcast.to \cup broadcast.lost

\* What the next broadcast does for it.
WillHear(c) ==
    /\ ~relayed[caller[c].at]
    /\ relay[caller[c].at].pc = "send" => Reaches(relay[caller[c].at], c)

\* A replica that has relayed has a result; a socket that still waits has not been
\* passed over; a handler that has its result sends it to its own socket too.
SocketInv ==
    /\ \A r \in Replicas : relayed[r] \/ relay[r].pc = "send" => cache[r] # 0
    /\ \A c \in hub : Waits(c) => WillHear(c)
    /\ \A c \in hub : caller[c].pc = "send" /\ c \notin served => Reaches(caller[c], c)

LEMMA SocketInit == Init => SocketInv
BY DEF Init, IdleRelay, SocketInv, Waits

LEMMA SocketQuiet ==
    ASSUME SocketInv, UNCHANGED <<relay, cache, relayed, caller, hub, served>>
    PROVE  SocketInv'
BY DEF SocketInv, Waits, WillHear, Reaches

\* A registered socket's handler runs at a replica.
LEMMA WaitsSomewhere ==
    ASSUME Types, NEW c \in hub, Waits(c)
    PROVE  c \in Sockets /\ c \in Callers /\ caller[c].at \in Replicas
BY DEF Types, CallerType, CallerRecord, Callers, Waits

\* A step of the relay of r that adds nothing to the hub and leaves no waiting socket
\* that it passes over.
LEMMA SocketOneRelay ==
    ASSUME Types, SocketInv, NEW r \in Replicas, UNCHANGED caller,
           \A q \in Replicas : q # r => /\ relay'[q] = relay[q]
                                        /\ relayed'[q] = relayed[q]
                                        /\ cache'[q] = cache[q],
           relayed'[r] \/ relay'[r].pc = "send" => cache'[r] # 0,
           hub' \subseteq hub, served \subseteq served',
           \A c \in hub' : Waits(c) /\ c \notin served' /\ caller[c].at = r =>
                /\ ~relayed'[r]
                /\ relay'[r].pc = "send" => Reaches(relay'[r], c)
    PROVE  SocketInv'
<1>1. \A c \in hub' : Waits(c)' => Waits(c) /\ c \in hub
    BY DEF Waits
<1>2. ASSUME NEW c \in hub', Waits(c)' PROVE WillHear(c)'
    <2>1. c \in hub /\ Waits(c) /\ c \notin served'
        BY <1>1, <1>2 DEF Waits
    <2>2. caller[c].at \in Replicas
        BY <2>1, WaitsSomewhere
    <2>3. CASE caller[c].at = r
        BY <2>1, <2>3 DEF WillHear, Reaches
    <2>4. CASE caller[c].at # r
        BY <2>1, <2>2, <2>4 DEF SocketInv, WillHear, Reaches
    <2> QED
        BY <2>3, <2>4
<1>3. \A c \in hub' : caller'[c].pc = "send" /\ c \notin served' => Reaches(caller[c], c)'
    BY DEF SocketInv, Reaches
<1> QED
    BY <1>2, <1>3 DEF SocketInv

LEMMA SocketRelay ==
    ASSUME Types, SocketInv, NEW r \in Replicas, RelayTurn(r) \/ RelayFault(r)
    PROVE  SocketInv'
<1>c. caller' = caller
    BY RelayLeaves DEF RelayStep
<1>r. relay[r] \in RelayRecord
    BY DEF Types, TopicType
<1>w. \A c \in hub : Waits(c) /\ caller[c].at = r =>
        /\ ~relayed[r]
        /\ relay[r].pc = "send" => Reaches(relay[r], c)
    BY DEF SocketInv, WillHear
<1>1. CASE HandleRecord(r)
    <2>1. log[position + 1] \in Rows
        BY <1>1 DEF HandleRecord, Fetches
    <2>2. cache'[r] # 0 /\ \A q \in Replicas : q # r => cache'[q] = cache[q]
        BY <1>1, <2>1 DEF HandleRecord, Types, ReplicaType, Rows
    <2>3. relay' = [relay EXCEPT ![r] = [pc |-> "send", record |-> position + 1, to |-> Connected(r),
                                        lost |-> {}]]
        BY <1>1 DEF HandleRecord
    <2>4. /\ relay'[r].to = Connected(r) /\ relay'[r].lost = {}
          /\ \A q \in Replicas : q # r => relay'[q] = relay[q]
        BY <2>3 DEF Types, TopicType
    <2>5. relayed' = relayed /\ served' = served /\ hub' = hub
        BY <1>1 DEF HandleRecord, clientVars
    <2>6. \A c \in hub : Waits(c) /\ caller[c].at = r => ~relayed'[r] /\ Reaches(relay'[r], c)
        BY <1>w, <2>4, <2>5 DEF Connected, Reaches
    <2> QED
        BY <1>c, <2>2, <2>4, <2>5, <2>6, SocketOneRelay
<1>2. CASE RelaySends(r)
    <2>1. PICK d \in relay[r].to : served' = served \cup {d} /\ relay' = [relay EXCEPT ![r].to = @ \ {d}]
        BY <1>2 DEF RelaySends
    <2>2. /\ relay'[r].pc = relay[r].pc
          /\ relay'[r].to = relay[r].to \ {d}
          /\ relay'[r].lost = relay[r].lost
          /\ \A q \in Replicas : q # r => relay'[q] = relay[q]
        BY <2>1 DEF Types, TopicType, RelayRecord
    <2>3. relayed' = relayed /\ cache' = cache /\ hub' = hub
        BY <1>2 DEF RelaySends
    <2>4. \A c \in hub : Waits(c) /\ c \notin served' /\ caller[c].at = r =>
            /\ ~relayed'[r]
            /\ relay'[r].pc = "send" => Reaches(relay'[r], c)
        BY <1>w, <2>1, <2>2, <2>3 DEF Reaches
    <2>5. relayed'[r] \/ relay'[r].pc = "send" => cache'[r] # 0
        BY <2>2, <2>3 DEF SocketInv
    <2> QED
        BY <1>c, <2>1, <2>2, <2>3, <2>4, <2>5, SocketOneRelay
<1>3. CASE RelaySendRaises(r)
    <2>1. PICK d \in relay[r].to :
            relay' = [relay EXCEPT ![r].to = @ \ {d}, ![r].lost = @ \cup {d}]
        BY <1>3 DEF RelaySendRaises
    <2>2. /\ relay'[r].pc = relay[r].pc
          /\ relay'[r].to = relay[r].to \ {d}
          /\ relay'[r].lost = relay[r].lost \cup {d}
          /\ \A q \in Replicas : q # r => relay'[q] = relay[q]
        BY <2>1 DEF Types, TopicType, RelayRecord
    <2>3. relayed' = relayed /\ cache' = cache /\ hub' = hub /\ served' = served
        BY <1>3 DEF RelaySendRaises, clientVars
    <2>4. \A c \in hub : Waits(c) /\ caller[c].at = r =>
            /\ ~relayed'[r]
            /\ relay'[r].pc = "send" => Reaches(relay'[r], c)
        BY <1>w, <2>2, <2>3 DEF Reaches
    <2>5. relayed'[r] \/ relay'[r].pc = "send" => cache'[r] # 0
        BY <2>2, <2>3 DEF SocketInv
    <2> QED
        BY <1>c, <2>2, <2>3, <2>4, <2>5, SocketOneRelay
<1>4. CASE RelayDrops(r)
    <2>1. /\ relay[r].to = {} /\ hub' = hub \ relay[r].lost /\ served' = served
          /\ relayed' = relayed /\ cache' = cache
          /\ relay' = [relay EXCEPT ![r].lost = {}]
        BY <1>4 DEF RelayDrops
    <2>2. /\ relay'[r].pc = relay[r].pc
          /\ relay'[r].to = relay[r].to
          /\ \A q \in Replicas : q # r => relay'[q] = relay[q]
        BY <2>1 DEF Types, TopicType, RelayRecord
    <2>3. \A c \in hub' : Waits(c) /\ caller[c].at = r =>
            /\ ~relayed'[r]
            /\ relay'[r].pc = "send" => Reaches(relay'[r], c)
        BY <1>w, <2>1, <2>2 DEF Reaches
    <2>4. relayed'[r] \/ relay'[r].pc = "send" => cache'[r] # 0
        BY <2>1, <2>2 DEF SocketInv
    <2> QED
        BY <1>c, <2>1, <2>2, <2>3, <2>4, SocketOneRelay
<1>5. CASE RelayCommits(r) \/ RelayRaises(r)
    <2>1. /\ relay[r].pc \in {"send", "skip"} /\ relay[r].to = {} /\ relay[r].lost = {}
          /\ relay' = [relay EXCEPT ![r] = IdleRelay]
          /\ relayed' = [relayed EXCEPT ![r] = @ \/ relay[r].pc = "send"]
          /\ cache' = cache /\ served' = served /\ hub' = hub
        BY <1>5 DEF RelayCommits, RelayRaises, HasSent, clientVars
    <2>2. relay'[r].pc = "idle" /\ \A q \in Replicas : q # r => relay'[q] = relay[q]
        BY <2>1 DEF Types, TopicType, IdleRelay
    <2>3. /\ relayed'[r] = (relayed[r] \/ relay[r].pc = "send")
          /\ \A q \in Replicas : q # r => relayed'[q] = relayed[q]
        BY <2>1, Zenon DEF Types, ReplicaType
    <2>4. \A c \in hub : Waits(c) /\ caller[c].at = r => ~relayed'[r]
        BY <1>w, <2>1, <2>3 DEF Reaches
    <2>5. relayed'[r] => cache'[r] # 0
        BY <2>1, <2>3 DEF SocketInv
    <2> QED
        BY <1>c, <2>1, <2>2, <2>3, <2>4, <2>5, SocketOneRelay
<1>6. CASE SkipInvalid(r) \/ RelayEnds(r)
    <2>1. PICK rec \in {DeadRelay, [pc |-> "skip", record |-> position + 1, to |-> {}, lost |-> {}]} :
            relay' = [relay EXCEPT ![r] = rec]
        BY <1>6 DEF SkipInvalid, RelayEnds
    <2>2. relay'[r].pc # "send" /\ \A q \in Replicas : q # r => relay'[q] = relay[q]
        BY <2>1 DEF Types, TopicType, DeadRelay
    <2>3. relayed' = relayed /\ cache' = cache /\ served' = served /\ hub' = hub
        BY <1>6 DEF SkipInvalid, RelayEnds, clientVars
    <2>4. \A c \in hub : Waits(c) /\ caller[c].at = r => ~relayed'[r]
        BY <1>w, <2>3
    <2>5. relayed'[r] => cache'[r] # 0
        BY <2>3 DEF SocketInv
    <2> QED
        BY <1>c, <2>2, <2>3, <2>4, <2>5, SocketOneRelay
<1> QED
    BY <1>1, <1>2, <1>3, <1>4, <1>5, <1>6 DEF RelayTurn, RelayFault, RelayChokes, RelayDies

\* A step of one caller that leaves the relays and the other callers alone, and
\* registers nobody but the caller.
LEMMA SocketOneCaller ==
    ASSUME Types, SocketInv, NEW c \in Callers, UNCHANGED <<relay, relayed>>,
           \A r \in Replicas : cache[r] # 0 => cache'[r] # 0,
           \A d \in Callers : d # c => caller'[d] = caller[d],
           served \subseteq served', hub' \subseteq hub \cup {c}, hub' \subseteq Sockets,
           c \in hub' => /\ Waits(c)' => WillHear(c)'
                         /\ caller'[c].pc = "send" /\ c \notin served' => Reaches(caller'[c], c)
    PROVE  SocketInv'
<1>1. \A d \in hub' : d # c => caller'[d] = caller[d] /\ d \in hub
    BY DEF Callers
<1>2. ASSUME NEW d \in hub', Waits(d)' PROVE WillHear(d)'
    <2>1. CASE d = c
        BY <1>2, <2>1
    <2>2. CASE d # c
        <3>1. caller'[d] = caller[d] /\ WillHear(d)
            BY <1>1, <1>2, <2>2 DEF SocketInv, Waits
        <3> QED
            BY <3>1 DEF WillHear, Reaches
    <2> QED
        BY <2>1, <2>2
<1>3. \A d \in hub' : caller'[d].pc = "send" /\ d \notin served' => Reaches(caller[d], d)'
    BY <1>1 DEF SocketInv, Reaches
<1> QED
    BY <1>2, <1>3 DEF SocketInv

LEMMA SocketLookup ==
    ASSUME Types, OutboxInv, SocketInv, NEW c \in Callers,
           \/ \E r \in Replicas : ArriveHit(c, r) \/ ArriveMiss(c, r)
           \/ LookupReads(c) \/ LookupRaises(c) \/ LookupFills(c)
           \/ CallerSends(c) \/ CallerSendRaises(c) \/ CallerDrops(c) \/ CallerSent(c)
    PROVE  SocketInv'
<1>1. UNCHANGED <<relay, relayed>>
    BY DEF ArriveHit, ArriveMiss, LookupReads, LookupRaises, LookupFills, CallerSends,
           CallerSendRaises, CallerDrops, CallerSent, replicaVars
<1>2. \A d \in Callers : d # c => caller'[d] = caller[d]
    BY DEF ArriveHit, ArriveMiss, LookupReads, LookupRaises, LookupFills, CallerSends,
           CallerSendRaises, CallerDrops, CallerSent, Answer, Types, CallerType
<1>3. served \subseteq served'
    BY DEF ArriveHit, ArriveMiss, LookupReads, LookupRaises, LookupFills, CallerSends,
           CallerSendRaises, CallerDrops, CallerSent, Answer
<1>h. hub' \subseteq hub \cup {c} /\ hub' \subseteq Sockets
    BY DEF ArriveHit, ArriveMiss, LookupReads, LookupRaises, LookupFills, CallerSends,
           CallerSendRaises, CallerDrops, CallerSent, Registered, Types, CallerType
<1>4. \A r \in Replicas : cache[r] # 0 => cache'[r] # 0
    <2>1. CASE LookupFills(c)
        BY <2>1 DEF LookupFills, Types, ReplicaType
    <2>2. CASE ~LookupFills(c)
        <3>1. cache' = cache
            BY <2>2 DEF ArriveHit, ArriveMiss, LookupReads, LookupRaises, CallerSends,
                        CallerSendRaises, CallerDrops, CallerSent, replicaVars
        <3> QED
            BY <3>1
    <2> QED
        BY <2>1, <2>2
<1>t. caller[c] \in CallerRecord
    BY DEF Types, CallerType
<1>5. ASSUME c \in hub'
      PROVE  /\ Waits(c)' => WillHear(c)'
             /\ caller'[c].pc = "send" /\ c \notin served' => Reaches(caller'[c], c)
    <2>0. c \in Sockets /\ c \notin Readers
        BY <1>5, <1>h, DeliveryAssumption
    <2>1. CASE (\E r \in Replicas : ArriveHit(c, r)) \/ LookupFills(c)
        <3>1. PICK r, n, sockets : Answer(c, r, n, sockets) /\ c \in sockets
            <4>1. CASE \E r \in Replicas : ArriveHit(c, r)
                <5>1. PICK r \in Replicas : Answer(c, r, cache[r], Connected(r) \cup {c})
                    BY <4>1 DEF ArriveHit
                <5>2. c \in Connected(r) \cup {c}
                    OBVIOUS
                <5> QED
                    BY <5>1, <5>2
            <4>2. CASE LookupFills(c)
                <5>1. hub' = hub
                    BY <4>2 DEF LookupFills
                <5>2. c \in Connected(caller[c].at)
                    BY <1>5, <5>1 DEF Connected
                <5>3. Answer(c, caller[c].at, cache'[caller[c].at], Connected(caller[c].at))
                    BY <4>2 DEF LookupFills
                <5> QED
                    BY <5>2, <5>3
            <4> QED
                BY <2>1, <4>1, <4>2
        <3>2. caller' = [caller EXCEPT ![c] = [pc |-> "send", at |-> r, value |-> n,
                                              to |-> sockets, lost |-> {}]]
            BY <2>0, <3>1 DEF Answer
        <3>3. caller'[c].pc = "send" /\ c \in caller'[c].to
            BY <3>1, <3>2 DEF Types, CallerType
        <3> QED
            BY <3>3 DEF Waits, Reaches
    <2>2. ASSUME NEW r \in Replicas, ArriveMiss(c, r)
          PROVE  /\ Waits(c)' => WillHear(c)'
                 /\ caller'[c].pc # "send"
        <3>1. caller' = [caller EXCEPT ![c] = [pc |-> "lookup", at |-> r, value |-> 0, to |-> {},
                                              lost |-> {}]]
            BY <2>2 DEF ArriveMiss
        <3>2. caller'[c].pc = "lookup" /\ caller'[c].at = r
            BY <3>1 DEF Types, CallerType
        <3>3. ~relayed[r] /\ relay[r].pc # "send"
            BY <2>2 DEF ArriveMiss, SocketInv
        <3>4. ~relayed'[caller'[c].at] /\ relay'[caller'[c].at].pc # "send"
            BY <1>1, <3>2, <3>3
        <3> QED
            BY <3>2, <3>4 DEF WillHear
    <2>3. CASE LookupReads(c) \/ LookupRaises(c)
        <3>1. caller[c].pc = "lookup" /\ served' = served /\ hub' = hub
            BY <2>3 DEF LookupReads, LookupRaises
        <3>2. caller'[c].at = caller[c].at /\ caller'[c].pc \in {"fill", "receive"}
            <4>1. \/ caller' = [caller EXCEPT ![c] = [caller[c] EXCEPT !.pc = "receive"]]
                  \/ caller' = [caller EXCEPT ![c] = [caller[c] EXCEPT !.pc = "fill", !.value = Latest]]
                BY <2>0, <2>3 DEF LookupReads, LookupRaises, WithoutResult
            <4>2. \/ caller'[c] = [caller[c] EXCEPT !.pc = "receive"]
                  \/ caller'[c] = [caller[c] EXCEPT !.pc = "fill", !.value = Latest]
                BY <4>1 DEF Types, CallerType
            <4> QED
                BY <4>2 DEF Types, CallerType, CallerRecord
        <3>3. Waits(c)' => Waits(c)
            BY <3>1 DEF Waits
        <3> QED
            BY <1>1, <1>5, <3>1, <3>2, <3>3 DEF SocketInv, WillHear, Reaches
    <2>4. CASE CallerSends(c)
        <3>1. PICK d \in caller[c].to :
                /\ served' = served \cup {d} /\ hub' = hub
                /\ caller' = [caller EXCEPT ![c].to = @ \ {d}]
            BY <2>4 DEF CallerSends
        <3>2. /\ caller[c].pc = "send" /\ caller'[c].pc = "send"
              /\ caller'[c].to = caller[c].to \ {d} /\ caller'[c].lost = caller[c].lost
            BY <1>t, <2>4, <3>1 DEF CallerSends, Types, CallerType, CallerRecord
        <3> QED
            BY <1>5, <3>1, <3>2 DEF SocketInv, Waits, Reaches
    <2>5. CASE CallerSendRaises(c)
        <3>1. PICK d \in caller[c].to :
                caller' = [caller EXCEPT ![c].to = @ \ {d}, ![c].lost = @ \cup {d}]
            BY <2>5 DEF CallerSendRaises
        <3>2. /\ caller[c].pc = "send" /\ caller'[c].pc = "send" /\ hub' = hub /\ served' = served
              /\ caller'[c].to = caller[c].to \ {d} /\ caller'[c].lost = caller[c].lost \cup {d}
            BY <1>t, <2>5, <3>1 DEF CallerSendRaises, Types, CallerType, CallerRecord
        <3> QED
            BY <1>5, <3>1, <3>2 DEF SocketInv, Waits, Reaches
    <2>6. CASE CallerDrops(c)
        <3>1. /\ caller[c].to = {} /\ hub' = hub \ caller[c].lost /\ served' = served
              /\ caller' = [caller EXCEPT ![c].lost = {}]
            BY <2>6 DEF CallerDrops
        <3>2. /\ caller'[c].pc = caller[c].pc /\ caller'[c].at = caller[c].at
              /\ caller'[c].to = {}
            BY <1>t, <3>1 DEF Types, CallerType, CallerRecord
        <3>3. c \in hub /\ c \notin caller[c].lost
            BY <1>5, <3>1
        <3>4. caller'[c].pc = "send" /\ c \notin served' => FALSE
            BY <3>1, <3>2, <3>3 DEF SocketInv, Reaches
        <3>5. Waits(c)' => Waits(c)
            BY <3>1, <3>2, <3>3 DEF Waits
        <3>6. WillHear(c) => WillHear(c)'
            BY <1>1, <3>2 DEF WillHear, Reaches
        <3> QED
            BY <3>3, <3>4, <3>5, <3>6 DEF SocketInv
    <2>7. CASE CallerSent(c)
        <3>1. /\ caller[c].pc = "send" /\ caller[c].to = {} /\ caller[c].lost = {}
              /\ served' = served /\ hub' = hub
              /\ caller'[c].pc = "receive"
            BY <2>7 DEF CallerSent, Types, CallerType, CallerRecord
        <3>2. c \in served
            BY <1>5, <3>1 DEF SocketInv, Reaches
        <3> QED
            BY <3>1, <3>2 DEF Waits
    <2> QED
        BY <2>1, <2>2, <2>3, <2>4, <2>5, <2>6, <2>7
<1> QED
    BY <1>1, <1>2, <1>3, <1>4, <1>5, <1>h, SocketOneCaller

LEMMA SocketLeaves ==
    ASSUME Types, SocketInv, NEW c \in Callers, Leave(c)
    PROVE  SocketInv'
<1>1. /\ UNCHANGED <<relayed, cache>>
      /\ served' = served \ {c} /\ hub' = hub \ {c}
    BY DEF Leave
<1>2. \A d \in Callers : d # c => /\ caller'[d].pc = caller[d].pc
                                  /\ caller'[d].at = caller[d].at
                                  /\ caller'[d].to = caller[d].to \ {c}
                                  /\ caller'[d].lost = caller[d].lost \ {c}
    BY DEF Leave, Without, Types, CallerType, CallerRecord
<1>3. \A r \in Replicas : /\ relay'[r].pc = relay[r].pc
                          /\ relay'[r].to = relay[r].to \ {c}
                          /\ relay'[r].lost = relay[r].lost \ {c}
    BY DEF Leave, Without, Types, TopicType, RelayRecord
<1>4. \A d \in hub' : d \in Callers /\ d # c /\ d \in hub
    BY <1>1 DEF Callers, Types, CallerType
<1>5. ASSUME NEW d \in hub', Waits(d)' PROVE WillHear(d)'
    <2>2. Waits(d)
        BY <1>1, <1>2, <1>4, <1>5 DEF Waits
    <2>3. caller[d].at \in Replicas
        BY <1>4, <2>2, WaitsSomewhere
    <2> QED
        BY <1>1, <1>2, <1>3, <1>4, <2>2, <2>3 DEF SocketInv, WillHear, Reaches
<1>6. \A d \in hub' : caller'[d].pc = "send" /\ d \notin served' => Reaches(caller[d], d)'
    BY <1>1, <1>2, <1>4 DEF SocketInv, Reaches
<1> QED
    BY <1>1, <1>3, <1>5, <1>6 DEF SocketInv

LEMMA SocketCrash ==
    ASSUME Types, SocketInv, NEW r \in Replicas, Crash(r)
    PROVE  SocketInv'
<1>1. \A c \in Callers : caller[c].at # r => caller'[c] = caller[c]
    BY DEF Crash
<1>2. \A q \in Replicas : q # r => /\ relay'[q] = relay[q]
                                   /\ cache'[q] = cache[q]
                                   /\ relayed'[q] = relayed[q]
    BY DEF Crash, Types, TopicType, ReplicaType
<1>3. relay'[r].pc = "idle" /\ ~relayed'[r]
    BY DEF Crash, IdleRelay, Types, TopicType, ReplicaType
<1>4. \A d \in hub' : d \in Callers /\ d \in hub /\ caller[d].at # r
                      /\ (d \in served' <=> d \in served)
    BY DEF Crash, Callers, Types, CallerType
<1>7. ASSUME NEW d \in hub', Waits(d)' PROVE WillHear(d)'
    <2>1. caller'[d] = caller[d] /\ caller[d].at # r
        BY <1>1, <1>4
    <2>2. Waits(d)
        BY <1>4, <1>7, <2>1 DEF Waits
    <2>3. caller[d].at \in Replicas
        BY <1>4, <2>2, WaitsSomewhere
    <2> QED
        BY <1>2, <1>4, <2>1, <2>2, <2>3 DEF SocketInv, WillHear, Reaches
<1>8. \A d \in hub' : caller'[d].pc = "send" /\ d \notin served' => Reaches(caller[d], d)'
    BY <1>1, <1>4 DEF SocketInv, Reaches
<1> QED
    BY <1>2, <1>3, <1>7, <1>8 DEF SocketInv

LEMMA SocketStep ==
    ASSUME Types, OutboxInv, SocketInv, [Next]_vars
    PROVE  SocketInv'
<1>1. ASSUME NEW c \in Callers, CallerStep(c) PROVE SocketInv'
    BY <1>1, SocketLookup, SocketLeaves DEF CallerStep, CallerTurn
<1>2. ASSUME NEW r \in Replicas, ReplicaStep(r), ~RelayTurn(r), ~RelayFault(r), ~Crash(r)
      PROVE  UNCHANGED <<relay, cache, relayed, caller, hub, served>>
    BY <1>2 DEF ReplicaStep, OutboxTurn, OutboxFault, Alone, Finalize, PublishDirectly, Rebalance,
                Restart, replicaVars, clientVars
<1>3. CASE UNCHANGED vars \/ ForeignRecord \/ \E n \in Rows : RowGrowsStale(n)
    <2>1. UNCHANGED <<relay, cache, relayed, caller, hub, served>>
        BY <1>3 DEF vars, ForeignRecord, RowGrowsStale, Alone, replicaVars, clientVars
    <2> QED
        BY <2>1, SocketQuiet
<1> QED
    BY <1>1, <1>2, <1>3, SocketQuiet, SocketRelay, SocketCrash DEF Next

\* No registered socket waits in vain at a replica that has relayed a record, whatever
\* lookups and sends fail and however they overlap the broadcast (websocket.py registers
\* before it looks, websocket_hub.py drops a socket that a send fails on).
THEOREM SocketsHear == Spec => []NoSilentSocket
<1>1. Delivered /\ SocketInv => NoSilentSocket
    BY DEF SocketInv, Waits, WillHear, NoSilentSocket
<1>2. Delivered /\ SocketInv /\ [Next]_vars => SocketInv'
    BY SocketStep DEF Delivered
<1> QED
    BY <1>1, <1>2, SocketInit, DeliveredInit, DeliveredStep, PTL DEF Spec

=============================================================================
