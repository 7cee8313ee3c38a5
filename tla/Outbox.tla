------------------------------- MODULE Outbox -------------------------------
(***************************************************************************)
(* The outbox table (workflow/repository.py) and its publishers            *)
(* (services/outbox.py), one asyncio task in each replica.  A row stands   *)
(* for one message of one topic; rows are numbered in the order of         *)
(* created_at.  The module is a component: ResultDelivery adds the rest of *)
(* a replica and the specification.                                        *)
(***************************************************************************)
EXTENDS Integers, Sequences, FiniteSets

CONSTANTS
    Replicas,
    RowCount,      \* bound: rows ever enqueued
    BatchLimit,    \* limit of claim_unpublished_outbox
    Disturbances,  \* what may go wrong
    MaxFaults      \* bound: how often, all kinds together

ASSUME OutboxAssumption ==
    /\ RowCount \in Nat
    /\ BatchLimit \in Nat \ {0}
    /\ MaxFaults \in Nat

Rows == 1..RowCount

\* Records of others: one that no schema of the service accepts, one that is not
\* even JSON.
Invalid == 0
NotJson == -1

VARIABLES
    outbox,     \* each row: absent, open, claimed, stale (claimed for more than
                \* 30 seconds) or published
    publisher,  \* the publisher of each replica
    log,        \* the topic's one partition: the rows whose message it holds, and
                \* records of others
    faults      \* faults so far

outboxVars == <<outbox, publisher, log, faults>>

Polling == [pc |-> "poll", row |-> 0, batch |-> {}]
Dead    == [pc |-> "dead", row |-> 0, batch |-> {}]
Down    == [pc |-> "down", row |-> 0, batch |-> {}]

OutboxInit ==
    /\ outbox = [n \in Rows |-> "absent"]
    /\ publisher = [r \in Replicas |-> Polling]
    /\ log = <<>>
    /\ faults = 0

Fault(kind) ==
    /\ kind \in Disturbances
    /\ faults < MaxFaults
    /\ faults' = faults + 1

\* enqueue_outbox, in the transaction of its caller.
EnqueueOutbox(n) == outbox' = [outbox EXCEPT ![n] = "open"]

\* Mutant: only rows nobody has claimed are looked at.
NeverClaimed(n) == outbox[n] = "open"

\* Unpublished, and not claimed within the last 30 seconds.
Claimable(n) == outbox[n] \in {"open", "stale"}

\* claim_unpublished_outbox: the oldest rows, at most BatchLimit of them.
ClaimRows(r) ==
    LET batch == {n \in Rows : Claimable(n) /\
                    Cardinality({m \in 1..(n - 1) : Claimable(m)}) < BatchLimit}
    IN
    /\ publisher[r].pc = "poll"
    /\ batch # {}
    /\ outbox' = [n \in Rows |-> IF n \in batch THEN "claimed" ELSE outbox[n]]
    /\ publisher' = [publisher EXCEPT ![r] =
                        [pc |-> "publish", row |-> 0, batch |-> batch]]
    /\ UNCHANGED <<log, faults>>

\* publish_raw of a row of the batch; RETURNING gives them in any order.
PublishRow(r) ==
    /\ publisher[r].pc = "publish"
    /\ \E n \in publisher[r].batch :
        /\ log' = Append(log, n)
        /\ publisher' = [publisher EXCEPT ![r] =
                            [pc |-> "mark", row |-> n, batch |-> publisher[r].batch \ {n}]]
    /\ UNCHANGED <<outbox, faults>>

\* publish_raw raises; the broker may have the message all the same.
PublishRaises(r) ==
    /\ publisher[r].pc = "publish"
    /\ Fault("publish_error")
    /\ \E n \in publisher[r].batch :
        /\ log' \in {log, Append(log, n)}
        /\ publisher' = [publisher EXCEPT ![r] =
                            [pc |-> "error", row |-> n, batch |-> publisher[r].batch \ {n}]]
    /\ UNCHANGED outbox

\* The rest of the batch, or the next poll.
NextOfBatch(r) ==
    publisher' = [publisher EXCEPT ![r] =
                    [pc |-> IF publisher[r].batch = {} THEN "poll" ELSE "publish",
                     row |-> 0, batch |-> publisher[r].batch]]

\* mark_outbox_published: whoever holds the claim by now.
MarkPublished(r) ==
    /\ publisher[r].pc = "mark"
    /\ outbox' = [outbox EXCEPT ![publisher[r].row] = "published"]
    /\ NextOfBatch(r)
    /\ UNCHANGED <<log, faults>>

\* It raises, before the UPDATE or after.
MarkRaises(r) ==
    LET n == publisher[r].row IN
    /\ publisher[r].pc = "mark"
    /\ Fault("database_error")
    /\ outbox' \in {outbox, [outbox EXCEPT ![n] = "published"]}
    /\ publisher' = [publisher EXCEPT ![r].pc = "error"]
    /\ UNCHANGED log

\* Mutant: a row that failed is ticked off with its error.
ErrorSettles(r) ==
    /\ publisher[r].pc = "error"
    /\ outbox' = [outbox EXCEPT ![publisher[r].row] = "published"]
    /\ NextOfBatch(r)
    /\ UNCHANGED <<log, faults>>

\* mark_outbox_error counts the attempt and keeps the claim: the row is tried
\* again 30 seconds after it, behind the rest of the batch.
MarkError(r) ==
    /\ publisher[r].pc = "error"
    /\ NextOfBatch(r)
    /\ UNCHANGED <<outbox, log, faults>>

\* Only CancelledError is caught around the loop: an exception of the claim or of
\* mark_outbox_error ends the publisher for good, and nobody watches it.
PublisherDies(r) ==
    /\ publisher[r].pc \in {"poll", "error"}
    /\ Fault("loop_error")
    /\ publisher' = [publisher EXCEPT ![r] = Dead]
    /\ UNCHANGED <<outbox, log>>

\* 30 seconds pass since the claim.  A publisher that still has the row in hand is
\* a slow one.
ClaimGrowsStale(n) ==
    /\ outbox[n] = "claimed"
    /\ IF \E r \in Replicas : n \in publisher[r].batch \cup {publisher[r].row}
       THEN Fault("slow") ELSE UNCHANGED faults
    /\ outbox' = [outbox EXCEPT ![n] = "stale"]
    /\ UNCHANGED <<publisher, log>>

PublisherTurn(r) == ClaimRows(r) \/ PublishRow(r) \/ MarkPublished(r) \/ MarkError(r)

PublisherFault(r) == PublishRaises(r) \/ MarkRaises(r) \/ PublisherDies(r)

-----------------------------------------------------------------------------

PublisherRecord == [pc    : {"poll", "publish", "mark", "error", "dead", "down"},
                    row   : Rows \cup {0},
                    batch : SUBSET Rows]

OutboxTypeOK ==
    /\ outbox \in [Rows -> {"absent", "open", "claimed", "stale", "published"}]
    /\ publisher \in [Replicas -> PublisherRecord]
    /\ \A r \in Replicas : publisher[r].pc \in {"mark", "error"} => publisher[r].row \in Rows
    /\ log \in Seq(Rows \cup {Invalid, NotJson})
    /\ faults \in Nat

Stored(n) == outbox[n] # "absent"

OnTopic == {n \in Rows : \E k \in 1..Len(log) : log[k] = n}

\* The rows, the topic and the marks as an at-least-once sender.
Sender == INSTANCE AtLeastOnce WITH
    Messages <- Rows,
    owed     <- {n \in Rows : Stored(n)},
    sent     <- OnTopic,
    settled  <- {n \in Rows : outbox[n] = "published"}
=============================================================================
