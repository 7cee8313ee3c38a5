--------------------------- MODULE ResultDelivery ---------------------------
(***************************************************************************)
(* How the results of one job reach the people who wait for them.          *)
(*                                                                         *)
(* finalize_comparison stores a result and enqueues its outbox row; the    *)
(* comparison task also publishes the result directly (document_comparator *)
(* .py), so processed_results holds it twice or more.  The replicas share  *)
(* one consumer group (relay_consumer.py): the record goes to one of them, *)
(* whose ResultAggregator keeps the first result it sees and whose         *)
(* WebSocketHub sends it to the sockets connected there.  A client that    *)
(* connects is registered, then looks for a result; GET /result looks too. *)
(*                                                                         *)
(* A step is the code between two awaits.  The aggregator's lock is never  *)
(* held across one: collecting a record, keeping the result and taking the *)
(* hub's list of sockets are one step.  total_chunks is 1 in every record  *)
(* the service makes, so a record completes its job.                       *)
(***************************************************************************)
EXTENDS Outbox

CONSTANTS
    Sockets,    \* websocket clients of the job
    Readers,    \* callers of GET /api/jobs/{id}/result
    NoReplica

AllDisturbances ==
    {"crash",           \* a replica stops between any two steps
     "publish_error",   \* the broker's answer to a publish is an error
     "database_error",  \* mark_outbox_published raises
     "loop_error",      \* the claim or mark_outbox_error raises
     "slow",            \* a publisher takes longer than 30 seconds
     "lookup_error",    \* get_comparison_result raises
     "relay_error",     \* the status publish or the commit raises
     "iterator_error",  \* the consumer's iterator raises
     "foreign_record",  \* somebody else writes to processed_results
     "send_error",      \* a send to a socket raises
     "rebalance",       \* the partition moves between live replicas
     "leave"}           \* a client closes its socket

ASSUME DeliveryAssumption ==
    /\ Disturbances \subseteq AllDisturbances
    /\ Sockets \cap Readers = {}
    /\ NoReplica \notin Replicas

Callers == Sockets \cup Readers

VARIABLES
    direct,     \* the result each replica has yet to publish directly, or 0
    member,     \* the replica processed_results is assigned to
    position,   \* records the member has read; the committed offset if none
    committed,  \* committed offset
    relay,      \* the consumer task of each replica
    cache,      \* _final_results of each replica: the job's result, or 0
    relayed,    \* history: the replica has broadcast a record since it started
    answers,    \* history: results the replica has sent since it started
    caller,     \* websocket handlers and GET /result calls
    hub,        \* _connections of all replicas: the sockets registered
    served      \* history: connected sockets that were sent a result

replicaVars == <<direct, relay, cache, relayed, answers>>
topicVars   == <<member, position, committed>>
clientVars  == <<caller, hub, served>>
vars == <<outboxVars, replicaVars, topicVars, clientVars>>

\* A broadcast has the sockets it still sends to, and those that a send failed on.
IdleRelay == [pc |-> "idle", record |-> 0, to |-> {}, lost |-> {}]
DeadRelay == [pc |-> "dead", record |-> 0, to |-> {}, lost |-> {}]
Away      == [pc |-> "away", at |-> NoReplica, value |-> 0, to |-> {}, lost |-> {}]

Init ==
    /\ OutboxInit
    /\ direct = [r \in Replicas |-> 0]
    /\ member = NoReplica
    /\ position = 0
    /\ committed = 0
    /\ relay = [r \in Replicas |-> IdleRelay]
    /\ cache = [r \in Replicas |-> 0]
    /\ relayed = [r \in Replicas |-> FALSE]
    /\ answers = [r \in Replicas |-> {}]
    /\ caller = [c \in Callers |-> Away]
    /\ hub = {}
    /\ served = {}

Up(r) == publisher[r].pc # "down"

\* Mutant: a socket is registered only when its handler has looked.
ConnectedLate(r) ==
    {c \in hub : caller[c].at = r /\ caller[c].pc \notin {"lookup", "fill"}}

\* The sockets in the hub of r.
Connected(r) == {c \in hub : caller[c].at = r}

\* get_comparison_result: the result created last, or 0.
Latest == CHOOSE n \in Rows \cup {0} :
            /\ n # 0 => Stored(n)
            /\ \A m \in Rows : Stored(m) => m <= n

-----------------------------------------------------------------------------
(* A result is stored and announced *)

\* finalize_comparison: the result and its outbox row in one transaction.
Finalize(r) ==
    /\ Up(r)
    /\ direct[r] = 0
    /\ \E n \in Rows :
        /\ n = Latest + 1
        /\ EnqueueOutbox(n)
        /\ direct' = [direct EXCEPT ![r] = n]
    /\ UNCHANGED <<publisher, log, faults, relay, cache, relayed, answers,
                   topicVars, clientVars>>

\* _publish_result after it.  An exception is logged and the result left to the
\* outbox.
PublishDirectly(r) ==
    /\ direct[r] # 0
    /\ \/ log' = Append(log, direct[r]) /\ UNCHANGED faults
       \/ log' = log /\ Fault("publish_error")
    /\ direct' = [direct EXCEPT ![r] = 0]
    /\ UNCHANGED <<outbox, publisher, relay, cache, relayed, answers,
                   topicVars, clientVars>>

-----------------------------------------------------------------------------
(* AggregatorConsumers, ResultAggregator.handle_processed_result *)

\* The loop of r asks for the next record and gets n.
Fetches(r, n) ==
    /\ member = r
    /\ relay[r].pc = "idle"
    /\ position < Len(log)
    /\ log[position + 1] = n

\* The next record: the result that is kept is sent again, or the record's is kept
\* and sent.
HandleRecord(r) ==
    /\ \E n \in Rows : Fetches(r, n)
    /\ position' = position + 1
    /\ cache' = [cache EXCEPT ![r] = IF @ = 0 THEN log[position + 1] ELSE @]
    /\ answers' = [answers EXCEPT ![r] = @ \cup {cache'[r]}]
    /\ relay' = [relay EXCEPT ![r] =
                    [pc |-> "send", record |-> position + 1, to |-> Connected(r),
                     lost |-> {}]]
    /\ UNCHANGED <<outboxVars, direct, relayed, member, committed, clientVars>>

\* A record that does not validate is logged and committed like any other.
SkipInvalid(r) ==
    /\ Fetches(r, Invalid)
    /\ position' = position + 1
    /\ relay' = [relay EXCEPT ![r] =
                    [pc |-> "skip", record |-> position + 1, to |-> {}, lost |-> {}]]
    /\ UNCHANGED <<outboxVars, direct, cache, relayed, answers, member, committed,
                   clientVars>>

\* The iterator or the deserializer raises: the loop ends for as long as the replica
\* lives, and the consumer keeps its partition.
RelayEnds(r) ==
    /\ relay' = [relay EXCEPT ![r] = DeadRelay]
    /\ UNCHANGED <<outbox, publisher, log, direct, cache, relayed, answers, topicVars,
                   clientVars>>

RelayChokes(r) ==
    /\ Fetches(r, NotJson)
    /\ RelayEnds(r)
    /\ UNCHANGED faults

RelayDies(r) ==
    /\ Up(r)
    /\ relay[r].pc = "idle"
    /\ Fault("iterator_error")
    /\ RelayEnds(r)

\* broadcast: one socket after the other, from the list taken at its start.
RelaySends(r) ==
    /\ relay[r].pc = "send"
    /\ \E c \in relay[r].to :
        /\ served' = served \cup {c}
        /\ relay' = [relay EXCEPT ![r].to = @ \ {c}]
    /\ UNCHANGED <<outboxVars, direct, cache, relayed, answers, topicVars, caller, hub>>

RelaySendRaises(r) ==
    /\ relay[r].pc = "send"
    /\ Fault("send_error")
    /\ \E c \in relay[r].to :
        relay' = [relay EXCEPT ![r].to = @ \ {c}, ![r].lost = @ \cup {c}]
    /\ UNCHANGED <<outbox, publisher, log, direct, cache, relayed, answers, topicVars,
                   clientVars>>

\* At the end the sockets that a send failed on are taken from the hub, though their
\* handlers go on waiting for the client.
RelayDrops(r) ==
    /\ relay[r].to = {}
    /\ relay[r].lost # {}
    /\ hub' = hub \ relay[r].lost
    /\ relay' = [relay EXCEPT ![r].lost = {}]
    /\ UNCHANGED <<outboxVars, direct, cache, relayed, answers, topicVars, caller, served>>

\* The handler has nobody left to send to.
HasSent(r) ==
    /\ relay[r].pc \in {"send", "skip"}
    /\ relay[r].to = {}
    /\ relay[r].lost = {}
    /\ relayed' = [relayed EXCEPT ![r] = @ \/ relay[r].pc = "send"]
    /\ relay' = [relay EXCEPT ![r] = IdleRelay]

\* Mutant: the offset after the next record is committed.
CommitsOneTooFar(r) ==
    /\ HasSent(r)
    /\ committed' = IF member = r THEN relay[r].record + 1 ELSE committed
    /\ UNCHANGED <<outboxVars, direct, cache, answers, member, position, clientVars>>

\* The first time the status is published too; then the record is committed, if
\* the replica still has the partition.
RelayCommits(r) ==
    /\ HasSent(r)
    /\ committed' = IF member = r THEN relay[r].record ELSE committed
    /\ UNCHANGED <<outboxVars, direct, cache, answers, member, position, clientVars>>

\* The status publish or the commit raises: the loop waits and goes on to the
\* next record.
RelayRaises(r) ==
    /\ HasSent(r)
    /\ Fault("relay_error")
    /\ UNCHANGED <<outbox, publisher, log, direct, cache, answers, topicVars, clientVars>>

\* The group coordinator gives the partition to r, which starts at the committed
\* offset.
Rebalance(r) ==
    /\ Up(r)
    /\ member # r
    /\ IF member = NoReplica THEN UNCHANGED faults ELSE Fault("rebalance")
    /\ member' = r
    /\ position' = committed
    /\ UNCHANGED <<outbox, publisher, log, replicaVars, committed, clientVars>>

\* Somebody who shares the broker writes a record of another make.
ForeignRecord ==
    /\ Fault("foreign_record")
    /\ \E n \in {Invalid, NotJson} : log' = Append(log, n)
    /\ UNCHANGED <<outbox, publisher, replicaVars, topicVars, clientVars>>

-----------------------------------------------------------------------------
(* job_websocket and get_job_result: both call ResultAggregator.get_result *)

\* What becomes of an answer of get_result: GET /result returns it, a socket's
\* handler broadcasts it to all sockets registered for the job at its replica.
Answer(c, r, n, sockets) ==
    /\ answers' = [answers EXCEPT ![r] = @ \cup {n}]
    /\ IF c \in Readers
       THEN caller' = [caller EXCEPT ![c] = Away]
       ELSE caller' = [caller EXCEPT ![c] = [pc |-> "send", at |-> r, value |-> n,
                                             to |-> sockets, lost |-> {}]]
    /\ UNCHANGED served

\* WebSocketHub.connect.
Registered(c) == hub \cup ({c} \cap Sockets)

\* A socket is registered and looks into the cache without
\* an await in between; a reader just looks.
ArriveHit(c, r) ==
    /\ Up(r)
    /\ caller[c].pc = "away"
    /\ cache[r] # 0
    /\ hub' = Registered(c)
    /\ Answer(c, r, cache[r], Connected(r) \cup {c})
    /\ UNCHANGED <<outboxVars, direct, relay, cache, relayed, topicVars>>

ArriveMiss(c, r) ==
    /\ Up(r)
    /\ caller[c].pc = "away"
    /\ cache[r] = 0
    /\ hub' = Registered(c)
    /\ caller' = [caller EXCEPT ![c] = [pc |-> "lookup", at |-> r, value |-> 0, to |-> {},
                                         lost |-> {}]]
    /\ UNCHANGED <<outboxVars, replicaVars, topicVars, served>>

\* A socket without a result waits for a broadcast, a reader gets an error.
WithoutResult(c) ==
    IF c \in Readers THEN Away ELSE [caller[c] EXCEPT !.pc = "receive"]

\* get_comparison_result.
LookupReads(c) ==
    /\ caller[c].pc = "lookup"
    /\ caller' = [caller EXCEPT ![c] =
                    IF Latest = 0 THEN WithoutResult(c)
                                  ELSE [caller[c] EXCEPT !.pc = "fill", !.value = Latest]]
    /\ UNCHANGED <<outboxVars, replicaVars, topicVars, hub, served>>

\* It raises: the websocket handler logs it and goes on without a result.
LookupRaises(c) ==
    /\ caller[c].pc = "lookup"
    /\ Fault("lookup_error")
    /\ caller' = [caller EXCEPT ![c] = WithoutResult(c)]
    /\ UNCHANGED <<outbox, publisher, log, replicaVars, topicVars, hub, served>>

\* Mutant: what was read replaces what was kept in the meantime.
FillOverwrites(c) ==
    LET r == caller[c].at IN
    /\ caller[c].pc = "fill"
    /\ cache' = [cache EXCEPT ![r] = caller[c].value]
    /\ Answer(c, r, cache'[r], Connected(r))
    /\ UNCHANGED <<outboxVars, direct, relay, relayed, topicVars, hub>>

\* setdefault: a result kept in the meantime is answered instead.
LookupFills(c) ==
    LET r == caller[c].at IN
    /\ caller[c].pc = "fill"
    /\ cache' = [cache EXCEPT ![r] = IF @ = 0 THEN caller[c].value ELSE @]
    /\ Answer(c, r, cache'[r], Connected(r))
    /\ UNCHANGED <<outboxVars, direct, relay, relayed, topicVars, hub>>

CallerSends(c) ==
    /\ caller[c].pc = "send"
    /\ \E d \in caller[c].to :
        /\ served' = served \cup {d}
        /\ caller' = [caller EXCEPT ![c].to = @ \ {d}]
    /\ UNCHANGED <<outboxVars, replicaVars, topicVars, hub>>

CallerSendRaises(c) ==
    /\ caller[c].pc = "send"
    /\ Fault("send_error")
    /\ \E d \in caller[c].to :
        caller' = [caller EXCEPT ![c].to = @ \ {d}, ![c].lost = @ \cup {d}]
    /\ UNCHANGED <<outbox, publisher, log, replicaVars, topicVars, hub, served>>

CallerDrops(c) ==
    /\ caller[c].to = {}
    /\ caller[c].lost # {}
    /\ hub' = hub \ caller[c].lost
    /\ caller' = [caller EXCEPT ![c].lost = {}]
    /\ UNCHANGED <<outboxVars, replicaVars, topicVars, served>>

CallerSent(c) ==
    /\ caller[c].pc = "send"
    /\ caller[c].to = {}
    /\ caller[c].lost = {}
    /\ caller' = [caller EXCEPT ![c].pc = "receive"]
    /\ UNCHANGED <<outboxVars, replicaVars, topicVars, hub, served>>

Without(broadcast, c) == [broadcast EXCEPT !.to = @ \ {c}, !.lost = @ \ {c}]

\* The client closes its socket.  Whoever still has the socket on a list finds it
\* dead and drops it (WebSocketHub.disconnect).
Leave(c) ==
    /\ caller[c].pc = "receive"
    /\ Fault("leave")
    /\ caller' = [d \in Callers |-> IF d = c THEN Away ELSE Without(caller[d], c)]
    /\ relay' = [r \in Replicas |-> Without(relay[r], c)]
    /\ hub' = hub \ {c}
    /\ served' = served \ {c}
    /\ UNCHANGED <<outbox, publisher, log, direct, cache, relayed, answers, topicVars>>

CallerTurn(c) ==
    \/ LookupReads(c)
    \/ LookupFills(c)
    \/ CallerSends(c)
    \/ CallerDrops(c)
    \/ CallerSent(c)

-----------------------------------------------------------------------------
(* Crash and restart *)

Crash(r) ==
    /\ Up(r)
    /\ Fault("crash")
    /\ publisher' = [publisher EXCEPT ![r] = Down]
    /\ direct' = [direct EXCEPT ![r] = 0]
    /\ relay' = [relay EXCEPT ![r] = IdleRelay]
    /\ cache' = [cache EXCEPT ![r] = 0]
    /\ relayed' = [relayed EXCEPT ![r] = FALSE]
    /\ answers' = [answers EXCEPT ![r] = {}]
    /\ caller' = [c \in Callers |-> IF caller[c].at = r THEN Away ELSE caller[c]]
    /\ hub' = {c \in hub : caller[c].at # r}
    /\ served' = {c \in served : caller[c].at # r}
    /\ IF member = r THEN member' = NoReplica /\ position' = committed
                     ELSE UNCHANGED <<member, position>>
    /\ UNCHANGED <<outbox, log, committed>>

Restart(r) ==
    /\ publisher[r].pc = "down"
    /\ publisher' = [publisher EXCEPT ![r] = Polling]
    /\ UNCHANGED <<outbox, log, faults, replicaVars, topicVars, clientVars>>

-----------------------------------------------------------------------------

RelayTurn(r) ==
    \/ HandleRecord(r)
    \/ SkipInvalid(r)
    \/ RelayChokes(r)
    \/ RelaySends(r)
    \/ RelayDrops(r)
    \/ RelayCommits(r)

RelayFault(r) == RelaySendRaises(r) \/ RelayRaises(r) \/ RelayDies(r)

\* The outbox's steps leave the rest of the replicas alone.
Alone == UNCHANGED <<replicaVars, topicVars, clientVars>>

OutboxTurn(r)    == PublisherTurn(r) /\ Alone
OutboxFault(r)   == PublisherFault(r) /\ Alone
RowGrowsStale(n) == ClaimGrowsStale(n) /\ Alone

ReplicaStep(r) ==
    \/ OutboxTurn(r)
    \/ OutboxFault(r)
    \/ Finalize(r)
    \/ PublishDirectly(r)
    \/ RelayTurn(r)
    \/ RelayFault(r)
    \/ Rebalance(r)
    \/ Crash(r)
    \/ Restart(r)

CallerStep(c) ==
    \/ \E r \in Replicas : ArriveHit(c, r) \/ ArriveMiss(c, r)
    \/ CallerTurn(c)
    \/ LookupRaises(c)
    \/ CallerSendRaises(c)
    \/ Leave(c)

Next ==
    \/ ForeignRecord
    \/ \E n \in Rows : RowGrowsStale(n)
    \/ \E r \in Replicas : ReplicaStep(r)
    \/ \E c \in Callers : CallerStep(c)

Spec == Init /\ [][Next]_vars

(* Fairness: asyncio runs the tasks of a replica, a stopped replica is        *)
(* started again, the group coordinator does not leave the partition without  *)
(* a member, and clocks advance.  A direct publish is owed by nobody.         *)
Fairness ==
    /\ \A r \in Replicas : WF_vars(OutboxTurn(r) \/ Restart(r)) /\ WF_vars(RelayTurn(r))
    /\ \A n \in Rows : WF_vars(RowGrowsStale(n))
    /\ WF_vars(\E r \in Replicas : member = NoReplica /\ Rebalance(r))

FairSpec == Spec /\ Fairness

-----------------------------------------------------------------------------
(* Properties *)

RelayRecord == [pc     : {"idle", "send", "skip", "dead"},
                record : 0..Len(log),
                to     : SUBSET Sockets,
                lost   : SUBSET Sockets]

CallerRecord == [pc    : {"away", "lookup", "fill", "send", "receive"},
                 at    : Replicas \cup {NoReplica},
                 value : Rows \cup {0},
                 to    : SUBSET Sockets,
                 lost  : SUBSET Sockets]

\* Every variable is in its type; no offset is past the end of the topic, and a
\* caller is at a replica as long as its handler runs (repository.py, outbox.py,
\* manual_consumer.py, result_aggregator.py, websocket.py).
TypeOK ==
    /\ OutboxTypeOK
    /\ direct \in [Replicas -> Rows \cup {0}]
    /\ member \in Replicas \cup {NoReplica}
    /\ position \in 0..Len(log)
    /\ committed \in 0..Len(log)
    /\ relay \in [Replicas -> RelayRecord]
    /\ cache \in [Replicas -> Rows \cup {0}]
    /\ relayed \in [Replicas -> BOOLEAN]
    /\ answers \in [Replicas -> SUBSET Rows]
    /\ caller \in [Callers -> CallerRecord]
    /\ \A c \in Callers : caller[c].pc = "away" <=> caller[c].at = NoReplica
    /\ hub \subseteq Sockets
    /\ served \subseteq Sockets

\* Between two starts a replica answers everybody with one and the same result,
\* on sockets and over GET /result, though a job may come to have several and
\* records, lookups and database reads overtake one another (_final_results).
OneAnswerPerLife == \A r \in Replicas : answers[r] \subseteq {cache[r]} \ {0}

\* Once a replica has relayed a record, no socket registered there waits in vain:
\* it was on the list of that broadcast, or its own lookup found the result, even
\* when lookups or sends to others fail (websocket.py registers first, the
\* aggregator keeps the result before it sends it).
NoSilentSocket ==
    \A c \in hub :
        caller[c].pc = "receive" /\ relayed[caller[c].at] => c \in served

\* The consumer of the partition is one whose loop has ended.
RelayIsDead == \E r \in Replicas : member = r /\ relay[r].pc = "dead"

\* Nothing in the code starts these loops again: every publisher's (outbox.py:49), or
\* that of the relay which has the partition (manual_consumer.py:106).
LoopsEnded ==
    <>[](\A r \in Replicas : publisher[r].pc = "dead") \/ <>[]RelayIsDead

\* A stored result is taken from processed_results and sent in the end, whatever
\* replicas stop, whichever publish, mark, send or commit fails and whatever invalid
\* records lie before it; the loops of LoopsEnded are excepted.
StoredIsRelayed ==
    \/ LoopsEnded
    \/ \A n \in Rows : Stored(n) ~> \E k \in 1..position : log[k] = n


\* The outbox is an at-least-once sender: what is on the topic is stored, what is
\* marked published is on the topic.
RefinesAtLeastOnce == Sender!Spec
=============================================================================
