----------------------------- MODULE WorkItems -----------------------------
(***************************************************************************)
(* OCR commands of one job: work_items and the ocr.cmd topic, two ways to  *)
(* the same handler.                                                       *)
(*                                                                         *)
(* Each worker runs two tasks.  The "items" task (workers/ocr_work_items)  *)
(* leases rows of work_items; the "kafka" task (ManualCommitConsumer in    *)
(* main.py) reads the records of ocr.cmd.  Both call OcrStageHandler       *)
(* (workers/ocr_worker), which claims the command in consumer_inbox, OCRs  *)
(* the page, deletes its images and submits the job when its pages are     *)
(* complete.  A step is the code between two awaits other tasks can be     *)
(* seen through.                                                           *)
(*                                                                         *)
(* The commands are made outside src/: a page's row and its record carry   *)
(* the same envelope, hence the same event_id.  Items are the pages of the *)
(* job, in the order of created_at and of the topic's one partition.       *)
(***************************************************************************)
EXTENDS Integers, FiniteSets

CONSTANTS
    Workers,
    NoWorker,      \* no group member owns the partition
    FirstMember,   \* the worker it is assigned to at first
    Pages,         \* number of pages, hence of commands
    MaxAttempts,   \* work_items.max_attempts
    Disturbances,  \* what may go wrong
    MaxFaults      \* bound: how often, all kinds together

AllDisturbances ==
    {"crash",           \* a worker stops between any two steps
     "handler_error",   \* inbox, object store, OCR, database, status publish
     "ack_error",       \* complete_work_item or the Kafka commit raises
     "loop_error",      \* lease_work_item or retry_work_item raises
     "slow",            \* a handler takes longer than its lease
     "rebalance",       \* the partition moves between live workers
     "job_ends"}        \* the job is cancelled or becomes terminal

ASSUME WorkItemsAssumption ==
    /\ Pages \in Nat \ {0}
    /\ MaxAttempts \in Nat \ {0}
    /\ MaxFaults \in Nat
    /\ Disturbances \subseteq AllDisturbances
    /\ NoWorker \notin Workers
    /\ FirstMember \in Workers \cup {NoWorker}

Items == 1..Pages
Lanes == {"items", "kafka"}
Tasks == Workers \X Lanes

ItemsTask(w) == <<w, "items">>
KafkaTask(w) == <<w, "kafka">>

VARIABLES
    item,         \* work_items, by page
    inbox,        \* consumer_inbox of group <...>-ocr-v2: claimed commands
    pages,        \* ocr_chunks: the pages stored
    images,       \* pages whose images are in the object store
    submitted,    \* the job was handed to the comparison scheduler
    jobEnded,     \* a handler found the job terminal or its cancellation requested
    task,         \* the tasks of the workers
    node,         \* is the worker running?
    member,       \* the worker the partition is assigned to
    position,     \* records the member has read; the committed offset if none
    committed,    \* committed offset: records nobody will be given again
    interrupted,  \* history: pages whose handler was cut off after its claim
    faults        \* faults so far

handlerVars == <<inbox, pages, images, submitted>>
topicVars   == <<member, position, committed>>
vars == <<item, handlerVars, jobEnded, task, node, topicVars, interrupted, faults>>

NoItem == [status |-> "none", attempt |-> 0, epoch |-> 0,
           lapsed |-> FALSE, due |-> FALSE]
NewItem == [status |-> "pending", attempt |-> 0, epoch |-> 0,
            lapsed |-> FALSE, due |-> TRUE]
Idle   == [pc |-> "poll", item |-> 0, epoch |-> 0, ready |-> FALSE]
Dead   == [pc |-> "dead", item |-> 0, epoch |-> 0, ready |-> FALSE]
Down   == [pc |-> "down", item |-> 0, epoch |-> 0, ready |-> FALSE]

\* The handler is past its claim of the command and not yet through.
Working == {"work", "report", "discard", "submit"}

Init ==
    /\ item = [i \in Items |-> NoItem]
    /\ inbox = {}
    /\ pages = {}
    /\ images = Items
    /\ submitted = FALSE
    /\ jobEnded = FALSE
    /\ task = [t \in Tasks |-> Idle]
    /\ node = [w \in Workers |-> "up"]
    /\ member = FirstMember
    /\ position = 0
    /\ committed = 0
    /\ interrupted = {}
    /\ faults = 0

MayFail(kind) == kind \in Disturbances /\ faults < MaxFaults
Fault(kind)   == MayFail(kind) /\ faults' = faults + 1

Goto(t, pc) == task' = [task EXCEPT ![t].pc = pc]

-----------------------------------------------------------------------------
(* Commands, records and the clock: nothing the service decides *)

\* create_work_item: an item whose task_id exists is left as it is.
CreateWorkItem(i) ==
    /\ item' = IF item[i] = NoItem THEN [item EXCEPT ![i] = NewItem] ELSE item
    /\ UNCHANGED <<handlerVars, jobEnded, task, node, topicVars, interrupted, faults>>

\* The task that works under the item's current lease, if any.
Holds(w, i) ==
    /\ task[ItemsTask(w)].item = i
    /\ task[ItemsTask(w)].epoch = item[i].epoch

\* Nothing renews a lease: it runs out under a handler that is slow, and in time
\* when its owner is gone.
LeaseLapses(i) ==
    /\ item[i].status = "leased"
    /\ ~item[i].lapsed
    /\ IF \E w \in Workers : Holds(w, i) THEN Fault("slow") ELSE UNCHANGED faults
    /\ item' = [item EXCEPT ![i].lapsed = TRUE]
    /\ UNCHANGED <<handlerVars, jobEnded, task, node, topicVars, interrupted>>

RetryDelayPasses(i) ==
    /\ item[i].status = "pending"
    /\ ~item[i].due
    /\ item' = [item EXCEPT ![i].due = TRUE]
    /\ UNCHANGED <<handlerVars, jobEnded, task, node, topicVars, interrupted, faults>>

-----------------------------------------------------------------------------
(* OcrWorkItemWorker._run *)

\* Mutant: the rows another worker has leased are never looked at again.
LeasableIfPending(i) ==
    /\ item[i].status = "pending"
    /\ item[i].due

Leasable(i) ==
    /\ item[i].status \in {"pending", "leased"}
    /\ item[i].due
    /\ item[i].status = "leased" => item[i].lapsed

\* lease_work_item: the oldest row that may be leased gets a new token and epoch.
\* The attempts are counted here and limited nowhere but in retry_work_item.
LeaseItem(w) ==
    /\ task[ItemsTask(w)].pc = "poll"
    /\ \E i \in Items :
        /\ Leasable(i)
        /\ \A j \in 1..(i - 1) : ~Leasable(j)
        /\ item' = [item EXCEPT ![i].status = "leased",
                                ![i].attempt = @ + 1,
                                ![i].epoch = @ + 1,
                                ![i].lapsed = FALSE]
        /\ task' = [task EXCEPT ![ItemsTask(w)] =
                        [pc |-> "claim", item |-> i,
                         epoch |-> item[i].epoch + 1, ready |-> FALSE]]
    /\ UNCHANGED <<handlerVars, jobEnded, node, topicVars, interrupted, faults>>

\* Mutant: the item is found by its id alone.
FencedById(t) == task[t].item \in Items

\* The fence of complete_work_item and retry_work_item: id, lease_token and
\* lease_epoch; a token is made for one lease.  The status is not looked at.
Fenced(t) == item[task[t].item].epoch = task[t].epoch

\* complete_work_item: the UPDATE, then work_attempts in a statement of its own.
\* The caller does not look at what it returns.
CompleteUpdate(t) ==
    item' = IF Fenced(t)
            THEN [item EXCEPT ![task[t].item].status = "succeeded",
                              ![task[t].item].lapsed = FALSE]
            ELSE item

CompleteItem(w) ==
    LET t == ItemsTask(w) IN
    /\ task[t].pc = "finish"
    /\ CompleteUpdate(t)
    /\ task' = [task EXCEPT ![t] = Idle]
    /\ UNCHANGED <<handlerVars, jobEnded, node, topicVars, interrupted, faults>>

\* It raises, before the UPDATE or after: the except branch goes on to retry.
CompleteItemFails(w) ==
    LET t == ItemsTask(w) IN
    /\ task[t].pc = "finish"
    /\ Fault("ack_error")
    /\ CompleteUpdate(t) \/ UNCHANGED item
    /\ Goto(t, "retry")
    /\ UNCHANGED <<handlerVars, jobEnded, node, topicVars, interrupted>>

\* retry_work_item, after a delay of min(60, 2^attempt) seconds or never again.
RetryItem(w) ==
    LET t == ItemsTask(w)
        i == task[t].item
        outcome == IF item[i].attempt >= MaxAttempts THEN "failed" ELSE "pending"
    IN
    /\ task[t].pc = "retry"
    /\ item' = IF Fenced(t)
               THEN [item EXCEPT ![i].status = outcome, ![i].lapsed = FALSE,
                                 ![i].due = FALSE]
               ELSE item
    /\ task' = [task EXCEPT ![t] = Idle]
    /\ UNCHANGED <<handlerVars, jobEnded, node, topicVars, interrupted, faults>>

\* Only CancelledError is caught around the loop: any other exception of a lease
\* or a retry ends the task for good, and nobody watches it.
LoopDies(w) ==
    /\ task[ItemsTask(w)].pc \in {"poll", "retry"}
    /\ Fault("loop_error")
    /\ task' = [task EXCEPT ![ItemsTask(w)] = Dead]
    /\ UNCHANGED <<item, handlerVars, jobEnded, node, topicVars, interrupted>>

-----------------------------------------------------------------------------
(* OcrStageHandler.__call__ and ChunkProcessor.process *)

\* Mutant: the answer of claim_inbox is ignored.
ClaimIgnored(t) ==
    LET i == task[t].item IN
    /\ task[t].pc = "claim"
    /\ inbox' = inbox \cup {i}
    /\ Goto(t, "work")
    /\ UNCHANGED <<item, pages, images, submitted, jobEnded, node, topicVars,
                   interrupted, faults>>

\* claim_inbox: a command whose row exists is a duplicate and returns at once,
\* whether or not the first handler is through.
ClaimInbox(t) ==
    LET i == task[t].item IN
    /\ task[t].pc = "claim"
    /\ inbox' = inbox \cup {i}
    /\ Goto(t, IF i \in inbox THEN "finish" ELSE "work")
    /\ UNCHANGED <<item, pages, images, submitted, jobEnded, node, topicVars,
                   interrupted, faults>>

\* Mutant: the pages are counted before the page is stored.
CountedBeforeStored(t) ==
    /\ task[t].pc = "work"
    /\ pages' = pages \cup {task[t].item}
    /\ task' = [task EXCEPT ![t].pc = "report", ![t].ready = pages = Items]
    /\ UNCHANGED <<item, inbox, images, submitted, jobEnded, node, topicVars,
                   interrupted, faults>>

\* process skips the page of a job that is terminal or to be cancelled.  The job
\* may have come to that at any time before: nothing else in this module looks.
SkipPage(t) ==
    /\ task[t].pc = "work"
    /\ IF jobEnded THEN UNCHANGED faults ELSE Fault("job_ends")
    /\ jobEnded' = TRUE
    /\ Goto(t, "discard")
    /\ UNCHANGED <<item, handlerVars, node, topicVars, interrupted>>

\* The images are read and OCRed; save_ocr_pair stores the page and counts the
\* pages in one transaction.
OcrPage(t) ==
    /\ task[t].pc = "work"
    /\ task[t].item \in images
    /\ ~jobEnded
    /\ pages' = pages \cup {task[t].item}
    /\ task' = [task EXCEPT ![t].pc = "report", ![t].ready = pages' = Items]
    /\ UNCHANGED <<item, inbox, images, submitted, jobEnded, node, topicVars,
                   interrupted, faults>>

\* The chunk is marked processed and the status published: nothing here depends on
\* either.
ReportPage(t) ==
    /\ task[t].pc = "report"
    /\ Goto(t, "discard")
    /\ UNCHANGED <<item, handlerVars, jobEnded, node, topicVars, interrupted, faults>>

\* _discard_page_images swallows every error: the images may stay for good.
DiscardImages(t) ==
    /\ task[t].pc = "discard"
    /\ \/ images' = images \ {task[t].item} /\ UNCHANGED faults
       \/ Fault("handler_error") /\ UNCHANGED images
    /\ Goto(t, "submit")
    /\ UNCHANGED <<item, inbox, pages, submitted, jobEnded, node, topicVars, interrupted>>

\* The job goes to the comparison scheduler if this page made it complete.
SubmitJob(t) ==
    /\ task[t].pc = "submit"
    /\ submitted' = (submitted \/ task[t].ready)
    /\ task' = [task EXCEPT ![t].pc = "finish", ![t].ready = FALSE]
    /\ UNCHANGED <<item, inbox, pages, images, jobEnded, node, topicVars, interrupted, faults>>

\* Mutant: the images are deleted in a finally clause.
RaisesAndDiscards(t) ==
    LET i == task[t].item IN
    /\ task[t].pc \in {"work", "report"}
    /\ Fault("handler_error")
    /\ images' = images \ {i}
    /\ interrupted' = interrupted \cup {i}
    /\ IF t[2] = "items" THEN Goto(t, "retry") ELSE task' = [task EXCEPT ![t] = Idle]
    /\ UNCHANGED <<item, inbox, pages, submitted, jobEnded, node, topicVars>>

\* Mutant: claim_inbox takes every error for a duplicate.
ErrorIsDuplicate(t) ==
    /\ task[t].pc = "claim"
    /\ Fault("handler_error")
    /\ Goto(t, "finish")
    /\ UNCHANGED <<item, handlerVars, jobEnded, node, topicVars, interrupted>>

\* The handler raises at any of its calls.  claim_inbox may raise after its
\* INSERT: the command then counts as handled though nothing was done.
HandlerRaises(t) ==
    LET i == task[t].item IN
    /\ task[t].pc \in {"claim", "work", "report"}
    /\ Fault("handler_error")
    /\ \/ /\ task[t].pc = "claim" /\ i \notin inbox
          /\ inbox' = inbox \cup {i}
          /\ interrupted' = interrupted \cup {i}
       \/ /\ UNCHANGED inbox
          /\ interrupted' = IF task[t].pc = "claim" THEN interrupted
                                                    ELSE interrupted \cup {i}
    /\ IF t[2] = "items" THEN Goto(t, "retry") ELSE task' = [task EXCEPT ![t] = Idle]
    /\ UNCHANGED <<item, pages, images, submitted, jobEnded, node, topicVars>>

-----------------------------------------------------------------------------
(* ManualCommitConsumer on ocr.cmd *)

\* The next record, however late Kafka is with it.  A record whose handler raised
\* is not read again.
FetchRecord(w) ==
    /\ member = w
    /\ task[KafkaTask(w)].pc = "poll"
    /\ position < Pages /\ item[position + 1] # NoItem
    /\ position' = position + 1
    /\ task' = [task EXCEPT ![KafkaTask(w)] =
                    [pc |-> "claim", item |-> position + 1, epoch |-> 0,
                     ready |-> FALSE]]
    /\ UNCHANGED <<item, handlerVars, jobEnded, node, member, committed,
                   interrupted, faults>>

\* Mutant: the offset after the next record is committed.
CommitOneTooFar(w) ==
    LET t == KafkaTask(w) IN
    /\ task[t].pc = "finish"
    /\ committed' = IF member = w THEN task[t].item + 1 ELSE committed
    /\ task' = [task EXCEPT ![t] = Idle]
    /\ UNCHANGED <<item, handlerVars, jobEnded, node, member, position,
                   interrupted, faults>>

\* The commit covers every record before this one too, handled or not.
CommitRecord(w) ==
    LET t == KafkaTask(w) IN
    /\ task[t].pc = "finish"
    /\ committed' = IF member = w THEN task[t].item ELSE committed
    /\ task' = [task EXCEPT ![t] = Idle]
    /\ UNCHANGED <<item, handlerVars, jobEnded, node, member, position,
                   interrupted, faults>>

CommitRaises(w) ==
    /\ task[KafkaTask(w)].pc = "finish"
    /\ Fault("ack_error")
    /\ task' = [task EXCEPT ![KafkaTask(w)] = Idle]
    /\ UNCHANGED <<item, handlerVars, jobEnded, node, topicVars, interrupted>>

\* The partition moves to w, which starts at the committed offset.
Rebalance(w) ==
    /\ node[w] = "up"
    /\ member # w
    /\ IF member = NoWorker THEN UNCHANGED faults ELSE Fault("rebalance")
    /\ member' = w
    /\ position' = committed
    /\ UNCHANGED <<item, handlerVars, jobEnded, task, node, committed, interrupted>>

-----------------------------------------------------------------------------
(* Crash and restart *)

Crash(w) ==
    /\ node[w] = "up"
    /\ Fault("crash")
    /\ node' = [node EXCEPT ![w] = "down"]
    /\ task' = [t \in Tasks |-> IF t[1] = w THEN Down ELSE task[t]]
    /\ interrupted' = interrupted \cup
            {task[t].item : t \in {u \in Tasks : u[1] = w /\ task[u].pc \in Working}}
    /\ IF member = w THEN member' = NoWorker /\ position' = committed
                     ELSE UNCHANGED <<member, position>>
    /\ UNCHANGED <<item, handlerVars, jobEnded, committed>>

\* The lifespan starts both tasks and submits the jobs whose pages are complete.
Restart(w) ==
    /\ node[w] = "down"
    /\ node' = [node EXCEPT ![w] = "up"]
    /\ task' = [t \in Tasks |-> IF t[1] = w THEN Idle ELSE task[t]]
    /\ submitted' = (submitted \/ (pages = Items /\ ~jobEnded))
    /\ UNCHANGED <<item, inbox, pages, images, jobEnded, topicVars, interrupted, faults>>

-----------------------------------------------------------------------------

HandlerStep(t) ==
    \/ ClaimInbox(t)
    \/ SkipPage(t)
    \/ OcrPage(t)
    \/ ReportPage(t)
    \/ DiscardImages(t)
    \/ SubmitJob(t)

\* The next step of a worker's items task, or of a stopped worker.
ItemsTurn(w) ==
    \/ LeaseItem(w)
    \/ HandlerStep(ItemsTask(w))
    \/ CompleteItem(w)
    \/ RetryItem(w)
    \/ Restart(w)

ClockStep(i) == LeaseLapses(i) \/ RetryDelayPasses(i)

Environment ==
    \/ \E i \in Items : CreateWorkItem(i) \/ ClockStep(i)

WorkerStep(w) ==
    \/ ItemsTurn(w)
    \/ HandlerStep(KafkaTask(w))
    \/ CompleteItemFails(w)
    \/ LoopDies(w)
    \/ FetchRecord(w)
    \/ CommitRecord(w)
    \/ CommitRaises(w)
    \/ Rebalance(w)
    \/ Crash(w)

Next ==
    \/ Environment
    \/ \E w \in Workers : WorkerStep(w)
    \/ \E t \in Tasks : HandlerRaises(t)

Spec == Init /\ [][Next]_vars

(* Fairness: asyncio runs the items task when it can, a stopped process is  *)
(* started again and clocks advance.  Nothing is owed by whoever makes the  *)
(* commands and nothing by Kafka: its records may never come.               *)
Fairness ==
    /\ \A w \in Workers : WF_vars(ItemsTurn(w))
    /\ \A i \in Items : WF_vars(ClockStep(i))

FairSpec == Spec /\ Fairness
-----------------------------------------------------------------------------
(* Properties *)

ItemRecord == [status  : {"none", "pending", "leased", "succeeded", "failed"},
               attempt : Nat,
               epoch   : Nat,
               lapsed  : BOOLEAN,
               due     : BOOLEAN]

TaskStates == {"poll", "claim", "finish", "retry", "dead", "down"} \cup Working

TaskRecord == [pc    : TaskStates,
               item  : Items \cup {0},
               epoch : Nat,
               ready : BOOLEAN]

\* Every variable is in its type; the offsets do not pass the end of the topic,
\* and a task that is not waiting has an item (work_items, consumer_inbox, the
\* group's offsets, the two loops).
TypeOK ==
    /\ item \in [Items -> ItemRecord]
    /\ inbox \subseteq Items
    /\ pages \subseteq Items
    /\ images \subseteq Items
    /\ submitted \in BOOLEAN
    /\ jobEnded \in BOOLEAN
    /\ task \in [Tasks -> TaskRecord]
    /\ \A t \in Tasks : task[t].pc \notin {"poll", "dead", "down"} => task[t].item \in Items
    /\ node \in [Workers -> {"up", "down"}]
    /\ member \in Workers \cup {NoWorker}
    /\ position \in 0..Pages
    /\ committed \in 0..Pages
    /\ interrupted \subseteq Items
    /\ faults \in Nat

AtWork(t, i) == task[t].pc \in Working /\ task[t].item = i

\* No page is in the hands of two handlers, whatever leases lapse, partitions
\* move and commands come on both lanes: claim_inbox lets one of them through.
OneHandlerPerPage ==
    \A i \in Items : \A t, u \in Tasks : AtWork(t, i) /\ AtWork(u, i) => t = u

\* An item that succeeded has its page stored once nobody works on it, unless a
\* handler was cut off between its claim and its end or the job had ended.
SucceededHasPage ==
    \A i \in Items :
        /\ item[i].status = "succeeded"
        /\ i \notin interrupted
        /\ \A t \in Tasks : ~AtWork(t, i)
        => i \in pages \/ jobEnded

\* The images of a page are deleted only when they are no longer needed
\* (_discard_page_images runs after process).
ImagesOutliveOcr == \A i \in Items : i \in images \cup pages \/ jobEnded

\* However the handlers of the last pages interleave, one of them sees the job
\* complete and submits it (save_ocr_pair counts in the transaction that stores).
CompleteJobSubmitted ==
    /\ pages = Items
    /\ interrupted = {}
    /\ \A t \in Tasks : task[t].pc \notin Working
    => submitted

\* An item is never lost between the workers: in the end it is succeeded or given
\* up for good, unless the loops of all workers have died.
ItemsSettle ==
    \/ <>[](\A w \in Workers : task[ItemsTask(w)].pc = "dead")
    \/ \A i \in Items : <>[](item[i].status \in {"none", "succeeded", "failed"})

\* An item that is marked succeeded has its page: what "PG-backed OCR dispatch"
\* promises of a command whose record is late (ocr_work_items.py:16).
SucceededIsStored ==
    \A i \in Items :
        /\ item[i].status = "succeeded"
        /\ \A t \in Tasks : ~AtWork(t, i)
        => i \in pages

-----------------------------------------------------------------------------
(* The items as a queue of leased work items *)

Phase(i) ==
    CASE item[i].status = "none"      -> "none"
      [] item[i].status = "pending"   -> "waiting"
      [] item[i].status = "leased"    -> "held"
      [] item[i].status = "succeeded" -> "done"
      [] item[i].status = "failed"    -> "dropped"

Queue == INSTANCE LeaseQueue WITH
    phase   <- [i \in Items |-> Phase(i)],
    holders <- [i \in Items |-> {w \in Workers : Holds(w, i)}]

\* Only the worker of the latest lease decides an item; a worker whose lease was
\* taken over changes nothing, however late it comes (lease_token, lease_epoch).
RefinesLeaseQueue == Queue!Spec
=============================================================================
