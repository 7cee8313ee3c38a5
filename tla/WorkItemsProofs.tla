--------------------------- MODULE WorkItemsProofs ---------------------------
(***************************************************************************)
(* Proofs about WorkItems, for any number of workers, pages, attempts and  *)
(* faults of any kind: types, the safety of the OCR commands, and that the *)
(* rows of work_items are a LeaseQueue.                                    *)
(***************************************************************************)
EXTENDS WorkItems, TLAPS

LEMMA LaneTasks ==
    ASSUME NEW w \in Workers
    PROVE  ItemsTask(w) \in Tasks /\ KafkaTask(w) \in Tasks
BY DEF Tasks, Lanes, ItemsTask, KafkaTask

-----------------------------------------------------------------------------
(* Types *)

LEMMA TypeInit == Init => TypeOK
<1> SUFFICES ASSUME Init PROVE TypeOK
    OBVIOUS
<1>1. item \in [Items -> ItemRecord]
    BY DEF Init, NoItem, ItemRecord
<1>2. task \in [Tasks -> TaskRecord] /\ \A t \in Tasks : task[t].pc = "poll"
    BY DEF Init, Idle, TaskRecord, TaskStates
<1>3. position \in 0..Pages /\ committed \in 0..Pages
    BY WorkItemsAssumption DEF Init
<1>4. member \in Workers \cup {NoWorker}
    BY WorkItemsAssumption DEF Init
<1> QED
    BY <1>1, <1>2, <1>3, <1>4 DEF Init, TypeOK

LEMMA TypeClock ==
    ASSUME TypeOK, Environment PROVE TypeOK'
<1>1. PICK i \in Items : CreateWorkItem(i) \/ ClockStep(i)
    BY DEF Environment
<1>2. CASE CreateWorkItem(i)
    BY <1>2, WorkItemsAssumption DEF CreateWorkItem, handlerVars, topicVars, TypeOK, NewItem, ItemRecord
<1>3. CASE LeaseLapses(i)
    <2>1. item' \in [Items -> ItemRecord]
        BY <1>3 DEF LeaseLapses, TypeOK, ItemRecord
    <2>2. faults' \in Nat
        BY <1>3 DEF LeaseLapses, TypeOK, Fault
    <2> QED
        BY <1>3, <2>1, <2>2 DEF LeaseLapses, TypeOK, handlerVars, topicVars
<1>4. CASE RetryDelayPasses(i)
    BY <1>4, WorkItemsAssumption DEF RetryDelayPasses, handlerVars, topicVars, TypeOK, ItemRecord
<1> QED BY <1>1, <1>2, <1>3, <1>4 DEF ClockStep

LEMMA TypeHandler ==
    ASSUME TypeOK, NEW t \in Tasks, HandlerStep(t) \/ HandlerRaises(t) PROVE TypeOK'
<1>1. CASE ClaimInbox(t)
    BY <1>1 DEF ClaimInbox, Goto, topicVars, TypeOK, TaskRecord, TaskStates, Working
<1>2. CASE SkipPage(t)
    BY <1>2 DEF SkipPage, Goto, Fault, MayFail, handlerVars, topicVars, TypeOK, TaskRecord, TaskStates, Working
<1>3. CASE OcrPage(t)
    <2>1. \/ task' = [task EXCEPT ![t].pc = "report", ![t].ready = TRUE]
          \/ task' = [task EXCEPT ![t].pc = "report", ![t].ready = FALSE]
        <3>1. CASE pages' = Items
            <4>1. (pages' = Items) = TRUE
                BY <3>1
            <4> QED BY <1>3, <4>1 DEF OcrPage
        <3>2. CASE pages' # Items
            <4>1. (pages' = Items) = FALSE
                BY <3>2
            <4> QED BY <1>3, <4>1 DEF OcrPage
        <3> QED BY <3>1, <3>2
    <2>2. task' \in [Tasks -> TaskRecord]
        BY <2>1 DEF TypeOK, TaskRecord, TaskStates, Working
    <2>3. \A u \in Tasks : task'[u].item = task[u].item
        BY <1>3 DEF OcrPage, TypeOK, TaskRecord
    <2>4. \A u \in Tasks : u # t => task'[u] = task[u]
        BY <1>3 DEF OcrPage, TypeOK
    <2>5. task[t].item \in Items
        BY <1>3 DEF OcrPage, TypeOK
    <2> QED
        BY <1>3, <2>2, <2>3, <2>4, <2>5 DEF OcrPage, topicVars, TypeOK
<1>4. CASE ReportPage(t) \/ DiscardImages(t) \/ SubmitJob(t)
    BY <1>4 DEF ReportPage, DiscardImages, SubmitJob, handlerVars, Goto, Fault, MayFail, topicVars, TypeOK, TaskRecord, TaskStates, Working
<1>5. CASE HandlerRaises(t)
    <2>1. task[t].item \in Items
        BY <1>5 DEF HandlerRaises, TypeOK
    <2>2. /\ task' \in [Tasks -> TaskRecord]
          /\ \A u \in Tasks : task'[u].pc \notin {"poll", "dead", "down"} => task'[u].item \in Items
        <3>1. CASE task' = [task EXCEPT ![t].pc = "retry"]
            BY <3>1, <2>1 DEF TypeOK, TaskRecord, TaskStates
        <3>2. CASE task' = [task EXCEPT ![t] = Idle]
            BY <3>2 DEF Idle, TypeOK, TaskRecord, TaskStates
        <3> QED BY <1>5, <3>1, <3>2 DEF HandlerRaises, Goto
    <2>3. inbox' \subseteq Items /\ interrupted' \subseteq Items
        BY <1>5, <2>1 DEF HandlerRaises, TypeOK
    <2>4. faults' \in Nat
        BY <1>5 DEF HandlerRaises, Fault, TypeOK
    <2> QED
        BY <1>5, <2>2, <2>3, <2>4 DEF HandlerRaises, topicVars, TypeOK
<1> QED BY <1>1, <1>2, <1>3, <1>4, <1>5 DEF HandlerStep

LEMMA TypeItems ==
    ASSUME TypeOK, NEW w \in Workers,
           LeaseItem(w) \/ CompleteItem(w) \/ CompleteItemFails(w) \/ RetryItem(w) \/ LoopDies(w)
    PROVE  TypeOK'
<1>t. ItemsTask(w) \in Tasks BY LaneTasks
<1>1. CASE LeaseItem(w)
    <2>1. PICK i \in Items :
            /\ item' = [item EXCEPT ![i].status = "leased", ![i].attempt = @ + 1,
                                    ![i].epoch = @ + 1, ![i].lapsed = FALSE]
            /\ task' = [task EXCEPT ![ItemsTask(w)] =
                            [pc |-> "claim", item |-> i, epoch |-> item[i].epoch + 1,
                             ready |-> FALSE]]
        BY <1>1 DEF LeaseItem
    <2>2. item' \in [Items -> ItemRecord]
        BY <2>1 DEF TypeOK, ItemRecord
    <2>3. [pc |-> "claim", item |-> i, epoch |-> item[i].epoch + 1, ready |-> FALSE]
            \in TaskRecord
        BY DEF TypeOK, ItemRecord, TaskRecord, TaskStates
    <2>4. /\ task' \in [Tasks -> TaskRecord]
          /\ \A u \in Tasks : task'[u].pc \notin {"poll", "dead", "down"} => task'[u].item \in Items
        BY <1>t, <2>1, <2>3 DEF TypeOK
    <2> QED
        BY <1>1, <2>2, <2>4 DEF LeaseItem, handlerVars, topicVars, TypeOK
<1>2. CASE CompleteItem(w)
    <2>1. item' \in [Items -> ItemRecord]
        BY <1>2, <1>t DEF CompleteItem, CompleteUpdate, TypeOK, ItemRecord
    <2>2. /\ task' \in [Tasks -> TaskRecord]
          /\ \A u \in Tasks : task'[u].pc \notin {"poll", "dead", "down"} => task'[u].item \in Items
        BY <1>2, <1>t DEF CompleteItem, Idle, TypeOK, TaskRecord, TaskStates
    <2> QED
        BY <1>2, <2>1, <2>2 DEF CompleteItem, handlerVars, topicVars, TypeOK
<1>3. CASE CompleteItemFails(w)
    <2>1. item' \in [Items -> ItemRecord]
        BY <1>3, <1>t DEF CompleteItemFails, CompleteUpdate, TypeOK, ItemRecord
    <2>2. /\ task' \in [Tasks -> TaskRecord]
          /\ \A u \in Tasks : task'[u].pc \notin {"poll", "dead", "down"} => task'[u].item \in Items
        BY <1>3, <1>t DEF CompleteItemFails, Goto, TypeOK, TaskRecord, TaskStates
    <2>3. faults' \in Nat
        BY <1>3 DEF CompleteItemFails, Fault, TypeOK
    <2> QED
        BY <1>3, <2>1, <2>2, <2>3 DEF CompleteItemFails, handlerVars, topicVars, TypeOK
<1>4. CASE RetryItem(w)
    <2>1. item' \in [Items -> ItemRecord]
        BY <1>4, <1>t DEF RetryItem, TypeOK, ItemRecord
    <2>2. /\ task' \in [Tasks -> TaskRecord]
          /\ \A u \in Tasks : task'[u].pc \notin {"poll", "dead", "down"} => task'[u].item \in Items
        BY <1>4, <1>t DEF RetryItem, Idle, TypeOK, TaskRecord, TaskStates
    <2> QED
        BY <1>4, <2>1, <2>2 DEF RetryItem, handlerVars, topicVars, TypeOK
<1>5. CASE LoopDies(w)
    BY <1>5, <1>t DEF LoopDies, Dead, Idle, Fault, MayFail, handlerVars, topicVars, TypeOK, TaskRecord, TaskStates, Working
<1> QED BY <1>1, <1>2, <1>3, <1>4, <1>5

LEMMA TypeWorker ==
    ASSUME TypeOK, NEW w \in Workers,
           \/ FetchRecord(w) \/ CommitRecord(w) \/ CommitRaises(w)
           \/ Rebalance(w) \/ Crash(w) \/ Restart(w)
    PROVE  TypeOK'
<1>t. KafkaTask(w) \in Tasks BY LaneTasks
<1>1. CASE FetchRecord(w)
    BY <1>1, <1>t, WorkItemsAssumption DEF FetchRecord, handlerVars, TypeOK, Items, TaskRecord, TaskStates, Working
<1>2. CASE CommitRecord(w)
    BY <1>2, <1>t, WorkItemsAssumption DEF CommitRecord, Idle, handlerVars, TypeOK, Items, TaskRecord, TaskStates, Working
<1>3. CASE CommitRaises(w)
    BY <1>3, <1>t DEF CommitRaises, Idle, Fault, MayFail, handlerVars, topicVars, TypeOK, TaskRecord, TaskStates, Working
<1>4. CASE Rebalance(w)
    BY <1>4 DEF Rebalance, Fault, MayFail, handlerVars, TypeOK
<1>5. CASE Crash(w)
    BY <1>5 DEF Crash, Down, Idle, Fault, MayFail, handlerVars, TypeOK, TaskRecord, TaskStates, Working, Tasks, Lanes
<1>6. CASE Restart(w)
    BY <1>6 DEF Restart, Idle, topicVars, TypeOK, TaskRecord, TaskStates, Working
<1> QED BY <1>1, <1>2, <1>3, <1>4, <1>5, <1>6

LEMMA TypeStep == TypeOK /\ [Next]_vars => TypeOK'
<1> SUFFICES ASSUME TypeOK, [Next]_vars PROVE TypeOK' OBVIOUS
<1>1. CASE Environment BY <1>1, TypeClock
<1>2. CASE \E w \in Workers : WorkerStep(w)
    BY <1>2, LaneTasks, TypeHandler, TypeItems, TypeWorker DEF WorkerStep, ItemsTurn
<1>3. CASE \E t \in Tasks : HandlerRaises(t) BY <1>3, TypeHandler
<1>4. CASE UNCHANGED vars
    BY <1>4 DEF vars, handlerVars, topicVars, TypeOK
<1> QED BY <1>1, <1>2, <1>3, <1>4 DEF Next

\* Every variable keeps its type (work_items, consumer_inbox, offsets, loops).
THEOREM TypeCorrect == Spec => []TypeOK
BY TypeInit, TypeStep, PTL DEF Spec

-----------------------------------------------------------------------------
(* Safety *)

\* A claim stands for a handler: who works has claimed, and a command that is
\* claimed is worked on by one task, interrupted or through.
ClaimsHold ==
    /\ \A t \in Tasks : task[t].pc \in Working \cup {"finish"} => task[t].item \in inbox
    /\ OneHandlerPerPage
    /\ \A i \in inbox :
          i \in interrupted \/ (\E t \in Tasks : AtWork(t, i)) \/ i \in pages \/ jobEnded

\* What is past OCR is stored, and what is marked succeeded was claimed.
DoneHolds ==
    /\ \A t \in Tasks : task[t].pc \in {"report", "discard", "submit"} =>
          task[t].item \in pages \/ jobEnded
    /\ \A i \in Items : item[i].status = "succeeded" => i \in inbox
    /\ ImagesOutliveOcr

\* The task that stored the last page will submit the job.
SubmitHolds ==
    pages = Items /\ interrupted = {} =>
        \/ submitted
        \/ \E t \in Tasks : task[t].pc \in {"report", "discard", "submit"} /\ task[t].ready

Inv == ClaimsHold /\ DoneHolds /\ SubmitHolds

LEMMA InvInit == Init => Inv
<1> SUFFICES ASSUME Init PROVE Inv
    OBVIOUS
<1>1. \A t \in Tasks : task[t].pc = "poll"
    BY DEF Init, Idle
<1>2. \A i \in Items : item[i].status = "none"
    BY DEF Init, NoItem
<1>3. Items # {}
    BY WorkItemsAssumption DEF Items
<1>4. ClaimsHold
    BY <1>1 DEF Init, ClaimsHold, OneHandlerPerPage, AtWork, Working
<1>5. DoneHolds
    BY <1>1, <1>2 DEF Init, DoneHolds, ImagesOutliveOcr
<1>6. SubmitHolds
    BY <1>3 DEF Init, SubmitHolds
<1> QED
    BY <1>4, <1>5, <1>6 DEF Inv

\* A step outside the handlers: tasks take up work, end it or are idle.
LEMMA InvQuiet ==
    ASSUME TypeOK, Inv, UNCHANGED <<handlerVars, jobEnded, interrupted>>,
           \A u \in Tasks : \/ task'[u] = task[u]
                            \/ /\ task[u].pc \notin Working
                               /\ task'[u].pc \notin Working \cup {"finish"},
           \A i \in Items : item'[i].status = "succeeded" =>
                item[i].status = "succeeded" \/ i \in inbox
    PROVE  Inv'
<1>1. \A u \in Tasks : task'[u].pc \in Working \cup {"finish"} => task'[u] = task[u]
    OBVIOUS
<1>2. \A u \in Tasks : task[u].pc \in Working => task'[u] = task[u]
    OBVIOUS
<1>3. \A u \in Tasks, i \in Items : AtWork(u, i)' <=> AtWork(u, i)
    BY <1>1, <1>2 DEF AtWork
<1>4. inbox \subseteq Items
    BY DEF TypeOK
<1>5. ClaimsHold'
    BY <1>1, <1>3, <1>4 DEF Inv, ClaimsHold, OneHandlerPerPage, handlerVars
<1>6. DoneHolds'
    BY <1>1 DEF Inv, DoneHolds, ImagesOutliveOcr, handlerVars, Working
<1>7. SubmitHolds'
    BY <1>2 DEF Inv, SubmitHolds, handlerVars, Working
<1> QED
    BY <1>5, <1>6, <1>7 DEF Inv

LEMMA InvClock ==
    ASSUME TypeOK, Inv, Environment PROVE Inv'
<1>1. PICK i \in Items : CreateWorkItem(i) \/ ClockStep(i)
    BY DEF Environment
<1>2. \A j \in Items : item'[j].status = "succeeded" => item[j].status = "succeeded"
    BY <1>1 DEF CreateWorkItem, ClockStep, LeaseLapses, RetryDelayPasses, NewItem, TypeOK, ItemRecord
<1>3. UNCHANGED <<handlerVars, jobEnded, interrupted, task>>
    BY <1>1 DEF CreateWorkItem, ClockStep, LeaseLapses, RetryDelayPasses, handlerVars
<1> QED
    BY <1>2, <1>3, InvQuiet

LEMMA InvItems ==
    ASSUME TypeOK, Inv, NEW w \in Workers,
           LeaseItem(w) \/ CompleteItem(w) \/ CompleteItemFails(w) \/ RetryItem(w) \/ LoopDies(w)
    PROVE  Inv'
<1> DEFINE t == ItemsTask(w)
<1>1. t \in Tasks
    BY LaneTasks
<1>2. UNCHANGED <<handlerVars, jobEnded, interrupted>>
    BY DEF LeaseItem, CompleteItem, CompleteItemFails, RetryItem, LoopDies, handlerVars
<1>3. \A u \in Tasks : u # t => task'[u] = task[u]
    BY DEF LeaseItem, CompleteItem, CompleteItemFails, RetryItem, LoopDies, Goto, TypeOK
<1>4. task[t].pc \in {"poll", "finish", "retry"}
    BY DEF LeaseItem, CompleteItem, CompleteItemFails, RetryItem, LoopDies
<1>5. task'[t].pc \in {"poll", "claim", "retry", "dead"}
    <2>1. CASE LeaseItem(w)
        <3>1. PICK i \in Items :
                task' = [task EXCEPT ![t] = [pc |-> "claim", item |-> i,
                                             epoch |-> item[i].epoch + 1, ready |-> FALSE]]
            BY <2>1 DEF LeaseItem
        <3> QED
            BY <1>1, <3>1 DEF TypeOK
    <2>2. CASE CompleteItem(w) \/ RetryItem(w) \/ LoopDies(w)
        BY <1>1, <2>2 DEF CompleteItem, RetryItem, LoopDies, Idle, Dead, TypeOK
    <2>3. CASE CompleteItemFails(w)
        BY <1>1, <2>3 DEF CompleteItemFails, Goto, TypeOK, TaskRecord
    <2> QED
        BY <2>1, <2>2, <2>3
<1>6. task[t].pc = "finish" => task[t].item \in inbox
    BY <1>1 DEF Inv, ClaimsHold
<1>7. \A i \in Items : item'[i].status = "succeeded" => item[i].status = "succeeded" \/ i \in inbox
    <2>1. CASE LeaseItem(w)
        <3>1. PICK i \in Items :
                item' = [item EXCEPT ![i].status = "leased", ![i].attempt = @ + 1,
                                     ![i].epoch = @ + 1, ![i].lapsed = FALSE]
            BY <2>1 DEF LeaseItem
        <3> QED
            BY <3>1 DEF TypeOK, ItemRecord
    <2>2. CASE CompleteItem(w) \/ CompleteItemFails(w)
        <3>1. /\ task[t].pc = "finish"
              /\ \/ item' = item
                 \/ item' = [item EXCEPT ![task[t].item].status = "succeeded",
                                        ![task[t].item].lapsed = FALSE]
            BY <2>2 DEF CompleteItem, CompleteItemFails, CompleteUpdate
        <3> QED
            BY <3>1, <1>6 DEF TypeOK, ItemRecord
    <2>3. CASE RetryItem(w)
        BY <2>3 DEF RetryItem, TypeOK, ItemRecord
    <2>4. CASE LoopDies(w)
        BY <2>4 DEF LoopDies
    <2> QED
        BY <2>1, <2>2, <2>3, <2>4
<1> QED
    BY <1>2, <1>3, <1>4, <1>5, <1>7, InvQuiet DEF Working

LEMMA InvTopic ==
    ASSUME TypeOK, Inv, NEW w \in Workers,
           FetchRecord(w) \/ CommitRecord(w) \/ CommitRaises(w) \/ Rebalance(w)
    PROVE  Inv'
<1> DEFINE t == KafkaTask(w)
<1>1. t \in Tasks
    BY LaneTasks
<1>2. UNCHANGED <<item, handlerVars, jobEnded, interrupted>>
    BY DEF FetchRecord, CommitRecord, CommitRaises, Rebalance, handlerVars
<1>3. \A u \in Tasks : u # t => task'[u] = task[u]
    BY DEF FetchRecord, CommitRecord, CommitRaises, Rebalance, TypeOK
<1>4. \/ task'[t] = task[t]
      \/ task[t].pc \in {"poll", "finish"} /\ task'[t].pc \in {"poll", "claim"}
    BY <1>1 DEF FetchRecord, CommitRecord, CommitRaises, Rebalance, Idle, TypeOK
<1> QED
    BY <1>2, <1>3, <1>4, InvQuiet DEF Working

LEMMA InvClaim ==
    ASSUME TypeOK, Inv, NEW t \in Tasks, ClaimInbox(t) PROVE Inv'
<1> DEFINE i == task[t].item
<1>1. i \in Items
    BY DEF ClaimInbox, TypeOK
<1>2. /\ \A u \in Tasks : u # t => task'[u] = task[u]
      /\ task'[t].item = i
      /\ task'[t].pc = IF i \in inbox THEN "finish" ELSE "work"
    BY DEF ClaimInbox, Goto, TypeOK, TaskRecord
<1>3. /\ inbox' = inbox \cup {i}
      /\ task[t].pc = "claim"
      /\ UNCHANGED <<item, pages, images, submitted, jobEnded, interrupted>>
    BY DEF ClaimInbox
<1>4. \A u \in Tasks, j \in Items : AtWork(u, j)' <=>
            AtWork(u, j) \/ (u = t /\ j = i /\ i \notin inbox)
    BY <1>2, <1>3 DEF AtWork, Working
<1>5. inbox \subseteq Items
    BY DEF TypeOK
<1>6. ClaimsHold'
    <2>1. \A u \in Tasks : task'[u].pc \in Working \cup {"finish"} => task'[u].item \in inbox'
        BY <1>2, <1>3 DEF Inv, ClaimsHold, Working
    <2>2. i \notin inbox => \A u \in Tasks : ~AtWork(u, i)
        BY DEF Inv, ClaimsHold, AtWork
    <2>3. OneHandlerPerPage'
        BY <1>4, <2>2 DEF Inv, ClaimsHold, OneHandlerPerPage
    <2>4. ASSUME NEW j \in inbox'
          PROVE  j \in interrupted' \/ (\E u \in Tasks : AtWork(u, j)') \/ j \in pages' \/ jobEnded'
        <3>1. j \in Items
            BY <1>1, <1>3, <1>5
        <3>2. CASE j \in inbox
            BY <3>1, <3>2, <1>3, <1>4 DEF Inv, ClaimsHold
        <3>3. CASE j \notin inbox
            BY <3>1, <3>3, <1>3, <1>4
        <3> QED
            BY <3>2, <3>3
    <2> QED
        BY <2>1, <2>3, <2>4 DEF ClaimsHold
<1>7. DoneHolds'
    BY <1>2, <1>3 DEF Inv, DoneHolds, ImagesOutliveOcr
<1>8. SubmitHolds'
    BY <1>2, <1>3 DEF Inv, SubmitHolds
<1> QED
    BY <1>6, <1>7, <1>8 DEF Inv

\* The page is stored, or the job found to be over.
LEMMA InvWork ==
    ASSUME TypeOK, Inv, NEW t \in Tasks, SkipPage(t) \/ OcrPage(t) PROVE Inv'
<1> DEFINE i == task[t].item
<1>1. i \in Items
    BY DEF SkipPage, OcrPage, TypeOK
<1>2. /\ \A u \in Tasks : u # t => task'[u] = task[u]
      /\ task[t].pc = "work"
      /\ task'[t].item = i
      /\ task'[t].pc \in {"report", "discard"}
    BY DEF SkipPage, OcrPage, Goto, TypeOK, TaskRecord
<1>3. /\ pages \subseteq pages'
      /\ jobEnded => jobEnded'
      /\ i \in pages' \/ jobEnded'
      /\ UNCHANGED <<item, inbox, images, submitted, interrupted>>
    BY DEF SkipPage, OcrPage, handlerVars
<1>4. \A u \in Tasks, j \in Items : AtWork(u, j)' <=> AtWork(u, j)
    BY <1>2 DEF AtWork, Working
<1>5. inbox \subseteq Items
    BY DEF TypeOK
<1>6. ClaimsHold'
    BY <1>2, <1>3, <1>4, <1>5 DEF Inv, ClaimsHold, OneHandlerPerPage, Working
<1>7. DoneHolds'
    BY <1>2, <1>3 DEF Inv, DoneHolds, ImagesOutliveOcr
<1>8. SubmitHolds'
    <2>1. CASE SkipPage(t)
        <3>1. pages' = pages
            BY <2>1 DEF SkipPage, handlerVars
        <3> QED
            BY <1>2, <1>3, <3>1 DEF Inv, SubmitHolds
    <2>2. CASE OcrPage(t) /\ pages' = Items
        <3>1. task'[t].ready
            <4>1. (pages' = Items) = TRUE
                BY <2>2
            <4>2. task' = [task EXCEPT ![t].pc = "report", ![t].ready = TRUE]
                BY <2>2, <4>1 DEF OcrPage
            <4> QED
                BY <4>2 DEF TypeOK, TaskRecord
        <3> QED
            BY <1>2, <3>1 DEF SubmitHolds
    <2>3. CASE OcrPage(t) /\ pages' # Items
        BY <2>3 DEF SubmitHolds
    <2> QED
        BY <2>1, <2>2, <2>3
<1> QED
    BY <1>6, <1>7, <1>8 DEF Inv

\* The page is reported, its images are deleted: the page is past OCR.
LEMMA InvReport ==
    ASSUME TypeOK, Inv, NEW t \in Tasks, ReportPage(t) \/ DiscardImages(t) PROVE Inv'
<1> DEFINE i == task[t].item
<1>1. i \in Items
    BY DEF ReportPage, DiscardImages, TypeOK
<1>2. /\ \A u \in Tasks : u # t => task'[u] = task[u]
      /\ task[t].pc \in {"report", "discard"}
      /\ task'[t].item = i
      /\ task'[t].ready = task[t].ready
      /\ task'[t].pc \in {"discard", "submit"}
    BY DEF ReportPage, DiscardImages, Goto, TypeOK, TaskRecord
<1>3. /\ images' = images \/ images' = images \ {i}
      /\ UNCHANGED <<item, inbox, pages, submitted, jobEnded, interrupted>>
    BY DEF ReportPage, DiscardImages, handlerVars
<1>4. \A u \in Tasks, j \in Items : AtWork(u, j)' <=> AtWork(u, j)
    BY <1>2 DEF AtWork, Working
<1>5. i \in pages \/ jobEnded
    BY <1>2 DEF Inv, DoneHolds
<1>6. inbox \subseteq Items
    BY DEF TypeOK
<1>7. ClaimsHold'
    BY <1>2, <1>3, <1>4, <1>6 DEF Inv, ClaimsHold, OneHandlerPerPage, Working
<1>8. DoneHolds'
    BY <1>2, <1>3, <1>5 DEF Inv, DoneHolds, ImagesOutliveOcr
<1>9. SubmitHolds'
    BY <1>2, <1>3 DEF Inv, SubmitHolds
<1> QED
    BY <1>7, <1>8, <1>9 DEF Inv

\* The handler is through; the job is submitted if its page made it complete.
LEMMA InvSubmit ==
    ASSUME TypeOK, Inv, NEW t \in Tasks, SubmitJob(t) PROVE Inv'
<1> DEFINE i == task[t].item
<1>1. i \in Items
    BY DEF SubmitJob, TypeOK
<1>2. /\ \A u \in Tasks : u # t => task'[u] = task[u]
      /\ task[t].pc = "submit"
      /\ task'[t].item = i
      /\ task'[t].pc = "finish"
    BY DEF SubmitJob, Goto, TypeOK, TaskRecord
<1>3. /\ submitted' = (submitted \/ task[t].ready)
      /\ UNCHANGED <<item, inbox, pages, images, jobEnded, interrupted>>
    BY DEF SubmitJob
<1>4. \A u \in Tasks, j \in Items : AtWork(u, j)' <=> AtWork(u, j) /\ u # t
    BY <1>2 DEF AtWork, Working
<1>5. i \in pages \/ jobEnded
    BY <1>2 DEF Inv, DoneHolds
<1>6. inbox \subseteq Items
    BY DEF TypeOK
<1>7. ClaimsHold'
    <2>1. \A u \in Tasks : task'[u].pc \in Working \cup {"finish"} => task'[u].item \in inbox'
        BY <1>2, <1>3 DEF Inv, ClaimsHold, Working
    <2>2. OneHandlerPerPage'
        BY <1>4 DEF Inv, ClaimsHold, OneHandlerPerPage
    <2>3. ASSUME NEW j \in inbox'
          PROVE  j \in interrupted' \/ (\E u \in Tasks : AtWork(u, j)') \/ j \in pages' \/ jobEnded'
        <3>1. j \in Items /\ j \in inbox
            BY <1>3, <1>6
        <3>2. CASE j = i
            BY <3>2, <1>3, <1>5
        <3>3. CASE j # i
            <4>1. ~AtWork(t, j)
                BY <3>3 DEF AtWork
            <4> QED
                BY <4>1, <3>1, <1>3, <1>4 DEF Inv, ClaimsHold
        <3> QED
            BY <3>2, <3>3
    <2> QED
        BY <2>1, <2>2, <2>3 DEF ClaimsHold
<1>8. DoneHolds'
    BY <1>2, <1>3, <1>5 DEF Inv, DoneHolds, ImagesOutliveOcr
<1>9. SubmitHolds'
    BY <1>2, <1>3 DEF Inv, SubmitHolds
<1> QED
    BY <1>7, <1>8, <1>9 DEF Inv

\* The handler raises: what it had claimed counts as interrupted.
LEMMA InvRaises ==
    ASSUME TypeOK, Inv, NEW t \in Tasks, HandlerRaises(t) PROVE Inv'
<1> DEFINE i == task[t].item
<1>1. i \in Items
    BY DEF HandlerRaises, TypeOK
<1>2. /\ \A u \in Tasks : u # t => task'[u] = task[u]
      /\ task'[t].pc \in {"retry", "poll"}
    <2>1. CASE task' = [task EXCEPT ![t].pc = "retry"]
        BY <2>1 DEF TypeOK, TaskRecord
    <2>2. CASE task' = [task EXCEPT ![t] = Idle]
        BY <2>2 DEF TypeOK, Idle
    <2> QED
        BY <2>1, <2>2 DEF HandlerRaises, Goto
<1>3. /\ UNCHANGED <<item, pages, images, submitted, jobEnded>>
      /\ inbox \subseteq inbox'
      /\ interrupted \subseteq interrupted'
      /\ inbox' \subseteq inbox \cup interrupted'
      /\ task[t].pc \in Working => i \in interrupted'
      /\ task[t].pc \in {"claim", "work", "report"}
    BY DEF HandlerRaises, Working
<1>4. \A u \in Tasks, j \in Items : AtWork(u, j)' <=> AtWork(u, j) /\ u # t
    BY <1>2 DEF AtWork, Working
<1>5. inbox' \subseteq Items
    BY <1>1 DEF TypeOK, HandlerRaises
<1>6. ClaimsHold'
    <2>1. \A u \in Tasks : task'[u].pc \in Working \cup {"finish"} => task'[u].item \in inbox'
        BY <1>2, <1>3 DEF Inv, ClaimsHold, Working
    <2>2. OneHandlerPerPage'
        BY <1>4 DEF Inv, ClaimsHold, OneHandlerPerPage
    <2>3. ASSUME NEW j \in inbox', j \notin interrupted'
          PROVE  (\E u \in Tasks : AtWork(u, j)') \/ j \in pages' \/ jobEnded'
        <3>1. j \in inbox /\ j \notin interrupted /\ j \in Items
            BY <1>3, <1>5, <2>3
        <3>2. ~AtWork(t, j)
            BY <1>3, <2>3 DEF AtWork
        <3> QED
            BY <3>1, <3>2, <1>3, <1>4 DEF Inv, ClaimsHold
    <2> QED
        BY <2>1, <2>2, <2>3 DEF ClaimsHold
<1>7. DoneHolds'
    BY <1>2, <1>3 DEF Inv, DoneHolds, ImagesOutliveOcr
<1>8. SubmitHolds'
    <2> SUFFICES ASSUME pages' = Items, interrupted' = {}, ~submitted'
                 PROVE  \E u \in Tasks : task'[u].pc \in {"report", "discard", "submit"} /\ task'[u].ready
        BY DEF SubmitHolds
    <2>1. pages = Items /\ interrupted = {} /\ ~submitted /\ task[t].pc = "claim"
        BY <1>3 DEF Working
    <2>2. PICK u \in Tasks : task[u].pc \in {"report", "discard", "submit"} /\ task[u].ready
        BY <2>1 DEF Inv, SubmitHolds
    <2> QED
        BY <2>1, <2>2, <1>2
<1> QED
    BY <1>6, <1>7, <1>8 DEF Inv

\* A stopped worker has no task at work.
Stopped == \A t \in Tasks : node[t[1]] = "down" => task[t] = Down

LEMMA StoppedInit == Init => Stopped
BY DEF Init, Stopped, Tasks

LEMMA StoppedKept ==
    ASSUME TypeOK, Stopped, node' = node,
           \A t \in Tasks : task'[t] = task[t] \/ task[t].pc # "down"
    PROVE  Stopped'
BY DEF Stopped, Down

LEMMA StoppedStep == TypeOK /\ Stopped /\ [Next]_vars => Stopped'
<1> SUFFICES ASSUME TypeOK, Stopped, [Next]_vars PROVE Stopped'
    OBVIOUS
<1>1. ASSUME NEW t \in Tasks, HandlerStep(t) PROVE Stopped'
    <2>1. task[t].pc # "down" /\ node' = node
        BY <1>1 DEF HandlerStep, ClaimInbox, SkipPage, OcrPage, ReportPage, DiscardImages, SubmitJob
    <2>2. \A u \in Tasks : u # t => task'[u] = task[u]
        BY <1>1 DEF HandlerStep, ClaimInbox, SkipPage, OcrPage, ReportPage, DiscardImages, SubmitJob,
                    Goto, TypeOK
    <2> QED
        BY <2>1, <2>2, StoppedKept
<1>2. ASSUME NEW t \in Tasks, HandlerRaises(t) PROVE Stopped'
    <2>1. task[t].pc # "down" /\ node' = node
        BY <1>2 DEF HandlerRaises
    <2>2. \A u \in Tasks : u # t => task'[u] = task[u]
        BY <1>2 DEF HandlerRaises, Goto, TypeOK
    <2> QED
        BY <2>1, <2>2, StoppedKept
<1>3. CASE Environment \/ UNCHANGED vars
    <2>1. UNCHANGED <<task, node>>
        BY <1>3 DEF Environment, ClockStep, CreateWorkItem, LeaseLapses, RetryDelayPasses, vars
    <2> QED
        BY <2>1, StoppedKept
<1>4. ASSUME NEW w \in Workers, Crash(w) \/ Restart(w) PROVE Stopped'
    BY <1>4 DEF Crash, Restart, Stopped, Tasks, TypeOK
<1>5. ASSUME NEW w \in Workers,
             LeaseItem(w) \/ CompleteItem(w) \/ CompleteItemFails(w) \/ RetryItem(w) \/ LoopDies(w)
      PROVE  Stopped'
    <2>1. task[ItemsTask(w)].pc # "down" /\ node' = node
        BY <1>5 DEF LeaseItem, CompleteItem, CompleteItemFails, RetryItem, LoopDies
    <2>2. \A u \in Tasks : u # ItemsTask(w) => task'[u] = task[u]
        BY <1>5 DEF LeaseItem, CompleteItem, CompleteItemFails, RetryItem, LoopDies, Goto, TypeOK
    <2> QED
        BY <2>1, <2>2, StoppedKept
<1>6. ASSUME NEW w \in Workers,
             FetchRecord(w) \/ CommitRecord(w) \/ CommitRaises(w) \/ Rebalance(w)
      PROVE  Stopped'
    <2>1. node' = node /\ (task' = task \/ task[KafkaTask(w)].pc # "down")
        BY <1>6 DEF FetchRecord, CommitRecord, CommitRaises, Rebalance
    <2>2. \A u \in Tasks : u # KafkaTask(w) => task'[u] = task[u]
        BY <1>6 DEF FetchRecord, CommitRecord, CommitRaises, Rebalance, TypeOK
    <2> QED
        BY <2>1, <2>2, StoppedKept
<1> QED
    BY <1>1, <1>2, <1>3, <1>4, <1>5, <1>6, LaneTasks DEF Next, WorkerStep, ItemsTurn

LEMMA InvCrash ==
    ASSUME TypeOK, Inv, NEW w \in Workers, Crash(w) PROVE Inv'
<1>1. \A u \in Tasks : IF u[1] = w THEN task'[u] = Down ELSE task'[u] = task[u]
    BY DEF Crash
<1>2. /\ UNCHANGED <<item, inbox, pages, images, submitted, jobEnded>>
      /\ interrupted \subseteq interrupted'
      /\ \A u \in Tasks : u[1] = w /\ task[u].pc \in Working => task[u].item \in interrupted'
    BY DEF Crash, handlerVars
<1>3. \A u \in Tasks, j \in Items : AtWork(u, j)' <=> AtWork(u, j) /\ u[1] # w
    BY <1>1 DEF AtWork, Working, Down
<1>4. inbox \subseteq Items
    BY DEF TypeOK
<1>5. ClaimsHold'
    <2>1. \A u \in Tasks : task'[u].pc \in Working \cup {"finish"} => task'[u].item \in inbox'
        BY <1>1, <1>2 DEF Inv, ClaimsHold, Working, Down
    <2>2. OneHandlerPerPage'
        BY <1>3 DEF Inv, ClaimsHold, OneHandlerPerPage
    <2>3. ASSUME NEW j \in inbox', j \notin interrupted'
          PROVE  (\E u \in Tasks : AtWork(u, j)') \/ j \in pages' \/ jobEnded'
        <3>1. j \in inbox /\ j \notin interrupted /\ j \in Items
            BY <1>2, <1>4, <2>3
        <3>2. \A u \in Tasks : AtWork(u, j) => u[1] # w
            BY <1>2, <2>3 DEF AtWork
        <3> QED
            BY <3>1, <3>2, <1>2, <1>3 DEF Inv, ClaimsHold
    <2> QED
        BY <2>1, <2>2, <2>3 DEF ClaimsHold
<1>6. DoneHolds'
    BY <1>1, <1>2 DEF Inv, DoneHolds, ImagesOutliveOcr, Down
<1>7. SubmitHolds'
    <2> SUFFICES ASSUME pages' = Items, interrupted' = {}, ~submitted'
                 PROVE  \E u \in Tasks : task'[u].pc \in {"report", "discard", "submit"} /\ task'[u].ready
        BY DEF SubmitHolds
    <2>1. PICK u \in Tasks : task[u].pc \in {"report", "discard", "submit"} /\ task[u].ready
        BY <1>2 DEF Inv, SubmitHolds
    <2>2. u[1] # w
        BY <1>2, <2>1 DEF Working
    <2> QED
        BY <2>1, <2>2, <1>1
<1> QED
    BY <1>5, <1>6, <1>7 DEF Inv

LEMMA InvRestart ==
    ASSUME TypeOK, Inv, Stopped, NEW w \in Workers, Restart(w) PROVE Inv'
<1>1. \A u \in Tasks : IF u[1] = w THEN task'[u] = Idle /\ task[u] = Down
                                   ELSE task'[u] = task[u]
    BY DEF Restart, Stopped
<1>2. /\ UNCHANGED <<item, inbox, pages, images, jobEnded, interrupted>>
      /\ submitted => submitted'
    BY DEF Restart
<1>3. \A u \in Tasks, j \in Items : AtWork(u, j)' <=> AtWork(u, j)
    BY <1>1 DEF AtWork, Working, Down, Idle
<1>4. inbox \subseteq Items
    BY DEF TypeOK
<1>5. ClaimsHold'
    BY <1>1, <1>2, <1>3, <1>4 DEF Inv, ClaimsHold, OneHandlerPerPage, Idle, Working
<1>6. DoneHolds'
    BY <1>1, <1>2 DEF Inv, DoneHolds, ImagesOutliveOcr, Idle
<1>7. SubmitHolds'
    <2>1. \A u \in Tasks : task[u].pc \in {"report", "discard", "submit"} => task'[u] = task[u]
        BY <1>1 DEF Down
    <2> QED
        BY <1>2, <2>1 DEF Inv, SubmitHolds
<1> QED
    BY <1>5, <1>6, <1>7 DEF Inv

LEMMA InvStep == TypeOK /\ Stopped /\ Inv /\ [Next]_vars => Inv'
<1> SUFFICES ASSUME TypeOK, Stopped, Inv, [Next]_vars PROVE Inv'
    OBVIOUS
<1>1. ASSUME NEW t \in Tasks, HandlerStep(t) PROVE Inv'
    BY <1>1, InvClaim, InvWork, InvReport, InvSubmit DEF HandlerStep
<1>2. CASE Environment
    BY <1>2, InvClock
<1>3. CASE \E t \in Tasks : HandlerRaises(t)
    BY <1>3, InvRaises
<1>4. CASE \E w \in Workers : WorkerStep(w)
    BY <1>1, <1>4, LaneTasks, InvItems, InvTopic, InvCrash, InvRestart DEF WorkerStep, ItemsTurn
<1>5. CASE UNCHANGED vars
    BY <1>5, InvQuiet DEF vars
<1> QED
    BY <1>2, <1>3, <1>4, <1>5 DEF Next

\* The conjunction that is inductive.
THEOREM Safety == Spec => [](TypeOK /\ Stopped /\ Inv)
<1>1. Init => TypeOK /\ Stopped /\ Inv
    BY TypeInit, StoppedInit, InvInit
<1>2. TypeOK /\ Stopped /\ Inv /\ [Next]_vars => (TypeOK /\ Stopped /\ Inv)'
    BY TypeStep, StoppedStep, InvStep
<1> QED
    BY <1>1, <1>2, PTL DEF Spec

\* No page is ever in the hands of two handlers: claim_inbox lets one through, however
\* many workers and lanes there are and whatever lapses, moves or stops.
THEOREM OneHandler == Spec => []OneHandlerPerPage
<1>1. Inv => OneHandlerPerPage
    BY DEF Inv, ClaimsHold
<1> QED
    BY <1>1, Safety, PTL

\* An item marked succeeded has its page, unless a handler was interrupted in between,
\* still works or the job has ended (complete_work_item after the handler).
THEOREM SucceededStored == Spec => []SucceededHasPage
<1>1. Inv => SucceededHasPage
    BY DEF Inv, ClaimsHold, DoneHolds, SucceededHasPage
<1> QED
    BY <1>1, Safety, PTL

\* Images go only when their page is stored or the job is over
\* (_discard_page_images).
THEOREM ImagesKept == Spec => []ImagesOutliveOcr
<1>1. Inv => ImagesOutliveOcr
    BY DEF Inv, DoneHolds
<1> QED
    BY <1>1, Safety, PTL

\* The job whose pages are complete is handed to the scheduler by one of the handlers,
\* in whatever order they end, unless one was interrupted (OcrStageHandler.__call__).
THEOREM LastPageSubmits == Spec => []CompleteJobSubmitted
<1>1. Inv => CompleteJobSubmitted
    BY DEF Inv, SubmitHolds, CompleteJobSubmitted, Working
<1> QED
    BY <1>1, Safety, PTL

-----------------------------------------------------------------------------
(* The lease queue *)

Its(w) == task[ItemsTask(w)]

\* A lease is known to at most one task, and no task has one that is yet to come:
\* lease_work_item counts the epoch up, and nothing else writes it.
LeaseInv ==
    /\ \A w \in Workers : Its(w).pc = "poll" => Its(w).item = 0
    /\ \A w \in Workers, i \in Items :
          Its(w).item = i => Its(w).epoch >= 1 /\ Its(w).epoch <= item[i].epoch
    /\ \A w, v \in Workers :
          /\ Its(w).item \in Items
          /\ Its(w).item = Its(v).item
          /\ Its(w).epoch = Its(v).epoch
          => w = v

\* What the queue sees of a step.
SameQueue(i)  == item'[i].status = item[i].status /\ item'[i].epoch = item[i].epoch
SameHold(w)   == Its(w)'.item = Its(w).item /\ Its(w)'.epoch = Its(w).epoch

LEMMA HoldKept ==
    ASSUME NEW w \in Workers, NEW i \in Items, item'[i].epoch = item[i].epoch, SameHold(w)
    PROVE  Holds(w, i)' <=> Holds(w, i)
BY DEF Holds, SameHold, Its

LEMMA PhaseKept ==
    ASSUME NEW i \in Items, item'[i].status = item[i].status
    PROVE  Phase(i)' = Phase(i)
BY DEF Phase

-----------------------------------------------------------------------------
(* The three ways a step may look to the queue *)

LEMMA Stutters ==
    ASSUME \A i \in Items : SameQueue(i), \A w \in Workers : SameHold(w)
    PROVE  UNCHANGED Queue!vars
<1>1. \A i \in Items, w \in Workers : Holds(w, i)' <=> Holds(w, i)
    BY HoldKept DEF SameQueue
<1>2. \A i \in Items : Phase(i)' = Phase(i)
    BY PhaseKept DEF SameQueue
<1> QED
    BY <1>1, <1>2 DEF Queue!vars

LEMMA LetsGo ==
    ASSUME \A i \in Items : SameQueue(i), NEW w \in Workers, Its(w)'.item = 0,
           \A v \in Workers : v # w => SameHold(v)
    PROVE  Queue!LetGo(w)
<1>1. \A i \in Items, v \in Workers : v # w => (Holds(v, i)' <=> Holds(v, i))
    BY HoldKept DEF SameQueue
<1>2. \A i \in Items : ~Holds(w, i)'
    BY DEF Holds, Its, Items
<1>3. \A i \in Items : Phase(i)' = Phase(i)
    BY PhaseKept DEF SameQueue
<1>4. \A i \in Items : {v \in Workers : Holds(v, i)}' = {v \in Workers : Holds(v, i)} \ {w}
    BY <1>1, <1>2
<1> QED
    BY <1>3, <1>4 DEF Queue!LetGo

LEMMA Decides ==
    ASSUME LeaseInv, TypeOK, NEW w \in Workers, NEW i \in Items,
           Its(w).item = i, Fenced(ItemsTask(w)),
           item'[i].status \in {"succeeded", "failed", "pending"},
           item'[i].epoch = item[i].epoch,
           \A j \in Items : j # i => SameQueue(j),
           Its(w)'.item = 0 \/ SameHold(w),
           \A v \in Workers : v # w => SameHold(v)
    PROVE  Queue!Decide(w, i)
<1>1. \A v \in Workers, j \in Items : v # w => (Holds(v, j)' <=> Holds(v, j))
    BY HoldKept DEF SameQueue
<1>2. Holds(w, i) /\ \A j \in Items : j # i => ~Holds(w, j) /\ ~Holds(w, j)'
    BY DEF Holds, Its, SameHold, Fenced, Items
<1>3. \A v \in Workers : Holds(v, i) => v = w
    BY <1>2 DEF LeaseInv, Holds, Its
<1>4. {v \in Workers : Holds(v, i)} = {w}
    BY <1>2, <1>3
<1>5. {v \in Workers : Holds(v, i)}' \in {{}, {w}}
    BY <1>1, <1>3
<1>6. \A j \in Items : j # i =>
            {v \in Workers : Holds(v, j)}' = {v \in Workers : Holds(v, j)}
    BY <1>1, <1>2
<1>7. \A j \in Items : j # i => Phase(j)' = Phase(j)
    BY PhaseKept DEF SameQueue
<1>8. Phase(i)' \in {"done", "dropped", "waiting"}
    BY DEF Phase
<1>9. \E p \in Queue!Decided \cup {"waiting"} :
        [j \in Items |-> Phase(j)]' = [[j \in Items |-> Phase(j)] EXCEPT ![i] = p]
    BY <1>7, <1>8 DEF Queue!Decided
<1>10. \E h \in {{}, {w}} :
        [j \in Items |-> {v \in Workers : Holds(v, j)}]'
            = [[j \in Items |-> {v \in Workers : Holds(v, j)}] EXCEPT ![i] = h]
    <2> DEFINE h == {v \in Workers : Holds(v, i)}'
    <2>1. [j \in Items |-> {v \in Workers : Holds(v, j)}]'
            = [[j \in Items |-> {v \in Workers : Holds(v, j)}] EXCEPT ![i] = h]
        BY <1>6, Zenon
    <2> QED
        BY <1>5, <2>1
<1> QED
    BY <1>4, <1>9, <1>10 DEF Queue!Decide

-----------------------------------------------------------------------------
(* Steps *)

\* The steps that leave leases and their owners alone.
QuietItems ==
    /\ \A i \in Items : SameQueue(i)
    /\ \A w \in Workers : SameHold(w) /\ (Its(w)'.pc = "poll" => Its(w).pc = "poll")

LEMMA QuietHandler ==
    ASSUME TypeOK, NEW t \in Tasks, HandlerStep(t) \/ HandlerRaises(t)
    PROVE  QuietItems
<1>1. item' = item
    BY DEF HandlerStep, HandlerRaises, ClaimInbox, SkipPage, OcrPage, ReportPage, DiscardImages, SubmitJob
<1>2. \A u \in Tasks : u # t => task'[u] = task[u]
    BY DEF HandlerStep, HandlerRaises, ClaimInbox, SkipPage, OcrPage, ReportPage, DiscardImages, SubmitJob,
           Goto, TypeOK
<1>3. \/ task'[t].item = task[t].item /\ task'[t].epoch = task[t].epoch /\ task'[t].pc # "poll"
      \/ t[2] # "items"
    <2>1. CASE HandlerStep(t)
        <3>1. CASE ClaimInbox(t)
            BY <3>1 DEF ClaimInbox, Goto, TypeOK, TaskRecord
        <3>2. CASE SkipPage(t)
            BY <3>2 DEF SkipPage, Goto, TypeOK, TaskRecord
        <3>3. CASE OcrPage(t)
            BY <3>3 DEF OcrPage, TypeOK, TaskRecord
        <3>4. CASE ReportPage(t) \/ DiscardImages(t) \/ SubmitJob(t)
            BY <3>4 DEF ReportPage, DiscardImages, SubmitJob, Goto, TypeOK, TaskRecord
        <3> QED
            BY <2>1, <3>1, <3>2, <3>3, <3>4 DEF HandlerStep
    <2>2. CASE HandlerRaises(t) /\ t[2] = "items"
        <3>1. task' = [task EXCEPT ![t].pc = "retry"]
            BY <2>2 DEF HandlerRaises, Goto
        <3> QED
            BY <3>1 DEF TypeOK, TaskRecord
    <2> QED
        BY <2>1, <2>2
<1>4. \A w \in Workers : ItemsTask(w) \in Tasks /\ ItemsTask(w)[2] = "items"
    BY LaneTasks DEF ItemsTask
<1> QED
    BY <1>1, <1>2, <1>3, <1>4 DEF QuietItems, SameQueue, SameHold, Its

LEMMA QuietTopic ==
    ASSUME TypeOK, NEW w \in Workers,
           FetchRecord(w) \/ CommitRecord(w) \/ CommitRaises(w) \/ Rebalance(w)
    PROVE  QuietItems
<1>1. item' = item
    BY DEF FetchRecord, CommitRecord, CommitRaises, Rebalance
<1>2. \A u \in Tasks : u # KafkaTask(w) => task'[u] = task[u]
    BY DEF FetchRecord, CommitRecord, CommitRaises, Rebalance, TypeOK
<1>3. \A v \in Workers : ItemsTask(v) \in Tasks /\ ItemsTask(v) # KafkaTask(w)
    BY LaneTasks DEF ItemsTask, KafkaTask
<1> QED
    BY <1>1, <1>2, <1>3 DEF QuietItems, SameQueue, SameHold, Its

LEMMA QuietClock ==
    ASSUME TypeOK, NEW i \in Items, ClockStep(i)
    PROVE  QuietItems
<1>1. task' = task
    BY DEF ClockStep, LeaseLapses, RetryDelayPasses
<1>2. \A j \in Items : SameQueue(j)
    BY DEF ClockStep, LeaseLapses, RetryDelayPasses, SameQueue, TypeOK, ItemRecord
<1> QED
    BY <1>1, <1>2 DEF QuietItems, SameHold, Its

\* The steps by which one worker lets go of its lease.
LetsGoItems(w) ==
    /\ \A i \in Items : SameQueue(i)
    /\ Its(w)'.item = 0
    /\ \A v \in Workers : v # w => SameHold(v) /\ Its(v)' = Its(v)

LEMMA LetsGoWorker ==
    ASSUME TypeOK, NEW w \in Workers, LoopDies(w) \/ Crash(w) \/ Restart(w)
    PROVE  LetsGoItems(w)
<1>1. item' = item
    BY DEF LoopDies, Crash, Restart
<1>2. \A v \in Workers : ItemsTask(v) \in Tasks /\ ItemsTask(v)[1] = v
    BY LaneTasks DEF ItemsTask
<1>3. Its(w)'.item = 0 /\ \A v \in Workers : v # w => Its(v)' = Its(v)
    <2>1. CASE LoopDies(w)
        BY <1>2, <2>1 DEF LoopDies, Dead, Its, TypeOK
    <2>2. CASE Crash(w)
        BY <1>2, <2>2 DEF Crash, Down, Its
    <2>3. CASE Restart(w)
        BY <1>2, <2>3 DEF Restart, Idle, Its
    <2> QED
        BY <2>1, <2>2, <2>3
<1> QED
    BY <1>1, <1>3 DEF LetsGoItems, SameQueue, SameHold

\* The steps by which the owner of a lease, or who was it, decides the item.
DecidesItem(w, i) ==
    /\ Its(w).item = i
    /\ \/ /\ Fenced(ItemsTask(w))
          /\ item'[i].status \in {"succeeded", "failed", "pending"}
          /\ item'[i].epoch = item[i].epoch
          /\ \A j \in Items : j # i => SameQueue(j)
       \/ \A j \in Items : SameQueue(j)
    /\ \/ Its(w)'.item = 0
       \/ SameHold(w) /\ Its(w)'.pc # "poll"
    /\ \A v \in Workers : v # w => SameHold(v) /\ Its(v)' = Its(v)

LEMMA DecidesWorker ==
    ASSUME TypeOK, NEW w \in Workers,
           CompleteItem(w) \/ CompleteItemFails(w) \/ RetryItem(w)
    PROVE  \E i \in Items : DecidesItem(w, i)
<1> DEFINE t == ItemsTask(w)
           i == task[t].item
<1>1. t \in Tasks /\ i \in Items
    BY LaneTasks DEF CompleteItem, CompleteItemFails, RetryItem, TypeOK
<1>2. \/ /\ Fenced(t)
         /\ item'[i].status \in {"succeeded", "failed", "pending"}
         /\ item'[i].epoch = item[i].epoch
         /\ \A j \in Items : j # i => SameQueue(j)
      \/ \A j \in Items : SameQueue(j)
    <2>1. CASE UNCHANGED item
        BY <2>1 DEF SameQueue
    <2>2. CASE CompleteUpdate(t)
        BY <1>1, <2>2 DEF CompleteUpdate, SameQueue, TypeOK, ItemRecord
    <2>3. CASE RetryItem(w)
        BY <1>1, <2>3 DEF RetryItem, SameQueue, TypeOK, ItemRecord
    <2> QED
        BY <2>1, <2>2, <2>3 DEF CompleteItem, CompleteItemFails
<1>3. Its(w)'.item = 0 \/ (SameHold(w) /\ Its(w)'.pc # "poll")
    <2>1. CASE CompleteItem(w) \/ RetryItem(w)
        <3>1. task' = [task EXCEPT ![t] = Idle]
            BY <2>1 DEF CompleteItem, RetryItem
        <3>2. Its(w)' = Idle
            BY <1>1, <3>1 DEF Its, TypeOK
        <3>3. Its(w)'.item = 0
            BY <3>2 DEF Idle
        <3> QED
            BY <3>3
    <2>2. CASE CompleteItemFails(w)
        BY <1>1, <2>2 DEF CompleteItemFails, Goto, Its, SameHold, TypeOK, TaskRecord
    <2> QED
        BY <2>1, <2>2
<1>4. \A v \in Workers : v # w => Its(v)' = Its(v)
    <2>1. \A v \in Workers : v # w => ItemsTask(v) \in Tasks /\ ItemsTask(v) # t
        BY LaneTasks DEF ItemsTask
    <2>2. \A u \in Tasks : u # t => task'[u] = task[u]
        BY DEF CompleteItem, CompleteItemFails, RetryItem, Goto, TypeOK
    <2> QED
        BY <2>1, <2>2 DEF Its
<1> QED
    BY <1>1, <1>2, <1>3, <1>4 DEF DecidesItem, SameHold, Its

\* The step by which a worker gets a lease.
TakesItem(w, i) ==
    /\ item[i].status \in {"pending", "leased"}
    /\ item'[i].status = "leased"
    /\ item'[i].epoch = item[i].epoch + 1
    /\ \A j \in Items : j # i => SameQueue(j)
    /\ Its(w).pc = "poll"
    /\ Its(w)'.pc = "claim"
    /\ Its(w)'.item = i
    /\ Its(w)'.epoch = item[i].epoch + 1
    /\ \A v \in Workers : v # w => SameHold(v) /\ Its(v)' = Its(v)

LEMMA TakesWorker ==
    ASSUME TypeOK, NEW w \in Workers, LeaseItem(w)
    PROVE  \E i \in Items : TakesItem(w, i)
<1> DEFINE t == ItemsTask(w)
<1>1. t \in Tasks
    BY LaneTasks
<1>2. PICK i \in Items :
        /\ Leasable(i)
        /\ item' = [item EXCEPT ![i].status = "leased", ![i].attempt = @ + 1,
                                ![i].epoch = @ + 1, ![i].lapsed = FALSE]
        /\ task' = [task EXCEPT ![t] = [pc |-> "claim", item |-> i,
                                        epoch |-> item[i].epoch + 1, ready |-> FALSE]]
    BY DEF LeaseItem
<1>3. /\ item'[i].status = "leased"
      /\ item'[i].epoch = item[i].epoch + 1
      /\ \A j \in Items : j # i => SameQueue(j)
    BY <1>2 DEF TypeOK, ItemRecord, SameQueue
<1>4. /\ Its(w)'.pc = "claim"
      /\ Its(w)'.item = i
      /\ Its(w)'.epoch = item[i].epoch + 1
    BY <1>1, <1>2 DEF TypeOK, Its
<1>5. \A v \in Workers : v # w => Its(v)' = Its(v)
    <2>1. \A v \in Workers : v # w => ItemsTask(v) \in Tasks /\ ItemsTask(v) # t
        BY LaneTasks DEF ItemsTask
    <2> QED
        BY <1>2, <2>1 DEF Its, TypeOK
<1>6. item[i].status \in {"pending", "leased"} /\ Its(w).pc = "poll"
    BY <1>2 DEF Leasable, LeaseItem, Its
<1> QED
    BY <1>3, <1>4, <1>5, <1>6 DEF TakesItem, SameHold

-----------------------------------------------------------------------------
(* The invariant *)

LEMMA LeaseInit == Init => LeaseInv
<1> SUFFICES ASSUME Init PROVE LeaseInv
    OBVIOUS
<1>1. \A w \in Workers : Its(w).item = 0
    BY LaneTasks DEF Init, Idle, Its
<1> QED
    BY <1>1 DEF LeaseInv, Items

\* What a step does to leases and their owners, of which there are five kinds.
Kinds ==
    \/ QuietItems
    \/ \E i \in Items : CreateWorkItem(i)
    \/ \E w \in Workers : LetsGoItems(w)
    \/ \E w \in Workers, i \in Items : DecidesItem(w, i)
    \/ \E w \in Workers, i \in Items : TakesItem(w, i)

LEMMA StepKinds == TypeOK /\ [Next]_vars => Kinds
<1> SUFFICES ASSUME TypeOK, [Next]_vars PROVE Kinds
    OBVIOUS
<1>1. CASE Environment
    BY <1>1, QuietClock DEF Environment, Kinds
<1>2. CASE \E t \in Tasks : HandlerRaises(t)
    BY <1>2, QuietHandler DEF Kinds
<1>3. CASE UNCHANGED vars
    BY <1>3 DEF vars, Kinds, QuietItems, SameQueue, SameHold, Its
<1>4. ASSUME NEW w \in Workers, WorkerStep(w) PROVE Kinds
    BY <1>4, LaneTasks, QuietHandler, QuietTopic, LetsGoWorker, DecidesWorker, TakesWorker
       DEF WorkerStep, ItemsTurn, Kinds
<1> QED
    BY <1>1, <1>2, <1>3, <1>4 DEF Next

LEMMA CreatesQuietly ==
    ASSUME TypeOK, NEW i \in Items, CreateWorkItem(i)
    PROVE  /\ \A j \in Items : item'[j].epoch = item[j].epoch
           /\ \A j \in Items : j # i => SameQueue(j)
           /\ SameQueue(i) \/ (item[i].status = "none" /\ item'[i].status = "pending")
           /\ \A w \in Workers : SameHold(w) /\ Its(w)' = Its(w)
<1>1. task' = task
    BY DEF CreateWorkItem
<1>2. CASE item[i] = NoItem
    <2>1. item' = [item EXCEPT ![i] = NewItem]
        BY <1>2 DEF CreateWorkItem
    <2>2. item[i].epoch = 0 /\ item[i].status = "none"
        BY <1>2 DEF NoItem
    <2>3. item'[i].epoch = 0 /\ item'[i].status = "pending"
        BY <2>1 DEF NewItem, TypeOK
    <2>4. \A j \in Items : j # i => item'[j] = item[j]
        BY <2>1 DEF TypeOK
    <2> QED
        BY <1>1, <2>2, <2>3, <2>4 DEF SameQueue, SameHold, Its
<1>3. CASE item[i] # NoItem
    <2>1. item' = item
        BY <1>3 DEF CreateWorkItem
    <2> QED
        BY <1>1, <2>1 DEF SameQueue, SameHold, Its
<1> QED
    BY <1>2, <1>3

LEMMA LeaseStep == TypeOK /\ LeaseInv /\ [Next]_vars => LeaseInv'
<1> SUFFICES ASSUME TypeOK, LeaseInv, Kinds PROVE LeaseInv'
    BY StepKinds
<1>t. /\ \A i \in Items : item[i].epoch \in Nat
      /\ \A w \in Workers : Its(w).epoch \in Nat
    BY LaneTasks DEF TypeOK, ItemRecord, TaskRecord, Its
<1>1. CASE QuietItems
    BY <1>1 DEF QuietItems, SameQueue, SameHold, LeaseInv
<1>2. CASE \E i \in Items : CreateWorkItem(i)
    BY <1>2, CreatesQuietly DEF LeaseInv
<1>3. ASSUME NEW w \in Workers, LetsGoItems(w) PROVE LeaseInv'
    BY <1>3 DEF LetsGoItems, SameQueue, SameHold, LeaseInv, Items
<1>4. ASSUME NEW w \in Workers, NEW i \in Items, DecidesItem(w, i) PROVE LeaseInv'
    <2>1. \A j \in Items : item'[j].epoch = item[j].epoch
        BY <1>4 DEF DecidesItem, SameQueue
    <2>2. \A v \in Workers : Its(v)'.item = 0 \/ (SameHold(v) /\ (Its(v)'.pc = "poll" => Its(v).pc = "poll"))
        <3>1. \A v \in Workers : v # w => SameHold(v) /\ Its(v)'.pc = Its(v).pc
            BY <1>4 DEF DecidesItem, Its
        <3>2. Its(w)'.item = 0 \/ (SameHold(w) /\ Its(w)'.pc # "poll")
            BY <1>4 DEF DecidesItem
        <3> QED
            BY <3>1, <3>2 DEF SameHold, Its
    <2>3. 0 \notin Items
        BY DEF Items
    <2> QED
        BY <2>1, <2>2, <2>3 DEF LeaseInv, SameHold
<1>5. ASSUME NEW w \in Workers, NEW i \in Items, TakesItem(w, i) PROVE LeaseInv'
    <2>1. \A v \in Workers : v # w =>
            SameHold(v) /\ Its(v)'.pc = Its(v).pc /\ (Its(v).item = i => Its(v)'.epoch # Its(w)'.epoch)
        BY <1>t, <1>5 DEF TakesItem, LeaseInv, SameHold
    <2>2. \A j \in Items : item'[j].epoch \in {item[j].epoch, item[j].epoch + 1}
        BY <1>5 DEF TakesItem, SameQueue
    <2>3. \A v \in Workers : Its(v)'.pc = "poll" => Its(v)'.item = 0
        BY <1>5, <2>1 DEF TakesItem, LeaseInv, SameHold
    <2>4. \A v \in Workers, j \in Items : Its(v)'.item = j =>
            Its(v)'.epoch >= 1 /\ Its(v)'.epoch <= item'[j].epoch
        BY <1>t, <1>5, <2>1, <2>2 DEF TakesItem, LeaseInv, SameHold
    <2>5. \A v, u \in Workers :
            /\ Its(v)'.item \in Items
            /\ Its(v)'.item = Its(u)'.item
            /\ Its(v)'.epoch = Its(u)'.epoch
            => v = u
        BY <1>5, <2>1 DEF TakesItem, LeaseInv, SameHold
    <2> QED
        BY <2>3, <2>4, <2>5 DEF LeaseInv
<1> QED
    BY <1>1, <1>2, <1>3, <1>4, <1>5 DEF Kinds

-----------------------------------------------------------------------------
(* The refinement *)

LEMMA QueueInit == Init => Queue!Init
<1> SUFFICES ASSUME Init PROVE Queue!Init
    OBVIOUS
<1>1. \A i \in Items : Phase(i) = "none"
    BY DEF Init, NoItem, Phase
<1>2. \A i \in Items, w \in Workers : ~Holds(w, i)
    BY LaneTasks DEF Init, Idle, Holds, Items
<1> QED
    BY <1>1, <1>2 DEF Queue!Init

LEMMA QueueTake ==
    ASSUME TypeOK, LeaseInv, NEW w \in Workers, NEW i \in Items, TakesItem(w, i)
    PROVE  Queue!Take(w, i)
<1>1. \A v \in Workers, j \in Items : j # i => (Holds(v, j)' <=> Holds(v, j))
    <2>1. \A j \in Items : j # i => ~Holds(w, j) /\ ~Holds(w, j)'
        BY DEF TakesItem, LeaseInv, Holds, Its, Items
    <2> QED
        BY <2>1, HoldKept DEF TakesItem, SameQueue
<1>2. \A v \in Workers : Holds(v, i)' <=> v = w
    <2>1. Holds(w, i)'
        BY DEF TakesItem, Holds, Its
    <2>2. ASSUME NEW v \in Workers, v # w, Holds(v, i)' PROVE FALSE
        <3>1. Its(v).item = i /\ Its(v).epoch = item[i].epoch + 1
            BY <2>2 DEF TakesItem, Holds, Its, SameHold
        <3>2. Its(v).epoch <= item[i].epoch /\ item[i].epoch \in Nat
            BY <3>1 DEF LeaseInv, TypeOK, ItemRecord
        <3> QED
            BY <3>1, <3>2
    <2> QED
        BY <2>1, <2>2
<1>3. Phase(i) \in {"waiting", "held"} /\ Phase(i)' = "held"
    BY DEF TakesItem, Phase
<1>4. \A j \in Items : j # i => Phase(j)' = Phase(j)
    BY PhaseKept DEF TakesItem, SameQueue
<1>5. {v \in Workers : Holds(v, i)}' = {w}
    BY <1>2
<1>6. \A j \in Items : j # i =>
            {v \in Workers : Holds(v, j)}' = {v \in Workers : Holds(v, j)}
    BY <1>1
<1>7. [j \in Items |-> {v \in Workers : Holds(v, j)}]'
            = [[j \in Items |-> {v \in Workers : Holds(v, j)}] EXCEPT ![i] = {w}]
    BY <1>5, <1>6, Zenon
<1> QED
    BY <1>3, <1>4, <1>7 DEF Queue!Take, Queue!Open

LEMMA QueueOffer ==
    ASSUME TypeOK, NEW i \in Items, CreateWorkItem(i)
    PROVE  Queue!Offer(i) \/ UNCHANGED Queue!vars
<1>1. CASE SameQueue(i)
    BY <1>1, CreatesQuietly, Stutters
<1>2. CASE item[i].status = "none" /\ item'[i].status = "pending"
    <2>1. \A v \in Workers, j \in Items : Holds(v, j)' <=> Holds(v, j)
        BY CreatesQuietly, HoldKept
    <2>2. Phase(i) = "none" /\ Phase(i)' = "waiting"
        BY <1>2 DEF Phase
    <2>3. \A j \in Items : j # i => Phase(j)' = Phase(j)
        BY CreatesQuietly, PhaseKept DEF SameQueue
    <2> QED
        BY <2>1, <2>2, <2>3 DEF Queue!Offer
<1> QED
    BY <1>1, <1>2, CreatesQuietly

LEMMA QueueDecide ==
    ASSUME TypeOK, LeaseInv, NEW w \in Workers, NEW i \in Items, DecidesItem(w, i)
    PROVE  Queue!Decide(w, i) \/ Queue!LetGo(w) \/ UNCHANGED Queue!vars
<1>1. CASE /\ Fenced(ItemsTask(w))
           /\ item'[i].status \in {"succeeded", "failed", "pending"}
           /\ item'[i].epoch = item[i].epoch
           /\ \A j \in Items : j # i => SameQueue(j)
    BY <1>1, Decides DEF DecidesItem
<1>2. CASE (\A j \in Items : SameQueue(j)) /\ Its(w)'.item = 0
    BY <1>2, LetsGo DEF DecidesItem
<1>3. CASE (\A j \in Items : SameQueue(j)) /\ SameHold(w)
    BY <1>3, Stutters DEF DecidesItem
<1> QED
    BY <1>1, <1>2, <1>3 DEF DecidesItem

LEMMA QueueStep == TypeOK /\ LeaseInv /\ [Next]_vars => [Queue!Next]_Queue!vars
<1> SUFFICES ASSUME TypeOK, LeaseInv, Kinds PROVE Queue!Next \/ UNCHANGED Queue!vars
    BY StepKinds
<1>1. CASE QuietItems
    BY <1>1, Stutters DEF QuietItems
<1>2. CASE \E i \in Items : CreateWorkItem(i)
    BY <1>2, QueueOffer DEF Queue!Next
<1>3. CASE \E w \in Workers : LetsGoItems(w)
    BY <1>3, LetsGo DEF LetsGoItems, Queue!Next
<1>4. CASE \E w \in Workers, i \in Items : DecidesItem(w, i)
    BY <1>4, QueueDecide DEF Queue!Next
<1>5. CASE \E w \in Workers, i \in Items : TakesItem(w, i)
    BY <1>5, QueueTake DEF Queue!Next
<1> QED
    BY <1>1, <1>2, <1>3, <1>4, <1>5 DEF Kinds

\* work_items is a LeaseQueue: with the fence of lease_token and lease_epoch only the
\* worker of the latest lease decides an item, whatever lapses, stops or comes late.
THEOREM LeaseQueueRefined == Spec => RefinesLeaseQueue
<1>1. Init => TypeOK /\ LeaseInv /\ Queue!Init
    BY TypeInit, LeaseInit, QueueInit
<1>2. TypeOK /\ LeaseInv /\ [Next]_vars => TypeOK' /\ LeaseInv'
    BY TypeStep, LeaseStep
<1>3. TypeOK /\ LeaseInv /\ [Next]_vars => [Queue!Next]_Queue!vars
    BY QueueStep
<1> QED
    BY <1>1, <1>2, <1>3, PTL DEF Spec, RefinesLeaseQueue, Queue!Spec

=============================================================================
