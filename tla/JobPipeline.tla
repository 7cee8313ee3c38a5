---------------------------- MODULE JobPipeline ----------------------------
(***************************************************************************)
(* The life of one comparison job from raw chunks to its result.           *)
(*                                                                         *)
(* Each worker (a replica of the service) runs, on one asyncio loop, the   *)
(* raw-chunk consumer (app/kafka/consumer.py, chunk_processor.py) and the  *)
(* comparison lanes: the scheduler's queue (compare_scheduler.py) and the  *)
(* stage handlers of the command topics (workers/stage_handlers.py), which *)
(* all call compare_if_ready (document_comparator.py).  A step is the code *)
(* between two awaits that other tasks can be seen through: one database   *)
(* statement or transaction, or one hand-over.  What the tasks share is the *)
(* job's rows in PostgreSQL, the unacknowledged records of the topic and   *)
(* the worker's scheduler.                                                 *)
(*                                                                         *)
(* Statements about different jobs touch different rows, so one job is     *)
(* modelled; jobs meet only in queues.                                     *)
(***************************************************************************)
EXTENDS JobRow, FiniteSets

CONSTANTS
    TotalChunks,       \* total_chunks of every chunk message of the job
    Lanes,             \* "scheduler" and the stage handlers that run
    StableIds,         \* a configured worker_id survives a restart
    RegisterStatuses,  \* statuses POST /api/jobs sends
    Disturbances,      \* what may go wrong in the environment
    MaxRestarts        \* bound: crashes, hence restarts, of all workers together

AllDisturbances ==
    {"crash",            \* a worker stops between any two steps
     "expire",           \* a lease runs out; nothing renews it
     "duplicate",        \* a record is delivered again, or to another worker
                         \* while the first is still at it (rebalance)
     "early_chunk",      \* a chunk arrives before POST /api/jobs
     "reregister",       \* POST /api/jobs for a job that exists
     "chunk_error",      \* OCR, a database call or a status publish raises
     "broker_error",     \* the error path or the commit raises
     "compare_error",    \* load, diff, classify or finalize raises
     "lost_ack",         \* finalize commits, its caller sees an error
     "claim_error",      \* try_claim_comparison raises, committed or not
     "handler_error",    \* so does a statement of the comparison's error path
     "cancel",           \* POST /api/jobs/{id}/cancel
     "cleanup"}          \* complete_cancel, begin_delete, finish_delete

ASSUME PipelineAssumption ==
    /\ TotalChunks \in Nat \ {0}
    /\ MaxRestarts \in Nat
    /\ StableIds \in BOOLEAN
    /\ RegisterStatuses \subseteq EarlyStatuses \cup {"failed"}
    /\ Disturbances \subseteq AllDisturbances

Chunks == 1..TotalChunks
Epochs == 1..(MaxRestarts + 1)

\* One task per worker and lane calls compare_if_ready.
Comparators == Workers \X Lanes
WorkerOf(k) == k[1]
LaneOf(k)   == k[2]

VARIABLES
    row,       \* the job's row in comparison_jobs
    stored,    \* ocr_chunks: the chunk indices with both sides stored
    runs,      \* comparison_runs, each under the epoch of the claim it serves
    results,   \* comparison_results: the runs with a result.  The same
               \* transaction appends the job.completed event and both outbox
               \* rows, so this is also what has been announced.
    todo,      \* raw_chunks records not yet committed
    intake,    \* the raw-chunk consumer of each worker
    comp,      \* the comparison tasks
    queue,     \* workers whose scheduler queue holds the job
    inflight,  \* workers whose scheduler's _inflight holds the job
    node,      \* start-up state of each worker
    crashes,   \* crashes so far
    restarts,  \* restarts that got through _recover_local_leases
    saga       \* the caller of begin_delete and finish_delete

dbVars   == <<row, stored, runs, results>>
taskVars == <<todo, intake, comp, queue, inflight>>
nodeVars == <<node, crashes, restarts>>
vars     == <<dbVars, taskVars, nodeVars, saga>>

NoRun       == [status |-> "none", pages |-> {}]
IdleIntake  == [pc |-> "idle", chunk |-> 0, ready |-> FALSE]
DeadIntake  == [pc |-> "dead", chunk |-> 0, ready |-> FALSE]
IdleCompare == [pc |-> "idle", epoch |-> 0, pages |-> {}]

\* The workers have started on an empty table.
Init ==
    /\ row = NoRow
    /\ stored = {}
    /\ runs = [e \in Epochs |-> NoRun]
    /\ results = {}
    /\ todo = Chunks
    /\ intake = [w \in Workers |-> IdleIntake]
    /\ comp = [k \in Comparators |-> IdleCompare]
    /\ queue = {}
    /\ inflight = {}
    /\ node = [w \in Workers |-> "up"]
    /\ crashes = 0
    /\ restarts = 0
    /\ saga = "none"

-----------------------------------------------------------------------------
(* Crash and restart of a worker (main.py lifespan) *)

\* Consumers start before the list of ready jobs is queried.
Running(w) == node[w] \in {"starting", "up"}

IsOwn(w) == StableIds /\ row.owner = w

\* _recover_local_leases, first UPDATE: runs nobody can be working on.
RecoverRuns(w) ==
    /\ node[w] = "down"
    /\ node' = [node EXCEPT ![w] = "recovering"]
    /\ runs' = IF Exists(row) /\ LeaseLost(row, IsOwn(w))
               THEN [e \in Epochs |-> IF runs[e].status = "running"
                                      THEN [runs[e] EXCEPT !.status = "failed"]
                                      ELSE runs[e]]
               ELSE runs
    /\ UNCHANGED <<row, stored, results, taskVars, crashes, restarts, saga>>

\* _recover_local_leases, second UPDATE, in a transaction of its own.  The bound
\* stops no restart: each follows a crash of its own.
RecoverJobs(w) ==
    /\ node[w] = "recovering"
    /\ restarts < MaxRestarts
    /\ node' = [node EXCEPT ![w] = "starting"]
    /\ restarts' = restarts + 1
    /\ row' = Recovered(row, IsOwn(w))
    /\ UNCHANGED <<stored, runs, results, taskVars, crashes, saga>>

\* CompareScheduler.submit: dropped while the job is in flight.
Submit(w) ==
    /\ inflight' = inflight \cup {w}
    /\ queue' = IF w \in inflight THEN queue ELSE queue \cup {w}

NoSubmit == UNCHANGED <<queue, inflight>>

\* Mutant: ready jobs are left to the consumer.
RecoverNothing(w) ==
    /\ node[w] = "starting"
    /\ node' = [node EXCEPT ![w] = "up"]
    /\ UNCHANGED <<dbVars, taskVars, crashes, restarts, saga>>

\* compare_scheduler.recover(list_ready_jobs()).
RecoverReady(w) ==
    /\ node[w] = "starting"
    /\ node' = [node EXCEPT ![w] = "up"]
    /\ IF ListedReady(row) THEN Submit(w) ELSE NoSubmit
    /\ UNCHANGED <<dbVars, todo, intake, comp, crashes, restarts, saga>>

\* A worker stops, during its start-up too.
Crash(w) ==
    /\ "crash" \in Disturbances
    /\ node[w] # "down"
    /\ crashes < MaxRestarts
    /\ crashes' = crashes + 1
    /\ node' = [node EXCEPT ![w] = "down"]
    /\ intake' = [intake EXCEPT ![w] = IdleIntake]
    /\ comp' = [k \in Comparators |-> IF WorkerOf(k) = w THEN IdleCompare ELSE comp[k]]
    /\ queue' = queue \ {w}
    /\ inflight' = inflight \ {w}
    /\ UNCHANGED <<dbVars, todo, restarts, saga>>

-----------------------------------------------------------------------------
(* The raw-chunk consumer: _consume_loop, process and handle_error *)

IntakeAt(w, pc) == Running(w) /\ intake[w].pc = pc
IntakeTo(w, pc) == intake' = [intake EXCEPT ![w].pc = pc]

SkippedStatuses == ClosedStatuses    \* chunk_processor.TERMINAL_JOB_STATUSES

\* A record is delivered.  The records of a job have its id as their key, so
\* they are in one partition, which one worker owns at a time.
Fetch(w, c) ==
    /\ IntakeAt(w, "idle")
    /\ \/ c \in todo /\ \A v \in Workers : intake[v].chunk = 0
       \/ "duplicate" \in Disturbances
    /\ Exists(row) \/ "early_chunk" \in Disturbances
    /\ intake' = [intake EXCEPT ![w] = [pc |-> "check", chunk |-> c, ready |-> FALSE]]
    /\ UNCHANGED <<dbVars, todo, comp, queue, inflight, nodeVars, saga>>

\* get_job, and the early returns of process.
CheckJob(w) ==
    /\ IntakeAt(w, "check")
    /\ IntakeTo(w, IF Exists(row) /\ (row.status \in SkippedStatuses \/ row.cancel)
                   THEN "ack" ELSE "lookup")
    /\ UNCHANGED <<dbVars, todo, comp, queue, inflight, nodeVars, saga>>

EnoughStored(n) == n >= TotalChunks

\* chunk_is_stored, and get_stored_count when it is.
LookupChunk(w) ==
    /\ IntakeAt(w, "lookup")
    /\ IF intake[w].chunk \in stored
       THEN intake' = [intake EXCEPT
                ![w].pc = "report",
                ![w].ready = EnoughStored(Cardinality(stored))]
       ELSE IntakeTo(w, "ocr")
    /\ UNCHANGED <<dbVars, todo, comp, queue, inflight, nodeVars, saga>>

\* OCR returned; save_ocr_pair.  Without a row its UPDATE raises KeyError.
SavePair(w) ==
    /\ IntakeAt(w, "ocr")
    /\ IF Exists(row)
       THEN LET both == stored \cup {intake[w].chunk}
                n    == Cardinality(both)
            IN  /\ stored' = both
                /\ row' = SavedPair(row, n, TotalChunks)
                /\ intake' = [intake EXCEPT ![w].pc = "report",
                                            ![w].ready = EnoughStored(n)]
       ELSE IntakeTo(w, "error") /\ UNCHANGED <<row, stored>>
    /\ UNCHANGED <<runs, results, todo, comp, queue, inflight, nodeVars, saga>>

\* The progress message is published; a ready job goes to the scheduler.
Report(w) ==
    /\ IntakeAt(w, "report")
    /\ IF intake[w].ready THEN Submit(w) ELSE NoSubmit
    /\ IntakeTo(w, "ack")
    /\ UNCHANGED <<dbVars, todo, comp, nodeVars, saga>>

\* _commit.
Ack(w) ==
    /\ IntakeAt(w, "ack")
    /\ todo' = todo \ {intake[w].chunk}
    /\ intake' = [intake EXCEPT ![w] = IdleIntake]
    /\ UNCHANGED <<dbVars, comp, queue, inflight, nodeVars, saga>>

ProcessRaises(w) ==
    /\ "chunk_error" \in Disturbances
    /\ \E pc \in {"check", "lookup", "ocr", "report"} : IntakeAt(w, pc)
    /\ IntakeTo(w, "error")
    /\ UNCHANGED <<dbVars, todo, comp, queue, inflight, nodeVars, saga>>

\* The dead-letter publish, then handle_error's get_job.
CheckFailed(w) ==
    /\ IntakeAt(w, "error")
    /\ IntakeTo(w, IF row.status \in SkippedStatuses THEN "ack" ELSE "fail")
    /\ UNCHANGED <<dbVars, todo, comp, queue, inflight, nodeVars, saga>>

\* handle_error's mark_failed, decided on the row read before.
FailJob(w) ==
    /\ IntakeAt(w, "fail")
    /\ row' = MarkFailed(row)
    /\ IntakeTo(w, "ack")
    /\ UNCHANGED <<stored, runs, results, todo, comp, queue, inflight, nodeVars, saga>>

\* An exception on the error path or in the commit ends _consume_loop for good.
ConsumerDies(w) ==
    /\ "broker_error" \in Disturbances
    /\ \E pc \in {"error", "fail", "ack"} : IntakeAt(w, pc)
    /\ intake' = [intake EXCEPT ![w] = DeadIntake]
    /\ UNCHANGED <<dbVars, todo, comp, queue, inflight, nodeVars, saga>>

-----------------------------------------------------------------------------
(* compare_if_ready, called by the scheduler's worker or a stage handler *)

CompAt(k, pc) == Running(WorkerOf(k)) /\ comp[k].pc = pc
CompTo(k, pc) == comp' = [comp EXCEPT ![k].pc = pc]

\* _run takes the job from the queue and _run_one passes the semaphore, or a
\* stage command arrives (its event_id is claimed in the inbox first).
StartCompare(k) ==
    /\ CompAt(k, "idle")
    /\ IF LaneOf(k) = "scheduler"
       THEN /\ WorkerOf(k) \in queue
            /\ queue' = queue \ {WorkerOf(k)}
       ELSE UNCHANGED queue
    /\ CompTo(k, "claim")
    /\ UNCHANGED <<dbVars, todo, intake, inflight, nodeVars, saga>>

TryClaim(k) ==
    /\ CompAt(k, "claim")
    /\ IF Claimable(row)
       THEN /\ row' = Claim(row, WorkerOf(k))
            /\ comp' = [comp EXCEPT ![k].pc = "load", ![k].epoch = row.epoch + 1]
       ELSE CompTo(k, "finish") /\ UNCHANGED row
    /\ UNCHANGED <<stored, runs, results, todo, intake, queue, inflight, nodeVars, saga>>

\* The claim is outside compare_if_ready's try: its error goes to _run_one (or the stage
\* consumer), which only logs it.  The claim may have been committed.
ClaimRaises(k) ==
    /\ "claim_error" \in Disturbances
    /\ CompAt(k, "claim")
    /\ \/ UNCHANGED row
       \/ Claimable(row) /\ row' = Claim(row, WorkerOf(k))
    /\ CompTo(k, "finish")
    /\ UNCHANGED <<stored, runs, results, todo, intake, queue, inflight, nodeVars, saga>>

LoadDocuments(k) ==
    /\ CompAt(k, "load")
    /\ comp' = [comp EXCEPT ![k].pc = "create", ![k].pages = stored]
    /\ UNCHANGED <<dbVars, todo, intake, queue, inflight, nodeVars, saga>>

CreateRun(k) ==
    /\ CompAt(k, "create")
    /\ runs' = [runs EXCEPT ![comp[k].epoch] =
                    [status |-> "running", pages |-> comp[k].pages]]
    /\ CompTo(k, "compare")
    /\ UNCHANGED <<row, stored, results, todo, intake, queue, inflight, nodeVars, saga>>

\* Mutant: the result is fenced by the lease epoch, the job's UPDATE is not.
FinalizeHalfFenced(k) ==
    /\ CompAt(k, "compare")
    /\ results' = IF row.epoch = comp[k].epoch THEN results \cup {row.epoch} ELSE results
    /\ row' = Completed(row)
    /\ CompTo(k, "finish")
    /\ UNCHANGED <<stored, runs, todo, intake, queue, inflight, nodeVars, saga>>

\* Diff and classification are over; finalize_comparison commits.  With
\* "lost_ack" the transaction commits but the caller gets an exception.
Finalize(k) ==
    /\ CompAt(k, "compare")
    /\ results' = results \cup {comp[k].epoch}
    /\ runs' = [runs EXCEPT ![comp[k].epoch].status = "completed"]
    /\ row' = Completed(row)
    /\ \/ CompTo(k, "finish")
       \/ "lost_ack" \in Disturbances /\ CompTo(k, "failrun")
    /\ UNCHANGED <<stored, todo, intake, queue, inflight, nodeVars, saga>>

CompareRaises(k) ==
    /\ "compare_error" \in Disturbances
    /\ \/ (CompAt(k, "load") \/ CompAt(k, "create")) /\ CompTo(k, "failjob")
       \/ CompAt(k, "compare") /\ CompTo(k, "failrun")
    /\ UNCHANGED <<dbVars, todo, intake, queue, inflight, nodeVars, saga>>

FailRun(k) ==
    /\ CompAt(k, "failrun")
    /\ runs' = [runs EXCEPT ![comp[k].epoch].status = "failed"]
    /\ CompTo(k, "failjob")
    /\ UNCHANGED <<row, stored, results, todo, intake, queue, inflight, nodeVars, saga>>

FailComparedJob(k) ==
    /\ CompAt(k, "failjob")
    /\ row' = MarkFailed(row)
    /\ CompTo(k, "finish")
    /\ UNCHANGED <<stored, runs, results, todo, intake, queue, inflight, nodeVars, saga>>

\* The error path writes to the database that may have raised the error.  Nothing catches
\* what it raises but _run_one, which logs it; its statement may have been committed.
FailureRaises(k) ==
    /\ "handler_error" \in Disturbances
    /\ \/ CompAt(k, "failrun") /\ UNCHANGED row
          /\ \/ UNCHANGED runs
             \/ runs' = [runs EXCEPT ![comp[k].epoch].status = "failed"]
       \/ CompAt(k, "failjob") /\ UNCHANGED runs
          /\ (UNCHANGED row \/ row' = MarkFailed(row))
    /\ CompTo(k, "finish")
    /\ UNCHANGED <<stored, results, todo, intake, queue, inflight, nodeVars, saga>>

\* compare_if_ready is over; _run_one discards the job from _inflight.
FinishCompare(k) ==
    /\ CompAt(k, "finish")
    /\ comp' = [comp EXCEPT ![k] = IdleCompare]
    /\ inflight' = IF LaneOf(k) = "scheduler" THEN inflight \ {WorkerOf(k)} ELSE inflight
    /\ UNCHANGED <<dbVars, todo, intake, queue, nodeVars, saga>>

-----------------------------------------------------------------------------
(* HTTP requests, the clock and the services that share the database *)

RegisterJob(total, status) ==
    /\ ~Exists(row) \/ "reregister" \in Disturbances
    /\ \E w \in Workers : node[w] = "up"
    /\ row' = EnsureJob(row, total, status)
    /\ UNCHANGED <<stored, runs, results, taskVars, nodeVars, saga>>

CancelJob ==
    /\ "cancel" \in Disturbances
    /\ Exists(row)
    /\ \E w \in Workers : node[w] = "up"
    /\ row' = RequestCancel(row)
    /\ UNCHANGED <<stored, runs, results, taskVars, nodeVars, saga>>

LeaseExpires ==
    /\ "expire" \in Disturbances
    /\ row.lease = "live"
    /\ row' = [row EXCEPT !.lease = "expired"]
    /\ UNCHANGED <<stored, runs, results, taskVars, nodeVars, saga>>

CompleteCancelled ==
    /\ "cleanup" \in Disturbances
    /\ row' = CompleteCancel(row)
    /\ UNCHANGED <<stored, runs, results, taskVars, nodeVars, saga>>

StartDelete ==
    /\ "cleanup" \in Disturbances
    /\ Exists(row) /\ saga = "none"
    /\ row' = BeginDelete(row)
    /\ saga' = "begun"
    /\ UNCHANGED <<stored, runs, results, taskVars, nodeVars>>

EndDelete ==
    /\ saga = "begun"
    /\ row' = FinishDelete(row)
    /\ saga' = "done"
    /\ UNCHANGED <<stored, runs, results, taskVars, nodeVars>>

-----------------------------------------------------------------------------

Restart(w) == RecoverRuns(w) \/ RecoverJobs(w) \/ RecoverReady(w)

IntakeStep(w) ==
    \/ \E c \in Chunks : Fetch(w, c)
    \/ CheckJob(w) \/ LookupChunk(w) \/ SavePair(w) \/ Report(w) \/ Ack(w)
    \/ CheckFailed(w) \/ FailJob(w)

CompareStep(k) ==
    \/ TryClaim(k) \/ LoadDocuments(k) \/ CreateRun(k) \/ Finalize(k)
    \/ FailRun(k) \/ FailComparedJob(k) \/ FinishCompare(k)

Environment ==
    \/ \E total \in {0, TotalChunks}, status \in RegisterStatuses :
            RegisterJob(total, status)
    \/ CancelJob
    \/ LeaseExpires
    \/ CompleteCancelled
    \/ StartDelete
    \/ EndDelete

Next ==
    \/ \E w \in Workers :
            \/ Restart(w)
            \/ Crash(w)
            \/ IntakeStep(w)
            \/ ProcessRaises(w)
            \/ ConsumerDies(w)
    \/ \E k \in Comparators :
            \/ StartCompare(k)
            \/ CompareStep(k)
            \/ CompareRaises(k)
            \/ ClaimRaises(k)
            \/ FailureRaises(k)
    \/ Environment

Spec == Init /\ [][Next]_vars

(* Fairness: asyncio runs every ready task, Kafka redelivers an uncommitted *)
(* record, a stopped process is started again and clocks advance.  Faults,  *)
(* HTTP requests, stage commands and the cleanup service owe nothing.       *)
Fairness ==
    /\ \A w \in Workers : WF_vars(Restart(w)) /\ WF_vars(IntakeStep(w))
    /\ \A k \in Comparators :
            /\ WF_vars(CompareStep(k))
            /\ LaneOf(k) = "scheduler" => WF_vars(StartCompare(k))
    /\ WF_vars(\E total \in {0, TotalChunks}, status \in RegisterStatuses :
                    RegisterJob(total, status))
    /\ WF_vars(LeaseExpires)

FairSpec == Spec /\ Fairness

-----------------------------------------------------------------------------
(* Properties *)

Row == [status    : Statuses \cup {Absent},
        claimed   : BOOLEAN,
        cancel    : BOOLEAN,
        total     : {0, TotalChunks},
        processed : 0..TotalChunks,
        owner     : Workers \cup {NoWorker},
        epoch     : 0..(MaxRestarts + 1),
        lease     : Leases]

IntakeStates == {"idle", "check", "lookup", "ocr", "report", "ack",
                 "error", "fail", "dead"}

CompareStates == {"idle", "claim", "load", "create", "compare",
                  "failrun", "failjob", "finish"}

RunRecord == [status : {"none", "running", "completed", "failed"},
              pages  : SUBSET Chunks]

IntakeRecord == [pc : IntakeStates, chunk : 0..TotalChunks, ready : BOOLEAN]

CompareRecord == [pc    : CompareStates,
                  epoch : 0..(MaxRestarts + 1),
                  pages : SUBSET Chunks]

\* The type invariant.  That lease_epoch stays within MaxRestarts + 1, with no bound
\* in TryClaim, is a consequence of ClaimsNeedRestarts.
TypeOK ==
    /\ row \in Row
    /\ stored \subseteq Chunks
    /\ runs \in [Epochs -> RunRecord]
    /\ results \subseteq Epochs
    /\ todo \subseteq Chunks
    /\ intake \in [Workers -> IntakeRecord]
    /\ comp \in [Comparators -> CompareRecord]
    /\ queue \subseteq Workers
    /\ inflight \subseteq Workers
    /\ node \in [Workers -> {"down", "recovering", "starting", "up"}]
    /\ crashes \in 0..MaxRestarts
    /\ restarts \in 0..MaxRestarts
    /\ saga \in {"none", "begun", "done"}

\* The comparison tasks between a successful claim and its end.
Comparing(k) == comp[k].pc \in {"load", "create", "compare"}

\* A comparison works on the whole document: try_claim_comparison's counters,
\* kept by save_ocr_pair, never let a task load, and a result never rest on,
\* fewer than all chunks, whatever was delivered, repeated or restarted.
ComparesWholeDocument ==
    /\ \A k \in Comparators : Comparing(k) => stored = Chunks
    /\ \A e \in results : runs[e].pages = Chunks

\* A completed job can be read: status 'completed' is only ever seen with a
\* stored result (GET /api/jobs/{id}/result), even after lost acknowledgements,
\* late errors and re-registrations.
CompletedHasResult == row.status = "completed" => results # {}

\* A job is claimed for comparison once, and once more per worker restart: only
\* _recover_local_leases gives a claim back, no error path does.
ClaimsNeedRestarts == row.epoch <= restarts + 1

\* tests/test_workflow.py: a job in a terminal status never goes back to a
\* working one, whichever of the unguarded UPDATEs comes late.
TerminalNeverReopened ==
    [][row.status \in TERMINAL_STATUSES =>
            row'.status \in TERMINAL_STATUSES \cup {"deleting"}]_vars

\* Once every chunk is stored and nobody asked to cancel, no late chunk
\* message or registration takes the job back to OCR.
ReadyNotUndone ==
    stored = Chunks /\ ~row.cancel => row.status \notin EarlyStatuses

\* A cancellation that finds no comparison under way is for good: the request outlives every
\* later upsert, save, recovery and failure, whatever these make of the status, and as long
\* as it does nothing is compared, stored or completed.
CancelledInTime == row.cancel /\ \A k \in Comparators : ~Comparing(k)

CancelPreventsComparison ==
    [][CancelledInTime =>
            /\ CancelledInTime'
            /\ results' = results
            /\ row'.status = "completed" => row.status = "completed"]_vars

\* No wake-up is lost: a job ready for comparison that nobody has claimed is in a
\* scheduler queue, about to be claimed, or about to be submitted by the consumer that
\* stored its last chunk (which on its error path fails the job); or a worker is yet to
\* start.  It is lost when a claim raises (document_comparator.py:39) and when a consumer
\* dies with the last chunk in its hands (consumer.py:150): neither is among the
\* disturbances of the run, and JobSettles fails of either.
ReadyIsScheduled ==
    ListedReady(row) /\ ~row.cancel =>
        \/ queue # {}
        \/ \E k \in Comparators : comp[k].pc = "claim"
        \/ \E w \in Workers : intake[w].ready /\ intake[w].pc \in {"report", "error", "fail"}
        \/ \E w \in Workers : node[w] # "up"

\* At most one final result is stored and announced per job (openapi.yml,
\* processed_results).
OneFinalResult == Cardinality(results) <= 1

\* states.py: once cancellation is requested a job is only cancelled or deleted.
CancelStands ==
    [][row.status = "cancel_requested" =>
            CanTransition(row.status, row'.status)]_vars

\* Every registered job reaches a terminal status (tests/test_load_canary.py).  The runs say
\* what may happen to it on the way: pipeline_progress what the code survives, claim_raises
\* and orphan_claim what it does not.
JobSettles == Exists(row) ~> row.status \in TERMINAL_STATUSES
=============================================================================
