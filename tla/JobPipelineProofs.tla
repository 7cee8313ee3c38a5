------------------------- MODULE JobPipelineProofs -------------------------
(***************************************************************************)
(* Proofs about JobPipeline, for any workers, lanes, number of chunks,     *)
(* disturbances and bound on crashes: the types and the claims, and what a *)
(* job is promised: the whole document is compared, a completed job has    *)
(* its result, a finished or cancelled job is left alone, a stored         *)
(* document stays ready and is never forgotten, and a claim that nobody    *)
(* takes away leaves one result.                                           *)
(***************************************************************************)
EXTENDS JobPipeline, FiniteSetTheorems, TLAPS

USE DEF RunRecord, IntakeRecord, CompareRecord

-----------------------------------------------------------------------------
(* What the statements on the job's row keep *)

\* A job starts without a row.
LEMMA NoRowType == NoRow \in Row
  <1>1. 0 \in 0..TotalChunks /\ 0 \in 0..(MaxRestarts + 1)
    BY PipelineAssumption
  <1>2. "none" \in Leases
    BY DEF Leases
  <1> QED
    BY <1>1, <1>2 DEF NoRow, Row

LEMMA EarlyAreStatuses ==
    /\ EarlyStatuses \cup {"failed"} \subseteq Statuses
    /\ {"queued", "preparing", "processing", "ocr_ready", "comparing", "failed",
        "completed", "cancel_requested", "cancelled", "deleting", "deleted"}
            \subseteq Statuses
  BY DEF EarlyStatuses, Statuses, TERMINAL_STATUSES, NON_TERMINAL_STATUSES

\* The UPDATE of _upsert_job, with any known status.
LEMMA UpdateJobType ==
    ASSUME NEW r \in Row, NEW total \in {0, TotalChunks}, NEW status \in Statuses
    PROVE  UpdateJob(r, total, status) \in Row
  <1>1. Greatest(r.total, total) \in {0, TotalChunks}
    BY PipelineAssumption DEF Greatest, Row
  <1>2. UpsertStatus(r.status, status) \in Statuses \cup {Absent}
    BY DEF UpsertStatus, Row
  <1> QED
    BY <1>1, <1>2 DEF UpdateJob, Row

\* The row of a job keeps its type under every statement but the claim, which
\* alone moves lease_epoch.
LEMMA StatementsKeepType ==
    ASSUME NEW r \in Row, NEW n \in 0..TotalChunks,
           NEW total \in {0, TotalChunks}, NEW status \in EarlyStatuses \cup {"failed"},
           NEW own \in BOOLEAN
    PROVE  /\ EnsureJob(r, total, status) \in Row
           /\ SavedPair(r, n, TotalChunks) \in Row
           /\ Completed(r) \in Row
           /\ MarkFailed(r) \in Row
           /\ RequestCancel(r) \in Row
           /\ CompleteCancel(r) \in Row
           /\ BeginDelete(r) \in Row
           /\ FinishDelete(r) \in Row
           /\ Recovered(r, own) \in Row
  <1>1. "none" \in Leases
    BY DEF Leases
  <1>2. EnsureJob(r, total, status) \in Row
    <2>1. status \in Statuses
      BY EarlyAreStatuses
    <2>2. [NoRow EXCEPT !.total = total, !.status = status] \in Row
      BY <2>1, NoRowType DEF Row
    <2> QED
      BY <2>1, <2>2, UpdateJobType DEF EnsureJob
  <1>3. SavedPair(r, n, TotalChunks) \in Row
    <2> DEFINE u == UpdateJob(r, TotalChunks, "processing")
    <2>1. u \in Row
      BY UpdateJobType, EarlyAreStatuses DEF EarlyStatuses
    <2>2. Greatest(u.processed, n) \in 0..TotalChunks
      BY <2>1 DEF Greatest, Row
    <2> QED
      BY <2>1, <2>2, EarlyAreStatuses DEF SavedPair, Row
  <1>4. Completed(r) \in Row /\ MarkFailed(r) \in Row /\ RequestCancel(r) \in Row
    BY EarlyAreStatuses, <1>1 DEF Completed, MarkFailed, RequestCancel, Row
  <1>5. CompleteCancel(r) \in Row /\ BeginDelete(r) \in Row /\ FinishDelete(r) \in Row
    BY EarlyAreStatuses DEF CompleteCancel, TransitionJob, BeginDelete, FinishDelete, Row
  <1>6. Recovered(r, own) \in Row
    BY EarlyAreStatuses, <1>1 DEF Recovered, Row
  <1> QED
    BY <1>2, <1>3, <1>4, <1>5, <1>6

\* A row whose comparison can still be claimed, as far as status and claim go.
Open(r) == ~r.claimed /\ r.status \notin ClosedStatuses

\* No statement but _recover_local_leases opens a row, and none but the claim
\* moves lease_epoch forward.
OpensNothing(r, q) ==
    /\ q.epoch = r.epoch \/ q.epoch = 0
    /\ Open(q) => Open(r) \/ q.epoch = 0

LEMMA StatementsOpenNothing ==
    ASSUME NEW r \in Row, NEW n \in 0..TotalChunks,
           NEW total \in {0, TotalChunks}, NEW status \in EarlyStatuses \cup {"failed"}
    PROVE  /\ OpensNothing(r, EnsureJob(r, total, status))
           /\ OpensNothing(r, SavedPair(r, n, TotalChunks))
           /\ OpensNothing(r, Completed(r))
           /\ OpensNothing(r, MarkFailed(r))
           /\ OpensNothing(r, RequestCancel(r))
           /\ OpensNothing(r, CompleteCancel(r))
           /\ OpensNothing(r, BeginDelete(r))
           /\ OpensNothing(r, FinishDelete(r))
  <1>1. ASSUME NEW t \in {0, TotalChunks}, NEW s \in EarlyStatuses \cup {"failed"}
        PROVE  /\ UpdateJob(r, t, s).epoch = r.epoch
               /\ Open(UpdateJob(r, t, s)) => Open(r)
    BY DEF UpdateJob, UpsertStatus, UpsertKeeps, EarlyStatuses, ClosedStatuses, Open, Row
  <1>2. OpensNothing(r, EnsureJob(r, total, status))
    BY <1>1 DEF EnsureJob, NoRow, OpensNothing
  <1>3. OpensNothing(r, SavedPair(r, n, TotalChunks))
    <2> DEFINE u == UpdateJob(r, TotalChunks, "processing")
    <2>1. u \in Row /\ u.epoch = r.epoch /\ (Open(u) => Open(r))
      BY <1>1, UpdateJobType, EarlyAreStatuses DEF EarlyStatuses
    <2>2. OpensNothing(u, SavedPair(r, n, TotalChunks))
      BY <2>1 DEF SavedPair, SaveKeeps, ClosedStatuses, Open, OpensNothing, Row
    <2> QED
      BY <2>1, <2>2 DEF OpensNothing
  <1>4. /\ OpensNothing(r, Completed(r))
        /\ OpensNothing(r, MarkFailed(r))
        /\ OpensNothing(r, RequestCancel(r))
    BY DEF Completed, MarkFailed, RequestCancel, ClosedStatuses, Exists, Absent,
           Open, OpensNothing, Row
  <1>5. /\ OpensNothing(r, CompleteCancel(r))
        /\ OpensNothing(r, BeginDelete(r))
        /\ OpensNothing(r, FinishDelete(r))
    BY DEF CompleteCancel, TransitionJob, BeginDelete, FinishDelete, ClosedStatuses,
           Exists, Absent, Open, OpensNothing, Row
  <1> QED
    BY <1>2, <1>3, <1>4, <1>5


\* The statements without a parameter, both facts together.
LEMMA StatementsKeepRow ==
    ASSUME NEW r \in Row,
           NEW q \in {Completed(r), MarkFailed(r), RequestCancel(r), CompleteCancel(r),
                      BeginDelete(r), FinishDelete(r)}
    PROVE  q \in Row /\ OpensNothing(r, q)
  <1>1. 0 \in 0..TotalChunks /\ 0 \in {0, TotalChunks}
    BY PipelineAssumption
  <1> QED
    BY <1>1, StatementsKeepType, StatementsOpenNothing

LEMMA EnsureJobKeepsRow ==
    ASSUME NEW r \in Row, NEW total \in {0, TotalChunks}, NEW status \in RegisterStatuses
    PROVE  EnsureJob(r, total, status) \in Row /\ OpensNothing(r, EnsureJob(r, total, status))
  <1>1. 0 \in 0..TotalChunks /\ status \in EarlyStatuses \cup {"failed"}
    BY PipelineAssumption
  <1> QED
    BY <1>1, StatementsKeepType, StatementsOpenNothing

LEMMA RecoveredType ==
    ASSUME NEW r \in Row, NEW own \in BOOLEAN
    PROVE  Recovered(r, own) \in Row
  BY EarlyAreStatuses DEF Recovered, Row, Leases

\* mark_comparison_run_failed, whichever run it names.
LEMMA FailRunType ==
    ASSUME NEW f \in [Epochs -> RunRecord], NEW e
    PROVE  [f EXCEPT ![e].status = "failed"]
                \in [Epochs -> RunRecord]
  OBVIOUS

-----------------------------------------------------------------------------
(* The invariant behind type correctness and the number of claims, in parts *)

\* Every claim but the first has a restart of its own to thank for; while the
\* row is open, one restart is still unused.
ClaimBudget ==
    /\ row.epoch <= restarts + 1
    /\ Open(row) => row.epoch <= restarts

RowInv == row \in Row /\ restarts \in 0..MaxRestarts /\ ClaimBudget

StoreInv ==
    /\ stored \subseteq Chunks
    /\ runs \in [Epochs -> RunRecord]
    /\ results \subseteq Epochs

\* The consumer is at a chunk of the job while it processes one.
HoldsChunk(i) == i.pc \in {"check", "lookup", "ocr"} => i.chunk \in Chunks

IntakeInv ==
    /\ intake \in [Workers -> IntakeRecord]
    /\ \A w \in Workers : HoldsChunk(intake[w])

\* A comparison under way has the epoch of its claim.
HoldsEpoch(c) == c.pc \in {"load", "create", "compare"} => c.epoch \in Epochs

CompInv ==
    /\ comp \in [Comparators -> CompareRecord]
    /\ \A k \in Comparators : HoldsEpoch(comp[k])

HostInv ==
    /\ todo \subseteq Chunks
    /\ queue \subseteq Workers
    /\ inflight \subseteq Workers
    /\ node \in [Workers -> {"down", "recovering", "starting", "up"}]
    /\ crashes \in 0..MaxRestarts
    /\ saga \in {"none", "begun", "done"}

\* TypeOK alone is not inductive: the bound on lease_epoch is the claims', the
\* ranges of a chunk and of a run's epoch are the tasks'.
TypeInv == RowInv /\ StoreInv /\ IntakeInv /\ CompInv /\ HostInv

LEMMA TypeInvGivesTypeOK == TypeInv => TypeOK
  BY DEF TypeInv, RowInv, StoreInv, IntakeInv, CompInv, HostInv, TypeOK

LEMMA InitTypeInv == Init => TypeInv
  <1> SUFFICES ASSUME Init PROVE TypeInv
    OBVIOUS
  <1> USE PipelineAssumption DEF Init
  <1>1. RowInv
    BY NoRowType DEF RowInv, ClaimBudget, NoRow
  <1>2. StoreInv
    BY DEF StoreInv, NoRun
  <1>3. IntakeInv
    BY DEF IntakeInv, HoldsChunk, IdleIntake, IntakeStates
  <1>4. CompInv
    BY DEF CompInv, HoldsEpoch, IdleCompare, CompareStates
  <1>5. HostInv
    BY DEF HostInv
  <1> QED
    BY <1>1, <1>2, <1>3, <1>4, <1>5 DEF TypeInv

-----------------------------------------------------------------------------
(* How the parts are kept *)

\* A part whose variables do not change stays true.
LEMMA PartsUnchanged ==
    ASSUME TypeInv
    PROVE  /\ UNCHANGED <<row, restarts>> => RowInv'
           /\ UNCHANGED <<stored, runs, results>> => StoreInv'
           /\ UNCHANGED intake => IntakeInv'
           /\ UNCHANGED comp => CompInv'
           /\ UNCHANGED <<todo, queue, inflight, node, crashes, saga>> => HostInv'
  <1>1. UNCHANGED <<row, restarts>> => RowInv'
    BY DEF TypeInv, RowInv, ClaimBudget, Open
  <1>2. UNCHANGED <<stored, runs, results>> => StoreInv'
    BY DEF TypeInv, StoreInv
  <1>3. UNCHANGED intake => IntakeInv'
    BY DEF TypeInv, IntakeInv
  <1>4. UNCHANGED comp => CompInv'
    BY DEF TypeInv, CompInv
  <1>5. UNCHANGED <<todo, queue, inflight, node, crashes, saga>> => HostInv'
    BY DEF TypeInv, HostInv
  <1> QED
    BY <1>1, <1>2, <1>3, <1>4, <1>5

\* A statement that keeps the row's type and opens nothing keeps RowInv.
LEMMA StatementKeepsRowInv ==
    ASSUME TypeInv, NEW q \in Row, OpensNothing(row, q), row' = q, UNCHANGED restarts
    PROVE  RowInv'
  BY PipelineAssumption DEF TypeInv, RowInv, ClaimBudget, OpensNothing, Open, Row

\* The consumer of one worker moves on.
LEMMA IntakeMoves ==
    ASSUME TypeInv, NEW w \in Workers,
           NEW i \in IntakeRecord,
           HoldsChunk(i), intake' = [intake EXCEPT ![w] = i]
    PROVE  IntakeInv'
  BY DEF TypeInv, IntakeInv

\* It keeps its chunk, unless it goes back to work on one.
LEMMA IntakeMovesTo ==
    ASSUME TypeInv, NEW w \in Workers, NEW pc \in IntakeStates, NEW ready \in BOOLEAN,
           \/ intake[w].pc \in {"check", "lookup", "ocr"}
           \/ pc \notin {"check", "lookup", "ocr"},
           \/ IntakeTo(w, pc)
           \/ intake' = [intake EXCEPT ![w].pc = pc, ![w].ready = ready]
    PROVE  IntakeInv'
  <1> DEFINE i(b) == [intake[w] EXCEPT !.pc = pc, !.ready = b]
  <1>1. intake[w] \in IntakeRecord
        /\ HoldsChunk(intake[w])
    BY DEF TypeInv, IntakeInv
  <1>2. PICK b \in BOOLEAN : intake' = [intake EXCEPT ![w] = i(b)]
    BY <1>1 DEF IntakeTo, TypeInv, IntakeInv
  <1>3. i(b) \in IntakeRecord
        /\ HoldsChunk(i(b))
    BY <1>1 DEF HoldsChunk
  <1> QED
    BY <1>2, <1>3, IntakeMoves

\* A comparison task moves on.
LEMMA CompMoves ==
    ASSUME TypeInv, NEW k \in Comparators,
           NEW c \in CompareRecord,
           HoldsEpoch(c), comp' = [comp EXCEPT ![k] = c]
    PROVE  CompInv'
  BY DEF TypeInv, CompInv

\* It keeps its epoch, unless it starts the work on one.
LEMMA CompMovesTo ==
    ASSUME TypeInv, NEW k \in Comparators, NEW pc \in CompareStates,
           \/ comp[k].pc \in {"load", "create", "compare"}
           \/ pc \notin {"load", "create", "compare"},
           CompTo(k, pc)
    PROVE  CompInv'
  <1> DEFINE c == [comp[k] EXCEPT !.pc = pc]
  <1>1. comp[k] \in CompareRecord
        /\ HoldsEpoch(comp[k])
    BY DEF TypeInv, CompInv
  <1>2. comp' = [comp EXCEPT ![k] = c]
    BY DEF CompTo
  <1>3. c \in CompareRecord
        /\ HoldsEpoch(c)
    BY <1>1 DEF HoldsEpoch
  <1> QED
    BY <1>2, <1>3, CompMoves

\* What the tasks are left with when they end.
LEMMA IdleMoves ==
    /\ IdleIntake \in IntakeRecord
    /\ HoldsChunk(IdleIntake)
    /\ DeadIntake \in IntakeRecord
    /\ HoldsChunk(DeadIntake)
    /\ IdleCompare \in CompareRecord
    /\ HoldsEpoch(IdleCompare)
  <1>1. 0 \in 0..TotalChunks /\ 0 \in 0..(MaxRestarts + 1)
    BY PipelineAssumption
  <1>2. /\ IdleIntake \in IntakeRecord
        /\ HoldsChunk(IdleIntake)
    BY <1>1 DEF IdleIntake, HoldsChunk, IntakeStates
  <1>3. /\ DeadIntake \in IntakeRecord
        /\ HoldsChunk(DeadIntake)
    BY <1>1 DEF DeadIntake, HoldsChunk, IntakeStates
  <1>4. /\ IdleCompare \in CompareRecord
        /\ HoldsEpoch(IdleCompare)
    BY <1>1 DEF IdleCompare, HoldsEpoch, CompareStates
  <1> QED
    BY <1>2, <1>3, <1>4

LEMMA ComparatorWorker ==
    ASSUME NEW k \in Comparators
    PROVE  WorkerOf(k) \in Workers
  BY DEF Comparators, WorkerOf

\* No set of the job's chunks has more than TotalChunks members.
LEMMA StoredBound ==
    ASSUME NEW S \in SUBSET Chunks
    PROVE  IsFiniteSet(S) /\ Cardinality(S) \in 0..TotalChunks
  <1>1. IsFiniteSet(Chunks) /\ Cardinality(Chunks) = TotalChunks
    BY FS_Interval, PipelineAssumption DEF Chunks
  <1>2. IsFiniteSet(S) /\ Cardinality(S) <= TotalChunks
    BY <1>1, FS_Subset
  <1> QED
    BY <1>2, FS_CardinalityType, PipelineAssumption

-----------------------------------------------------------------------------
(* The steps of the raw-chunk consumer *)

LEMMA IntakeKeepsTypeInv ==
    ASSUME TypeInv, NEW w \in Workers,
           IntakeStep(w) \/ ProcessRaises(w) \/ ConsumerDies(w)
    PROVE  TypeInv'
  <1> USE PipelineAssumption DEF IntakeAt, dbVars, nodeVars
  <1>row. row \in Row /\ stored \in SUBSET Chunks
    BY DEF TypeInv, RowInv, StoreInv
  <1>1. ASSUME NEW c \in Chunks, Fetch(w, c) PROVE TypeInv'
    <2> DEFINE i == [pc |-> "check", chunk |-> c, ready |-> FALSE]
    <2>1. i \in IntakeRecord
          /\ HoldsChunk(i)
      BY <1>1 DEF HoldsChunk, Chunks, IntakeStates
    <2>2. intake' = [intake EXCEPT ![w] = i]
      BY <1>1 DEF Fetch
    <2>3. IntakeInv'
      BY <2>1, <2>2, IntakeMoves
    <2> QED
      BY <1>1, <2>3, PartsUnchanged DEF Fetch, TypeInv
  <1>2. CASE CheckJob(w)
    <2>1. IntakeInv'
      BY <1>2, IntakeMovesTo DEF CheckJob, IntakeStates
    <2> QED
      BY <1>2, <2>1, PartsUnchanged DEF CheckJob, TypeInv
  <1>3. CASE LookupChunk(w)
    <2>1. IntakeInv'
      <3>1. CASE intake[w].chunk \in stored
        <4> DEFINE ready == EnoughStored(Cardinality(stored))
        <4>1. ready \in BOOLEAN /\ "report" \in IntakeStates
          BY DEF EnoughStored, IntakeStates
        <4>2. intake' = [intake EXCEPT ![w].pc = "report", ![w].ready = ready]
          BY <1>3, <3>1 DEF LookupChunk
        <4> QED
          BY <4>1, <4>2, IntakeMovesTo
      <3>2. CASE intake[w].chunk \notin stored
        BY <1>3, <3>2, IntakeMovesTo DEF LookupChunk, IntakeStates
      <3> QED
        BY <3>1, <3>2
    <2> QED
      BY <1>3, <2>1, PartsUnchanged DEF LookupChunk, TypeInv
  <1>4. CASE SavePair(w)
    <2>1. IntakeInv'
      <3>1. CASE Exists(row)
        <4> DEFINE ready == EnoughStored(Cardinality(stored \cup {intake[w].chunk}))
        <4>1. ready \in BOOLEAN /\ "report" \in IntakeStates
          BY DEF EnoughStored, IntakeStates
        <4>2. intake' = [intake EXCEPT ![w].pc = "report", ![w].ready = ready]
          BY <1>4, <3>1 DEF SavePair
        <4> QED
          BY <4>1, <4>2, IntakeMovesTo
      <3>2. CASE ~Exists(row)
        BY <1>4, <3>2, IntakeMovesTo DEF SavePair, IntakeStates
      <3> QED
        BY <3>1, <3>2
    <2>2. RowInv' /\ StoreInv'
      <3>1. CASE Exists(row)
        <4> DEFINE both == stored \cup {intake[w].chunk}
        <4>1. both \in SUBSET Chunks
          BY <1>4, <1>row DEF SavePair, TypeInv, IntakeInv, HoldsChunk
        <4>2. Cardinality(both) \in 0..TotalChunks
          BY <4>1, StoredBound
        <4>3. stored' = both /\ row' = SavedPair(row, Cardinality(both), TotalChunks)
          BY <1>4, <3>1 DEF SavePair
        <4>4. /\ SavedPair(row, Cardinality(both), TotalChunks) \in Row
              /\ OpensNothing(row, SavedPair(row, Cardinality(both), TotalChunks))
          BY <1>row, <4>2, StatementsKeepType, StatementsOpenNothing DEF EarlyStatuses
        <4>5. RowInv'
          BY <1>4, <4>3, <4>4, StatementKeepsRowInv DEF SavePair
        <4>6. StoreInv'
          BY <1>4, <4>1, <4>3 DEF SavePair, TypeInv, StoreInv
        <4> QED
          BY <4>5, <4>6
      <3>2. CASE ~Exists(row)
        BY <1>4, <3>2, PartsUnchanged DEF SavePair
      <3> QED
        BY <3>1, <3>2
    <2> QED
      BY <1>4, <2>1, <2>2, PartsUnchanged DEF SavePair, TypeInv
  <1>5. CASE Report(w)
    <2>1. IntakeInv'
      BY <1>5, IntakeMovesTo DEF Report, IntakeStates
    <2>2. HostInv'
      BY <1>5 DEF Report, Submit, NoSubmit, TypeInv, HostInv
    <2> QED
      BY <1>5, <2>1, <2>2, PartsUnchanged DEF Report, TypeInv
  <1>6. CASE Ack(w)
    <2>1. IntakeInv'
      BY <1>6, IdleMoves, IntakeMoves DEF Ack
    <2>2. HostInv'
      BY <1>6 DEF Ack, TypeInv, HostInv
    <2> QED
      BY <1>6, <2>1, <2>2, PartsUnchanged DEF Ack, TypeInv
  <1>7. CASE CheckFailed(w)
    <2>1. IntakeInv'
      BY <1>7, IntakeMovesTo DEF CheckFailed, IntakeStates
    <2> QED
      BY <1>7, <2>1, PartsUnchanged DEF CheckFailed, TypeInv
  <1>8. CASE FailJob(w)
    <2>1. IntakeInv'
      BY <1>8, IntakeMovesTo DEF FailJob, IntakeStates
    <2>2. RowInv'
      BY <1>8, <1>row, StatementKeepsRowInv, StatementsKeepRow DEF FailJob
    <2> QED
      BY <1>8, <2>1, <2>2, PartsUnchanged DEF FailJob, TypeInv
  <1>9. CASE ProcessRaises(w)
    <2>1. IntakeInv'
      BY <1>9, IntakeMovesTo DEF ProcessRaises, IntakeStates
    <2> QED
      BY <1>9, <2>1, PartsUnchanged DEF ProcessRaises, TypeInv
  <1>10. CASE ConsumerDies(w)
    <2>1. IntakeInv'
      BY <1>10, IdleMoves, IntakeMoves DEF ConsumerDies
    <2> QED
      BY <1>10, <2>1, PartsUnchanged DEF ConsumerDies, TypeInv
  <1> QED
    BY <1>1, <1>2, <1>3, <1>4, <1>5, <1>6, <1>7, <1>8, <1>9, <1>10 DEF IntakeStep

-----------------------------------------------------------------------------
(* The steps of a comparison task *)

\* A job that may be claimed has a claim left.
LEMMA ClaimSpends ==
    ASSUME TypeInv, Claimable(row)
    PROVE  row.epoch \in Nat /\ restarts \in 0..MaxRestarts /\ row.epoch <= restarts
  BY DEF Claimable, Open, TypeInv, RowInv, ClaimBudget, Row

LEMMA ClaimKeepsRowInv ==
    ASSUME TypeInv, Claimable(row), NEW k \in Comparators,
           row' = Claim(row, WorkerOf(k)), UNCHANGED restarts
    PROVE  RowInv'
  <1>row. row \in Row
    BY DEF TypeInv, RowInv
  <1>1. row.epoch + 1 \in 0..(MaxRestarts + 1) /\ "live" \in Leases
    BY ClaimSpends, PipelineAssumption DEF Leases
  <1>2. Claim(row, WorkerOf(k)) \in Row
    BY <1>1, <1>row, EarlyAreStatuses, ComparatorWorker DEF Claim, Row
  <1>3. row'.epoch = row.epoch + 1 /\ row'.claimed
    BY <1>row DEF Claim, Row
  <1> QED
    BY <1>2, <1>3, ClaimSpends, PipelineAssumption DEF RowInv, ClaimBudget, Open

\* What a task may do, its errors included.
TaskStep(k) ==
    \/ StartCompare(k) \/ CompareStep(k)
    \/ CompareRaises(k) \/ ClaimRaises(k) \/ FailureRaises(k)

LEMMA CompareKeepsTypeInv ==
    ASSUME TypeInv, NEW k \in Comparators,
           TaskStep(k)
    PROVE  TypeInv'
  <1> USE PipelineAssumption DEF CompAt, dbVars, nodeVars
  <1>row. row \in Row /\ stored \in SUBSET Chunks
    BY DEF TypeInv, RowInv, StoreInv
  <1>1. CASE StartCompare(k)
    <2>1. CompInv'
      BY <1>1, CompMovesTo DEF StartCompare, CompareStates
    <2>2. HostInv'
      BY <1>1 DEF StartCompare, TypeInv, HostInv
    <2> QED
      BY <1>1, <2>1, <2>2, PartsUnchanged DEF StartCompare, TypeInv
  <1>2. CASE TryClaim(k)
    <2>1. CASE Claimable(row)
      <3>1. row.epoch \in Nat /\ restarts \in 0..MaxRestarts /\ row.epoch <= restarts
        BY <2>1, ClaimSpends
      <3>3. RowInv'
        BY <1>2, <2>1, ClaimKeepsRowInv DEF TryClaim
      <3>4. CompInv'
        <4> DEFINE c == [comp[k] EXCEPT !.pc = "load", !.epoch = row.epoch + 1]
        <4>1. row.epoch + 1 \in Epochs /\ row.epoch + 1 \in 0..(MaxRestarts + 1)
          BY <3>1 DEF Epochs
        <4>2. c \in CompareRecord
          BY <4>1 DEF TypeInv, CompInv, CompareStates
        <4>3. HoldsEpoch(c)
          BY <4>1 DEF TypeInv, CompInv, HoldsEpoch
        <4>4. comp' = [comp EXCEPT ![k] = c]
          BY <1>2, <2>1 DEF TryClaim
        <4> QED
          BY <4>2, <4>3, <4>4, CompMoves
      <3> QED
        BY <1>2, <2>1, <3>3, <3>4, PartsUnchanged DEF TryClaim, TypeInv
    <2>2. CASE ~Claimable(row)
      <3>1. CompInv'
        BY <1>2, <2>2, CompMovesTo DEF TryClaim, CompareStates
      <3> QED
        BY <1>2, <2>2, <3>1, PartsUnchanged DEF TryClaim, TypeInv
    <2> QED
      BY <2>1, <2>2
  <1>3. CASE LoadDocuments(k)
    <2> DEFINE c == [comp[k] EXCEPT !.pc = "create", !.pages = stored]
    <2>1. c \in CompareRecord
          /\ HoldsEpoch(c)
      BY <1>3, <1>row DEF LoadDocuments, TypeInv, CompInv, HoldsEpoch, CompareStates
    <2>2. comp' = [comp EXCEPT ![k] = c]
      BY <1>3 DEF LoadDocuments
    <2>3. CompInv'
      BY <2>1, <2>2, CompMoves
    <2> QED
      BY <1>3, <2>3, PartsUnchanged DEF LoadDocuments, TypeInv
  <1>4. CASE CreateRun(k)
    <2>1. CompInv'
      BY <1>4, CompMovesTo DEF CreateRun, CompareStates
    <2>2. StoreInv'
      BY <1>4 DEF CreateRun, TypeInv, StoreInv, CompInv
    <2> QED
      BY <1>4, <2>1, <2>2, PartsUnchanged DEF CreateRun, TypeInv
  <1>5. CASE Finalize(k)
    <2>1. CompInv'
      BY <1>5, CompMovesTo DEF Finalize, CompareStates
    <2>2. StoreInv'
      <3>1. comp[k].epoch \in Epochs
        BY <1>5 DEF Finalize, TypeInv, CompInv, HoldsEpoch
      <3> QED
        BY <1>5, <3>1 DEF Finalize, TypeInv, StoreInv
    <2>3. RowInv'
      BY <1>5, <1>row, StatementKeepsRowInv, StatementsKeepRow DEF Finalize
    <2> QED
      BY <1>5, <2>1, <2>2, <2>3, PartsUnchanged DEF Finalize, TypeInv
  <1>6. CASE FailRun(k)
    <2>1. CompInv'
      BY <1>6, CompMovesTo DEF FailRun, CompareStates
    <2>2. StoreInv'
      <3>1. runs \in [Epochs -> RunRecord]
        BY DEF TypeInv, StoreInv
      <3>2. runs' \in [Epochs -> RunRecord]
        BY <1>6, <3>1, FailRunType DEF FailRun
      <3> QED
        BY <1>6, <3>2 DEF FailRun, TypeInv, StoreInv
    <2> QED
      BY <1>6, <2>1, <2>2, PartsUnchanged DEF FailRun, TypeInv
  <1>7. CASE FailComparedJob(k)
    <2>1. CompInv'
      BY <1>7, CompMovesTo DEF FailComparedJob, CompareStates
    <2>2. RowInv'
      BY <1>7, <1>row, StatementKeepsRowInv, StatementsKeepRow DEF FailComparedJob
    <2> QED
      BY <1>7, <2>1, <2>2, PartsUnchanged DEF FailComparedJob, TypeInv
  <1>8. CASE FinishCompare(k)
    <2>1. CompInv'
      BY <1>8, IdleMoves, CompMoves DEF FinishCompare
    <2>2. HostInv'
      BY <1>8 DEF FinishCompare, TypeInv, HostInv
    <2> QED
      BY <1>8, <2>1, <2>2, PartsUnchanged DEF FinishCompare, TypeInv
  <1>9. CASE CompareRaises(k)
    <2>1. CompInv'
      BY <1>9, CompMovesTo DEF CompareRaises, CompareStates
    <2> QED
      BY <1>9, <2>1, PartsUnchanged DEF CompareRaises, TypeInv
  <1>10. CASE ClaimRaises(k)
    <2>1. CompInv'
      BY <1>10, CompMovesTo DEF ClaimRaises, CompareStates
    <2>2. RowInv'
      <3>1. CASE Claimable(row) /\ row' = Claim(row, WorkerOf(k))
        BY <1>10, <3>1, ClaimKeepsRowInv DEF ClaimRaises
      <3>2. CASE UNCHANGED row
        BY <1>10, <3>2, PartsUnchanged DEF ClaimRaises
      <3> QED
        BY <1>10, <3>1, <3>2 DEF ClaimRaises
    <2> QED
      BY <1>10, <2>1, <2>2, PartsUnchanged DEF ClaimRaises, TypeInv
  <1>11. CASE FailureRaises(k)
    <2>1. CompInv'
      BY <1>11, CompMovesTo DEF FailureRaises, CompareStates
    <2>2. RowInv'
      <3>1. CASE UNCHANGED row
        BY <1>11, <3>1, PartsUnchanged DEF FailureRaises
      <3>2. CASE row' = MarkFailed(row)
        BY <1>11, <1>row, <3>2, StatementKeepsRowInv, StatementsKeepRow DEF FailureRaises
      <3> QED
        BY <1>11, <3>1, <3>2 DEF FailureRaises
    <2>3. StoreInv'
      <3>1. runs \in [Epochs -> RunRecord]
        BY DEF TypeInv, StoreInv
      <3>2. runs' \in [Epochs -> RunRecord]
        BY <1>11, <3>1, FailRunType DEF FailureRaises
      <3> QED
        BY <1>11, <3>2 DEF FailureRaises, TypeInv, StoreInv
    <2> QED
      BY <1>11, <2>1, <2>2, <2>3, PartsUnchanged DEF FailureRaises, TypeInv
  <1> QED
    BY <1>1, <1>2, <1>3, <1>4, <1>5, <1>6, <1>7, <1>8, <1>9, <1>10, <1>11
    DEF TaskStep, CompareStep

-----------------------------------------------------------------------------
(* Start-up, crashes and the environment *)

LEMMA RestartKeepsTypeInv ==
    ASSUME TypeInv, NEW w \in Workers, Restart(w) \/ Crash(w)
    PROVE  TypeInv'
  <1> USE PipelineAssumption DEF dbVars, taskVars
  <1>row. row \in Row /\ IsOwn(w) \in BOOLEAN
    BY DEF TypeInv, RowInv, IsOwn
  <1>1. CASE RecoverRuns(w)
    <2>1. StoreInv'
      BY <1>1 DEF RecoverRuns, TypeInv, StoreInv
    <2>2. HostInv'
      BY <1>1 DEF RecoverRuns, TypeInv, HostInv
    <2> QED
      BY <1>1, <2>1, <2>2, PartsUnchanged DEF RecoverRuns, TypeInv
  <1>2. CASE RecoverJobs(w)
    <2>1. Recovered(row, IsOwn(w)) \in Row
      BY <1>row, RecoveredType
    <2>2. RowInv'
      BY <1>2, <2>1
      DEF RecoverJobs, Recovered, TypeInv, RowInv, ClaimBudget, Open, Row
    <2>3. HostInv'
      BY <1>2 DEF RecoverJobs, TypeInv, HostInv
    <2> QED
      BY <1>2, <2>2, <2>3, PartsUnchanged DEF RecoverJobs, TypeInv
  <1>3. CASE RecoverReady(w)
    <2>1. HostInv'
      BY <1>3 DEF RecoverReady, Submit, NoSubmit, TypeInv, HostInv
    <2> QED
      BY <1>3, <2>1, PartsUnchanged DEF RecoverReady, TypeInv
  <1>4. CASE Crash(w)
    <2>1. IntakeInv'
      BY <1>4, IdleMoves, IntakeMoves DEF Crash
    <2>2. CompInv'
      BY <1>4 DEF Crash, IdleCompare, HoldsEpoch, CompareStates, TypeInv, CompInv
    <2>3. HostInv'
      BY <1>4 DEF Crash, TypeInv, HostInv
    <2> QED
      BY <1>4, <2>1, <2>2, <2>3, PartsUnchanged DEF Crash, TypeInv
  <1> QED
    BY <1>1, <1>2, <1>3, <1>4 DEF Restart

LEMMA EnvironmentKeepsTypeInv ==
    ASSUME TypeInv, Environment
    PROVE  TypeInv'
  <1> USE PipelineAssumption DEF nodeVars, taskVars
  <1>row. row \in Row
    BY DEF TypeInv, RowInv
  <1>1. RowInv'
    <2>1. ASSUME NEW total \in {0, TotalChunks}, NEW status \in RegisterStatuses,
                 RegisterJob(total, status)
          PROVE  RowInv'
      <3>1. /\ EnsureJob(row, total, status) \in Row
            /\ OpensNothing(row, EnsureJob(row, total, status))
        BY <1>row, EnsureJobKeepsRow
      <3> QED
        BY <2>1, <3>1, StatementKeepsRowInv DEF RegisterJob
    <2>2. CASE CancelJob \/ CompleteCancelled \/ StartDelete \/ EndDelete
      BY <2>2, <1>row, StatementKeepsRowInv, StatementsKeepRow
      DEF CancelJob, CompleteCancelled, StartDelete, EndDelete
    <2>3. CASE LeaseExpires
      <3>1. [row EXCEPT !.lease = "expired"] \in Row
        BY <1>row DEF Row, Leases
      <3> QED
        BY <2>3, <3>1, StatementKeepsRowInv DEF LeaseExpires, OpensNothing, Open, Row
    <2> QED
      BY <2>1, <2>2, <2>3 DEF Environment
  <1>2. HostInv'
    BY DEF Environment, RegisterJob, CancelJob, LeaseExpires, CompleteCancelled,
           StartDelete, EndDelete, TypeInv, HostInv
  <1>3. UNCHANGED <<stored, runs, results, intake, comp>>
    BY DEF Environment, RegisterJob, CancelJob, LeaseExpires, CompleteCancelled,
           StartDelete, EndDelete
  <1> QED
    BY <1>1, <1>2, <1>3, PartsUnchanged DEF TypeInv

-----------------------------------------------------------------------------

LEMMA NextTypeInv == TypeInv /\ [Next]_vars => TypeInv'
  <1> SUFFICES ASSUME TypeInv, [Next]_vars PROVE TypeInv'
    OBVIOUS
  <1>1. CASE Next
    BY <1>1, IntakeKeepsTypeInv, CompareKeepsTypeInv, RestartKeepsTypeInv,
       EnvironmentKeepsTypeInv DEF Next, TaskStep
  <1>2. CASE UNCHANGED vars
    BY <1>2, PartsUnchanged DEF vars, dbVars, taskVars, nodeVars, TypeInv
  <1> QED
    BY <1>1, <1>2

\* The invariant behind the theorems about rows and tasks.
THEOREM TypeInvHolds == Spec => []TypeInv
  BY InitTypeInv, NextTypeInv, PTL DEF Spec

\* Every variable keeps its type; lease_epoch needs no bound but that of the
\* crashes.
THEOREM TypeCorrect == Spec => []TypeOK
  BY TypeInvHolds, TypeInvGivesTypeOK, PTL

\* A job is claimed at most once more than workers were restarted.
THEOREM ClaimsCorrect == Spec => []ClaimsNeedRestarts
  <1>1. TypeInv => ClaimsNeedRestarts
    BY DEF TypeInv, RowInv, ClaimBudget, ClaimsNeedRestarts
  <1> QED
    BY <1>1, TypeInvHolds, PTL

-----------------------------------------------------------------------------
(* ComparesWholeDocument *)

HIDE DEF RunRecord, IntakeRecord, CompareRecord

\* The counter never runs ahead of the chunks, and each task keeps hold of the
\* whole document on its way from the claim to the result.
WholeInv ==
    /\ row.processed <= Cardinality(stored)
    /\ \A k \in Comparators :
            /\ Comparing(k) => stored = Chunks
            /\ comp[k].pc = "create" => comp[k].pages = Chunks
            /\ comp[k].pc = "compare" => runs[comp[k].epoch].pages = Chunks
    /\ \A e \in results : runs[e].pages = Chunks

LEMMA ProcessedKept ==
    ASSUME NEW r \in Row
    PROVE  /\ \A q \in {Completed(r), MarkFailed(r), RequestCancel(r), CompleteCancel(r),
                        BeginDelete(r), FinishDelete(r)} : q.processed = r.processed
           /\ \A own : Recovered(r, own).processed = r.processed
           /\ \A w : Claim(r, w).processed = r.processed
           /\ \A t, s : EnsureJob(r, t, s).processed \in {0, r.processed}
  <1>1. \A q \in {Completed(r), MarkFailed(r), RequestCancel(r), CompleteCancel(r),
                  BeginDelete(r), FinishDelete(r)} : q.processed = r.processed
    <2>1. /\ Completed(r).processed = r.processed
          /\ MarkFailed(r).processed = r.processed
          /\ RequestCancel(r).processed = r.processed
      BY DEF Completed, MarkFailed, RequestCancel, Row
    <2>2. /\ CompleteCancel(r).processed = r.processed
          /\ BeginDelete(r).processed = r.processed
          /\ FinishDelete(r).processed = r.processed
      BY DEF CompleteCancel, TransitionJob, BeginDelete, FinishDelete, Row
    <2> QED
      BY <2>1, <2>2
  <1>2. \A own : Recovered(r, own).processed = r.processed
    BY DEF Recovered, Row
  <1>3. \A w : Claim(r, w).processed = r.processed
    BY DEF Claim, Row
  <1>4. \A t, s : EnsureJob(r, t, s).processed \in {0, r.processed}
    BY DEF EnsureJob, UpdateJob, NoRow, Row
  <1> QED
    BY <1>1, <1>2, <1>3, <1>4

\* save_ocr_pair counts what is stored.
LEMMA SavedPairProcessed ==
    ASSUME NEW r \in Row, NEW n \in 0..TotalChunks, r.processed <= n
    PROVE  SavedPair(r, n, TotalChunks).processed = n
  <1> DEFINE u == UpdateJob(r, TotalChunks, "processing")
  <1>1. u \in Row /\ u.processed = r.processed
    BY UpdateJobType, EarlyAreStatuses, PipelineAssumption DEF UpdateJob, Row
  <1>2. Greatest(u.processed, n) = n
    BY <1>1, PipelineAssumption DEF Greatest, Row
  <1> QED
    BY <1>1, <1>2 DEF SavedPair, Row

\* The document is whole once as many of its chunks are stored as it has.
LEMMA AllStored ==
    ASSUME NEW S \in SUBSET Chunks, Cardinality(S) >= TotalChunks
    PROVE  S = Chunks
  <1>1. IsFiniteSet(Chunks) /\ Cardinality(Chunks) = TotalChunks
    BY FS_Interval, PipelineAssumption DEF Chunks
  <1>2. Cardinality(S) = Cardinality(Chunks)
    BY <1>1, StoredBound, PipelineAssumption
  <1> QED
    BY <1>1, <1>2, FS_Subset

LEMMA StoredGrows ==
    ASSUME NEW S \in SUBSET Chunks, NEW c \in Chunks
    PROVE  Cardinality(S) <= Cardinality(S \cup {c})
  <1>1. S \cup {c} \in SUBSET Chunks
    OBVIOUS
  <1>2. IsFiniteSet(S \cup {c}) /\ S \in SUBSET (S \cup {c})
    BY <1>1, StoredBound
  <1> QED
    BY <1>2, FS_Subset

\* A task that moves on takes its epoch and pages along; the others stay.
LEMMA CompToMoves ==
    ASSUME comp \in [Comparators -> CompareRecord], NEW k \in Comparators, NEW pc,
           CompTo(k, pc)
    PROVE  \A j \in Comparators :
                \/ comp'[j] = comp[j]
                \/ j = k /\ comp'[j].pc = pc /\ comp'[j].epoch = comp[k].epoch
  BY DEF CompTo

LEMMA InitWholeInv == Init => WholeInv
  <1> SUFFICES ASSUME Init PROVE WholeInv
    OBVIOUS
  <1>1. Cardinality(stored) = 0
    BY FS_EmptySet DEF Init
  <1> QED
    BY <1>1 DEF Init, WholeInv, NoRow, IdleCompare, Comparing

LEMMA NextWholeInv == TypeInv /\ WholeInv /\ [Next]_vars => WholeInv'
  <1> SUFFICES ASSUME TypeInv, WholeInv, [Next]_vars PROVE WholeInv'
    OBVIOUS
  <1> USE PipelineAssumption
  <1>type. /\ row \in Row
           /\ stored \in SUBSET Chunks
           /\ runs \in [Epochs -> RunRecord]
           /\ comp \in [Comparators -> CompareRecord]
           /\ Cardinality(stored) \in 0..TotalChunks
           /\ \A k \in Comparators : HoldsEpoch(comp[k])
    BY StoredBound DEF TypeInv, RowInv, StoreInv, CompInv
  <1>1. ASSUME NEW w \in Workers, SavePair(w) PROVE WholeInv'
    <2>1. CASE Exists(row)
      <3> DEFINE both == stored \cup {intake[w].chunk}
      <3>1. intake[w].chunk \in Chunks
        BY <1>1 DEF SavePair, IntakeAt, TypeInv, IntakeInv, HoldsChunk
      <3>2. Cardinality(both) \in 0..TotalChunks /\ Cardinality(stored) <= Cardinality(both)
        BY <3>1, <1>type, StoredBound, StoredGrows
      <3>3. stored' = both /\ row' = SavedPair(row, Cardinality(both), TotalChunks)
        BY <1>1, <2>1 DEF SavePair
      <3>4. row.processed <= Cardinality(both)
        BY <3>2, <1>type DEF WholeInv, Row
      <3>5. row'.processed = Cardinality(both)
        BY <3>2, <3>3, <3>4, <1>type, SavedPairProcessed
      <3>6. stored = Chunks => both = Chunks
        BY <3>1
      <3> QED
        BY <1>1, <3>2, <3>3, <3>5, <3>6 DEF SavePair, WholeInv, Comparing
    <2>2. CASE ~Exists(row)
      BY <1>1, <2>2 DEF SavePair, WholeInv, Comparing
    <2> QED
      BY <2>1, <2>2
  <1>2. ASSUME NEW k \in Comparators, TryClaim(k) PROVE WholeInv'
    <2>1. CASE Claimable(row)
      <3>1. stored = Chunks
        <4>1. row.total = TotalChunks /\ row.processed >= row.total
          BY <2>1, <1>type DEF Claimable, Row
        <4>2. Cardinality(stored) >= TotalChunks
          BY <4>1, <1>type DEF WholeInv, Row
        <4> QED
          BY <4>2, <1>type, AllStored
      <3>2. row'.processed = row.processed
        BY <1>2, <2>1, <1>type, ProcessedKept DEF TryClaim
      <3>3. UNCHANGED <<stored, runs, results>>
        BY <1>2 DEF TryClaim
      <3>4. \A j \in Comparators : \/ comp'[j] = comp[j]
                                   \/ comp'[j].pc = "load"
        <4> DEFINE c == [comp[k] EXCEPT !.pc = "load", !.epoch = row.epoch + 1]
        <4>1. comp' = [comp EXCEPT ![k] = c]
          BY <1>2, <2>1 DEF TryClaim
        <4>2. c.pc = "load"
          BY <1>type
        <4> QED
          BY <4>1, <4>2, <1>type
      <3> QED
        BY <3>1, <3>2, <3>3, <3>4 DEF WholeInv, Comparing
    <2>2. CASE ~Claimable(row)
      <3>1. \A j \in Comparators : comp'[j] = comp[j] \/ comp'[j].pc = "finish"
        BY <1>2, <2>2, <1>type, CompToMoves DEF TryClaim
      <3> QED
        BY <1>2, <2>2, <3>1 DEF TryClaim, WholeInv, Comparing
    <2> QED
      BY <2>1, <2>2
  <1>3. ASSUME NEW k \in Comparators, LoadDocuments(k) PROVE WholeInv'
    <2>1. stored = Chunks
      BY <1>3 DEF LoadDocuments, CompAt, WholeInv, Comparing
    <2>2. UNCHANGED <<row, stored, runs, results>>
      BY <1>3 DEF LoadDocuments, dbVars
    <2>3. \A j \in Comparators : \/ comp'[j] = comp[j]
                                 \/ comp'[j].pc = "create" /\ comp'[j].pages = stored
      BY <1>3, <1>type DEF LoadDocuments
    <2> QED
      BY <2>1, <2>2, <2>3 DEF WholeInv, Comparing
  <1>4. ASSUME NEW k \in Comparators, CreateRun(k) PROVE WholeInv'
    <2>1. stored = Chunks /\ comp[k].pages = Chunks /\ comp[k].epoch \in Epochs
      BY <1>4, <1>type DEF CreateRun, CompAt, WholeInv, Comparing, HoldsEpoch
    <2>2. UNCHANGED <<row, stored, results>>
      BY <1>4 DEF CreateRun
    <2>3. \A e \in Epochs : runs'[e] = runs[e] \/ runs'[e].pages = Chunks
      BY <1>4, <2>1, <1>type DEF CreateRun
    <2>4. runs'[comp[k].epoch].pages = Chunks
      BY <1>4, <2>1, <1>type DEF CreateRun
    <2>5. \A j \in Comparators :
            \/ comp'[j] = comp[j]
            \/ comp'[j].pc = "compare" /\ comp'[j].epoch = comp[k].epoch
      BY <1>4, <1>type DEF CreateRun, CompTo
    <2>6. \A j \in Comparators : comp[j].pc = "compare" => comp[j].epoch \in Epochs
      BY <1>type DEF HoldsEpoch
    <2> QED
      BY <2>1, <2>2, <2>3, <2>4, <2>5, <2>6 DEF WholeInv, Comparing, TypeInv, StoreInv
  <1>5. ASSUME NEW k \in Comparators, Finalize(k) PROVE WholeInv'
    <2>1. comp[k].epoch \in Epochs /\ runs[comp[k].epoch].pages = Chunks
      BY <1>5, <1>type DEF Finalize, CompAt, WholeInv, HoldsEpoch
    <2>2. row'.processed = row.processed /\ UNCHANGED stored
      BY <1>5, <1>type, ProcessedKept DEF Finalize
    <2>3. \A e \in Epochs : runs'[e].pages = runs[e].pages
      BY <1>5, <1>type DEF Finalize
    <2>4. results' = results \cup {comp[k].epoch}
      BY <1>5 DEF Finalize
    <2>5. \A j \in Comparators : comp'[j] = comp[j] \/ comp'[j].pc \in {"finish", "failrun"}
      BY <1>5, <1>type, CompToMoves DEF Finalize
    <2>6. \A j \in Comparators : comp[j].pc = "compare" => comp[j].epoch \in Epochs
      BY <1>type DEF HoldsEpoch
    <2> QED
      BY <2>1, <2>2, <2>3, <2>4, <2>5, <2>6 DEF WholeInv, Comparing, TypeInv, StoreInv
  <1>6. ASSUME NEW k \in Comparators, FailRun(k) PROVE WholeInv'
    <2>1. UNCHANGED <<row, stored, results>>
      BY <1>6 DEF FailRun
    <2>2. \A e \in Epochs : runs'[e].pages = runs[e].pages
      BY <1>6, <1>type DEF FailRun
    <2>3. \A j \in Comparators : comp'[j] = comp[j] \/ comp'[j].pc = "failjob"
      BY <1>6, <1>type DEF FailRun, CompTo
    <2>4. \A j \in Comparators : comp[j].pc = "compare" => comp[j].epoch \in Epochs
      BY <1>type DEF HoldsEpoch
    <2> QED
      BY <2>1, <2>2, <2>3, <2>4 DEF WholeInv, Comparing, TypeInv, StoreInv
  <1>7. ASSUME NEW k \in Comparators,
               \/ StartCompare(k) \/ CompareRaises(k) \/ ClaimRaises(k)
               \/ FailComparedJob(k) \/ FinishCompare(k)
        PROVE  WholeInv'
    <2>1. row'.processed = row.processed /\ UNCHANGED <<stored, runs, results>>
      BY <1>7, <1>type, ProcessedKept
      DEF StartCompare, CompareRaises, ClaimRaises, FailComparedJob, FinishCompare, dbVars
    <2>2. \A j \in Comparators :
            comp'[j] = comp[j] \/ comp'[j].pc \in {"claim", "failjob", "failrun",
                                                   "finish", "idle"}
      <3>1. ASSUME NEW pc \in {"claim", "failjob", "failrun", "finish"}, CompTo(k, pc)
            PROVE  \A j \in Comparators : comp'[j] = comp[j] \/ comp'[j].pc = pc
        BY <3>1, <1>type, CompToMoves
      <3>2. CASE FinishCompare(k)
        BY <3>2, <1>type DEF FinishCompare, IdleCompare
      <3>3. ASSUME ~FinishCompare(k)
            PROVE  \E pc \in {"claim", "failjob", "failrun", "finish"} : CompTo(k, pc)
        BY <1>7, <3>3 DEF StartCompare, CompareRaises, ClaimRaises, FailComparedJob
      <3> QED
        BY <3>1, <3>2, <3>3
    <2> QED
      BY <2>1, <2>2 DEF WholeInv, Comparing
  <1>8. ASSUME NEW w \in Workers, RecoverRuns(w) PROVE WholeInv'
    <2>1. UNCHANGED <<row, stored, results, comp>>
      BY <1>8 DEF RecoverRuns, taskVars
    <2>2. \A e \in Epochs : runs'[e].pages = runs[e].pages
      BY <1>8, <1>type DEF RecoverRuns
    <2>3. \A j \in Comparators : comp[j].pc = "compare" => comp[j].epoch \in Epochs
      BY <1>type DEF HoldsEpoch
    <2> QED
      BY <2>1, <2>2, <2>3 DEF WholeInv, Comparing, TypeInv, StoreInv
  <1>9. ASSUME NEW w \in Workers, Crash(w) PROVE WholeInv'
    <2>1. UNCHANGED <<row, stored, runs, results>>
      BY <1>9 DEF Crash, dbVars
    <2>2. \A j \in Comparators : comp'[j] = comp[j] \/ comp'[j].pc = "idle"
      BY <1>9, <1>type DEF Crash, IdleCompare
    <2> QED
      BY <2>1, <2>2 DEF WholeInv, Comparing
  <1>10. ASSUME UNCHANGED <<stored, runs, results, comp>>, row'.processed <= row.processed,
                row'.processed \in Nat
         PROVE  WholeInv'
    BY <1>10, <1>type DEF WholeInv, Comparing, Row
  <1>11. ASSUME NEW w \in Workers,
                \/ \E c \in Chunks : Fetch(w, c)
                \/ CheckJob(w) \/ LookupChunk(w) \/ Report(w) \/ Ack(w)
                \/ CheckFailed(w) \/ FailJob(w) \/ ProcessRaises(w) \/ ConsumerDies(w)
                \/ RecoverJobs(w) \/ RecoverReady(w)
         PROVE  WholeInv'
    <2>1. row'.processed = row.processed
      BY <1>11, <1>type, ProcessedKept
      DEF Fetch, CheckJob, LookupChunk, Report, Ack, CheckFailed, FailJob, ProcessRaises,
          ConsumerDies, RecoverJobs, RecoverReady, dbVars
    <2>2. UNCHANGED <<stored, runs, results, comp>>
      BY <1>11
      DEF Fetch, CheckJob, LookupChunk, Report, Ack, CheckFailed, FailJob, ProcessRaises,
          ConsumerDies, RecoverJobs, RecoverReady, dbVars, taskVars
    <2> QED
      BY <2>1, <2>2, <1>10, <1>type DEF Row
  <1>12. ASSUME Environment PROVE WholeInv'
    <2>1. row'.processed \in {0, row.processed}
      BY <1>12, <1>type, ProcessedKept
      DEF Environment, RegisterJob, CancelJob, LeaseExpires, CompleteCancelled,
          StartDelete, EndDelete, Row
    <2>2. UNCHANGED <<stored, runs, results, comp>>
      BY <1>12 DEF Environment, RegisterJob, CancelJob, LeaseExpires, CompleteCancelled,
                   StartDelete, EndDelete, taskVars
    <2> QED
      BY <2>1, <2>2, <1>10, <1>type DEF Row
  <1>13. ASSUME UNCHANGED vars PROVE WholeInv'
    BY <1>13 DEF vars, dbVars, taskVars, WholeInv, Comparing
  <1>14. ASSUME NEW k \in Comparators, FailureRaises(k) PROVE WholeInv'
    <2>1. row'.processed = row.processed /\ UNCHANGED <<stored, results>>
      BY <1>14, <1>type, ProcessedKept DEF FailureRaises
    <2>2. \A e \in Epochs : runs'[e].pages = runs[e].pages
      <3>1. runs' = runs \/ runs' = [runs EXCEPT ![comp[k].epoch].status = "failed"]
        BY <1>14 DEF FailureRaises
      <3>2. CASE runs' = runs
        BY <3>2
      <3>3. CASE runs' = [runs EXCEPT ![comp[k].epoch].status = "failed"]
        BY <3>3, <1>type
      <3> QED
        BY <3>1, <3>2, <3>3
    <2>3. \A j \in Comparators : comp'[j] = comp[j] \/ comp'[j].pc = "finish"
      <3>1. CompTo(k, "finish")
        BY <1>14 DEF FailureRaises
      <3> QED
        BY <3>1, <1>type, CompToMoves
    <2>4. \A j \in Comparators : comp[j].pc = "compare" => comp[j].epoch \in Epochs
      BY <1>type DEF HoldsEpoch
    <2> QED
      BY <2>1, <2>2, <2>3, <2>4 DEF WholeInv, Comparing, TypeInv, StoreInv
  <1> QED
    BY <1>1, <1>2, <1>3, <1>4, <1>5, <1>6, <1>7, <1>8, <1>9, <1>11, <1>12, <1>13, <1>14
    DEF Next, TaskStep, Restart, IntakeStep, CompareStep

\* No comparison works on less than the whole document, and no result rests on less.
THEOREM WholeDocumentCorrect == Spec => []ComparesWholeDocument
  <1>1. WholeInv => ComparesWholeDocument
    BY DEF WholeInv, ComparesWholeDocument
  <1> QED
    BY <1>1, InitWholeInv, NextWholeInv, TypeInvHolds, PTL DEF Spec

-----------------------------------------------------------------------------
(* CompletedHasResult, TerminalNeverReopened: the statements on the row *)

\* The statements the steps issue, and where.
RowStep ==
    \/ row' = row
    \/ \E total \in {0, TotalChunks}, status \in RegisterStatuses :
            row' = EnsureJob(row, total, status)
    \/ \E w \in Workers : SavePair(w) /\ Exists(row)
    \/ row' \in {MarkFailed(row), CompleteCancel(row), BeginDelete(row), FinishDelete(row)}
    \/ Exists(row) /\ row' = RequestCancel(row)
    \/ row' = [row EXCEPT !.lease = "expired"]
    \/ \E own \in BOOLEAN : row' = Recovered(row, own)
    \/ \E k \in Comparators : Claimable(row) /\ row' = Claim(row, WorkerOf(k))
    \/ \E k \in Comparators : Finalize(k)

LEMMA RowSteps == [Next]_vars => RowStep
  <1> SUFFICES ASSUME [Next]_vars PROVE RowStep
    OBVIOUS
  <1>1. ASSUME NEW w \in Workers,
               \/ Restart(w) \/ Crash(w)
               \/ IntakeStep(w) \/ ProcessRaises(w) \/ ConsumerDies(w)
        PROVE  RowStep
    <2>1. CASE SavePair(w)
      BY <2>1 DEF SavePair, RowStep
    <2>2. CASE FailJob(w)
      BY <2>2 DEF FailJob, RowStep
    <2>3. CASE RecoverJobs(w)
      BY <2>3 DEF RecoverJobs, IsOwn, RowStep
    <2>4. ASSUME ~SavePair(w), ~FailJob(w), ~RecoverJobs(w) PROVE row' = row
      BY <1>1, <2>4
      DEF Restart, RecoverRuns, RecoverReady, Crash, IntakeStep, Fetch, CheckJob,
          LookupChunk, Report, Ack, CheckFailed, ProcessRaises, ConsumerDies, dbVars
    <2> QED
      BY <2>1, <2>2, <2>3, <2>4 DEF RowStep
  <1>2. ASSUME NEW k \in Comparators, TaskStep(k)
        PROVE  RowStep
    <2>1. CASE TryClaim(k)
      BY <2>1 DEF TryClaim, RowStep
    <2>2. CASE Finalize(k)
      BY <2>2 DEF RowStep
    <2>3. CASE FailComparedJob(k)
      BY <2>3 DEF FailComparedJob, RowStep
    <2>4. CASE ClaimRaises(k)
      BY <2>4 DEF ClaimRaises, RowStep
    <2>5. CASE FailureRaises(k)
      BY <2>5 DEF FailureRaises, RowStep
    <2>6. ASSUME ~TryClaim(k), ~Finalize(k), ~FailComparedJob(k), ~ClaimRaises(k),
                 ~FailureRaises(k)
          PROVE  row' = row
      BY <1>2, <2>6
      DEF TaskStep, StartCompare, CompareStep, LoadDocuments, CreateRun, FailRun,
          FinishCompare, CompareRaises, dbVars
    <2> QED
      BY <2>1, <2>2, <2>3, <2>4, <2>5, <2>6 DEF RowStep
  <1>3. ASSUME Environment PROVE RowStep
    BY <1>3 DEF Environment, RegisterJob, CancelJob, LeaseExpires, CompleteCancelled,
                StartDelete, EndDelete, RowStep
  <1>4. CASE UNCHANGED vars
    BY <1>4 DEF vars, dbVars, RowStep
  <1> QED
    BY <1>1, <1>2, <1>3, <1>4 DEF Next, TaskStep

\* Results are only added.
LEMMA ResultsGrow == [Next]_vars => results \subseteq results'
  <1> SUFFICES ASSUME [Next]_vars PROVE results \subseteq results'
    OBVIOUS
  <1>1. ASSUME NEW w \in Workers,
               \/ Restart(w) \/ Crash(w)
               \/ IntakeStep(w) \/ ProcessRaises(w) \/ ConsumerDies(w)
        PROVE  results' = results
    BY <1>1
    DEF Restart, RecoverRuns, RecoverJobs, RecoverReady, Crash, IntakeStep, Fetch,
        CheckJob, LookupChunk, SavePair, Report, Ack, CheckFailed, FailJob,
        ProcessRaises, ConsumerDies, dbVars
  <1>2. ASSUME NEW k \in Comparators, TaskStep(k)
        PROVE  results \subseteq results'
    BY <1>2
    DEF TaskStep, StartCompare, CompareStep, TryClaim, LoadDocuments, CreateRun, Finalize,
        FailRun, FailComparedJob, FinishCompare, CompareRaises, ClaimRaises,
        FailureRaises, dbVars
  <1>3. ASSUME Environment PROVE results' = results
    BY <1>3 DEF Environment, RegisterJob, CancelJob, LeaseExpires, CompleteCancelled,
                StartDelete, EndDelete
  <1>4. CASE UNCHANGED vars
    BY <1>4 DEF vars, dbVars
  <1> QED
    BY <1>1, <1>2, <1>3, <1>4 DEF Next, TaskStep

\* Nothing but finalize_comparison completes a job.
LEMMA OnlyFinalizeCompletes ==
    ASSUME TypeInv, RowStep, row'.status = "completed"
    PROVE  row.status = "completed" \/ \E k \in Comparators : Finalize(k)
  <1> row \in Row
    BY DEF TypeInv, RowInv
  <1>1. ASSUME NEW total \in {0, TotalChunks}, NEW status \in RegisterStatuses,
               row' = EnsureJob(row, total, status)
        PROVE  row.status = "completed"
    <2>1. status # "completed"
      BY PipelineAssumption DEF EarlyStatuses
    <2> QED
      BY <1>1, <2>1 DEF EnsureJob, UpdateJob, UpsertStatus, NoRow, Row
  <1>2. ASSUME NEW w \in Workers, SavePair(w), Exists(row) PROVE row.status = "completed"
    <2> DEFINE u == UpdateJob(row, TotalChunks, "processing")
    <2>1. u.status = "completed" => row.status = "completed"
      BY DEF UpdateJob, UpsertStatus, Row
    <2>2. u \in Row
      BY UpdateJobType, EarlyAreStatuses, PipelineAssumption
    <2>3. PICK n : row' = SavedPair(row, n, TotalChunks)
      BY <1>2 DEF SavePair
    <2> QED
      BY <2>1, <2>2, <2>3 DEF SavedPair, Row
  <1>3. CASE row' \in {MarkFailed(row), RequestCancel(row), CompleteCancel(row),
                       BeginDelete(row), FinishDelete(row)}
    BY <1>3 DEF MarkFailed, RequestCancel, CompleteCancel, TransitionJob, BeginDelete,
                FinishDelete, Row
  <1>4. CASE \/ row' = [row EXCEPT !.lease = "expired"]
             \/ \E own \in BOOLEAN : row' = Recovered(row, own)
    BY <1>4 DEF Recovered, Row
  <1>5. ASSUME NEW k \in Comparators, row' = Claim(row, WorkerOf(k)) PROVE FALSE
    BY <1>5 DEF Claim, Row
  <1> QED
    BY <1>1, <1>2, <1>3, <1>4, <1>5 DEF RowStep

\* Whoever reads status 'completed' finds a stored result.
THEOREM CompletedCorrect == Spec => []CompletedHasResult
  <1>1. Init => CompletedHasResult
    BY DEF Init, NoRow, Absent, CompletedHasResult
  <1>2. TypeInv /\ CompletedHasResult /\ [Next]_vars => CompletedHasResult'
    <2> SUFFICES ASSUME TypeInv, CompletedHasResult, [Next]_vars, row'.status = "completed"
                 PROVE  results' # {}
      BY DEF CompletedHasResult
    <2>1. CASE row.status = "completed"
      BY <2>1, ResultsGrow DEF CompletedHasResult
    <2>2. ASSUME NEW k \in Comparators, Finalize(k) PROVE results' # {}
      BY <2>2 DEF Finalize
    <2> QED
      BY <2>1, <2>2, RowSteps, OnlyFinalizeCompletes
  <1> QED
    BY <1>1, <1>2, TypeInvHolds, PTL DEF Spec

\* A job in a terminal status stays in one or is deleted.
THEOREM TerminalCorrect == Spec => TerminalNeverReopened
  <1> DEFINE Kept == row.status \in TERMINAL_STATUSES =>
                        row'.status \in TERMINAL_STATUSES \cup {"deleting"}
  <1>1. TypeInv /\ [Next]_vars => Kept
    <2> SUFFICES ASSUME TypeInv, [Next]_vars, row.status \in TERMINAL_STATUSES
                 PROVE  row'.status \in TERMINAL_STATUSES \cup {"deleting"}
      OBVIOUS
    <2> USE DEF TERMINAL_STATUSES
    <2>r. row \in Row
      BY DEF TypeInv, RowInv
    <2>1. ASSUME NEW total \in {0, TotalChunks}, NEW status \in RegisterStatuses,
                 row' = EnsureJob(row, total, status)
          PROVE  row'.status \in TERMINAL_STATUSES
      BY <2>1, <2>r, PipelineAssumption
      DEF EnsureJob, Exists, Absent, UpdateJob, UpsertStatus, UpsertKeeps, EarlyStatuses, Row
    <2>2. ASSUME NEW w \in Workers, SavePair(w), Exists(row)
          PROVE  row'.status \in TERMINAL_STATUSES
      <3> DEFINE u == UpdateJob(row, TotalChunks, "processing")
      <3>1. u \in Row /\ u.status = row.status
        BY <2>r, UpdateJobType, EarlyAreStatuses, PipelineAssumption
        DEF UpdateJob, UpsertStatus, UpsertKeeps, EarlyStatuses, Row
      <3>2. PICK n : row' = SavedPair(row, n, TotalChunks)
        BY <2>2 DEF SavePair
      <3> QED
        BY <3>1, <3>2 DEF SavedPair, SaveKeeps, Row
    <2>3. CASE row' \in {MarkFailed(row), RequestCancel(row), CompleteCancel(row),
                         BeginDelete(row), FinishDelete(row)}
      BY <2>3, <2>r DEF MarkFailed, RequestCancel, ClosedStatuses, CompleteCancel,
                        TransitionJob, BeginDelete, FinishDelete, Row
    <2>4. CASE \/ row' = [row EXCEPT !.lease = "expired"]
               \/ \E own \in BOOLEAN : row' = Recovered(row, own)
      BY <2>4, <2>r DEF Recovered, Row
    <2>5. ASSUME Claimable(row) PROVE FALSE
      BY <2>5 DEF Claimable, ClosedStatuses
    <2>6. ASSUME NEW k \in Comparators, Finalize(k) PROVE row'.status \in TERMINAL_STATUSES
      BY <2>6, <2>r DEF Finalize, Completed, Row
    <2> QED
      BY <2>1, <2>2, <2>3, <2>4, <2>5, <2>6, RowSteps DEF RowStep
  <1> QED
    BY <1>1, TypeInvHolds, PTL DEF Spec, TerminalNeverReopened

-----------------------------------------------------------------------------
(* CancelPreventsComparison *)

\* A task only gets to work on a claim, and a cancelled job is not claimed.
LEMMA ComparingNeedsClaim ==
    ASSUME TypeInv, [Next]_vars, NEW j \in Comparators, Comparing(j)'
    PROVE  Comparing(j) \/ ~row.cancel
  <1>type. comp \in [Comparators -> CompareRecord]
    BY DEF TypeInv, CompInv
  <1>1. ASSUME NEW k \in Comparators, TryClaim(k) PROVE Comparing(j) \/ ~row.cancel
    <2>1. CASE Claimable(row)
      BY <2>1 DEF Claimable
    <2>2. CASE ~Claimable(row)
      <3>1. comp'[j] = comp[j] \/ comp'[j].pc = "finish"
        BY <1>1, <2>2, <1>type, CompToMoves DEF TryClaim
      <3> QED
        BY <3>1 DEF Comparing
    <2> QED
      BY <2>1, <2>2
  <1>2. ASSUME NEW k \in Comparators, LoadDocuments(k) \/ CreateRun(k) PROVE Comparing(j)
    <2>1. comp'[j] = comp[j] \/ j = k
      BY <1>2, <1>type DEF LoadDocuments, CreateRun, CompTo
    <2> QED
      BY <1>2, <2>1 DEF LoadDocuments, CreateRun, CompAt, Comparing
  <1>3. ASSUME NEW k \in Comparators,
               \/ StartCompare(k) \/ Finalize(k) \/ FailRun(k)
               \/ FailComparedJob(k) \/ CompareRaises(k)
               \/ ClaimRaises(k) \/ FailureRaises(k)
        PROVE  Comparing(j)
    <2>1. ASSUME NEW pc \in {"claim", "failjob", "failrun", "finish"}, CompTo(k, pc)
          PROVE  comp'[j] = comp[j] \/ comp'[j].pc = pc
      BY <2>1, <1>type, CompToMoves
    <2>2. \E pc \in {"claim", "failjob", "failrun", "finish"} : CompTo(k, pc)
      BY <1>3 DEF StartCompare, Finalize, FailRun, FailComparedJob, CompareRaises,
                  ClaimRaises, FailureRaises
    <2> QED
      BY <2>1, <2>2 DEF Comparing
  <1>4. ASSUME NEW k \in Comparators, FinishCompare(k) PROVE Comparing(j)
    BY <1>4, <1>type DEF FinishCompare, IdleCompare, Comparing
  <1>5. ASSUME NEW w \in Workers, Crash(w) PROVE Comparing(j)
    BY <1>5, <1>type DEF Crash, IdleCompare, Comparing
  <1>6. ASSUME NEW w \in Workers,
               Restart(w) \/ IntakeStep(w) \/ ProcessRaises(w) \/ ConsumerDies(w)
        PROVE  Comparing(j)
    <2>1. UNCHANGED comp
      BY <1>6
      DEF Restart, RecoverRuns, RecoverJobs, RecoverReady, IntakeStep, Fetch, CheckJob,
          LookupChunk, SavePair, Report, Ack, CheckFailed, FailJob, ProcessRaises,
          ConsumerDies, taskVars
    <2> QED
      BY <2>1 DEF Comparing
  <1>7. ASSUME Environment \/ UNCHANGED vars PROVE Comparing(j)
    <2>1. UNCHANGED comp
      BY <1>7 DEF Environment, RegisterJob, CancelJob, LeaseExpires, CompleteCancelled,
                  StartDelete, EndDelete, taskVars, vars
    <2> QED
      BY <2>1 DEF Comparing
  <1> QED
    BY <1>1, <1>2, <1>3, <1>4, <1>5, <1>6, <1>7 DEF Next, CompareStep

\* No statement takes the request back.
CancelKept(r, q) == r.cancel => q.cancel

LEMMA StatementsKeepCancel ==
    ASSUME TypeInv, row.cancel => Exists(row), RowStep
    PROVE  CancelKept(row, row') /\ (row'.cancel => Exists(row'))
  <1> USE DEF CancelKept, Exists, Absent
  <1>type. row \in Row
    BY DEF TypeInv, RowInv
  <1>1. ASSUME NEW total \in {0, TotalChunks}, NEW status \in RegisterStatuses,
               row' = EnsureJob(row, total, status)
        PROVE  CancelKept(row, row') /\ (row'.cancel => Exists(row'))
    <2>1. status # Absent
      BY PipelineAssumption DEF EarlyStatuses
    <2> QED
      BY <1>1, <1>type, <2>1 DEF EnsureJob, UpdateJob, UpsertStatus, NoRow, Row
  <1>2. ASSUME NEW w \in Workers, SavePair(w), Exists(row)
        PROVE  CancelKept(row, row') /\ Exists(row')
    <2>1. PICK n : row' = SavedPair(row, n, TotalChunks)
      BY <1>2 DEF SavePair
    <2> DEFINE u == UpdateJob(row, TotalChunks, "processing")
    <2>2. u \in Row /\ u.cancel = row.cancel /\ u.status # Absent
      BY <1>2, <1>type, UpdateJobType, EarlyAreStatuses, PipelineAssumption
      DEF UpdateJob, UpsertStatus, Row
    <2>3. row'.cancel = u.cancel /\ row'.status \in {u.status, "ocr_ready", "processing"}
      BY <2>1, <2>2 DEF SavedPair, Row
    <2> QED
      BY <2>2, <2>3
  <1>3. CASE \/ row' \in {MarkFailed(row), CompleteCancel(row), BeginDelete(row),
                          FinishDelete(row)}
             \/ Exists(row) /\ row' = RequestCancel(row)
    <2>1. CASE row' = MarkFailed(row)
      BY <2>1, <1>type DEF MarkFailed, Row
    <2>2. CASE row' = CompleteCancel(row)
      BY <2>2, <1>type DEF CompleteCancel, TransitionJob, Row
    <2>3. CASE row' = BeginDelete(row) \/ row' = FinishDelete(row)
      BY <2>3, <1>type DEF BeginDelete, FinishDelete, Row
    <2>4. CASE Exists(row) /\ row' = RequestCancel(row)
      BY <2>4, <1>type DEF RequestCancel, Row
    <2> QED
      BY <1>3, <2>1, <2>2, <2>3, <2>4
  <1>4. CASE \/ row' = row \/ row' = [row EXCEPT !.lease = "expired"]
             \/ \E own \in BOOLEAN : row' = Recovered(row, own)
    BY <1>4, <1>type DEF Recovered, Row
  <1>5. ASSUME NEW k \in Comparators, row' = Claim(row, WorkerOf(k))
        PROVE  CancelKept(row, row') /\ Exists(row')
    BY <1>5, <1>type DEF Claim, Row
  <1>6. ASSUME NEW k \in Comparators, Finalize(k)
        PROVE  CancelKept(row, row') /\ (row'.cancel => Exists(row'))
    BY <1>6, <1>type DEF Finalize, Completed, Row
  <1> QED
    BY <1>1, <1>2, <1>3, <1>4, <1>5, <1>6 DEF RowStep

\* A result, like the status, comes from finalize_comparison.
LEMMA OnlyFinalizeStores ==
    ASSUME [Next]_vars, \A k \in Comparators : ~Finalize(k)
    PROVE  results' = results
  <1>1. ASSUME NEW w \in Workers,
               \/ Restart(w) \/ Crash(w)
               \/ IntakeStep(w) \/ ProcessRaises(w) \/ ConsumerDies(w)
        PROVE  results' = results
    BY <1>1
    DEF Restart, RecoverRuns, RecoverJobs, RecoverReady, Crash, IntakeStep, Fetch,
        CheckJob, LookupChunk, SavePair, Report, Ack, CheckFailed, FailJob,
        ProcessRaises, ConsumerDies, dbVars
  <1>2. ASSUME NEW k \in Comparators, TaskStep(k)
        PROVE  results' = results
    BY <1>2
    DEF TaskStep, StartCompare, CompareStep, TryClaim, LoadDocuments, CreateRun,
        FailRun, FailComparedJob, FinishCompare, CompareRaises, ClaimRaises,
        FailureRaises, dbVars
  <1>3. ASSUME Environment PROVE results' = results
    BY <1>3 DEF Environment, RegisterJob, CancelJob, LeaseExpires, CompleteCancelled,
                StartDelete, EndDelete
  <1>4. CASE UNCHANGED vars
    BY <1>4 DEF vars, dbVars
  <1> QED
    BY <1>1, <1>2, <1>3, <1>4 DEF Next, TaskStep

\* A cancellation that finds no comparison under way is for good.
THEOREM CancelCorrect == Spec => CancelPreventsComparison
  <1> DEFINE Kept == CancelledInTime =>
                        /\ CancelledInTime'
                        /\ results' = results
                        /\ row'.status = "completed" => row.status = "completed"
             HasRow == row.cancel => Exists(row)
  <1>1. Init => HasRow
    BY DEF Init, NoRow
  <1>2. TypeInv /\ HasRow /\ [Next]_vars => HasRow'
    BY RowSteps, StatementsKeepCancel DEF Exists
  <1>3. TypeInv /\ HasRow /\ [Next]_vars => Kept
    <2> SUFFICES ASSUME TypeInv, HasRow, [Next]_vars, CancelledInTime
                 PROVE  /\ CancelledInTime'
                        /\ results' = results
                        /\ row'.status = "completed" => row.status = "completed"
      OBVIOUS
    <2>1. RowStep
      BY RowSteps
    <2>2. row'.cancel
      BY <2>1, StatementsKeepCancel DEF CancelKept, CancelledInTime
    <2>3. \A k \in Comparators : ~Comparing(k)'
      BY ComparingNeedsClaim DEF CancelledInTime
    <2>4. \A k \in Comparators : ~Finalize(k)
      BY DEF CancelledInTime, Finalize, CompAt, Comparing
    <2> QED
      BY <2>1, <2>2, <2>3, <2>4, OnlyFinalizeStores, OnlyFinalizeCompletes
      DEF CancelledInTime
  <1> QED
    BY <1>1, <1>2, <1>3, TypeInvHolds, PTL DEF Spec, CancelPreventsComparison

-----------------------------------------------------------------------------
(* ReadyNotUndone *)

\* A stored document has a row; no statement writes 'classifying' or
\* 'finalizing'; and 'cancel_requested' comes with its timestamp.  Then any status
\* that an upsert would overwrite is an early one already.
ReadyInv ==
    /\ Exists(row) \/ stored = {}
    /\ row.status \notin {"classifying", "finalizing"}
    /\ row.cancel \/ row.status # "cancel_requested"
    /\ stored = Chunks /\ ~row.cancel => row.status \notin EarlyStatuses

\* What a statement may do to the status and the timestamp once all is stored.
KeepsReady(r, q) ==
    /\ Exists(r) => Exists(q)
    /\ q.status \notin {"classifying", "finalizing"}
    /\ q.cancel \/ q.status # "cancel_requested"
    /\ r.cancel => q.cancel \/ ~Exists(r)
    /\ Exists(r) /\ ~q.cancel /\ q.status \in EarlyStatuses => r.status \in EarlyStatuses

LEMMA RegistrationKeepsReady ==
    ASSUME NEW r \in Row,
           r.status \notin {"classifying", "finalizing"},
           r.cancel \/ r.status # "cancel_requested",
           NEW total \in {0, TotalChunks}, NEW status \in RegisterStatuses
    PROVE  KeepsReady(r, EnsureJob(r, total, status))
  BY PipelineAssumption
  DEF EnsureJob, UpdateJob, UpsertStatus, UpsertKeeps, NoRow, Statuses,
      TERMINAL_STATUSES, NON_TERMINAL_STATUSES,
      KeepsReady, Exists, Absent, EarlyStatuses, Row

LEMMA StatementsKeepReady ==
    ASSUME NEW r \in Row,
           r.status \notin {"classifying", "finalizing"},
           r.cancel \/ r.status # "cancel_requested"
    PROVE  /\ \A q \in {MarkFailed(r), RequestCancel(r), CompleteCancel(r),
                        BeginDelete(r), FinishDelete(r), Completed(r)} : KeepsReady(r, q)
           /\ \A own \in BOOLEAN : KeepsReady(r, Recovered(r, own))
           /\ KeepsReady(r, [r EXCEPT !.lease = "expired"])
           /\ Claimable(r) => \A w : KeepsReady(r, Claim(r, w))
  <1> USE DEF KeepsReady, Exists, Absent, EarlyStatuses, Row
  <1>1. /\ KeepsReady(r, MarkFailed(r))
        /\ KeepsReady(r, RequestCancel(r))
        /\ KeepsReady(r, Completed(r))
    BY DEF MarkFailed, RequestCancel, Completed, ClosedStatuses
  <1>2. /\ KeepsReady(r, CompleteCancel(r))
        /\ KeepsReady(r, BeginDelete(r))
        /\ KeepsReady(r, FinishDelete(r))
    BY DEF CompleteCancel, TransitionJob, BeginDelete, FinishDelete
  <1>3. \A own \in BOOLEAN : KeepsReady(r, Recovered(r, own))
    BY DEF Recovered
  <1>4. KeepsReady(r, [r EXCEPT !.lease = "expired"])
    OBVIOUS
  <1>5. Claimable(r) => \A w : KeepsReady(r, Claim(r, w))
    BY DEF Claimable, Claim
  <1> QED
    BY <1>1, <1>2, <1>3, <1>4, <1>5

\* save_ocr_pair: the last chunk makes the job ready, unless it is closed.
LEMMA SavedPairKeepsReady ==
    ASSUME NEW r \in Row, Exists(r), NEW n \in 0..TotalChunks,
           r.status \notin {"classifying", "finalizing"},
           r.cancel \/ r.status # "cancel_requested"
    PROVE  LET q == SavedPair(r, n, TotalChunks)
           IN  /\ Exists(q)
               /\ q.cancel = r.cancel
               /\ q.status \notin {"classifying", "finalizing", "cancel_requested"}
               /\ n = TotalChunks => q.status \notin EarlyStatuses
  <1> DEFINE u == UpdateJob(r, TotalChunks, "processing")
  <1>1. u \in Row /\ u.cancel = r.cancel
    BY UpdateJobType, EarlyAreStatuses, PipelineAssumption DEF UpdateJob, Row
  <1>2. u.status = r.status \/ u.status = "processing"
    BY DEF UpdateJob, UpsertStatus, Row
  <1>3. u.status \in SaveKeeps => u.status = r.status
    BY <1>2 DEF SaveKeeps
  <1>4. /\ SavedPair(r, n, TotalChunks).cancel = r.cancel
        /\ SavedPair(r, n, TotalChunks).status
             = IF u.status \in SaveKeeps THEN u.status
               ELSE IF n >= TotalChunks THEN "ocr_ready" ELSE "processing"
    BY <1>1 DEF SavedPair, Row
  <1> QED
    BY <1>4, PipelineAssumption DEF SaveKeeps, EarlyStatuses, Exists, Absent

LEMMA StoredSteps == [Next]_vars => UNCHANGED stored \/ \E w \in Workers : SavePair(w)
  <1> SUFFICES ASSUME [Next]_vars, \A w \in Workers : ~SavePair(w) PROVE UNCHANGED stored
    OBVIOUS
  <1>1. ASSUME NEW w \in Workers,
               \/ Restart(w) \/ Crash(w)
               \/ IntakeStep(w) \/ ProcessRaises(w) \/ ConsumerDies(w)
        PROVE  UNCHANGED stored
    BY <1>1
    DEF Restart, RecoverRuns, RecoverJobs, RecoverReady, Crash, IntakeStep, Fetch,
        CheckJob, LookupChunk, Report, Ack, CheckFailed, FailJob,
        ProcessRaises, ConsumerDies, dbVars
  <1>2. ASSUME NEW k \in Comparators, TaskStep(k)
        PROVE  UNCHANGED stored
    BY <1>2
    DEF TaskStep, StartCompare, CompareStep, TryClaim, LoadDocuments, CreateRun, Finalize,
        FailRun, FailComparedJob, FinishCompare, CompareRaises, ClaimRaises,
        FailureRaises, dbVars
  <1>3. ASSUME Environment PROVE UNCHANGED stored
    BY <1>3 DEF Environment, RegisterJob, CancelJob, LeaseExpires, CompleteCancelled,
                StartDelete, EndDelete
  <1>4. CASE UNCHANGED vars
    BY <1>4 DEF vars, dbVars
  <1> QED
    BY <1>1, <1>2, <1>3, <1>4 DEF Next, TaskStep

LEMMA NextReadyInv == TypeInv /\ ReadyInv /\ [Next]_vars => ReadyInv'
  <1> SUFFICES ASSUME TypeInv, ReadyInv, [Next]_vars PROVE ReadyInv'
    OBVIOUS
  <1>type. row \in Row /\ stored \in SUBSET Chunks
    BY DEF TypeInv, RowInv, StoreInv
  <1>1. ASSUME NEW w \in Workers, SavePair(w) PROVE ReadyInv'
    <2>1. CASE Exists(row)
      <3> DEFINE both == stored \cup {intake[w].chunk}
      <3>1. both \in SUBSET Chunks
        BY <1>1, <1>type DEF SavePair, IntakeAt, TypeInv, IntakeInv, HoldsChunk
      <3>2. /\ Cardinality(both) \in 0..TotalChunks
            /\ both = Chunks => Cardinality(both) = TotalChunks
        <4>1. Cardinality(Chunks) = TotalChunks
          BY FS_Interval, PipelineAssumption DEF Chunks
        <4> QED
          BY <3>1, <4>1, StoredBound
      <3>3. stored' = both /\ row' = SavedPair(row, Cardinality(both), TotalChunks)
        BY <1>1, <2>1 DEF SavePair
      <3> QED
        BY <2>1, <3>2, <3>3, <1>type, SavedPairKeepsReady DEF ReadyInv
    <2>2. CASE ~Exists(row)
      BY <1>1, <2>2 DEF SavePair, ReadyInv, Exists
    <2> QED
      BY <2>1, <2>2
  <1>2. CASE UNCHANGED stored
    <2>1. KeepsReady(row, row') \/ \E w \in Workers : SavePair(w) /\ Exists(row)
      <3>1. KeepsReady(row, row)
        BY DEF ReadyInv, KeepsReady
      <3>2. \A k \in Comparators : TryClaim(k) /\ Claimable(row) =>
                row' = Claim(row, WorkerOf(k))
        BY DEF TryClaim
      <3>3. \A k \in Comparators : Finalize(k) => row' = Completed(row)
        BY DEF Finalize
      <3>4. ASSUME NEW total \in {0, TotalChunks}, NEW status \in RegisterStatuses
            PROVE  KeepsReady(row, EnsureJob(row, total, status))
        BY <1>type, RegistrationKeepsReady DEF ReadyInv
      <3>5. /\ \A own \in BOOLEAN : KeepsReady(row, Recovered(row, own))
            /\ \A q \in {MarkFailed(row), RequestCancel(row), CompleteCancel(row),
                         BeginDelete(row), FinishDelete(row), Completed(row)} :
                    KeepsReady(row, q)
            /\ KeepsReady(row, [row EXCEPT !.lease = "expired"])
            /\ Claimable(row) => \A w : KeepsReady(row, Claim(row, w))
        BY <1>type, StatementsKeepReady DEF ReadyInv
      <3> QED
        BY RowSteps, <3>1, <3>2, <3>3, <3>4, <3>5 DEF RowStep
    <2>2. CASE KeepsReady(row, row')
      <3>1. stored = Chunks => Exists(row)
        BY PipelineAssumption DEF ReadyInv, Chunks
      <3> QED
        BY <1>2, <2>2, <3>1 DEF ReadyInv, KeepsReady
    <2> QED
      BY <2>1, <2>2, <1>1
  <1> QED
    BY <1>1, <1>2, StoredSteps

\* Once every chunk is stored, a job nobody cancels is not taken back to OCR.
THEOREM ReadyCorrect == Spec => []ReadyNotUndone
  <1>1. Init => ReadyInv
    <2>1. Chunks # {}
      BY PipelineAssumption DEF Chunks
    <2> QED
      BY <2>1 DEF Init, ReadyInv, NoRow, Absent
  <1>2. ReadyInv => ReadyNotUndone
    BY DEF ReadyInv, ReadyNotUndone
  <1> QED
    BY <1>1, <1>2, NextReadyInv, TypeInvHolds, PTL DEF Spec

-----------------------------------------------------------------------------
(* ReadyIsScheduled *)

\* A job that list_ready_jobs would list and that may be claimed.
Waiting(r) == ListedReady(r) /\ ~r.cancel

\* The statuses that follow the last chunk come with its counters.
Full(r) ==
    r.status \in {"ocr_ready", "comparing"} =>
        r.total = TotalChunks /\ r.processed >= TotalChunks

\* Nothing drops a wake-up that it has in its hands.
WakeUpsKept == {"claim_error", "broker_error"} \cap Disturbances = {}

\* The consumer of a worker that fails the job.
GivesUp(i) == i.ready /\ i.pc \in {"error", "fail"}

\* One that hands the job to its scheduler next.
Submits(i) == i.ready /\ i.pc = "report"

\* Who wakes up a waiting job.  A submission counts where the scheduler will take it:
\* while the job is still in flight there, it is dropped.
Wakes ==
    \/ queue # {}
    \/ \E k \in Comparators : comp[k].pc = "claim"
    \/ \E w \in Workers :
          \/ GivesUp(intake[w])
          \/ Submits(intake[w]) /\ w \notin inflight
          \/ node[w] = "starting" /\ w \notin inflight
          \/ node[w] \in {"down", "recovering"}

\* ReadyIsScheduled is not inductive: the last submission must not meet a job in
\* flight.  Nothing is in flight before the document is whole, and after a recovery
\* the worker that recovered the job has no task left.
ScheduledInv ==
    /\ Full(row)
    /\ \A w \in Workers : intake[w].ready \/ w \in inflight => stored = Chunks
    /\ \A w \in Workers : node[w] \in {"down", "recovering"} => w \notin inflight
    /\ Waiting(row) => Wakes

\* A statement that keeps the counters with the status and makes no job wait.
KeepsWaiting(r, q) ==
    /\ Full(q)
    /\ Waiting(q) => Waiting(r)

LEMMA UpdateJobKeepsWaiting ==
    ASSUME NEW r \in Row, Full(r), NEW total \in {0, TotalChunks},
           NEW status \in EarlyStatuses \cup {"failed"}
    PROVE  KeepsWaiting(r, UpdateJob(r, total, status))
  <1>1. status \notin {"ocr_ready", "comparing"}
    BY DEF EarlyStatuses
  <1>2. UpdateJob(r, total, status).status \in {"ocr_ready", "comparing"} =>
            UpdateJob(r, total, status).status = r.status
    BY <1>1 DEF UpdateJob, UpsertStatus, Row
  <1>3. Greatest(TotalChunks, total) = TotalChunks
    BY PipelineAssumption DEF Greatest
  <1> QED
    BY <1>2, <1>3, PipelineAssumption
    DEF KeepsWaiting, Full, Waiting, ListedReady, UpdateJob, Row

LEMMA StatementsKeepWaiting ==
    ASSUME NEW r \in Row, Full(r)
    PROVE  /\ \A total \in {0, TotalChunks}, status \in RegisterStatuses :
                    KeepsWaiting(r, EnsureJob(r, total, status))
           /\ \A q \in {r, MarkFailed(r), RequestCancel(r), CompleteCancel(r),
                        BeginDelete(r), FinishDelete(r), Completed(r),
                        [r EXCEPT !.lease = "expired"]} : KeepsWaiting(r, q)
           /\ \A own \in BOOLEAN : Full(Recovered(r, own))
           /\ Claimable(r) => \A w : KeepsWaiting(r, Claim(r, w))
  <1> USE PipelineAssumption DEF KeepsWaiting, Full, Waiting, ListedReady
  <1>1. ASSUME NEW total \in {0, TotalChunks}, NEW status \in RegisterStatuses
        PROVE  KeepsWaiting(r, EnsureJob(r, total, status))
    <2>1. CASE Exists(r)
      BY <2>1, UpdateJobKeepsWaiting DEF EnsureJob
    <2>2. CASE ~Exists(r)
      BY <2>2 DEF EnsureJob, NoRow, EarlyStatuses
    <2> QED
      BY <2>1, <2>2
  <1>2. KeepsWaiting(r, MarkFailed(r)) /\ KeepsWaiting(r, Completed(r))
    BY DEF MarkFailed, Completed, Row
  <1>3. KeepsWaiting(r, RequestCancel(r)) /\ KeepsWaiting(r, CompleteCancel(r))
    BY DEF RequestCancel, ClosedStatuses, CompleteCancel, TransitionJob, Row
  <1>4. KeepsWaiting(r, BeginDelete(r)) /\ KeepsWaiting(r, FinishDelete(r))
    BY DEF BeginDelete, FinishDelete, Row
  <1>5. KeepsWaiting(r, r) /\ KeepsWaiting(r, [r EXCEPT !.lease = "expired"])
    BY DEF Row
  <1>6. \A own \in BOOLEAN : Full(Recovered(r, own))
    BY DEF Recovered, Row
  <1>7. Claimable(r) => \A w : KeepsWaiting(r, Claim(r, w))
    BY DEF Claimable, Claim, Row
  <1> QED
    BY <1>1, <1>2, <1>3, <1>4, <1>5, <1>6, <1>7

\* save_ocr_pair with fewer than all chunks leaves no job waiting that was not.
LEMMA SavedPairKeepsWaiting ==
    ASSUME NEW r \in Row, Full(r), NEW n \in 0..TotalChunks, r.processed <= n
    PROVE  LET q == SavedPair(r, n, TotalChunks)
           IN  /\ Full(q)
               /\ q.cancel = r.cancel
               /\ Waiting(q) => Waiting(r) \/ n = TotalChunks
               /\ Waiting(q) /\ ~Waiting(r) => r.status \notin SaveKeeps
  <1> DEFINE u == UpdateJob(r, TotalChunks, "processing")
             q == SavedPair(r, n, TotalChunks)
  <1>1. u \in Row /\ u.cancel = r.cancel /\ u.claimed = r.claimed
        /\ u.processed = r.processed /\ u.total = TotalChunks
    <2>1. Greatest(r.total, TotalChunks) = TotalChunks
      BY PipelineAssumption DEF Greatest, Row
    <2> QED
      BY <2>1, UpdateJobType, EarlyAreStatuses, PipelineAssumption DEF UpdateJob, Row
  <1>2. u.status = IF r.status \in UpsertKeeps THEN r.status ELSE "processing"
    BY DEF UpdateJob, UpsertStatus, EarlyStatuses, Row
  <1>3. q.processed = n
    BY SavedPairProcessed
  <1>4. /\ q.cancel = r.cancel
        /\ q.claimed = r.claimed
        /\ q.total = TotalChunks
        /\ q.status = IF u.status \in SaveKeeps THEN u.status
                      ELSE IF n >= TotalChunks THEN "ocr_ready" ELSE "processing"
    BY <1>1 DEF SavedPair, Row
  <1>5. Full(q)
    <2>1. CASE u.status \in SaveKeeps
      BY <1>2, <1>3, <1>4, <2>1, PipelineAssumption DEF Full, SaveKeeps, Row
    <2>2. CASE u.status \notin SaveKeeps
      BY <1>3, <1>4, <2>2, PipelineAssumption DEF Full
    <2> QED
      BY <2>1, <2>2
  <1>6. ASSUME Waiting(q), ~Waiting(r)
        PROVE  n = TotalChunks /\ r.status \notin SaveKeeps
    <2>1. q.status = "ocr_ready" /\ ~r.claimed /\ ~r.cancel
      BY <1>4, <1>6 DEF Waiting, ListedReady
    <2>2. r.status # "ocr_ready"
      BY <1>6, <2>1, PipelineAssumption DEF Waiting, ListedReady, Full, Row
    <2> QED
      BY <1>2, <1>4, <2>1, <2>2, PipelineAssumption DEF SaveKeeps, UpsertKeeps
  <1> QED
    BY <1>4, <1>5, <1>6

\* What a step may do to the tasks without a waiting job losing its wake-up.
LEMMA WakesStay ==
    ASSUME Wakes, UNCHANGED node, queue \subseteq queue', inflight' \subseteq inflight,
           \A k \in Comparators : comp[k].pc = "claim" => comp'[k].pc = "claim",
           \A w \in Workers :
                /\ GivesUp(intake[w]) => GivesUp(intake'[w])
                /\ Submits(intake[w]) => Submits(intake'[w]) \/ GivesUp(intake'[w])
    PROVE  Wakes'
  BY DEF Wakes

\* A worker that submits wakes the job up, or leaves it to whoever does.
LEMMA SubmitWakes ==
    ASSUME Wakes, NEW w \in Workers, Submit(w), UNCHANGED comp,
           node[w] \in {"starting", "up"},
           \A v \in Workers : v # w => intake'[v] = intake[v] /\ node'[v] = node[v],
           ~GivesUp(intake[w])
    PROVE  Wakes'
  <1>1. CASE w \notin inflight
    BY <1>1 DEF Submit, Wakes
  <1>2. CASE w \in inflight
    BY <1>2 DEF Submit, Wakes
  <1> QED
    BY <1>1, <1>2

\* The consumer of one worker moves on, and it alone.
LEMMA OthersStay ==
    ASSUME TypeInv, NEW w \in Workers, NEW pc, IntakeTo(w, pc)
    PROVE  /\ \A v \in Workers : v # w => intake'[v] = intake[v]
           /\ intake'[w].pc = pc
           /\ intake'[w].ready = intake[w].ready
  BY DEF IntakeTo, TypeInv, IntakeInv

\* The parts of ScheduledInv beside the wake-up, by what a step does to their variables.
LEMMA ScheduledParts ==
    ASSUME TypeInv, ScheduledInv, Full(row'), stored = Chunks => stored' = Chunks,
           \A w \in Workers : intake'[w].ready => intake[w].ready \/ stored' = Chunks,
           \A w \in inflight' \ inflight : stored = Chunks /\ node'[w] \in {"starting", "up"},
           \A w \in inflight' : node'[w] = node[w] \/ node'[w] \in {"starting", "up"},
           Waiting(row') => Wakes'
    PROVE  ScheduledInv'
  BY DEF ScheduledInv

\* The consumer's steps without SavePair.
LEMMA IntakeKeepsScheduled ==
    ASSUME WakeUpsKept, TypeInv, ScheduledInv, NEW w \in Workers,
           \/ \E c \in Chunks : Fetch(w, c)
           \/ CheckJob(w) \/ LookupChunk(w) \/ Report(w) \/ Ack(w)
           \/ CheckFailed(w) \/ FailJob(w) \/ ProcessRaises(w) \/ ConsumerDies(w)
    PROVE  ScheduledInv'
  <1> USE DEF IntakeAt, dbVars, nodeVars, GivesUp, Submits
  <1>type. /\ row \in Row
           /\ stored \in SUBSET Chunks
           /\ intake \in [Workers -> IntakeRecord]
           /\ inflight \in SUBSET Workers
    BY DEF TypeInv, RowInv, StoreInv, IntakeInv, HostInv
  <1>inv. /\ Full(row)
          /\ \A v \in Workers : intake[v].ready \/ v \in inflight => stored = Chunks
          /\ Waiting(row) => Wakes
    BY DEF ScheduledInv
  <1>1. ASSUME NEW c \in Chunks, Fetch(w, c) PROVE ScheduledInv'
    <2>1. /\ UNCHANGED <<row, stored, comp, queue, inflight, node>>
          /\ intake' = [intake EXCEPT ![w] = [pc |-> "check", chunk |-> c, ready |-> FALSE]]
          /\ intake[w].pc = "idle"
      BY <1>1 DEF Fetch
    <2>2. \A v \in Workers : intake'[v] = intake[v] \/ ~intake'[v].ready
      BY <2>1, <1>type
    <2>3. Wakes => Wakes'
      BY <2>1, <1>type, WakesStay
    <2> QED
      BY <2>1, <2>2, <2>3, <1>inv, ScheduledParts
  <1>2. CASE CheckJob(w)
    <2>1. PICK pc : IntakeTo(w, pc)
      BY <1>2 DEF CheckJob
    <2>2. UNCHANGED <<row, stored, comp, queue, inflight, node>> /\ intake[w].pc = "check"
      BY <1>2 DEF CheckJob
    <2>3. Wakes => Wakes'
      BY <2>1, <2>2, OthersStay, WakesStay
    <2> QED
      BY <2>1, <2>2, <2>3, <1>inv, OthersStay, ScheduledParts
  <1>3. CASE LookupChunk(w)
    <2>1. UNCHANGED <<row, stored, comp, queue, inflight, node>> /\ intake[w].pc = "lookup"
      BY <1>3 DEF LookupChunk
    <2> DEFINE ready == EnoughStored(Cardinality(stored))
    <2>a. \/ intake' = [intake EXCEPT ![w].pc = "report", ![w].ready = ready]
          \/ IntakeTo(w, "ocr")
      BY <1>3 DEF LookupChunk
    <2>b. ready \in BOOLEAN
      BY DEF EnoughStored
    <2> HIDE DEF ready
    <2>2. \A v \in Workers : v # w => intake'[v] = intake[v]
      BY <2>a, <1>type DEF IntakeTo
    <2>3. intake'[w].ready => intake[w].ready \/ ready
      <3>1. intake'[w].ready = ready \/ intake'[w].ready = intake[w].ready
        <4>1. CASE intake' = [intake EXCEPT ![w].pc = "report", ![w].ready = ready]
          BY <4>1, <1>type, <2>b
        <4>2. CASE IntakeTo(w, "ocr")
          BY <4>2, OthersStay
        <4> QED
          BY <2>a, <4>1, <4>2
      <3> QED
        BY <3>1, Zenon
    <2> USE DEF ready
    <2>4. EnoughStored(Cardinality(stored)) => stored = Chunks
      BY <1>type, AllStored DEF EnoughStored
    <2>5. Wakes => Wakes'
      BY <2>1, <2>2, WakesStay
    <2> QED
      BY <2>1, <2>2, <2>3, <2>4, <2>5, <1>inv, ScheduledParts
  <1>4. CASE Report(w)
    <2>1. /\ UNCHANGED <<row, stored, comp, node>>
          /\ IntakeTo(w, "ack")
          /\ intake[w].pc = "report"
          /\ node[w] \in {"starting", "up"}
      BY <1>4 DEF Report, Running
    <2>2. CASE intake[w].ready
      <3>1. Submit(w)
        BY <1>4, <2>2 DEF Report
      <3>2. Wakes => Wakes'
        BY <2>1, <3>1, OthersStay, SubmitWakes
      <3>3. inflight' = inflight \cup {w}
        BY <3>1 DEF Submit
      <3> QED
        BY <2>1, <2>2, <3>2, <3>3, <1>inv, OthersStay, ScheduledParts
    <2>3. CASE ~intake[w].ready
      <3>1. UNCHANGED <<queue, inflight>>
        BY <1>4, <2>3 DEF Report, NoSubmit
      <3>2. Wakes => Wakes'
        BY <2>1, <2>3, <3>1, OthersStay, WakesStay
      <3> QED
        BY <2>1, <3>1, <3>2, <1>inv, OthersStay, ScheduledParts
    <2> QED
      BY <2>2, <2>3
  <1>5. CASE Ack(w)
    <2>1. /\ UNCHANGED <<row, stored, comp, queue, inflight, node>>
          /\ intake' = [intake EXCEPT ![w] = IdleIntake]
          /\ intake[w].pc = "ack"
      BY <1>5 DEF Ack
    <2>2. \A v \in Workers : intake'[v] = intake[v] \/ ~intake'[v].ready
      BY <2>1, <1>type DEF IdleIntake
    <2>3. Wakes => Wakes'
      BY <2>1, <1>type, WakesStay
    <2> QED
      BY <2>1, <2>2, <2>3, <1>inv, ScheduledParts
  <1>6. CASE CheckFailed(w)
    <2>1. UNCHANGED <<row, stored, comp, queue, inflight, node>> /\ intake[w].pc = "error"
      BY <1>6 DEF CheckFailed
    <2>2. PICK pc : IntakeTo(w, pc) /\ (row.status \notin SkippedStatuses => pc = "fail")
      BY <1>6 DEF CheckFailed
    <2>3. Waiting(row) => row.status \notin SkippedStatuses
      BY DEF Waiting, ListedReady, SkippedStatuses, ClosedStatuses
    <2>4. Waiting(row) /\ Wakes => Wakes'
      BY <2>1, <2>2, <2>3, OthersStay, WakesStay
    <2> QED
      BY <2>1, <2>2, <2>4, <1>inv, OthersStay, ScheduledParts
  <1>7. CASE FailJob(w)
    <2>1. /\ UNCHANGED <<stored, inflight, node>>
          /\ row' = MarkFailed(row)
          /\ IntakeTo(w, "ack")
      BY <1>7 DEF FailJob
    <2>2. ~Waiting(row') /\ Full(row')
      BY <2>1, <1>type DEF MarkFailed, Exists, Absent, Waiting, ListedReady, Full, Row
    <2> QED
      BY <2>1, <2>2, <1>inv, OthersStay, ScheduledParts
  <1>8. CASE ProcessRaises(w)
    <2>1. /\ UNCHANGED <<row, stored, comp, queue, inflight, node>>
          /\ IntakeTo(w, "error")
          /\ intake[w].pc \in {"check", "lookup", "ocr", "report"}
      BY <1>8 DEF ProcessRaises
    <2>2. Wakes => Wakes'
      BY <2>1, OthersStay, WakesStay
    <2> QED
      BY <2>1, <2>2, <1>inv, OthersStay, ScheduledParts
  <1>9. CASE ConsumerDies(w)
    BY <1>9 DEF ConsumerDies, WakeUpsKept
  <1> QED
    BY <1>1, <1>2, <1>3, <1>4, <1>5, <1>6, <1>7, <1>8, <1>9

\* The last chunk is stored by a consumer that submits the job next, and the scheduler
\* takes it: before, nothing was in flight.
LEMMA SavePairKeepsScheduled ==
    ASSUME TypeInv, WholeInv, ReadyInv, ScheduledInv, NEW w \in Workers, SavePair(w)
    PROVE  ScheduledInv'
  <1> USE DEF IntakeAt, GivesUp, Submits
  <1>type. /\ row \in Row
           /\ stored \in SUBSET Chunks
           /\ intake \in [Workers -> IntakeRecord]
           /\ inflight \in SUBSET Workers
    BY DEF TypeInv, RowInv, StoreInv, IntakeInv, HostInv
  <1>inv. /\ Full(row)
          /\ \A v \in Workers : intake[v].ready \/ v \in inflight => stored = Chunks
          /\ Waiting(row) => Wakes
    BY DEF ScheduledInv
  <1>same. UNCHANGED <<comp, queue, inflight, node>> /\ intake[w].pc = "ocr"
    BY DEF SavePair, nodeVars
  <1>1. CASE Exists(row)
    <2> DEFINE both == stored \cup {intake[w].chunk}
               n    == Cardinality(both)
    <2>1. intake[w].chunk \in Chunks /\ both \in SUBSET Chunks
      BY <1>type DEF SavePair, TypeInv, IntakeInv, HoldsChunk
    <2>2. n \in 0..TotalChunks /\ row.processed <= n
      BY <1>type, <2>1, StoredBound, StoredGrows DEF WholeInv, Row
    <2>3. /\ stored' = both
          /\ row' = SavedPair(row, n, TotalChunks)
          /\ intake' = [intake EXCEPT ![w].pc = "report", ![w].ready = EnoughStored(n)]
      BY <1>1 DEF SavePair
    <2>4. /\ Full(row')
          /\ row'.cancel = row.cancel
          /\ Waiting(row') => Waiting(row) \/ n = TotalChunks
          /\ Waiting(row') /\ ~Waiting(row) => row.status \notin SaveKeeps
      <3> HIDE DEF n
      <3> QED
        BY <1>type, <1>inv, <2>2, <2>3, SavedPairKeepsWaiting
    <2>5. /\ \A v \in Workers : v # w => intake'[v] = intake[v]
          /\ intake'[w].pc = "report"
          /\ intake'[w].ready = EnoughStored(n)
      BY <2>3, <1>type
    <2>6. EnoughStored(n) => both = Chunks
      BY <2>1, AllStored DEF EnoughStored
    <2>7. CASE Waiting(row)
      <3>1. Wakes'
        BY <1>same, <1>inv, <2>5, <2>7, WakesStay
      <3> QED
        BY <1>same, <1>inv, <2>1, <2>3, <2>4, <2>5, <2>6, <3>1, ScheduledParts
    <2>8. CASE ~Waiting(row)
      <3>1. ASSUME Waiting(row') PROVE Wakes'
        <4>1. n = TotalChunks /\ row.status \notin SaveKeeps /\ ~row.cancel
          BY <2>4, <2>8, <3>1 DEF Waiting
        <4>2. stored # Chunks
          <5>1. row.status \in Statuses
            BY <1>1, <1>type DEF Exists, Row
          <5>2. row.status \in EarlyStatuses
                    \cup {"classifying", "finalizing", "cancel_requested"}
            BY <4>1, <5>1
            DEF SaveKeeps, EarlyStatuses, Statuses, TERMINAL_STATUSES, NON_TERMINAL_STATUSES
          <5> QED
            BY <4>1, <5>2 DEF ReadyInv
        <4>3. w \notin inflight
          BY <1>inv, <4>2
        <4>4. Submits(intake'[w])
          <5>1. EnoughStored(n)
            BY <4>1, PipelineAssumption DEF EnoughStored
          <5> QED
            BY <2>5, <5>1, Zenon
        <4> QED
          BY <1>same, <4>3, <4>4 DEF Wakes
      <3> QED
        BY <1>same, <1>inv, <2>1, <2>3, <2>4, <2>5, <2>6, <3>1, ScheduledParts
    <2> QED
      BY <2>7, <2>8
  <1>2. CASE ~Exists(row)
    <2>1. UNCHANGED <<row, stored>> /\ IntakeTo(w, "error")
      BY <1>2 DEF SavePair
    <2>2. Wakes => Wakes'
      BY <1>same, <2>1, OthersStay, WakesStay
    <2> QED
      BY <1>same, <1>inv, <2>1, <2>2, OthersStay, ScheduledParts
  <1> QED
    BY <1>1, <1>2

\* A comparison task moves on, and it alone.
LEMMA OthersCompareOn ==
    ASSUME TypeInv, NEW k \in Comparators, NEW pc, CompTo(k, pc)
    PROVE  comp'[k].pc = pc /\ \A j \in Comparators : j # k => comp'[j] = comp[j]
  BY DEF CompTo, TypeInv, CompInv

LEMMA CompareKeepsScheduled ==
    ASSUME WakeUpsKept, TypeInv, ScheduledInv, NEW k \in Comparators,
           TaskStep(k)
    PROVE  ScheduledInv'
  <1> USE DEF CompAt, dbVars, nodeVars
  <1>type. row \in Row /\ comp \in [Comparators -> CompareRecord]
    BY DEF TypeInv, RowInv, CompInv
  <1>inv. Full(row) /\ (Waiting(row) => Wakes)
    BY DEF ScheduledInv
  <1>same. UNCHANGED <<stored, intake, node>> /\ inflight' \subseteq inflight
    BY DEF TaskStep, StartCompare, CompareStep, TryClaim, LoadDocuments, CreateRun, Finalize,
           FailRun, FailComparedJob, FinishCompare, CompareRaises, ClaimRaises, FailureRaises
  <1>1. CASE StartCompare(k)
    <2>1. Wakes'
      BY <1>1, OthersCompareOn DEF StartCompare, Wakes
    <2> QED
      BY <1>1, <1>same, <1>inv, <2>1, ScheduledParts DEF StartCompare
  <1>2. CASE TryClaim(k)
    <2>1. CASE Claimable(row)
      <3>1. row' = Claim(row, WorkerOf(k))
        BY <1>2, <2>1 DEF TryClaim
      <3>2. Full(row')
        BY <1>type, <1>inv, <2>1, <3>1, StatementsKeepWaiting DEF KeepsWaiting
      <3>3. ~Waiting(row')
        BY <1>type, <3>1 DEF Claim, Waiting, ListedReady, Row
      <3> QED
        BY <1>same, <3>2, <3>3, ScheduledParts
    <2>2. CASE ~Claimable(row)
      <3>1. ~Waiting(row)
        BY <2>2 DEF Waiting, ListedReady, Claimable, Exists, Absent, ClosedStatuses
      <3>2. row' = row
        BY <1>2, <2>2 DEF TryClaim
      <3> QED
        BY <1>same, <1>inv, <3>1, <3>2, ScheduledParts
    <2> QED
      BY <2>1, <2>2
  <1>3. CASE LoadDocuments(k) \/ CreateRun(k) \/ FailRun(k) \/ CompareRaises(k)
    <2>1. UNCHANGED <<row, queue, inflight>> /\ comp[k].pc # "claim"
      BY <1>3 DEF LoadDocuments, CreateRun, FailRun, CompareRaises
    <2>2. \A j \in Comparators : j # k => comp'[j] = comp[j]
      <3>1. CASE LoadDocuments(k)
        BY <3>1, <1>type DEF LoadDocuments
      <3>2. CASE ~LoadDocuments(k)
        BY <3>2, <1>3, OthersCompareOn DEF CreateRun, FailRun, CompareRaises
      <3> QED
        BY <3>1, <3>2
    <2>3. Wakes => Wakes'
      BY <1>same, <2>1, <2>2, WakesStay
    <2> QED
      BY <1>same, <1>inv, <2>1, <2>3, ScheduledParts
  <1>4. CASE Finalize(k) \/ FailComparedJob(k)
    <2>1. row' \in {Completed(row), MarkFailed(row)}
      BY <1>4 DEF Finalize, FailComparedJob
    <2>2. Full(row')
      BY <1>type, <1>inv, <2>1, StatementsKeepWaiting DEF KeepsWaiting
    <2>3. ~Waiting(row')
      BY <1>type, <2>1
      DEF Completed, MarkFailed, Exists, Absent, Waiting, ListedReady, Row
    <2> QED
      BY <1>same, <2>2, <2>3, ScheduledParts
  <1>5. CASE FinishCompare(k)
    <2>1. /\ UNCHANGED <<row, queue>>
          /\ comp[k].pc = "finish"
          /\ \A j \in Comparators : j # k => comp'[j] = comp[j]
      BY <1>5, <1>type DEF FinishCompare
    <2>2. Wakes => Wakes'
      BY <1>same, <2>1, WakesStay
    <2> QED
      BY <1>same, <1>inv, <2>1, <2>2, ScheduledParts
  <1>6. CASE ClaimRaises(k)
    BY <1>6 DEF ClaimRaises, WakeUpsKept
  <1>7. CASE FailureRaises(k)
    <2>1. UNCHANGED queue /\ comp[k].pc # "claim" /\ row' \in {row, MarkFailed(row)}
      BY <1>7 DEF FailureRaises
    <2>2. \A j \in Comparators : j # k => comp'[j] = comp[j]
      BY <1>7, OthersCompareOn DEF FailureRaises
    <2>3. Full(row')
      BY <1>type, <1>inv, <2>1, StatementsKeepWaiting DEF KeepsWaiting
    <2>4. Waiting(row') => row' = row
      BY <1>type, <2>1 DEF MarkFailed, Exists, Absent, Waiting, ListedReady, Row
    <2>5. Wakes => Wakes'
      BY <1>same, <2>1, <2>2, WakesStay
    <2> QED
      BY <1>same, <1>inv, <2>3, <2>4, <2>5, ScheduledParts
  <1> QED
    BY <1>1, <1>2, <1>3, <1>4, <1>5, <1>6, <1>7 DEF TaskStep, CompareStep

LEMMA RestartKeepsScheduled ==
    ASSUME TypeInv, WholeInv, ScheduledInv, NEW w \in Workers, Restart(w) \/ Crash(w)
    PROVE  ScheduledInv'
  <1> USE DEF dbVars, taskVars
  <1>type. /\ row \in Row
           /\ stored \in SUBSET Chunks
           /\ intake \in [Workers -> IntakeRecord]
           /\ node \in [Workers -> {"down", "recovering", "starting", "up"}]
           /\ inflight \in SUBSET Workers
    BY DEF TypeInv, RowInv, StoreInv, IntakeInv, HostInv
  <1>inv. /\ Full(row)
          /\ \A v \in Workers : node[v] \in {"down", "recovering"} => v \notin inflight
          /\ Waiting(row) => Wakes
    BY DEF ScheduledInv
  <1>1. CASE RecoverRuns(w)
    <2>1. /\ UNCHANGED <<row, stored, intake, comp, queue, inflight>>
          /\ node[w] = "down"
          /\ node' = [node EXCEPT ![w] = "recovering"]
      BY <1>1 DEF RecoverRuns
    <2>2. node'[w] = "recovering" /\ \A v \in Workers : v # w => node'[v] = node[v]
      BY <2>1, <1>type
    <2>3. Wakes'
      BY <2>2 DEF Wakes
    <2> QED
      BY <1>inv, <2>1, <2>2, <2>3, ScheduledParts
  <1>2. CASE RecoverJobs(w)
    <2>1. /\ UNCHANGED <<stored, intake, comp, queue, inflight>>
          /\ node[w] = "recovering"
          /\ node' = [node EXCEPT ![w] = "starting"]
          /\ row' = Recovered(row, IsOwn(w))
      BY <1>2 DEF RecoverJobs
    <2>2. node'[w] = "starting" /\ \A v \in Workers : v # w => node'[v] = node[v]
      BY <2>1, <1>type
    <2>3. Full(row')
      BY <1>type, <1>inv, <2>1, StatementsKeepWaiting DEF IsOwn
    <2>4. Wakes'
      BY <1>inv, <2>1, <2>2 DEF Wakes
    <2> QED
      BY <2>1, <2>2, <2>3, <2>4, ScheduledParts
  <1>3. CASE RecoverReady(w)
    <2>1. /\ UNCHANGED <<row, stored, intake, comp>>
          /\ node[w] = "starting"
          /\ node' = [node EXCEPT ![w] = "up"]
      BY <1>3 DEF RecoverReady
    <2>2. node'[w] = "up" /\ \A v \in Workers : v # w => node'[v] = node[v]
      BY <2>1, <1>type
    <2>3. CASE ListedReady(row)
      <3>1. Submit(w)
        BY <1>3, <2>3 DEF RecoverReady
      <3>2. stored = Chunks
        <4>1. row.processed >= TotalChunks /\ row.processed <= Cardinality(stored)
          BY <1>inv, <2>3 DEF Full, ListedReady, WholeInv
        <4>2. Cardinality(stored) >= TotalChunks
          BY <1>type, <4>1, StoredBound, PipelineAssumption DEF Row
        <4> QED
          BY <1>type, <4>2, AllStored
      <3>3. Wakes => Wakes'
        <4>1. CASE GivesUp(intake[w])
          BY <2>1, <4>1 DEF Wakes
        <4>2. CASE ~GivesUp(intake[w])
          BY <2>1, <2>2, <3>1, <4>2, SubmitWakes
        <4> QED
          BY <4>1, <4>2
      <3>4. inflight' = inflight \cup {w}
        BY <3>1 DEF Submit
      <3> QED
        BY <1>inv, <2>1, <2>2, <3>2, <3>3, <3>4, ScheduledParts
    <2>4. CASE ~ListedReady(row)
      <3>1. UNCHANGED inflight
        BY <1>3, <2>4 DEF RecoverReady, NoSubmit
      <3> QED
        BY <1>inv, <2>1, <2>2, <2>4, <3>1, ScheduledParts DEF Waiting
    <2> QED
      BY <2>3, <2>4
  <1>4. CASE Crash(w)
    <2>1. /\ UNCHANGED <<row, stored>>
          /\ node' = [node EXCEPT ![w] = "down"]
          /\ intake' = [intake EXCEPT ![w] = IdleIntake]
          /\ inflight' = inflight \ {w}
      BY <1>4 DEF Crash
    <2>2. node'[w] = "down" /\ \A v \in Workers : v # w => node'[v] = node[v]
      BY <2>1, <1>type
    <2>3. \A v \in Workers : intake'[v] = intake[v] \/ ~intake'[v].ready
      BY <2>1, <1>type DEF IdleIntake
    <2>4. Wakes'
      BY <2>2 DEF Wakes
    <2> QED
      BY <1>inv, <2>1, <2>2, <2>3, <2>4, ScheduledParts
  <1> QED
    BY <1>1, <1>2, <1>3, <1>4 DEF Restart

LEMMA EnvironmentKeepsScheduled ==
    ASSUME TypeInv, ScheduledInv, Environment
    PROVE  ScheduledInv'
  <1>1. UNCHANGED <<stored, intake, comp, queue, inflight, node>>
    BY DEF Environment, RegisterJob, CancelJob, LeaseExpires, CompleteCancelled,
           StartDelete, EndDelete, taskVars, nodeVars
  <1>2. \/ \E total \in {0, TotalChunks}, status \in RegisterStatuses :
                row' = EnsureJob(row, total, status)
        \/ row' \in {row, MarkFailed(row), RequestCancel(row), CompleteCancel(row),
                     BeginDelete(row), FinishDelete(row), Completed(row),
                     [row EXCEPT !.lease = "expired"]}
    BY DEF Environment, RegisterJob, CancelJob, LeaseExpires, CompleteCancelled,
           StartDelete, EndDelete
  <1>3. KeepsWaiting(row, row')
    BY <1>2, StatementsKeepWaiting DEF TypeInv, RowInv, ScheduledInv
  <1>4. Wakes => Wakes'
    BY <1>1, WakesStay
  <1> QED
    BY <1>1, <1>3, <1>4, ScheduledParts DEF ScheduledInv, KeepsWaiting

LEMMA NextScheduledInv ==
    WakeUpsKept /\ TypeInv /\ WholeInv /\ ReadyInv /\ ScheduledInv /\ [Next]_vars
        => ScheduledInv'
  <1> SUFFICES ASSUME WakeUpsKept, TypeInv, WholeInv, ReadyInv, ScheduledInv, [Next]_vars
               PROVE  ScheduledInv'
    OBVIOUS
  <1>1. CASE Next
    BY <1>1, IntakeKeepsScheduled, SavePairKeepsScheduled, CompareKeepsScheduled,
       RestartKeepsScheduled, EnvironmentKeepsScheduled DEF Next, IntakeStep, TaskStep
  <1>2. CASE UNCHANGED vars
    BY <1>2 DEF vars, dbVars, taskVars, nodeVars, ScheduledInv, Wakes
  <1> QED
    BY <1>1, <1>2

\* If claims do not raise and consumers do not die, no wake-up is lost, whatever is delivered
\* twice, raises elsewhere, crashes or is recovered: a job that waits to be compared has
\* somebody who will claim it, submit it or start up.
THEOREM ReadyScheduled ==
    ASSUME WakeUpsKept
    PROVE  Spec => []ReadyIsScheduled
  <1>1. Init => ReadyInv /\ ScheduledInv
    <2> SUFFICES ASSUME Init PROVE ReadyInv /\ ScheduledInv
      OBVIOUS
    <2>1. Chunks # {}
      BY PipelineAssumption DEF Chunks
    <2>2. row.status = Absent /\ stored = {} /\ inflight = {}
      BY DEF Init, NoRow
    <2>3. \A w \in Workers : ~intake[w].ready
      BY DEF Init, IdleIntake
    <2> QED
      BY <2>1, <2>2, <2>3
      DEF ReadyInv, Exists, Absent, ScheduledInv, Full, Waiting, ListedReady
  <1>2. ScheduledInv => ReadyIsScheduled
    BY DEF ScheduledInv, Waiting, Wakes, GivesUp, Submits, ReadyIsScheduled
  <1> QED
    BY <1>1, <1>2, InitWholeInv, NextWholeInv, NextReadyInv, NextScheduledInv, TypeInvHolds, PTL
    DEF Spec

-----------------------------------------------------------------------------
(* OneFinalResult *)

\* Two results need both a lease that runs out and a worker that starts again, for a
\* start is all that looks at leases, and a claim that it may take away is a dead
\* worker's or one with an expired lease.
OneClaimAtATime == "expire" \notin Disturbances \/ "crash" \notin Disturbances

\* A row that is never claimed again.
NeverClaimed(r) == r.status \in ClosedStatuses \/ r.cancel

\* A comparison of worker w keeps others from claiming the row until it is over, also
\* when the job was closed or cancelled in the meantime.
HeldBy(r, w) ==
    \/ NeverClaimed(r)
    \/ /\ r.status = "comparing" /\ r.claimed /\ r.owner = w
       /\ "expire" \notin Disturbances => r.lease = "live"

\* A lease protects its claim only while the worker lives, so the invariant speaks of
\* the workers and of the rows together.
OneInv ==
    /\ row.cancel => Exists(row)
    /\ "crash" \notin Disturbances => \A w \in Workers : node[w] = "up"
    /\ \A j, k \in Comparators : Comparing(j) /\ Comparing(k) => j = k
    /\ \A k \in Comparators : Comparing(k) =>
            /\ results = {}
            /\ Running(WorkerOf(k))
            /\ HeldBy(row, WorkerOf(k))
    /\ results # {} => row.status \in ClosedStatuses
    /\ \A d, e \in results : d = e

\* A statement that keeps the row from being claimed where it was kept before.
KeepsHeld(r, q) ==
    /\ r.status \in ClosedStatuses => q.status \in ClosedStatuses
    /\ \A w : HeldBy(r, w) => HeldBy(q, w)
    /\ (r.cancel => Exists(r)) => (q.cancel => Exists(q))

LEMMA UpdateJobKeepsHeld ==
    ASSUME NEW r \in Row, NEW total, NEW status \in EarlyStatuses \cup {"failed"}
    PROVE  KeepsHeld(r, UpdateJob(r, total, status))
  <1> DEFINE q == UpdateJob(r, total, status)
  <1>1. /\ q.status = UpsertStatus(r.status, status)
        /\ q.claimed = r.claimed /\ q.cancel = r.cancel
        /\ q.owner = r.owner /\ q.lease = r.lease
    BY DEF UpdateJob, Row
  <1>2. /\ r.status \in ClosedStatuses => q.status \in ClosedStatuses
        /\ r.status = "comparing" => q.status \in ClosedStatuses \cup {"comparing"}
    BY <1>1 DEF UpsertStatus, UpsertKeeps, EarlyStatuses, ClosedStatuses
  <1>3. r.status # Absent => q.status # Absent
    BY <1>1 DEF UpsertStatus, EarlyStatuses, Absent
  <1> QED
    BY <1>1, <1>2, <1>3 DEF KeepsHeld, HeldBy, NeverClaimed, Exists

LEMMA SavedPairKeepsHeld ==
    ASSUME NEW r \in Row, NEW n \in 0..TotalChunks
    PROVE  KeepsHeld(r, SavedPair(r, n, TotalChunks))
  <1> DEFINE u == UpdateJob(r, TotalChunks, "processing")
             q == SavedPair(r, n, TotalChunks)
  <1>1. u \in Row /\ KeepsHeld(r, u)
    BY UpdateJobType, UpdateJobKeepsHeld, EarlyAreStatuses, PipelineAssumption
    DEF EarlyStatuses
  <1>2. /\ u.status \in SaveKeeps => q.status = u.status
        /\ q.claimed = u.claimed /\ q.cancel = u.cancel
        /\ q.owner = u.owner /\ q.lease = u.lease
    BY <1>1 DEF SavedPair, Row
  <1>3. KeepsHeld(u, q)
    <2>1. q.status \in {u.status, "ocr_ready", "processing"}
      BY <1>1 DEF SavedPair, Row
    <2> QED
      BY <1>2, <2>1
      DEF KeepsHeld, HeldBy, NeverClaimed, SaveKeeps, ClosedStatuses, Exists, Absent
  <1> QED
    BY <1>1, <1>3 DEF KeepsHeld

LEMMA StatementsKeepHeld ==
    ASSUME NEW r \in Row, r.cancel => Exists(r)
    PROVE  /\ \A total \in {0, TotalChunks}, status \in RegisterStatuses :
                  KeepsHeld(r, EnsureJob(r, total, status))
           /\ \A q \in {r, Completed(r), MarkFailed(r), RequestCancel(r),
                        CompleteCancel(r), BeginDelete(r), FinishDelete(r)} :
                  KeepsHeld(r, q)
           /\ "expire" \in Disturbances => KeepsHeld(r, [r EXCEPT !.lease = "expired"])
  <1> USE DEF KeepsHeld, HeldBy, NeverClaimed, ClosedStatuses, Exists, Absent
  <1>1. ASSUME NEW total \in {0, TotalChunks}, NEW status \in RegisterStatuses
        PROVE  KeepsHeld(r, EnsureJob(r, total, status))
    <2>1. status \in EarlyStatuses \cup {"failed"}
      BY PipelineAssumption
    <2> QED
      BY <2>1, UpdateJobKeepsHeld DEF EnsureJob, NoRow
  <1>2. KeepsHeld(r, r) /\ KeepsHeld(r, Completed(r))
    BY DEF Completed, Row
  <1>3. KeepsHeld(r, MarkFailed(r))
    BY DEF MarkFailed, Exists, Absent, Row
  <1>4. KeepsHeld(r, RequestCancel(r))
    BY DEF RequestCancel, Row
  <1>5. KeepsHeld(r, CompleteCancel(r))
    BY DEF CompleteCancel, TransitionJob, Row
  <1>6. KeepsHeld(r, BeginDelete(r)) /\ KeepsHeld(r, FinishDelete(r))
    BY DEF BeginDelete, FinishDelete, Exists, Absent, Row
  <1>7. "expire" \in Disturbances => KeepsHeld(r, [r EXCEPT !.lease = "expired"])
    BY DEF Row
  <1> QED
    BY <1>1, <1>2, <1>3, <1>4, <1>5, <1>6, <1>7

\* A start of worker v takes no claim away from a comparison under way at w.
LEMMA RecoveryKeepsHeld ==
    ASSUME NEW r \in Row, NEW v, NEW w \in Workers, v # w,
           "expire" \notin Disturbances, HeldBy(r, w)
    PROVE  LET own == StableIds /\ r.owner = v IN HeldBy(Recovered(r, own), w)
  BY NoWorkerAssumption DEF Recovered, LeaseLost, HeldBy, NeverClaimed, ClosedStatuses, Row

\* What closes a row keeps it closed under recovery: only 'comparing' is recovered.
LEMMA RecoveryKeepsClosed ==
    ASSUME NEW r, NEW own, r.status \in ClosedStatuses
    PROVE  Recovered(r, own) = r
  BY DEF Recovered, ClosedStatuses

\* The invariant follows the row where the tasks, the workers and the results are as
\* they were, or fewer tasks are at work.
LEMMA OneParts ==
    ASSUME OneInv,
           UNCHANGED results,
           \A k \in Comparators : Comparing(k)' => Comparing(k),
           \A k \in Comparators : Comparing(k)' =>
                Running(WorkerOf(k))' /\ HeldBy(row', WorkerOf(k)),
           row'.cancel => Exists(row'),
           results # {} => row'.status \in ClosedStatuses,
           "crash" \notin Disturbances => \A w \in Workers : node'[w] = "up"
    PROVE  OneInv'
  BY DEF OneInv


\* The statements that are neither a claim nor a recovery.
LEMMA PlainStatements ==
    ASSUME TypeInv, OneInv, KeepsHeld(row, row'),
           UNCHANGED <<results, node>>,
           \A k \in Comparators : Comparing(k)' => Comparing(k)
    PROVE  OneInv'
  <1>1. \A k \in Comparators : Comparing(k)' =>
            Running(WorkerOf(k))' /\ HeldBy(row', WorkerOf(k))
    BY DEF OneInv, KeepsHeld, Running
  <1> QED
    BY <1>1, OneParts DEF OneInv, KeepsHeld

LEMMA IntakeKeepsOne ==
    ASSUME TypeInv, OneInv, NEW w \in Workers,
           IntakeStep(w) \/ ProcessRaises(w) \/ ConsumerDies(w)
    PROVE  OneInv'
  <1>1. UNCHANGED <<results, node, comp>>
    BY DEF IntakeStep, Fetch, CheckJob, LookupChunk, SavePair, Report, Ack, CheckFailed,
           FailJob, ProcessRaises, ConsumerDies, dbVars, nodeVars
  <1>2. KeepsHeld(row, row')
    <2>type. row \in Row /\ (row.cancel => Exists(row))
      BY DEF TypeInv, RowInv, OneInv
    <2>1. CASE SavePair(w) /\ Exists(row)
      <3> DEFINE both == stored \cup {intake[w].chunk}
      <3>1. Cardinality(both) \in 0..TotalChunks
        BY <2>1, StoredBound
        DEF SavePair, IntakeAt, TypeInv, StoreInv, IntakeInv, HoldsChunk
      <3> QED
        BY <2>type, <2>1, <3>1, SavedPairKeepsHeld DEF SavePair
    <2>2. CASE ~(SavePair(w) /\ Exists(row))
      <3>1. row' \in {row, MarkFailed(row)}
        BY <2>2
        DEF IntakeStep, Fetch, CheckJob, LookupChunk, SavePair, Report, Ack, CheckFailed,
            FailJob, ProcessRaises, ConsumerDies, dbVars
      <3> QED
        BY <2>type, <3>1, StatementsKeepHeld
    <2> QED
      BY <2>1, <2>2
  <1> QED
    BY <1>1, <1>2, PlainStatements DEF Comparing

LEMMA EnvironmentKeepsOne ==
    ASSUME TypeInv, OneInv, Environment
    PROVE  OneInv'
  <1>1. UNCHANGED <<results, node, comp>>
    BY DEF Environment, RegisterJob, CancelJob, LeaseExpires, CompleteCancelled,
           StartDelete, EndDelete, taskVars, nodeVars
  <1>2. \/ \E total \in {0, TotalChunks}, status \in RegisterStatuses :
                row' = EnsureJob(row, total, status)
        \/ row' \in {RequestCancel(row), CompleteCancel(row), BeginDelete(row),
                     FinishDelete(row)}
        \/ "expire" \in Disturbances /\ row' = [row EXCEPT !.lease = "expired"]
    BY DEF Environment, RegisterJob, CancelJob, LeaseExpires, CompleteCancelled,
           StartDelete, EndDelete
  <1>3. KeepsHeld(row, row')
    BY <1>2, StatementsKeepHeld DEF TypeInv, RowInv, OneInv
  <1> QED
    BY <1>1, <1>3, PlainStatements DEF Comparing

LEMMA RestartKeepsOne ==
    ASSUME OneClaimAtATime, TypeInv, OneInv, NEW w \in Workers, Restart(w) \/ Crash(w)
    PROVE  OneInv'
  <1> USE DEF dbVars, taskVars
  <1>type. /\ row \in Row
           /\ comp \in [Comparators -> CompareRecord]
           /\ node \in [Workers -> {"down", "recovering", "starting", "up"}]
           /\ row.cancel => Exists(row)
    BY DEF TypeInv, RowInv, CompInv, HostInv, OneInv
  <1>1. CASE RecoverRuns(w) \/ RecoverReady(w)
    <2>1. /\ UNCHANGED <<row, results, comp>>
          /\ node[w] \in {"down", "starting"}
          /\ \A v \in Workers : v # w => node'[v] = node[v]
          /\ node[w] = "starting" => node'[w] = "up"
      BY <1>1, <1>type DEF RecoverRuns, RecoverReady
    <2>2. \A k \in Comparators : Comparing(k) => Running(WorkerOf(k))'
      BY <2>1, ComparatorWorker DEF OneInv, Running
    <2>3. "crash" \in Disturbances
      BY <2>1 DEF OneInv
    <2> QED
      BY <2>1, <2>2, <2>3, OneParts DEF OneInv, Comparing
  <1>2. CASE RecoverJobs(w)
    <2> DEFINE own == StableIds /\ row.owner = w
    <2>1. /\ UNCHANGED <<results, comp>>
          /\ node[w] = "recovering"
          /\ \A v \in Workers : v # w => node'[v] = node[v]
          /\ row' = Recovered(row, own)
      BY <1>2, <1>type DEF RecoverJobs, IsOwn
    <2>2. "crash" \in Disturbances /\ "expire" \notin Disturbances
      BY <2>1 DEF OneInv, OneClaimAtATime
    <2>3. \A k \in Comparators : Comparing(k) => WorkerOf(k) # w
      BY <2>1 DEF OneInv, Running
    <2>4. \A k \in Comparators : Comparing(k) =>
                Running(WorkerOf(k))' /\ HeldBy(row', WorkerOf(k))
      BY <1>type, <2>1, <2>2, <2>3, ComparatorWorker, RecoveryKeepsHeld DEF OneInv, Running
    <2>5. results # {} => row'.status \in ClosedStatuses
      BY <2>1, RecoveryKeepsClosed DEF OneInv
    <2>6. row'.cancel => Exists(row')
      BY <1>type, <2>1 DEF Recovered, Exists, Absent, Row
    <2> QED
      BY <2>1, <2>2, <2>4, <2>5, <2>6, OneParts DEF OneInv, Comparing
  <1>3. CASE Crash(w)
    <2>1. /\ UNCHANGED <<row, results>>
          /\ "crash" \in Disturbances
          /\ \A v \in Workers : v # w => node'[v] = node[v]
      BY <1>3, <1>type DEF Crash
    <2>2. \A k \in Comparators : Comparing(k)' => Comparing(k) /\ WorkerOf(k) # w
      BY <1>3, <1>type DEF Crash, IdleCompare, Comparing
    <2>3. \A k \in Comparators : Comparing(k)' => Running(WorkerOf(k))'
      BY <2>1, <2>2, ComparatorWorker DEF OneInv, Running
    <2> QED
      BY <2>1, <2>2, <2>3, OneParts DEF OneInv
  <1> QED
    BY <1>1, <1>2, <1>3 DEF Restart

LEMMA CompareKeepsOne ==
    ASSUME TypeInv, OneInv, NEW k \in Comparators,
           TaskStep(k)
    PROVE  OneInv'
  <1> USE DEF CompAt, dbVars, nodeVars
  <1>type. /\ row \in Row
           /\ comp \in [Comparators -> CompareRecord]
           /\ row.cancel => Exists(row)
    BY DEF TypeInv, RowInv, CompInv, OneInv
  <1>same. KeepsHeld(row, row)
    BY <1>type, StatementsKeepHeld
  <1>1. CASE TryClaim(k) /\ Claimable(row)
    <2>1. \A j \in Comparators : ~Comparing(j)
      BY <1>1 DEF OneInv, HeldBy, NeverClaimed, Claimable
    <2>2. results = {}
      BY <1>1 DEF OneInv, Claimable
    <2>3. /\ UNCHANGED <<results, node>>
          /\ row' = Claim(row, WorkerOf(k))
          /\ Running(WorkerOf(k))
          /\ \A j \in Comparators : j # k => comp'[j] = comp[j]
      BY <1>1, <1>type DEF TryClaim
    <2>4. HeldBy(row', WorkerOf(k)) /\ Exists(row')
      BY <1>type, <2>3 DEF HeldBy, Claim, Exists, Absent, Row
    <2>5. \A j \in Comparators : Comparing(j)' => j = k
      BY <2>1, <2>3 DEF Comparing
    <2> QED
      BY <2>2, <2>3, <2>4, <2>5 DEF OneInv, Running
  <1>2. CASE StartCompare(k) \/ FailRun(k) \/ (TryClaim(k) /\ ~Claimable(row))
             \/ CompareRaises(k) \/ FailComparedJob(k) \/ FailureRaises(k)
    <2>1. UNCHANGED <<results, node>> /\ row' \in {row, MarkFailed(row)}
      BY <1>2 DEF StartCompare, FailRun, TryClaim, CompareRaises, FailComparedJob,
                  FailureRaises
    <2>2. PICK pc \in {"claim", "failjob", "failrun", "finish"} : CompTo(k, pc)
      BY <1>2 DEF StartCompare, FailRun, TryClaim, CompareRaises, FailComparedJob,
                  FailureRaises
    <2>3. \A j \in Comparators : Comparing(j)' => Comparing(j)
      BY <1>type, <2>2, CompToMoves DEF Comparing
    <2> QED
      BY <1>type, <2>1, <2>3, StatementsKeepHeld, PlainStatements
  <1>3. CASE LoadDocuments(k) \/ CreateRun(k)
    <2>1. UNCHANGED <<row, results, node>> /\ Comparing(k)
      BY <1>3 DEF LoadDocuments, CreateRun, Comparing
    <2>2. \A j \in Comparators : j # k => comp'[j] = comp[j]
      BY <1>3, <1>type DEF LoadDocuments, CreateRun, CompTo
    <2> QED
      BY <1>same, <2>1, <2>2, PlainStatements DEF Comparing
  <1>4. CASE FinishCompare(k)
    <2>1. UNCHANGED <<row, results, node>>
      BY <1>4 DEF FinishCompare
    <2>2. \A j \in Comparators : Comparing(j)' => Comparing(j)
      BY <1>4, <1>type DEF FinishCompare, IdleCompare, Comparing
    <2> QED
      BY <1>same, <2>1, <2>2, PlainStatements
  <1>5. CASE Finalize(k)
    <2>1. results = {} /\ \A j \in Comparators : Comparing(j) => j = k
      BY <1>5 DEF Finalize, OneInv, Comparing
    <2>2. PICK pc \in {"failrun", "finish"} : CompTo(k, pc)
      BY <1>5 DEF Finalize
    <2>3. \A j \in Comparators : ~Comparing(j)'
      BY <2>1, <2>2, OthersCompareOn DEF Comparing
    <2>4. row' = Completed(row) /\ results' = results \cup {comp[k].epoch} /\ UNCHANGED node
      BY <1>5 DEF Finalize
    <2>5. row'.status \in ClosedStatuses
      BY <1>type, <2>4 DEF Completed, ClosedStatuses, Row
    <2>6. Exists(row')
      BY <2>5 DEF ClosedStatuses, Exists, Absent
    <2> QED
      BY <2>1, <2>3, <2>4, <2>5, <2>6 DEF OneInv
  <1>6. CASE ClaimRaises(k)
    <2>1. UNCHANGED <<results, node>> /\ CompTo(k, "finish")
      BY <1>6 DEF ClaimRaises
    <2>2. \A j \in Comparators : Comparing(j)' => Comparing(j)
      BY <1>type, <2>1, CompToMoves DEF Comparing
    <2>3. CASE UNCHANGED row
      BY <1>same, <2>1, <2>2, <2>3, PlainStatements
    <2>4. CASE Claimable(row) /\ row' = Claim(row, WorkerOf(k))
      <3>1. \A j \in Comparators : ~Comparing(j)
        BY <2>4 DEF OneInv, HeldBy, NeverClaimed, Claimable
      <3>2. results = {}
        BY <2>4 DEF OneInv, Claimable
      <3>3. Exists(row')
        BY <1>type, <2>4 DEF Claim, Exists, Absent, Row
      <3> QED
        BY <2>1, <2>2, <3>1, <3>2, <3>3 DEF OneInv
    <2> QED
      BY <1>6, <2>3, <2>4 DEF ClaimRaises
  <1> QED
    BY <1>1, <1>2, <1>3, <1>4, <1>5, <1>6 DEF TaskStep, CompareStep

LEMMA NextOneInv == OneClaimAtATime /\ TypeInv /\ OneInv /\ [Next]_vars => OneInv'
  <1> SUFFICES ASSUME OneClaimAtATime, TypeInv, OneInv, [Next]_vars PROVE OneInv'
    OBVIOUS
  <1>1. CASE Next
    BY <1>1, IntakeKeepsOne, EnvironmentKeepsOne, RestartKeepsOne, CompareKeepsOne
    DEF Next, TaskStep
  <1>2. CASE UNCHANGED vars
    BY <1>2 DEF vars, dbVars, taskVars, nodeVars, OneInv, Comparing, Running
  <1> QED
    BY <1>1, <1>2

\* Unless leases run out and workers start again, a job has at most one result, whoever
\* delivers, claims, fails, cancels, deletes or registers it, on however many workers.
THEOREM OneResult ==
    ASSUME OneClaimAtATime
    PROVE  Spec => []OneFinalResult
  <1>1. Init => OneInv
    BY DEF Init, NoRow, IdleCompare, Comparing, OneInv
  <1>2. OneInv => OneFinalResult
    <2> SUFFICES ASSUME OneInv PROVE Cardinality(results) <= 1
      BY DEF OneFinalResult
    <2>1. CASE results = {}
      BY <2>1, FS_EmptySet
    <2>2. CASE results # {}
      <3>1. PICK e : e \in results
        BY <2>2
      <3>2. results = {e}
        BY <3>1 DEF OneInv
      <3> QED
        BY <3>2, FS_Singleton
    <2> QED
      BY <2>1, <2>2
  <1> QED
    BY <1>1, <1>2, NextOneInv, TypeInvHolds, PTL DEF Spec
=============================================================================
