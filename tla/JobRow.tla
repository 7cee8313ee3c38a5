------------------------------- MODULE JobRow -------------------------------
(***************************************************************************)
(* One row of comparison_jobs and the SQL statements that read or write it *)
(* (app/services/ocr_store.py, app/workflow/repository.py).  A statement   *)
(* is an operator from the row to the row it leaves behind; PostgreSQL     *)
(* runs each under the row lock, so each is one atomic step of whoever     *)
(* issues it.                                                              *)
(*                                                                         *)
(* Of the columns the row keeps what guards or what a client reads:        *)
(*   status     status                                                     *)
(*   claimed    comparison_claimed                                         *)
(*   cancel     cancel_requested_at IS NOT NULL                            *)
(*   total      total_chunks            processed  processed_chunks        *)
(*   owner      lease_owner             epoch      lease_epoch             *)
(*   lease      lease_expires_at: NULL ("none"), in the future ("live") or *)
(*              in the past ("expired")                                    *)
(***************************************************************************)
EXTENDS JobStates, Naturals

CONSTANTS
    Workers,    \* the replicas of the service
    NoWorker    \* lease_owner IS NULL

ASSUME NoWorkerAssumption == NoWorker \notin Workers

Absent == "absent"    \* no row with this job_id yet

Leases == {"none", "live", "expired"}

NoRow == [status |-> Absent, claimed |-> FALSE, cancel |-> FALSE,
          total |-> 0, processed |-> 0,
          owner |-> NoWorker, epoch |-> 0, lease |-> "none"]

Exists(row) == row.status # Absent

Greatest(a, b) == IF a >= b THEN a ELSE b

-----------------------------------------------------------------------------
(* _upsert_job *)

EarlyStatuses == {"queued", "preparing", "processing"}

\* The statuses an early status never overwrites.
UpsertKeeps == {"ocr_ready", "comparing", "completed", "failed",
                "cancelled", "deleted", "deleting"}

\* Mutant: the CASE is gone.
OverwrittenStatus(old, new) == new

UpsertStatus(old, new) ==
    IF old \in UpsertKeeps /\ new \in EarlyStatuses THEN old ELSE new

\* Mutant: an upsert is a new registration and forgets the request to cancel.
UpdateJobAfresh(row, total, status) ==
    [row EXCEPT !.total = Greatest(@, total), !.status = UpsertStatus(@, status),
                !.cancel = FALSE]

\* The UPDATE branch: the row exists and keeps its claim, lease and progress.
UpdateJob(row, total, status) ==
    [row EXCEPT !.total = Greatest(@, total),
                !.status = UpsertStatus(@, status)]

\* ensure_job: INSERT ... ON CONFLICT (job_id) DO UPDATE.
EnsureJob(row, total, status) ==
    IF Exists(row) THEN UpdateJob(row, total, status)
    ELSE [NoRow EXCEPT !.total = total, !.status = status]

-----------------------------------------------------------------------------
(* save_ocr_pair: the transaction's effect on the row, n chunks being stored *)
(* once both sides of this one are in.                                       *)

\* Mutant: the list before cancellation and deletion existed.
SaveKeepsOfOneRun == {"completed", "comparing", "ocr_ready"}

SaveKeeps == {"failed", "completed", "comparing", "ocr_ready",
              "cancelled", "deleted", "deleting"}

\* Mutant: progress is counted per delivery.
SavedPairPerDelivery(row, n, total) ==
    LET m == row.processed + 1
    IN  [UpdateJob(row, total, "processing") EXCEPT
            !.processed = m,
            !.status = IF m >= total THEN "ocr_ready" ELSE @]

SavedPair(row, n, total) ==
    LET upserted == UpdateJob(row, total, "processing")
    IN  [upserted EXCEPT
            !.processed = Greatest(@, n),
            !.status = IF @ \in SaveKeeps THEN @
                       ELSE IF n >= total THEN "ocr_ready" ELSE "processing"]

-----------------------------------------------------------------------------
(* try_claim_comparison *)

\* Statuses in which nothing claims the comparison any more.
ClosedStatuses == {"failed", "completed", "cancelled", "deleted", "deleting"}

\* Mutant: the claim is not looked at.
ClaimableTwice(row) ==
    /\ Exists(row) /\ row.status \notin ClosedStatuses /\ ~row.cancel
    /\ row.total > 0 /\ row.processed >= row.total

Claimable(row) ==
    /\ Exists(row)
    /\ ~row.claimed
    /\ row.status \notin ClosedStatuses
    /\ ~row.cancel
    /\ row.total > 0
    /\ row.processed >= row.total

Claim(row, w) ==
    [row EXCEPT !.claimed = TRUE, !.status = "comparing",
                !.owner = w, !.lease = "live", !.epoch = @ + 1]

-----------------------------------------------------------------------------
(* finalize_comparison and _set_status *)

\* The UPDATE of finalize_comparison; neither lease_token nor lease_epoch is
\* compared with the finishing worker's.
Completed(row) ==
    IF row.status \in {"cancelled", "deleted"} THEN row
    ELSE [row EXCEPT !.status = "completed", !.claimed = TRUE,
                     !.owner = NoWorker, !.lease = "none"]

\* Mutant: a failed comparison is offered again.
MarkForRetry(row) ==
    IF Exists(row) /\ row.status \notin ClosedStatuses
    THEN [row EXCEPT !.status = "ocr_ready", !.claimed = FALSE, !.owner = NoWorker]
    ELSE row

\* mark_failed: _set_status with release_claim.  It leaves lease_expires_at.
MarkFailed(row) ==
    IF ~Exists(row) THEN row
    ELSE [row EXCEPT
            !.status = IF @ \in {"completed", "cancelled", "deleted"}
                       THEN @ ELSE "failed",
            !.claimed = FALSE, !.owner = NoWorker]

-----------------------------------------------------------------------------
(* Cancellation and deletion (WorkflowRepository) *)

RequestCancel(row) ==
    [row EXCEPT !.cancel = TRUE,
                !.status = IF @ \in ClosedStatuses THEN @ ELSE "cancel_requested"]

\* transition_job with a from_status: refused outside the table, and an UPDATE
\* that hits nothing when the row has another status.
TransitionJob(row, from, to) ==
    IF CanTransition(from, to) /\ row.status = from
    THEN [row EXCEPT !.status = to] ELSE row

CompleteCancel(row) == TransitionJob(row, "cancel_requested", "cancelled")

BeginDelete(row) ==
    IF Exists(row) /\ row.status # "deleted"
    THEN [row EXCEPT !.status = "deleting"] ELSE row

FinishDelete(row) ==
    IF Exists(row) THEN [row EXCEPT !.status = "deleted"] ELSE row

-----------------------------------------------------------------------------
(* _recover_local_leases and list_ready_jobs *)

\* Mutant: a worker does not know its own claims.
LeaseLostToOthers(row, mine) == row.owner = NoWorker \/ row.lease # "live"

\* The WHERE clause on the lease; mine says that lease_owner is the starting
\* worker's own id.
LeaseLost(row, mine) ==
    \/ mine
    \/ row.owner = NoWorker
    \/ row.lease # "live"

Recovered(row, mine) ==
    IF row.status = "comparing" /\ LeaseLost(row, mine)
    THEN [row EXCEPT !.claimed = FALSE, !.status = "ocr_ready",
                     !.owner = NoWorker, !.lease = "none"]
    ELSE row

ListedReady(row) ==
    /\ row.status = "ocr_ready"
    /\ ~row.claimed
    /\ row.total > 0
    /\ row.processed >= row.total
=============================================================================
