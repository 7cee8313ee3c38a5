--------------------------- MODULE MCJobPipeline ---------------------------
(***************************************************************************)
(* Small instances of JobPipeline for TLC.                                 *)
(***************************************************************************)
EXTENDS JobPipeline, TLC

AnyWorker == Permutations(Workers)

OneLane  == {"scheduler"}
TwoLanes == {"scheduler", "diff"}

\* Faults that lose no wake-up.
DeliveryFaults ==
    {"crash", "duplicate", "early_chunk", "chunk_error", "compare_error", "handler_error",
     "reregister"}

ComparisonFaults ==
    {"crash", "expire", "compare_error", "lost_ack", "claim_error", "handler_error",
     "broker_error", "cancel", "cleanup", "chunk_error", "reregister"}

\* Faults after which the job is still brought to an end.
SurvivableFaults ==
    {"crash", "chunk_error", "compare_error", "lost_ack", "reregister"}

QueuedOnly    == {"queued"}
QueuedAndLate == {"queued", "failed"}
=============================================================================
