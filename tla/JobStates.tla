----------------------------- MODULE JobStates -----------------------------
(***************************************************************************)
(* The job statuses and the transition table of app/workflow/states.py.    *)
(***************************************************************************)

TERMINAL_STATUSES == {"completed", "failed", "cancelled", "deleted"}

NON_TERMINAL_STATUSES ==
    {"queued", "preparing", "processing", "ocr_ready", "comparing",
     "classifying", "finalizing", "cancel_requested", "deleting"}

Statuses == TERMINAL_STATUSES \cup NON_TERMINAL_STATUSES

ALLOWED_TRANSITIONS ==
    [queued           |-> {"preparing", "processing", "failed", "cancel_requested"},
     preparing        |-> {"queued", "processing", "failed", "cancel_requested"},
     processing       |-> {"ocr_ready", "failed", "cancel_requested"},
     ocr_ready        |-> {"comparing", "failed", "cancel_requested"},
     comparing        |-> {"classifying", "finalizing", "completed", "failed",
                           "cancel_requested"},
     classifying      |-> {"finalizing", "completed", "failed", "cancel_requested"},
     finalizing       |-> {"completed", "failed"},
     cancel_requested |-> {"cancelled", "deleting"},
     completed        |-> {"deleting"},
     failed           |-> {"deleting"},
     cancelled        |-> {"deleting"},
     deleting         |-> {"deleted"},
     deleted          |-> {}]

\* can_transition: a status may keep its value unless it is terminal.
CanTransition(current, target) ==
    \/ target \in ALLOWED_TRANSITIONS[current]
    \/ target = current /\ current \notin TERMINAL_STATUSES
=============================================================================
