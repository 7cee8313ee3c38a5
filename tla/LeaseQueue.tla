----------------------------- MODULE LeaseQueue -----------------------------
(***************************************************************************)
(* What a queue of leased work items promises, whatever it is stored in:   *)
(* an item is decided only by the worker that took it last, and once it is *)
(* decided and that worker has let go of it, it stays decided.  WorkItems  *)
(* implements it with the lease token and epoch of workflow/repository.py. *)
(***************************************************************************)
CONSTANTS Items, Workers

VARIABLES
    phase,     \* where each item stands
    holders    \* the worker that may still decide the item: none or one

vars == <<phase, holders>>

Open    == {"waiting", "held"}
Decided == {"done", "dropped"}

Init ==
    /\ phase = [i \in Items |-> "none"]
    /\ holders = [i \in Items |-> {}]

Offer(i) ==
    /\ phase[i] = "none"
    /\ phase' = [phase EXCEPT ![i] = "waiting"]
    /\ UNCHANGED holders

\* Whoever held the item loses it: it may never decide it again.
Take(w, i) ==
    /\ phase[i] \in Open
    /\ phase' = [phase EXCEPT ![i] = "held"]
    /\ holders' = [holders EXCEPT ![i] = {w}]

\* The holder decides.  It keeps its claim when it is not told that it has:
\* it may then decide again, and turn a done item into a waiting one.
Decide(w, i) ==
    /\ holders[i] = {w}
    /\ \E p \in Decided \cup {"waiting"} : phase' = [phase EXCEPT ![i] = p]
    /\ \E h \in {{}, {w}} : holders' = [holders EXCEPT ![i] = h]

\* A worker stops, or gives up what it holds.
LetGo(w) ==
    /\ holders' = [i \in Items |-> holders[i] \ {w}]
    /\ UNCHANGED phase

Next ==
    \/ \E i \in Items : Offer(i)
    \/ \E w \in Workers : LetGo(w) \/ \E i \in Items : Take(w, i) \/ Decide(w, i)

Spec == Init /\ [][Next]_vars
=============================================================================
