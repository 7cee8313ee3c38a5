---------------------------- MODULE AtLeastOnce ----------------------------
(***************************************************************************)
(* What a transactional outbox promises: a message is put on the topic only *)
(* once it is owed, and it is ticked off only once it is on the topic.  It *)
(* may be put there again at any time.  Outbox implements it with the      *)
(* outbox table and one publisher per replica.                             *)
(***************************************************************************)
CONSTANT Messages

VARIABLES
    owed,     \* messages committed to be sent
    sent,     \* messages that are on the topic, once or more
    settled   \* messages nobody will send again because they are there

vars == <<owed, sent, settled>>

Init == owed = {} /\ sent = {} /\ settled = {}

Owe(m) ==
    /\ owed' = owed \cup {m}
    /\ UNCHANGED <<sent, settled>>

Send(m) ==
    /\ m \in owed
    /\ sent' = sent \cup {m}
    /\ UNCHANGED <<owed, settled>>

Settle(m) ==
    /\ m \in sent
    /\ settled' = settled \cup {m}
    /\ UNCHANGED <<owed, sent>>

Next == \E m \in Messages : Owe(m) \/ Send(m) \/ Settle(m)

Spec == Init /\ [][Next]_vars
=============================================================================
