----------------------------- MODULE PushDelivery -----------------------------
(***************************************************************************)
(* What a transactional outbox promises, without the outbox: a message     *)
(* that was submitted is handed to the sink any number of times while it   *)
(* is queued, counts as done only after at least one copy was accepted,    *)
(* and is never handed over again once it is done or dropped.  Linkari's   *)
(* push outbox and the jira-poller's outbox both implement it; the latter  *)
(* forgets no message.                                                     *)
(***************************************************************************)
EXTENDS Naturals

CONSTANT Pushes

VARIABLES
    phase,    \* where each message stands
    copies    \* how many copies the sink accepted

vars == <<phase, copies>>

Phases == {"absent", "queued", "done", "dropped", "forgotten"}

Init ==
    /\ phase = [p \in Pushes |-> "absent"]
    /\ copies = [p \in Pushes |-> 0]

Submit(p) ==
    /\ phase[p] = "absent"
    /\ phase' = [phase EXCEPT ![p] = "queued"]
    /\ UNCHANGED copies

Deliver(p) ==
    /\ phase[p] = "queued"
    /\ copies' = [copies EXCEPT ![p] = @ + 1]
    /\ UNCHANGED phase

Complete(p) ==
    /\ phase[p] = "queued"
    /\ copies[p] > 0
    /\ phase' = [phase EXCEPT ![p] = "done"]
    /\ UNCHANGED copies

Drop(p) ==
    /\ phase[p] = "queued"
    /\ phase' = [phase EXCEPT ![p] = "dropped"]
    /\ UNCHANGED copies

Forget(P) ==
    /\ \A p \in P : phase[p] = "done"
    /\ phase' = [p \in Pushes |-> IF p \in P THEN "forgotten" ELSE phase[p]]
    /\ UNCHANGED copies

Next ==
    \/ \E p \in Pushes : Submit(p) \/ Deliver(p) \/ Complete(p) \/ Drop(p)
    \/ \E P \in SUBSET Pushes : Forget(P)

Spec == Init /\ [][Next]_vars
=============================================================================
