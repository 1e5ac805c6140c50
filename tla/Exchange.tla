------------------------------- MODULE Exchange -------------------------------
(***************************************************************************)
(* What somebody who sends commands over a shared line is promised,        *)
(* without the line: a call that has asked gets at most one reply, it is   *)
(* never taken back or replaced, and as long as the line can be trusted it *)
(* is the reply to that call. A call may leave without its reply, which    *)
(* then still finds its place and not that of another call.                *)
(***************************************************************************)
CONSTANTS
    Calls,
    Replies,   \* the reply to a call is named like the call
    None       \* no reply

VARIABLES
    stage,     \* call -> "idle", "open" or "closed"
    reply,     \* call -> what it was replied
    trusted    \* replies come in the order of the questions

vars == <<stage, reply, trusted>>

Init ==
    /\ stage = [c \in Calls |-> "idle"]
    /\ reply = [c \in Calls |-> None]
    /\ trusted = TRUE

(* A call is accepted, or turned away.                                     *)
Ask(c) ==
    /\ stage[c] = "idle"
    /\ \E to \in {"open", "closed"} : stage' = [stage EXCEPT ![c] = to]
    /\ UNCHANGED <<reply, trusted>>

(* A call is replied, and returns if it was listening.                     *)
Reply(c, r) ==
    /\ stage[c] # "idle"
    /\ reply[c] = None
    /\ trusted => r = c
    /\ reply' = [reply EXCEPT ![c] = r]
    /\ \E to \in {stage[c], "closed"} : stage' = [stage EXCEPT ![c] = to]
    /\ UNCHANGED trusted

(* Some calls return, or none; the order may be lost at this, and is then  *)
(* lost for good.                                                          *)
Leave(C) ==
    /\ \A c \in C : stage[c] = "open"
    /\ stage' = [c \in Calls |-> IF c \in C THEN "closed" ELSE stage[c]]
    /\ trusted' \in {trusted, FALSE}
    /\ UNCHANGED reply

Next ==
    \/ \E c \in Calls : Ask(c) \/ \E r \in Replies : Reply(c, r)
    \/ \E C \in SUBSET Calls : Leave(C)

Spec == Init /\ [][Next]_vars
=============================================================================
