------------------------------ MODULE PaneStream ------------------------------
(***************************************************************************)
(* What a client that attaches to a pane is promised, without the gateway: *)
(* it is shown the pane as it is, and from then on paints output on top of *)
(* it, always later output than what it has painted, although not all of   *)
(* it. An attach that ends simply paints no more.                          *)
(***************************************************************************)
EXTENDS Naturals

CONSTANT Subs    \* attaches

VARIABLES
    output,   \* how much the terminal has put out
    shown,    \* attaches that have all of their snapshot
    last      \* the last output each of them painted

vars == <<output, shown, last>>

Init ==
    /\ output = 0
    /\ shown = {}
    /\ last = [k \in Subs |-> 0]

Emit ==
    /\ output' = output + 1
    /\ UNCHANGED <<shown, last>>

Show(k) ==
    /\ shown' = shown \cup {k}
    /\ UNCHANGED <<output, last>>

Paint(k, n) ==
    /\ k \in shown
    /\ last[k] < n /\ n <= output
    /\ last' = [last EXCEPT ![k] = n]
    /\ UNCHANGED <<output, shown>>

Next ==
    \/ Emit
    \/ \E k \in Subs : Show(k) \/ \E n \in 1 .. output : Paint(k, n)

Spec == Init /\ [][Next]_vars
=============================================================================
