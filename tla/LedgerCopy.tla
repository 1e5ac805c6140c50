------------------------------ MODULE LedgerCopy ------------------------------
(***************************************************************************)
(* What a copy of the banks' ledgers promises, without the syncs that make *)
(* it: a transaction is entered when its bank has reported it and struck   *)
(* when its bank has withdrawn it, once and in this order, and a place in  *)
(* the ledger is marked as reached only when the copy has all before it.   *)
(* A mark may go back: then a part of the ledger is read once more.        *)
(***************************************************************************)
EXTENDS Naturals, Sequences

CONSTANTS Items, Txns

VARIABLES
    log,     \* item -> the updates reported so far
    copy,    \* item, transaction -> "none", "live" or "removed"
    mark     \* item -> the place in the log that is marked

vars == <<log, copy, mark>>

Updates == [kind : {"added", "modified", "removed"}, txn : Txns]

Init ==
    /\ log = [i \in Items |-> <<>>]
    /\ copy = [i \in Items |-> [t \in Txns |-> "none"]]
    /\ mark = [i \in Items |-> 0]

Withdrawn(i, t) ==
    \E k \in 1 .. Len(log[i]) : log[i][k].txn = t /\ log[i][k].kind = "removed"

Known(i, t) ==
    \E k \in 1 .. Len(log[i]) : log[i][k].txn = t /\ log[i][k].kind # "removed"

Copied(i, k) ==
    copy[i][log[i][k].txn] \in
        IF log[i][k].kind = "removed" THEN {"removed"} ELSE {"live", "removed"}

Report(i, u) ==
    /\ log' = [log EXCEPT ![i] = Append(log[i], u)]
    /\ UNCHANGED <<copy, mark>>

Set(i, t, state) == copy' = [copy EXCEPT ![i][t] = state]

Enter(i, t) ==
    /\ Known(i, t) /\ copy[i][t] = "none"
    /\ Set(i, t, "live")
    /\ UNCHANGED <<log, mark>>

Strike(i, t) ==
    /\ Withdrawn(i, t) /\ copy[i][t] = "live"
    /\ Set(i, t, "removed")
    /\ UNCHANGED <<log, mark>>

Mark(i, p) ==
    /\ \A k \in 1 .. p : Copied(i, k)
    /\ mark' = [mark EXCEPT ![i] = p]
    /\ UNCHANGED <<log, copy>>

Next ==
    \E i \in Items :
      \/ \E u \in Updates : Report(i, u)
      \/ \E t \in Txns : Enter(i, t) \/ Strike(i, t)
      \/ \E p \in 0 .. Len(log[i]) : Mark(i, p)

Spec == Init /\ [][Next]_vars
=============================================================================
