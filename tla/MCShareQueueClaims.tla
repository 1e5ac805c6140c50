-------------------------- MODULE MCShareQueueClaims --------------------------
(***************************************************************************)
(* What a comment says of the queue and the code does not do: a run of     *)
(* ShareQueue that ends in a counterexample.                               *)
(***************************************************************************)
EXTENDS ShareQueue

(* "Resets status='pending' with retry_after so the replay loop re-picks   *)
(* the row": the handler or the loop that routed the share may mark the    *)
(* row relayed after scoreAsync asked for the retry.                       *)
RetryIsLeftToReplay ==
    [][\A r \in RowIds :
         row[r].status = "pending" /\ ~row[r].due =>
           row'[r].status # "relayed"]_vars
=============================================================================
