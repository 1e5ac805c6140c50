----------------------------- MODULE MCShareQueue -----------------------------
(* ShareQueue on small instances: model values for names and workers, and  *)
(* the symmetry of the workers, which nothing in the module tells apart.   *)
EXTENDS ShareQueue, TLC

WorkerSymmetry == Permutations(Workers)
=============================================================================
