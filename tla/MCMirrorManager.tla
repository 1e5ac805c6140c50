-------------------------- MODULE MCMirrorManager --------------------------
(* Two calls on one pane, and a subprocess that dies once.                  *)
EXTENDS MirrorManager
=============================================================================
