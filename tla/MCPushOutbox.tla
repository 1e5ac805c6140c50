----------------------------- MODULE MCPushOutbox -----------------------------
(* PushOutbox on small instances.                                          *)
EXTENDS PushOutbox
=============================================================================
