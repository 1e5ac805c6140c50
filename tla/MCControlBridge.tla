--------------------------- MODULE MCControlBridge ---------------------------
(* ControlBridge with a handful of calls.                                  *)
EXTENDS ControlBridge
=============================================================================
