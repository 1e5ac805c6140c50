-------------------------- MODULE MCSessionRegistry --------------------------
(* SessionRegistry with two sessions and short channels.                    *)
EXTENDS SessionRegistry
=============================================================================
