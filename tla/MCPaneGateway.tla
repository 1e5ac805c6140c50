---- MODULE MCPaneGateway ----
(* PaneGateway for TLC.                                                    *)
EXTENDS PaneGateway
====
