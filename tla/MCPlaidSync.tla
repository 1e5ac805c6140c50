---------------------------- MODULE MCPlaidSync ----------------------------
(* One bank login with two transactions and two overlapping syncs.          *)
EXTENDS PlaidSync
=============================================================================
