----------------------------- MODULE MCJiraPoller -----------------------------
(* JiraPoller with two issues of one transition each, in pages of one      *)
(* issue: the filter of an issue's older transitions is not exercised.     *)
EXTENDS JiraPoller

MCIssueOf == [e \in Events |-> e]
=============================================================================
