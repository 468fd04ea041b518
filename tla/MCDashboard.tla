------------------------------ MODULE MCDashboard ------------------------------
(* Dashboard for TLC.                                                      *)
EXTENDS Dashboard
=============================================================================
