---------------------------- MODULE MCDashboard ----------------------------
(* The instance of Dashboard for TLC; its .cfg gives the constants. *)
EXTENDS Dashboard
=============================================================================
