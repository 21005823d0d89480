----------------------------- MODULE MCHandoff -----------------------------
(* Values of the constants of Handoff for TLC. *)
EXTENDS Handoff

MCTables == {"silver_events", "silver_orders"}
=============================================================================
