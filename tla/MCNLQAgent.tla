---------------------------- MODULE MCNLQAgent ----------------------------
(* The instance of NLQAgent for TLC; its .cfg gives the constants. *)
EXTENDS NLQAgent
=============================================================================
