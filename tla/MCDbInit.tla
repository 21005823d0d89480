------------------------------ MODULE MCDbInit ------------------------------
(* The instance of DbInit for TLC; its .cfg gives the constants. *)
EXTENDS DbInit
=============================================================================
