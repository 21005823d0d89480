---------------------------- MODULE MCJwksCache ----------------------------
(* Values of the constants of JwksCache for TLC. *)
EXTENDS JwksCache, TLC

MCSymmetry == Permutations(Threads) \cup Permutations(Keys)
=============================================================================
