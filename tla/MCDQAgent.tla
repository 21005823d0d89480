----------------------------- MODULE MCDQAgent -----------------------------
(* Values of the constants of DQAgent for TLC. *)
EXTENDS DQAgentProperties, TLC

\* An empty table, a clean one, and one over the threshold of 5 percent.
MCContents == { [rows |-> 0,  nulls |-> 0],
                [rows |-> 20, nulls |-> 1],
                [rows |-> 20, nulls |-> 2] }

MCSymmetry == Permutations(Attempts) \cup Permutations(Arns)
=============================================================================
