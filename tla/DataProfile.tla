---------------------------- MODULE DataProfile ----------------------------
(***************************************************************************)
(* The data the governance gate judges: the profile of a table (state.py,  *)
(* DataProfilingMetrics) and the deterministic limits of validate_dq_node  *)
(* (nodes.py).  The null ratio is a fraction, compared with the threshold  *)
(* by cross-multiplication; null_timestamps and distinct_id_estimate are   *)
(* left out because no decision of the code reads them.                    *)
(***************************************************************************)
EXTENDS Integers

CONSTANTS Contents,          \* what the table may hold, as its profile
          NullThresholdNum,  \* DQ_MAX_NULL_THRESHOLD as a fraction: 0.05 is
          NullThresholdDen   \*   5 / 100

\* COUNT(CASE WHEN event_id IS NULL) never exceeds COUNT(1).
ASSUME ContentsAssumption ==
    /\ Contents \subseteq [rows : Nat, nulls : Nat]
    /\ \A p \in Contents : p.nulls <= p.rows

\* settings.py refuses a threshold outside 0.0 .. 1.0.
ASSUME ThresholdAssumption ==
    /\ NullThresholdNum \in Nat
    /\ NullThresholdDen \in Nat \ {0}
    /\ NullThresholdNum <= NullThresholdDen

\* null_ratio > settings.DQ_MAX_NULL_THRESHOLD
ExceedsNullThreshold(p) ==
    p.nulls * NullThresholdDen > NullThresholdNum * p.rows

\* A hard barrier rejects the table before the evaluator is asked.
HardBreach(p) == ExceedsNullThreshold(p) \/ p.rows = 0
=============================================================================
