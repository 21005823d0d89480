--------------------------- MODULE GovernanceGate ---------------------------
(***************************************************************************)
(* What the data quality agent promises to those who read the catalog, and *)
(* nothing of how it works: a label is published only after a verdict was  *)
(* reached about contents the table really had, and a COMPLIANT verdict    *)
(* needs both gates, the deterministic limits and the evaluator's consent. *)
(***************************************************************************)
EXTENDS DataProfile

CONSTANTS NoProfile          \* no metrics published yet

VARIABLES history,           \* every content the table has had
          consents,          \* the contents the evaluator has accepted
          verdicts,          \* the verdicts reached so far
          label              \* the verdict the catalog shows

vars == <<history, consents, verdicts, label>>

Labels == {"COMPLIANT", "NON_COMPLIANT"}
Unlabelled == [status |-> "NONE", metrics |-> NoProfile]

Init == /\ history \in SUBSET Contents
        /\ consents = {}
        /\ verdicts = {}
        /\ label = Unlabelled

\* The table gets new contents; nothing about the label follows from it.
Change(p) == /\ history' = history \cup {p}
             /\ UNCHANGED <<consents, verdicts, label>>

\* Any content the table has had can be rejected.
Reject(p) == /\ p \in history
             /\ verdicts' = verdicts \cup {[status |-> "NON_COMPLIANT", metrics |-> p]}
             /\ UNCHANGED <<history, consents, label>>

\* A verdict of compliance needs the hard limits met and the consent.
Accept(p) == /\ p \in history
             /\ ~HardBreach(p)
             /\ consents' = consents \cup {p}
             /\ verdicts' = verdicts \cup {[status |-> "COMPLIANT", metrics |-> p]}
             /\ UNCHANGED <<history, label>>

\* A label and its metrics are published together, from one verdict.
Publish(v) == /\ v \in verdicts
              /\ label' = v
              /\ UNCHANGED <<history, consents, verdicts>>

Next == \/ \E p \in Contents : Change(p) \/ Reject(p) \/ Accept(p)
        \/ \E v \in verdicts : Publish(v)

Spec == Init /\ [][Next]_vars
=============================================================================
