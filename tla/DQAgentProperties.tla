------------------------- MODULE DQAgentProperties -------------------------
(***************************************************************************)
(* What the data quality agent guarantees (DQAgent), the inductive         *)
(* invariant that explains why, the promise to the catalog's readers it    *)
(* implements (GovernanceGate), and the documented claims it breaks.       *)
(***************************************************************************)
EXTENDS DQAgent

-----------------------------------------------------------------------------
(* Properties *)

\* A COMPLIANT label rests on evidence: the metrics beside it meet the hard
\* limits, and some attempt that profiled exactly these contents heard a
\* clear COMPLIANT from the evaluator.  Whatever fails, crashes or overlaps,
\* the gate never fails open (nodes.py, "Fail CLOSED, not open").
CertifiedOnEvidence ==
    entry.status = "COMPLIANT" =>
        /\ ~HardBreach(entry.metrics)
        /\ \E a \in labelled : /\ answer[a] = "COMPLIANT"
                               /\ local[a].profiling_results = entry.metrics

\* The label and the metrics in the catalog are those of one attempt, however
\* the read-modify-write cycles of several attempts interleave
\* (enrich_table_metadata sets all its keys in one update_table).
LabelOfOneAttempt ==
    entry.status # "NONE" =>
        \E a \in labelled : /\ local[a].validation_status = entry.status
                           /\ local[a].profiling_results = entry.metrics

\* What the handler reports when it ends with success is true of this attempt
\* and not left over from an earlier attempt on the thread: the catalog got
\* the label, the manifest is named exactly for a rejection, and no reason
\* for failure goes with COMPLIANT (main.py, the returned body).
OutcomeTruthful ==
    \A a \in Attempts : pc[a] = "exit_0" =>
        LET s == local[a] IN
        /\ a \in labelled
        /\ s.validation_status \in {"COMPLIANT", "NON_COMPLIANT"}
        /\ s.quarantine_manifest_uri =
              (IF s.validation_status = "COMPLIANT" THEN NoManifest ELSE ThreadOf(a))
        /\ (s.validation_status = "COMPLIANT") <=> (s.failure_reasoning = "None")

Mentions(logs, e) == Cardinality({i \in DOMAIN logs : logs[i] = e})

\* What the log of a catalog node says of the label it has set.
Claim(status) == IF status = "COMPLIANT" THEN "CATALOG_PROMOTED_AND_TAGGED"
                 ELSE "ISOLATION_MANIFEST_CREATED"

Verdicts == {"COMPLIANT", "NON_COMPLIANT"}

LabelledAs(t, status) ==
    {a \in labelled : ThreadOf(a) = t /\ local[a].validation_status = status}

\* The audit trail in the checkpoint of a thread never claims more promotions
\* or isolations than attempts of this very thread made in the catalog, after
\* any number of crashes and re-drives (the logs the nodes return).
AuditTrailJustified ==
    \A t \in Arns : \A v \in Verdicts :
        Mentions(ckpt[t].logs, Claim(v)) <= Cardinality(LabelledAs(t, v))

\* Every container that starts ends: the submission retries and the polling
\* are bounded, so an attempt cannot hang on a query Athena never finishes.
EveryAttemptEnds == \A a \in Attempts : pc[a] = "handler" ~> pc[a] \in Ended

Unsaved(a) == IF dirty[a] THEN 1 ELSE 0

\* How many steps an attempt may still take.
StepsLeft(a) ==
    LET q == query[a] IN
    IF pc[a] \notin Running THEN 0
    ELSE Unsaved(a) +
         CASE pc[a] = "handler" -> 22 + SubmitAttempts + PollLimit
           [] pc[a] = "profile_data_node" -> 16 + (SubmitAttempts - q.submits) + PollLimit
           [] pc[a] = "poll" -> 14 + (PollLimit - q.polls)
           [] pc[a] = "validate_dq_node" -> 11
           [] AtCatalogNode(a) -> IF base[a] = NoEntry THEN 8 ELSE 6
           [] pc[a] = "catalog_updated" -> 4
           [] OTHER -> 1

Progresses(a) ==
    pc[a] \in Running =>
        \/ StepsLeft(a)' < StepsLeft(a)
        \/ UNCHANGED <<pc[a], local[a], dirty[a], base[a],
                       query[a].submits, query[a].polls>>

\* Each of its own steps brings a running attempt nearer to its end, and no
\* other attempt, no commit and no answer of Athena takes it back: the retries
\* of the submission, the polling and the graph make no loop together
\* (execute_query_async; the graph of graph.py; why EveryAttemptEnds).
AttemptsProgress == [][\A a \in Attempts : Progresses(a)]_vars

\* The agent implements the gate: verdicts are the judged states of the
\* attempts, the label is what the catalog entry shows.
JudgedAttempts == {a \in Attempts : local[a].validation_status # "PENDING"}

Gate == INSTANCE GovernanceGate WITH
    history  <- {contents[i] : i \in DOMAIN contents},
    consents <- {local[a].profiling_results : a \in {b \in Attempts : answer[b] = "COMPLIANT"}},
    verdicts <- {[status  |-> local[a].validation_status,
                  metrics |-> local[a].profiling_results] : a \in JudgedAttempts},
    label    <- [status |-> entry.status, metrics |-> entry.metrics]

\* What readers of the catalog may rely on (GovernanceGate): labels are
\* published from verdicts, verdicts are about contents the table really had,
\* and COMPLIANT took both gates.
ImplementsGate == Gate!Spec

-----------------------------------------------------------------------------
(* The inductive invariant behind the safety properties (DQAgentProofs) *)

BeforeVerdict == {"idle", "handler", "profile_data_node", "poll", "validate_dq_node"}
Seen == {contents[i] : i \in DOMAIN contents}

\* Snapshots an attempt remembers exist, and the query can still be submitted.
QueryInv(a) ==
    /\ pc[a] \in {"idle", "handler", "profile_data_node"} => query[a].submits < SubmitAttempts
    /\ query[a].state = "SUCCEEDED" => query[a].snapshot \in DOMAIN contents
    /\ base[a] # NoEntry => base[a].metadata_location \in DOMAIN contents

\* No verdict before validate_dq_node, and then one with its evidence.
VerdictInv(a) ==
    LET s == local[a] IN
    /\ pc[a] \in BeforeVerdict => s.validation_status = "PENDING" /\ answer[a] = "none"
    /\ pc[a] = "validate_dq_node" => s.profiling_results \in Seen
    /\ s.validation_status # "PENDING" => s.profiling_results \in Seen
    /\ s.validation_status = "COMPLIANT" => ~HardBreach(s.profiling_results)
    /\ s.validation_status = "COMPLIANT" <=> answer[a] = "COMPLIANT"

\* Which branch an attempt is on agrees with its verdict.
BranchInv(a) ==
    LET s == local[a] IN
    /\ pc[a] = "quarantine_data_node" => s.validation_status = "NON_COMPLIANT"
    /\ pc[a] = "enhance_catalog_node" => s.validation_status = "COMPLIANT"
    /\ a \in labelled => s.validation_status # "PENDING"
    /\ pc[a] \in {"catalog_updated", "return", "exit_0"} => a \in labelled

\* The report an attempt builds up.
ReportInv(a) ==
    LET s == local[a] IN
    /\ pc[a] \in Running \ {"handler"} => ThreadOf(a) \in Arns
    /\ s.validation_status # "PENDING" =>
          (s.validation_status = "COMPLIANT" <=> s.failure_reasoning = "None")
    /\ pc[a] \in {"idle"} \cup (Running \ {"return"}) => s.quarantine_manifest_uri = NoManifest
    /\ pc[a] \in {"return", "exit_0"} =>
          s.quarantine_manifest_uri =
             (IF s.validation_status = "COMPLIANT" THEN NoManifest ELSE ThreadOf(a))

AttemptInv(a) == QueryInv(a) /\ VerdictInv(a) /\ BranchInv(a) /\ ReportInv(a)

\* Type correctness, what every attempt keeps at every step, and the label's
\* origin: an invariant that each step preserves by itself.
IndInv ==
    /\ TypeOK
    /\ \A a \in Attempts : AttemptInv(a)
    /\ LabelOfOneAttempt

\* The attempts whose claims may be in the log a holds: its own one is there
\* only once its node has returned.
Credited(a, v) == LabelledAs(ThreadOf(a), v) \ (IF pc[a] = "return" THEN {} ELSE {a})

\* What an attempt will write to the thread's checkpoint is covered already.
LogJustified(a) ==
    pc[a] \in Running \ {"handler"} =>
        \A v \in Verdicts : Mentions(local[a].logs, Claim(v)) <= Cardinality(Credited(a, v))

\* The audit trail, and why it stays justified (DQAgentAuditProofs).
AuditInv ==
    /\ IsFiniteSet(labelled)
    /\ AuditTrailJustified
    /\ \A a \in Attempts : pc[a] \in {"idle", "handler"} => ~dirty[a]
    /\ \A a \in Attempts : LogJustified(a)

-----------------------------------------------------------------------------
(* Claims of the documentation that the code does not keep *)

\* The other attempts of a's thread were killed.
Redriven(a) == \A b \in Attempts \ {a} : ThreadOf(b) = ThreadOf(a) => pc[b] = "killed"

\* main.py: "a retried/re-driven event resumes from where a prior attempt left
\* off instead of silently starting over".  When the thread's other attempts
\* were killed and the checkpoint they left holds a profile, the next attempt
\* would not start at profile_data_node again.
ResumesWhereLeftOff ==
    [][\A a \in Attempts :
         pc[a] = "handler" /\ pc'[a] = "profile_data_node" /\ Redriven(a)
           => ckpt[ThreadOf(a)].profiling_results = NoProfile]_vars

\* aws_glue.py: "Applies transaction-safe state changes".  A label update would
\* not take back an Iceberg commit made since the table was read.
CommitsStayVisible ==
    [][entry'.metadata_location >= entry.metadata_location]_vars
=============================================================================
