--------------------------- MODULE DQAgentProofs ---------------------------
(***************************************************************************)
(* Proofs about the data quality agent for every set of attempts and ARNs, *)
(* every threshold, every bound on retries, polls and commits.  IndInv     *)
(* (DQAgentProperties) is shown inductive; the safety properties and the   *)
(* refinement of GovernanceGate follow from it.                            *)
(***************************************************************************)
EXTENDS DQAgentProperties, TLAPS

-----------------------------------------------------------------------------
(* What the operators that build a channel state return *)

\* The channels a new run of the graph starts with are well typed.
LEMMA InitialContextType ==
    ASSUME NEW s \in AgentState
    PROVE  InitialContext(s) \in AgentState
BY NilAssumption DEF InitialContext, AgentState, Statuses, Reasons, LogEntries

\* Judging a state changes its verdict and its reason, and nothing else.
LEMMA JudgedFacts ==
    ASSUME NEW s \in AgentState, NEW v \in Statuses, NEW r \in Reasons
    PROVE  /\ Judged(s, v, r) \in AgentState
           /\ Judged(s, v, r).validation_status = v
           /\ Judged(s, v, r).failure_reasoning = r
           /\ Judged(s, v, r).profiling_results = s.profiling_results
           /\ Judged(s, v, r).quarantine_manifest_uri = s.quarantine_manifest_uri
BY DEF Judged, AgentState

\* The evaluator's answer becomes COMPLIANT exactly when it is that word.
LEMMA LLMJudgementFacts ==
    ASSUME NEW s \in AgentState, NEW ans \in Answers
    PROVE  /\ LLMJudgement(s, ans) \in AgentState
           /\ LLMJudgement(s, ans).validation_status \in {"COMPLIANT", "NON_COMPLIANT"}
           /\ LLMJudgement(s, ans).validation_status = "COMPLIANT" <=> ans = "COMPLIANT"
           /\ LLMJudgement(s, ans).failure_reasoning = "None" <=> ans = "COMPLIANT"
           /\ LLMJudgement(s, ans).profiling_results = s.profiling_results
           /\ LLMJudgement(s, ans).quarantine_manifest_uri = s.quarantine_manifest_uri
<1>1. CASE ans = "COMPLIANT"
  <2>1. LLMJudgement(s, ans) = Judged(s, "COMPLIANT", "None")
    BY <1>1 DEF LLMJudgement
  <2> QED
    BY <1>1, <2>1 DEF Judged, AgentState, Statuses, Reasons
<1>2. CASE ans # "COMPLIANT"
  <2>1. PICK r \in {"fail_closed", "llm_reasoning"} :
           LLMJudgement(s, ans) = Judged(s, "NON_COMPLIANT", r)
    BY <1>2 DEF LLMJudgement
  <2> QED
    BY <1>2, <2>1 DEF Judged, AgentState, Statuses, Reasons
<1> QED
  BY <1>1, <1>2

\* What a catalog node returns: the manifest of a rejection, a longer log.
LEMMA NodeResultFacts ==
    ASSUME NEW a \in Attempts, local[a] \in AgentState, ThreadOf(a) \in Arns
    PROVE  LET r == NodeResult(a) IN
           /\ r \in AgentState
           /\ r.validation_status = local[a].validation_status
           /\ r.failure_reasoning = local[a].failure_reasoning
           /\ r.profiling_results = local[a].profiling_results
           /\ r.quarantine_manifest_uri =
                 (IF local[a].validation_status = "NON_COMPLIANT"
                  THEN ThreadOf(a) ELSE local[a].quarantine_manifest_uri)
<1> DEFINE s == local[a]
<1>1. /\ Append(s.logs, "ISOLATION_MANIFEST_CREATED") \in Seq(LogEntries)
      /\ Append(s.logs, "CATALOG_PROMOTED_AND_TAGGED") \in Seq(LogEntries)
  BY DEF AgentState, LogEntries
<1>2. CASE s.validation_status = "NON_COMPLIANT"
  <2>1. NodeResult(a) = [s EXCEPT !.quarantine_manifest_uri = ThreadOf(a),
                                  !.logs = Append(@, "ISOLATION_MANIFEST_CREATED")]
    BY <1>2 DEF NodeResult, Route
  <2> QED
    BY <1>1, <1>2, <2>1 DEF AgentState
<1>3. CASE s.validation_status # "NON_COMPLIANT"
  <2>1. NodeResult(a) = [s EXCEPT !.logs = Append(@, "CATALOG_PROMOTED_AND_TAGGED")]
    BY <1>3 DEF NodeResult, Route
  <2> QED
    BY <1>1, <1>3, <2>1 DEF AgentState
<1> QED
  BY <1>2, <1>3

\* A commit adds a snapshot and leaves the older ones as they were.
LEMMA AppendFacts ==
    ASSUME NEW S, NEW s \in Seq(S), NEW x \in S
    PROVE  /\ Append(s, x) \in Seq(S)
           /\ DOMAIN Append(s, x) = 1 .. Len(s) + 1
           /\ DOMAIN s = 1 .. Len(s)
           /\ Len(s) \in Nat
           /\ \A i \in DOMAIN s : Append(s, x)[i] = s[i]
           /\ Append(s, x)[Len(s) + 1] = x
OBVIOUS

-----------------------------------------------------------------------------
(* Frames: what a step of one attempt leaves alone *)

\* Nothing that AttemptInv(b) speaks of changes.
Bystander(b) ==
    /\ pc'[b] = pc[b]
    /\ event'[b] = event[b]
    /\ local'[b] = local[b]
    /\ query'[b] = query[b]
    /\ answer'[b] = answer[b]
    /\ base'[b] = base[b]
    /\ b \in labelled' <=> b \in labelled
    /\ contents' = contents

\* An attempt that takes no part in a step keeps its invariant.
LEMMA BystanderKeepsInv ==
    ASSUME NEW b \in Attempts, AttemptInv(b), Bystander(b)
    PROVE  AttemptInv(b)'
<1> USE DEF Bystander
<1>1. QueryInv(b)'
  BY DEF AttemptInv, QueryInv
<1>2. VerdictInv(b)'
  BY DEF AttemptInv, VerdictInv, Seen
<1>3. BranchInv(b)'
  BY DEF AttemptInv, BranchInv
<1>4. ReportInv(b)'
  BY DEF AttemptInv, ReportInv, ThreadOf
<1> QED
  BY <1>1, <1>2, <1>3, <1>4 DEF AttemptInv

\* A step that leaves the label alone, and the channels of the attempts that
\* have labelled the table, keeps the label's origin.
LEMMA LabelKept ==
    ASSUME LabelOfOneAttempt,
           entry'.status = entry.status,
           entry'.metrics = entry.metrics,
           labelled \subseteq labelled',
           \A a \in labelled :
               /\ local'[a].validation_status = local[a].validation_status
               /\ local'[a].profiling_results = local[a].profiling_results
    PROVE  LabelOfOneAttempt'
BY DEF LabelOfOneAttempt

\* An attempt without a verdict has not labelled the table.
LEMMA NotYetLabelled ==
    ASSUME NEW a \in Attempts, AttemptInv(a), pc[a] \in BeforeVerdict
    PROVE  a \notin labelled
BY DEF AttemptInv, VerdictInv, BranchInv

-----------------------------------------------------------------------------
(* What a step does to the attempt that takes it *)

Places == {"idle"} \cup Running \cup Ended

\* Moving to a place changes the place of this attempt only.
LEMMA GotoFacts ==
    ASSUME TypeOK, NEW a \in Attempts, NEW w \in Places, Goto(a, w)
    PROVE  /\ pc' \in [Attempts -> Places]
           /\ pc'[a] = w
           /\ \A b \in Attempts \ {a} : pc'[b] = pc[b]
BY DEF TypeOK, Goto, Places

\* Ending a super-step changes the channels of this attempt only.
LEMMA EndSuperstepFacts ==
    ASSUME TypeOK, NEW a \in Attempts, NEW s \in AgentState, EndSuperstep(a, s)
    PROVE  /\ local' \in [Attempts -> AgentState]
           /\ dirty' \in [Attempts -> BOOLEAN]
           /\ local'[a] = s
           /\ \A b \in Attempts \ {a} : local'[b] = local[b]
BY DEF TypeOK, EndSuperstep

\* A container that vanishes keeps only its record.
LEMMA VanishFacts ==
    ASSUME TypeOK, NEW a \in Attempts, NEW w \in Ended, Vanish(a, w)
    PROVE  /\ pc' \in [Attempts -> Places]
           /\ dirty' \in [Attempts -> BOOLEAN]
           /\ query' \in [Attempts -> Queries]
           /\ base' \in [Attempts -> Entries \cup {NoEntry}]
           /\ pc'[a] = w
           /\ query'[a] = NoQuery
           /\ base'[a] = NoEntry
           /\ \A b \in Attempts \ {a} :
                 pc'[b] = pc[b] /\ query'[b] = query[b] /\ base'[b] = base[b]
<1>1. w \in Places
  BY DEF Places
<1>2. NoQuery \in Queries
  BY BoundsAssumption DEF NoQuery, Queries
<1> QED
  BY <1>1, <1>2, GotoFacts DEF Vanish, TypeOK

-----------------------------------------------------------------------------
(* What the actions that end a super-step or write the catalog achieve *)

\* Only the channels of attempt a change, and they stay well typed.
OnlyChannelsOf(a) ==
    /\ local' \in [Attempts -> AgentState]
    /\ dirty' \in [Attempts -> BOOLEAN]
    /\ \A b \in Attempts \ {a} : local'[b] = local[b]

\* Attempt a keeps its profile and its manifest.
KeepsProfile(a) ==
    /\ local'[a].profiling_results = local[a].profiling_results
    /\ local'[a].quarantine_manifest_uri = local[a].quarantine_manifest_uri

\* A new run of the graph starts without verdict, reason or manifest.
LEMMA InvokeEffect ==
    ASSUME IndInv, NEW a \in Attempts, Invoke(a)
    PROVE  /\ OnlyChannelsOf(a)
           /\ ThreadOf(a) \in Arns
           /\ local'[a].validation_status = "PENDING"
           /\ local'[a].quarantine_manifest_uri = NoManifest
<1>1. ThreadOf(a) \in Arns
  BY DEF Invoke, WellFormed, ThreadOf, IndInv, TypeOK, Events
<1>2. InitialContext(ckpt[ThreadOf(a)]) \in AgentState
  BY <1>1, InitialContextType DEF IndInv, TypeOK
<1>3. /\ OnlyChannelsOf(a)
      /\ local'[a] = InitialContext(ckpt[ThreadOf(a)])
  BY <1>2, EndSuperstepFacts DEF Invoke, IndInv, OnlyChannelsOf
<1> QED
  BY <1>1, <1>3 DEF InitialContext

\* A successful poll gives the attempt the profile of a snapshot.
LEMMA PollSucceededEffect ==
    ASSUME IndInv, NEW a \in Attempts, PollSucceeded(a)
    PROVE  /\ OnlyChannelsOf(a)
           /\ local'[a].profiling_results \in Seen
           /\ local'[a].validation_status = local[a].validation_status
           /\ local'[a].failure_reasoning = local[a].failure_reasoning
           /\ local'[a].quarantine_manifest_uri = local[a].quarantine_manifest_uri
<1> DEFINE s == [local[a] EXCEPT !.profiling_results = QueryResult(a)]
<1>1. QueryResult(a) \in Seen /\ QueryResult(a) \in Contents
  BY DEF PollSucceeded, QueryResult, Seen, IndInv, TypeOK, AttemptInv, QueryInv
<1>2. local[a] \in AgentState
  BY DEF IndInv, TypeOK
<1>3. s \in AgentState
  BY <1>1, <1>2 DEF AgentState
<1>4. OnlyChannelsOf(a) /\ local'[a] = s
  BY <1>3, EndSuperstepFacts DEF PollSucceeded, IndInv, OnlyChannelsOf
<1> QED
  BY <1>1, <1>2, <1>4 DEF AgentState

\* A hard barrier rejects and leads to the quarantine node.
LEMMA HardRejectEffect ==
    ASSUME IndInv, NEW a \in Attempts, HardReject(a)
    PROVE  /\ OnlyChannelsOf(a)
           /\ KeepsProfile(a)
           /\ local'[a].validation_status = "NON_COMPLIANT"
           /\ local'[a].failure_reasoning # "None"
           /\ Goto(a, "quarantine_data_node")
<1> DEFINE s == Judged(local[a], "NON_COMPLIANT", "hard_barrier")
<1>1. "NON_COMPLIANT" \in Statuses /\ "hard_barrier" \in Reasons
  BY DEF Statuses, Reasons
<1>2. local[a] \in AgentState
  BY DEF IndInv, TypeOK
<1>3. s \in AgentState /\ Route(s) = "quarantine_data_node"
  BY <1>1, <1>2, JudgedFacts DEF Route
<1>4. /\ OnlyChannelsOf(a)
      /\ local'[a] = s
      /\ Goto(a, "quarantine_data_node")
  BY <1>3, EndSuperstepFacts DEF HardReject, Validated, IndInv, OnlyChannelsOf
<1> QED
  BY <1>1, <1>2, <1>4, JudgedFacts DEF KeepsProfile

\* The evaluator's answer decides verdict, reason and branch alike.
LEMMA AskEvaluatorEffect ==
    ASSUME IndInv, NEW a \in Attempts, AskEvaluator(a)
    PROVE  /\ OnlyChannelsOf(a)
           /\ KeepsProfile(a)
           /\ local'[a].validation_status \in {"COMPLIANT", "NON_COMPLIANT"}
           /\ local'[a].validation_status = "COMPLIANT" <=> answer'[a] = "COMPLIANT"
           /\ local'[a].failure_reasoning = "None" <=> answer'[a] = "COMPLIANT"
           /\ answer' \in [Attempts -> Answers \cup {"none"}]
           /\ \A b \in Attempts \ {a} : answer'[b] = answer[b]
           /\ Goto(a, IF answer'[a] = "COMPLIANT" THEN "enhance_catalog_node"
                                                 ELSE "quarantine_data_node")
<1>1. PICK ans \in Answers : /\ answer' = [answer EXCEPT ![a] = ans]
                             /\ Validated(a, LLMJudgement(local[a], ans))
  BY DEF AskEvaluator
<1>2. /\ local[a] \in AgentState
      /\ answer'[a] = ans
      /\ answer' \in [Attempts -> Answers \cup {"none"}]
      /\ \A b \in Attempts \ {a} : answer'[b] = answer[b]
  BY <1>1 DEF IndInv, TypeOK
<1> DEFINE s == LLMJudgement(local[a], ans)
<1>3. /\ s \in AgentState
      /\ s.validation_status \in {"COMPLIANT", "NON_COMPLIANT"}
      /\ s.validation_status = "COMPLIANT" <=> ans = "COMPLIANT"
      /\ s.failure_reasoning = "None" <=> ans = "COMPLIANT"
      /\ s.profiling_results = local[a].profiling_results
      /\ s.quarantine_manifest_uri = local[a].quarantine_manifest_uri
  BY <1>2, LLMJudgementFacts
<1>4. EndSuperstep(a, s) /\ Goto(a, Route(s))
  BY <1>1 DEF Validated
<1> HIDE DEF s
<1>5. Route(s) = IF ans = "COMPLIANT" THEN "enhance_catalog_node"
                                     ELSE "quarantine_data_node"
  BY <1>3 DEF Route
<1>6. OnlyChannelsOf(a) /\ local'[a] = s
  BY <1>3, <1>4, EndSuperstepFacts DEF IndInv, OnlyChannelsOf
<1>7. KeepsProfile(a)
  BY <1>3, <1>6 DEF KeepsProfile
<1> QED
  BY <1>2, <1>3, <1>4, <1>5, <1>6, <1>7

\* The catalog gets this attempt's verdict and profile, on whatever snapshot
\* the fetched description pointed to.
LEMMA UpdateTableEffect ==
    ASSUME IndInv, NEW a \in Attempts, UpdateTable(a)
    PROVE  /\ entry' \in Entries
           /\ entry'.metadata_location \in DOMAIN contents
           /\ entry'.status = local[a].validation_status
           /\ entry'.metrics = local[a].profiling_results
<1>1. /\ base[a] \in Entries
      /\ base[a].metadata_location \in DOMAIN contents
  BY DEF UpdateTable, IndInv, TypeOK, AttemptInv, QueryInv
<1>2. LabelOf(pc[a]) = local[a].validation_status
  BY DEF UpdateTable, AtCatalogNode, LabelOf, IndInv, AttemptInv, BranchInv
<1>3. local[a].validation_status \in {"COMPLIANT", "NON_COMPLIANT"}
  BY <1>2 DEF LabelOf
<1>4. local[a].profiling_results \in Contents \cup {NoProfile}
  BY DEF IndInv, TypeOK, AgentState
<1> QED
  BY <1>1, <1>2, <1>3, <1>4 DEF UpdateTable, Enriched, Entries

\* The finished node adds to the report and leaves the verdict alone.
LEMMA FinishNodeEffect ==
    ASSUME IndInv, NEW a \in Attempts, FinishNode(a)
    PROVE  /\ OnlyChannelsOf(a)
           /\ local'[a].validation_status = local[a].validation_status
           /\ local'[a].failure_reasoning = local[a].failure_reasoning
           /\ local'[a].profiling_results = local[a].profiling_results
           /\ local'[a].quarantine_manifest_uri =
                 (IF local[a].validation_status = "COMPLIANT" THEN NoManifest ELSE ThreadOf(a))
<1>1. /\ ThreadOf(a) \in Arns
      /\ local[a].quarantine_manifest_uri = NoManifest
  BY DEF FinishNode, IndInv, AttemptInv, ReportInv, Running
<1>2. local[a] \in AgentState
  BY DEF IndInv, TypeOK
<1>3. local[a].validation_status \in {"COMPLIANT", "NON_COMPLIANT"}
  BY <1>2 DEF FinishNode, AgentState, Statuses, IndInv, AttemptInv, BranchInv
<1>4. OnlyChannelsOf(a) /\ local'[a] = NodeResult(a)
  BY <1>1, <1>2, NodeResultFacts, EndSuperstepFacts DEF FinishNode, IndInv, OnlyChannelsOf
<1> QED
  BY <1>1, <1>2, <1>3, <1>4, NodeResultFacts

-----------------------------------------------------------------------------
(* IndInv is inductive *)

\* In the initial states no attempt has started and no label is set.
THEOREM IndInvInit == Init => IndInv
<1> SUFFICES ASSUME Init PROVE IndInv
  OBVIOUS
<1>1. EmptyState \in AgentState
  BY DEF EmptyState, AgentState, Statuses, Reasons, LogEntries
<1>2. NoQuery \in Queries
  BY BoundsAssumption DEF NoQuery, Queries
<1>3. TypeOK
  BY <1>1, <1>2 DEF Init, TypeOK, Events, NoEvent, Entries
<1>4. ASSUME NEW a \in Attempts PROVE AttemptInv(a)
  <2>1. QueryInv(a)
    BY BoundsAssumption DEF Init, QueryInv, NoQuery
  <2>2. VerdictInv(a)
    BY DEF Init, VerdictInv, EmptyState
  <2>3. BranchInv(a)
    BY DEF Init, BranchInv
  <2>4. ReportInv(a)
    BY DEF Init, ReportInv, EmptyState, Running, GraphNodes
  <2> QED
    BY <2>1, <2>2, <2>3, <2>4 DEF AttemptInv
<1>5. LabelOfOneAttempt
  BY DEF Init, LabelOfOneAttempt
<1> QED
  BY <1>3, <1>4, <1>5 DEF IndInv

\* Every step preserves IndInv: one case per action; the attempts that take no
\* part in it are bystanders.
THEOREM IndInvStep == IndInv /\ [Next]_vars => IndInv'
<1> SUFFICES ASSUME IndInv, [Next]_vars PROVE IndInv'
  OBVIOUS
<1> USE DEF IndInv

<1>1. ASSUME NEW a \in Attempts, Deliver(a) PROVE IndInv'
  <2>1. TypeOK'
    BY <1>1, GotoFacts DEF Deliver, TypeOK, Places, Running, Ended, GraphNodes
  <2>2. AttemptInv(a)'
    <3>1. QueryInv(a)'
      BY <1>1, GotoFacts DEF Deliver, TypeOK, Places, Running, Ended, GraphNodes, AttemptInv, QueryInv
    <3>2. VerdictInv(a)'
      BY <1>1, GotoFacts DEF Deliver, Places, Running, Ended, GraphNodes, AttemptInv, VerdictInv, BeforeVerdict, Seen
    <3>3. BranchInv(a)'
      BY <1>1, GotoFacts DEF Deliver, Places, Running, Ended, GraphNodes, AttemptInv, BranchInv
    <3>4. ReportInv(a)'
      BY <1>1, GotoFacts DEF Deliver, Places, Running, Ended, GraphNodes, AttemptInv, VerdictInv, BeforeVerdict, ReportInv
    <3> QED
      BY <3>1, <3>2, <3>3, <3>4 DEF AttemptInv
  <2>3. ASSUME NEW b \in Attempts \ {a} PROVE AttemptInv(b)'
    BY <1>1, BystanderKeepsInv DEF Deliver, Goto, TypeOK, Bystander
  <2>4. LabelOfOneAttempt'
    BY <1>1, LabelKept DEF Deliver
  <2> QED
    BY <2>1, <2>2, <2>3, <2>4
<1>2. ASSUME NEW a \in Attempts, RejectEvent(a) PROVE IndInv'
  <2>1. TypeOK'
    BY <1>2, GotoFacts DEF RejectEvent, RejectCode, TypeOK, Places, Running, Ended, GraphNodes
  <2>2. AttemptInv(a)'
    <3>1. QueryInv(a)'
      BY <1>2 DEF RejectEvent, RejectCode, Goto, TypeOK, AttemptInv, QueryInv
    <3>2. VerdictInv(a)'
      BY <1>2 DEF RejectEvent, RejectCode, Goto, TypeOK, AttemptInv, VerdictInv, BeforeVerdict, Seen
    <3>3. BranchInv(a)'
      BY <1>2 DEF RejectEvent, RejectCode, Goto, TypeOK, AttemptInv, BranchInv
    <3>4. ReportInv(a)'
      BY <1>2 DEF RejectEvent, RejectCode, Goto, TypeOK, AttemptInv, ReportInv, ThreadOf, Running, GraphNodes
    <3> QED
      BY <3>1, <3>2, <3>3, <3>4 DEF AttemptInv
  <2>3. ASSUME NEW b \in Attempts \ {a} PROVE AttemptInv(b)'
    BY <1>2, BystanderKeepsInv DEF RejectEvent, Goto, TypeOK, Bystander
  <2>4. LabelOfOneAttempt'
    BY <1>2, LabelKept DEF RejectEvent
  <2> QED
    BY <2>1, <2>2, <2>3, <2>4
<1>3. ASSUME NEW a \in Attempts, Invoke(a) PROVE IndInv'
  <2>1. TypeOK'
    BY <1>3, InvokeEffect, GotoFacts DEF OnlyChannelsOf, Invoke, TypeOK, Places, Running, Ended, GraphNodes
  <2>2. AttemptInv(a)'
    <3>1. QueryInv(a)'
      BY <1>3 DEF Invoke, Goto, TypeOK, AttemptInv, QueryInv
    <3>2. VerdictInv(a)'
      BY <1>3, InvokeEffect DEF OnlyChannelsOf, Invoke, Goto, TypeOK, InitialContext, AttemptInv, VerdictInv, BeforeVerdict
    <3>3. BranchInv(a)'
      BY <1>3, InvokeEffect, NotYetLabelled DEF OnlyChannelsOf, Invoke, Goto, TypeOK, BeforeVerdict, BranchInv
    <3>4. ReportInv(a)'
      BY <1>3, InvokeEffect DEF OnlyChannelsOf, Invoke, Goto, TypeOK, InitialContext, AttemptInv, ReportInv, ThreadOf, Running, GraphNodes, WellFormed, Events
    <3> QED
      BY <3>1, <3>2, <3>3, <3>4 DEF AttemptInv
  <2>3. ASSUME NEW b \in Attempts \ {a} PROVE AttemptInv(b)'
    BY <1>3, InvokeEffect, BystanderKeepsInv DEF OnlyChannelsOf, Invoke, Goto, TypeOK, Bystander
  <2>4. LabelOfOneAttempt'
    BY <1>3, InvokeEffect, LabelKept, NotYetLabelled DEF OnlyChannelsOf, Invoke, BeforeVerdict, TypeOK
  <2> QED
    BY <2>1, <2>2, <2>3, <2>4
<1>4. ASSUME NEW a \in Attempts, SubmitQuery(a) PROVE IndInv'
  <2>1. TypeOK'
    <3> DEFINE q == [query[a] EXCEPT !.state = "RUNNING", !.submits = @ + 1]
    <3>1. q \in Queries
      BY <1>4, BoundsAssumption DEF SubmitQuery, TypeOK, Queries, AttemptInv, QueryInv
    <3>2. query' = [query EXCEPT ![a] = q]
      BY <1>4 DEF SubmitQuery, TypeOK
    <3>3. query' \in [Attempts -> Queries]
      BY <3>1, <3>2 DEF TypeOK
    <3> QED
      BY <1>4, <3>3, GotoFacts DEF SubmitQuery, TypeOK, Places, Running, Ended, GraphNodes
  <2>2. AttemptInv(a)'
    <3>1. QueryInv(a)'
      BY <1>4 DEF SubmitQuery, Goto, TypeOK, Queries, AttemptInv, QueryInv
    <3>2. VerdictInv(a)'
      BY <1>4 DEF SubmitQuery, Goto, TypeOK, AttemptInv, VerdictInv, BeforeVerdict, Seen
    <3>3. BranchInv(a)'
      BY <1>4 DEF SubmitQuery, Goto, TypeOK, AttemptInv, BranchInv
    <3>4. ReportInv(a)'
      BY <1>4 DEF SubmitQuery, Goto, TypeOK, AttemptInv, ReportInv, ThreadOf, Running, GraphNodes
    <3> QED
      BY <3>1, <3>2, <3>3, <3>4 DEF AttemptInv
  <2>3. ASSUME NEW b \in Attempts \ {a} PROVE AttemptInv(b)'
    BY <1>4, BystanderKeepsInv DEF SubmitQuery, Goto, TypeOK, Bystander
  <2>4. LabelOfOneAttempt'
    BY <1>4, LabelKept DEF SubmitQuery
  <2> QED
    BY <2>1, <2>2, <2>3, <2>4
<1>5. ASSUME NEW a \in Attempts, SubmitFails(a) PROVE IndInv'
  <2>1. TypeOK'
    <3> DEFINE q == [query[a] EXCEPT !.submits = @ + 1]
    <3>1. q \in Queries
      <4>1. query[a] \in Queries
        BY DEF TypeOK
      <4>2. query[a].submits + 1 \in 0 .. SubmitAttempts
        BY <1>5, <4>1, BoundsAssumption DEF SubmitFails, Queries, AttemptInv, QueryInv
      <4> QED
        BY <4>1, <4>2 DEF Queries
    <3>2. query' = [query EXCEPT ![a] = q]
      BY <1>5 DEF SubmitFails, TypeOK
    <3>3. query' \in [Attempts -> Queries]
      BY <3>1, <3>2 DEF TypeOK
    <3> QED
      BY <1>5, <3>3, GotoFacts DEF SubmitFails, TypeOK, Places, Running, Ended, GraphNodes
  <2>2. AttemptInv(a)'
    <3>1. QueryInv(a)'
      BY <1>5, BoundsAssumption DEF SubmitFails, Goto, TypeOK, Queries, AttemptInv, QueryInv
    <3>2. VerdictInv(a)'
      BY <1>5 DEF SubmitFails, Goto, TypeOK, AttemptInv, VerdictInv, BeforeVerdict, Seen
    <3>3. BranchInv(a)'
      BY <1>5 DEF SubmitFails, Goto, TypeOK, AttemptInv, BranchInv
    <3>4. ReportInv(a)'
      BY <1>5 DEF SubmitFails, Goto, TypeOK, AttemptInv, ReportInv, ThreadOf, Running, GraphNodes
    <3> QED
      BY <3>1, <3>2, <3>3, <3>4 DEF AttemptInv
  <2>3. ASSUME NEW b \in Attempts \ {a} PROVE AttemptInv(b)'
    BY <1>5, BystanderKeepsInv DEF SubmitFails, Goto, TypeOK, Bystander
  <2>4. LabelOfOneAttempt'
    BY <1>5, LabelKept DEF SubmitFails
  <2> QED
    BY <2>1, <2>2, <2>3, <2>4
<1>6. ASSUME NEW a \in Attempts, AthenaFinishes(a) PROVE IndInv'
  <2>1. TypeOK'
    <3>1. CASE query' = [query EXCEPT ![a].state = "SUCCEEDED",
                                   ![a].snapshot = entry.metadata_location]
      <4> DEFINE q == [query[a] EXCEPT !.state = "SUCCEEDED", !.snapshot = entry.metadata_location]
      <4>1. q \in Queries
        <5>1. query[a] \in Queries /\ entry.metadata_location \in Nat
          BY DEF TypeOK, Entries
        <5> QED
          BY <5>1 DEF Queries
      <4>2. query' = [query EXCEPT ![a] = q]
        BY <3>1 DEF TypeOK
      <4> QED
        BY <1>6, <4>1, <4>2 DEF AthenaFinishes, TypeOK
    <3>2. CASE query' = [query EXCEPT ![a].state = "FAILED"]
      <4> DEFINE q == [query[a] EXCEPT !.state = "FAILED"]
      <4>1. q \in Queries
        <5>1. query[a] \in Queries
          BY DEF TypeOK
        <5> QED
          BY <5>1 DEF Queries
      <4>2. query' = [query EXCEPT ![a] = q]
        BY <3>2 DEF TypeOK
      <4> QED
        BY <1>6, <4>1, <4>2 DEF AthenaFinishes, TypeOK
    <3> QED
      BY <1>6, <3>1, <3>2 DEF AthenaFinishes
  <2>2. AttemptInv(a)'
    <3>1. QueryInv(a)'
      BY <1>6 DEF AthenaFinishes, Goto, TypeOK, Queries, AttemptInv, QueryInv
    <3>2. VerdictInv(a)'
      BY <1>6 DEF AthenaFinishes, Goto, TypeOK, AttemptInv, VerdictInv, BeforeVerdict, Seen
    <3>3. BranchInv(a)'
      BY <1>6 DEF AthenaFinishes, Goto, TypeOK, AttemptInv, BranchInv
    <3>4. ReportInv(a)'
      BY <1>6 DEF AthenaFinishes, Goto, TypeOK, AttemptInv, ReportInv, ThreadOf, Running, GraphNodes
    <3> QED
      BY <3>1, <3>2, <3>3, <3>4 DEF AttemptInv
  <2>3. ASSUME NEW b \in Attempts \ {a} PROVE AttemptInv(b)'
    BY <1>6, BystanderKeepsInv DEF AthenaFinishes, Goto, TypeOK, Bystander
  <2>4. LabelOfOneAttempt'
    BY <1>6, LabelKept DEF AthenaFinishes
  <2> QED
    BY <2>1, <2>2, <2>3, <2>4
<1>7. ASSUME NEW a \in Attempts, PollRunning(a) PROVE IndInv'
  <2>1. TypeOK'
    <3> DEFINE q == [query[a] EXCEPT !.polls = @ + 1]
    <3>1. q \in Queries
      <4>1. query[a] \in Queries
        BY DEF TypeOK
      <4>2. query[a].polls + 1 \in 0 .. PollLimit
        BY <1>7, <4>1, BoundsAssumption DEF PollRunning, TimedOut, Queries
      <4> QED
        BY <4>1, <4>2 DEF Queries
    <3>2. query' = [query EXCEPT ![a] = q]
      BY <1>7 DEF PollRunning, TypeOK
    <3>3. query' \in [Attempts -> Queries]
      BY <3>1, <3>2 DEF TypeOK
    <3> QED
      BY <1>7, <3>3 DEF PollRunning, TypeOK
  <2>2. AttemptInv(a)'
    <3>1. QueryInv(a)'
      BY <1>7 DEF PollRunning, Goto, TypeOK, Queries, AttemptInv, QueryInv
    <3>2. VerdictInv(a)'
      BY <1>7 DEF PollRunning, Goto, TypeOK, AttemptInv, VerdictInv, BeforeVerdict, Seen
    <3>3. BranchInv(a)'
      BY <1>7 DEF PollRunning, Goto, TypeOK, AttemptInv, BranchInv
    <3>4. ReportInv(a)'
      BY <1>7 DEF PollRunning, Goto, TypeOK, AttemptInv, ReportInv, ThreadOf, Running, GraphNodes
    <3> QED
      BY <3>1, <3>2, <3>3, <3>4 DEF AttemptInv
  <2>3. ASSUME NEW b \in Attempts \ {a} PROVE AttemptInv(b)'
    BY <1>7, BystanderKeepsInv DEF PollRunning, Goto, TypeOK, Bystander
  <2>4. LabelOfOneAttempt'
    BY <1>7, LabelKept DEF PollRunning
  <2> QED
    BY <2>1, <2>2, <2>3, <2>4
<1>8. ASSUME NEW a \in Attempts, PollSucceeded(a) PROVE IndInv'
  <2>1. TypeOK'
    <3>1. NoQuery \in Queries
      BY BoundsAssumption DEF NoQuery, Queries
    <3> QED
      BY <1>8, PollSucceededEffect, <3>1, GotoFacts DEF OnlyChannelsOf, PollSucceeded, TypeOK, Places, Running, Ended, GraphNodes
  <2>2. AttemptInv(a)'
    <3>1. QueryInv(a)'
      BY <1>8, BoundsAssumption DEF PollSucceeded, Goto, TypeOK, NoQuery, AttemptInv, QueryInv
    <3>2. VerdictInv(a)'
      <4>1. VerdictInv(a) /\ pc[a] = "poll" /\ Seen' = Seen
        BY <1>8 DEF PollSucceeded, AttemptInv, Seen
      <4> QED
        BY <1>8, PollSucceededEffect, <4>1 DEF PollSucceeded, Goto, TypeOK, VerdictInv, BeforeVerdict
    <3>3. BranchInv(a)'
      BY <1>8, NotYetLabelled DEF PollSucceeded, Goto, TypeOK, BeforeVerdict, BranchInv
    <3>4. ReportInv(a)'
      BY <1>8, PollSucceededEffect DEF OnlyChannelsOf, PollSucceeded, Goto, TypeOK, AttemptInv, VerdictInv, BeforeVerdict, ReportInv, ThreadOf, Running, GraphNodes
    <3> QED
      BY <3>1, <3>2, <3>3, <3>4 DEF AttemptInv
  <2>3. ASSUME NEW b \in Attempts \ {a} PROVE AttemptInv(b)'
    BY <1>8, PollSucceededEffect, BystanderKeepsInv DEF OnlyChannelsOf, PollSucceeded, Goto, TypeOK, Bystander
  <2>4. LabelOfOneAttempt'
    BY <1>8, PollSucceededEffect, LabelKept, NotYetLabelled DEF OnlyChannelsOf, PollSucceeded, BeforeVerdict, TypeOK
  <2> QED
    BY <2>1, <2>2, <2>3, <2>4
<1>9. ASSUME NEW a \in Attempts, PollRaises(a) PROVE IndInv'
  <2>1. TypeOK'
    BY <1>9, GotoFacts DEF PollRaises, TypeOK, Places, Running, Ended, GraphNodes
  <2>2. AttemptInv(a)'
    <3>1. QueryInv(a)'
      BY <1>9 DEF PollRaises, Goto, TypeOK, Queries, AttemptInv, QueryInv
    <3>2. VerdictInv(a)'
      BY <1>9 DEF PollRaises, Goto, TypeOK, AttemptInv, VerdictInv, BeforeVerdict, Seen
    <3>3. BranchInv(a)'
      BY <1>9 DEF PollRaises, Goto, TypeOK, AttemptInv, BranchInv
    <3>4. ReportInv(a)'
      BY <1>9 DEF PollRaises, Goto, TypeOK, AttemptInv, ReportInv, ThreadOf, Running, GraphNodes
    <3> QED
      BY <3>1, <3>2, <3>3, <3>4 DEF AttemptInv
  <2>3. ASSUME NEW b \in Attempts \ {a} PROVE AttemptInv(b)'
    BY <1>9, BystanderKeepsInv DEF PollRaises, Goto, TypeOK, Bystander
  <2>4. LabelOfOneAttempt'
    BY <1>9, LabelKept DEF PollRaises
  <2> QED
    BY <2>1, <2>2, <2>3, <2>4
<1>10. ASSUME NEW a \in Attempts, HardReject(a) PROVE IndInv'
  <2>1. TypeOK'
    BY <1>10, HardRejectEffect, GotoFacts DEF OnlyChannelsOf, HardReject, TypeOK, Places, Running, Ended, GraphNodes
  <2>2. AttemptInv(a)'
    <3>1. QueryInv(a)'
      BY <1>10, HardRejectEffect DEF OnlyChannelsOf, HardReject, Goto, TypeOK, AttemptInv, QueryInv
    <3>2. VerdictInv(a)'
      BY <1>10, HardRejectEffect DEF OnlyChannelsOf, HardReject, Goto, TypeOK, AttemptInv, KeepsProfile, VerdictInv, BeforeVerdict, Seen
    <3>3. BranchInv(a)'
      BY <1>10, HardRejectEffect, NotYetLabelled DEF OnlyChannelsOf, HardReject, Goto, TypeOK, BeforeVerdict, BranchInv
    <3>4. ReportInv(a)'
      BY <1>10, HardRejectEffect DEF OnlyChannelsOf, HardReject, Goto, TypeOK, AttemptInv, KeepsProfile, ReportInv, ThreadOf, Running, GraphNodes
    <3> QED
      BY <3>1, <3>2, <3>3, <3>4 DEF AttemptInv
  <2>3. ASSUME NEW b \in Attempts \ {a} PROVE AttemptInv(b)'
    BY <1>10, HardRejectEffect, BystanderKeepsInv DEF OnlyChannelsOf, HardReject, Goto, TypeOK, Bystander
  <2>4. LabelOfOneAttempt'
    BY <1>10, HardRejectEffect, LabelKept, NotYetLabelled DEF OnlyChannelsOf, HardReject, BeforeVerdict, TypeOK
  <2> QED
    BY <2>1, <2>2, <2>3, <2>4
<1>11. ASSUME NEW a \in Attempts, AskEvaluator(a) PROVE IndInv'
  <2>1. TypeOK'
    <3>1. pc' \in [Attempts -> Places]
      BY <1>11, AskEvaluatorEffect, GotoFacts DEF Places, Running, GraphNodes
    <3> QED
      BY <1>11, <3>1, AskEvaluatorEffect DEF OnlyChannelsOf, AskEvaluator, TypeOK, Places
  <2>2. AttemptInv(a)'
    <3>1. QueryInv(a)'
      BY <1>11, AskEvaluatorEffect DEF OnlyChannelsOf, AskEvaluator, Goto, TypeOK, AttemptInv, QueryInv
    <3>2. VerdictInv(a)'
      <4>1. VerdictInv(a) /\ pc[a] = "validate_dq_node" /\ Seen' = Seen
        BY <1>11 DEF AskEvaluator, AttemptInv, Seen
      <4>2. pc'[a] \notin BeforeVerdict
        BY <1>11, AskEvaluatorEffect DEF Goto, TypeOK, BeforeVerdict
      <4>3. ~HardBreach(local[a].profiling_results)
        BY <1>11 DEF AskEvaluator
      <4> QED
        BY <1>11, AskEvaluatorEffect, <4>1, <4>2, <4>3 DEF KeepsProfile, VerdictInv, BeforeVerdict
    <3>3. BranchInv(a)'
      BY <1>11, AskEvaluatorEffect, NotYetLabelled DEF OnlyChannelsOf, AskEvaluator, Goto, TypeOK, BeforeVerdict, BranchInv
    <3>4. ReportInv(a)'
      <4>1. ReportInv(a) /\ pc[a] = "validate_dq_node" /\ ThreadOf(a)' = ThreadOf(a)
        BY <1>11 DEF AskEvaluator, AttemptInv, ThreadOf
      <4>2. pc'[a] \in {"quarantine_data_node", "enhance_catalog_node"}
        BY <1>11, AskEvaluatorEffect DEF Goto, TypeOK
      <4> QED
        BY <1>11, AskEvaluatorEffect, <4>1, <4>2 DEF KeepsProfile, ReportInv, Running, GraphNodes
    <3> QED
      BY <3>1, <3>2, <3>3, <3>4 DEF AttemptInv
  <2>3. ASSUME NEW b \in Attempts \ {a} PROVE AttemptInv(b)'
    <3>1. pc'[b] = pc[b]
      BY <1>11, AskEvaluatorEffect DEF Goto, TypeOK
    <3> QED
      BY <1>11, <3>1, AskEvaluatorEffect, BystanderKeepsInv DEF OnlyChannelsOf, AskEvaluator, Bystander
  <2>4. LabelOfOneAttempt'
    BY <1>11, AskEvaluatorEffect, LabelKept, NotYetLabelled DEF OnlyChannelsOf, AskEvaluator, BeforeVerdict, TypeOK
  <2> QED
    BY <2>1, <2>2, <2>3, <2>4
<1>12. ASSUME NEW a \in Attempts, GetTable(a) PROVE IndInv'
  <2>1. TypeOK'
    BY <1>12 DEF GetTable, TypeOK
  <2>2. AttemptInv(a)'
    <3>1. QueryInv(a)'
      BY <1>12 DEF GetTable, Goto, TypeOK, Queries, AttemptInv, QueryInv
    <3>2. VerdictInv(a)'
      BY <1>12 DEF GetTable, Goto, TypeOK, AttemptInv, VerdictInv, BeforeVerdict, Seen
    <3>3. BranchInv(a)'
      BY <1>12 DEF GetTable, Goto, TypeOK, AttemptInv, BranchInv
    <3>4. ReportInv(a)'
      BY <1>12 DEF GetTable, Goto, TypeOK, AttemptInv, ReportInv, ThreadOf, Running, GraphNodes
    <3> QED
      BY <3>1, <3>2, <3>3, <3>4 DEF AttemptInv
  <2>3. ASSUME NEW b \in Attempts \ {a} PROVE AttemptInv(b)'
    BY <1>12, BystanderKeepsInv DEF GetTable, Goto, TypeOK, Bystander
  <2>4. LabelOfOneAttempt'
    BY <1>12, LabelKept DEF GetTable
  <2> QED
    BY <2>1, <2>2, <2>3, <2>4
<1>13. ASSUME NEW a \in Attempts, UpdateTable(a) PROVE IndInv'
  <2>1. TypeOK'
    BY <1>13, UpdateTableEffect, GotoFacts DEF UpdateTable, TypeOK, Places, Running, Ended, GraphNodes
  <2>2. AttemptInv(a)'
    <3>1. QueryInv(a)'
      BY <1>13 DEF UpdateTable, AtCatalogNode, Goto, TypeOK, AttemptInv, QueryInv
    <3>2. VerdictInv(a)'
      BY <1>13 DEF UpdateTable, AtCatalogNode, Goto, TypeOK, AttemptInv, VerdictInv, BeforeVerdict, Seen
    <3>3. BranchInv(a)'
      BY <1>13 DEF UpdateTable, AtCatalogNode, Goto, TypeOK, AttemptInv, BranchInv
    <3>4. ReportInv(a)'
      BY <1>13 DEF UpdateTable, AtCatalogNode, Goto, TypeOK, AttemptInv, ReportInv, ThreadOf, Running, GraphNodes
    <3> QED
      BY <3>1, <3>2, <3>3, <3>4 DEF AttemptInv
  <2>3. ASSUME NEW b \in Attempts \ {a} PROVE AttemptInv(b)'
    BY <1>13, BystanderKeepsInv DEF UpdateTable, Goto, TypeOK, Bystander
  <2>4. LabelOfOneAttempt'
    BY <1>13, UpdateTableEffect DEF UpdateTable, LabelOfOneAttempt
  <2> QED
    BY <2>1, <2>2, <2>3, <2>4
<1>14. ASSUME NEW a \in Attempts, FinishNode(a) PROVE IndInv'
  <2>1. TypeOK'
    BY <1>14, FinishNodeEffect, GotoFacts DEF OnlyChannelsOf, FinishNode, TypeOK, Places, Running, Ended, GraphNodes
  <2>2. AttemptInv(a)'
    <3>1. QueryInv(a)'
      BY <1>14 DEF FinishNode, Goto, TypeOK, AttemptInv, QueryInv
    <3>2. VerdictInv(a)'
      <4>1. VerdictInv(a) /\ Seen' = Seen
        BY <1>14 DEF FinishNode, AttemptInv, Seen
      <4> QED
        BY <1>14, FinishNodeEffect, <4>1 DEF FinishNode, Goto, TypeOK, VerdictInv, BeforeVerdict
    <3>3. BranchInv(a)'
      BY <1>14, FinishNodeEffect DEF OnlyChannelsOf, FinishNode, Goto, TypeOK, AttemptInv, BranchInv
    <3>4. ReportInv(a)'
      BY <1>14, FinishNodeEffect DEF OnlyChannelsOf, FinishNode, Goto, TypeOK, AttemptInv, ReportInv, ThreadOf, Running, GraphNodes
    <3> QED
      BY <3>1, <3>2, <3>3, <3>4 DEF AttemptInv
  <2>3. ASSUME NEW b \in Attempts \ {a} PROVE AttemptInv(b)'
    BY <1>14, FinishNodeEffect, BystanderKeepsInv DEF OnlyChannelsOf, FinishNode, Goto, TypeOK, Bystander
  <2>4. LabelOfOneAttempt'
    BY <1>14, FinishNodeEffect, LabelKept DEF OnlyChannelsOf, FinishNode, TypeOK
  <2> QED
    BY <2>1, <2>2, <2>3, <2>4
<1>15. ASSUME NEW a \in Attempts, SaveCheckpoint(a) PROVE IndInv'
  <2>1. TypeOK'
    BY <1>15 DEF SaveCheckpoint, TypeOK
  <2>2. AttemptInv(a)'
    <3>1. QueryInv(a)'
      BY <1>15 DEF SaveCheckpoint, Goto, TypeOK, Queries, AttemptInv, QueryInv
    <3>2. VerdictInv(a)'
      BY <1>15 DEF SaveCheckpoint, Goto, TypeOK, AttemptInv, VerdictInv, BeforeVerdict, Seen
    <3>3. BranchInv(a)'
      BY <1>15 DEF SaveCheckpoint, Goto, TypeOK, AttemptInv, BranchInv
    <3>4. ReportInv(a)'
      BY <1>15 DEF SaveCheckpoint, Goto, TypeOK, AttemptInv, ReportInv, ThreadOf, Running, GraphNodes
    <3> QED
      BY <3>1, <3>2, <3>3, <3>4 DEF AttemptInv
  <2>3. ASSUME NEW b \in Attempts \ {a} PROVE AttemptInv(b)'
    BY <1>15, BystanderKeepsInv DEF SaveCheckpoint, Goto, TypeOK, Bystander
  <2>4. LabelOfOneAttempt'
    BY <1>15, LabelKept DEF SaveCheckpoint
  <2> QED
    BY <2>1, <2>2, <2>3, <2>4
<1>16. ASSUME NEW a \in Attempts, Return(a) PROVE IndInv'
  <2>1. TypeOK'
    BY <1>16, GotoFacts DEF Return, TypeOK, Places, Running, Ended, GraphNodes
  <2>2. AttemptInv(a)'
    <3>1. QueryInv(a)'
      BY <1>16 DEF Return, Goto, TypeOK, Queries, AttemptInv, QueryInv
    <3>2. VerdictInv(a)'
      BY <1>16 DEF Return, Goto, TypeOK, AttemptInv, VerdictInv, BeforeVerdict, Seen
    <3>3. BranchInv(a)'
      BY <1>16 DEF Return, Goto, TypeOK, AttemptInv, BranchInv
    <3>4. ReportInv(a)'
      BY <1>16 DEF Return, Goto, TypeOK, AttemptInv, ReportInv, ThreadOf, Running, GraphNodes
    <3> QED
      BY <3>1, <3>2, <3>3, <3>4 DEF AttemptInv
  <2>3. ASSUME NEW b \in Attempts \ {a} PROVE AttemptInv(b)'
    BY <1>16, BystanderKeepsInv DEF Return, Goto, TypeOK, Bystander
  <2>4. LabelOfOneAttempt'
    BY <1>16, LabelKept DEF Return
  <2> QED
    BY <2>1, <2>2, <2>3, <2>4
<1>17. ASSUME NEW a \in Attempts, CallFails(a) PROVE IndInv'
  <2>1. TypeOK'
    BY <1>17, VanishFacts DEF CallFails, TypeOK, Places, Running, Ended, GraphNodes
  <2>2. AttemptInv(a)'
    <3>1. QueryInv(a)'
      BY <1>17, VanishFacts, BoundsAssumption DEF CallFails, NoQuery, Ended, QueryInv
    <3>2. VerdictInv(a)'
      BY <1>17, VanishFacts DEF CallFails, Ended, AttemptInv, VerdictInv, BeforeVerdict, Seen
    <3>3. BranchInv(a)'
      BY <1>17, VanishFacts DEF CallFails, Ended, AttemptInv, BranchInv
    <3>4. ReportInv(a)'
      BY <1>17, VanishFacts DEF CallFails, Ended, AttemptInv, ReportInv, Running, GraphNodes
    <3> QED
      BY <3>1, <3>2, <3>3, <3>4 DEF AttemptInv
  <2>3. ASSUME NEW b \in Attempts \ {a} PROVE AttemptInv(b)'
    BY <1>17, VanishFacts, BystanderKeepsInv DEF CallFails, Ended, Bystander
  <2>4. LabelOfOneAttempt'
    BY <1>17, LabelKept DEF CallFails
  <2> QED
    BY <2>1, <2>2, <2>3, <2>4
<1>18. ASSUME NEW a \in Attempts, Kill(a) PROVE IndInv'
  <2>1. TypeOK'
    BY <1>18, VanishFacts DEF Kill, TypeOK, Places, Running, Ended, GraphNodes
  <2>2. AttemptInv(a)'
    <3>1. QueryInv(a)'
      BY <1>18, VanishFacts, BoundsAssumption DEF Kill, NoQuery, Ended, QueryInv
    <3>2. VerdictInv(a)'
      BY <1>18, VanishFacts DEF Kill, Ended, AttemptInv, VerdictInv, BeforeVerdict, Seen
    <3>3. BranchInv(a)'
      BY <1>18, VanishFacts DEF Kill, Ended, AttemptInv, BranchInv
    <3>4. ReportInv(a)'
      BY <1>18, VanishFacts DEF Kill, Ended, AttemptInv, ReportInv, Running, GraphNodes
    <3> QED
      BY <3>1, <3>2, <3>3, <3>4 DEF AttemptInv
  <2>3. ASSUME NEW b \in Attempts \ {a} PROVE AttemptInv(b)'
    BY <1>18, VanishFacts, BystanderKeepsInv DEF Kill, Ended, Bystander
  <2>4. LabelOfOneAttempt'
    BY <1>18, LabelKept DEF Kill
  <2> QED
    BY <2>1, <2>2, <2>3, <2>4
<1>19. ASSUME MergeCommit PROVE IndInv'
  <2>1. PICK p \in Contents : contents' = Append(contents, p)
    BY <1>19 DEF MergeCommit
  <2>2. /\ contents' \in Seq(Contents)
        /\ DOMAIN contents \subseteq DOMAIN contents'
        /\ Len(contents) + 1 \in DOMAIN contents' /\ Len(contents) \in Nat
        /\ \A i \in DOMAIN contents : contents'[i] = contents[i]
    BY <2>1, AppendFacts DEF TypeOK
  <2>3. /\ entry' \in Entries
        /\ entry'.metadata_location \in DOMAIN contents'
        /\ entry'.status = entry.status
        /\ entry'.metrics = entry.metrics
    <3>1. entry' = [entry EXCEPT !.metadata_location = Len(contents) + 1]
      BY <1>19 DEF MergeCommit
    <3>2. entry \in Entries
      BY DEF TypeOK
    <3> QED
      BY <2>2, <3>1, <3>2 DEF Entries
  <2>4. TypeOK'
    BY <1>19, <2>2, <2>3 DEF MergeCommit, agentVars, TypeOK
  <2>5. ASSUME NEW b \in Attempts PROVE AttemptInv(b)'
    <3>1. QueryInv(b)'
      BY <1>19, <2>2 DEF MergeCommit, agentVars, AttemptInv, QueryInv
    <3>2. VerdictInv(b)'
      BY <1>19, <2>2 DEF MergeCommit, agentVars, AttemptInv, VerdictInv, Seen
    <3>3. BranchInv(b)' /\ ReportInv(b)'
      BY <1>19 DEF MergeCommit, agentVars, AttemptInv, BranchInv, ReportInv, ThreadOf
    <3> QED
      BY <3>1, <3>2, <3>3 DEF AttemptInv
  <2>6. LabelOfOneAttempt'
    BY <1>19, <2>3, LabelKept DEF MergeCommit, agentVars
  <2> QED
    BY <2>4, <2>5, <2>6
<1>20. CASE UNCHANGED vars
  <2>1. TypeOK'
    BY <1>20 DEF vars, agentVars, TypeOK
  <2>2. ASSUME NEW b \in Attempts PROVE AttemptInv(b)'
    BY <1>20, BystanderKeepsInv DEF vars, agentVars, Bystander
  <2>3. LabelOfOneAttempt'
    BY <1>20, LabelKept DEF vars, agentVars
  <2> QED
    BY <2>1, <2>2, <2>3
<1> QED
  BY <1>1, <1>2, <1>3, <1>4, <1>5, <1>6, <1>7, <1>8, <1>9, <1>10,
     <1>11, <1>12, <1>13, <1>14, <1>15, <1>16, <1>17, <1>18, <1>19, <1>20 DEF Next, Step, AllEnded


-----------------------------------------------------------------------------
(* The properties *)

\* IndInv holds in every reachable state.
THEOREM InductiveInvariant == Spec => []IndInv
<1>1. Init => IndInv
  BY IndInvInit
<1>2. IndInv /\ [Next]_vars => IndInv'
  BY IndInvStep
<1> QED
  BY <1>1, <1>2, PTL DEF Spec

\* The agent's variables keep their types: no channel, query or catalog entry
\* takes a value the code does not know.
THEOREM TypeCorrect == Spec => []TypeOK
<1>1. IndInv => TypeOK
  BY DEF IndInv
<1> QED
  BY <1>1, InductiveInvariant, PTL

\* The gate never fails open: a COMPLIANT label always has a profile within
\* the limits and an evaluator's clear consent behind it.
THEOREM FailClosed == Spec => []CertifiedOnEvidence
<1>1. IndInv => CertifiedOnEvidence
  <2> SUFFICES ASSUME IndInv, entry.status = "COMPLIANT"
               PROVE  /\ ~HardBreach(entry.metrics)
                      /\ \E a \in labelled : /\ answer[a] = "COMPLIANT"
                                             /\ local[a].profiling_results = entry.metrics
    BY DEF CertifiedOnEvidence
  <2>1. PICK a \in labelled : /\ local[a].validation_status = entry.status
                              /\ local[a].profiling_results = entry.metrics
    BY DEF IndInv, LabelOfOneAttempt
  <2>2. VerdictInv(a)
    BY <2>1 DEF IndInv, TypeOK, AttemptInv
  <2> QED
    BY <2>1, <2>2 DEF VerdictInv
<1> QED
  BY <1>1, InductiveInvariant, PTL

\* The label and its metrics never mix two attempts.
THEOREM LabelNeverMixed == Spec => []LabelOfOneAttempt
<1>1. IndInv => LabelOfOneAttempt
  BY DEF IndInv
<1> QED
  BY <1>1, InductiveInvariant, PTL

\* A container that reports success has labelled the table, and reports its
\* own verdict, never one left in the checkpoint by an earlier attempt.
THEOREM OutcomesAreTrue == Spec => []OutcomeTruthful
<1>1. IndInv => OutcomeTruthful
  <2> SUFFICES ASSUME IndInv, NEW a \in Attempts, pc[a] = "exit_0"
               PROVE  /\ a \in labelled
                      /\ local[a].validation_status \in {"COMPLIANT", "NON_COMPLIANT"}
                      /\ local[a].quarantine_manifest_uri =
                            (IF local[a].validation_status = "COMPLIANT"
                             THEN NoManifest ELSE ThreadOf(a))
                      /\ (local[a].validation_status = "COMPLIANT")
                            <=> (local[a].failure_reasoning = "None")
    BY DEF OutcomeTruthful
  <2>1. local[a].validation_status \in Statuses
    BY DEF IndInv, TypeOK, AgentState
  <2>2. BranchInv(a) /\ ReportInv(a)
    BY DEF IndInv, AttemptInv
  <2> QED
    BY <2>1, <2>2 DEF BranchInv, ReportInv, Statuses
<1> QED
  BY <1>1, InductiveInvariant, PTL

-----------------------------------------------------------------------------
(* Progress *)

\* What StepsLeft reads of an attempt.
Frozen(b) == UNCHANGED <<pc[b], local[b], dirty[b], base[b],
                         query[b].submits, query[b].polls>>

\* No attempt moves another one, nor do Athena and the pipeline.
LEMMA OthersFrozen ==
    ASSUME IndInv, NEW a \in Attempts, NEW b \in Attempts \ {a},
           Deliver(a) \/ Step(a) \/ Kill(a)
    PROVE  Frozen(b)
<1> USE DEF IndInv, TypeOK, Frozen, Goto, EndSuperstep, Vanish, Validated
<1>1. CASE Deliver(a) \/ RejectEvent(a) \/ Invoke(a)
  BY <1>1 DEF Deliver, RejectEvent, Invoke
<1>2. CASE SubmitQuery(a) \/ SubmitFails(a) \/ PollRunning(a)
  BY <1>2 DEF SubmitQuery, SubmitFails, PollRunning
<1>3. CASE PollSucceeded(a) \/ PollRaises(a) \/ HardReject(a) \/ AskEvaluator(a)
  BY <1>3 DEF PollSucceeded, PollRaises, HardReject, AskEvaluator
<1>4. CASE GetTable(a) \/ UpdateTable(a) \/ FinishNode(a)
  BY <1>4 DEF GetTable, UpdateTable, FinishNode
<1>5. CASE SaveCheckpoint(a) \/ Return(a) \/ CallFails(a) \/ Kill(a)
  BY <1>5 DEF SaveCheckpoint, Return, CallFails, Kill
<1> QED
  BY <1>1, <1>2, <1>3, <1>4, <1>5 DEF Step

\* The super-step that is not saved yet, as a number.
LEMMA UnsavedFacts ==
    ASSUME NEW a \in Attempts
    PROVE  /\ Unsaved(a) \in {0, 1} /\ Unsaved(a)' \in {0, 1}
           /\ dirty'[a] = dirty[a] => Unsaved(a)' = Unsaved(a)
           /\ ~dirty[a] => Unsaved(a) = 0
           /\ dirty[a] => Unsaved(a) = 1
           /\ ~dirty'[a] => Unsaved(a)' = 0
BY DEF Unsaved

\* StepsLeft is positive while an attempt runs, and falls to 0 when it ends.
LEMMA EndedHasNoStepsLeft ==
    ASSUME TypeOK, NEW a \in Attempts, pc[a] \in Running, pc'[a] \in Ended
    PROVE  StepsLeft(a)' < StepsLeft(a)
<1>1. /\ query[a].submits \in 0 .. SubmitAttempts /\ query[a].polls \in 0 .. PollLimit
      /\ SubmitAttempts \in Nat /\ PollLimit \in Nat
  BY BoundsAssumption DEF TypeOK, Queries
<1>2. StepsLeft(a)' = 0
  BY DEF StepsLeft, Ended, Running, GraphNodes
<1>3. StepsLeft(a) > 0
  BY <1>1, UnsavedFacts DEF StepsLeft, Running, GraphNodes, AtCatalogNode
<1> QED
  BY <1>2, <1>3

\* Submission retries, polling and the graph make no loop, for any limits: an
\* attempt takes at most StepsLeft steps, whatever the others do meanwhile.
THEOREM AttemptsMakeProgress == Spec => AttemptsProgress
<1>1. ASSUME IndInv, NEW a \in Attempts, pc[a] \in Running, Step(a) \/ Kill(a)
      PROVE  Progresses(a)
  <2> DEFINE s == query[a].submits
             p == query[a].polls
  <2>0. TypeOK /\ query[a] \in Queries
    BY <1>1 DEF IndInv, TypeOK
  <2>1. /\ s \in 0 .. SubmitAttempts /\ p \in 0 .. PollLimit
        /\ SubmitAttempts \in Nat /\ PollLimit \in Nat
        /\ pc[a] = "profile_data_node" => s < SubmitAttempts
    BY <1>1, <2>0, BoundsAssumption DEF IndInv, Queries, AttemptInv, QueryInv
  <2>2. /\ Unsaved(a) \in {0, 1} /\ Unsaved(a)' \in {0, 1}
        /\ dirty'[a] = dirty[a] => Unsaved(a)' = Unsaved(a)
        /\ ~dirty[a] => Unsaved(a) = 0
    BY UnsavedFacts
  <2> SUFFICES StepsLeft(a)' < StepsLeft(a)
    BY DEF Progresses
  <2>3. CASE pc'[a] \in Ended
    BY <1>1, <2>0, <2>3, EndedHasNoStepsLeft
  <2>4. CASE Invoke(a)
    <3>1. /\ pc[a] = "handler" /\ pc'[a] = "profile_data_node"
          /\ ~dirty[a] /\ query'[a] = query[a]
      BY <2>0, <2>4 DEF Invoke, Goto, EndSuperstep, TypeOK
    <3>2. StepsLeft(a) = Unsaved(a) + (22 + SubmitAttempts + PollLimit)
      BY <2>1, <2>2, <3>1 DEF StepsLeft, Running, GraphNodes, AtCatalogNode
    <3>3. StepsLeft(a)' = Unsaved(a)' + (16 + (SubmitAttempts - s) + PollLimit)
      BY <2>1, <2>2, <3>1 DEF StepsLeft, Running, GraphNodes, AtCatalogNode
    <3> QED
      BY <2>1, <2>2, <3>1, <3>2, <3>3
  <2>5. CASE SubmitQuery(a)
    <3>1. /\ pc[a] = "profile_data_node" /\ pc'[a] = "poll"
          /\ dirty' = dirty /\ query'[a].polls = p
      BY <2>0, <2>5 DEF SubmitQuery, Goto, TypeOK, Queries
    <3>2. StepsLeft(a) = Unsaved(a) + (16 + (SubmitAttempts - s) + PollLimit)
      BY <2>1, <2>2, <3>1 DEF StepsLeft, Running, GraphNodes, AtCatalogNode
    <3>3. StepsLeft(a)' = Unsaved(a)' + (14 + (PollLimit - p))
      BY <2>1, <2>2, <3>1 DEF StepsLeft, Running, GraphNodes, AtCatalogNode
    <3> QED
      BY <2>1, <2>2, <3>1, <3>2, <3>3
  <2>6. CASE SubmitFails(a) /\ pc' = pc
    <3>1. /\ pc[a] = "profile_data_node" /\ pc'[a] = "profile_data_node"
          /\ dirty' = dirty /\ query'[a].submits = s + 1
      BY <2>0, <2>6 DEF SubmitFails, TypeOK, Queries
    <3>2. StepsLeft(a) = Unsaved(a) + (16 + (SubmitAttempts - s) + PollLimit)
      BY <2>1, <2>2, <3>1 DEF StepsLeft, Running, GraphNodes, AtCatalogNode
    <3>3. StepsLeft(a)' = Unsaved(a)' + (16 + (SubmitAttempts - (s + 1)) + PollLimit)
      BY <2>1, <2>2, <3>1 DEF StepsLeft, Running, GraphNodes, AtCatalogNode
    <3> QED
      BY <2>1, <2>2, <3>1, <3>2, <3>3
  <2>7. CASE PollRunning(a)
    <3>1. /\ pc[a] = "poll" /\ pc'[a] = "poll"
          /\ dirty' = dirty /\ query'[a].polls = p + 1
      BY <2>0, <2>7 DEF PollRunning, TypeOK, Queries
    <3>2. StepsLeft(a) = Unsaved(a) + (14 + (PollLimit - p))
      BY <2>1, <2>2, <3>1 DEF StepsLeft, Running, GraphNodes, AtCatalogNode
    <3>3. StepsLeft(a)' = Unsaved(a)' + (14 + (PollLimit - (p + 1)))
      BY <2>1, <2>2, <3>1 DEF StepsLeft, Running, GraphNodes, AtCatalogNode
    <3> QED
      BY <2>1, <2>2, <3>1, <3>2, <3>3
  <2>8. CASE PollSucceeded(a)
    <3>1. pc[a] = "poll" /\ pc'[a] = "validate_dq_node" /\ ~dirty[a]
      BY <2>0, <2>8 DEF PollSucceeded, Goto, EndSuperstep, TypeOK
    <3>2. StepsLeft(a) = Unsaved(a) + (14 + (PollLimit - p))
      BY <2>1, <2>2, <3>1 DEF StepsLeft, Running, GraphNodes, AtCatalogNode
    <3>3. StepsLeft(a)' = Unsaved(a)' + 11
      BY <2>1, <2>2, <3>1 DEF StepsLeft, Running, GraphNodes, AtCatalogNode
    <3> QED
      BY <2>1, <2>2, <3>1, <3>2, <3>3
  <2>9. CASE HardReject(a) \/ AskEvaluator(a)
    <3>1. /\ pc[a] = "validate_dq_node" /\ ~dirty[a]
          /\ pc'[a] \in {"quarantine_data_node", "enhance_catalog_node"}
      BY <2>0, <2>9
         DEF HardReject, AskEvaluator, Validated, Route, Goto, EndSuperstep, TypeOK
    <3>2. StepsLeft(a) = Unsaved(a) + 11
      BY <2>1, <2>2, <3>1 DEF StepsLeft, Running, GraphNodes, AtCatalogNode
    <3>3. StepsLeft(a)' \in {Unsaved(a)' + 8, Unsaved(a)' + 6}
      BY <2>1, <2>2, <3>1 DEF StepsLeft, Running, GraphNodes, AtCatalogNode
    <3> QED
      BY <2>1, <2>2, <3>1, <3>2, <3>3
  <2>10. CASE GetTable(a)
    <3>1. /\ AtCatalogNode(a) /\ pc'[a] = pc[a] /\ dirty' = dirty
          /\ base[a] = NoEntry /\ base'[a] = entry
      BY <2>0, <2>10 DEF GetTable, TypeOK
    <3>2. entry # NoEntry
      BY <2>0, NoEntryAssumption DEF TypeOK
    <3>3. StepsLeft(a) = Unsaved(a) + 8
      BY <2>1, <2>2, <3>1 DEF StepsLeft, Running, GraphNodes, AtCatalogNode
    <3>4. StepsLeft(a)' = Unsaved(a)' + 6
      BY <3>1, <3>2 DEF StepsLeft, Running, GraphNodes, AtCatalogNode
    <3> QED
      BY <2>1, <2>2, <3>1, <3>3, <3>4
  <2>11. CASE UpdateTable(a) /\ pc'[a] = "catalog_updated"
    <3>1. AtCatalogNode(a) /\ dirty' = dirty
      BY <2>11 DEF UpdateTable
    <3>2. StepsLeft(a) \in {Unsaved(a) + 8, Unsaved(a) + 6}
      BY <2>1, <2>2, <3>1 DEF StepsLeft, Running, GraphNodes, AtCatalogNode
    <3>3. StepsLeft(a)' = Unsaved(a)' + 4
      BY <2>11 DEF StepsLeft, Running, GraphNodes, AtCatalogNode
    <3> QED
      BY <2>1, <2>2, <3>1, <3>2, <3>3
  <2>12. CASE FinishNode(a)
    <3>1. pc[a] = "catalog_updated" /\ pc'[a] = "return" /\ ~dirty[a]
      BY <2>0, <2>12 DEF FinishNode, Goto, EndSuperstep, TypeOK
    <3>2. StepsLeft(a) = Unsaved(a) + 4
      BY <2>1, <2>2, <3>1 DEF StepsLeft, Running, GraphNodes, AtCatalogNode
    <3>3. StepsLeft(a)' = Unsaved(a)' + 1
      BY <2>1, <2>2, <3>1 DEF StepsLeft, Running, GraphNodes, AtCatalogNode
    <3> QED
      BY <2>1, <2>2, <3>1, <3>2, <3>3
  <2>13. CASE SaveCheckpoint(a)
    <3>1. Unsaved(a) = 1 /\ Unsaved(a)' = 0
      BY <2>0, <2>13 DEF SaveCheckpoint, Unsaved, TypeOK
    <3> DEFINE rest == StepsLeft(a) - Unsaved(a)
    <3>2. rest \in Int /\ StepsLeft(a) = Unsaved(a) + rest
      <4>1. StepsLeft(a) \in Int
        BY <1>1, <2>1, <2>2 DEF StepsLeft, Running, GraphNodes, AtCatalogNode
      <4> QED
        BY <2>2, <4>1
    <3>3. StepsLeft(a)' = Unsaved(a)' + rest
      BY <1>1, <2>1, <2>2, <2>13 DEF SaveCheckpoint, StepsLeft, Running, GraphNodes, AtCatalogNode
    <3> HIDE DEF rest
    <3> QED
      BY <3>1, <3>2, <3>3
  <2>14. CASE RejectEvent(a) \/ PollRaises(a) \/ Return(a) \/ CallFails(a) \/ Kill(a)
    <3>1. pc'[a] \in Ended
      BY <2>0, <2>14
         DEF RejectEvent, RejectCode, PollRaises, Return, CallFails, Kill, Vanish, Ended,
             Goto, TypeOK
    <3> QED
      BY <2>3, <3>1
  <2>15. SubmitFails(a) => pc' = pc \/ pc'[a] \in Ended
    BY <2>0 DEF SubmitFails, Ended, Goto, TypeOK
  <2>16. UpdateTable(a) => pc'[a] = "catalog_updated" \/ pc'[a] \in Ended
    BY <2>0 DEF UpdateTable, Ended, Goto, TypeOK
  <2> QED
    BY <1>1, <2>3, <2>4, <2>5, <2>6, <2>7, <2>8, <2>9, <2>10, <2>11, <2>12, <2>13,
       <2>14, <2>15, <2>16 DEF Step
<1>2. ASSUME IndInv, NEW a \in Attempts, AthenaFinishes(a) PROVE Frozen(a)
  BY <1>2 DEF AthenaFinishes, Frozen, IndInv, TypeOK, Queries
<1>3. ASSUME IndInv, NEW a \in Attempts, NEW b \in Attempts \ {a}, AthenaFinishes(a)
      PROVE  Frozen(b)
  BY <1>3 DEF AthenaFinishes, Frozen, IndInv, TypeOK
<1>4. ASSUME MergeCommit \/ AllEnded \/ UNCHANGED vars, NEW b \in Attempts PROVE Frozen(b)
  BY <1>4 DEF MergeCommit, AllEnded, vars, agentVars, Frozen
<1>5. ASSUME NEW a \in Attempts, Deliver(a) PROVE Progresses(a)
  BY <1>5 DEF Deliver, Progresses, Running, GraphNodes
<1>6. IndInv /\ [Next]_vars => \A a \in Attempts : Progresses(a)
  <2> SUFFICES ASSUME IndInv, [Next]_vars, NEW b \in Attempts, pc[b] \in Running
               PROVE  Progresses(b)
    BY DEF Progresses
  <2>1. Frozen(b) => Progresses(b)
    BY DEF Frozen, Progresses
  <2>2. ASSUME NEW a \in Attempts, Deliver(a) \/ Step(a) \/ AthenaFinishes(a) \/ Kill(a)
        PROVE  Progresses(b)
    <3>1. CASE a = b
      BY <1>1, <1>2, <1>5, <2>1, <2>2, <3>1
    <3>2. CASE a # b
      BY <1>3, <2>1, <2>2, <3>2, OthersFrozen
    <3> QED
      BY UnsavedFacts, <3>1, <3>2
  <2> QED
    BY <1>4, <2>1, <2>2 DEF Next
<1>7. Spec => [][\A a \in Attempts : Progresses(a)]_vars
  BY <1>6, InductiveInvariant, PTL DEF Spec
<1> QED
  BY <1>7 DEF AttemptsProgress

-----------------------------------------------------------------------------
(* The data quality agent implements the governance gate: under the mapping *)
(* of DQAgentProperties every behaviour of DQAgent is one of GovernanceGate *)

\* Gate and agent judge by the same limits.
LEMMA SameHardLimits == ASSUME NEW p PROVE Gate!HardBreach(p) <=> HardBreach(p)
BY DEF HardBreach, Gate!HardBreach, ExceedsNullThreshold, Gate!ExceedsNullThreshold

\* The initial states of the agent are initial states of the gate.
THEOREM GateInit == Init => Gate!Init
<1> SUFFICES ASSUME Init PROVE Gate!Init
  OBVIOUS
<1>1. Seen \in SUBSET Contents
  BY DEF Init, Seen
<1>2. JudgedAttempts = {}
  BY DEF Init, JudgedAttempts, EmptyState
<1>3. {b \in Attempts : answer[b] = "COMPLIANT"} = {}
  BY DEF Init
<1>4. entry.status = "NONE" /\ entry.metrics = NoProfile
  BY DEF Init
<1> QED
  BY <1>1, <1>2, <1>3, <1>4 DEF Gate!Init, Gate!Unlabelled, Seen

\* Steps that touch neither verdicts nor label nor contents are stutters.
LEMMA GateStutters ==
    ASSUME contents' = contents,
           entry' = entry,
           answer' = answer,
           \A b \in Attempts :
               /\ local'[b].validation_status = local[b].validation_status
               /\ local[b].validation_status # "PENDING" \/ answer[b] = "COMPLIANT"
                    => local'[b].profiling_results = local[b].profiling_results
    PROVE  UNCHANGED Gate!vars
<1>1. JudgedAttempts' = JudgedAttempts
  BY DEF JudgedAttempts
<1>2. \A b \in JudgedAttempts :
         /\ local'[b].validation_status = local[b].validation_status
         /\ local'[b].profiling_results = local[b].profiling_results
  BY DEF JudgedAttempts
<1>3. {[status  |-> local[a].validation_status,
        metrics |-> local[a].profiling_results] : a \in JudgedAttempts}'
      = {[status  |-> local[a].validation_status,
          metrics |-> local[a].profiling_results] : a \in JudgedAttempts}
  BY <1>1, <1>2
<1>4. {local[a].profiling_results : a \in {b \in Attempts : answer[b] = "COMPLIANT"}}'
      = {local[a].profiling_results : a \in {b \in Attempts : answer[b] = "COMPLIANT"}}
  OBVIOUS
<1> QED
  BY <1>3, <1>4 DEF Gate!vars

\* The verdict an attempt has reached.
VerdictOf(a) == [status  |-> local[a].validation_status,
                 metrics |-> local[a].profiling_results]

\* The gate's variables under the mapping, one by one.
LEMMA GateVars ==
    Gate!vars = <<Seen,
                  {local[a].profiling_results : a \in {b \in Attempts : answer[b] = "COMPLIANT"}},
                  {VerdictOf(a) : a \in JudgedAttempts},
                  [status |-> entry.status, metrics |-> entry.metrics]>>
BY DEF Gate!vars, Seen, VerdictOf

\* A verdict of attempt a joins the verdicts, and nothing leaves them.
LEMMA VerdictAdded ==
    ASSUME TypeOK, NEW a \in Attempts, OnlyChannelsOf(a),
           local[a].validation_status = "PENDING",
           local'[a].validation_status # "PENDING"
    PROVE  {VerdictOf(b) : b \in JudgedAttempts}'
             = {VerdictOf(b) : b \in JudgedAttempts} \cup {VerdictOf(a)'}
<1>1. JudgedAttempts' = JudgedAttempts \cup {a} /\ a \notin JudgedAttempts
  BY DEF JudgedAttempts, OnlyChannelsOf
<1>2. \A b \in JudgedAttempts : VerdictOf(b)' = VerdictOf(b)
  BY <1>1 DEF JudgedAttempts, OnlyChannelsOf, VerdictOf
<1> QED
  BY <1>1, <1>2

\* A step of the agent is a step of the gate or leaves it unchanged.
THEOREM GateStep == IndInv /\ IndInv' /\ [Next]_vars => [Gate!Next]_Gate!vars
<1> SUFFICES ASSUME IndInv, IndInv', [Next]_vars PROVE [Gate!Next]_Gate!vars
  OBVIOUS
<1> USE DEF IndInv
<1>1. ASSUME NEW a \in Attempts, Invoke(a) PROVE UNCHANGED Gate!vars
  <2>1. local[a].validation_status = "PENDING" /\ answer[a] = "none"
    BY <1>1 DEF Invoke, AttemptInv, VerdictInv, BeforeVerdict
  <2> QED
    BY <1>1, <2>1, InvokeEffect, GateStutters DEF Invoke, OnlyChannelsOf
<1>2. ASSUME NEW a \in Attempts, PollSucceeded(a) PROVE UNCHANGED Gate!vars
  <2>1. local[a].validation_status = "PENDING" /\ answer[a] = "none"
    BY <1>2 DEF PollSucceeded, AttemptInv, VerdictInv, BeforeVerdict
  <2> QED
    BY <1>2, <2>1, PollSucceededEffect, GateStutters DEF PollSucceeded, OnlyChannelsOf
<1>3. ASSUME NEW a \in Attempts, FinishNode(a) PROVE UNCHANGED Gate!vars
  BY <1>3, FinishNodeEffect, GateStutters DEF FinishNode, OnlyChannelsOf
<1>4. ASSUME NEW a \in Attempts, HardReject(a) PROVE Gate!Next
  <2>0. PICK p : p = local[a].profiling_results
    OBVIOUS
  <2>1. /\ p \in Seen
        /\ p \in Contents
        /\ local[a].validation_status = "PENDING" /\ answer[a] = "none"
    BY <1>4, <2>0 DEF HardReject, TypeOK, Seen, AttemptInv, VerdictInv, BeforeVerdict
  <2>2. {VerdictOf(b) : b \in JudgedAttempts}'
          = {VerdictOf(b) : b \in JudgedAttempts}
              \cup {[status |-> "NON_COMPLIANT", metrics |-> p]}
    BY <1>4, <2>0, <2>1, HardRejectEffect, VerdictAdded DEF KeepsProfile, VerdictOf
  <2>3. \A b \in Attempts : local'[b].profiling_results = local[b].profiling_results
    BY <1>4, HardRejectEffect DEF OnlyChannelsOf, KeepsProfile
  <2>4. Gate!Reject(p)
    BY <1>4, <2>1, <2>2, <2>3 DEF HardReject, Gate!Reject, Seen, VerdictOf
  <2> QED
    BY <2>1, <2>4 DEF Gate!Next
<1>5. ASSUME NEW a \in Attempts, AskEvaluator(a) PROVE Gate!Next
  <2>0. PICK p : p = local[a].profiling_results
    OBVIOUS
  <2> DEFINE consents == {local[b].profiling_results :
                         b \in {c \in Attempts : answer[c] = "COMPLIANT"}}
  <2>1. /\ p \in Seen
        /\ p \in Contents
        /\ local[a].validation_status = "PENDING" /\ answer[a] = "none"
        /\ ~HardBreach(p)
    BY <1>5, <2>0 DEF AskEvaluator, TypeOK, Seen, AttemptInv, VerdictInv, BeforeVerdict
  <2>2. {VerdictOf(b) : b \in JudgedAttempts}'
          = {VerdictOf(b) : b \in JudgedAttempts}
              \cup {[status |-> local'[a].validation_status, metrics |-> p]}
    BY <1>5, <2>0, <2>1, AskEvaluatorEffect, VerdictAdded DEF KeepsProfile, VerdictOf
  <2>3. \A b \in Attempts : local'[b].profiling_results = local[b].profiling_results
    BY <1>5, AskEvaluatorEffect DEF OnlyChannelsOf, KeepsProfile
  <2>4. \A b \in Attempts \ {a} : answer'[b] = answer[b]
    BY <1>5, AskEvaluatorEffect
  <2>5. CASE answer'[a] = "COMPLIANT"
    <3>1. consents' = consents \cup {p}
      BY <2>0, <2>3, <2>4, <2>5
    <3>2. local'[a].validation_status = "COMPLIANT"
      BY <1>5, <2>5, AskEvaluatorEffect
    <3>3. Gate!Accept(p)
      <4>1. UNCHANGED <<entry, contents>>
        BY <1>5 DEF AskEvaluator
      <4>2. {VerdictOf(b) : b \in JudgedAttempts}'
              = {VerdictOf(b) : b \in JudgedAttempts}
                  \cup {[status |-> "COMPLIANT", metrics |-> p]}
        BY <2>2, <3>2
      <4> QED
        BY <2>1, <3>1, <4>1, <4>2, SameHardLimits DEF Gate!Accept, Seen, VerdictOf
    <3> QED
      BY <2>1, <3>3 DEF Gate!Next
  <2>6. CASE answer'[a] # "COMPLIANT"
    <3>1. consents' = consents
      BY <2>1, <2>3, <2>4, <2>6
    <3>2. local'[a].validation_status = "NON_COMPLIANT"
      BY <1>5, <2>6, AskEvaluatorEffect
    <3>3. Gate!Reject(p)
      BY <1>5, <2>1, <2>2, <3>1, <3>2 DEF AskEvaluator, Gate!Reject, Seen, VerdictOf
    <3> QED
      BY <2>1, <3>3 DEF Gate!Next
  <2> QED
    BY <2>5, <2>6
<1>6. ASSUME NEW a \in Attempts, UpdateTable(a) PROVE Gate!Next
  <2>1. a \in JudgedAttempts
    BY <1>6 DEF UpdateTable, AtCatalogNode, AttemptInv, BranchInv, JudgedAttempts
  <2>2. [status |-> entry'.status, metrics |-> entry'.metrics] = VerdictOf(a)
    BY <1>6, UpdateTableEffect DEF VerdictOf
  <2>3. Gate!Publish(VerdictOf(a))
    BY <1>6, <2>1, <2>2 DEF UpdateTable, Gate!Publish, VerdictOf, JudgedAttempts
  <2> QED
    BY <2>1, <2>3 DEF Gate!Next, VerdictOf
<1>7. ASSUME MergeCommit PROVE Gate!Next
  <2>1. PICK p \in Contents : contents' = Append(contents, p)
    BY <1>7 DEF MergeCommit
  <2>2. Seen' = Seen \cup {p}
    <3>1. /\ DOMAIN contents' = DOMAIN contents \cup {Len(contents) + 1}
          /\ \A i \in DOMAIN contents : contents'[i] = contents[i]
          /\ contents'[Len(contents) + 1] = p
      BY <2>1, AppendFacts DEF TypeOK
    <3> QED
      BY <3>1 DEF Seen
  <2>3. entry'.status = entry.status /\ entry'.metrics = entry.metrics
    BY <1>7 DEF MergeCommit, TypeOK, Entries
  <2>4. Gate!Change(p)
    BY <1>7, <2>2, <2>3 DEF MergeCommit, agentVars, Gate!Change, Seen, JudgedAttempts
  <2> QED
    BY <2>4 DEF Gate!Next
<1>8. ASSUME NEW a \in Attempts,
             \/ Deliver(a) \/ RejectEvent(a) \/ SubmitQuery(a) \/ SubmitFails(a)
             \/ AthenaFinishes(a) \/ PollRunning(a) \/ PollRaises(a) \/ GetTable(a)
             \/ SaveCheckpoint(a) \/ Return(a) \/ CallFails(a) \/ Kill(a)
      PROVE  UNCHANGED Gate!vars
  <2>1. local' = local /\ answer' = answer /\ entry' = entry /\ contents' = contents
    BY <1>8 DEF Deliver, RejectEvent, SubmitQuery, SubmitFails, AthenaFinishes, PollRunning,
                PollRaises, GetTable, SaveCheckpoint, Return, CallFails, Kill
  <2> QED
    BY <2>1, GateStutters
<1>9. CASE UNCHANGED vars
  BY <1>9, GateStutters DEF vars, agentVars
<1> QED
  BY <1>1, <1>2, <1>3, <1>4, <1>5, <1>6, <1>7, <1>8, <1>9 DEF Next, Step, AllEnded

\* The agent implements the governance gate: whoever reads the catalog may
\* reason with GovernanceGate alone.
THEOREM AgentImplementsGate == Spec => ImplementsGate
<1>1. Init => Gate!Init
  BY GateInit
<1>2. IndInv /\ IndInv' /\ [Next]_vars => [Gate!Next]_Gate!vars
  BY GateStep
<1> QED
  BY <1>1, <1>2, InductiveInvariant, PTL DEF Spec, Gate!Spec, ImplementsGate
=============================================================================
