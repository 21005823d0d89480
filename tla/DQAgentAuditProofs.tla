------------------------- MODULE DQAgentAuditProofs -------------------------
(***************************************************************************)
(* Proof that the audit trail in a thread's checkpoint is justified        *)
(* (DQAgentProperties), for any number of attempts.  AuditInv counts: a    *)
(* log grows by a claim only when the attempt it speaks of has joined the  *)
(* set the claim is compared with, and that set never shrinks.             *)
(***************************************************************************)
EXTENDS DQAgentProofs, FiniteSetTheorems

-----------------------------------------------------------------------------
(* Counting *)

\* The number of mentions is a number.
LEMMA MentionsType ==
    ASSUME NEW s \in Seq(LogEntries), NEW e
    PROVE  /\ IsFiniteSet({i \in DOMAIN s : s[i] = e})
           /\ Mentions(s, e) \in Nat
<1> DEFINE S == {i \in DOMAIN s : s[i] = e}
<1>1. IsFiniteSet(1 .. Len(s))
  BY FS_Interval
<1>2. S \in SUBSET (1 .. Len(s))
  OBVIOUS
<1>3. IsFiniteSet(S)
  BY <1>1, <1>2, FS_Subset
<1>4. Cardinality(S) \in Nat
  BY <1>3, FS_CardinalityType
<1> QED
  BY <1>3, <1>4 DEF Mentions

\* An entry appended to a log is one more mention of itself, and of nothing else.
LEMMA MentionsAppend ==
    ASSUME NEW s \in Seq(LogEntries), NEW x \in LogEntries, NEW e
    PROVE  Mentions(Append(s, x), e) = Mentions(s, e) + (IF x = e THEN 1 ELSE 0)
<1> DEFINE S == {i \in DOMAIN s : s[i] = e}
           T == {i \in DOMAIN Append(s, x) : Append(s, x)[i] = e}
<1>1. /\ DOMAIN Append(s, x) = 1 .. Len(s) + 1
      /\ DOMAIN s = 1 .. Len(s)
      /\ Len(s) \in Nat
      /\ \A i \in DOMAIN s : Append(s, x)[i] = s[i]
      /\ Append(s, x)[Len(s) + 1] = x
  BY AppendFacts
<1>2. T = IF x = e THEN S \cup {Len(s) + 1} ELSE S
  BY <1>1
<1>3. Len(s) + 1 \notin S
  BY <1>1
<1>4. /\ Mentions(s, e) = Cardinality(S)
      /\ Mentions(Append(s, x), e) = Cardinality(T)
  BY DEF Mentions
<1>5. IsFiniteSet(S) /\ Cardinality(S) \in Nat
  BY <1>4, MentionsType
<1> HIDE DEF S, T
<1>6. CASE x = e
  BY <1>2, <1>3, <1>4, <1>5, <1>6, FS_AddElement
<1>7. CASE x # e
  BY <1>2, <1>4, <1>5, <1>7
<1> QED
  BY <1>6, <1>7

\* Attempts of a thread with a label are finitely many, with or without one.
LEMMA CreditedFinite ==
    ASSUME IsFiniteSet(labelled), NEW t, NEW v, NEW a
    PROVE  /\ IsFiniteSet(LabelledAs(t, v))
           /\ Cardinality(LabelledAs(t, v)) \in Nat
           /\ IsFiniteSet(LabelledAs(t, v) \ {a})
           /\ Cardinality(LabelledAs(t, v) \ {a}) =
                 IF a \in LabelledAs(t, v) THEN Cardinality(LabelledAs(t, v)) - 1
                                           ELSE Cardinality(LabelledAs(t, v))
<1>1. LabelledAs(t, v) \in SUBSET labelled
  BY DEF LabelledAs
<1>2. IsFiniteSet(LabelledAs(t, v))
  BY <1>1, FS_Subset
<1> QED
  BY <1>2, FS_CardinalityType, FS_RemoveElement

-----------------------------------------------------------------------------
(* What steps do to the sets that are counted *)

\* An attempt that has labelled the table is past everything that changes its
\* event or its verdict.
LabelsGrow ==
    \A b \in labelled : /\ b \in labelled'
                        /\ event'[b] = event[b]
                        /\ local'[b].validation_status = local[b].validation_status

\* At most one attempt labels the table in a step.
OneMore == labelled' = labelled \/ \E a \in Attempts : labelled' = labelled \cup {a}

LEMMA LabelsDoGrow ==
    ASSUME IndInv, [Next]_vars
    PROVE  LabelsGrow /\ OneMore
<1> USE DEF LabelsGrow, OneMore
<1>1. labelled \subseteq Attempts
  BY DEF IndInv, TypeOK
<1>2. ASSUME NEW a \in Attempts, pc[a] \in BeforeVerdict PROVE a \notin labelled
  BY <1>2, NotYetLabelled DEF IndInv
<1>3. ASSUME NEW a \in Attempts, Deliver(a) PROVE LabelsGrow /\ OneMore
  BY <1>1, <1>2, <1>3 DEF Deliver, BeforeVerdict, IndInv, TypeOK
<1>4. ASSUME NEW a \in Attempts, a \notin labelled, OnlyChannelsOf(a),
             event' = event, labelled' = labelled
      PROVE  LabelsGrow /\ OneMore
  BY <1>1, <1>4 DEF OnlyChannelsOf
<1>5. ASSUME NEW a \in Attempts, Invoke(a) PROVE LabelsGrow /\ OneMore
  BY <1>2, <1>4, <1>5, InvokeEffect DEF Invoke, BeforeVerdict
<1>6. ASSUME NEW a \in Attempts, PollSucceeded(a) PROVE LabelsGrow /\ OneMore
  BY <1>2, <1>4, <1>6, PollSucceededEffect DEF PollSucceeded, BeforeVerdict
<1>7. ASSUME NEW a \in Attempts, HardReject(a) PROVE LabelsGrow /\ OneMore
  BY <1>2, <1>4, <1>7, HardRejectEffect DEF HardReject, BeforeVerdict
<1>8. ASSUME NEW a \in Attempts, AskEvaluator(a) PROVE LabelsGrow /\ OneMore
  BY <1>2, <1>4, <1>8, AskEvaluatorEffect DEF AskEvaluator, BeforeVerdict
<1>9. ASSUME NEW a \in Attempts, UpdateTable(a) PROVE LabelsGrow /\ OneMore
  BY <1>9 DEF UpdateTable
<1>10. ASSUME NEW a \in Attempts, FinishNode(a) PROVE LabelsGrow /\ OneMore
  BY <1>1, <1>10, FinishNodeEffect DEF FinishNode, OnlyChannelsOf
<1>11. ASSUME NEW a \in Attempts,
              \/ RejectEvent(a) \/ SubmitQuery(a) \/ SubmitFails(a) \/ AthenaFinishes(a)
              \/ PollRunning(a) \/ PollRaises(a) \/ GetTable(a) \/ SaveCheckpoint(a)
              \/ Return(a) \/ CallFails(a) \/ Kill(a)
       PROVE  LabelsGrow /\ OneMore
  BY <1>11 DEF RejectEvent, SubmitQuery, SubmitFails, AthenaFinishes, PollRunning, PollRaises,
               GetTable, SaveCheckpoint, Return, CallFails, Kill
<1>12. CASE MergeCommit \/ UNCHANGED vars
  BY <1>12 DEF MergeCommit, vars, agentVars
<1> QED
  BY <1>3, <1>5, <1>6, <1>7, <1>8, <1>9, <1>10, <1>11, <1>12 DEF Next, Step, AllEnded

\* The sets that are counted only grow.
LEMMA CountsGrow ==
    ASSUME IsFiniteSet(labelled), LabelsGrow, OneMore, NEW t, NEW v, NEW a
    PROVE  /\ IsFiniteSet(labelled')
           /\ LabelledAs(t, v) \subseteq LabelledAs(t, v)'
           /\ Cardinality(LabelledAs(t, v)) \in Nat
           /\ Cardinality(LabelledAs(t, v)') \in Nat
           /\ Cardinality(LabelledAs(t, v)) <= Cardinality(LabelledAs(t, v)')
           /\ Cardinality(LabelledAs(t, v) \ {a}) \in Nat
           /\ Cardinality(LabelledAs(t, v)' \ {a}) \in Nat
           /\ Cardinality(LabelledAs(t, v) \ {a}) <= Cardinality(LabelledAs(t, v)' \ {a})
<1>1. IsFiniteSet(labelled')
  BY FS_AddElement DEF OneMore
<1>2. LabelledAs(t, v) \subseteq LabelledAs(t, v)'
  BY DEF LabelledAs, LabelsGrow, ThreadOf
<1>3. LabelledAs(t, v)' \in SUBSET labelled'
  BY DEF LabelledAs
<1>4. IsFiniteSet(LabelledAs(t, v)')
  BY <1>1, <1>3, FS_Subset
<1>5. IsFiniteSet(LabelledAs(t, v)' \ {a})
  BY <1>4, FS_RemoveElement
<1>6. LabelledAs(t, v) \in SUBSET LabelledAs(t, v)'
  BY <1>2
<1>7. LabelledAs(t, v) \ {a} \in SUBSET (LabelledAs(t, v)' \ {a})
  BY <1>2
<1> HIDE DEF LabelsGrow, OneMore
<1>8. /\ Cardinality(LabelledAs(t, v)) <= Cardinality(LabelledAs(t, v)')
      /\ IsFiniteSet(LabelledAs(t, v))
  BY <1>4, <1>6, FS_Subset
<1>9. /\ Cardinality(LabelledAs(t, v) \ {a}) <= Cardinality(LabelledAs(t, v)' \ {a})
      /\ IsFiniteSet(LabelledAs(t, v) \ {a})
  BY <1>5, <1>7, FS_Subset
<1> QED
  BY <1>1, <1>2, <1>4, <1>5, <1>8, <1>9, FS_CardinalityType

-----------------------------------------------------------------------------
(* AuditInv is inductive, given IndInv *)

\* Attempt a goes on with the log it has, or ends, or has not started the graph.
KeepsLog(a) ==
    pc'[a] \in Running \ {"handler"} =>
        /\ pc[a] \in Running \ {"handler"}
        /\ pc'[a] = "return" <=> pc[a] = "return"
        /\ event'[a] = event[a]
        /\ local'[a].logs = local[a].logs

\* A log that does not grow stays justified.
LEMMA LogKept ==
    ASSUME IndInv, AuditInv, LabelsGrow, OneMore, NEW a \in Attempts, KeepsLog(a)
    PROVE  LogJustified(a)'
<1> SUFFICES ASSUME pc'[a] \in Running \ {"handler"}, NEW v \in Verdicts
             PROVE  Mentions(local'[a].logs, Claim(v)) <= Cardinality(Credited(a, v)')
  BY DEF LogJustified, Credited, Mentions, LabelledAs, ThreadOf, Claim
<1> PICK t : t = ThreadOf(a)
  OBVIOUS
<1>1. /\ pc'[a] = "return" <=> pc[a] = "return"
      /\ ThreadOf(a)' = t
      /\ local'[a].logs = local[a].logs
      /\ Mentions(local[a].logs, Claim(v)) <= Cardinality(Credited(a, v))
  BY DEF KeepsLog, AuditInv, LogJustified, ThreadOf
<1>2. Mentions(local[a].logs, Claim(v)) \in Nat
  BY MentionsType DEF IndInv, TypeOK, AgentState
<1>3. Credited(a, v)' = LabelledAs(t, v)' \ (IF pc'[a] = "return" THEN {} ELSE {a})
  BY <1>1 DEF Credited, LabelledAs
<1>4. /\ Cardinality(LabelledAs(t, v)) \in Nat
      /\ Cardinality(LabelledAs(t, v)') \in Nat
      /\ Cardinality(LabelledAs(t, v)) <= Cardinality(LabelledAs(t, v)')
      /\ Cardinality(LabelledAs(t, v) \ {a}) \in Nat
      /\ Cardinality(LabelledAs(t, v)' \ {a}) \in Nat
      /\ Cardinality(LabelledAs(t, v) \ {a}) <= Cardinality(LabelledAs(t, v)' \ {a})
  BY CountsGrow DEF AuditInv
<1>5. CASE pc[a] = "return"
  <2>1. Credited(a, v) = LabelledAs(t, v) /\ Credited(a, v)' = LabelledAs(t, v)'
    BY <1>1, <1>3, <1>5 DEF Credited
  <2> QED
    BY <1>1, <1>2, <1>4, <2>1
<1>6. CASE pc[a] # "return"
  <2>1. /\ Credited(a, v) = LabelledAs(t, v) \ {a}
        /\ Credited(a, v)' = LabelledAs(t, v)' \ {a}
    BY <1>1, <1>3, <1>6 DEF Credited
  <2> QED
    BY <1>1, <1>2, <1>4, <2>1
<1> QED
  BY <1>5, <1>6

\* A checkpoint that is not written stays justified.
LEMMA TrailKept ==
    ASSUME IndInv, AuditInv, LabelsGrow, OneMore, ckpt' = ckpt
    PROVE  AuditTrailJustified'
<1> SUFFICES ASSUME NEW t \in Arns, NEW v \in Verdicts
             PROVE  Mentions(ckpt[t].logs, Claim(v)) <= Cardinality(LabelledAs(t, v)')
  BY DEF AuditTrailJustified, Mentions, Claim
<1>1. Mentions(ckpt[t].logs, Claim(v)) \in Nat
  BY MentionsType DEF IndInv, TypeOK, AgentState
<1>2. Mentions(ckpt[t].logs, Claim(v)) <= Cardinality(LabelledAs(t, v))
  BY DEF AuditInv, AuditTrailJustified
<1>3. /\ Cardinality(LabelledAs(t, v)) \in Nat
      /\ Cardinality(LabelledAs(t, v)') \in Nat
      /\ Cardinality(LabelledAs(t, v)) <= Cardinality(LabelledAs(t, v)')
  BY CountsGrow DEF AuditInv
<1> QED
  BY <1>1, <1>2, <1>3

\* Nothing unsaved is left at an attempt that has not invoked the graph.
CleanStart(a) == pc[a] \in {"idle", "handler"} => ~dirty[a]

\* A step in which every log and every checkpoint stays as it is.
Quiet == /\ \A b \in Attempts : KeepsLog(b) /\ CleanStart(b)'
         /\ ckpt' = ckpt

\* Which steps are quiet: all but the start of a run, the return of a catalog
\* node and the writing of a checkpoint.
LEMMA QuietSteps ==
    ASSUME IndInv, AuditInv, NEW a \in Attempts,
           \/ Deliver(a) \/ RejectEvent(a) \/ SubmitQuery(a) \/ SubmitFails(a)
           \/ AthenaFinishes(a) \/ PollRunning(a) \/ PollSucceeded(a) \/ PollRaises(a)
           \/ HardReject(a) \/ AskEvaluator(a) \/ GetTable(a) \/ UpdateTable(a)
           \/ Return(a) \/ CallFails(a) \/ Kill(a)
    PROVE  Quiet
<1>1. /\ pc \in [Attempts -> {"idle"} \cup Running \cup Ended]
      /\ event \in [Attempts -> Events]
      /\ local \in [Attempts -> AgentState]
      /\ dirty \in [Attempts -> BOOLEAN]
      /\ \A b \in Attempts : CleanStart(b)
  BY DEF IndInv, TypeOK, AuditInv, CleanStart
<1> USE <1>1 DEF Quiet, KeepsLog, CleanStart, Goto, EndSuperstep, Vanish,
                 Running, GraphNodes, Ended
<1>2. CASE Deliver(a) \/ RejectEvent(a)
  BY <1>2 DEF Deliver, RejectEvent, RejectCode
<1>3. CASE SubmitQuery(a) \/ SubmitFails(a) \/ AthenaFinishes(a) \/ PollRunning(a) \/ PollRaises(a)
  BY <1>3 DEF SubmitQuery, SubmitFails, AthenaFinishes, PollRunning, PollRaises
<1>4. CASE PollSucceeded(a)
  BY <1>4 DEF PollSucceeded, AgentState
<1>5. ASSUME NEW s \in AgentState, s.logs = local[a].logs, Validated(a, s),
             pc[a] = "validate_dq_node", event' = event, ckpt' = ckpt
      PROVE  Quiet
  BY <1>5 DEF Validated, Route
<1>6. CASE HardReject(a)
  <2> DEFINE s == Judged(local[a], "NON_COMPLIANT", "hard_barrier")
  <2>1. s \in AgentState /\ s.logs = local[a].logs
    BY DEF Judged, AgentState, Statuses, Reasons
  <2> QED
    BY <1>5, <1>6, <2>1 DEF HardReject
<1>7. CASE AskEvaluator(a)
  <2>1. PICK ans \in Answers : Validated(a, LLMJudgement(local[a], ans))
    BY <1>7 DEF AskEvaluator
  <2> DEFINE s == LLMJudgement(local[a], ans)
  <2>2. s \in AgentState
    BY LLMJudgementFacts
  <2>3. s.logs = local[a].logs
    BY DEF LLMJudgement, Judged, AgentState
  <2> QED
    BY <1>5, <1>7, <2>1, <2>2, <2>3 DEF AskEvaluator
<1>8. CASE GetTable(a) \/ UpdateTable(a)
  BY <1>8 DEF GetTable, UpdateTable, AtCatalogNode
<1>9. CASE Return(a)
  BY <1>9 DEF Return
<1>10. CASE CallFails(a) \/ Kill(a)
  BY <1>10 DEF CallFails, Kill
<1> QED
  BY <1>2, <1>3, <1>4, <1>6, <1>7, <1>8, <1>9, <1>10

\* In the initial states every log is empty.
THEOREM AuditInvInit == Init => AuditInv
<1> SUFFICES ASSUME Init PROVE AuditInv
  OBVIOUS
<1>1. IsFiniteSet(labelled)
  BY FS_EmptySet DEF Init
<1>2. ASSUME NEW v PROVE Mentions(<< >>, Claim(v)) = 0
  <2>1. {i \in DOMAIN << >> : << >>[i] = Claim(v)} = {}
    OBVIOUS
  <2> QED
    BY <2>1, FS_EmptySet DEF Mentions
<1>3. AuditTrailJustified
  <2> SUFFICES ASSUME NEW t \in Arns, NEW v \in Verdicts
               PROVE  Mentions(ckpt[t].logs, Claim(v)) <= Cardinality(LabelledAs(t, v))
    BY DEF AuditTrailJustified
  <2>1. Cardinality(LabelledAs(t, v)) \in Nat
    BY <1>1, CreditedFinite
  <2>2. ckpt[t].logs = << >>
    BY DEF Init, EmptyState
  <2> QED
    BY <1>2, <2>1, <2>2
<1>4. \A a \in Attempts : CleanStart(a) /\ LogJustified(a)
  BY DEF Init, CleanStart, LogJustified, Running, GraphNodes
<1> QED
  BY <1>1, <1>3, <1>4 DEF AuditInv, CleanStart

\* A new run starts with the log of the checkpoint, which is justified without
\* this attempt, and claims nothing yet.
LEMMA InvokeLog ==
    ASSUME IndInv, AuditInv, LabelsGrow, OneMore, NEW a \in Attempts, Invoke(a)
    PROVE  LogJustified(a)'
<1> SUFFICES ASSUME NEW v \in Verdicts
             PROVE  Mentions(local'[a].logs, Claim(v)) <= Cardinality(Credited(a, v)')
  BY DEF LogJustified, Credited, Mentions, LabelledAs, ThreadOf, Claim
<1> PICK t : t = ThreadOf(a)
  OBVIOUS
<1>1. t \in Arns
  BY InvokeEffect
<1>2. ckpt[t].logs \in Seq(LogEntries)
  BY <1>1 DEF IndInv, TypeOK, AgentState
<1>3. local'[a].logs = Append(ckpt[t].logs, "INITIALIZED")
  BY DEF Invoke, EndSuperstep, InitialContext, IndInv, TypeOK
<1>4. "INITIALIZED" \in LogEntries /\ Claim(v) # "INITIALIZED"
  BY DEF LogEntries, Claim
<1>5. Mentions(local'[a].logs, Claim(v)) = Mentions(ckpt[t].logs, Claim(v)) + 0
  BY <1>2, <1>3, <1>4, MentionsAppend
<1>6. Mentions(ckpt[t].logs, Claim(v)) \in Nat
  BY <1>2, MentionsType
<1>7. Mentions(ckpt[t].logs, Claim(v)) <= Cardinality(LabelledAs(t, v))
  BY <1>1 DEF AuditInv, AuditTrailJustified
<1>8. LabelledAs(t, v) \ {a} = LabelledAs(t, v)
  BY NotYetLabelled DEF Invoke, BeforeVerdict, LabelledAs, IndInv
<1>9. Credited(a, v)' = LabelledAs(t, v)' \ {a}
  BY DEF Invoke, Goto, Credited, LabelledAs, ThreadOf, IndInv, TypeOK
<1>10. /\ Cardinality(LabelledAs(t, v) \ {a}) \in Nat
       /\ Cardinality(LabelledAs(t, v)' \ {a}) \in Nat
       /\ Cardinality(LabelledAs(t, v) \ {a}) <= Cardinality(LabelledAs(t, v)' \ {a})
  BY CountsGrow DEF AuditInv
<1> QED
  BY <1>5, <1>6, <1>7, <1>8, <1>9, <1>10

\* The claim a node returns is about the label this attempt has set, which its
\* log was not credited with before.
LEMMA FinishNodeLog ==
    ASSUME IndInv, AuditInv, LabelsGrow, OneMore, NEW a \in Attempts, FinishNode(a)
    PROVE  LogJustified(a)'
<1> SUFFICES ASSUME NEW v \in Verdicts
             PROVE  Mentions(local'[a].logs, Claim(v)) <= Cardinality(Credited(a, v)')
  BY DEF LogJustified, Credited, Mentions, LabelledAs, ThreadOf, Claim
<1> PICK t : t = ThreadOf(a)
  OBVIOUS
<1> PICK w : w = local[a].validation_status
  OBVIOUS
<1> PICK s : s = local[a].logs
  OBVIOUS
<1>1. pc[a] = "catalog_updated" /\ local[a] \in AgentState /\ s \in Seq(LogEntries)
  BY DEF FinishNode, IndInv, TypeOK, AgentState
<1>2. a \in labelled /\ w \in Verdicts
  BY <1>1 DEF IndInv, AttemptInv, BranchInv, AgentState, Statuses, Verdicts
<1>3. Claim(w) \in LogEntries /\ (Claim(w) = Claim(v) <=> w = v)
  BY <1>2 DEF Claim, Verdicts, LogEntries
<1>4. local'[a].logs = Append(s, Claim(w))
  <2>1. NodeResult(a).logs = Append(s, Claim(w))
    BY <1>1, <1>2 DEF NodeResult, Route, Claim, Verdicts, AgentState
  <2> QED
    BY <2>1 DEF FinishNode, EndSuperstep, IndInv, TypeOK
<1>5. Mentions(local'[a].logs, Claim(v)) = Mentions(s, Claim(v)) + (IF w = v THEN 1 ELSE 0)
  BY <1>1, <1>3, <1>4, MentionsAppend
<1>6. Mentions(s, Claim(v)) \in Nat
  BY <1>1, MentionsType
<1>7. Mentions(s, Claim(v)) <= Cardinality(LabelledAs(t, v) \ {a})
  BY <1>1 DEF AuditInv, LogJustified, Credited, Running
<1>8. a \in LabelledAs(t, v) <=> w = v
  BY <1>2 DEF LabelledAs
<1>9. /\ Cardinality(LabelledAs(t, v)) \in Nat
      /\ Cardinality(LabelledAs(t, v)') \in Nat
      /\ Cardinality(LabelledAs(t, v)) <= Cardinality(LabelledAs(t, v)')
  BY CountsGrow DEF AuditInv
<1>10. Cardinality(LabelledAs(t, v) \ {a}) =
          IF w = v THEN Cardinality(LabelledAs(t, v)) - 1 ELSE Cardinality(LabelledAs(t, v))
  BY <1>8, CreditedFinite DEF AuditInv
<1>11. Credited(a, v)' = LabelledAs(t, v)'
  BY DEF FinishNode, Goto, Credited, LabelledAs, ThreadOf, IndInv, TypeOK
<1> QED
  BY <1>5, <1>6, <1>7, <1>9, <1>10, <1>11

\* The checkpoint becomes a log that is justified by itself.
LEMMA SavedTrail ==
    ASSUME IndInv, AuditInv, NEW a \in Attempts, SaveCheckpoint(a)
    PROVE  AuditTrailJustified'
<1> SUFFICES ASSUME NEW t \in Arns, NEW v \in Verdicts
             PROVE  Mentions(ckpt'[t].logs, Claim(v)) <= Cardinality(LabelledAs(t, v))
  BY DEF SaveCheckpoint, AuditTrailJustified, Mentions, Claim, LabelledAs, ThreadOf
<1>1. CASE t # ThreadOf(a)
  BY <1>1 DEF SaveCheckpoint, AuditInv, AuditTrailJustified, IndInv, TypeOK
<1>2. CASE t = ThreadOf(a)
  <2>1. pc[a] \in Running \ {"handler"}
    BY DEF SaveCheckpoint, AuditInv
  <2>2. ckpt'[t].logs = local[a].logs
    BY <1>2 DEF SaveCheckpoint, IndInv, TypeOK
  <2>3. Mentions(local[a].logs, Claim(v)) <= Cardinality(Credited(a, v))
    BY <2>1 DEF AuditInv, LogJustified
  <2>4. Mentions(local[a].logs, Claim(v)) \in Nat
    BY MentionsType DEF IndInv, TypeOK, AgentState
  <2>5. Credited(a, v) = LabelledAs(t, v) \/ Credited(a, v) = LabelledAs(t, v) \ {a}
    BY <1>2 DEF Credited
  <2>6. /\ Cardinality(LabelledAs(t, v)) \in Nat
        /\ Cardinality(LabelledAs(t, v) \ {a}) =
              IF a \in LabelledAs(t, v) THEN Cardinality(LabelledAs(t, v)) - 1
                                        ELSE Cardinality(LabelledAs(t, v))
    BY CreditedFinite DEF AuditInv
  <2>7. /\ Cardinality(Credited(a, v)) \in Int
        /\ Cardinality(Credited(a, v)) <= Cardinality(LabelledAs(t, v))
    BY <2>5, <2>6
  <2> QED
    BY <2>2, <2>3, <2>4, <2>6, <2>7
<1> QED
  BY <1>1, <1>2

\* Every step preserves AuditInv: the quiet ones, and the other three.
THEOREM AuditInvStep == IndInv /\ AuditInv /\ [Next]_vars => AuditInv'
<1> SUFFICES ASSUME IndInv, AuditInv, [Next]_vars PROVE AuditInv'
  OBVIOUS
<1>1. LabelsGrow /\ OneMore
  BY LabelsDoGrow
<1>2. IsFiniteSet(labelled')
  BY <1>1, FS_AddElement DEF OneMore, AuditInv
<1>3. ASSUME Quiet PROVE AuditInv'
  BY <1>1, <1>2, <1>3, LogKept, TrailKept DEF Quiet, AuditInv, CleanStart
<1>4. ASSUME NEW a \in Attempts, Invoke(a) \/ FinishNode(a) PROVE AuditInv'
  <2>1. LogJustified(a)'
    BY <1>1, <1>4, InvokeLog, FinishNodeLog
  <2>2. ASSUME NEW b \in Attempts \ {a} PROVE LogJustified(b)'
    <3>1. KeepsLog(b)
      BY <1>4 DEF Invoke, FinishNode, Goto, EndSuperstep, KeepsLog, IndInv, TypeOK
    <3> QED
      BY <1>1, <3>1, LogKept
  <2>3. AuditTrailJustified'
    BY <1>1, <1>4, TrailKept DEF Invoke, FinishNode
  <2>4. \A b \in Attempts : CleanStart(b)'
    BY <1>4 DEF Invoke, FinishNode, Goto, EndSuperstep, CleanStart, AuditInv, IndInv, TypeOK
  <2> QED
    BY <1>2, <2>1, <2>2, <2>3, <2>4 DEF AuditInv, CleanStart
<1>5. ASSUME NEW a \in Attempts, SaveCheckpoint(a) PROVE AuditInv'
  <2>1. ASSUME NEW b \in Attempts PROVE KeepsLog(b) /\ CleanStart(b)'
    BY <1>5 DEF SaveCheckpoint, KeepsLog, CleanStart, AuditInv, IndInv, TypeOK
  <2> QED
    BY <1>1, <1>2, <1>5, <2>1, LogKept, SavedTrail DEF AuditInv, CleanStart
<1>6. CASE MergeCommit \/ UNCHANGED vars
  <2>1. Quiet
    BY <1>6 DEF MergeCommit, vars, agentVars, Quiet, KeepsLog, CleanStart, AuditInv
  <2> QED
    BY <1>3, <2>1
<1> QED
  BY <1>3, <1>4, <1>5, <1>6, QuietSteps DEF Next, Step, AllEnded

-----------------------------------------------------------------------------
\* AuditInv holds in every reachable state.
THEOREM AuditInvariant == Spec => []AuditInv
<1>1. Init => AuditInv
  BY AuditInvInit
<1>2. IndInv /\ AuditInv /\ [Next]_vars => AuditInv'
  BY AuditInvStep
<1> QED
  BY <1>1, <1>2, InductiveInvariant, PTL DEF Spec

\* The audit trail of a thread never claims a label that no attempt of this
\* thread has set, whatever was killed, re-driven or ran at the same time.
THEOREM AuditTrailIsJustified == Spec => []AuditTrailJustified
<1>1. AuditInv => AuditTrailJustified
  BY DEF AuditInv
<1> QED
  BY <1>1, AuditInvariant, PTL
=============================================================================
