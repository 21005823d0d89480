--------------------------- MODULE HandoffProofs ---------------------------
(***************************************************************************)
(* Proofs about Handoff.  The run refutes the hand-over for two executions *)
(* by a behavior in which it does not happen; here is why it happens in no *)
(* behavior, for any number of executions: the rule picks no event.        *)
(***************************************************************************)
EXTENDS Handoff, TLAPS

\* No event is ever picked, so no task is ever run for an execution, and the
\* handler is only called by the service's container, with the fixed event.
IndInv ==
    /\ event \in [Executions -> {"none", "bus", "dropped"}]
    /\ task = [e \in Executions |-> "none"]
    /\ handled \subseteq {local_event(LocalArn)}

\* A field of the pattern is one no status event has.
LEMMA PatternMatchesNothing ==
    ASSUME NEW e \in Executions
    PROVE  ~Matches(StatusEvent(e), EventPattern)
<1>1. "detail_type" \in DOMAIN EventPattern
  BY DEF EventPattern
<1>2. "detail_type" \notin DOMAIN StatusEvent(e)
  BY DEF StatusEvent
<1> QED
  BY <1>1, <1>2 DEF Matches

LEMMA IndInvInit == Init => IndInv
  BY DEF Init, IndInv

LEMMA IndInvStep == IndInv /\ [Next]_vars => IndInv'
<1> SUFFICES ASSUME IndInv, [Next]_vars PROVE IndInv'
  OBVIOUS
<1> USE DEF IndInv
<1>1. ASSUME NEW e \in Executions, StartExecution(e) \/ ExecutionEnds(e) PROVE IndInv'
  BY <1>1 DEF StartExecution, ExecutionEnds
<1>2. ASSUME NEW e \in Executions, Rule(e) PROVE IndInv'
  BY <1>2, PatternMatchesNothing DEF Rule
<1>3. ASSUME NEW e \in Executions, RunTask(e) \/ TaskRuns(e) PROVE FALSE
  BY <1>3 DEF RunTask, TaskRuns
<1>4. CASE ServiceStarts \/ ServiceRuns \/ UNCHANGED vars
  BY <1>4 DEF ServiceStarts, ServiceRuns, vars
<1> QED
  BY <1>1, <1>2, <1>3, <1>4 DEF Next, Step

\* The rule never fires: no event of an execution is picked, whatever its
\* status, and so no task is run for one (eventbridge_ecs_trigger/main.tf,
\* event_pattern).
THEOREM RuleNeverFires ==
    Spec => [](\A e \in Executions : event[e] # "picked" /\ task[e] = "none")
<1>1. IndInv => \A e \in Executions : event[e] # "picked" /\ task[e] = "none"
  BY DEF IndInv
<1> QED
  BY <1>1, IndInvInit, IndInvStep, PTL DEF Spec

\* RunTask would be refused even for an event that is picked: a second cause.
LEMMA OverrideIsRefused ==
    ASSUME NEW e \in Executions, RunTask(e) PROVE UNCHANGED task
BY DEF RunTask, OverriddenName, ContainerName

\* No execution is ever handed over: whatever ends how often, the handler is
\* never called with an execution of the state machine, only with the one that
\* main.py names (eventbridge/main.tf, event_pattern; main.py, local_event).
THEOREM NothingIsHandedOver ==
    ASSUME LocalArn \notin Executions
    PROVE  Spec => [](\A e \in Executions : \A h \in handled : h.arn # e)
<1>1. IndInv => \A e \in Executions : \A h \in handled : h.arn # e
  BY DEF IndInv, local_event
<1> QED
  BY <1>1, IndInvInit, IndInvStep, PTL DEF Spec
=============================================================================
