------------------------------ MODULE Handoff ------------------------------
(***************************************************************************)
(* The hand-off of a finished ingestion to the DQ agent: Step Functions    *)
(* puts an event on the bus when an execution ends, the EventBridge rule   *)
(* picks the SUCCEEDED ones, its target runs an ECS task whose environment *)
(* the input transformer fills in, and the container calls the handler     *)
(* with an event.  Next to it the ECS service keeps one container of the   *)
(* same task definition running.                                           *)
(*                                                                         *)
(* Abstractions: the ingestion is only its end (see IcebergIngestion), the *)
(* handler only the event it is called with (see DQAgent).                 *)
(***************************************************************************)
EXTENDS Naturals

CONSTANTS Executions,  \* also their ARNs
          Tables,      \* among them "silver_events"
          LocalArn     \* the execution ARN written into main.py; none of Executions

VARIABLES
    status,   \* of each execution
    table,    \* $.table_name of its input
    event,    \* its status event: none, on the bus, picked by the rule, or dropped
    task,     \* the ECS task run for it
    service,  \* the task the ECS service keeps running
    handled   \* history variable: the events the handler has been called with

vars == <<status, table, event, task, service, handled>>

Init ==
    /\ status = [e \in Executions |-> "new"]
    /\ table \in [Executions -> Tables]
    /\ event = [e \in Executions |-> "none"]
    /\ task = [e \in Executions |-> "none"]
    /\ service = "none"
    /\ handled = {}

-----------------------------------------------------------------------------
(* Step Functions *)

StartExecution(e) ==
    /\ status[e] = "new"
    /\ status' = [status EXCEPT ![e] = "RUNNING"]
    /\ UNCHANGED <<table, event, task, service, handled>>

ExecutionEnds(e) ==
    /\ status[e] = "RUNNING"
    /\ \E s \in {"SUCCEEDED", "FAILED"} : status' = [status EXCEPT ![e] = s]
    /\ event' = [event EXCEPT ![e] = "bus"]
    /\ UNCHANGED <<table, task, service, handled>>

-----------------------------------------------------------------------------
(* The EventBridge rule and its target *)

\* The fields the rule can look at; detail.stateMachineArn, always that of this
\* state machine, is left out here and in the pattern.
StatusEvent(e) == [f \in {"source", "detail-type", "detail.status"} |->
    CASE f = "source"        -> "aws.states"
      [] f = "detail-type"   -> "Step Functions Execution Status Change"
      [] f = "detail.status" -> status[e]]

\* event_pattern, with the field names as they are written in the rule.
EventPattern == [f \in {"source", "detail_type", "detail.status"} |->
    CASE f = "source"        -> {"aws.states"}
      [] f = "detail_type"   -> {"Step Functions Execution Status Change"}
      [] f = "detail.status" -> {"SUCCEEDED"}]

\* An event matches if it has every field of the pattern, with one of its values.
Matches(ev, pattern) ==
    \A f \in DOMAIN pattern : f \in DOMAIN ev /\ ev[f] \in pattern[f]

Rule(e) ==
    /\ event[e] = "bus"
    /\ event' = [event EXCEPT ![e] =
          IF Matches(StatusEvent(e), EventPattern) THEN "picked" ELSE "dropped"]
    /\ UNCHANGED <<status, table, task, service, handled>>

\* The container of the task definition, and the one the transformer overrides.
ContainerName == "ai_dq_agent"
OverriddenName == "dq-agent"

\* RunTask refuses an override of a container the task definition does not have.
RunTask(e) ==
    /\ event[e] = "picked"
    /\ IF OverriddenName = ContainerName
       THEN task' = [task EXCEPT ![e] = "running"]
       ELSE UNCHANGED task
    /\ event' = [event EXCEPT ![e] = "dropped"]
    /\ UNCHANGED <<status, table, service, handled>>

-----------------------------------------------------------------------------
(* The container *)

\* What a container calls the handler with: the fixed event, as the image has no
\* events/ directory, and the variables of the transformer are not read.
local_event(e) == [arn |-> LocalArn, table |-> "silver_events"]

TaskRuns(e) ==
    /\ task[e] = "running"
    /\ handled' = handled \cup {local_event(e)}
    /\ task' = [task EXCEPT ![e] = "stopped"]
    /\ UNCHANGED <<status, table, event, service>>

\* The service starts a task again whenever the container has ended.
ServiceStarts ==
    /\ service # "running"
    /\ service' = "running"
    /\ UNCHANGED <<status, table, event, task, handled>>

ServiceRuns ==
    /\ service = "running"
    /\ handled' = handled \cup {local_event(LocalArn)}
    /\ service' = "stopped"
    /\ UNCHANGED <<status, table, event, task>>

-----------------------------------------------------------------------------
Step(e) == ExecutionEnds(e) \/ Rule(e) \/ RunTask(e) \/ TaskRuns(e)

Next == \/ \E e \in Executions : StartExecution(e) \/ Step(e)
        \/ ServiceStarts \/ ServiceRuns

Spec == Init /\ [][Next]_vars

\* Executions end, EventBridge and ECS work, and containers run.
FairSpec == /\ Spec
            /\ \A e \in Executions : WF_vars(Step(e))
            /\ WF_vars(ServiceStarts \/ ServiceRuns)

\* Every SUCCEEDED execution is handed over: in the end the handler has been
\* called with its ARN and its table, whatever becomes of that call (main.tf of
\* 02-data-pipeline: "On success, this execution's SUCCEEDED status is what
\* triggers the Phase 3 DQ agent hand-off via EventBridge").
SucceededIsHandedOver ==
    \A e \in Executions :
        status[e] = "SUCCEEDED" ~> [arn |-> e, table |-> table[e]] \in handled
=============================================================================
