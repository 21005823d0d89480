------------------------------- MODULE DQAgent -------------------------------
(***************************************************************************)
(* The AI data quality agent (src/agent): a Fargate task that profiles an  *)
(* Iceberg table through Athena, judges the profile, and labels the table  *)
(* in the Glue Data Catalog.                                               *)
(*                                                                         *)
(* An attempt is one run of the container.  EventBridge may deliver one    *)
(* event several times and operators re-drive failed ones, so several      *)
(* attempts, at once or one after another, may carry the same execution    *)
(* ARN; they share the LangGraph thread of that ARN and, whatever their    *)
(* ARNs, the one catalog entry.  The ingestion pipeline commits to the     *)
(* same table while the agents run.                                        *)
(*                                                                         *)
(* Abstractions: one table; a profile is a record of DataProfile; messages *)
(* and reasons are kinds; S3, DynamoDB, Athena, Bedrock and Glue answer or *)
(* fail, nothing else.                                                     *)
(***************************************************************************)
EXTENDS DataProfile, Sequences, FiniteSets

CONSTANTS Attempts,         \* container runs
          Arns,             \* Step Functions execution ARNs
          SubmitAttempts,   \* stop_after_attempt(4) of execute_query_async
          PollLimit,        \* polls that fit in ATHENA_TIMEOUT_SECONDS
          MaxCommits,       \* bound: commits of the ingestion pipeline
          NoArn, NoProfile, NoManifest, NoEntry

ASSUME BoundsAssumption ==
    /\ SubmitAttempts \in Nat \ {0}
    /\ PollLimit \in Nat
    /\ MaxCommits \in Nat

ASSUME NilAssumption ==
    /\ NoArn \notin Arns
    /\ NoManifest \notin Arns
    /\ NoProfile \notin Contents

VARIABLES
    pc,        \* where each attempt is: a graph node, or how it ended
    event,     \* the event each attempt was started with
    local,     \* the channels of AgentState each attempt holds in memory
    dirty,     \* the attempt's last super-step is not yet checkpointed
    query,     \* the attempt's Athena query
    answer,    \* what the evaluator answered the attempt
    base,      \* the table description the attempt got from get_table
    ckpt,      \* the newest checkpoint of each thread, in DynamoDB
    entry,     \* the table's entry in the Glue catalog
    contents,  \* what the table holds at each of its Iceberg snapshots
    labelled   \* history variable: the attempts whose update_table took effect

agentVars == <<pc, event, local, dirty, query, answer, base>>
vars == <<agentVars, ckpt, entry, contents, labelled>>

-----------------------------------------------------------------------------
(* Types and values *)

GraphNodes == {"profile_data_node", "validate_dq_node",
               "quarantine_data_node", "enhance_catalog_node"}
Running == GraphNodes \cup {"handler", "poll", "catalog_updated", "return"}
Ended   == {"exit_0", "exit_1", "exit_2", "killed"}

\* The upstream output of the event: a table name, no table name, or the
\* JSON text Step Functions puts there, which has no attribute "get".
Events  == [arn : Arns \cup {NoArn}, output : {"table", "no_table", "text"}]
NoEvent == [arn |-> NoArn, output |-> "no_table"]

Statuses  == {"PENDING", "COMPLIANT", "NON_COMPLIANT"}
Reasons   == {"None", "hard_barrier", "llm_reasoning", "fail_closed"}
Answers   == {"COMPLIANT", "NON_COMPLIANT", "OTHER", "ERROR"}
LogEntries == {"INITIALIZED", "ISOLATION_MANIFEST_CREATED",
               "CATALOG_PROMOTED_AND_TAGGED"}

AgentState == [profiling_results : Contents \cup {NoProfile},
               validation_status : Statuses,
               failure_reasoning : Reasons,
               quarantine_manifest_uri : Arns \cup {NoManifest},
               logs : Seq(LogEntries)]

EmptyState == [profiling_results |-> NoProfile,
               validation_status |-> "PENDING",
               failure_reasoning |-> "None",
               quarantine_manifest_uri |-> NoManifest,
               logs |-> << >>]

Queries == [state : {"NONE", "RUNNING", "SUCCEEDED", "FAILED"},
            submits : 0 .. SubmitAttempts,
            polls : 0 .. PollLimit,
            snapshot : Nat]
NoQuery == [state |-> "NONE", submits |-> 0, polls |-> 0, snapshot |-> 0]

\* The catalog entry: Iceberg's metadata_location, as the snapshot it points
\* to, and the agent's parameters, all in the one Parameters map of Glue.
Entries == [metadata_location : Nat \ {0},
            status : {"NONE", "COMPLIANT", "NON_COMPLIANT"},
            metrics : Contents \cup {NoProfile}]

ASSUME NoEntryAssumption == NoEntry \notin Entries

TypeOK ==
    /\ pc \in [Attempts -> {"idle"} \cup Running \cup Ended]
    /\ event \in [Attempts -> Events]
    /\ local \in [Attempts -> AgentState]
    /\ dirty \in [Attempts -> BOOLEAN]
    /\ query \in [Attempts -> Queries]
    /\ answer \in [Attempts -> Answers \cup {"none"}]
    /\ base \in [Attempts -> Entries \cup {NoEntry}]
    /\ ckpt \in [Arns -> AgentState]
    /\ entry \in Entries
    /\ contents \in Seq(Contents)
    /\ entry.metadata_location \in DOMAIN contents
    /\ labelled \in SUBSET Attempts

-----------------------------------------------------------------------------
Init ==
    /\ pc = [a \in Attempts |-> "idle"]
    /\ event = [a \in Attempts |-> NoEvent]
    /\ local = [a \in Attempts |-> EmptyState]
    /\ dirty = [a \in Attempts |-> FALSE]
    /\ query = [a \in Attempts |-> NoQuery]
    /\ answer = [a \in Attempts |-> "none"]
    /\ base = [a \in Attempts |-> NoEntry]
    /\ ckpt = [t \in Arns |-> EmptyState]
    /\ \E p \in Contents :
         /\ contents = <<p>>
         /\ entry = [metadata_location |-> 1, status |-> "NONE", metrics |-> NoProfile]
    /\ labelled = {}

Goto(a, where) == pc' = [pc EXCEPT ![a] = where]

\* A node's return value is applied to the channels and handed to the
\* checkpointer.  LangGraph writes checkpoints in the background, each after the
\* one before it; here a super-step also waits for that one, so that what is
\* saved lags by one super-step at most.
EndSuperstep(a, state) ==
    /\ ~dirty[a]
    /\ local' = [local EXCEPT ![a] = state]
    /\ dirty' = [dirty EXCEPT ![a] = TRUE]

-----------------------------------------------------------------------------
(* main.py: the handler *)

\* EventBridge starts a container, with this event or with it again.
Deliver(a) ==
    /\ pc[a] = "idle"
    /\ \E e \in Events : event' = [event EXCEPT ![a] = e]
    /\ Goto(a, "handler")
    /\ UNCHANGED <<local, dirty, query, answer, base, ckpt, entry, contents, labelled>>

WellFormed(e) == e.arn # NoArn /\ e.output = "table"

\* KeyError ends in exit code 2, any other exception in exit code 1.
RejectCode(e) == IF e.arn # NoArn /\ e.output = "text" THEN "exit_1" ELSE "exit_2"

RejectEvent(a) ==
    /\ pc[a] = "handler"
    /\ ~WellFormed(event[a])
    /\ Goto(a, RejectCode(event[a]))
    /\ UNCHANGED <<event, local, dirty, query, answer, base, ckpt, entry, contents, labelled>>

ThreadOf(a) == event[a].arn

\* Mutant of InitialContext: the earlier attempt's channels are kept.
ResumedContext(saved) == [saved EXCEPT !.logs = Append(@, "INITIALIZED")]

\* The channels of initial_context, applied over those of the thread's
\* checkpoint: every channel is overwritten but logs, which is appended to.
InitialContext(saved) ==
    [profiling_results |-> NoProfile,
     validation_status |-> "PENDING",
     failure_reasoning |-> "None",
     quarantine_manifest_uri |-> NoManifest,
     logs |-> Append(saved.logs, "INITIALIZED")]

\* invoke() with an input is a new run of the graph from START, also on a
\* thread whose last run did not finish.
Invoke(a) ==
    /\ pc[a] = "handler"
    /\ WellFormed(event[a])
    /\ EndSuperstep(a, InitialContext(ckpt[ThreadOf(a)]))
    /\ Goto(a, "profile_data_node")
    /\ UNCHANGED <<event, query, answer, base, ckpt, entry, contents, labelled>>

-----------------------------------------------------------------------------
(* profile_data_node *)

SubmitQuery(a) ==
    /\ pc[a] = "profile_data_node"
    /\ query' = [query EXCEPT ![a].state = "RUNNING", ![a].submits = @ + 1]
    /\ Goto(a, "poll")
    /\ UNCHANGED <<event, local, dirty, answer, base, ckpt, entry, contents, labelled>>

\* start_query_execution fails: after a ClientError tenacity calls it again until
\* it has been called SubmitAttempts times, then re-raises; any other exception
\* ends the attempt at once.
SubmitFails(a) ==
    /\ pc[a] = "profile_data_node"
    /\ query' = [query EXCEPT ![a].submits = @ + 1]
    /\ \/ query'[a].submits < SubmitAttempts /\ UNCHANGED pc
       \/ Goto(a, "exit_1")
    /\ UNCHANGED <<event, local, dirty, answer, base, ckpt, entry, contents, labelled>>

\* Athena runs the query on the snapshot the catalog points to at that moment.
\* A query nobody polls any more is of no consequence and is left out.
AthenaFinishes(a) ==
    /\ pc[a] = "poll"
    /\ query[a].state = "RUNNING"
    /\ \/ query' = [query EXCEPT ![a].state = "SUCCEEDED",
                                 ![a].snapshot = entry.metadata_location]
       \/ query' = [query EXCEPT ![a].state = "FAILED"]
    /\ UNCHANGED <<pc, event, local, dirty, answer, base, ckpt, entry, contents, labelled>>

TimedOut(a) == query[a].polls >= PollLimit

PollRunning(a) ==
    /\ pc[a] = "poll"
    /\ ~TimedOut(a)
    /\ query[a].state = "RUNNING"
    /\ query' = [query EXCEPT ![a].polls = @ + 1]
    /\ UNCHANGED <<pc, event, local, dirty, answer, base, ckpt, entry, contents, labelled>>

QueryResult(a) == contents[query[a].snapshot]

\* The profile is computed with a division by total_record_count.
PollSucceeded(a) ==
    /\ pc[a] = "poll"
    /\ ~TimedOut(a)
    /\ query[a].state = "SUCCEEDED"
    /\ QueryResult(a).rows # 0
    /\ EndSuperstep(a, [local[a] EXCEPT !.profiling_results = QueryResult(a)])
    /\ query' = [query EXCEPT ![a] = NoQuery]
    /\ Goto(a, "validate_dq_node")
    /\ UNCHANGED <<event, answer, base, ckpt, entry, contents, labelled>>

\* Mutant of PollRaises: the wait has no end.
PollRaisesOnFailureOnly(a) ==
    /\ pc[a] = "poll"
    /\ \/ query[a].state = "FAILED"
       \/ query[a].state = "SUCCEEDED" /\ QueryResult(a).rows = 0
    /\ Goto(a, "exit_1")
    /\ UNCHANGED <<event, local, dirty, query, answer, base, ckpt, entry, contents, labelled>>

\* Mutant of PollRaises: a query that did not answer in time is submitted again.
PollRaisesResubmitting(a) ==
    /\ pc[a] = "poll"
    /\ TimedOut(a)
    /\ query' = [query EXCEPT ![a] = NoQuery]
    /\ Goto(a, "profile_data_node")
    /\ UNCHANGED <<event, local, dirty, answer, base, ckpt, entry, contents, labelled>>

\* FAILED and CANCELLED queries, an exhausted waiting time and the
\* ZeroDivisionError of an empty table all leave through "raise".
PollRaises(a) ==
    /\ pc[a] = "poll"
    /\ \/ TimedOut(a)
       \/ query[a].state = "FAILED"
       \/ query[a].state = "SUCCEEDED" /\ QueryResult(a).rows = 0
    /\ Goto(a, "exit_1")
    /\ UNCHANGED <<event, local, dirty, query, answer, base, ckpt, entry, contents, labelled>>

-----------------------------------------------------------------------------
(* validate_dq_node and evaluate_compliance_route *)

Judged(state, status, reason) ==
    [state EXCEPT !.validation_status = status, !.failure_reasoning = reason]

\* The node that follows validate_dq_node.
Route(state) == IF state.validation_status = "NON_COMPLIANT"
                THEN "quarantine_data_node" ELSE "enhance_catalog_node"

Validated(a, state) == EndSuperstep(a, state) /\ Goto(a, Route(state))

HardReject(a) ==
    /\ pc[a] = "validate_dq_node"
    /\ HardBreach(local[a].profiling_results)
    /\ Validated(a, Judged(local[a], "NON_COMPLIANT", "hard_barrier"))
    /\ UNCHANGED <<event, query, answer, base, ckpt, entry, contents, labelled>>

\* Mutants of LLMJudgement: an unavailable evaluator is no objection; the
\* evaluator's word is taken as the status.
FailOpenJudgement(state, ans) ==
    IF ans \in {"COMPLIANT", "ERROR"} THEN Judged(state, "COMPLIANT", "None")
    ELSE Judged(state, "NON_COMPLIANT", "llm_reasoning")
RawJudgement(state, ans) ==
    Judged(state, ans, IF ans = "COMPLIANT" THEN "None" ELSE "llm_reasoning")

\* Only the exact string COMPLIANT passes; an exception of the call or of
\* the parser is a rejection.
LLMJudgement(state, ans) ==
    CASE ans = "COMPLIANT" -> Judged(state, "COMPLIANT", "None")
      [] ans = "ERROR"     -> Judged(state, "NON_COMPLIANT", "fail_closed")
      [] OTHER             -> Judged(state, "NON_COMPLIANT", "llm_reasoning")

AskEvaluator(a) ==
    /\ pc[a] = "validate_dq_node"
    /\ ~HardBreach(local[a].profiling_results)
    /\ \E ans \in Answers :
         /\ answer' = [answer EXCEPT ![a] = ans]
         /\ Validated(a, LLMJudgement(local[a], ans))
    /\ UNCHANGED <<event, query, base, ckpt, entry, contents, labelled>>

-----------------------------------------------------------------------------
(* quarantine_data_node and enhance_catalog_node: enrich_table_metadata *)

\* Mutant of LabelOf: both nodes pass the same status.
LabelCopied(node) == "COMPLIANT"

LabelOf(node) == IF node = "quarantine_data_node" THEN "NON_COMPLIANT" ELSE "COMPLIANT"

AtCatalogNode(a) == pc[a] \in {"quarantine_data_node", "enhance_catalog_node"}

GetTable(a) ==
    /\ AtCatalogNode(a)
    /\ base[a] = NoEntry
    /\ base' = [base EXCEPT ![a] = entry]
    /\ UNCHANGED <<pc, event, local, dirty, query, answer, ckpt, entry, contents, labelled>>

\* Mutant of Enriched: metrics already in the Parameters are kept.
EnrichedIfAbsent(table, metrics, status) ==
    [table EXCEPT !.status = status,
                  !.metrics = IF @ = NoProfile THEN metrics ELSE @]

\* The fetched Parameters with the agent's keys set in them.
Enriched(table, metrics, status) ==
    [table EXCEPT !.status = status, !.metrics = metrics]

\* Mutant of UpdateTable: the ClientError is logged and not raised.
UpdateTableSwallowing(a) ==
    /\ AtCatalogNode(a)
    /\ base[a] # NoEntry
    /\ \/ /\ entry' = Enriched(base[a], local[a].profiling_results, LabelOf(pc[a]))
          /\ labelled' = labelled \cup {a}
       \/ UNCHANGED <<entry, labelled>>
    /\ base' = [base EXCEPT ![a] = NoEntry]
    /\ Goto(a, "catalog_updated")
    /\ UNCHANGED <<event, local, dirty, query, answer, ckpt, contents>>

\* update_table replaces the entry, whatever happened to it since get_table.
UpdateTable(a) ==
    /\ AtCatalogNode(a)
    /\ base[a] # NoEntry
    /\ entry' = Enriched(base[a], local[a].profiling_results, LabelOf(pc[a]))
    /\ \/ Goto(a, "catalog_updated")
       \/ Goto(a, "exit_1")          \* the update is done, its answer lost
    /\ base' = [base EXCEPT ![a] = NoEntry]
    /\ labelled' = labelled \cup {a}
    /\ UNCHANGED <<event, local, dirty, query, answer, ckpt, contents>>

\* The channel updates the node returns.
NodeResult(a) ==
    IF Route(local[a]) = "quarantine_data_node"
    THEN [local[a] EXCEPT !.quarantine_manifest_uri = ThreadOf(a),
                          !.logs = Append(@, "ISOLATION_MANIFEST_CREATED")]
    ELSE [local[a] EXCEPT !.logs = Append(@, "CATALOG_PROMOTED_AND_TAGGED")]

FinishNode(a) ==
    /\ pc[a] = "catalog_updated"
    /\ EndSuperstep(a, NodeResult(a))
    /\ Goto(a, "return")
    /\ UNCHANGED <<event, query, answer, base, ckpt, entry, contents, labelled>>

-----------------------------------------------------------------------------
(* The checkpointer, the end of the handler, and failures *)

\* The checkpoint becomes the newest one of the thread.
SaveCheckpoint(a) ==
    /\ pc[a] \in Running
    /\ dirty[a]
    /\ ckpt' = [ckpt EXCEPT ![ThreadOf(a)] = local[a]]
    /\ dirty' = [dirty EXCEPT ![a] = FALSE]
    /\ UNCHANGED <<pc, event, local, query, answer, base, entry, contents, labelled>>

Return(a) ==
    /\ pc[a] = "return"
    /\ ~dirty[a]
    /\ Goto(a, "exit_0")
    /\ UNCHANGED <<event, local, dirty, query, answer, base, ckpt, entry, contents, labelled>>

\* The container is gone with what it had in hand; event, local and answer
\* stay, as a record of what the attempt had come to.
Vanish(a, how) ==
    /\ Goto(a, how)
    /\ dirty' = [dirty EXCEPT ![a] = FALSE]
    /\ query' = [query EXCEPT ![a] = NoQuery]
    /\ base' = [base EXCEPT ![a] = NoEntry]

\* A call to DynamoDB, Athena (polling), Bedrock (building the client) or
\* Glue raises: the exception leaves the graph and ends the container.
CallFails(a) ==
    /\ \/ pc[a] = "handler" /\ WellFormed(event[a])
       \/ pc[a] = "poll" /\ ~TimedOut(a)
       \/ pc[a] = "validate_dq_node" /\ ~HardBreach(local[a].profiling_results)
       \/ AtCatalogNode(a)
       \/ pc[a] \in Running /\ dirty[a]
    /\ Vanish(a, "exit_1")
    /\ UNCHANGED <<event, local, answer, ckpt, entry, contents, labelled>>

\* The Fargate task is stopped.
Kill(a) ==
    /\ pc[a] \in Running
    /\ Vanish(a, "killed")
    /\ UNCHANGED <<event, local, answer, ckpt, entry, contents, labelled>>

-----------------------------------------------------------------------------
(* The ingestion pipeline, which writes the table meanwhile *)

\* A MERGE INTO commits.  Iceberg swaps metadata_location atomically and
\* keeps the other parameters; a merge never deletes rows.
MergeCommit ==
    /\ Len(contents) <= MaxCommits
    /\ \E p \in Contents :
         /\ p.rows >= contents[entry.metadata_location].rows
         /\ contents' = Append(contents, p)
    /\ entry' = [entry EXCEPT !.metadata_location = Len(contents) + 1]
    /\ UNCHANGED <<agentVars, ckpt, labelled>>

-----------------------------------------------------------------------------
\* The steps an attempt takes by itself, once its container runs.
Step(a) ==
    \/ RejectEvent(a) \/ Invoke(a)
    \/ SubmitQuery(a) \/ SubmitFails(a)
    \/ PollRunning(a) \/ PollSucceeded(a) \/ PollRaises(a)
    \/ HardReject(a) \/ AskEvaluator(a)
    \/ GetTable(a) \/ UpdateTable(a) \/ FinishNode(a)
    \/ SaveCheckpoint(a) \/ Return(a) \/ CallFails(a)

\* Every attempt has ended; the system is quiet until the next event.
AllEnded == /\ \A a \in Attempts : pc[a] \in Ended
            /\ UNCHANGED vars

Next == \/ \E a \in Attempts : Deliver(a) \/ Step(a) \/ AthenaFinishes(a) \/ Kill(a)
        \/ MergeCommit
        \/ AllEnded

Spec == Init /\ [][Next]_vars

\* A container that runs keeps running; nothing is assumed of Athena, of the
\* deliveries, or of the pipeline.
FairSpec == Spec /\ \A a \in Attempts : WF_vars(Step(a))
=============================================================================
