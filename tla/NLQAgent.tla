------------------------------ MODULE NLQAgent ------------------------------
(***************************************************************************)
(* The natural language query API (src/api): one process with one event    *)
(* loop.  Tokens are validated in threads (JwksCache); the endpoint /ask   *)
(* is a coroutine that runs the whole LangGraph graph synchronously, so    *)
(* that from its first node to its response nothing else is served, not    *)
(* even the health check of the load balancer, which replaces the task     *)
(* when it goes unanswered too often.                                      *)
(*                                                                         *)
(* Abstractions: a query is what validate_sql tells apart; error texts and *)
(* answers are kinds; Glue, Bedrock, Athena and DynamoDB answer, fail, or  *)
(* (Athena only) never answer.                                             *)
(***************************************************************************)
EXTENDS Naturals

CONSTANTS Requests,
          NoRequest,
          UnhealthyThreshold   \* missed checks until the task is replaced: 3

ASSUME NoRequestAssumption == NoRequest \notin Requests
ASSUME ThresholdAssumption == UnhealthyThreshold \in Nat \ {0}

VARIABLES
    pc,        \* where each request is: waiting, at a graph node, or answered
    state,     \* the channels of NLQAgentState of its run
    response,  \* its QueryOutboundResponse
    loop,      \* the request whose handler holds the event loop
    missed,    \* health checks missed in a row
    failures,  \* history variable: the nodes of the run whose call failed
    ran        \* history variable: the query Athena was given for it

requestVars == <<pc, state, response, failures, ran>>
vars == <<requestVars, loop, missed>>

Nodes == {"fetch_catalog_context", "generate_sql", "validate_sql",
          "execute_athena", "format_final_answer"}
\* How a request ends: its token is refused or cannot be judged, the graph has
\* run or raised, or the task is gone.
Ended == {"401", "auth_500", "200", "500", "lost"}
Places == {"idle", "authenticating", "queued", "respond"} \cup Nodes \cup Ended

\* What the model may answer: nothing, a query that does not start with
\* SELECT, one that has a destructive token, or an acceptable one.
Queries == {"", "not_select", "destructive", "select"}
\* The channel final_answer, in which a synthesis may be empty, and the answers
\* of the API, in which such a one is "not_processed".
FinalAnswers == {"None", "system_error", "rejected", "synthesis", "empty", "payload_error"}
Answers == (FinalAnswers \ {"empty"}) \cup {"not_processed"}

NLQAgentState ==
    [catalog_context : {"", "tables"},
     generated_sql : Queries \cup {"None"},
     sql_is_valid : BOOLEAN,
     security_error : {"None", "forbidden"},
     error_trace : {"None", "glue", "llm", "no_sql", "athena"},
     query_results : {"None", "rows"},
     final_answer : FinalAnswers]

\* initial_state of the router: a thread of its own, so nothing is resumed.
InitialState ==
    [catalog_context |-> "", generated_sql |-> "None", sql_is_valid |-> FALSE,
     security_error |-> "None", error_trace |-> "None", query_results |-> "None",
     final_answer |-> "None"]

Responses == [answer : Answers, execution_success : BOOLEAN]
NoResponse == [answer |-> "None", execution_success |-> FALSE]

TypeOK ==
    /\ pc \in [Requests -> Places]
    /\ state \in [Requests -> NLQAgentState]
    /\ response \in [Requests -> Responses]
    /\ loop \in Requests \cup {NoRequest}
    /\ missed \in 0 .. UnhealthyThreshold
    /\ failures \in [Requests -> SUBSET Nodes]
    /\ ran \in [Requests -> Queries \cup {"None"}]

Init ==
    /\ pc = [r \in Requests |-> "idle"]
    /\ state = [r \in Requests |-> InitialState]
    /\ response = [r \in Requests |-> NoResponse]
    /\ loop = NoRequest
    /\ missed = 0
    /\ failures = [r \in Requests |-> {}]
    /\ ran = [r \in Requests |-> "None"]

Goto(r, where) == pc' = [pc EXCEPT ![r] = where]

-----------------------------------------------------------------------------
(* FastAPI: accept, authenticate, run the endpoint *)

\* The loop accepts the request and hands its token to a thread.
Accept(r) ==
    /\ pc[r] = "idle"
    /\ loop = NoRequest
    /\ Goto(r, "authenticating")
    /\ UNCHANGED <<state, response, failures, ran, loop, missed>>

\* get_current_user returns, or raises, in its thread (see JwksCache): 401 for
\* the token, 500 if there is no key set to judge it by.
Authenticated(r) ==
    /\ pc[r] = "authenticating"
    /\ Goto(r, "queued") \/ Goto(r, "401") \/ Goto(r, "auth_500")
    /\ UNCHANGED <<state, response, failures, ran, loop, missed>>

\* The loop is free and resumes the coroutine, up to nlq_agent_graph.invoke.
StartHandler(r) ==
    /\ pc[r] = "queued"
    /\ loop = NoRequest
    /\ loop' = r
    /\ state' = [state EXCEPT ![r] = InitialState]
    /\ Goto(r, "fetch_catalog_context")
    /\ UNCHANGED <<response, failures, ran, missed>>

-----------------------------------------------------------------------------
(* The graph *)

\* The node r is at returns: its update is applied to the channels, and the
\* graph goes on to the next node.  "failed" holds the node if its call failed.
NodeReturns(r, s, failed, next) ==
    /\ state' = [state EXCEPT ![r] = s]
    /\ failures' = [failures EXCEPT ![r] = @ \cup failed]
    /\ Goto(r, next)
    /\ UNCHANGED <<response, loop, missed>>

FetchCatalogContext(r) ==
    LET s == state[r]
        next == "generate_sql" IN
    /\ pc[r] = "fetch_catalog_context"
    /\ \/ NodeReturns(r, [s EXCEPT !.catalog_context = "tables", !.error_trace = "None"], {}, next)
       \/ NodeReturns(r, [s EXCEPT !.catalog_context = "", !.error_trace = "glue"],
                      {"fetch_catalog_context"}, next)
    /\ UNCHANGED ran

\* Mutant of GenerateSql: an earlier failure is cleared like in the other nodes.
GenerateSqlClearing(r) ==
    LET s == state[r]
        next == "validate_sql" IN
    /\ pc[r] = "generate_sql"
    /\ \/ \E q \in Queries :
             NodeReturns(r, [s EXCEPT !.generated_sql = q, !.error_trace = "None"], {}, next)
       \/ NodeReturns(r, [s EXCEPT !.error_trace = "llm"], {"generate_sql"}, next)
    /\ UNCHANGED ran

\* After an earlier failure it does nothing; otherwise the model answers or not.
GenerateSql(r) ==
    LET s == state[r]
        next == "validate_sql" IN
    /\ pc[r] = "generate_sql"
    /\ \/ /\ s.error_trace # "None"
          /\ NodeReturns(r, s, {}, next)
       \/ /\ s.error_trace = "None"
          /\ \E q \in Queries : NodeReturns(r, [s EXCEPT !.generated_sql = q], {}, next)
       \/ /\ s.error_trace = "None"
          /\ NodeReturns(r, [s EXCEPT !.error_trace = "llm"], {"generate_sql"}, next)
    /\ UNCHANGED ran

\* Mutant of Validated: the search for destructive tokens is left out.
ValidatedPrefix(s) ==
    IF s.generated_sql \in {"None", ""} \/ s.error_trace # "None"
    THEN [s EXCEPT !.sql_is_valid = FALSE]
    ELSE IF s.generated_sql # "not_select"
    THEN [s EXCEPT !.sql_is_valid = TRUE, !.security_error = "None"]
    ELSE [s EXCEPT !.sql_is_valid = FALSE, !.security_error = "forbidden"]

\* The verdict on the query and on its security; no query or an earlier
\* failure is invalid, but no security error.
Validated(s) ==
    IF s.generated_sql \in {"None", ""} \/ s.error_trace # "None"
    THEN [s EXCEPT !.sql_is_valid = FALSE]
    ELSE IF s.generated_sql = "select"
    THEN [s EXCEPT !.sql_is_valid = TRUE, !.security_error = "None"]
    ELSE [s EXCEPT !.sql_is_valid = FALSE, !.security_error = "forbidden"]

route_post_validation(s) ==
    IF s.sql_is_valid /\ s.error_trace = "None" THEN "execute_athena"
    ELSE "format_final_answer"

ValidateSql(r) ==
    LET s == Validated(state[r]) IN
    /\ pc[r] = "validate_sql"
    /\ NodeReturns(r, s, {}, route_post_validation(s))
    /\ UNCHANGED ran

\* read_sql_query polls until the query ends, without a limit, and may fail
\* after the query ran as well as before.  The node looks at the verdict and at
\* the query again, which the route has settled.
ExecuteAthena(r) ==
    LET s == state[r]
        rejected == ~s.sql_is_valid \/ s.error_trace # "None"
        unexecuted == IF rejected THEN s ELSE [s EXCEPT !.error_trace = "no_sql"]
        Return(update, failed) == NodeReturns(r, update, failed, "format_final_answer") IN
    /\ pc[r] = "execute_athena"
    /\ IF rejected \/ s.generated_sql \in {"None", ""}
       THEN Return(unexecuted, {}) /\ UNCHANGED ran
       ELSE /\ ran' = [ran EXCEPT ![r] = s.generated_sql]
            /\ \/ Return([s EXCEPT !.query_results = "rows", !.error_trace = "None"], {})
               \/ Return([s EXCEPT !.error_trace = "athena"], {"execute_athena"})

\* A failed synthesis is an answer like any other, and leaves no error_trace; the
\* model may also answer with nothing.
FormatFinalAnswer(r) ==
    LET s == state[r]
        Answer(a, failed) == NodeReturns(r, [s EXCEPT !.final_answer = a], failed, "respond") IN
    /\ pc[r] = "format_final_answer"
    /\ \/ s.error_trace # "None" /\ Answer("system_error", {})
       \/ s.error_trace = "None" /\ s.security_error # "None" /\ Answer("rejected", {})
       \/ /\ s.error_trace = "None" /\ s.security_error = "None"
          /\ \/ Answer("synthesis", {}) \/ Answer("empty", {})
             \/ Answer("payload_error", {"format_final_answer"})
    /\ UNCHANGED ran

\* The router has a text for a final answer that is missing or empty.
OrNotProcessed(a) == IF a \in {"None", "empty"} THEN "not_processed" ELSE a

\* The endpoint answers and gives the loop back.
Responds(r, success) ==
    /\ pc[r] = "respond"
    /\ response' = [response EXCEPT ![r] =
          [answer |-> OrNotProcessed(state[r].final_answer), execution_success |-> success]]
    /\ loop' = NoRequest
    /\ Goto(r, "200")
    /\ UNCHANGED <<state, failures, ran, missed>>

\* Mutant of Respond: a rejected query counts as a success.
RespondErrorsOnly(r) == Responds(r, state[r].error_trace = "None")

\* The router's success_flag looks at the two error channels.
Respond(r) ==
    Responds(r, state[r].error_trace = "None" /\ state[r].security_error = "None")

\* An exception of a node or of the checkpointer ends invoke: HTTP 500.
InvokeRaises(r) ==
    /\ pc[r] \in Nodes
    /\ loop' = NoRequest
    /\ Goto(r, "500")
    /\ UNCHANGED <<state, response, failures, ran, missed>>

-----------------------------------------------------------------------------
(* The load balancer and ECS *)

\* Mutant of HealthCheck: the check is answered beside the loop.
HealthCheckAnswered ==
    /\ missed < UnhealthyThreshold
    /\ missed' = 0
    /\ UNCHANGED <<requestVars, loop>>

\* GET /docs, every 20 seconds, is answered by the loop or not in time.
HealthCheck ==
    /\ missed < UnhealthyThreshold
    /\ missed' = IF loop = NoRequest THEN 0 ELSE missed + 1
    /\ UNCHANGED <<requestVars, loop>>

\* ECS stops a task whose target is unhealthy and starts another one: whatever
\* the process was doing for any request is gone, and nothing resumes it.
ReplaceTask ==
    /\ missed = UnhealthyThreshold
    /\ missed' = 0
    /\ loop' = NoRequest
    /\ pc' = [r \in Requests |-> IF pc[r] \in {"idle"} \cup Ended THEN pc[r] ELSE "lost"]
    /\ UNCHANGED <<state, response, failures, ran>>

-----------------------------------------------------------------------------
\* Steps that take a bounded time; a query in Athena may take forever.
Step(r) == \/ Authenticated(r) \/ StartHandler(r) \/ FetchCatalogContext(r)
           \/ GenerateSql(r) \/ ValidateSql(r) \/ FormatFinalAnswer(r) \/ Respond(r)

Next == \/ \E r \in Requests : Accept(r) \/ Step(r) \/ ExecuteAthena(r) \/ InvokeRaises(r)
        \/ HealthCheck \/ ReplaceTask

Spec == Init /\ [][Next]_vars

\* The process runs, Glue and Bedrock answer within their time limits, checks
\* are made and unhealthy tasks replaced.
FairSpec == /\ Spec
            /\ \A r \in Requests : WF_vars(Step(r))
            /\ WF_vars(HealthCheck)
            /\ WF_vars(ReplaceTask)

-----------------------------------------------------------------------------
(* Properties *)

\* What a response says is true of the run that led to it, of which s are the
\* channels, f the failed nodes and q the query Athena was given.
Truthful(answer, s, f, q) ==
    IF answer.execution_success
    THEN /\ f = IF answer.answer = "payload_error" THEN {"format_final_answer"} ELSE {}
         /\ s.generated_sql # "None" /\ s.generated_sql \in {"", q}
         /\ answer.answer \in {"synthesis", "not_processed", "payload_error"}
    ELSE answer.answer \in {"system_error", "rejected"}

\* A response is true of its own run: success means that the generated query, if
\* there was one, was accepted and ran, and that no call failed but the
\* synthesis, in which case the answer is the text for that; no success means
\* that the answer names an error and is no synthesis.  A success may go with
\* "Could not process request.": the query ran and the model had nothing to say
\* of it.  Channels overwrite each other from node to node, so that an error once
\* recorded could be lost before the router looks (query_router.py, success_flag).
ResponseTruthful ==
    \A r \in Requests : pc[r] = "200" => Truthful(response[r], state[r], failures[r], ran[r])

\* Athena is only ever given a query that passed validate_sql, and no request's
\* query but its own (route_post_validation).
OnlyValidatedSqlRuns ==
    \A r \in Requests : ran[r] # "None" =>
        ran[r] = "select" /\ state[r].generated_sql = "select" /\ state[r].sql_is_valid

\* Every request the API accepted is answered or visibly lost, even if Athena
\* never finishes a query and its handler holds the event loop forever: the
\* health check is what ends it (terraform/modules/alb/main.tf).
EveryRequestEnds ==
    \A r \in Requests : pc[r] = "authenticating" ~> pc[r] \in Ended

\* What those who ask get to know of a request.
Outcome(r) ==
    CASE pc[r] = "idle" -> "none"
      [] pc[r] \in {"401", "auth_500"} -> "refused"
      [] pc[r] = "200"  -> IF response[r].execution_success THEN "success" ELSE "failure"
      [] pc[r] = "500"  -> "crashed"
      [] pc[r] = "lost" -> "lost"
      [] OTHER          -> "open"

Service == INSTANCE AskService WITH
    Acceptable <- {"select"},
    outcome    <- [r \in Requests |-> Outcome(r)],
    proposed   <- [r \in Requests |-> state[r].generated_sql],
    executed   <- ran,
    serving    <- loop

\* The API implements the service (AskService): although tokens are checked in
\* threads and the task may be replaced at any node, requests are served one at
\* a time, no query is executed twice or instead of another, and no answer that
\* was given is taken back (process_natural_language_query, the graph, ReplaceTask).
ImplementsAskService == Service!Spec

-----------------------------------------------------------------------------
(* The inductive invariant behind them *)

\* A run before the graph starts.
Fresh(s, f, q) == s = InitialState /\ f = {} /\ q = "None"

\* A run whose query is not validated yet: every failure is in error_trace.
Unvalidated(s, f, q) ==
    /\ f = {} \/ s.error_trace # "None"
    /\ s.security_error = "None" /\ s.sql_is_valid = FALSE /\ q = "None"

\* A run whose query may be given to Athena.
Accepted(s, f, q) ==
    /\ f = {} /\ s.error_trace = "None" /\ s.security_error = "None"
    /\ s.sql_is_valid = TRUE /\ s.generated_sql = "select" /\ q = "None"

\* A run that looks like a success is one.
Succeeded(s, f, q) ==
    s.error_trace = "None" /\ s.security_error = "None" =>
        /\ f \subseteq {"format_final_answer"}
        /\ s.generated_sql # "None" /\ s.generated_sql \in {"", q}

\* The run of a request that is at p.
RunInv(p, s, answer, f, q) ==
    /\ p \in {"idle", "authenticating", "queued", "fetch_catalog_context"} => Fresh(s, f, q)
    /\ p = "generate_sql" => Unvalidated(s, f, q) /\ s.generated_sql = "None"
    /\ p = "validate_sql" =>
          /\ Unvalidated(s, f, q)
          /\ s.error_trace = "None" => s.generated_sql # "None"
    /\ p = "execute_athena" => Accepted(s, f, q)
    /\ p \in {"format_final_answer", "respond"} => Succeeded(s, f, q)
    /\ p = "format_final_answer" => f = {} \/ s.error_trace # "None"
    /\ p = "respond" =>
          IF s.error_trace = "None" /\ s.security_error = "None"
          THEN /\ s.final_answer \in {"synthesis", "empty", "payload_error"}
               /\ f = IF s.final_answer = "payload_error" THEN {"format_final_answer"} ELSE {}
          ELSE s.final_answer \in {"system_error", "rejected"}
    /\ p = "200" => Truthful(answer, s, f, q)
    /\ q # "None" => q = "select" /\ s.generated_sql = "select" /\ s.sql_is_valid = TRUE

RequestInv(r) == RunInv(pc[r], state[r], response[r], failures[r], ran[r])

RunsInv == TypeOK /\ \A r \in Requests : RequestInv(r)

\* The event loop belongs to the one request whose graph runs.
LoopInv == \A r \in Requests : pc[r] \in Nodes \cup {"respond"} <=> loop = r

IndInv == RunsInv /\ LoopInv
=============================================================================
