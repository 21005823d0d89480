--------------------------- MODULE NLQAgentProofs ---------------------------
(***************************************************************************)
(* Proofs about NLQAgent: what a response says is true of its run, for any *)
(* number of requests, and whenever the load balancer replaces the task.   *)
(***************************************************************************)
EXTENDS NLQAgent, TLAPS

LEMMA InitialTypes == InitialState \in NLQAgentState /\ NoResponse \in Responses
  BY DEF InitialState, NLQAgentState, Queries, Answers, FinalAnswers, NoResponse, Responses

LEMMA RunsInvInit == Init => RunsInv
  <1> SUFFICES ASSUME Init PROVE RunsInv OBVIOUS
  <1>1. TypeOK
    BY InitialTypes, ThresholdAssumption DEF Init, TypeOK, Places
  <1>2. ASSUME NEW r \in Requests PROVE RequestInv(r)
    BY DEF Init, RequestInv, RunInv, Fresh
  <1> QED BY <1>1, <1>2 DEF RunsInv

\* A step that moves one request to a consistent run leaves the others' runs
\* as they are, and so keeps the invariant.
LEMMA RequestMoves ==
    ASSUME NEW r \in Requests, RunsInv,
           NEW p \in Places, NEW s \in NLQAgentState, NEW answer \in Responses,
           NEW f \in SUBSET Nodes, NEW q \in Queries \cup {"None"},
           pc' = [pc EXCEPT ![r] = p], state' = [state EXCEPT ![r] = s],
           response' = [response EXCEPT ![r] = answer],
           failures' = [failures EXCEPT ![r] = f], ran' = [ran EXCEPT ![r] = q],
           loop' \in Requests \cup {NoRequest}, missed' = missed,
           RunInv(p, s, answer, f, q)
    PROVE  RunsInv'
  <1>1. TypeOK
    BY DEF RunsInv
  <1>2. TypeOK'
    BY <1>1 DEF TypeOK
  <1>3. RequestInv(r)'
    BY <1>1 DEF TypeOK, RequestInv
  <1>4. ASSUME NEW o \in Requests, o # r PROVE RequestInv(o)'
    <2>1. RequestInv(o)
      BY DEF RunsInv
    <2>2. /\ pc'[o] = pc[o] /\ state'[o] = state[o] /\ response'[o] = response[o]
          /\ failures'[o] = failures[o] /\ ran'[o] = ran[o]
      BY <1>1, <1>4 DEF TypeOK
    <2> QED BY <2>1, <2>2 DEF RequestInv
  <1> QED BY <1>2, <1>3, <1>4 DEF RunsInv

\* What a node leaves for the rest of the run.
LEMMA NodeMoves ==
    ASSUME NEW r \in Requests, RunsInv, NEW s \in NLQAgentState, NEW failed \in SUBSET Nodes,
           NEW next \in Places, NEW q \in Queries \cup {"None"},
           NodeReturns(r, s, failed, next), ran' = [ran EXCEPT ![r] = q],
           next \in Nodes \cup {"respond"},
           RunInv(next, s, response[r], failures[r] \cup failed, q)
    PROVE  RunsInv'
  <1>1. TypeOK
    BY DEF RunsInv
  <1>2. /\ response[r] \in Responses /\ failures[r] \cup failed \in SUBSET Nodes
        /\ response' = [response EXCEPT ![r] = response[r]]
        /\ loop' \in Requests \cup {NoRequest} /\ missed' = missed
    BY <1>1 DEF TypeOK, NodeReturns
  <1> QED BY <1>1, <1>2, RequestMoves DEF NodeReturns, Goto

\* A step that only moves a request to another place, and may take or give back
\* the event loop.
LEMMA PlaceMoves ==
    ASSUME NEW r \in Requests, RunsInv, NEW p \in Places,
           Goto(r, p), UNCHANGED <<state, response, failures, ran, missed>>,
           loop' \in Requests \cup {NoRequest},
           RunInv(p, state[r], response[r], failures[r], ran[r])
    PROVE  RunsInv'
  <1>1. TypeOK
    BY DEF RunsInv
  <1>2. /\ state[r] \in NLQAgentState /\ response[r] \in Responses
        /\ failures[r] \in SUBSET Nodes /\ ran[r] \in Queries \cup {"None"}
    BY <1>1 DEF TypeOK
  <1>3. /\ state = [state EXCEPT ![r] = state[r]]
        /\ response = [response EXCEPT ![r] = response[r]]
        /\ failures = [failures EXCEPT ![r] = failures[r]]
        /\ ran = [ran EXCEPT ![r] = ran[r]]
    BY <1>1 DEF TypeOK
  <1>4. /\ state' = [state EXCEPT ![r] = state[r]]
        /\ response' = [response EXCEPT ![r] = response[r]]
        /\ failures' = [failures EXCEPT ![r] = failures[r]]
        /\ ran' = [ran EXCEPT ![r] = ran[r]]
    <2>1. state' = state /\ response' = response /\ failures' = failures /\ ran' = ran
      OBVIOUS
    <2> QED BY <1>3, <2>1, Zenon
  <1>5. pc' = [pc EXCEPT ![r] = p] /\ missed' = missed
    BY DEF Goto
  <1> DEFINE s == state[r]
             answer == response[r]
             f == failures[r]
             q == ran[r]
  <1>6. /\ s \in NLQAgentState /\ answer \in Responses /\ f \in SUBSET Nodes
        /\ q \in Queries \cup {"None"} /\ RunInv(p, s, answer, f, q)
    BY <1>2
  <1>7. /\ state' = [state EXCEPT ![r] = s] /\ response' = [response EXCEPT ![r] = answer]
        /\ failures' = [failures EXCEPT ![r] = f] /\ ran' = [ran EXCEPT ![r] = q]
    BY <1>4
  <1> HIDE DEF s, answer, f, q
  <1> QED BY <1>5, <1>6, <1>7, RequestMoves

\* The steps outside the graph.
LEMMA HandlerStep ==
    ASSUME NEW r \in Requests, RunsInv,
           Accept(r) \/ Authenticated(r) \/ StartHandler(r) \/ Respond(r) \/ InvokeRaises(r)
    PROVE  RunsInv'
  <1>1. TypeOK
    BY DEF RunsInv
  <1>2. RunInv(pc[r], state[r], response[r], failures[r], ran[r])
    BY DEF RunsInv, RequestInv
  <1>3. loop \in Requests \cup {NoRequest}
    BY <1>1 DEF TypeOK
  <1>4. CASE Accept(r)
    <2>1. RunInv("authenticating", state[r], response[r], failures[r], ran[r])
      BY <1>2, <1>4 DEF RunInv, Accept
    <2> QED BY <1>3, <1>4, <2>1, PlaceMoves DEF Accept, Places
  <1>5. CASE Authenticated(r)
    <2>1. PICK p \in {"queued", "401", "auth_500"} : Goto(r, p)
      BY <1>5 DEF Authenticated
    <2>2. RunInv(p, state[r], response[r], failures[r], ran[r])
      BY <1>2, <1>5 DEF RunInv, Authenticated
    <2> QED BY <1>3, <1>5, <2>1, <2>2, PlaceMoves DEF Authenticated, Places, Ended
  <1>6. CASE StartHandler(r)
    <2>1. Fresh(state[r], failures[r], ran[r]) /\ ran[r] = "None"
      BY <1>2, <1>6 DEF RunInv, StartHandler, Fresh
    <2>2. UNCHANGED state
      BY <1>1, <1>6, <2>1 DEF StartHandler, Fresh, TypeOK
    <2>3. RunInv("fetch_catalog_context", state[r], response[r], failures[r], ran[r])
      BY <2>1 DEF RunInv
    <2> QED BY <1>6, <2>2, <2>3, PlaceMoves DEF StartHandler, Places, Nodes
  <1>7. CASE Respond(r)
    <2> DEFINE s == state[r]
               answer == [answer |-> OrNotProcessed(s.final_answer),
                          execution_success |-> s.error_trace = "None" /\ s.security_error = "None"]
    <2>1. s \in NLQAgentState
      BY <1>1 DEF TypeOK
    <2>2. answer \in Responses
      BY <2>1 DEF NLQAgentState, Responses, OrNotProcessed, Answers, FinalAnswers
    <2>3. RunInv("200", s, answer, failures[r], ran[r])
      BY <1>2, <1>7 DEF RunInv, Respond, Responds, Truthful, Succeeded, OrNotProcessed
    <2>4. /\ pc' = [pc EXCEPT ![r] = "200"] /\ response' = [response EXCEPT ![r] = answer]
          /\ loop' \in Requests \cup {NoRequest} /\ missed' = missed
      BY <1>7 DEF Respond, Responds, Goto
    <2>5. /\ state' = [state EXCEPT ![r] = s] /\ failures' = [failures EXCEPT ![r] = failures[r]]
          /\ ran' = [ran EXCEPT ![r] = ran[r]]
          /\ failures[r] \in SUBSET Nodes /\ ran[r] \in Queries \cup {"None"}
      BY <1>1, <1>7 DEF Respond, Responds, TypeOK
    <2>6. "200" \in Places
      BY DEF Places, Ended
    <2> HIDE DEF s, answer
    <2> QED BY <2>1, <2>2, <2>3, <2>4, <2>5, <2>6, RequestMoves
  <1>8. CASE InvokeRaises(r)
    <2>1. RunInv("500", state[r], response[r], failures[r], ran[r])
      BY <1>2, <1>8 DEF RunInv, InvokeRaises, Nodes
    <2> QED BY <1>8, <2>1, PlaceMoves DEF InvokeRaises, Places, Ended
  <1> QED BY <1>4, <1>5, <1>6, <1>7, <1>8

\* The nodes of the graph.
LEMMA NodeStep ==
    ASSUME NEW r \in Requests, RunsInv,
           \/ FetchCatalogContext(r) \/ GenerateSql(r) \/ ValidateSql(r)
           \/ ExecuteAthena(r) \/ FormatFinalAnswer(r)
    PROVE  RunsInv'
  <1> DEFINE s == state[r]
             f == failures[r]
             q == ran[r]
             answer == response[r]
  <1>1. /\ TypeOK /\ s \in NLQAgentState /\ f \in SUBSET Nodes /\ q \in Queries \cup {"None"}
        /\ ran = [ran EXCEPT ![r] = q]
    BY DEF RunsInv, TypeOK
  <1>2. RunInv(pc[r], s, answer, f, q)
    BY DEF RunsInv, RequestInv
  <1>3. CASE FetchCatalogContext(r)
    <2> DEFINE ok == [s EXCEPT !.catalog_context = "tables", !.error_trace = "None"]
               bad == [s EXCEPT !.catalog_context = "", !.error_trace = "glue"]
    <2>1. ok \in NLQAgentState /\ bad \in NLQAgentState
      BY <1>1 DEF NLQAgentState
    <2>2. s = InitialState /\ f = {} /\ q = "None"
      BY <1>2, <1>3 DEF RunInv, FetchCatalogContext, Fresh
    <2>3. /\ ok.security_error = "None" /\ ok.sql_is_valid = FALSE /\ ok.generated_sql = "None"
          /\ bad.security_error = "None" /\ bad.sql_is_valid = FALSE
          /\ bad.generated_sql = "None" /\ bad.error_trace # "None"
      <3>1. s.security_error = "None" /\ s.sql_is_valid = FALSE /\ s.generated_sql = "None"
        <4>1. /\ InitialState.security_error = "None" /\ InitialState.sql_is_valid = FALSE
              /\ InitialState.generated_sql = "None"
          BY DEF InitialState
        <4> QED BY <2>2, <4>1
      <3>2. s \in NLQAgentState
        BY <1>1
      <3> HIDE DEF s
      <3>3. ok.security_error = "None" /\ ok.sql_is_valid = FALSE /\ ok.generated_sql = "None"
        BY <3>1, <3>2 DEF NLQAgentState
      <3>4. bad.security_error = "None" /\ bad.sql_is_valid = FALSE /\ bad.generated_sql = "None"
        BY <3>1, <3>2 DEF NLQAgentState
      <3>5. bad.error_trace = "glue"
        BY <3>2 DEF NLQAgentState
      <3> QED BY <3>3, <3>4, <3>5
    <2>4. /\ RunInv("generate_sql", ok, answer, f \cup {}, q)
          /\ RunInv("generate_sql", bad, answer, f \cup {"fetch_catalog_context"}, q)
      BY <2>2, <2>3 DEF RunInv, Unvalidated
    <2>5. \/ NodeReturns(r, ok, {}, "generate_sql")
          \/ NodeReturns(r, bad, {"fetch_catalog_context"}, "generate_sql")
      BY <1>3 DEF FetchCatalogContext
    <2>6. ran' = [ran EXCEPT ![r] = q]
      BY <1>1, <1>3 DEF FetchCatalogContext
    <2> HIDE DEF ok, bad, q
    <2> QED BY <1>1, <2>1, <2>4, <2>5, <2>6, NodeMoves DEF Places, Nodes
  <1>4. CASE GenerateSql(r)
    <2>1. ran' = [ran EXCEPT ![r] = q]
      BY <1>1, <1>4 DEF GenerateSql
    <2>2. Unvalidated(s, f, q) /\ s.generated_sql = "None"
      BY <1>2, <1>4 DEF RunInv, GenerateSql
    <2>3. CASE s.error_trace # "None" /\ NodeReturns(r, s, {}, "validate_sql")
      <3>1. RunInv("validate_sql", s, answer, f \cup {}, q)
        BY <2>2, <2>3 DEF RunInv, Unvalidated
      <3> QED BY <1>1, <2>1, <2>3, <3>1, NodeMoves DEF Places, Nodes
    <2>4. CASE \E sql \in Queries :
                 NodeReturns(r, [s EXCEPT !.generated_sql = sql], {}, "validate_sql")
      <3>1. PICK sql \in Queries :
                 NodeReturns(r, [s EXCEPT !.generated_sql = sql], {}, "validate_sql")
        BY <2>4
      <3> DEFINE s1 == [s EXCEPT !.generated_sql = sql]
      <3>2. s1 \in NLQAgentState
        BY <1>1 DEF NLQAgentState
      <3>3. RunInv("validate_sql", s1, answer, f \cup {}, q)
        BY <1>1, <2>2 DEF RunInv, Unvalidated, NLQAgentState, Queries
      <3>4. NodeReturns(r, s1, {}, "validate_sql")
        BY <3>1
      <3> HIDE DEF s1, q
      <3> QED BY <1>1, <2>1, <3>2, <3>3, <3>4, NodeMoves DEF Places, Nodes
    <2>5. CASE NodeReturns(r, [s EXCEPT !.error_trace = "llm"], {"generate_sql"}, "validate_sql")
      <3> DEFINE s1 == [s EXCEPT !.error_trace = "llm"]
      <3>1. s1 \in NLQAgentState
        BY <1>1 DEF NLQAgentState
      <3>2. RunInv("validate_sql", s1, answer, f \cup {"generate_sql"}, q)
        BY <1>1, <2>2 DEF RunInv, Unvalidated, NLQAgentState
      <3>3. NodeReturns(r, s1, {"generate_sql"}, "validate_sql")
        BY <2>5
      <3> HIDE DEF s1, q
      <3> QED BY <1>1, <2>1, <3>1, <3>2, <3>3, NodeMoves DEF Places, Nodes
    <2> QED BY <1>4, <2>3, <2>4, <2>5 DEF GenerateSql
  <1>5. CASE ValidateSql(r)
    <2> DEFINE s1 == Validated(s)
               next == route_post_validation(s1)
    <2>1. ran' = [ran EXCEPT ![r] = q] /\ NodeReturns(r, s1, {}, next)
      BY <1>1, <1>5 DEF ValidateSql
    <2>2. Unvalidated(s, f, q) /\ (s.error_trace = "None" => s.generated_sql # "None")
      BY <1>2, <1>5 DEF RunInv, ValidateSql
    <2>3. s1 \in NLQAgentState
      BY <1>1 DEF NLQAgentState, Validated
    <2>4. next \in {"execute_athena", "format_final_answer"}
      BY DEF route_post_validation
    <2>5. RunInv(next, s1, answer, f \cup {}, q)
      <3>1. CASE s.generated_sql \in {"None", ""} \/ s.error_trace # "None"
        <4>1. s1 = [s EXCEPT !.sql_is_valid = FALSE]
          BY <3>1 DEF Validated
        <4>2. /\ s1.sql_is_valid = FALSE /\ s1.error_trace = s.error_trace
              /\ s1.security_error = s.security_error /\ s1.generated_sql = s.generated_sql
          BY <1>1, <4>1 DEF NLQAgentState
        <4> HIDE DEF s1
        <4> QED BY <2>2, <3>1, <4>2 DEF RunInv, Unvalidated, Succeeded, route_post_validation
      <3>2. CASE s.error_trace = "None" /\ s.generated_sql = "select"
        <4>1. s1 = [s EXCEPT !.sql_is_valid = TRUE, !.security_error = "None"]
          BY <3>2 DEF Validated
        <4>2. /\ s1.sql_is_valid = TRUE /\ s1.error_trace = "None"
              /\ s1.security_error = "None" /\ s1.generated_sql = "select"
          BY <1>1, <3>2, <4>1 DEF NLQAgentState
        <4> HIDE DEF s1
        <4> QED BY <2>2, <3>2, <4>2 DEF RunInv, Unvalidated, Accepted, route_post_validation
      <3>3. CASE s.error_trace = "None" /\ s.generated_sql \notin {"None", "", "select"}
        <4>1. s1 = [s EXCEPT !.sql_is_valid = FALSE, !.security_error = "forbidden"]
          BY <3>3 DEF Validated
        <4>2. /\ s1.sql_is_valid = FALSE /\ s1.error_trace = "None"
              /\ s1.security_error = "forbidden"
          BY <1>1, <3>3, <4>1 DEF NLQAgentState
        <4> HIDE DEF s1
        <4> QED BY <2>2, <3>3, <4>2 DEF RunInv, Unvalidated, Succeeded, route_post_validation
      <3> QED BY <3>1, <3>2, <3>3
    <2> HIDE DEF s1, next, q
    <2> QED BY <1>1, <2>1, <2>3, <2>4, <2>5, NodeMoves DEF Places, Nodes
  <1>6. CASE ExecuteAthena(r)
    <2> DEFINE ok == [s EXCEPT !.query_results = "rows", !.error_trace = "None"]
               bad == [s EXCEPT !.error_trace = "athena"]
    <2>1. Accepted(s, f, q)
      BY <1>2, <1>6 DEF RunInv, ExecuteAthena
    <2>2. ran' = [ran EXCEPT ![r] = "select"]
      BY <1>6, <2>1 DEF ExecuteAthena, Accepted
    <2>3. \/ NodeReturns(r, ok, {}, "format_final_answer")
          \/ NodeReturns(r, bad, {"execute_athena"}, "format_final_answer")
      BY <1>6, <2>1 DEF ExecuteAthena, Accepted
    <2>4. ok \in NLQAgentState /\ bad \in NLQAgentState
      BY <1>1 DEF NLQAgentState
    <2>5. /\ RunInv("format_final_answer", ok, answer, f \cup {}, "select")
          /\ RunInv("format_final_answer", bad, answer, f \cup {"execute_athena"}, "select")
      BY <1>1, <2>1 DEF RunInv, Accepted, Succeeded, NLQAgentState
    <2> HIDE DEF ok, bad
    <2> QED BY <1>1, <2>2, <2>3, <2>4, <2>5, NodeMoves DEF Places, Nodes, Queries
  <1>7. CASE FormatFinalAnswer(r)
    <2>1. ran' = [ran EXCEPT ![r] = q]
      BY <1>1, <1>7 DEF FormatFinalAnswer
    <2>2. PICK a \in FinalAnswers, failed \in {{}, {"format_final_answer"}} :
            /\ NodeReturns(r, [s EXCEPT !.final_answer = a], failed, "respond")
            /\ IF s.error_trace = "None" /\ s.security_error = "None"
               THEN /\ a \in {"synthesis", "empty", "payload_error"}
                    /\ failed = IF a = "payload_error" THEN {"format_final_answer"} ELSE {}
               ELSE a \in {"system_error", "rejected"} /\ failed = {}
      BY <1>7 DEF FormatFinalAnswer, FinalAnswers
    <2>3. /\ Succeeded(s, f, q) /\ (f = {} \/ s.error_trace # "None")
          /\ q # "None" => q = "select" /\ s.generated_sql = "select" /\ s.sql_is_valid = TRUE
      BY <1>2, <1>7 DEF RunInv, FormatFinalAnswer
    <2> DEFINE s1 == [s EXCEPT !.final_answer = a]
    <2>4. /\ s1 \in NLQAgentState /\ s1.final_answer = a
          /\ s1.error_trace = s.error_trace /\ s1.security_error = s.security_error
          /\ s1.generated_sql = s.generated_sql /\ s1.sql_is_valid = s.sql_is_valid
      BY <1>1 DEF NLQAgentState
    <2>5. NodeReturns(r, s1, failed, "respond")
      BY <2>2
    <2> HIDE DEF s1, q
    <2>6. RunInv("respond", s1, answer, f \cup failed, q)
      BY <2>2, <2>3, <2>4 DEF RunInv, Succeeded
    <2> QED BY <1>1, <2>1, <2>4, <2>5, <2>6, NodeMoves DEF Places, Nodes
  <1> QED BY <1>3, <1>4, <1>5, <1>6, <1>7

LEMMA RunsInvStep == RunsInv /\ [Next]_vars => RunsInv'
  <1> SUFFICES ASSUME RunsInv, [Next]_vars PROVE RunsInv' OBVIOUS
  <1>1. CASE \E r \in Requests : Accept(r) \/ Step(r) \/ ExecuteAthena(r) \/ InvokeRaises(r)
    BY <1>1, HandlerStep, NodeStep DEF Step
  <1>2. CASE HealthCheck
    <2>1. TypeOK'
      BY <1>2, ThresholdAssumption DEF HealthCheck, RunsInv, TypeOK, requestVars
    <2> QED BY <1>2, <2>1 DEF HealthCheck, RunsInv, RequestInv, requestVars
  <1>3. CASE ReplaceTask
    <2>1. TypeOK'
      BY <1>3, ThresholdAssumption DEF ReplaceTask, RunsInv, TypeOK, Ended, Places
    <2>2. ASSUME NEW q \in Requests PROVE RequestInv(q)'
      <3>1. /\ pc'[q] = pc[q] \/ pc'[q] = "lost"
            /\ UNCHANGED <<state, response, failures, ran>>
        BY <1>3 DEF ReplaceTask
      <3>2. RunInv(pc[q], state[q], response[q], failures[q], ran[q])
        BY DEF RunsInv, RequestInv
      <3>3. RunInv("lost", state[q], response[q], failures[q], ran[q])
        BY <3>2 DEF RunInv
      <3> QED BY <3>1, <3>2, <3>3 DEF RequestInv
    <2> QED BY <2>1, <2>2 DEF RunsInv
  <1>4. CASE UNCHANGED vars
    <2>1. TypeOK'
      BY <1>4 DEF vars, requestVars, RunsInv, TypeOK
    <2> QED BY <1>4, <2>1 DEF vars, requestVars, RunsInv, RequestInv
  <1> QED BY <1>1, <1>2, <1>3, <1>4 DEF Next

-----------------------------------------------------------------------------
(* The event loop *)

LEMMA LoopInvStep == TypeOK /\ LoopInv /\ [Next]_vars => LoopInv'
  <1> SUFFICES ASSUME TypeOK, LoopInv, [Next]_vars PROVE LoopInv' OBVIOUS
  <1> DEFINE Holding == Nodes \cup {"respond"}
  <1>1. ASSUME NEW r \in Requests, NEW p, Goto(r, p),
               \/ loop' = loop /\ (pc[r] \in Holding <=> p \in Holding)
               \/ loop = NoRequest /\ loop' = r /\ p \in Holding
               \/ loop = r /\ loop' = NoRequest /\ p \notin Holding
        PROVE  LoopInv'
    <2>1. pc'[r] = p /\ \A q \in Requests \ {r} : pc'[q] = pc[q]
      BY <1>1 DEF Goto, TypeOK
    <2> QED BY <1>1, <2>1, NoRequestAssumption DEF LoopInv
  <1>2. ASSUME NEW r \in Requests, NEW s, NEW failed, NEW p, pc[r] \in Nodes,
               NodeReturns(r, s, failed, p), p \in Holding
        PROVE  LoopInv'
    BY <1>1, <1>2 DEF NodeReturns
  <1>3. ASSUME NEW r \in Requests, Accept(r) \/ Authenticated(r) PROVE LoopInv'
    BY <1>1, <1>3 DEF Accept, Authenticated, Nodes
  <1>4. ASSUME NEW r \in Requests, StartHandler(r) PROVE LoopInv'
    BY <1>1, <1>4 DEF StartHandler, Nodes
  <1>5. ASSUME NEW r \in Requests, Respond(r) \/ InvokeRaises(r) PROVE LoopInv'
    BY <1>1, <1>5 DEF Respond, Responds, InvokeRaises, Nodes, LoopInv
  <1>6. ASSUME NEW r \in Requests,
               \/ FetchCatalogContext(r) \/ GenerateSql(r) \/ ValidateSql(r)
               \/ ExecuteAthena(r) \/ FormatFinalAnswer(r)
        PROVE  LoopInv'
    <2>1. CASE FetchCatalogContext(r)
      BY <1>2, <2>1 DEF FetchCatalogContext, Nodes
    <2>2. CASE GenerateSql(r)
      BY <1>2, <2>2 DEF GenerateSql, Nodes
    <2>3. CASE ValidateSql(r)
      BY <1>2, <2>3 DEF ValidateSql, route_post_validation, Nodes
    <2>4. CASE ExecuteAthena(r)
      BY <1>2, <2>4 DEF ExecuteAthena, Nodes
    <2>5. CASE FormatFinalAnswer(r)
      BY <1>2, <2>5 DEF FormatFinalAnswer, Nodes
    <2> QED BY <1>6, <2>1, <2>2, <2>3, <2>4, <2>5
  <1>7. CASE HealthCheck \/ UNCHANGED vars
    BY <1>7 DEF HealthCheck, vars, requestVars, LoopInv
  <1>8. CASE ReplaceTask
    BY <1>8, NoRequestAssumption DEF ReplaceTask, LoopInv, TypeOK, Places, Nodes, Ended
  <1> QED BY <1>3, <1>4, <1>5, <1>6, <1>7, <1>8 DEF Next, Step

LEMMA IndInvInit == Init => IndInv
  <1>1. Init => LoopInv
    BY NoRequestAssumption DEF Init, LoopInv, Nodes
  <1> QED BY <1>1, RunsInvInit DEF IndInv

LEMMA IndInvStep == IndInv /\ [Next]_vars => IndInv'
  BY RunsInvStep, LoopInvStep DEF IndInv, RunsInv

\* What each run keeps, node by node, and whose the event loop is, in every
\* reachable state.
THEOREM RunInvariant == Spec => []IndInv
  <1> QED BY IndInvInit, IndInvStep, PTL DEF Spec

\* No error a node records is lost before the router looks; success is reported
\* only if nothing failed but the synthesis, which the answer then says, and never
\* for a query that did not run (query_router.py, success_flag).
THEOREM ResponsesAreTruthful == Spec => []ResponseTruthful
  <1>1. IndInv => ResponseTruthful
    BY DEF IndInv, RunsInv, RequestInv, RunInv, ResponseTruthful
  <1> QED BY <1>1, RunInvariant, PTL

\* Only queries that passed validate_sql reach Athena.
THEOREM OnlyValidatedSqlReachesAthena == Spec => []OnlyValidatedSqlRuns
  <1>1. IndInv => OnlyValidatedSqlRuns
    BY DEF IndInv, RunsInv, RequestInv, RunInv, OnlyValidatedSqlRuns
  <1> QED BY <1>1, RunInvariant, PTL

-----------------------------------------------------------------------------
(* The refinement *)

outcomes == [r \in Requests |-> Outcome(r)]
proposals == [r \in Requests |-> state[r].generated_sql]

LEMMA ServiceInit == Init => Service!Init
  <1> SUFFICES ASSUME Init PROVE Service!Init OBVIOUS
  <1>1. \A r \in Requests : Outcome(r) = "none" /\ state[r].generated_sql = "None"
    <2>1. InitialState.generated_sql = "None"
      BY DEF InitialState
    <2> QED BY <2>1 DEF Init, Outcome
  <1> QED BY <1>1 DEF Init, Service!Init

\* A step that keeps what those who ask can see.
Stutters == UNCHANGED <<outcomes, proposals, ran, loop>>

LEMMA StutteringStep == Stutters => UNCHANGED Service!vars
  BY DEF Stutters, outcomes, proposals, Service!vars

\* What one request's move to another place does to what can be seen.
LEMMA OutcomeMoves ==
    ASSUME TypeOK, NEW r \in Requests, NEW p, Goto(r, p), UNCHANGED response
    PROVE  /\ \A q \in Requests \ {r} : Outcome(q)' = Outcome(q)
           /\ p \in Nodes \cup {"authenticating", "queued", "respond"} => Outcome(r)' = "open"
           /\ p \in {"401", "auth_500"} => Outcome(r)' = "refused"
           /\ p = "500" => Outcome(r)' = "crashed"
  <1>1. pc'[r] = p /\ \A q \in Requests \ {r} : pc'[q] = pc[q]
    BY DEF Goto, TypeOK
  <1> QED BY <1>1 DEF Outcome, Nodes

\* A node that returns changes at most the query of its own request.
LEMMA NodeSeen ==
    ASSUME TypeOK, NEW r \in Requests, NEW s \in NLQAgentState, NEW failed, NEW p,
           pc[r] \in Nodes, p \in Nodes \cup {"respond"}, NodeReturns(r, s, failed, p)
    PROVE  /\ outcomes' = outcomes
           /\ proposals' = [proposals EXCEPT ![r] = s.generated_sql]
           /\ loop' = loop
  <1>1. Outcome(r) = "open"
    BY DEF Outcome, Nodes
  <1>2. \A q \in Requests : Outcome(q)' = Outcome(q)
    BY <1>1, OutcomeMoves DEF NodeReturns
  <1>3. state' = [state EXCEPT ![r] = s] /\ loop' = loop
    BY DEF NodeReturns
  <1>4. proposals' = [proposals EXCEPT ![r] = s.generated_sql]
    BY <1>3 DEF proposals, TypeOK
  <1> QED BY <1>2, <1>3, <1>4 DEF outcomes

LEMMA NodeStutters ==
    ASSUME TypeOK, NEW r \in Requests, NEW s \in NLQAgentState, NEW failed, NEW p,
           pc[r] \in Nodes, p \in Nodes \cup {"respond"}, NodeReturns(r, s, failed, p),
           s.generated_sql = state[r].generated_sql, ran' = ran
    PROVE  Stutters
  <1>1. proposals' = [proposals EXCEPT ![r] = state[r].generated_sql]
    BY NodeSeen
  <1>2. proposals' = proposals
    BY <1>1 DEF proposals
  <1> QED BY <1>2, NodeSeen DEF Stutters

\* The steps outside the graph.
LEMMA HandlerServes ==
    ASSUME IndInv, NEW r \in Requests,
           Accept(r) \/ Authenticated(r) \/ StartHandler(r) \/ Respond(r) \/ InvokeRaises(r)
    PROVE  Service!Next \/ Stutters
  <1>1. /\ TypeOK /\ RunInv(pc[r], state[r], response[r], failures[r], ran[r])
        /\ pc[r] \in Nodes \cup {"respond"} <=> loop = r
    BY DEF IndInv, RunsInv, RequestInv, LoopInv
  <1>2. ASSUME NEW p, Goto(r, p), UNCHANGED <<response, state, ran>>
        PROVE  /\ proposals' = proposals
               /\ \A q \in Requests \ {r} : Outcome(q)' = Outcome(q)
    BY <1>1, <1>2, OutcomeMoves DEF proposals
  <1>3. ASSUME NEW o, Outcome(r)' = o, \A q \in Requests \ {r} : Outcome(q)' = Outcome(q)
        PROVE  Service!Becomes(r, o)
    BY <1>3 DEF Service!Becomes
  <1>4. CASE Accept(r)
    <2>1. Outcome(r) = "none" /\ Outcome(r)' = "open"
      BY <1>1, <1>4, OutcomeMoves DEF Accept, Outcome
    <2>2. proposals' = proposals /\ Service!Becomes(r, "open")
      BY <1>2, <1>3, <1>4, <2>1 DEF Accept
    <2>3. Service!Ask(r)
      BY <1>4, <2>1, <2>2 DEF Service!Ask, proposals, Accept
    <2> QED BY <2>3 DEF Service!Next
  <1>5. CASE Authenticated(r)
    <2>1. Outcome(r) = "open" /\ loop # r /\ state[r].generated_sql = "None"
      <3>1. state[r] = InitialState /\ Outcome(r) = "open" /\ loop # r
        BY <1>1, <1>5 DEF Authenticated, Outcome, Nodes, RunInv, Fresh
      <3>2. InitialState.generated_sql = "None"
        BY DEF InitialState
      <3> QED BY <3>1, <3>2
    <2>2. CASE Goto(r, "queued")
      <3>1. Outcome(r)' = "open"
        BY <1>1, <1>5, <2>2, OutcomeMoves DEF Authenticated
      <3>2. proposals' = proposals /\ outcomes' = outcomes
        BY <1>2, <1>5, <2>1, <2>2, <3>1 DEF Authenticated, outcomes
      <3> QED BY <1>5, <3>2 DEF Stutters, Authenticated
    <2>3. CASE Goto(r, "401") \/ Goto(r, "auth_500")
      <3>1. Outcome(r)' = "refused"
        BY <1>1, <1>5, <2>3, OutcomeMoves DEF Authenticated
      <3>2. proposals' = proposals /\ Service!Becomes(r, "refused")
        BY <1>2, <1>3, <1>5, <2>3, <3>1 DEF Authenticated
      <3>3. Service!Refuse(r)
        BY <1>5, <2>1, <3>2 DEF Service!Refuse, proposals, Authenticated
      <3> QED BY <3>3 DEF Service!Next
    <2> QED BY <1>5, <2>2, <2>3 DEF Authenticated
  <1>6. CASE StartHandler(r)
    <2>1. Outcome(r) = "open" /\ state[r] = InitialState
      BY <1>1, <1>6 DEF StartHandler, Outcome, RunInv, Fresh
    <2>2. UNCHANGED <<state, response, ran>>
      BY <1>1, <1>6, <2>1 DEF StartHandler, TypeOK
    <2>3. Outcome(r)' = "open"
      BY <1>1, <1>6, <2>2, OutcomeMoves DEF StartHandler, Nodes
    <2>4. proposals' = proposals /\ outcomes' = outcomes
      BY <1>2, <1>6, <2>1, <2>2, <2>3 DEF StartHandler, outcomes
    <2>5. Service!Serve(r)
      BY <1>6, <2>1, <2>2, <2>4 DEF Service!Serve, outcomes, proposals, StartHandler
    <2> QED BY <2>5 DEF Service!Next
  <1>7. CASE Respond(r)
    <2> DEFINE success == state[r].error_trace = "None" /\ state[r].security_error = "None"
    <2>1. loop = r /\ (success => Service!Done(r))
      BY <1>1, <1>7 DEF Respond, Responds, RunInv, Succeeded, Service!Done
    <2>2. /\ pc'[r] = "200" /\ response'[r].execution_success = success
          /\ \A q \in Requests \ {r} : pc'[q] = pc[q] /\ response'[q] = response[q]
      BY <1>1, <1>7 DEF Respond, Responds, Goto, TypeOK
    <2> HIDE DEF success
    <2>3. Outcome(r)' = (IF success THEN "success" ELSE "failure")
      BY <2>2 DEF Outcome
    <2>4. \A q \in Requests \ {r} : Outcome(q)' = Outcome(q)
      BY <2>2 DEF Outcome
    <2>5. /\ proposals' = proposals /\ ran' = ran /\ loop' = NoRequest
      BY <1>7 DEF Respond, Responds, proposals
    <2>6. CASE success
      <3>1. Service!Ends(r, "success")
        BY <1>3, <2>1, <2>3, <2>4, <2>5, <2>6 DEF Service!Ends, proposals
      <3> QED BY <2>1, <2>6, <3>1 DEF Service!Answer, Service!Next
    <2>7. CASE ~success
      <3>1. Service!Ends(r, "failure")
        BY <1>3, <2>1, <2>3, <2>4, <2>5, <2>7 DEF Service!Ends, proposals
      <3> QED BY <3>1 DEF Service!Answer, Service!Next
    <2> QED BY <2>6, <2>7
  <1>8. CASE InvokeRaises(r)
    <2>1. loop = r /\ Outcome(r)' = "crashed"
      BY <1>1, <1>8, OutcomeMoves DEF InvokeRaises
    <2>2. proposals' = proposals /\ Service!Becomes(r, "crashed")
      BY <1>2, <1>3, <1>8, <2>1 DEF InvokeRaises
    <2>3. Service!Crash(r)
      BY <1>8, <2>1, <2>2 DEF Service!Crash, Service!Ends, proposals, InvokeRaises
    <2> QED BY <2>3 DEF Service!Next
  <1> QED BY <1>4, <1>5, <1>6, <1>7, <1>8

\* The nodes of the graph: one proposes, one executes.
LEMMA NodeServes ==
    ASSUME IndInv, NEW r \in Requests,
           \/ FetchCatalogContext(r) \/ GenerateSql(r) \/ ValidateSql(r)
           \/ ExecuteAthena(r) \/ FormatFinalAnswer(r)
    PROVE  Service!Next \/ Stutters
  <1> DEFINE s == state[r]
  <1>1. /\ TypeOK /\ s \in NLQAgentState
        /\ RunInv(pc[r], s, response[r], failures[r], ran[r])
        /\ pc[r] \in Nodes \cup {"respond"} <=> loop = r
    BY DEF IndInv, RunsInv, RequestInv, LoopInv, TypeOK
  <1>2. pc[r] \in Nodes /\ loop = r
    BY <1>1 DEF FetchCatalogContext, GenerateSql, ValidateSql, ExecuteAthena,
                FormatFinalAnswer, Nodes
  <1>3. CASE FetchCatalogContext(r)
    <2> DEFINE ok == [s EXCEPT !.catalog_context = "tables", !.error_trace = "None"]
               bad == [s EXCEPT !.catalog_context = "", !.error_trace = "glue"]
    <2>1. /\ ok \in NLQAgentState /\ bad \in NLQAgentState
          /\ ok.generated_sql = s.generated_sql /\ bad.generated_sql = s.generated_sql
      BY <1>1 DEF NLQAgentState
    <2>2. /\ ran' = ran
          /\ \/ NodeReturns(r, ok, {}, "generate_sql")
             \/ NodeReturns(r, bad, {"fetch_catalog_context"}, "generate_sql")
      BY <1>3 DEF FetchCatalogContext
    <2> HIDE DEF ok, bad
    <2> QED BY <1>1, <1>2, <2>1, <2>2, NodeStutters DEF Nodes
  <1>4. CASE GenerateSql(r)
    <2>1. s.generated_sql = "None" /\ ran' = ran
      BY <1>1, <1>4 DEF RunInv, GenerateSql
    <2>2. CASE NodeReturns(r, s, {}, "validate_sql")
      BY <1>1, <1>2, <2>1, <2>2, NodeStutters DEF Nodes
    <2>3. CASE NodeReturns(r, [s EXCEPT !.error_trace = "llm"], {"generate_sql"}, "validate_sql")
      <3> DEFINE bad == [s EXCEPT !.error_trace = "llm"]
      <3>1. /\ bad \in NLQAgentState /\ bad.generated_sql = s.generated_sql
            /\ NodeReturns(r, bad, {"generate_sql"}, "validate_sql")
        BY <1>1, <2>3 DEF NLQAgentState
      <3> HIDE DEF bad
      <3> QED BY <1>1, <1>2, <2>1, <3>1, NodeStutters DEF Nodes
    <2>4. ASSUME NEW q \in Queries,
                 NodeReturns(r, [s EXCEPT !.generated_sql = q], {}, "validate_sql")
          PROVE  Service!Next
      <3> DEFINE s1 == [s EXCEPT !.generated_sql = q]
      <3>1. /\ s1 \in NLQAgentState /\ s1.generated_sql = q
            /\ NodeReturns(r, s1, {}, "validate_sql")
        BY <1>1, <2>4 DEF NLQAgentState
      <3> HIDE DEF s1
      <3>2. /\ outcomes' = outcomes /\ loop' = loop
            /\ proposals' = [proposals EXCEPT ![r] = q]
        BY <1>1, <1>2, <3>1, NodeSeen DEF Nodes
      <3>3. Service!Propose(r, q)
        BY <1>2, <2>1, <3>2 DEF Service!Propose, outcomes, proposals
      <3> QED BY <3>3 DEF Service!Next
    <2> QED BY <1>4, <2>2, <2>3, <2>4 DEF GenerateSql
  <1>5. CASE ValidateSql(r)
    <2> DEFINE s1 == Validated(s)
               next == route_post_validation(s1)
    <2>1. ran' = ran /\ NodeReturns(r, s1, {}, next)
      BY <1>5 DEF ValidateSql
    <2>2. s1 \in NLQAgentState /\ s1.generated_sql = s.generated_sql
      BY <1>1 DEF NLQAgentState, Validated
    <2>3. next \in Nodes
      BY DEF route_post_validation, Nodes
    <2> HIDE DEF s1, next
    <2> QED BY <1>1, <1>2, <2>1, <2>2, <2>3, NodeStutters
  <1>6. CASE ExecuteAthena(r)
    <2> DEFINE ok == [s EXCEPT !.query_results = "rows", !.error_trace = "None"]
               bad == [s EXCEPT !.error_trace = "athena"]
    <2>1. /\ s.generated_sql = "select" /\ ran[r] = "None"
          /\ ran' = [ran EXCEPT ![r] = s.generated_sql]
          /\ \/ NodeReturns(r, ok, {}, "format_final_answer")
             \/ NodeReturns(r, bad, {"execute_athena"}, "format_final_answer")
      BY <1>1, <1>6 DEF RunInv, ExecuteAthena, Accepted
    <2>2. /\ ok \in NLQAgentState /\ bad \in NLQAgentState
          /\ ok.generated_sql = s.generated_sql /\ bad.generated_sql = s.generated_sql
      BY <1>1 DEF NLQAgentState
    <2> HIDE DEF ok, bad
    <2>3. /\ outcomes' = outcomes /\ loop' = loop
          /\ proposals' = [proposals EXCEPT ![r] = s.generated_sql]
      BY <1>1, <1>2, <2>1, <2>2, NodeSeen DEF Nodes
    <2>4. proposals' = proposals
      BY <2>3 DEF proposals
    <2>5. Service!Execute(r)
      BY <1>2, <2>1, <2>3, <2>4 DEF Service!Execute, outcomes, proposals
    <2> QED BY <2>5 DEF Service!Next
  <1>7. CASE FormatFinalAnswer(r)
    <2>1. PICK a \in FinalAnswers, failed \in {{}, {"format_final_answer"}} :
            NodeReturns(r, [s EXCEPT !.final_answer = a], failed, "respond") /\ ran' = ran
      BY <1>7 DEF FormatFinalAnswer, FinalAnswers
    <2> DEFINE s1 == [s EXCEPT !.final_answer = a]
    <2>2. /\ s1 \in NLQAgentState /\ s1.generated_sql = s.generated_sql
          /\ NodeReturns(r, s1, failed, "respond")
      BY <1>1, <2>1 DEF NLQAgentState
    <2> HIDE DEF s1
    <2> QED BY <1>1, <1>2, <2>1, <2>2, NodeStutters
  <1> QED BY <1>3, <1>4, <1>5, <1>6, <1>7

LEMMA ServiceStep == IndInv /\ [Next]_vars => [Service!Next]_Service!vars
  <1> SUFFICES ASSUME IndInv, [Next]_vars PROVE Service!Next \/ Stutters
    BY StutteringStep
  <1>1. CASE \E r \in Requests : Accept(r) \/ Step(r) \/ ExecuteAthena(r) \/ InvokeRaises(r)
    BY <1>1, HandlerServes, NodeServes DEF Step
  <1>2. CASE HealthCheck \/ UNCHANGED vars
    BY <1>2 DEF HealthCheck, vars, requestVars, Stutters, outcomes, proposals, Outcome
  <1>3. CASE ReplaceTask
    <2>1. ASSUME NEW r \in Requests
          PROVE  Outcome(r)' = IF Outcome(r) = "open" THEN "lost" ELSE Outcome(r)
      <3>1. /\ pc'[r] = IF pc[r] \in {"idle"} \cup Ended THEN pc[r] ELSE "lost"
            /\ response' = response
        BY <1>3 DEF ReplaceTask
      <3> QED BY <3>1 DEF Outcome, Ended
    <2>2. Service!Restart
      BY <1>3, <2>1 DEF Service!Restart, ReplaceTask
    <2> QED BY <2>2 DEF Service!Next
  <1> QED BY <1>1, <1>2, <1>3 DEF Next

\* The API implements the service, for any number of requests and any threshold
\* of the load balancer: whoever asks may reason with AskService alone.
THEOREM APIImplementsAskService == Spec => ImplementsAskService
  <1>1. Init => Service!Init
    BY ServiceInit
  <1>2. IndInv /\ [Next]_vars => [Service!Next]_Service!vars
    BY ServiceStep
  <1> QED BY <1>1, <1>2, RunInvariant, PTL DEF Spec, Service!Spec, ImplementsAskService
=============================================================================
