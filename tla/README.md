# A verification project for the agentic data platform

The platform ingests JSON files into Apache Iceberg tables, lets an AI agent
decide whether each table may be trusted, and answers questions about the
tables in natural language. This directory holds TLA+ models of its stateful
parts, what TLC checks about them, and what TLAPS proves about them.

Paths below are relative to the repository root; a bare file name is the file of
that name in the component the section is about.

## 1. The system

```
 bronze bucket --S3 event--> trigger Lambda --start_execution--> Step Functions
                                                                      |
                                              Spark job (create | MERGE INTO)
                                                                      v
                                            Iceberg table  <-->  Glue catalog entry
                                                                      ^
 SUCCEEDED --EventBridge--> Fargate task: DQ agent  --- label --------+
                             (Athena, Bedrock, DynamoDB checkpoints)   |
                                                                      v
                         NLQ API (FastAPI, LangGraph), dashboard, dbt: readers
```

| Component | State | Operations | Interacts with | Hard behaviour | What makes it correct |
|---|---|---|---|---|---|
| **DQ agent** `src/agent` | LangGraph channels, a checkpoint per thread in DynamoDB, the running Athena query | handle an event; profile, validate, quarantine or enhance; save checkpoints | Athena, Bedrock, Glue, DynamoDB | any call fails, the task is stopped, an event is delivered again, the table changes meanwhile | never certifies without evidence; label and metrics belong together; reports the truth; ends |
| **Ingestion trigger** `src/lambda/ingest_trigger` | none | parse an S3 event, start an execution | S3, Step Functions | announcements repeated or lost | only expected keys start an execution |
| **Ingestion state machine** `terraform/environments/dev/02-data-pipeline` | status and retry count of an execution | run the job, retry, catch, succeed | EMR Serverless, EventBridge | a retry after a commit | each execution ends; SUCCEEDED means ingested |
| **Spark job** `src/spark/raw_to_iceberg.py` | the Iceberg table | read, check the key, create or merge | S3, Glue, Iceberg | two jobs create or merge at once; crash after the commit | nothing ingested is lost, no key is duplicated |
| **Hand-off** `terraform/modules/eventbridge_ecs_trigger` | events on the bus, tasks | match the event, override the container, run the task; the ECS service restarts its own | Step Functions, ECS, the agent's `__main__` | every step is configured in another file | each success leads to an attempt for its ARN and table |
| **NLQ API** `src/api` | channels of each run, the process's one event loop | context, SQL, validation, Athena, answer | token validation, Glue, Bedrock, Athena, load balancer | failures recorded in several channels; a graph run blocks the loop, health check included | the success flag is true; only validated SQL runs; every request ends |
| **Token validation** `src/api/utils/auth.py` | cached key set and its time stamp, shared by threads | fetch, validate | Cognito | key rotation, failed fetches, threads without a lock | withdrawn keys expire, published ones become known |
| **Vector DB init** `src/db/init_db.py` | the schema, Terraform's record of the invocation | connect with retries, run DDL | Aurora, Terraform | retries against the Lambda's limit, half a schema, statements whose client is gone | recorded as done only when complete; a re-run completes it |
| **Dashboard** `src/dashboard` | cached reads shared by sessions | list, read labels, show rows | Glue, Athena | stale values, cached failures, wrong keys | shows the label that is there |
| **Chat UI, dbt model, workflows, Terraform** | session transcript, none, job results, declarations | - | - | - | - |

The complete list of hazards, each at its line, is in `PROJECT.json`.

## 2. Modules

| Component | Modules | Proofs |
|---|---|---|
| DQ agent | `DataProfile`, `DQAgent`, `DQAgentProperties`, `MCDQAgent`; abstract: `GovernanceGate` | `DQAgentProofs`, `DQAgentAuditProofs` |
| Trigger, state machine, Spark job | `IcebergIngestion`, `IcebergIngestionProperties`, `MCIcebergIngestion`; abstract: `UpsertStore` | `IcebergIngestionProofs` |
| Hand-off | `Handoff`, `MCHandoff` | `HandoffProofs` |
| NLQ API | `NLQAgent`, `MCNLQAgent`; abstract: `AskService` | `NLQAgentProofs` |
| Token validation | `JwksCache`, `MCJwksCache` | `JwksCacheProofs` |
| Vector DB init | `DbInit`, `MCDbInit` | `DbInitProofs` |
| Dashboard | `Dashboard`, `MCDashboard` | `DashboardProofs` |

A component's module holds its state and actions; `...Properties` adds what it
promises, where that is long; `MC...` and its `.cfg` files give the constants
their values for TLC. Components meet where one's outcome is the other's input:
an execution that SUCCEEDED (`IcebergIngestion`) is an event (`Handoff`), the
event is what an attempt is delivered (`DQAgent`), a merge is a commit under the
agent's feet (`MergeCommit` of `DQAgent`), the agent's label is what the
dashboard looks for (`Dashboard`), and a validated token is what lets a request
into the event loop (`Authenticated` of `NLQAgent`, for which `JwksCache` has
the detail). What is not modelled is in section 11.

## 3. The DQ agent (`DQAgent`)

An *attempt* is one run of the container, from the event it was started with to
its exit code. `Attempts` may share an execution ARN, one after another
(re-driven) or at the same time (delivered twice), and then share a thread of
checkpoints.

| Model | Code |
|---|---|
| `pc[a]` | the graph node the attempt is in (`graph.py:68-93`), or its exit code (`main.py:95-100`) |
| `local[a]` | the channels of `AgentState` (`state.py:37-53`); `logs` is the one channel with a reducer |
| `dirty[a]`, `SaveCheckpoint` | LangGraph's default durability: the checkpoint of a super-step is written while the next node runs. LangGraph chains these writes in the background; in the model a super-step also waits for the write before, so that what is saved lags by one super-step at most (written later, the same checkpoints meet at least as many labels) |
| `ckpt[t]` | the newest checkpoint of the thread `ai-dq-agent:{arn}` |
| `entry` | the table's Glue entry: the agent's labels and Iceberg's `metadata_location` are entries of the same `Parameters` map |
| `contents` | what the table held at each of its Iceberg snapshots |
| `Deliver`, `RejectEvent`, `Invoke`, `Return` | `handler` of `main.py`; `Invoke` applies `initial_context` to the thread's checkpoint |
| `SubmitQuery`, `SubmitFails`, `PollRunning`, `PollSucceeded`, `PollRaises` | `profile_data_node` with `execute_query_async` and `poll_query_results`; of the failures of a submission only a ClientError is retried |
| `HardReject`, `AskEvaluator`, `Route` | `validate_dq_node` and `evaluate_compliance_route` |
| `GetTable`, `UpdateTable`, `FinishNode` | the two catalog nodes with `enrich_table_metadata`: between the two Glue calls, anyone may act |
| `CallFails`, `Kill` | an exception of any client, and a stopped task, at every step |
| `AthenaFinishes`, `MergeCommit` | the environment: Athena, and the ingestion pipeline |

`labelled` is a history variable. The null ratio is compared as a fraction,
where the code compares floating point numbers. A reason is a kind; the evaluator's
own reasoning is taken never to be the text "None", which the initial context has
in its place. `MergeCommit` stands for the
merges of module `IcebergIngestion`, which add rows and never remove any, as is
proved there (`MergesOnlyAdd`); a replaced table is not among its steps.

**Properties.** `CertifiedOnEvidence`: a COMPLIANT label has metrics within the
hard limits, and an attempt that profiled these very contents heard a clear
COMPLIANT. `LabelOfOneAttempt`: interleaved read-modify-write cycles never mix
a label with another attempt's metrics. `OutcomeTruthful`: what a successful
attempt reports is about this attempt. `AuditTrailJustified`: the log in a
checkpoint never claims more promotions, or quarantines, than attempts of its
thread have written. `AttemptsProgress`: each step of an attempt brings it nearer
to its end, by a number that nothing around it can raise again (`StepsLeft`:
retries of the submission, polls, nodes and checkpoints to come); why
`EveryAttemptEnds` holds.
`ImplementsGate`: the agent refines `GovernanceGate`, in which verdicts are
reached about contents the table really had, and labels are published whole,
from verdicts.

### Runs

| Run | Bounds | Shows |
|---|---|---|
| `agent` | 2 attempts, 1 ARN, 1 commit, 2 submissions, 1 poll | the safety properties, the inductive invariant, the refinement; 443,000 states up to symmetry |
| `agent_threads` | 2 attempts, 2 ARNs, no commit, 3 submissions, 1 poll | the properties of threads, when attempts share one and when not; the audit trail's inductive invariant; every attempt makes progress and ends; 419,000 states |
| `agent_resume`, `agent_commits` | as `agent` | documented claims the code does not keep, section 9 |

Two attempts are enough for one to be interrupted at any point by another one,
or to find what it left; the theorems of section 10 hold for any number. Three
contents suffice for an empty table, a clean one (exactly at the threshold,
1 of 20) and one beyond it. One commit can fall between any two steps of an
attempt. Fewer submissions and polls than the code's 4 and about 35 reach the
same cases: none failed, some failed, all failed.

**Fairness.** `FairSpec` assumes weak fairness of an attempt's own steps: a
container that runs keeps running until it exits. Its steps contain the
failures of the calls it makes. Nothing is assumed of Athena, which may never
finish a query, of deliveries, or of the pipeline. The code justifies it: no
step waits for anything but a call with a time limit, and polling has one.

## 4. Ingestion (`IcebergIngestion`)

Each announcement of an object is an execution, because the Lambda names every
execution afresh. `file[e]` is the object, `execution[e]` the execution's
status or the Lambda's error reply, `job[e]` the step of the Spark job that is
running, `retries[e]` the count of the Retry clause. A file is described by its
place in the bucket, whether it has the merge key, how many rows it has for
each key and how many without one. `base[e]` is the table as the job's MERGE has
read it. The table counts rows in the same way; all
rows of a key come from one file, since MERGE updates all rows it matches.

Two Terraform files declare the notification of the bronze bucket, one for every
key (`modules/lambda_ingest/main.tf:86-95`) and one for keys under `raw/`
(`02-data-pipeline/main.tf:335-346`); a bucket has only one, so which keys are
announced depends on which was applied last. The model announces any key.

| Model | Code |
|---|---|
| `RejectKey`, `StartExecution` | `lambda_handler` with `parse_s3_event`; 502 stands for 500 as well |
| `ReadSourceData` | `read_source_data` and the checks of `run` |
| `CheckTableExists`, `CreateOrReplace` | `tableExists` and the create branch, two separate calls |
| `PlanMerge`, `CommitMerge`, `MergeFails` | `MERGE INTO`: computed from the table it has read and committed if that is still the newest (Iceberg's default isolation, serializable), an error if several source rows match a target row |
| `JobSucceeds`, `JobCrashes` | exit codes of the job; it may crash after its commit |
| `Retry`, `NotifyIngestionFailure`, `IngestionSucceeded` | the state machine in `02-data-pipeline/main.tf`; `States.TaskFailed` stands for any failure of the task |

**Properties.** `IngestedIsPresent`: the rows of a SUCCEEDED execution stay in
the table whatever conflicts, crashes and retries there were, provided the
table was created only once; the proviso is the race of run `ingestion_create`.
`DuplicatesComeFromOneFile`: the table never has more rows of a key than some
single source file had. `OneCopyPerRun` bounds what `IdempotentWrite` (section 9)
is violated by: rows without a key are in the table at most once per run of a job
on their file, also when a run fails after its commit. `CreationsWithinExecutions`
bounds the race of `CreatesOnlyIfAbsent`: the table is created or replaced no more
often than executions were started, however often their jobs are run again. `MergesOnlyAdd` is what
the agent's module assumes of the pipeline (section 3): but for a creation, each
change is one snapshot more, which keeps all rows. `ExecutionsProgress`:
each step brings its execution nearer to its end, whatever the others do; why
`EveryExecutionEnds` holds. `ImplementsStore`: seen from
outside, the table is an `UpsertStore`: the value of each key is that of the
source written last, sources are written whole and at once, only a writer that
found no store makes one, and nothing is acknowledged that was not written. A
commit computed from a stale read, or a failed one taken for a success, breaks
it.

| Run | Bounds | Shows |
|---|---|---|
| `ingestion` | 2 executions, 2 keys, all 7 kinds of object, 2 retries | safety, the inductive invariants, the refinement, progress and termination; 134,000 states |
| `ingestion_idempotent`, `ingestion_create` | 2 executions, 2 retries | documented claims the code does not keep, section 9 |

The seven objects are one of each kind the code tells apart: well-formed, with
rows that have no key, with a key twice, without the key column, empty, directly
under `raw/`, and in the bucket's root. Two executions can create or merge at
once, conflict, and use up both retries; for more of them there are the
theorems. The retries bound the commits, so that no other bound is needed.

**Fairness.** Weak fairness of an execution's steps: Step Functions goes on to
the next state, and a running job ends, which EMR Serverless enforces with its
execution time limit. Crashes are not fair, and nothing is assumed of S3.

## 5. The query API (`NLQAgent`)

One process, one event loop. FastAPI validates a request's token in a thread and
then resumes the coroutine `/ask`, which runs the whole graph synchronously:
`loop` is the request that holds the event loop, and while it is not free no
other request starts and no health check is answered.

| Model | Code |
|---|---|
| `Accept`, `Authenticated`, `StartHandler`, `Respond`, `InvokeRaises` | `routers/query_router.py` and FastAPI; a token is refused (401) or cannot be judged for want of a key set (`auth_500`) |
| `state[r]` | the channels of `NLQAgentState` |
| `FetchCatalogContext` ... `FormatFinalAnswer`, `route_post_validation` | the nodes and the edge of `nlq_agent/graph.py`, each with the failures it catches and the channel it records them in |
| `HealthCheck`, `ReplaceTask` | the target group of `terraform/modules/alb`: `GET /docs`, three misses |

A query is one of the kinds `validate_sql` tells apart. `failures` and `ran` are
history variables, and the properties compare the response with them:
`ResponseTruthful` (no recorded error is lost on the way through channels that
later nodes write too; success means that the generated query, if there was one,
ran, and that no call failed but the synthesis, which the answer then says; it may
go with the router's text for an empty synthesis), `OnlyValidatedSqlRuns`, and `EveryRequestEnds`, which holds although an
Athena query may never finish, because the health check has the task replaced.
`ImplementsAskService`: seen by those who ask, the API is an `AskService`, which
knows nothing of nodes, channels and health checks: it serves one request at a
time, proposes and executes one query for it at most, answers success only if
the proposed query was executed or there was none, and loses open requests when
something goes wrong, but takes no answer back.

Run `nlq`: two requests, threshold 3 as configured, 21,000 states. Two requests
are enough for one to wait for the other's run. **Fairness:** the process runs,
Glue and Bedrock answer within their clients' timeouts (`Step`), checks are made
and unhealthy tasks are replaced. None is assumed of `ExecuteAthena`
(`read_sql_query` polls without a limit), of new requests, or of exceptions.

## 6. Token validation (`JwksCache`)

The validator is one object for all threads. A call reads the clock (`now[t]`),
checks the cache, fetches if it is missing or too old, and assigns `_jwks` and
`_last_jwks_fetch` one after the other, without a lock; it may fall back to the
cached set when the fetch fails. `history` is what the issuer published at each
instant, so that the cached set is the instant it was published at.

`WithdrawnKeysExpire` and `PublishedKeysAreKnown` say how far a judgement may be
behind the issuer: the time to live plus two calls, however threads interleave.
An older response may overwrite a newer one, and a set may get another
thread's time stamp; neither breaks the bound, because the stamp is the time
*before* the fetch, and a call takes no longer than `CallTime`. A call whose own
fetch failed is excepted: the code then prefers an old set to none, and tries
again with the next call. `CacheGoesForward` is about each assignment: it may
take the set, or the stamp, back by the time of a call and no more, and once there
is a set there always is one.

Run `jwks`: 2 threads, 2 keys, time to live and `CallTime` of 1 instant, 5
instants; 3.8 million states up to symmetry. Five instants exceed the bound of 3,
so that a set can be too old. `CallTime` is an assumption: `requests.get` has a
timeout of 5 s, and a thread is not suspended for longer than the model's
instant.

`configured` is FALSE where `COGNITO_USER_POOL_ID` is not set; then every token
is accepted. Terraform does not set it (`04-consumption/main.tf:95-99`).

## 7. Vector database initialisation (`DbInit`)

`terraform` is the `aws_lambda_invocation`: an apply invokes the Lambda until one
invocation has returned. `pc`, `attempt`, `next`, `elapsed` are the handler's
progress through credentials, connection attempts and the four DDL statements;
`Killed` is the Lambda's limit of 60 s, at any step: fetching the credentials alone
may take longer, since the client of Secrets Manager has timeouts and retries of
its own. A connection may fail for any reason, also when Aurora is up. `orphans` are statements
that the server goes on with after the client is gone; they may take effect
later, or not. Time is in units of 10 s, which is the delay between attempts and
the timeout of one.

`ReportedComplete`: the initialisation is recorded as done, and so never run
again, only when all four objects exist. `CutOffOnlyIfHung`: with attempts that
are refused at once, all five fit the limit, and the handler's own error is
raised; only attempts that hang let the limit strike first. (Five attempts that
hang, with four delays, take 90 s.) The docstring of `get_db_connection` speaks
of exponential backoff, the delay is constant; with a backoff the property would
fail. `DependenciesFirst`: no statement, not even one that the server executes for
a client long gone, is run while something it refers to is missing.
`EventuallyInitialised`: no invocation, wherever it was killed, leaves a
database that the next one cannot complete.

Run `db_init` has the code's own values (5 attempts, 6 units). **Fairness:**
Aurora comes up, orphaned statements end, failed applies are repeated, the
Lambda runs or is killed; strong fairness of `GetCredentials`, `ConnectSucceeds`
and of each `RunStatement` says that a step that is tried again and again does not
fail every time. Repeating a failed apply is the operators' part: without it nothing
would run twice. The system stops once the record exists, so that deadlock is
not checked.

## 8. Hand-off (`Handoff`) and dashboard (`Dashboard`)

`Handoff` follows a finished execution: its status event, the rule's pattern, the
target's container override, the task, and the event the container calls the
handler with. `SucceededIsHandedOver` does not hold, and three files each stand
in its way: the rule's pattern (`detail_type`, where events have `detail-type`),
the container's name (`dq-agent` against `ai_dq_agent`), and `__main__`, which
calls the handler with a fixed event. With all three corrected in the model the
property holds; with two of them it does not. What does call the handler is the
ECS service, again and again, with the fixed event. The theorems of
`HandoffProofs` say that no behaviour does better than the run's counterexample.

`Dashboard` is the Streamlit script, run by each session on three cached
functions. The catalog's past is kept, so that `ShowsTheAgentsLabel` can ask
whether a displayed status was the table's within the time to live. It does not
hold because of the key (section 9); with the key the agent writes, it holds
in the same instance (2 sessions, 1 table, times to live of 2 and 1 instants,
4 instants; 148,000 states). That the key is the only cause is a theorem: the
caches hold what the catalog held (`CachesAreSound`), and the status is UNKNOWN on
every page (`EveryStatusIsUnknown`).

## 9. Where code and documentation disagree

Each is a run that must find a violation (`PROJECT.json`, findings):

1. `ResumesWhereLeftOff`: a re-driven event starts the graph over; `main.py`
   says it resumes.
2. `CommitsStayVisible`: publishing a label can take back an Iceberg commit;
   `aws_glue.py` says "transaction-safe".
3. `IdempotentWrite`: rows without a key are inserted again by each ingestion.
4. `CreatesOnlyIfAbsent`: in a race of two first jobs the later one replaces the
   table, and with it what the other, whose execution SUCCEEDED, has ingested.
5. `SucceededIsHandedOver`: no SUCCEEDED execution reaches the agent.
6. `ShowsTheAgentsLabel`: the dashboard shows UNKNOWN for a table that had a label
   throughout the time to live.

Not checked by a run, and noted here:

- an empty table ends the attempt with ZeroDivisionError (`nodes.py:59`) before
  the barrier for empty tables (`nodes.py:92-97`) is reached;
- two attempts of one thread write its checkpoint in turn, and the log entries
  of one of them are lost (`state.py:53`: "aggregated");
- a failure that will recur is retried like any other, where the comment says
  "Does NOT retry on deterministic job failures" (`02-data-pipeline/main.tf`);
- an object `raw/file.json` passes the key check, whose comment expects
  `raw/{entity}/{filename}.json` (`lambda_function.py:69-71`), and its job fails;
- a key that is twice in one source file is inserted twice, unless the table has
  it already (`Merged`, `Ambiguous`);
- `quarantine_data_node` names a manifest it never writes (`nodes.py:154`, `173`);
- an empty generated query is reported with `execution_success=True`
  (`validate_sql.py:13-15`, `query_router.py:69-72`), a failed synthesis leaves no
  `error_trace`, and an empty one is answered with "Could not process request."
  (`query_router.py:75`), both with `execution_success=True`; `ResponseTruthful`
  says so and no more;
- a thread id per request is there "for per-request resumability"
  (`query_router.py:32-33`), but nothing resumes a request's thread;
- the chat UI posts without an Authorization header, which the API requires
  (`src/ui/app.py:36-40`);
- "Thread-safe validator" (`auth.py:18-21`): an older key set may overwrite a
  newer one; section 6 says what holds all the same.

## 10. Proofs

TLAPS checks the theorems for every value of the constants that satisfies the
named assumptions: `ContentsAssumption` (no more null keys than rows),
`ThresholdAssumption` (what `settings.py` validates; in `NLQAgent`: at least one
missed check), `BoundsAssumption`, `NilAssumption`, `NoEntryAssumption`; `ObjectsAssumption`,
`MaxAttemptsAssumption`, `NoFileAssumption`; `TimeAssumption`, `NoKidAssumption`;
`NoRequestAssumption`; `RetriesAssumption`, `LimitAssumption`. They only give
constants their types and keep the nil values apart from the others.

**The agent.** The safety properties are not inductive: that a COMPLIANT label
has evidence depends on the attempt that is about to publish it. `IndInv` says,
besides types, what each attempt keeps wherever it is: the snapshots it
remembers exist and the submission is not exhausted (`QueryInv`); it has no
verdict before `validate_dq_node`, and afterwards one with its evidence
(`VerdictInv`); the branch it is on agrees with its verdict (`BranchInv`); and
its report is consistent (`ReportInv`). With `LabelOfOneAttempt` this is
inductive. One step of the proof deals with the attempts that do not act
(`BystanderKeepsInv`), one with a label that is not touched (`LabelKept`), and
one per action with the acting attempt. `CertifiedOnEvidence` and
`OutcomeTruthful` follow from `IndInv` alone.

**The audit trail** is a counting argument. `AuditInv` extends
`AuditTrailJustified` from checkpoints to what an attempt is about to write:
its log claims no more labels than were written by *other* attempts of its
thread, or by itself once its catalog node has returned (`Credited`). A log
grows by one claim only in `FinishNode`, when the attempt joins the set that is
counted (`FinishNodeLog`); the set never shrinks, since a label once written
stays written (`LabelsDoGrow`); and a log is otherwise copied, from checkpoint
to attempt (`InvokeLog`) and back (`SavedTrail`). That the set is finite is part
of the invariant, as its cardinality says nothing otherwise.

**The agent's refinement.** `AgentImplementsGate` maps verdicts to the judged
states of attempts. `AskEvaluator` and `HardReject` map to `Accept` and
`Reject`, `UpdateTable` to `Publish`, `MergeCommit` to `Change`; everything else
stutters. `IndInv` supplies that the contents judged were seen and that what
is published is a verdict.

**Progress.** `AttemptsMakeProgress` and `ExecutionsMakeProgress` are the safety
half of termination: a step of the component either lowers a natural number,
`StepsLeft`, or leaves everything alone that the number is computed from. Each
action's proof computes the number before and after it. For ingestion the step
of another execution is the interesting one (`OnlyMoves`): it may change the
table and so make this one's commit fail, but its retries are its own. For
the agent it is that a pending checkpoint (`Unsaved`) counts as a step of its own,
since nodes and checkpoints alternate. From there to `EveryAttemptEnds` and
`EveryExecutionEnds` only fairness and induction over the number are missing,
which are TLC's.

**Ingestion.** `IndInv` adds to the properties that a table never created is
empty, that a job merges only into a table that exists, that what a MERGE has
read is the table unless there was a commit since (`BaseInv`), and that a job at
its end has its source in the table. The case that needs the last is
`CreateOrReplace`: when it is the first creation, every job that has come to its
end had an empty source. `IngestionImplementsStore` maps `CommitMerge`, and the
end of a job with an empty source, to `Upsert`, `CreateOrReplace` to `Make`,
failures and crashes to `Forget`; `BaseInv` is what makes a merge that was
computed from an earlier read an upsert of the present table.
`MergesAddRows` rests on it in the same way.

`NoMoreCopiesThanRuns` and `CreationsAreBounded` are counting arguments. A run
of a job is counted when it has failed or come past its commit (`DoneRuns`), so
that a commit and its run are counted together, and a failed commit leaves a
reserve; an execution that has found no table is counted before it creates one
(`FoundNone`). `CountInv` says both; that the sets are finite is part of it, as
cardinalities say nothing otherwise.

**Token validation.** The cached set was published no earlier than
`lastFetch - CallTime`, although one thread may have written the set and another
the time stamp (`IndInv`, `CallInv`); `WithdrawnKeysExpire` and
`PublishedKeysAreKnown` follow at `LookupKey` (`JudgedByCachedSet`).
`CacheMovesForward` needs no more: a set that a thread is about to assign was
published after its own call began, and a stamp is the beginning of its call; the
call began at most `CallTime` ago, and what is replaced is no newer than the
present. The set may well be older than the call that left the stamp.

**The query API.** `RunInv` says, for each place in the graph, which failures the
error channels must still show: before the validation every failure is in
`error_trace`, at `execute_athena` there is none, afterwards a run that looks
like a success is one. `LoopInv` says whose the event loop is: the one request's
that is at a node or about to respond. `APIImplementsAskService` needs both:
`LoopInv` for every step of a request that is served, `RunInv` for the conditions
of the abstract steps (nothing was proposed for a refused request, the executed
query is the proposed one, success follows its execution). `GenerateSql` maps to
`Propose`, `ExecuteAthena` to `Execute`, `ReplaceTask` to `Restart`; the other nodes
stutter.

**Vector database initialisation.** `NoGap`: whatever exists, is still being
created, or is next, everything before it exists. `TimeSpent`: while connecting,
the time used is that of slow steps plus the delays, which leaves the limit out
of reach unless slow steps use it up. `DependenciesFirst` follows from `NoGap`
alone, since each statement needs only earlier ones.

**Hand-off.** No status event has the pattern's field `detail_type`
(`PatternMatchesNothing`), so that nothing is ever picked or run
(`RuleNeverFires`), and the handler is only called with the fixed event
(`NothingIsHandedOver`, for executions that are not the one whose ARN is written
into `main.py`). `OverrideIsRefused` is the second cause, which would remain.

**Dashboard.** The invariant says that a cached value is the answer of the instant
it carries, for the table it is cached for, or the value that stands for a
failed call; a call returns such a value whether it finds it or makes it
(`CallsAnswer`). `NeverTheKey`: no entry of the catalog, however it is labelled, has
the key the page looks for.

Only model-checked: liveness (`EveryAttemptEnds`, `EveryExecutionEnds`,
`EveryRequestEnds`, `EventuallyInitialised`), because TLAPS cannot prove it with
the fairness conditions involved, and the violations, whose counterexamples TLC
finds. Two of these, `SucceededIsHandedOver` and `ShowsTheAgentsLabel`, are
backed by theorems that say why for every value of the constants; for two more,
`IdempotentWrite` and `CreatesOnlyIfAbsent`, theorems bound the damage.
Every other property of the runs is a theorem.

## 11. Not modelled

- **Chat UI**: one request per question; no state but the session's transcript.
- **dbt gold layer**: one SQL aggregation, run by hand.
- **Deployment and teardown**: sequences of `terraform` calls and image builds. The
  teardown's phases run one after another whatever became of the earlier ones,
  and its summary is a table of their results: no state is shared and nothing
  interleaves.
- **Infrastructure**: what Terraform declares about behaviour (retries, limits,
  rules, health checks) is modelled with the component it configures.
- Of modelled components: the SDKs' own retries, client caches, logging and
  message texts; the time limit of checkpoints (30 days); column sets, schema
  inference and the audit columns of the Spark job; the other records of an S3
  event that has several; several tables (the agent and a job work on one table
  each, and tables do not interact); `last_dq_scan_timestamp`; the latency
  middleware and the checkpoints of the query API, which nothing reads; the
  check of environment variables in `init_db.py`; columns and metrics of the
  dashboard.
- A checkpoint whose writing fails is either saved or not, and in both cases the
  attempt may end with exit code 1, as LangGraph reports the failure when it
  waits for the write.
