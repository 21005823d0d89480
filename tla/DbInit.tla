------------------------------- MODULE DbInit -------------------------------
(***************************************************************************)
(* The initialisation of the vector database (src/db/init_db.py): a Lambda *)
(* that Terraform invokes once it exists, and again with the next apply as *)
(* long as no invocation has returned normally.  The Lambda connects to    *)
(* Aurora with retries and runs four DDL statements, each in a transaction *)
(* of its own, and is killed at its time limit wherever it is.             *)
(*                                                                         *)
(* Abstractions: time is counted in units of RETRY_DELAY_SECONDS, which is *)
(* also the timeout of a connection; a statement is the object it creates. *)
(* The environment variables are always set (by Terraform).                *)
(***************************************************************************)
EXTENDS Naturals

CONSTANTS MAX_RETRIES,   \* 5
          Limit          \* time units of an invocation: 60 s / 10 s = 6

ASSUME RetriesAssumption == MAX_RETRIES \in Nat \ {0}
ASSUME LimitAssumption == Limit \in Nat \ {0}

VARIABLES
    db,          \* the Aurora instance: "starting" or "up"
    objects,     \* the DDL statements whose objects exist
    orphans,     \* statements the server still executes for nobody
    terraform,   \* the aws_lambda_invocation: "absent", "invoking" or "created"
    pc,          \* where the Lambda is
    attempt,     \* connection attempts that failed
    next,        \* the statement to run next
    elapsed,     \* time units since the invocation began
    slow,        \* history variable: units spent before a connection, but not asleep
    ended        \* history variable: how the last invocation ended

lambdaVars == <<pc, attempt, next, elapsed, slow>>
vars == <<db, objects, orphans, terraform, lambdaVars, ended>>

\* ddl_statements: the extension, the schema, the table and its index.
Statements == 1 .. 4

\* The objects a statement refers to: the table lives in the schema and has a
\* column of the extension's type, the index is one of the table.
Needs == <<{}, {}, {1, 2}, {1, 3}>>

Running == {"credentials", "connect", "sleep", "schema", "return"}
Endings == {"none", "200", "no_credentials", "retries_exceeded", "ddl_error",
            "killed_connecting", "killed_elsewhere"}

TypeOK ==
    /\ db \in {"starting", "up"}
    /\ objects \subseteq Statements
    /\ orphans \subseteq Statements
    /\ terraform \in {"absent", "invoking", "created"}
    /\ pc \in {"idle"} \cup Running
    /\ attempt \in 0 .. MAX_RETRIES - 1
    /\ next \in Statements \cup {5}
    /\ elapsed \in 0 .. Limit - 1
    /\ slow \in Nat
    /\ ended \in Endings

Init ==
    /\ db = "starting"
    /\ objects = {}
    /\ orphans = {}
    /\ terraform = "absent"
    /\ pc = "idle"
    /\ attempt = 0
    /\ next = 1
    /\ elapsed = 0
    /\ slow = 0
    /\ ended = "none"

-----------------------------------------------------------------------------
(* Terraform, Lambda and Aurora *)

\* terraform apply creates the invocation, unless an earlier one succeeded.
Apply ==
    /\ terraform = "absent"
    /\ terraform' = "invoking"
    /\ pc' = "credentials"
    /\ slow' = 0
    /\ ended' = "none"
    /\ UNCHANGED <<db, objects, orphans, attempt, next, elapsed>>

\* The handler returns or raises; its connection, if there is one, is closed.
\* Terraform keeps the invocation only if the handler returned.
Ends(how) ==
    /\ pc' = "idle"
    /\ ended' = how
    /\ terraform' = IF how = "200" THEN "created" ELSE "absent"
    /\ attempt' = 0 /\ next' = 1 /\ elapsed' = 0
    /\ UNCHANGED slow

\* A step that takes d units ends within the time limit.
Takes(d) == elapsed + d < Limit /\ elapsed' = elapsed + d

\* Aurora finishes its start.
AuroraComesUp ==
    /\ db = "starting"
    /\ db' = "up"
    /\ UNCHANGED <<objects, orphans, terraform, lambdaVars, ended>>

\* An orphaned statement ends in the server, or with its connection.
OrphanEnds(i) ==
    /\ i \in orphans
    /\ orphans' = orphans \ {i}
    /\ \/ UNCHANGED objects
       \/ Needs[i] \subseteq objects /\ objects' = objects \cup {i}
    /\ UNCHANGED <<db, terraform, lambdaVars, ended>>

-----------------------------------------------------------------------------
(* get_db_credentials *)

\* The client of Secrets Manager has its own timeouts and retries, which may take
\* longer than the whole limit.
GetCredentials ==
    /\ pc = "credentials"
    /\ \E d \in 0 .. Limit : Takes(d) /\ slow' = slow + d
    /\ pc' = "connect"
    /\ UNCHANGED <<db, objects, orphans, terraform, attempt, next, ended>>

CredentialsFail ==
    /\ pc = "credentials"
    /\ Ends("no_credentials")
    /\ UNCHANGED <<db, objects, orphans>>

-----------------------------------------------------------------------------
(* get_db_connection *)

\* Mutant of RetryDelay: the exponential backoff the docstring speaks of.
RetryDelayBackingOff == 2 ^ (attempt - 1)

\* RETRY_DELAY_SECONDS, the same after every attempt.
RetryDelay == 1

ConnectSucceeds ==
    /\ pc = "connect"
    /\ db = "up"
    /\ \E d \in {0, 1} : Takes(d)
    /\ pc' = "schema"
    /\ UNCHANGED <<db, objects, orphans, terraform, attempt, next, slow, ended>>

\* The connection is refused at once or times out, whether Aurora is up or not
\* (any exception is retried), and there are attempts left.
ConnectFails ==
    /\ pc = "connect"
    /\ attempt + 1 < MAX_RETRIES
    /\ attempt' = attempt + 1
    /\ \E d \in {0, 1} : Takes(d) /\ slow' = slow + d
    /\ pc' = "sleep"
    /\ UNCHANGED <<db, objects, orphans, terraform, next, ended>>

\* It was the last attempt: its error is raised.
RetriesExceeded ==
    /\ pc = "connect"
    /\ attempt + 1 >= MAX_RETRIES
    /\ Ends("retries_exceeded")
    /\ UNCHANGED <<db, objects, orphans>>

Sleep ==
    /\ pc = "sleep"
    /\ Takes(RetryDelay)
    /\ pc' = "connect"
    /\ UNCHANGED <<db, objects, orphans, terraform, attempt, next, slow, ended>>

-----------------------------------------------------------------------------
(* initialize_schema *)

\* Mutant of Creates: CREATE without IF NOT EXISTS.
CreatesAnew(i) ==
    /\ i \notin objects
    /\ i \notin orphans
    /\ Needs[i] \subseteq objects
    /\ objects' = objects \cup {i}

\* CREATE ... IF NOT EXISTS: what exists stays; what an orphaned statement is
\* creating at the same time cannot be created.
Creates(i) ==
    \/ /\ i \in objects
       /\ UNCHANGED objects
    \/ /\ i \notin objects /\ i \notin orphans
       /\ Needs[i] \subseteq objects
       /\ objects' = objects \cup {i}

\* conn.run returns, and the loop goes on.
RunStatement(i) ==
    /\ pc = "schema" /\ next = i
    /\ Creates(i)
    /\ \E d \in {0, 1} : Takes(d)
    /\ next' = i + 1
    /\ pc' = IF i = 4 THEN "return" ELSE "schema"
    /\ UNCHANGED <<db, orphans, terraform, attempt, slow, ended>>

\* Mutant of StatementFails: the error is logged and the loop goes on.
StatementFailsSilently ==
    /\ pc = "schema"
    /\ orphans' = orphans \cup {next}
    /\ next' = next + 1
    /\ pc' = IF next = 4 THEN "return" ELSE "schema"
    /\ UNCHANGED <<db, objects, terraform, attempt, elapsed, slow, ended>>

\* conn.run raises: the server refused the statement, or the connection broke
\* and the server may go on with it.
StatementFails ==
    /\ pc = "schema"
    /\ orphans' = orphans \/ orphans' = orphans \cup {next}
    /\ Ends("ddl_error")
    /\ UNCHANGED <<db, objects>>

Return ==
    /\ pc = "return"
    /\ Ends("200")
    /\ UNCHANGED <<db, objects, orphans>>

-----------------------------------------------------------------------------
\* How long the current step may still take.
StepTime == CASE pc = "credentials"         -> 0 .. Limit
              [] pc \in {"connect", "schema"} -> {0, 1}
              [] pc = "sleep"               -> {RetryDelay}
              [] OTHER                      -> {0}

\* The time limit is reached within a step: the Lambda is gone without a word,
\* and what it has sent to the server may still be executed.
Killed ==
    /\ pc \in Running
    /\ \E d \in StepTime : elapsed + d >= Limit
    /\ orphans' = orphans \/ (pc = "schema" /\ orphans' = orphans \cup {next})
    /\ Ends(IF pc \in {"connect", "sleep"} THEN "killed_connecting" ELSE "killed_elsewhere")
    /\ UNCHANGED <<db, objects>>

Next ==
    \/ Apply
    \/ AuroraComesUp
    \/ \E i \in Statements : OrphanEnds(i)
    \/ GetCredentials \/ CredentialsFail
    \/ ConnectSucceeds \/ ConnectFails \/ RetriesExceeded \/ Sleep
    \/ \E i \in Statements : RunStatement(i)
    \/ StatementFails \/ Return
    \/ Killed

Spec == Init /\ [][Next]_vars

\* Aurora's start and orphaned statements end; a failed apply is repeated; the
\* Lambda runs or is killed; none of Secrets Manager, a connection to an instance
\* that is up, and each statement fails every time.
FairSpec ==
    /\ Spec
    /\ WF_vars(AuroraComesUp) /\ WF_vars(Apply)
    /\ WF_vars(ConnectSucceeds \/ ConnectFails \/ RetriesExceeded \/ Sleep \/ Return \/ Killed)
    /\ SF_vars(GetCredentials) /\ SF_vars(ConnectSucceeds)
    /\ \A i \in Statements : SF_vars(RunStatement(i)) /\ WF_vars(OrphanEnds(i))

-----------------------------------------------------------------------------
(* Properties *)

\* Terraform records the initialisation as done, and never repeats it, only
\* when all four objects exist, whatever earlier invocations left half done or
\* still running in the server (lambda_handler).
ReportedComplete == terraform = "created" => objects = Statements

\* The time limit hides the error of an unreachable database only if some
\* attempt, or Secrets Manager before it, hung: as many units as the limit
\* exceeds the number of attempts.  With 6 units and 5 attempts, connections
\* that are refused at once always end in the handler's own error
\* (RETRY_DELAY_SECONDS and the Lambda's timeout are set in different files).
CutOffOnlyIfHung == ended = "killed_connecting" => slow + MAX_RETRIES >= Limit

\* What the Lambda sends next, and what the server still executes of an earlier
\* invocation, finds everything it refers to: a run killed or failed in the middle,
\* whose last statement may yet take effect, never makes one fail for want of
\* another, which no repeated apply could cure (the order of ddl_statements, and
\* the loop of initialize_schema, which an error leaves).
DependenciesFirst ==
    /\ \A i \in orphans : Needs[i] \subseteq objects
    /\ pc = "schema" => Needs[next] \subseteq objects

\* Repeated applies come to an end: no half-finished run, killed or failed at
\* any statement, leaves the database in a state the next one cannot finish
\* (IF NOT EXISTS in every statement).
EventuallyInitialised == <>[](terraform = "created" /\ objects = Statements)

-----------------------------------------------------------------------------
(* The inductive invariant behind them *)

\* The statements before i have taken effect.
DoneBefore(i) == \A j \in Statements : j < i => j \in objects

\* What exists, what the server still creates and what the Lambda goes on with
\* never leaves a gap.
NoGap ==
    /\ \A i \in objects \cup orphans : DoneBefore(i)
    /\ pc \in {"schema", "return"} => DoneBefore(next)
    /\ pc = "schema" => next \in Statements
    /\ pc = "return" => next = 5

\* Where the time of an invocation that is still connecting has gone.
TimeSpent ==
    /\ pc = "credentials" => elapsed = 0 /\ slow = 0 /\ attempt = 0
    /\ pc = "connect" => elapsed = slow + attempt
    /\ pc = "sleep" => elapsed + 1 = slow + attempt
    /\ pc = "idle" => elapsed = 0 /\ attempt = 0 /\ next = 1
    /\ pc \in {"credentials", "connect", "sleep"} => next = 1

IndInv ==
    /\ TypeOK
    /\ NoGap
    /\ TimeSpent
    /\ terraform = "invoking" <=> pc \in Running
    /\ ReportedComplete
    /\ CutOffOnlyIfHung
=============================================================================
