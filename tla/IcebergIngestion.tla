-------------------------- MODULE IcebergIngestion --------------------------
(***************************************************************************)
(* Ingestion: an object uploaded to the bronze bucket is announced to the  *)
(* trigger Lambda, which starts a Step Functions execution, which runs the *)
(* Spark job of raw_to_iceberg.py until it succeeds or has failed too      *)
(* often.  S3 may announce an object more than once, or more objects at    *)
(* once; every announcement gets an execution of its own, so several jobs  *)
(* write the same Iceberg table.                                           *)
(*                                                                         *)
(* Abstractions: one table; of a source file only its place in the bucket, *)
(* whether it has the merge key as a column, and how many rows it has for  *)
(* each key are kept; other columns do not influence any decision.         *)
(***************************************************************************)
EXTENDS Naturals

CONSTANTS Executions,     \* announcements, and the executions they start
          Keys,           \* non-null values of the merge key, event_id
          Files,          \* objects in the bronze bucket
          Object,         \* what each of them is
          MaxAttempts,    \* of the Retry clause: 2
          NoFile

Places  == {"raw/entity/file", "raw/file", "file"}
Objects == [place : Places, mergeKey : BOOLEAN, rows : [Keys -> Nat], nullRows : Nat]

ASSUME ObjectsAssumption == Object \in [Files -> Objects]
ASSUME MaxAttemptsAssumption == MaxAttempts \in Nat
ASSUME NoFileAssumption == NoFile \notin Files

VARIABLES
    execution,  \* what became of the announcement: the Lambda's error code,
                \* or the status of the execution it started
    file,       \* the announced object
    job,        \* the step the execution's Spark job is at
    retries,    \* how often the job was run again
    base,       \* the table as the job's MERGE has read it
    table,      \* the Iceberg table
    creations   \* history variable: how often createOrReplace took effect

jobVars == <<execution, file, job, retries, base>>
vars == <<jobVars, table, creations>>

Statuses == {"none", "400", "502", "RunSparkIngestion", "SUCCEEDED", "FAILED"}
JobRunning == {"read_source_data", "write_to_iceberg", "createOrReplace",
               "plan_merge", "commit_merge", "stop"}
JobSteps == JobRunning \cup {"none", "SUCCESS", "FAILED"}

\* Rows per key and, as all rows of a key come from one file, which one;
\* rows without a key are never matched and are counted by their file.
Tables == [exists : BOOLEAN, version : Nat, rows : [Keys -> Nat],
           origin : [Keys -> Files \cup {NoFile}], nullRows : [Files -> Nat]]
NoTable == [exists |-> FALSE, version |-> 0, rows |-> [k \in Keys |-> 0],
            origin |-> [k \in Keys |-> NoFile], nullRows |-> [f \in Files |-> 0]]

TypeOK ==
    /\ execution \in [Executions -> Statuses]
    /\ file \in [Executions -> Files \cup {NoFile}]
    /\ job \in [Executions -> JobSteps]
    /\ retries \in [Executions -> 0 .. MaxAttempts]
    /\ base \in [Executions -> Tables]
    /\ table \in Tables
    /\ creations \in Nat

Init ==
    /\ execution = [e \in Executions |-> "none"]
    /\ file = [e \in Executions |-> NoFile]
    /\ job = [e \in Executions |-> "none"]
    /\ retries = [e \in Executions |-> 0]
    /\ base = [e \in Executions |-> NoTable]
    /\ table = NoTable
    /\ creations = 0

JobAt(e, step) == job' = [job EXCEPT ![e] = step]

\* An exception leaves run() and the process exits with code 1.
JobFails(e) == JobAt(e, "FAILED")

-----------------------------------------------------------------------------
(* lambda_function.py: the ingestion trigger *)

\* The guard on the key: at least two parts, whatever the comment expects.
KeyAccepted(f) == Object[f].place # "file"

\* The reply with an error code is a normal end of the Lambda, so that S3 does
\* not announce the object again because of it.
RejectKey(e) ==
    /\ execution[e] = "none"
    /\ \E f \in Files : /\ ~KeyAccepted(f)
                        /\ file' = [file EXCEPT ![e] = f]
    /\ execution' = [execution EXCEPT ![e] = "400"]
    /\ UNCHANGED <<job, retries, base, table, creations>>

\* start_execution, under a fresh name for every announcement; or a ClientError
\* (or another exception of the client, whose reply is 500), which ends here.
StartExecution(e) ==
    /\ execution[e] = "none"
    /\ \E f \in Files : /\ KeyAccepted(f)
                        /\ file' = [file EXCEPT ![e] = f]
    /\ \/ /\ execution' = [execution EXCEPT ![e] = "RunSparkIngestion"]
          /\ JobAt(e, "read_source_data")
       \/ /\ execution' = [execution EXCEPT ![e] = "502"]
          /\ UNCHANGED job
    /\ UNCHANGED <<retries, base, table, creations>>

-----------------------------------------------------------------------------
(* raw_to_iceberg.py: the Spark job *)

Source(e) == Object[file[e]]

IsEmpty(f) == Object[f].nullRows = 0 /\ \A k \in Keys : Object[f].rows[k] = 0

\* read_source_data and the check of run(): an empty source ends the job with
\* success and without a write, a missing merge key with ValueError.
ReadSourceData(e) ==
    /\ job[e] = "read_source_data"
    /\ \/ IsEmpty(file[e]) /\ JobAt(e, "stop")
       \/ ~IsEmpty(file[e]) /\ Source(e).mergeKey /\ JobAt(e, "write_to_iceberg")
       \/ ~IsEmpty(file[e]) /\ ~Source(e).mergeKey /\ JobFails(e)
    /\ UNCHANGED <<execution, file, retries, base, table, creations>>

\* Mutant of CheckTableExists: the table is created whether it exists or not.
CheckTableExistsNever(e) ==
    /\ job[e] = "write_to_iceberg"
    /\ IF Source(e).place = "raw/entity/file" THEN JobAt(e, "createOrReplace") ELSE JobFails(e)
    /\ UNCHANGED <<execution, file, retries, base, table, creations>>

\* tableExists.  The "entity" of an object right under raw/ is its file name;
\* no table of that name can be created.
CheckTableExists(e) ==
    /\ job[e] = "write_to_iceberg"
    /\ IF Source(e).place = "raw/entity/file"
       THEN JobAt(e, IF table.exists THEN "plan_merge" ELSE "createOrReplace")
       ELSE JobFails(e)
    /\ UNCHANGED <<execution, file, retries, base, table, creations>>

Created(f) ==
    [exists |-> TRUE, version |-> table.version + 1, rows |-> Object[f].rows,
     origin |-> [k \in Keys |-> IF Object[f].rows[k] > 0 THEN f ELSE NoFile],
     nullRows |-> [g \in Files |-> IF g = f THEN Object[f].nullRows ELSE 0]]

\* The table gets exactly the rows of this source, also if another job has
\* created it since tableExists.
CreateOrReplace(e) ==
    /\ job[e] = "createOrReplace"
    /\ table' = Created(file[e])
    /\ creations' = creations + 1
    /\ JobAt(e, "stop")
    /\ UNCHANGED <<execution, file, retries, base>>

\* MERGE INTO reads the newest version of the table...
PlanMerge(e) ==
    /\ job[e] = "plan_merge"
    /\ base' = [base EXCEPT ![e] = table]
    /\ JobAt(e, "commit_merge")
    /\ UNCHANGED <<execution, file, retries, table, creations>>

\* Mutant of Merged: matched rows are inserted too.
InsertAll(t, f) ==
    [t EXCEPT !.version = @ + 1,
              !.rows = [k \in Keys |-> @[k] + Object[f].rows[k]]]

\* WHEN MATCHED UPDATE SET *, WHEN NOT MATCHED INSERT *: the rows of a key in
\* the table become the source's, a key the table lacks is inserted with all
\* its source rows, and a null key equals nothing.
Merged(t, f) ==
    [exists |-> t.exists, version |-> t.version + 1,
     rows |-> [k \in Keys |-> IF t.rows[k] > 0 THEN t.rows[k] ELSE Object[f].rows[k]],
     origin |-> [k \in Keys |-> IF Object[f].rows[k] > 0 THEN f ELSE t.origin[k]],
     nullRows |-> [t.nullRows EXCEPT ![f] = @ + Object[f].nullRows]]

\* A target row that several source rows match is an error of MERGE.
Ambiguous(t, f) == \E k \in Keys : t.rows[k] > 0 /\ Object[f].rows[k] > 1

\* Mutant of CommitMerge: the last commit wins.
CommitMergeUnchecked(e) ==
    /\ job[e] = "commit_merge"
    /\ ~Ambiguous(base[e], file[e])
    /\ table' = [Merged(base[e], file[e]) EXCEPT !.version = table.version + 1]
    /\ JobAt(e, "stop")
    /\ UNCHANGED <<execution, file, retries, base, creations>>

\* ... and commits what it made of it if no other job has committed since
\* (serializable, the default isolation of Iceberg's MERGE).
CommitMerge(e) ==
    /\ job[e] = "commit_merge"
    /\ base[e].version = table.version
    /\ ~Ambiguous(base[e], file[e])
    /\ table' = Merged(base[e], file[e])
    /\ JobAt(e, "stop")
    /\ UNCHANGED <<execution, file, retries, base, creations>>

\* Mutant of MergeFails: the exception is logged and not raised.
MergeFailsUnnoticed(e) ==
    /\ job[e] = "commit_merge"
    /\ base[e].version # table.version \/ Ambiguous(base[e], file[e])
    /\ JobAt(e, "stop")
    /\ UNCHANGED <<execution, file, retries, base, table, creations>>

\* The exception of spark.sql is raised again.
MergeFails(e) ==
    /\ job[e] = "commit_merge"
    /\ base[e].version # table.version \/ Ambiguous(base[e], file[e])
    /\ JobFails(e)
    /\ UNCHANGED <<execution, file, retries, base, table, creations>>

\* The session is stopped and the process ends with code 0.
JobSucceeds(e) ==
    /\ job[e] = "stop"
    /\ JobAt(e, "SUCCESS")
    /\ UNCHANGED <<execution, file, retries, base, table, creations>>

\* Capacity, a lost driver, S3 or Glue unreachable: at any step of the job,
\* after the commit as well.
JobCrashes(e) ==
    /\ job[e] \in JobRunning
    /\ JobFails(e)
    /\ UNCHANGED <<execution, file, retries, base, table, creations>>

-----------------------------------------------------------------------------
(* main.tf: the state machine ingestion_orchestrator *)

\* The pass state IngestionSucceeded ends the execution; its SUCCEEDED status
\* is the event the data quality agent is started with.
IngestionSucceeded(e) ==
    /\ execution[e] = "RunSparkIngestion"
    /\ job[e] = "SUCCESS"
    /\ execution' = [execution EXCEPT ![e] = "SUCCEEDED"]
    /\ UNCHANGED <<file, job, retries, base, table, creations>>

\* Mutants of Retry: the number of attempts is not bounded, or not counted.
RetryOnceMore(e) ==
    /\ execution[e] = "RunSparkIngestion"
    /\ job[e] = "FAILED"
    /\ retries[e] <= MaxAttempts
    /\ retries' = [retries EXCEPT ![e] = @ + 1]
    /\ JobAt(e, "read_source_data")
    /\ UNCHANGED <<execution, file, base, table, creations>>
RetryForever(e) ==
    /\ execution[e] = "RunSparkIngestion"
    /\ job[e] = "FAILED"
    /\ JobAt(e, "read_source_data")
    /\ UNCHANGED <<execution, file, retries, base, table, creations>>

\* Retry on States.TaskFailed, which stands for whatever made the job fail.
Retry(e) ==
    /\ execution[e] = "RunSparkIngestion"
    /\ job[e] = "FAILED"
    /\ retries[e] < MaxAttempts
    /\ retries' = [retries EXCEPT ![e] = @ + 1]
    /\ JobAt(e, "read_source_data")
    /\ UNCHANGED <<execution, file, base, table, creations>>

\* Catch States.ALL, then the fail state.
NotifyIngestionFailure(e) ==
    /\ execution[e] = "RunSparkIngestion"
    /\ job[e] = "FAILED"
    /\ retries[e] = MaxAttempts
    /\ execution' = [execution EXCEPT ![e] = "FAILED"]
    /\ UNCHANGED <<file, job, retries, base, table, creations>>

-----------------------------------------------------------------------------
\* The steps an execution takes once it is started.
Step(e) ==
    \/ ReadSourceData(e) \/ CheckTableExists(e) \/ CreateOrReplace(e)
    \/ PlanMerge(e) \/ CommitMerge(e) \/ MergeFails(e) \/ JobSucceeds(e)
    \/ IngestionSucceeded(e) \/ Retry(e) \/ NotifyIngestionFailure(e)

\* No execution runs and no announcement is left.
Quiet == /\ \A e \in Executions : execution[e] \notin {"none", "RunSparkIngestion"}
         /\ UNCHANGED vars

Next == \/ \E e \in Executions : \/ RejectKey(e) \/ StartExecution(e)
                                 \/ Step(e) \/ JobCrashes(e)
        \/ Quiet

Spec == Init /\ [][Next]_vars

\* Step Functions and a running job go on; nothing is assumed of S3.
FairSpec == Spec /\ \A e \in Executions : WF_vars(Step(e))
=============================================================================
