---------------------- MODULE IcebergIngestionProperties ----------------------
(***************************************************************************)
(* What ingestion guarantees (IcebergIngestion), and the documented claims *)
(* it does not keep.                                                       *)
(***************************************************************************)
EXTENDS IcebergIngestion, FiniteSets

-----------------------------------------------------------------------------
(* Properties *)

\* What the execution's source has is in the table.
Ingested(e) == /\ \A k \in Keys : Source(e).rows[k] > 0 => table.rows[k] > 0
               /\ table.nullRows[file[e]] >= Source(e).nullRows

\* What a SUCCEEDED execution ingested is in the table, whatever conflicts,
\* crashes and retries it took and whoever merged after it, as long as no two
\* jobs created the table (write_to_iceberg; the hand-off of main.tf).
IngestedIsPresent ==
    creations <= 1 => \A e \in Executions : execution[e] = "SUCCEEDED" => Ingested(e)

Started(e) == execution[e] \in {"RunSparkIngestion", "SUCCEEDED", "FAILED"}

\* Duplicates of a key never arise from retries, re-announced objects or
\* concurrent jobs: as many rows as the table has for a key, a single source
\* file had (MERGE INTO of write_to_iceberg).
DuplicatesComeFromOneFile ==
    \A k \in Keys : table.rows[k] > 0 =>
        \E e \in Executions : Started(e) /\ Source(e).rows[k] >= table.rows[k]

StartedOnes == {e \in Executions : Started(e)}

\* The runs of the job on an object: of each execution the first, and its retries.
JobRuns(f) == {r \in StartedOnes \X (0 .. MaxAttempts) :
                 file[r[1]] = f /\ r[2] <= retries[r[1]]}

\* How far the write is from being idempotent: rows without a key are in the
\* table at most once for each run of a job on their file, although a run may
\* fail after its commit, be repeated, and meet the commits of others
\* (MERGE INTO of write_to_iceberg; the Retry clause of main.tf).
OneCopyPerRun ==
    \A f \in Files : table.nullRows[f] <= Object[f].nullRows * Cardinality(JobRuns(f))

\* However often jobs fail and are run again, the table is created or replaced no
\* more often than executions were started: retries do not add to the damage of
\* racing first jobs (tableExists and createOrReplace of write_to_iceberg).
CreationsWithinExecutions == creations <= Cardinality(StartedOnes)

\* What the data quality agent relies on while it profiles and labels the table
\* (MergeCommit of DQAgent): but for a createOrReplace, every change is one new
\* snapshot that has all rows of the one before and at most more, although each
\* merge is computed from an earlier read and merges overlap (MERGE INTO of
\* write_to_iceberg, which has no DELETE clause).
OnlyAdds ==
    \/ table' = table
    \/ creations' > creations
    \/ /\ table.exists
       /\ table'.version = table.version + 1
       /\ \A k \in Keys : table'.rows[k] >= table.rows[k]
       /\ \A f \in Files : table'.nullRows[f] >= table.nullRows[f]

MergesOnlyAdd == [][OnlyAdds]_vars

\* How many steps an execution may still take.
StepsLeft(e) ==
    IF execution[e] # "RunSparkIngestion" THEN 0
    ELSE 10 * (MaxAttempts - retries[e]) +
         CASE job[e] = "read_source_data" -> 8
           [] job[e] = "write_to_iceberg" -> 7
           [] job[e] \in {"createOrReplace", "plan_merge"} -> 6
           [] job[e] = "commit_merge" -> 5
           [] job[e] = "stop" -> 3
           [] job[e] = "SUCCESS" -> 2
           [] OTHER -> 1

Progresses(e) ==
    execution[e] = "RunSparkIngestion" =>
        \/ StepsLeft(e)' < StepsLeft(e)
        \/ UNCHANGED <<execution[e], job[e], retries[e], base[e]>>

\* An execution that runs comes nearer to its end with each of its own steps,
\* and no conflict with another one takes it back: conflicts use up retries, so
\* that it ends within a number of steps that only MaxAttempts determines
\* (Retry of main.tf; why EveryExecutionEnds).
ExecutionsProgress == [][\A e \in Executions : Progresses(e)]_vars

\* Every execution that is started ends, as SUCCEEDED or as FAILED: conflicts
\* and crashes are retried, but only so often (Retry and Catch of main.tf).
EveryExecutionEnds ==
    \A e \in Executions :
        execution[e] = "RunSparkIngestion" ~> execution[e] \in {"SUCCEEDED", "FAILED"}

\* The table is a store of atomic upserts (UpsertStore): jobs that overlap,
\* conflict, crash before or after their commit and are retried change its keys
\* as if each had written its whole source at once; what was there is dropped
\* only by a job that had found no table; and SUCCEEDED is only reported of an
\* execution whose job has written and knows it.
Store == INSTANCE UpsertStore WITH
    Writers      <- Executions,
    Sources      <- Files,
    NoSource     <- NoFile,
    Contains     <- [f \in Files |-> {k \in Keys : Object[f].rows[k] > 0}],
    source       <- file,
    exists       <- table.exists,
    latest       <- table.origin,
    first        <- {e \in Executions : job[e] = "createOrReplace"},
    written      <- {e \in Executions : job[e] \in {"stop", "SUCCESS"}},
    acknowledged <- {e \in Executions : execution[e] = "SUCCEEDED"}

ImplementsStore == Store!Spec

-----------------------------------------------------------------------------
(* The inductive invariant behind the safety properties *)

\* A table that was never created holds nothing.
TableInv == /\ table.exists <=> creations > 0
            /\ ~table.exists => /\ \A k \in Keys : table.rows[k] = 0
                                /\ \A f \in Files : table.nullRows[f] = 0

\* What a MERGE has read is the table, unless there was a commit since.
BaseInv(e) == /\ base[e].version <= table.version
              /\ base[e].version = table.version => base[e] = table

\* A job belongs to an execution with a source, merges into a table that
\* exists, and comes to its end with its source in the table.
JobInv(e) == /\ Started(e) => file[e] \in Files
             /\ execution[e] = "none" => file[e] = NoFile
             /\ job[e] # "none" => Started(e)
             /\ job[e] \in {"plan_merge", "commit_merge"} => table.exists
             /\ job[e] = "commit_merge" => BaseInv(e)
             /\ execution[e] = "SUCCEEDED" => job[e] = "SUCCESS"
             /\ job[e] \in {"stop", "SUCCESS"} /\ creations <= 1 => Ingested(e)

\* Type correctness, the table's and the jobs' parts, and where duplicates
\* come from: an invariant that each step preserves by itself.
IndInv == /\ TypeOK
          /\ TableInv
          /\ \A e \in Executions : JobInv(e)
          /\ DuplicatesComeFromOneFile

BeforeCommit == {"read_source_data", "write_to_iceberg", "createOrReplace",
                 "plan_merge", "commit_merge"}

\* The runs that have failed or have come past their commit.
DoneRuns(f) == {r \in JobRuns(f) : r[2] = retries[r[1]] => job[r[1]] \notin BeforeCommit}

\* The jobs that have found no table and will create it.
FoundNone == {e \in Executions : job[e] = "createOrReplace"}

\* The counting behind OneCopyPerRun and CreationsWithinExecutions: a run that has
\* not committed is not counted yet, and a job that will create is counted already.
CountInv ==
    /\ IsFiniteSet(StartedOnes)
    /\ creations + Cardinality(FoundNone) <= Cardinality(StartedOnes)
    /\ \A f \in Files :
          table.nullRows[f] <= Object[f].nullRows * Cardinality(DoneRuns(f))

-----------------------------------------------------------------------------
(* Claims of the documentation that the code does not keep *)

\* raw_to_iceberg.py: "Executes an idempotent write to Iceberg".  However often
\* a file is ingested, the table would hold its rows without a key only once.
IdempotentWrite == \A f \in Files : table.nullRows[f] <= Object[f].nullRows

\* raw_to_iceberg.py: "Creates the table if it does not exist, otherwise
\* performs a MERGE INTO".  A table that exists would never be replaced, and what
\* a SUCCEEDED execution has ingested would not be dropped from it.
CreatesOnlyIfAbsent ==
    [][\A e \in Executions : execution[e] = "SUCCEEDED" /\ Ingested(e) => Ingested(e)']_vars
=============================================================================
