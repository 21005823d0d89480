------------------------ MODULE IcebergIngestionProofs ------------------------
(***************************************************************************)
(* Proofs about ingestion: what a SUCCEEDED execution ingested stays, and  *)
(* duplicates of a key come from a single file, for any number of          *)
(* executions, files, keys and attempts.                                   *)
(***************************************************************************)
EXTENDS IcebergIngestionProperties, FiniteSetTheorems, TLAPS

\* What no action but the jobs' commits changes.
LEMMA ObjectFacts ==
    ASSUME NEW f \in Files
    PROVE  /\ Object[f].rows \in [Keys -> Nat]
           /\ Object[f].nullRows \in Nat
  BY ObjectsAssumption DEF Objects

\* The table that createOrReplace makes.
LEMMA CreatedFacts ==
    ASSUME table \in Tables, NEW f \in Files
    PROVE  /\ Created(f) \in Tables
           /\ Created(f).exists
           /\ Created(f).version = table.version + 1
           /\ \A k \in Keys : Created(f).rows[k] = Object[f].rows[k]
           /\ Created(f).nullRows[f] = Object[f].nullRows
  BY ObjectFacts DEF Created, Tables

\* The table that a MERGE makes: rows are only added, and those of the source
\* are in it.
LEMMA MergedFacts ==
    ASSUME table \in Tables, NEW f \in Files
    PROVE  /\ Merged(table, f) \in Tables
           /\ Merged(table, f).exists = table.exists
           /\ Merged(table, f).version = table.version + 1
           /\ \A k \in Keys :
                /\ Merged(table, f).rows[k] \in {table.rows[k], Object[f].rows[k]}
                /\ table.rows[k] > 0 => Merged(table, f).rows[k] = table.rows[k]
                /\ Object[f].rows[k] > 0 => Merged(table, f).rows[k] > 0
           /\ \A g \in Files : Merged(table, f).nullRows[g] >= table.nullRows[g]
           /\ Merged(table, f).nullRows[f] >= Object[f].nullRows
<1> DEFINE rows == [k \in Keys |-> IF table.rows[k] > 0 THEN table.rows[k]
                                   ELSE Object[f].rows[k]]
           origin == [k \in Keys |-> IF Object[f].rows[k] > 0 THEN f ELSE table.origin[k]]
           nullRows == [table.nullRows EXCEPT ![f] = @ + Object[f].nullRows]
<1>1. /\ table.rows \in [Keys -> Nat]
      /\ table.origin \in [Keys -> Files \cup {NoFile}]
      /\ table.nullRows \in [Files -> Nat]
      /\ table.version \in Nat
      /\ table.exists \in BOOLEAN
  BY DEF Tables
<1>2. rows \in [Keys -> Nat] /\ origin \in [Keys -> Files \cup {NoFile}]
      /\ nullRows \in [Files -> Nat]
  BY <1>1, ObjectFacts
<1>3. Merged(table, f) = [exists |-> table.exists, version |-> table.version + 1,
                          rows |-> rows, origin |-> origin, nullRows |-> nullRows]
  BY DEF Merged, Tables
<1>4. Merged(table, f) \in Tables
  BY <1>1, <1>2, <1>3 DEF Tables
<1>5. \A k \in Keys :
        /\ rows[k] \in {table.rows[k], Object[f].rows[k]}
        /\ table.rows[k] > 0 => rows[k] = table.rows[k]
        /\ Object[f].rows[k] > 0 => rows[k] > 0
  BY <1>1, ObjectFacts
<1>6. (\A g \in Files : nullRows[g] >= table.nullRows[g]) /\ nullRows[f] >= Object[f].nullRows
  BY <1>1, ObjectFacts
<1>7. /\ Merged(table, f).exists = table.exists
      /\ Merged(table, f).version = table.version + 1
      /\ Merged(table, f).rows = rows
      /\ Merged(table, f).nullRows = nullRows
  BY <1>3
<1> HIDE DEF rows, origin, nullRows
<1> QED
  BY <1>4, <1>5, <1>6, <1>7

\* Nothing happened yet.
THEOREM IndInvInit == Init => IndInv
<1> SUFFICES ASSUME Init PROVE IndInv
  OBVIOUS
<1>1. TypeOK
  BY MaxAttemptsAssumption DEF Init, TypeOK, Tables, NoTable, Statuses, JobSteps
<1>2. TableInv
  BY DEF Init, TableInv, NoTable
<1>3. \A e \in Executions : JobInv(e)
  BY DEF Init, JobInv, Started
<1>4. DuplicatesComeFromOneFile
  BY DEF Init, DuplicatesComeFromOneFile, NoTable
<1> QED
  BY <1>1, <1>2, <1>3, <1>4 DEF IndInv

\* A step that leaves the table alone keeps the invariant if it keeps the
\* types and the acting job's part, and forgets no execution that was started.
LEMMA TableUntouched ==
    ASSUME IndInv, TypeOK', NEW e \in Executions,
           UNCHANGED <<table, creations>>,
           \A d \in Executions \ {e} :
              /\ execution'[d] = execution[d] /\ file'[d] = file[d]
              /\ job'[d] = job[d] /\ base'[d] = base[d],
           Started(e) => Started(e)' /\ file'[e] = file[e],
           JobInv(e)'
    PROVE  IndInv'
<1>1. TableInv'
  BY DEF IndInv, TableInv
<1>2. \A d \in Executions : JobInv(d)'
  <2> SUFFICES ASSUME NEW d \in Executions, d # e PROVE JobInv(d)'
    OBVIOUS
  <2> QED
    BY DEF IndInv, JobInv, BaseInv, Started, Ingested, Source
<1>3. DuplicatesComeFromOneFile'
  BY DEF IndInv, DuplicatesComeFromOneFile, Started, Source
<1> QED
  BY <1>1, <1>2, <1>3 DEF IndInv

\* A commit of another job makes what a MERGE has read an older version.
LEMMA BaseOutdated ==
    ASSUME table \in Tables, table'.version = table.version + 1, NEW e \in Executions,
           base'[e] = base[e], base[e] \in Tables, BaseInv(e)
    PROVE  BaseInv(e)'
BY DEF BaseInv, Tables

THEOREM IndInvStep == IndInv /\ [Next]_vars => IndInv'
<1> SUFFICES ASSUME IndInv, [Next]_vars PROVE IndInv'
  OBVIOUS
<1> USE DEF JobAt, JobFails
<1>0. TypeOK /\ TableInv /\ (\A e \in Executions : JobInv(e)) /\ DuplicatesComeFromOneFile
  BY DEF IndInv
<1>1. ASSUME NEW e \in Executions, RejectKey(e) PROVE IndInv'
  <2>1. TypeOK'
    BY <1>0, <1>1 DEF RejectKey, TypeOK, Statuses
  <2>2. JobInv(e)'
    BY <1>0, <1>1 DEF RejectKey, JobInv, Started, TypeOK
  <2> QED
    BY <1>1, <2>1, <2>2, TableUntouched DEF RejectKey, Started, IndInv, TypeOK
<1>2. ASSUME NEW e \in Executions, StartExecution(e) PROVE IndInv'
  <2>1. TypeOK'
    BY <1>0, <1>2 DEF StartExecution, TypeOK, Statuses, JobSteps, JobRunning
  <2>2. JobInv(e)'
    BY <1>0, <1>2 DEF StartExecution, JobInv, Started, TypeOK
  <2> QED
    BY <1>2, <2>1, <2>2, TableUntouched DEF StartExecution, Started, IndInv, TypeOK
<1>3. ASSUME NEW e \in Executions, ReadSourceData(e) PROVE IndInv'
  <2>1. TypeOK'
    BY <1>0, <1>3 DEF ReadSourceData, TypeOK, JobSteps, JobRunning
  <2>2. JobInv(e)'
    <3>1. CASE IsEmpty(file[e])
      <4>1. file[e] \in Files
        BY <1>0, <1>3 DEF ReadSourceData, JobInv
      <4>2. Ingested(e)'
        BY <1>0, <1>3, <3>1, <4>1 DEF ReadSourceData, IsEmpty, Ingested, Source, TypeOK, Tables
      <4> QED
        BY <1>0, <1>3, <4>1, <4>2 DEF ReadSourceData, JobInv, Started, TypeOK
    <3>2. CASE ~IsEmpty(file[e])
      BY <1>0, <1>3, <3>2 DEF ReadSourceData, JobInv, Started, TypeOK
    <3> QED
      BY <3>1, <3>2
  <2> QED
    BY <1>3, <2>1, <2>2, TableUntouched DEF ReadSourceData, Started, IndInv, TypeOK
<1>4. ASSUME NEW e \in Executions, CheckTableExists(e) PROVE IndInv'
  <2>1. TypeOK'
    BY <1>0, <1>4 DEF CheckTableExists, TypeOK, JobSteps, JobRunning
  <2>2. JobInv(e)'
    BY <1>0, <1>4 DEF CheckTableExists, JobInv, Started, TypeOK
  <2> QED
    BY <1>4, <2>1, <2>2, TableUntouched DEF CheckTableExists, Started, IndInv, TypeOK
<1>5. ASSUME NEW e \in Executions, CreateOrReplace(e) PROVE IndInv'
  <2>1. file[e] \in Files /\ Started(e) /\ table \in Tables /\ creations \in Nat
    BY <1>0, <1>5 DEF CreateOrReplace, JobInv, TypeOK
  <2>2. TypeOK'
    BY <1>0, <1>5, <2>1, CreatedFacts DEF CreateOrReplace, TypeOK, JobSteps, JobRunning
  <2>3. TableInv'
    BY <1>0, <1>5, <2>1, CreatedFacts DEF CreateOrReplace, TableInv
  <2>4. Ingested(e)'
    BY <1>5, <2>1, CreatedFacts, ObjectFacts DEF CreateOrReplace, Ingested, Source
  <2>5. ASSUME NEW d \in Executions, d # e PROVE JobInv(d)'
    <3>1. /\ job'[d] = job[d] /\ execution'[d] = execution[d] /\ file'[d] = file[d]
          /\ table'.exists
      BY <1>0, <1>5, <2>1, <2>5, CreatedFacts DEF CreateOrReplace, TypeOK
    <3>3. BaseInv(d) => BaseInv(d)'
      BY <1>0, <1>5, <2>1, CreatedFacts, BaseOutdated DEF CreateOrReplace, TypeOK
    <3>2. ASSUME job[d] \in {"stop", "SUCCESS"}, creations' <= 1 PROVE Ingested(d)'
      <4>1. creations = 0 /\ ~table.exists /\ file[d] \in Files
        BY <1>0, <1>5, <2>1, <3>2 DEF CreateOrReplace, TableInv, JobInv
      <4>2. Ingested(d)
        BY <1>0, <3>2, <4>1 DEF JobInv
      <4>3. (\A k \in Keys : Source(d).rows[k] = 0) /\ Source(d).nullRows = 0
        BY <1>0, <4>1, <4>2, ObjectFacts DEF TableInv, Ingested, Source
      <4>4. table' \in Tables
        BY <2>2 DEF TypeOK
      <4> QED
        BY <3>1, <4>1, <4>3, <4>4 DEF Ingested, Source, Tables
    <3> QED
      BY <1>0, <3>1, <3>2, <3>3 DEF JobInv, Started
  <2>6. JobInv(e)'
    BY <1>0, <1>5, <2>1, <2>4 DEF CreateOrReplace, JobInv, Started, TypeOK
  <2>7. DuplicatesComeFromOneFile'
    <3>1. Started(e)' /\ \A k \in Keys : table'.rows[k] = Object[file[e]].rows[k]
      BY <1>5, <2>1, CreatedFacts DEF CreateOrReplace, Started
    <3> QED
      BY <1>5, <2>1, <3>1, ObjectFacts
         DEF CreateOrReplace, DuplicatesComeFromOneFile, Source
  <2> QED
    BY <2>2, <2>3, <2>5, <2>6, <2>7 DEF IndInv
<1>6. ASSUME NEW e \in Executions, PlanMerge(e) PROVE IndInv'
  <2>1. TypeOK'
    BY <1>0, <1>6 DEF PlanMerge, TypeOK, JobSteps, JobRunning, Tables
  <2>2. JobInv(e)'
    BY <1>0, <1>6 DEF PlanMerge, JobInv, BaseInv, Started, TypeOK, Tables
  <2> QED
    BY <1>6, <2>1, <2>2, TableUntouched DEF PlanMerge, Started, IndInv, TypeOK
<1>7. ASSUME NEW e \in Executions, CommitMerge(e) PROVE IndInv'
  <2>1. file[e] \in Files /\ Started(e) /\ table \in Tables /\ table.exists
    BY <1>0, <1>7 DEF CommitMerge, JobInv, TypeOK
  <2> DEFINE t == Merged(table, file[e])
  <2>2. table' = t /\ UNCHANGED <<execution, file, creations, base>>
    BY <1>0, <1>7 DEF CommitMerge, JobInv, BaseInv
  <2>3. /\ t \in Tables
        /\ t.exists
        /\ t.version = table.version + 1
        /\ \A k \in Keys : /\ t.rows[k] \in {table.rows[k], Object[file[e]].rows[k]}
                           /\ table.rows[k] > 0 => t.rows[k] = table.rows[k]
                           /\ Object[file[e]].rows[k] > 0 => t.rows[k] > 0
        /\ \A g \in Files : t.nullRows[g] >= table.nullRows[g]
        /\ t.nullRows[file[e]] >= Object[file[e]].nullRows
    BY <2>1, MergedFacts
  <2> HIDE DEF t
  <2>4. TypeOK'
    BY <1>0, <1>7, <2>2, <2>3 DEF CommitMerge, TypeOK, JobSteps, JobRunning
  <2>5. TableInv'
    BY <1>0, <2>1, <2>2, <2>3 DEF TableInv
  <2>6. Ingested(e)'
    BY <2>2, <2>3 DEF Ingested, Source
  <2>7. ASSUME NEW d \in Executions, d # e PROVE JobInv(d)'
    <3>1. job'[d] = job[d]
      BY <1>0, <1>7, <2>7 DEF CommitMerge, TypeOK
    <3>2. ASSUME Ingested(d), file[d] \in Files PROVE Ingested(d)'
      BY <2>1, <2>2, <2>3, <3>2, ObjectFacts DEF Ingested, Source, Tables
    <3>3. BaseInv(d) => BaseInv(d)'
      BY <1>0, <2>1, <2>2, <2>3, BaseOutdated DEF TypeOK
    <3> QED
      BY <1>0, <2>2, <2>3, <3>1, <3>2, <3>3 DEF JobInv, Started
  <2>8. JobInv(e)'
    BY <1>0, <1>7, <2>1, <2>2, <2>3, <2>6 DEF CommitMerge, JobInv, Started, TypeOK
  <2>9. DuplicatesComeFromOneFile'
    <3> SUFFICES ASSUME NEW k \in Keys, table'.rows[k] > 0
                 PROVE  \E d \in Executions : Started(d)' /\ Source(d)'.rows[k] >= table'.rows[k]
      BY DEF DuplicatesComeFromOneFile
    <3>1. CASE table.rows[k] > 0
      BY <1>0, <2>2, <2>3, <3>1 DEF DuplicatesComeFromOneFile, Started, Source
    <3>2. CASE ~(table.rows[k] > 0)
      <4>1. Object[file[e]].rows[k] \in Nat /\ table.rows[k] \in Nat
        BY <2>1, ObjectFacts DEF Tables
      <4>2. table'.rows[k] = Object[file[e]].rows[k]
        BY <2>2, <2>3, <3>2
      <4> QED
        BY <2>1, <2>2, <4>1, <4>2 DEF Started, Source
    <3> QED
      BY <3>1, <3>2
  <2> QED
    BY <2>4, <2>5, <2>7, <2>8, <2>9 DEF IndInv
<1>8. ASSUME NEW e \in Executions, MergeFails(e) PROVE IndInv'
  <2>1. TypeOK'
    BY <1>0, <1>8 DEF MergeFails, TypeOK, JobSteps, JobRunning
  <2>2. JobInv(e)'
    BY <1>0, <1>8 DEF MergeFails, JobInv, Started, TypeOK
  <2> QED
    BY <1>8, <2>1, <2>2, TableUntouched DEF MergeFails, Started, IndInv, TypeOK
<1>9. ASSUME NEW e \in Executions, JobSucceeds(e) PROVE IndInv'
  <2>1. TypeOK'
    BY <1>0, <1>9 DEF JobSucceeds, TypeOK, JobSteps
  <2>2. JobInv(e)'
    BY <1>0, <1>9 DEF JobSucceeds, JobInv, Started, TypeOK, Ingested, Source
  <2> QED
    BY <1>9, <2>1, <2>2, TableUntouched DEF JobSucceeds, Started, IndInv, TypeOK
<1>10. ASSUME NEW e \in Executions, JobCrashes(e) PROVE IndInv'
  <2>1. TypeOK'
    BY <1>0, <1>10 DEF JobCrashes, TypeOK, JobSteps
  <2>2. JobInv(e)'
    BY <1>0, <1>10 DEF JobCrashes, JobInv, JobRunning, Started, TypeOK
  <2> QED
    BY <1>10, <2>1, <2>2, TableUntouched DEF JobCrashes, Started, IndInv, TypeOK
<1>11. ASSUME NEW e \in Executions, IngestionSucceeded(e) PROVE IndInv'
  <2>1. TypeOK'
    BY <1>0, <1>11 DEF IngestionSucceeded, TypeOK, Statuses
  <2>2. JobInv(e)'
    BY <1>0, <1>11 DEF IngestionSucceeded, JobInv, Started, TypeOK, Ingested, Source
  <2> QED
    BY <1>11, <2>1, <2>2, TableUntouched DEF IngestionSucceeded, Started, IndInv, TypeOK
<1>12. ASSUME NEW e \in Executions, Retry(e) PROVE IndInv'
  <2>1. retries[e] + 1 \in 0 .. MaxAttempts
    BY <1>0, <1>12, MaxAttemptsAssumption DEF Retry, TypeOK
  <2>2. TypeOK'
    BY <1>0, <1>12, <2>1 DEF Retry, TypeOK, JobSteps, JobRunning
  <2>3. JobInv(e)'
    BY <1>0, <1>12 DEF Retry, JobInv, Started, TypeOK
  <2> QED
    BY <1>12, <2>2, <2>3, TableUntouched DEF Retry, Started, IndInv, TypeOK
<1>13. ASSUME NEW e \in Executions, NotifyIngestionFailure(e) PROVE IndInv'
  <2>1. TypeOK'
    BY <1>0, <1>13 DEF NotifyIngestionFailure, TypeOK, Statuses
  <2>2. JobInv(e)'
    BY <1>0, <1>13 DEF NotifyIngestionFailure, JobInv, Started, TypeOK, Ingested, Source
  <2> QED
    BY <1>13, <2>1, <2>2, TableUntouched DEF NotifyIngestionFailure, Started, IndInv, TypeOK
<1>14. CASE UNCHANGED vars
  BY <1>0, <1>14 DEF vars, jobVars, IndInv, TypeOK, TableInv, JobInv, BaseInv, Started, Ingested, Source,
                     DuplicatesComeFromOneFile
<1> QED
  BY <1>1, <1>2, <1>3, <1>4, <1>5, <1>6, <1>7, <1>8, <1>9, <1>10, <1>11, <1>12, <1>13, <1>14
     DEF Next, Step, Quiet

\* The inductive invariant holds in every reachable state.
THEOREM IngestionInvariant == Spec => []IndInv
  BY IndInvInit, IndInvStep, PTL DEF Spec

\* Every variable keeps its type.
THEOREM IngestionTypeCorrect == Spec => []TypeOK
<1>1. IndInv => TypeOK
  BY DEF IndInv
<1> QED
  BY <1>1, IngestionInvariant, PTL

\* What a SUCCEEDED execution ingested stays in the table, unless the table
\* was created twice.
THEOREM SucceededStaysIngested == Spec => []IngestedIsPresent
<1>1. IndInv => IngestedIsPresent
  BY DEF IndInv, IngestedIsPresent, JobInv
<1> QED
  BY <1>1, IngestionInvariant, PTL

\* Retries, re-announcements and concurrent jobs never duplicate a key.
THEOREM NoDuplicatesFromRetries == Spec => []DuplicatesComeFromOneFile
<1>1. IndInv => DuplicatesComeFromOneFile
  BY DEF IndInv
<1> QED
  BY <1>1, IngestionInvariant, PTL

-----------------------------------------------------------------------------
(* Ingestion implements UpsertStore *)

\* The keys of a source, as the store is told.
SourceKeys == [f \in Files |-> {k \in Keys : Object[f].rows[k] > 0}]
Written == {e \in Executions : job[e] \in {"stop", "SUCCESS"}}
Acknowledged == {e \in Executions : execution[e] = "SUCCEEDED"}
First == {e \in Executions : job[e] = "createOrReplace"}

\* Nothing has happened to the store either.
LEMMA StoreInit == Init => Store!Init
  BY DEF Init, NoTable, Store!Init

\* A write of the abstract store, in terms of the table.
StoreWrites(e, others) ==
    /\ file[e] # NoFile
    /\ e \notin Acknowledged
    /\ table'.origin = [k \in Keys |-> IF k \in SourceKeys[file[e]] THEN file[e] ELSE others[k]]
    /\ Written' = Written \cup {e}
    /\ file' = file
    /\ Acknowledged' = Acknowledged

\* What a step does to the sets the store speaks of, by where the job goes.
LEMMA JobMoves ==
    ASSUME TypeOK, NEW e \in Executions, NEW s \in JobSteps, JobAt(e, s),
           execution' = execution
    PROVE  /\ Acknowledged' = Acknowledged
           /\ Written' = IF s \in {"stop", "SUCCESS"} THEN Written \cup {e} ELSE Written \ {e}
           /\ First' = IF s = "createOrReplace" THEN First \cup {e} ELSE First \ {e}
BY DEF TypeOK, JobAt, Acknowledged, Written, First

\* The keys have the origins the store expects after a creation or a merge.
LEMMA OriginFacts ==
    ASSUME table \in Tables, NEW f \in Files
    PROVE  /\ Created(f).origin = [k \in Keys |-> IF k \in SourceKeys[f] THEN f ELSE NoFile]
           /\ Merged(table, f).origin =
                 [k \in Keys |-> IF k \in SourceKeys[f] THEN f ELSE table.origin[k]]
BY DEF Created, Merged, SourceKeys

\* Every step of ingestion is a step of the store or changes nothing in it.
LEMMA StoreStep == IndInv /\ [Next]_vars => [Store!Next]_Store!vars
<1> SUFFICES ASSUME IndInv, [Next]_vars PROVE [Store!Next]_Store!vars
  OBVIOUS
<1>1. TypeOK /\ TableInv /\ (\A e \in Executions : JobInv(e)) /\ table \in Tables
  BY DEF IndInv, TypeOK
<1> DEFINE Stutters == /\ file' = file /\ table' = table /\ First' = First
                       /\ Written' = Written /\ Acknowledged' = Acknowledged
<1>2. Stutters => UNCHANGED Store!vars
  BY DEF Store!vars, First, Written, Acknowledged
<1>3. ASSUME NEW e \in Executions, RejectKey(e) \/ StartExecution(e) PROVE Store!Next
  <2>1. PICK f \in Files : file' = [file EXCEPT ![e] = f]
    BY <1>3 DEF RejectKey, StartExecution
  <2>2. file[e] = NoFile /\ job[e] = "none"
    BY <1>1, <1>3 DEF RejectKey, StartExecution, JobInv, Started, TypeOK, JobSteps, JobRunning
  <2>3. First' = First /\ Written' = Written /\ Acknowledged' = Acknowledged
    BY <1>1, <1>3, <2>2 DEF RejectKey, StartExecution, JobAt, First, Written, Acknowledged, TypeOK
  <2>4. Store!Announce(e, f)
    BY <1>3, <2>1, <2>2, <2>3
       DEF RejectKey, StartExecution, Store!Announce, First, Written, Acknowledged
  <2> QED
    BY <2>4 DEF Store!Next
<1>4. ASSUME NEW e \in Executions, ReadSourceData(e) PROVE [Store!Next]_Store!vars
  <2>1. /\ file[e] \in Files /\ file[e] # NoFile
        /\ e \notin First /\ e \notin Written /\ e \notin Acknowledged
    BY <1>1, <1>4, NoFileAssumption DEF ReadSourceData, JobInv, First, Written, Acknowledged
  <2>2. CASE JobAt(e, "stop") /\ IsEmpty(file[e])
    <3>1. SourceKeys[file[e]] = {}
      BY <2>1, <2>2, ObjectFacts DEF IsEmpty, SourceKeys
    <3>2. table.origin = [k \in Keys |-> table.origin[k]]
      BY <1>1 DEF Tables
    <3>3. Written' = Written \cup {e} /\ First' = First /\ Acknowledged' = Acknowledged
      BY <1>1, <1>4, <2>1, <2>2, JobMoves DEF ReadSourceData, JobSteps, JobRunning
    <3>4. StoreWrites(e, table.origin)
      BY <1>4, <2>1, <3>1, <3>2, <3>3 DEF ReadSourceData, StoreWrites
    <3>5. Store!Writes(e, table.origin)
      BY <3>4 DEF StoreWrites, Store!Writes, Written, Acknowledged, SourceKeys
    <3>6. Store!Upsert(e)
      BY <1>4, <3>3, <3>5 DEF ReadSourceData, Store!Upsert, First
    <3> QED
      BY <3>6 DEF Store!Next
  <2>3. CASE JobAt(e, "write_to_iceberg") \/ JobFails(e)
    <3>1. Stutters
      BY <1>1, <1>4, <2>1, <2>3, JobMoves DEF ReadSourceData, JobFails, JobSteps, JobRunning
    <3> QED
      BY <1>2, <3>1
  <2> QED
    BY <1>4, <2>2, <2>3 DEF ReadSourceData
<1>5. ASSUME NEW e \in Executions, CheckTableExists(e) PROVE [Store!Next]_Store!vars
  <2>1. e \notin First /\ e \notin Written
    BY <1>5 DEF CheckTableExists, First, Written
  <2>2. CASE JobAt(e, "createOrReplace") /\ ~table.exists
    <3>1. First' = First \cup {e} /\ Written' = Written /\ Acknowledged' = Acknowledged
      BY <1>1, <1>5, <2>1, <2>2, JobMoves DEF CheckTableExists, JobSteps, JobRunning
    <3>2. Store!FindNone(e)
      BY <1>5, <2>2, <3>1 DEF CheckTableExists, Store!FindNone, First, Written, Acknowledged
    <3> QED
      BY <3>2 DEF Store!Next
  <2>3. CASE JobAt(e, "plan_merge") \/ JobFails(e)
    <3>1. Stutters
      BY <1>1, <1>5, <2>1, <2>3, JobMoves DEF CheckTableExists, JobFails, JobSteps, JobRunning
    <3> QED
      BY <1>2, <3>1
  <2> QED
    BY <1>1, <1>5, <2>2, <2>3 DEF CheckTableExists
<1>6. ASSUME NEW e \in Executions, CreateOrReplace(e) PROVE Store!Next
  <2>1. /\ file[e] \in Files /\ file[e] # NoFile
        /\ e \in First /\ e \notin Acknowledged
    BY <1>1, <1>6, NoFileAssumption DEF CreateOrReplace, JobInv, First, Acknowledged
  <2>2. Written' = Written \cup {e} /\ First' = First \ {e} /\ Acknowledged' = Acknowledged
    BY <1>1, <1>6, JobMoves DEF CreateOrReplace, JobSteps, JobRunning
  <2>3. /\ table'.exists = TRUE
        /\ table'.origin = [k \in Keys |-> IF k \in SourceKeys[file[e]] THEN file[e] ELSE NoFile]
    BY <1>1, <1>6, <2>1, OriginFacts DEF CreateOrReplace, Created
  <2>4. StoreWrites(e, [k \in Keys |-> NoFile])
    BY <1>6, <2>1, <2>2, <2>3 DEF CreateOrReplace, StoreWrites
  <2>5. Store!Writes(e, [k \in Keys |-> NoFile])
    BY <2>4 DEF StoreWrites, Store!Writes, Written, Acknowledged, SourceKeys
  <2>6. Store!Make(e)
    BY <2>1, <2>2, <2>3, <2>5 DEF Store!Make, First
  <2> QED
    BY <2>6 DEF Store!Next
<1>7. ASSUME NEW e \in Executions, CommitMerge(e) PROVE Store!Next
  <2>1. /\ file[e] \in Files /\ file[e] # NoFile
        /\ e \notin First /\ e \notin Acknowledged
        /\ base[e] = table
    BY <1>1, <1>7, NoFileAssumption DEF CommitMerge, JobInv, BaseInv, First, Acknowledged
  <2>2. Written' = Written \cup {e} /\ First' = First /\ Acknowledged' = Acknowledged
    BY <1>1, <1>7, <2>1, JobMoves DEF CommitMerge, JobSteps, JobRunning
  <2>3. /\ table'.exists = table.exists
        /\ table'.origin =
              [k \in Keys |-> IF k \in SourceKeys[file[e]] THEN file[e] ELSE table.origin[k]]
    BY <1>1, <1>7, <2>1, OriginFacts DEF CommitMerge, Merged
  <2>4. StoreWrites(e, table.origin)
    BY <1>7, <2>1, <2>2, <2>3 DEF CommitMerge, StoreWrites
  <2>5. Store!Writes(e, table.origin)
    BY <2>4 DEF StoreWrites, Store!Writes, Written, Acknowledged, SourceKeys
  <2>6. Store!Upsert(e)
    BY <2>2, <2>3, <2>5 DEF Store!Upsert, First
  <2> QED
    BY <2>6 DEF Store!Next
<1>8. ASSUME NEW e \in Executions, MergeFails(e) \/ JobCrashes(e) PROVE Store!Next
  <2>1. e \notin Acknowledged
    BY <1>1, <1>8 DEF MergeFails, JobCrashes, JobRunning, JobInv, Acknowledged
  <2>2. Written' = Written \ {e} /\ First' = First \ {e} /\ Acknowledged' = Acknowledged
    BY <1>1, <1>8, JobMoves DEF MergeFails, JobCrashes, JobFails, JobSteps, JobRunning
  <2>3. Store!Forget(e)
    BY <1>8, <2>1, <2>2 DEF MergeFails, JobCrashes, Store!Forget, First, Written, Acknowledged
  <2> QED
    BY <2>3 DEF Store!Next
<1>9. ASSUME NEW e \in Executions, IngestionSucceeded(e) PROVE Store!Next
  <2>1. e \in Written /\ First' = First /\ Written' = Written
        /\ Acknowledged' = Acknowledged \cup {e}
    BY <1>1, <1>9 DEF IngestionSucceeded, First, Written, Acknowledged, TypeOK
  <2>2. Store!Acknowledge(e)
    BY <1>9, <2>1 DEF IngestionSucceeded, Store!Acknowledge, First, Written, Acknowledged
  <2> QED
    BY <2>2 DEF Store!Next
<1>10. ASSUME NEW e \in Executions, PlanMerge(e) \/ JobSucceeds(e) \/ Retry(e)
       PROVE  Stutters
  BY <1>1, <1>10, JobMoves
     DEF PlanMerge, JobSucceeds, Retry, First, Written, JobSteps, JobRunning
<1>11. ASSUME NEW e \in Executions, NotifyIngestionFailure(e) PROVE Stutters
  BY <1>1, <1>11 DEF NotifyIngestionFailure, First, Written, Acknowledged, TypeOK
<1>12. CASE UNCHANGED vars
  BY <1>2, <1>12 DEF vars, jobVars, First, Written, Acknowledged
<1> QED
  BY <1>2, <1>3, <1>4, <1>5, <1>6, <1>7, <1>8, <1>9, <1>10, <1>11, <1>12 DEF Next, Step, Quiet

\* Ingestion implements the store of atomic upserts, for any number of jobs:
\* whoever reads the table's keys may reason with UpsertStore alone.
THEOREM IngestionImplementsStore == Spec => ImplementsStore
<1>1. Init => Store!Init
  BY StoreInit
<1>2. IndInv /\ [Next]_vars => [Store!Next]_Store!vars
  BY StoreStep
<1> QED
  BY <1>1, <1>2, IngestionInvariant, PTL DEF Spec, Store!Spec, ImplementsStore

-----------------------------------------------------------------------------
(* How often rows are copied and the table is created *)

\* Only the execution e acts, its attempts are not taken back, and a run that
\* is done stays so.
OnlyMoves(e) ==
    /\ \A d \in Executions \ {e} :
          /\ execution'[d] = execution[d] /\ file'[d] = file[d]
          /\ job'[d] = job[d] /\ retries'[d] = retries[d]
    /\ Started(e) => /\ Started(e)' /\ file'[e] = file[e] /\ retries'[e] >= retries[e]
                     /\ retries'[e] = retries[e] /\ job[e] \notin BeforeCommit
                           => job'[e] \notin BeforeCommit

\* Every action is one execution's, and only by Retry it runs its job again.
LEMMA ActionsMove ==
    ASSUME IndInv, NEW e \in Executions,
           \/ RejectKey(e) \/ StartExecution(e) \/ Step(e) \/ JobCrashes(e)
    PROVE  OnlyMoves(e)
<1> USE DEF JobAt, JobFails
<1>0. TypeOK /\ JobInv(e)
  BY DEF IndInv
<1>1. CASE RejectKey(e) \/ StartExecution(e)
  BY <1>0, <1>1 DEF RejectKey, StartExecution, OnlyMoves, Started, TypeOK
<1>2. CASE ReadSourceData(e) \/ CheckTableExists(e) \/ CreateOrReplace(e) \/ PlanMerge(e)
  BY <1>0, <1>2 DEF ReadSourceData, CheckTableExists, CreateOrReplace, PlanMerge,
                    OnlyMoves, Started, BeforeCommit, TypeOK
<1>3. CASE CommitMerge(e) \/ MergeFails(e) \/ JobSucceeds(e) \/ JobCrashes(e)
  BY <1>0, <1>3 DEF CommitMerge, MergeFails, JobSucceeds, JobCrashes,
                    OnlyMoves, Started, BeforeCommit, TypeOK
<1>4. CASE IngestionSucceeded(e) \/ NotifyIngestionFailure(e)
  BY <1>0, <1>4 DEF IngestionSucceeded, NotifyIngestionFailure, OnlyMoves, Started, TypeOK
<1>5. CASE Retry(e)
  <2>1. retries'[e] = retries[e] + 1 /\ retries[e] \in Nat
    BY <1>0, <1>5, MaxAttemptsAssumption DEF Retry, TypeOK
  <2> QED
    BY <1>0, <1>5, <2>1 DEF Retry, OnlyMoves, Started, TypeOK
<1> QED
  BY <1>1, <1>2, <1>3, <1>4, <1>5 DEF Step

\* The runs of finitely many executions are finitely many.
LEMMA RunsAreFinite ==
    ASSUME NEW S, IsFiniteSet(S), NEW R, R \subseteq S \X (0 .. MaxAttempts)
    PROVE  IsFiniteSet(R)
<1>1. IsFiniteSet(0 .. MaxAttempts)
  BY FS_Interval, MaxAttemptsAssumption
<1>2. IsFiniteSet(S \X (0 .. MaxAttempts))
  BY <1>1, FS_Product
<1> QED
  BY <1>2, FS_Subset

\* A set with one element more is larger.
LEMMA LargerByOne ==
    ASSUME NEW B, IsFiniteSet(B), NEW A \in SUBSET B, NEW x \in B, x \notin A
    PROVE  Cardinality(A) + 1 <= Cardinality(B)
<1>1. IsFiniteSet(A) /\ A \cup {x} \in SUBSET B
  BY FS_Subset
<1>2. Cardinality(A \cup {x}) = Cardinality(A) + 1
  BY <1>1, FS_AddElement
<1> QED
  BY <1>1, <1>2, FS_Subset

\* One more copy for one more run.
LEMMA CopyPerRun ==
    ASSUME NEW o \in Nat, NEW x \in Nat, NEW c \in Nat, NEW d \in Nat, x <= o * c
    PROVE  /\ c <= d => x <= o * d
           /\ c + 1 <= d => x + o <= o * d
<1>1. ASSUME NEW a \in Nat, NEW b \in Nat, a <= b PROVE o * a <= o * b
  <2>1. PICK k \in Nat : b = a + k
    BY <1>1, b - a \in Nat
  <2>2. o * b = o * a + o * k /\ o * k \in Nat /\ o * a \in Nat
    BY <2>1
  <2> QED
    BY <2>2
<1>2. ASSUME c <= d PROVE x <= o * d
  <2>1. o * c <= o * d /\ o * c \in Nat /\ o * d \in Nat
    BY <1>1, <1>2
  <2> QED
    BY <2>1
<1>3. ASSUME c + 1 <= d PROVE x + o <= o * d
  <2>1. o * (c + 1) <= o * d /\ o * c \in Nat /\ o * d \in Nat /\ o * (c + 1) \in Nat
    BY <1>1, <1>3
  <2>2. o * (c + 1) = o * c + o
    OBVIOUS
  <2> QED
    BY <2>1, <2>2
<1> QED
  BY <1>2, <1>3

\* As time goes on, executions are started and runs get done, and neither is
\* taken back.
LEMMA RunsKept ==
    ASSUME IndInv, IndInv', CountInv, NEW e \in Executions, OnlyMoves(e)
    PROVE  /\ StartedOnes \in SUBSET StartedOnes'
           /\ IsFiniteSet(StartedOnes')
           /\ \A f \in Files : /\ DoneRuns(f) \in SUBSET DoneRuns(f)'
                               /\ IsFiniteSet(DoneRuns(f)')
<1>0. TypeOK /\ TypeOK'
  BY DEF IndInv
<1>1. ASSUME NEW d \in Executions, Started(d)
      PROVE  /\ Started(d)' /\ file'[d] = file[d] /\ retries'[d] >= retries[d]
             /\ retries'[d] = retries[d] /\ job[d] \notin BeforeCommit
                   => job'[d] \notin BeforeCommit
  BY <1>0, <1>1, MaxAttemptsAssumption DEF OnlyMoves, Started, TypeOK
<1>2. StartedOnes \in SUBSET StartedOnes'
  BY <1>1 DEF StartedOnes
<1>3. IsFiniteSet(StartedOnes')
  <2>1. IsFiniteSet(StartedOnes \cup {e})
    BY FS_AddElement DEF CountInv
  <2>2. StartedOnes' \in SUBSET (StartedOnes \cup {e})
    BY DEF StartedOnes, OnlyMoves, Started
  <2> QED
    BY <2>1, <2>2, FS_Subset
<1>4. ASSUME NEW f \in Files PROVE DoneRuns(f) \in SUBSET DoneRuns(f)'
  <2> SUFFICES ASSUME NEW r \in DoneRuns(f) PROVE r \in DoneRuns(f)'
    OBVIOUS
  <2>1. /\ r \in StartedOnes \X (0 .. MaxAttempts)
        /\ file[r[1]] = f /\ r[2] <= retries[r[1]]
        /\ r[2] = retries[r[1]] => job[r[1]] \notin BeforeCommit
    BY DEF DoneRuns, JobRuns
  <2>2. r[1] \in Executions /\ Started(r[1]) /\ r[2] \in Nat
    BY <2>1, MaxAttemptsAssumption DEF StartedOnes
  <2>3. retries[r[1]] \in Nat /\ retries'[r[1]] \in Nat
    BY <1>0, <2>2, MaxAttemptsAssumption DEF TypeOK
  <2>4. r \in StartedOnes' \X (0 .. MaxAttempts)
    BY <1>2, <2>1
  <2>5. /\ file'[r[1]] = f /\ r[2] <= retries'[r[1]]
        /\ r[2] = retries'[r[1]] => job'[r[1]] \notin BeforeCommit
    BY <1>1, <2>1, <2>2, <2>3
  <2> QED
    BY <2>4, <2>5 DEF DoneRuns, JobRuns
<1>5. ASSUME NEW f \in Files PROVE IsFiniteSet(DoneRuns(f)')
  <2>1. DoneRuns(f)' \subseteq StartedOnes' \X (0 .. MaxAttempts)
    BY DEF DoneRuns, JobRuns
  <2> QED
    BY <1>3, <2>1, RunsAreFinite
<1> QED
  BY <1>2, <1>3, <1>4, <1>5

\* A commit that adds rows without a key makes a run done that was not.
LEMMA CommitIsDone ==
    ASSUME IndInv, NEW e \in Executions, job[e] \in BeforeCommit, job'[e] = "stop",
           UNCHANGED <<execution, file, retries>>
    PROVE  /\ <<e, retries[e]>> \in DoneRuns(file[e])'
           /\ <<e, retries[e]>> \notin DoneRuns(file[e])
<1>1. Started(e) /\ retries[e] \in 0 .. MaxAttempts /\ retries[e] <= retries[e]
  BY MaxAttemptsAssumption DEF IndInv, TypeOK, JobInv, BeforeCommit
<1>2. <<e, retries[e]>> \in JobRuns(file[e])'
  BY <1>1 DEF JobRuns, StartedOnes, Started
<1> QED
  BY <1>2 DEF DoneRuns, BeforeCommit

\* Nothing was started.
LEMMA CountInvInit == Init => CountInv
<1> SUFFICES ASSUME Init PROVE CountInv
  OBVIOUS
<1>1. StartedOnes = {} /\ FoundNone = {}
  BY DEF Init, StartedOnes, FoundNone, Started
<1>2. \A f \in Files : DoneRuns(f) = {}
  BY <1>1 DEF DoneRuns, JobRuns
<1>3. \A f \in Files : table.nullRows[f] = 0 /\ Object[f].nullRows * 0 = 0
  BY ObjectFacts DEF Init, NoTable
<1>4. creations = 0 /\ Cardinality({}) = 0 /\ IsFiniteSet({})
  BY FS_EmptySet DEF Init
<1> QED
  BY <1>1, <1>2, <1>3, <1>4 DEF CountInv

\* A step that leaves the table alone: the counted runs only become more, and
\* whoever finds no table is the first to have done so or one of several.
LEMMA CountInvTableUntouched ==
    ASSUME IndInv, IndInv', CountInv, NEW e \in Executions, OnlyMoves(e),
           UNCHANGED <<table, creations>>,
           job'[e] # "createOrReplace" \/ creations = 0
    PROVE  CountInv'
<1>1. /\ StartedOnes \in SUBSET StartedOnes'
      /\ IsFiniteSet(StartedOnes')
      /\ \A f \in Files : DoneRuns(f) \in SUBSET DoneRuns(f)' /\ IsFiniteSet(DoneRuns(f)')
  BY RunsKept
<1>2. creations' + Cardinality(FoundNone') <= Cardinality(StartedOnes')
  <2>1. FoundNone \in SUBSET StartedOnes /\ FoundNone' \in SUBSET StartedOnes'
    BY DEF FoundNone, StartedOnes, IndInv, JobInv
  <2>2. IsFiniteSet(StartedOnes) /\ IsFiniteSet(FoundNone) /\ IsFiniteSet(FoundNone')
    BY <1>1, <2>1, FS_Subset DEF CountInv
  <2>3. /\ Cardinality(FoundNone) \in Nat /\ Cardinality(FoundNone') \in Nat
        /\ Cardinality(StartedOnes) \in Nat /\ Cardinality(StartedOnes') \in Nat
        /\ creations \in Nat
    BY <1>1, <2>2, FS_CardinalityType DEF IndInv, TypeOK
  <2>4. CASE creations = 0
    BY <1>1, <2>1, <2>3, <2>4, FS_Subset
  <2>5. CASE job'[e] # "createOrReplace"
    <3>1. FoundNone' \in SUBSET FoundNone
      BY <2>5 DEF FoundNone, OnlyMoves
    <3>2. /\ Cardinality(FoundNone') <= Cardinality(FoundNone)
          /\ Cardinality(StartedOnes) <= Cardinality(StartedOnes')
      BY <1>1, <2>2, <3>1, FS_Subset
    <3> QED
      BY <2>3, <3>2 DEF CountInv
  <2> QED
    BY <2>4, <2>5
<1>3. ASSUME NEW f \in Files
      PROVE  table'.nullRows[f] <= Object[f].nullRows * Cardinality(DoneRuns(f)')
  <2>1. /\ IsFiniteSet(DoneRuns(f)) /\ Cardinality(DoneRuns(f)) \in Nat
        /\ Cardinality(DoneRuns(f)') \in Nat
        /\ Cardinality(DoneRuns(f)) <= Cardinality(DoneRuns(f)')
    BY <1>1, FS_Subset, FS_CardinalityType
  <2>2. /\ table'.nullRows[f] \in Nat /\ Object[f].nullRows \in Nat
        /\ table'.nullRows[f] <= Object[f].nullRows * Cardinality(DoneRuns(f))
    BY ObjectFacts DEF CountInv, IndInv, TypeOK, Tables
  <2> QED
    BY <2>1, <2>2, CopyPerRun
<1> QED
  BY <1>1, <1>2, <1>3 DEF CountInv

LEMMA CountInvStep == IndInv /\ IndInv' /\ CountInv /\ [Next]_vars => CountInv'
<1> SUFFICES ASSUME IndInv, IndInv', CountInv, [Next]_vars PROVE CountInv'
  OBVIOUS
<1> USE DEF JobAt, JobFails
<1>0. TypeOK /\ TableInv /\ \A e \in Executions : JobInv(e)
  BY DEF IndInv
<1>1. ASSUME NEW e \in Executions, RejectKey(e) \/ StartExecution(e) PROVE CountInv'
  <2>1. job'[e] # "createOrReplace"
    BY <1>0, <1>1 DEF RejectKey, StartExecution, TypeOK, JobInv, Started
  <2> QED
    BY <1>1, <2>1, ActionsMove, CountInvTableUntouched DEF RejectKey, StartExecution
<1>2. ASSUME NEW e \in Executions, CheckTableExists(e) PROVE CountInv'
  <2>1. job'[e] # "createOrReplace" \/ creations = 0
    BY <1>0, <1>2 DEF CheckTableExists, TypeOK, TableInv
  <2> QED
    BY <1>2, <2>1, ActionsMove, CountInvTableUntouched DEF CheckTableExists, Step
<1>3. ASSUME NEW e \in Executions,
             \/ ReadSourceData(e) \/ PlanMerge(e) \/ MergeFails(e) \/ JobSucceeds(e)
             \/ JobCrashes(e) \/ IngestionSucceeded(e) \/ Retry(e)
             \/ NotifyIngestionFailure(e)
      PROVE  CountInv'
  <2>1. /\ UNCHANGED <<table, creations>>
        /\ job'[e] # "createOrReplace"
    BY <1>0, <1>3 DEF ReadSourceData, PlanMerge, MergeFails, JobSucceeds, JobCrashes,
                      IngestionSucceeded, Retry, NotifyIngestionFailure, TypeOK
  <2>2. OnlyMoves(e)
    BY <1>3, ActionsMove DEF Step
  <2> QED
    BY <2>1, <2>2, CountInvTableUntouched
<1>4. ASSUME NEW e \in Executions, CreateOrReplace(e) \/ CommitMerge(e) PROVE CountInv'
  <2> DEFINE f == file[e]
  <2>1. OnlyMoves(e)
    BY <1>4, ActionsMove DEF Step
  <2>2. /\ StartedOnes \in SUBSET StartedOnes'
        /\ IsFiniteSet(StartedOnes')
        /\ \A g \in Files : DoneRuns(g) \in SUBSET DoneRuns(g)' /\ IsFiniteSet(DoneRuns(g)')
    BY <2>1, RunsKept
  <2>3. /\ job[e] \in BeforeCommit /\ job'[e] = "stop" /\ f \in Files
        /\ UNCHANGED <<execution, file, retries>>
    BY <1>0, <1>4 DEF CreateOrReplace, CommitMerge, BeforeCommit, JobInv, TypeOK
  <2>4. StartedOnes' = StartedOnes
    BY <2>3 DEF StartedOnes, Started
  <2>5. creations' + Cardinality(FoundNone') <= Cardinality(StartedOnes')
    <3>1. FoundNone' = FoundNone \ {e}
      BY <1>0, <2>3, <1>4 DEF FoundNone, TypeOK, CreateOrReplace, CommitMerge
    <3>2. FoundNone \in SUBSET StartedOnes
      BY <1>0 DEF FoundNone, StartedOnes, JobInv
    <3>3. IsFiniteSet(FoundNone)
      BY <3>2, FS_Subset DEF CountInv
    <3>4. Cardinality(FoundNone') = IF e \in FoundNone THEN Cardinality(FoundNone) - 1
                                                       ELSE Cardinality(FoundNone)
      BY <3>1, <3>3, FS_RemoveElement
    <3>5. creations' = IF e \in FoundNone THEN creations + 1 ELSE creations
      BY <1>4 DEF CreateOrReplace, CommitMerge, FoundNone
    <3>6. Cardinality(FoundNone) \in Nat /\ Cardinality(StartedOnes) \in Nat /\ creations \in Nat
      BY <1>0, <3>3, FS_CardinalityType DEF CountInv, TypeOK
    <3> QED
      BY <2>4, <3>4, <3>5, <3>6 DEF CountInv
  <2>6. ASSUME NEW g \in Files
        PROVE  table'.nullRows[g] <= Object[g].nullRows * Cardinality(DoneRuns(g)')
    <3>1. /\ IsFiniteSet(DoneRuns(g)) /\ Cardinality(DoneRuns(g)) \in Nat
          /\ Cardinality(DoneRuns(g)') \in Nat
          /\ Cardinality(DoneRuns(g)) <= Cardinality(DoneRuns(g)')
      BY <2>2, FS_Subset, FS_CardinalityType
    <3>2. /\ table.nullRows[g] \in Nat /\ Object[g].nullRows \in Nat
          /\ table.nullRows[g] <= Object[g].nullRows * Cardinality(DoneRuns(g))
      BY <1>0, ObjectFacts DEF CountInv, TypeOK, Tables
    <3>3. CASE g # f
      <4>1. table'.nullRows[g] \in {0, table.nullRows[g]}
        BY <1>0, <1>4, <2>3, <3>3
           DEF CreateOrReplace, CommitMerge, Created, Merged, JobInv, BaseInv, TypeOK, Tables
      <4>2. table'.nullRows[g] \in Nat /\ table'.nullRows[g] <= table.nullRows[g]
        BY <3>2, <4>1
      <4>3. table.nullRows[g] <= Object[g].nullRows * Cardinality(DoneRuns(g)')
        BY <3>1, <3>2, CopyPerRun
      <4> QED
        BY <3>1, <3>2, <4>2, <4>3
    <3>4. CASE g = f
      <4>1. table'.nullRows[g] \in {Object[g].nullRows, table.nullRows[g] + Object[g].nullRows}
        BY <1>0, <1>4, <2>3, <3>4
           DEF CreateOrReplace, CommitMerge, Created, Merged, JobInv, BaseInv, TypeOK, Tables
      <4>2. <<e, retries[e]>> \in DoneRuns(g)' /\ <<e, retries[e]>> \notin DoneRuns(g)
        BY <2>3, <3>4, CommitIsDone
      <4>3. Cardinality(DoneRuns(g)) + 1 <= Cardinality(DoneRuns(g)')
        BY <2>2, <4>2, LargerByOne
      <4>4. table.nullRows[g] + Object[g].nullRows <= Object[g].nullRows * Cardinality(DoneRuns(g)')
        BY <3>1, <3>2, <4>3, CopyPerRun
      <4> QED
        BY <3>1, <3>2, <4>1, <4>4
    <3> QED
      BY <3>3, <3>4
  <2> QED
    BY <2>2, <2>5, <2>6 DEF CountInv
<1>5. CASE UNCHANGED vars
  BY <1>5 DEF vars, jobVars, CountInv, StartedOnes, Started, FoundNone, DoneRuns, JobRuns
<1> QED
  BY <1>1, <1>2, <1>3, <1>4, <1>5 DEF Next, Step, Quiet

\* The counting holds in every reachable state.
THEOREM IngestionCounts == Spec => []CountInv
<1>1. Init => CountInv
  BY CountInvInit
<1>2. IndInv /\ IndInv' /\ CountInv /\ [Next]_vars => CountInv'
  BY CountInvStep
<1> QED
  BY <1>1, <1>2, IngestionInvariant, PTL DEF Spec

\* Rows without a key are copied at most once by each run of a job on their file.
THEOREM NoMoreCopiesThanRuns == Spec => []OneCopyPerRun
<1>1. IndInv /\ CountInv => OneCopyPerRun
  <2> SUFFICES ASSUME IndInv, CountInv, NEW f \in Files
               PROVE  table.nullRows[f] <= Object[f].nullRows * Cardinality(JobRuns(f))
    BY DEF OneCopyPerRun
  <2>1. JobRuns(f) \subseteq StartedOnes \X (0 .. MaxAttempts)
    BY DEF JobRuns
  <2>2. IsFiniteSet(JobRuns(f))
    BY <2>1, RunsAreFinite DEF CountInv
  <2>3. DoneRuns(f) \in SUBSET JobRuns(f)
    BY DEF DoneRuns
  <2>4. /\ Cardinality(DoneRuns(f)) \in Nat /\ Cardinality(JobRuns(f)) \in Nat
        /\ Cardinality(DoneRuns(f)) <= Cardinality(JobRuns(f))
    BY <2>2, <2>3, FS_Subset, FS_CardinalityType
  <2>5. /\ table.nullRows[f] \in Nat /\ Object[f].nullRows \in Nat
        /\ table.nullRows[f] <= Object[f].nullRows * Cardinality(DoneRuns(f))
    BY ObjectFacts DEF CountInv, IndInv, TypeOK, Tables
  <2> QED
    BY <2>4, <2>5, CopyPerRun
<1> QED
  BY <1>1, IngestionInvariant, IngestionCounts, PTL

\* The table is created or replaced no more often than executions were started.
THEOREM CreationsAreBounded == Spec => []CreationsWithinExecutions
<1>1. IndInv /\ CountInv => CreationsWithinExecutions
  <2> SUFFICES ASSUME IndInv, CountInv PROVE creations <= Cardinality(StartedOnes)
    BY DEF CreationsWithinExecutions
  <2>1. FoundNone \in SUBSET StartedOnes
    BY DEF FoundNone, StartedOnes, IndInv, JobInv
  <2>2. IsFiniteSet(FoundNone)
    BY <2>1, FS_Subset DEF CountInv
  <2>3. Cardinality(FoundNone) \in Nat /\ Cardinality(StartedOnes) \in Nat /\ creations \in Nat
    BY <2>2, FS_CardinalityType DEF CountInv, IndInv, TypeOK
  <2> QED
    BY <2>3 DEF CountInv
<1> QED
  BY <1>1, IngestionInvariant, IngestionCounts, PTL

-----------------------------------------------------------------------------
(* What merges do to the rows *)

\* Outside of createOrReplace the table only grows, for any number of jobs: the
\* agent may take a merge for a commit that removes nothing.
THEOREM MergesAddRows == Spec => MergesOnlyAdd
<1>1. ASSUME IndInv, NEW e \in Executions,
             RejectKey(e) \/ StartExecution(e) \/ Step(e) \/ JobCrashes(e)
      PROVE  OnlyAdds
  <2>0. TypeOK /\ JobInv(e)
    BY <1>1 DEF IndInv
  <2>1. CASE CommitMerge(e)
    <3>1. file[e] \in Files /\ table \in Tables
      BY <2>0, <2>1 DEF CommitMerge, JobInv, Started, TypeOK
    <3>2. table.exists /\ base[e] = table
      BY <2>0, <2>1 DEF CommitMerge, JobInv, BaseInv
    <3>3. table' = Merged(table, file[e])
      BY <2>1, <3>2 DEF CommitMerge
    <3>4. \A k \in Keys : Merged(table, file[e]).rows[k] >= table.rows[k]
      <4>1. ASSUME NEW k \in Keys
            PROVE  Merged(table, file[e]).rows[k] >= table.rows[k]
        <5>1. /\ table.rows[k] \in Nat /\ Object[file[e]].rows[k] \in Nat
              /\ Merged(table, file[e]).rows[k] \in {table.rows[k], Object[file[e]].rows[k]}
              /\ table.rows[k] > 0 => Merged(table, file[e]).rows[k] = table.rows[k]
          BY <3>1, MergedFacts, ObjectFacts DEF Tables
        <5> QED
          BY <5>1
      <4> QED
        BY <4>1
    <3> QED
      BY <3>1, <3>2, <3>3, <3>4, MergedFacts DEF OnlyAdds
  <2>2. CASE CreateOrReplace(e)
    BY <2>0, <2>2 DEF CreateOrReplace, OnlyAdds, TypeOK
  <2>3. CASE table' = table
    BY <2>3 DEF OnlyAdds
  <2> QED
    BY <1>1, <2>1, <2>2, <2>3
       DEF RejectKey, StartExecution, Step, JobCrashes, ReadSourceData, CheckTableExists,
           PlanMerge, MergeFails, JobSucceeds, IngestionSucceeded, Retry, NotifyIngestionFailure
<1>2. IndInv /\ [Next]_vars => OnlyAdds
  BY <1>1 DEF Next, Quiet, vars, OnlyAdds
<1>3. Spec => [][OnlyAdds]_vars
  BY <1>2, IngestionInvariant, PTL DEF Spec
<1> QED
  BY <1>3 DEF MergesOnlyAdd

-----------------------------------------------------------------------------
(* Progress *)

\* Each of its own steps brings an execution nearer to its end, for any number
\* of attempts: the measure that liveness rests on.
THEOREM ExecutionsMakeProgress == Spec => ExecutionsProgress
<1>1. ASSUME IndInv, Next, NEW d \in Executions, execution[d] = "RunSparkIngestion"
      PROVE  Progresses(d)
  <2> USE DEF JobAt, JobFails, Progresses
  <2>0. /\ TypeOK /\ JobInv(d) /\ retries[d] \in 0 .. MaxAttempts /\ MaxAttempts \in Nat
        /\ job[d] \in JobSteps
    BY <1>1, MaxAttemptsAssumption DEF IndInv, TypeOK
  <2>1. ASSUME NEW e \in Executions, e # d,
               RejectKey(e) \/ StartExecution(e) \/ Step(e) \/ JobCrashes(e)
        PROVE  Progresses(d)
    <3>1. OnlyMoves(e)
      BY <1>1, <2>1, ActionsMove
    <3>2. base'[d] = base[d]
      BY <2>0, <2>1 DEF TypeOK, RejectKey, StartExecution, Step, JobCrashes, ReadSourceData,
           CheckTableExists, CreateOrReplace, PlanMerge, CommitMerge, MergeFails,
           JobSucceeds, IngestionSucceeded, Retry, NotifyIngestionFailure
    <3> QED
      BY <2>1, <3>1, <3>2 DEF OnlyMoves
  <2>2. CASE RejectKey(d) \/ StartExecution(d)
    BY <1>1, <2>2 DEF RejectKey, StartExecution
  <2>3. CASE ReadSourceData(d) \/ CheckTableExists(d)
    BY <1>1, <2>0, <2>3 DEF ReadSourceData, CheckTableExists, StepsLeft, TypeOK
  <2>4. CASE CreateOrReplace(d) \/ PlanMerge(d)
    BY <1>1, <2>0, <2>4 DEF CreateOrReplace, PlanMerge, StepsLeft, TypeOK
  <2>5. CASE CommitMerge(d) \/ MergeFails(d) \/ JobSucceeds(d)
    BY <1>1, <2>0, <2>5 DEF CommitMerge, MergeFails, JobSucceeds, StepsLeft, TypeOK
  <2>6. CASE JobCrashes(d)
    BY <1>1, <2>0, <2>6 DEF JobCrashes, JobRunning, StepsLeft, TypeOK
  <2>7. CASE IngestionSucceeded(d) \/ NotifyIngestionFailure(d)
    BY <1>1, <2>0, <2>7 DEF IngestionSucceeded, NotifyIngestionFailure, StepsLeft, TypeOK
  <2>8. CASE Retry(d)
    BY <1>1, <2>0, <2>8 DEF Retry, StepsLeft, TypeOK
  <2>9. CASE Quiet
    BY <2>9 DEF Quiet, vars, jobVars
  <2> QED
    BY <1>1, <2>1, <2>2, <2>3, <2>4, <2>5, <2>6, <2>7, <2>8, <2>9 DEF Next, Step
<1>2. IndInv /\ [Next]_vars => (\A e \in Executions : Progresses(e))
  BY <1>1 DEF vars, jobVars, Progresses
<1>3. Spec => [][\A e \in Executions : Progresses(e)]_vars
  BY <1>2, IngestionInvariant, PTL DEF Spec
<1> QED
  BY <1>3 DEF ExecutionsProgress
=============================================================================
