---------------------------- MODULE DbInitProofs ----------------------------
(***************************************************************************)
(* Proofs about DbInit, for any number of attempts and any time limit.     *)
(***************************************************************************)
EXTENDS DbInit, TLAPS

LEMMA IndInvInit == Init => IndInv
  BY RetriesAssumption, LimitAssumption
     DEF Init, IndInv, TypeOK, NoGap, TimeSpent, ReportedComplete, CutOffOnlyIfHung,
         Statements, Running, Endings, DoneBefore

\* The last statement has nothing after it, so that a run past it is complete.
LEMMA DoneBeforeFive == DoneBefore(5) /\ objects \subseteq Statements => objects = Statements
  <1>1. \A j \in Statements : j < 5
    BY DEF Statements
  <1> QED BY <1>1 DEF DoneBefore

\* What exists never vanishes, so that what is done stays done.
LEMMA DoneStaysDone ==
    ASSUME NEW i, DoneBefore(i), objects \subseteq objects'
    PROVE  DoneBefore(i)'
  BY DEF DoneBefore

\* The steps of the invocation before it is connected leave the database alone.
LEMMA ConnectingStep ==
    ASSUME IndInv,
           \/ GetCredentials \/ CredentialsFail \/ ConnectSucceeds
           \/ ConnectFails \/ RetriesExceeded \/ Sleep
    PROVE  IndInv'
  <1> USE RetriesAssumption, LimitAssumption
          DEF IndInv, TypeOK, NoGap, TimeSpent, ReportedComplete, CutOffOnlyIfHung,
              Running, Endings, DoneBefore
  <1>1. CASE GetCredentials
    BY <1>1 DEF GetCredentials, Takes
  <1>2. CASE CredentialsFail
    BY <1>2 DEF CredentialsFail, Ends, Statements
  <1>3. CASE ConnectSucceeds
    BY <1>3 DEF ConnectSucceeds, Takes, Statements
  <1>4. CASE ConnectFails
    BY <1>4 DEF ConnectFails, Takes
  <1>5. CASE RetriesExceeded
    BY <1>5 DEF RetriesExceeded, Ends, Statements
  <1>6. CASE Sleep
    BY <1>6 DEF Sleep, Takes, RetryDelay
  <1> QED BY <1>1, <1>2, <1>3, <1>4, <1>5, <1>6

\* A step of the schema, the return, and the end of an orphaned statement.
LEMMA SchemaStep ==
    ASSUME IndInv,
           \/ StatementFails \/ Return
           \/ \E i \in Statements : RunStatement(i) \/ OrphanEnds(i)
    PROVE  IndInv'
  <1> USE RetriesAssumption, LimitAssumption
  <1>1. CASE StatementFails
    <2>1. orphans' \subseteq orphans \cup {next} /\ next \in Statements /\ DoneBefore(next)
      BY <1>1 DEF StatementFails, IndInv, NoGap
    <2>2. NoGap'
      BY <1>1, <2>1 DEF StatementFails, Ends, IndInv, NoGap, DoneBefore
    <2>3. TypeOK'
      BY <1>1, <2>1 DEF StatementFails, Ends, IndInv, TypeOK, Statements, Running, Endings
    <2> QED BY <1>1, <2>2, <2>3 DEF StatementFails, Ends, IndInv, TimeSpent, ReportedComplete,
              CutOffOnlyIfHung, Running
  <1>2. CASE Return
    <2>1. objects = Statements
      BY <1>2, DoneBeforeFive DEF Return, IndInv, NoGap, TypeOK
    <2> QED BY <1>2, <2>1 DEF Return, Ends, IndInv, TypeOK, NoGap, TimeSpent, ReportedComplete,
              CutOffOnlyIfHung, Running, Endings, DoneBefore, Statements
  <1>3. ASSUME NEW i \in Statements, RunStatement(i) PROVE IndInv'
    <2>1. objects' = objects \cup {i} /\ DoneBefore(i)
      BY <1>3 DEF RunStatement, Creates, IndInv, NoGap
    <2>2. NoGap'
      BY <1>3, <2>1 DEF RunStatement, IndInv, TypeOK, NoGap, DoneBefore, Statements
    <2>3. TypeOK'
      BY <1>3, <2>1 DEF RunStatement, Takes, IndInv, TypeOK, Statements, Running
    <2>4. ReportedComplete'
      BY <1>3 DEF RunStatement, IndInv, Running, ReportedComplete
    <2> QED BY <1>3, <2>2, <2>3, <2>4
         DEF RunStatement, IndInv, TimeSpent, CutOffOnlyIfHung, Running
  <1>4. ASSUME NEW i \in Statements, OrphanEnds(i) PROVE IndInv'
    <2>1. objects \subseteq objects' /\ objects' \subseteq objects \cup {i} /\ DoneBefore(i)
      BY <1>4 DEF OrphanEnds, IndInv, NoGap
    <2>2. NoGap'
      BY <1>4, <2>1 DEF OrphanEnds, lambdaVars, IndInv, NoGap, DoneBefore
    <2>3. TypeOK' /\ ReportedComplete'
      BY <1>4, <2>1 DEF OrphanEnds, lambdaVars, IndInv, TypeOK, ReportedComplete
    <2> QED BY <1>4, <2>2, <2>3
         DEF OrphanEnds, lambdaVars, IndInv, TimeSpent, CutOffOnlyIfHung
  <1> QED BY <1>1, <1>2, <1>3, <1>4

\* The arithmetic of the time limit: an invocation cut off while connecting has
\* slept less often than it may attempt, so that the rest of its time hung.
LEMMA KilledStep == IndInv /\ Killed => IndInv'
  <1> SUFFICES ASSUME IndInv, Killed PROVE IndInv' OBVIOUS
  <1>1. ended' = "killed_connecting" => slow' + MAX_RETRIES >= Limit
    <2>1. SUFFICES ASSUME pc \in {"connect", "sleep"} PROVE slow + MAX_RETRIES >= Limit
      BY DEF Killed, Ends
    <2>2. elapsed + 1 >= Limit
      BY <2>1, LimitAssumption DEF Killed, StepTime, RetryDelay, IndInv, TypeOK
    <2> QED BY <2>1, <2>2, RetriesAssumption, LimitAssumption
         DEF IndInv, TypeOK, TimeSpent
  <1>2. /\ orphans' \subseteq orphans \cup {next} /\ orphans' \subseteq Statements
        /\ orphans' # orphans => DoneBefore(next)
    BY DEF Killed, IndInv, TypeOK, NoGap
  <1>3. NoGap'
    BY <1>2 DEF Killed, Ends, IndInv, NoGap, DoneBefore
  <1>4. ended' \in Endings
    BY DEF Killed, Ends, Endings
  <1>5. TypeOK'
    BY <1>2, <1>4, RetriesAssumption, LimitAssumption
       DEF Killed, Ends, IndInv, TypeOK, Statements
  <1> QED BY <1>1, <1>3, <1>5
       DEF Killed, Ends, IndInv, TimeSpent, ReportedComplete, CutOffOnlyIfHung, Running

LEMMA IndInvStep == IndInv /\ [Next]_vars => IndInv'
  <1> SUFFICES ASSUME IndInv, [Next]_vars PROVE IndInv' OBVIOUS
  <1>1. CASE Apply
    BY <1>1, RetriesAssumption, LimitAssumption
       DEF Apply, IndInv, TypeOK, NoGap, TimeSpent, ReportedComplete, CutOffOnlyIfHung,
           Running, Endings, DoneBefore
  <1>2. CASE AuroraComesUp
    BY <1>2 DEF AuroraComesUp, lambdaVars, IndInv, TypeOK, NoGap, TimeSpent, ReportedComplete,
         CutOffOnlyIfHung, DoneBefore
  <1>3. CASE UNCHANGED vars
    BY <1>3 DEF vars, lambdaVars, IndInv, TypeOK, NoGap, TimeSpent, ReportedComplete,
         CutOffOnlyIfHung, DoneBefore
  <1> QED BY <1>1, <1>2, <1>3, ConnectingStep, SchemaStep, KilledStep DEF Next

\* The database and the invocation fit together in every reachable state.
THEOREM InitInvariant == Spec => []IndInv
  <1> QED BY IndInvInit, IndInvStep, PTL DEF Spec

\* Terraform never records an incomplete schema as done (lambda_handler).
THEOREM NeverReportedIncomplete == Spec => []ReportedComplete
  <1>1. IndInv => ReportedComplete
    BY DEF IndInv
  <1> QED BY <1>1, InitInvariant, PTL

\* For any number of attempts and any limit: refused connections alone never
\* run into the limit as long as the limit exceeds the number of attempts.
THEOREM RetriesFitTheLimit == Spec => []CutOffOnlyIfHung
  <1>1. IndInv => CutOffOnlyIfHung
    BY DEF IndInv
  <1> QED BY <1>1, InitInvariant, PTL

\* No object is referred to before it exists, by the Lambda or by a statement
\* that an earlier invocation has left in the server (initialize_schema).
THEOREM NothingRunsTooEarly == Spec => []DependenciesFirst
  <1>1. \A i \in Statements : \A j \in Needs[i] : j \in Statements /\ j < i
    BY DEF Statements, Needs
  <1>2. ASSUME NEW i \in Statements, DoneBefore(i) PROVE Needs[i] \subseteq objects
    BY <1>1, <1>2 DEF DoneBefore
  <1>3. IndInv => DependenciesFirst
    BY <1>2 DEF IndInv, TypeOK, NoGap, DependenciesFirst
  <1> QED BY <1>3, InitInvariant, PTL
=============================================================================
