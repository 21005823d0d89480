-------------------------- MODULE DashboardProofs --------------------------
(***************************************************************************)
(* Proofs about Dashboard.  The run refutes that the page shows the        *)
(* agent's label; here is that the caches are not to blame, and that no    *)
(* page ever shows a label, for any tables, sessions and times to live.    *)
(***************************************************************************)
EXTENDS Dashboard, TLAPS

\* What get_catalog_tables and get_table_metadata answer at the instant i.
TablesAt(i) == {t \in Tables : history[i][t] # "absent"}
ParametersAt(i, t) == Parameters(history[i][t])

\* The table list that is cached, and the Parameters cached for t, are what the
\* catalog held at the instant they carry, or nothing if the call failed.
ListIsFromTheCatalog ==
    tables.at # 0 => /\ tables.at \in 1 .. Now
                     /\ tables.value = IF tables.ok THEN TablesAt(tables.at) ELSE {}

ParametersAreFromTheCatalog(t) ==
    metadata[t].at # 0 =>
        /\ metadata[t].at \in 1 .. Now
        /\ metadata[t].value = IF metadata[t].ok THEN ParametersAt(metadata[t].at, t) ELSE <<>>

CachedIsFromTheCatalog ==
    ListIsFromTheCatalog /\ \A t \in Tables : ParametersAreFromTheCatalog(t)

\* No label is on any page.
NoLabelIsShown == \A s \in Sessions : compliance[s] \in {"none", "UNKNOWN"}

IndInv ==
    /\ history \in Seq(Catalog) /\ Now # 0
    /\ DOMAIN metadata = Tables
    /\ selected \in [Sessions -> Tables \cup {Missing}]
    /\ pc \in [Sessions -> {"done", "tables", "status", "preview"}]
    /\ compliance \in [Sessions -> {"none", "UNKNOWN"}]
    /\ \A s \in Sessions : pc[s] = "status" => selected[s] \in Tables
    /\ CachedIsFromTheCatalog

\* The key the page looks for is not the one the agent writes.
LEMMA NeverTheKey ==
    ASSUME NEW entry
    PROVE  ComplianceOf(Parameters(entry)) = "UNKNOWN" /\ ComplianceOf(<<>>) = "UNKNOWN"
<1>1. "compliance_status" \notin DOMAIN Parameters(entry)
  BY DEF Parameters
<1> QED
  BY <1>1 DEF ComplianceOf

\* The past of the catalog stays what it was.
LEMMA PastStays ==
    ASSUME IndInv, NEW c \in Catalog, history' = Append(history, c)
    PROVE  /\ history' \in Seq(Catalog) /\ Now' = Now + 1 /\ Now \in Nat
           /\ \A i \in 1 .. Now : history'[i] = history[i]
BY DEF IndInv, Now

LEMMA IndInvInit == Init => IndInv
<1> SUFFICES ASSUME Init PROVE IndInv
  OBVIOUS
<1>1. history \in Seq(Catalog) /\ Now = 1
  <2>1. [t \in Tables |-> "absent"] \in Catalog
    BY DEF Catalog, Entries
  <2> QED
    BY <2>1 DEF Init, Now
<1>2. CachedIsFromTheCatalog
  BY DEF Init, NoValue, CachedIsFromTheCatalog, ListIsFromTheCatalog, ParametersAreFromTheCatalog
<1> QED
  BY <1>1, <1>2 DEF Init, IndInv

LEMMA TickKeeps == IndInv /\ Tick => IndInv'
<1> SUFFICES ASSUME IndInv, Tick PROVE IndInv'
  OBVIOUS
<1>1. PICK c \in Catalog : history' = Append(history, c)
  BY DEF Tick
<1>2. /\ history' \in Seq(Catalog) /\ Now' = Now + 1 /\ Now \in Nat
      /\ \A i \in 1 .. Now : history'[i] = history[i] /\ i \in 1 .. Now'
  <2>1. /\ history' \in Seq(Catalog) /\ Now' = Now + 1 /\ Now \in Nat
        /\ \A i \in 1 .. Now : history'[i] = history[i]
    BY <1>1, PastStays
  <2> QED
    BY <2>1
<1>3. UNCHANGED <<tables, metadata, pc, selected, compliance>>
  BY DEF Tick, cacheVars, sessionVars
<1>4. ListIsFromTheCatalog'
  BY <1>2, <1>3 DEF IndInv, CachedIsFromTheCatalog, ListIsFromTheCatalog, TablesAt
<1>5. ASSUME NEW t \in Tables PROVE ParametersAreFromTheCatalog(t)'
  BY <1>2, <1>3 DEF IndInv, CachedIsFromTheCatalog, ParametersAreFromTheCatalog, ParametersAt
<1> QED
  BY <1>2, <1>3, <1>4, <1>5 DEF IndInv, CachedIsFromTheCatalog

\* What a cached function returns, and stores, is from the catalog.
LEMMA CallsAnswer ==
    ASSUME IndInv
    PROVE  /\ \A v \in get_catalog_tables :
                /\ v.value \subseteq Tables
                /\ v.at # 0 => /\ v.at \in 1 .. Now
                               /\ v.value = IF v.ok THEN TablesAt(v.at) ELSE {}
           /\ \A t \in Tables : \A v \in get_table_metadata(t) :
                /\ v.at \in 1 .. Now
                /\ v.value = IF v.ok THEN ParametersAt(v.at, t) ELSE <<>>
<1>1. Now \in 1 .. Now
  BY DEF IndInv, Now
<1>2. ASSUME NEW v \in get_catalog_tables
      PROVE  /\ v.value \subseteq Tables
             /\ v.at # 0 => /\ v.at \in 1 .. Now
                            /\ v.value = IF v.ok THEN TablesAt(v.at) ELSE {}
  <2>1. CASE Valid(tables, CatalogTTL)
    BY <1>2, <2>1 DEF get_catalog_tables, Cached, Valid, IndInv, CachedIsFromTheCatalog,
                      ListIsFromTheCatalog, TablesAt
  <2>2. CASE ~Valid(tables, CatalogTTL)
    <3>1. \/ v.at = Now /\ v.ok = TRUE /\ v.value = TablesAt(Now)
          \/ v.at = Now /\ v.ok = FALSE /\ v.value = {}
      BY <1>2, <2>2 DEF get_catalog_tables, Cached, Value, TablesAt
    <3> QED
      BY <1>1, <3>1 DEF TablesAt
  <2> QED
    BY <2>1, <2>2
<1>3. ASSUME NEW t \in Tables, NEW v \in get_table_metadata(t)
      PROVE  /\ v.at \in 1 .. Now
             /\ v.value = IF v.ok THEN ParametersAt(v.at, t) ELSE <<>>
  <2>1. CASE Valid(metadata[t], CatalogTTL)
    <3>1. v = metadata[t] /\ metadata[t].at # 0
      BY <1>3, <2>1 DEF get_table_metadata, Cached, Valid
    <3> QED
      BY <3>1 DEF IndInv, CachedIsFromTheCatalog, ParametersAreFromTheCatalog
  <2>2. CASE ~Valid(metadata[t], CatalogTTL)
    <3>1. \/ v.at = Now /\ v.ok = TRUE /\ v.value = ParametersAt(Now, t)
          \/ v.at = Now /\ v.ok = FALSE /\ v.value = <<>>
      BY <1>3, <2>2 DEF get_table_metadata, Cached, Value, ParametersAt
    <3> QED
      BY <1>1, <3>1
  <2> QED
    BY <2>1, <2>2
<1> QED
  BY <1>2, <1>3

LEMMA SessionKeeps ==
    ASSUME IndInv, NEW s \in Sessions,
           Rerun(s) \/ SelectTable(s) \/ ShowStatus(s) \/ ShowRows(s) \/ PageRaises(s)
    PROVE  IndInv'
<1> USE DEF Goto
<1>1. CASE Rerun(s) \/ PageRaises(s)
  <2>1. UNCHANGED <<history, tables, metadata>>
    BY <1>1 DEF Rerun, PageRaises, cacheVars
  <2>2. CachedIsFromTheCatalog'
    BY <2>1 DEF IndInv, CachedIsFromTheCatalog, ListIsFromTheCatalog,
                ParametersAreFromTheCatalog, TablesAt, ParametersAt, Now
  <2>3. /\ selected' \in [Sessions -> Tables \cup {Missing}]
        /\ compliance' \in [Sessions -> {"none", "UNKNOWN"}]
    BY <1>1 DEF Rerun, PageRaises, IndInv
  <2>4. /\ pc' \in [Sessions -> {"done", "tables", "status", "preview"}]
        /\ \A q \in Sessions : pc'[q] = "status" => pc[q] = "status" /\ q # s
    BY <1>1 DEF Rerun, PageRaises, IndInv
  <2>5. \A q \in Sessions \ {s} : selected'[q] = selected[q]
    BY <1>1 DEF Rerun, PageRaises, IndInv
  <2> QED
    BY <2>1, <2>2, <2>3, <2>4, <2>5 DEF IndInv, Now
<1>2. CASE ShowRows(s)
  BY <1>2 DEF ShowRows, IndInv, CachedIsFromTheCatalog,
              ListIsFromTheCatalog, ParametersAreFromTheCatalog, TablesAt, ParametersAt, Now
<1>3. CASE SelectTable(s)
  <2>1. PICK v \in get_catalog_tables :
          /\ tables' = v
          /\ IF v.value = {}
             THEN Goto(s, "done") /\ UNCHANGED selected
             ELSE Goto(s, "status") /\ \E t \in v.value : selected' = [selected EXCEPT ![s] = t]
    BY <1>3 DEF SelectTable
  <2>2. v.value \subseteq Tables
    BY CallsAnswer
  <2>3. UNCHANGED <<history, metadata, compliance>>
    BY <1>3 DEF SelectTable
  <2>4. ListIsFromTheCatalog'
    BY <2>1, <2>3, CallsAnswer DEF ListIsFromTheCatalog, TablesAt, Now
  <2>5. ASSUME NEW t \in Tables PROVE ParametersAreFromTheCatalog(t)'
    BY <2>3 DEF IndInv, CachedIsFromTheCatalog, ParametersAreFromTheCatalog, ParametersAt, Now
  <2>6. /\ selected' \in [Sessions -> Tables \cup {Missing}]
        /\ pc' \in [Sessions -> {"done", "tables", "status", "preview"}]
        /\ \A q \in Sessions : pc'[q] = "status" => selected'[q] \in Tables
    BY <2>1, <2>2 DEF IndInv
  <2> QED
    BY <2>3, <2>4, <2>5, <2>6 DEF IndInv, CachedIsFromTheCatalog, Now
<1>4. CASE ShowStatus(s)
  <2> DEFINE t == selected[s]
  <2>1. PICK v \in get_table_metadata(t) :
          /\ metadata' = [metadata EXCEPT ![t] = v]
          /\ compliance' = [compliance EXCEPT ![s] = ComplianceOf(v.value)]
    BY <1>4 DEF ShowStatus
  <2>2. t \in Tables
    BY <1>4 DEF ShowStatus, IndInv
  <2>3. v.at \in 1 .. Now /\ v.value = IF v.ok THEN ParametersAt(v.at, t) ELSE <<>>
    BY <2>2, CallsAnswer
  <2>4. ComplianceOf(v.value) = "UNKNOWN"
    BY <2>3, NeverTheKey DEF ParametersAt
  <2>5. UNCHANGED <<history, tables, selected>> /\ pc' = [pc EXCEPT ![s] = "preview"]
    BY <1>4 DEF ShowStatus
  <2>6. ListIsFromTheCatalog'
    BY <2>5 DEF IndInv, CachedIsFromTheCatalog, ListIsFromTheCatalog, TablesAt, Now
  <2>7. ASSUME NEW u \in Tables PROVE ParametersAreFromTheCatalog(u)'
    <3>1. metadata'[u] = IF u = t THEN v ELSE metadata[u]
      BY <2>1, <2>2 DEF IndInv
    <3> QED
      BY <2>3, <2>5, <3>1 DEF IndInv, CachedIsFromTheCatalog, ParametersAreFromTheCatalog,
                              ParametersAt, Now
  <2>8. /\ DOMAIN metadata' = Tables
        /\ compliance' \in [Sessions -> {"none", "UNKNOWN"}]
    BY <2>1, <2>4 DEF IndInv
  <2>9. /\ pc' \in [Sessions -> {"done", "tables", "status", "preview"}]
        /\ \A q \in Sessions : pc'[q] = "status" => selected'[q] \in Tables
    BY <2>5 DEF IndInv
  <2> QED
    BY <2>5, <2>6, <2>7, <2>8, <2>9 DEF IndInv, CachedIsFromTheCatalog, Now
<1> QED
  BY <1>1, <1>2, <1>3, <1>4

LEMMA IndInvStep == IndInv /\ [Next]_vars => IndInv'
<1> SUFFICES ASSUME IndInv, [Next]_vars PROVE IndInv'
  OBVIOUS
<1>1. CASE Next
  BY <1>1, TickKeeps, SessionKeeps DEF Next
<1>2. CASE UNCHANGED vars
  BY <1>2 DEF vars, cacheVars, sessionVars, IndInv, CachedIsFromTheCatalog,
              ListIsFromTheCatalog, ParametersAreFromTheCatalog, TablesAt, ParametersAt, Now
<1> QED
  BY <1>1, <1>2

THEOREM DashboardInvariant == Spec => []IndInv
BY IndInvInit, IndInvStep, PTL DEF Spec

\* The shared caches are not to blame: a cached list or label is what the
\* catalog held at the instant it was read, of the table it is cached for and
\* never from the future, although sessions share and overwrite the values and
\* a failed call is stored as well (get_catalog_tables, get_table_metadata).
THEOREM CachesAreSound == Spec => []CachedIsFromTheCatalog
<1>1. IndInv => CachedIsFromTheCatalog
  BY DEF IndInv
<1> QED
  BY <1>1, DashboardInvariant, PTL

\* No page ever shows a label: whatever the agent wrote and however fresh the
\* cache is, the status is UNKNOWN (app.py: metadata.get("compliance_status")).
THEOREM EveryStatusIsUnknown == Spec => []NoLabelIsShown
<1>1. IndInv => NoLabelIsShown
  BY DEF IndInv, NoLabelIsShown
<1> QED
  BY <1>1, DashboardInvariant, PTL
=============================================================================
