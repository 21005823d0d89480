----------------------------- MODULE Dashboard -----------------------------
(***************************************************************************)
(* The data discovery dashboard (src/dashboard/app.py): a Streamlit script *)
(* that every session reruns on every interaction, on three functions      *)
(* whose results all sessions share for a time to live.  The catalog it    *)
(* reads is written by the pipeline, which creates tables, and by the DQ   *)
(* agent, which labels them.                                               *)
(*                                                                         *)
(* Abstractions: an instant is a minute; the catalog has one state in each *)
(* instant; a table's Parameters are its label, rows are the instant they  *)
(* were read.  A call of a cached function is one step: Streamlit computes *)
(* a missing value in one session while the others wait.                   *)
(***************************************************************************)
EXTENDS Naturals, Sequences

CONSTANTS Sessions, Tables,
          CatalogTTL,   \* of get_catalog_tables and get_table_metadata: 5 minutes
          QueryTTL,     \* of execute_athena_query: 1 minute
          Missing,      \* no value cached, nothing selected
          MaxTime       \* bound: instants explored

VARIABLES
    history,      \* the catalog at each instant so far
    tables,       \* the cached result of get_catalog_tables
    metadata,     \* of get_table_metadata, for each table
    preview,      \* of execute_athena_query, for the query on each table
    pc,           \* where each session's run of the script is
    selected,     \* the table it shows
    compliance,   \* the status it shows
    failed        \* history variable: the status comes from a failed call

cacheVars == <<tables, metadata, preview>>
sessionVars == <<pc, selected, compliance, failed>>
vars == <<history, cacheVars, sessionVars>>

Statuses == {"COMPLIANT", "NON_COMPLIANT"}

\* A table is not there, has no label yet, or the agent's last one.
Entries == {"absent", "unlabelled"} \cup Statuses
Catalog == [Tables -> Entries]
Now == Len(history)

\* The Parameters of a table as the agent's enrich_table_metadata writes them.
Parameters(entry) ==
    [key \in IF entry \in Statuses THEN {"governance_compliance_status"} ELSE {} |-> entry]

\* A cached value carries the instant it was stored and whether its call failed.
Value(v, ok) == [at |-> Now, value |-> v, ok |-> ok]
NoValue == [at |-> 0, value |-> Missing, ok |-> TRUE]
Valid(cached, ttl) == cached.at # 0 /\ Now - cached.at < ttl

Init ==
    /\ history = << [t \in Tables |-> "absent"] >>
    /\ tables = NoValue
    /\ metadata = [t \in Tables |-> NoValue]
    /\ preview = [t \in Tables |-> NoValue]
    /\ pc = [s \in Sessions |-> "done"]
    /\ selected = [s \in Sessions |-> Missing]
    /\ compliance = [s \in Sessions |-> "none"]
    /\ failed = [s \in Sessions |-> FALSE]

\* Time passes, in which the pipeline creates tables and the agent labels them.
Tick ==
    /\ Now < MaxTime
    /\ \E c \in Catalog :
         /\ \A t \in Tables : history[Now][t] # "absent" => c[t] # "absent"
         /\ history' = Append(history, c)
    /\ UNCHANGED <<cacheVars, sessionVars>>

Goto(s, where) == pc' = [pc EXCEPT ![s] = where]

\* A call of a cached function: the valid value is returned, or the call is made,
\* and its result stored even if AWS refused it.
Cached(cached, ttl, result, failure) ==
    IF Valid(cached, ttl) THEN {cached} ELSE {Value(result, TRUE), Value(failure, FALSE)}

\* The three functions: the result, and what they return for a ClientError
\* (execute_athena_query for any exception).
get_catalog_tables ==
    Cached(tables, CatalogTTL, {t \in Tables : history[Now][t] # "absent"}, {})
get_table_metadata(t) ==
    Cached(metadata[t], CatalogTTL, Parameters(history[Now][t]), <<>>)
execute_athena_query(t) ==
    Cached(preview[t], QueryTTL, Now, Missing)

\* An interaction reruns the script from its first line.
Rerun(s) ==
    /\ pc[s] = "done"
    /\ Goto(s, "tables")
    /\ selected' = [selected EXCEPT ![s] = Missing]
    /\ compliance' = [compliance EXCEPT ![s] = "none"]
    /\ failed' = [failed EXCEPT ![s] = FALSE]
    /\ UNCHANGED <<history, cacheVars>>

\* The selectbox; without tables the page ends here.
SelectTable(s) ==
    /\ pc[s] = "tables"
    /\ \E v \in get_catalog_tables :
         /\ tables' = v
         /\ IF v.value = {}
            THEN Goto(s, "done") /\ UNCHANGED selected
            ELSE /\ Goto(s, "status")
                 /\ \E t \in v.value : selected' = [selected EXCEPT ![s] = t]
    /\ UNCHANGED <<history, metadata, preview, compliance, failed>>

\* metadata.get("compliance_status", "UNKNOWN")
ComplianceOf(params) ==
    IF "compliance_status" \in DOMAIN params THEN params["compliance_status"] ELSE "UNKNOWN"

\* The status shown for the table.
ShowStatus(s) ==
    LET t == selected[s] IN
    /\ pc[s] = "status"
    /\ \E v \in get_table_metadata(t) :
         /\ metadata' = [metadata EXCEPT ![t] = v]
         /\ compliance' = [compliance EXCEPT ![s] = ComplianceOf(v.value)]
         /\ failed' = [failed EXCEPT ![s] = ~v.ok]
    /\ Goto(s, "preview")
    /\ UNCHANGED <<history, tables, preview, selected>>

\* The rows, of the preview or of a query the user runs.
ShowRows(s) ==
    LET t == selected[s] IN
    /\ pc[s] = "preview"
    /\ \E v \in execute_athena_query(t) : preview' = [preview EXCEPT ![t] = v]
    /\ Goto(s, "done")
    /\ UNCHANGED <<history, tables, metadata, selected, compliance, failed>>

\* Any other exception ends the page and is not cached.
PageRaises(s) ==
    /\ pc[s] \in {"tables", "status", "preview"}
    /\ Goto(s, "done")
    /\ UNCHANGED <<history, cacheVars, selected, compliance, failed>>

Next ==
    \/ Tick
    \/ \E s \in Sessions : \/ Rerun(s) \/ SelectTable(s) \/ ShowStatus(s)
                           \/ ShowRows(s) \/ PageRaises(s)

Spec == Init /\ [][Next]_vars

\* The status a page shows is the agent's: when it is put on the page it is
\* the label the table had at some instant of the time to live, UNKNOWN only if
\* it had none then or the catalog could not be read (app.py: "Look for the
\* metadata injected by your Phase 3 Agent").
ShowsTheAgentsLabel ==
    [][\A s \in Sessions : pc[s] = "status" /\ pc'[s] = "preview" /\ ~failed'[s] =>
          \E i \in 1 .. Now : /\ Now - i < CatalogTTL
                              /\ compliance'[s] = IF history[i][selected[s]] \in Statuses
                                                  THEN history[i][selected[s]]
                                                  ELSE "UNKNOWN"]_vars
=============================================================================
