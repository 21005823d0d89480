----------------------------- MODULE UpsertStore -----------------------------
(***************************************************************************)
(* What ingestion promises of the table's keys, and nothing of jobs,       *)
(* versions and retries: the value of each key is that of the source that  *)
(* was written last; a source is written as a whole and at once, by a      *)
(* writer that may have to write it again until it is acknowledged, and    *)
(* nothing is acknowledged that was not written.  Only a writer that has   *)
(* found no store makes one, and drops what is there by then.              *)
(***************************************************************************)
CONSTANTS Writers,
          Sources,
          Keys,
          Contains,    \* the keys of each source
          NoSource

VARIABLES source,        \* what each writer has to write
          exists,        \* the store was made
          latest,        \* the source each key has its value from
          first,         \* the writers that have found no store
          written,       \* the writers that know their source is in the store
          acknowledged   \* the writers that are done

vars == <<source, exists, latest, first, written, acknowledged>>

Init == /\ source = [w \in Writers |-> NoSource]
        /\ exists = FALSE
        /\ latest = [k \in Keys |-> NoSource]
        /\ first = {}
        /\ written = {}
        /\ acknowledged = {}

\* A writer gets its source.
Announce(w, s) == /\ source[w] = NoSource
                  /\ source' = [source EXCEPT ![w] = s]
                  /\ UNCHANGED <<exists, latest, first, written, acknowledged>>

\* A writer finds that there is no store.
FindNone(w) == /\ ~exists
               /\ first' = first \cup {w}
               /\ UNCHANGED <<source, exists, latest, written, acknowledged>>

\* The writer's source becomes the value of its keys, and of no others.
Writes(w, others) ==
    /\ source[w] # NoSource
    /\ w \notin acknowledged
    /\ latest' = [k \in Keys |-> IF k \in Contains[source[w]] THEN source[w] ELSE others[k]]
    /\ written' = written \cup {w}
    /\ UNCHANGED <<source, acknowledged>>

Upsert(w) == Writes(w, latest) /\ UNCHANGED <<exists, first>>

Make(w) == /\ w \in first
           /\ Writes(w, [k \in Keys |-> NoSource])
           /\ exists' = TRUE
           /\ first' = first \ {w}

\* The writer loses what it knows, perhaps that it has written, and starts over.
Forget(w) == /\ w \notin acknowledged
             /\ first' = first \ {w}
             /\ written' = written \ {w}
             /\ UNCHANGED <<source, exists, latest, acknowledged>>

Acknowledge(w) == /\ w \in written
                  /\ acknowledged' = acknowledged \cup {w}
                  /\ UNCHANGED <<source, exists, latest, first, written>>

Next == \E w \in Writers : \/ \E s \in Sources : Announce(w, s)
                           \/ FindNone(w) \/ Upsert(w) \/ Make(w)
                           \/ Forget(w) \/ Acknowledge(w)

Spec == Init /\ [][Next]_vars
=============================================================================
