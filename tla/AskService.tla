----------------------------- MODULE AskService -----------------------------
(***************************************************************************)
(* What the query API promises to those who ask, and nothing of nodes,     *)
(* channels, threads and health checks: requests are served one after the  *)
(* other; the model proposes at most one query for each; only an           *)
(* acceptable one is executed, and at most once; success is answered only  *)
(* if the proposed query was executed or there was none to execute; and    *)
(* whatever goes wrong loses open requests, never an answer.               *)
(***************************************************************************)
CONSTANTS Requests,
          NoRequest,
          Queries,      \* what the model may propose; "" for no query
          Acceptable    \* those that may be executed

VARIABLES outcome,      \* what became of each request
          proposed,     \* the query the model proposed for it
          executed,     \* the query that was executed for it
          serving       \* the request being served

vars == <<outcome, proposed, executed, serving>>

Init == /\ outcome = [r \in Requests |-> "none"]
        /\ proposed = [r \in Requests |-> "None"]
        /\ executed = [r \in Requests |-> "None"]
        /\ serving = NoRequest

Becomes(r, o) == outcome' = [outcome EXCEPT ![r] = o]

Ask(r) == /\ outcome[r] = "none"
          /\ Becomes(r, "open")
          /\ UNCHANGED <<proposed, executed, serving>>

\* Nothing was done for a request that is refused.
Refuse(r) == /\ outcome[r] = "open"
             /\ serving # r
             /\ proposed[r] = "None"
             /\ Becomes(r, "refused")
             /\ UNCHANGED <<proposed, executed, serving>>

Serve(r) == /\ outcome[r] = "open"
            /\ serving = NoRequest
            /\ serving' = r
            /\ UNCHANGED <<outcome, proposed, executed>>

Propose(r, q) == /\ serving = r
                 /\ proposed[r] = "None"
                 /\ proposed' = [proposed EXCEPT ![r] = q]
                 /\ UNCHANGED <<outcome, executed, serving>>

Execute(r) == /\ serving = r
              /\ proposed[r] \in Acceptable
              /\ executed[r] = "None"
              /\ executed' = [executed EXCEPT ![r] = proposed[r]]
              /\ UNCHANGED <<outcome, proposed, serving>>

\* What was proposed has been executed, or was no query.
Done(r) == proposed[r] # "None" /\ proposed[r] \in {"", executed[r]}

Ends(r, o) == /\ serving = r
              /\ Becomes(r, o)
              /\ serving' = NoRequest
              /\ UNCHANGED <<proposed, executed>>

Answer(r) == Ends(r, "failure") \/ (Done(r) /\ Ends(r, "success"))

Crash(r) == Ends(r, "crashed")

\* The service starts anew.
Restart ==
    /\ outcome' = [r \in Requests |-> IF outcome[r] = "open" THEN "lost" ELSE outcome[r]]
    /\ serving' = NoRequest
    /\ UNCHANGED <<proposed, executed>>

Next == \/ \E r \in Requests : \/ Ask(r) \/ Refuse(r) \/ Serve(r)
                               \/ \E q \in Queries : Propose(r, q)
                               \/ Execute(r) \/ Answer(r) \/ Crash(r)
        \/ Restart

Spec == Init /\ [][Next]_vars
=============================================================================
