----------------------------- MODULE JwksCache -----------------------------
(***************************************************************************)
(* Token validation of the query API (src/api/utils/auth.py): one          *)
(* validator object, shared by the threads in which FastAPI runs the       *)
(* dependency get_current_user, caches the key set of the Cognito user     *)
(* pool.  Keys rotate at the issuer; threads check, fetch and assign the   *)
(* cache without a lock.                                                   *)
(*                                                                         *)
(* Abstractions: a token is the key id it names, its signature and claims  *)
(* are in order or not; time is counted in instants, and the issuer has    *)
(* one key set in each of them.                                            *)
(***************************************************************************)
EXTENDS Integers, Sequences

CONSTANTS Threads,    \* of the pool in which FastAPI runs get_current_user
          Keys,       \* key ids the issuer may publish
          NoKid,      \* what a malformed token names
          TTL,        \* jwks_ttl
          CallTime,   \* no call of validate_token takes longer
          MaxTime     \* bound: instants explored

ASSUME TimeAssumption == TTL \in Nat /\ CallTime \in Nat /\ MaxTime \in Nat
ASSUME NoKidAssumption == NoKid \notin Keys

VARIABLES
    history,     \* the key set the issuer published at each instant so far
    configured,  \* COGNITO_USER_POOL_ID is set
    jwks,        \* _jwks, as the instant its set was published; 0 for None
    lastFetch,   \* _last_jwks_fetch; 0.0, the year 1970, before any fetch
    pc,          \* where each thread is in the validation of a token
    kid,         \* the key id of the token it validates
    now,         \* current_time of each call of _get_jwks
    response,    \* the key set a fetch brought, as the instant of its publication
    fellBack     \* the call goes on with the cached set because its fetch failed

threadVars == <<pc, kid, now, response, fellBack>>
vars == <<history, configured, jwks, lastFetch, threadVars>>

InCall == {"check", "fetch", "store", "stamp", "lookup"}
Ended  == {"accepted", "unknown_key", "invalid", "500"}
KeySets == SUBSET Keys \ {{}}
Now == Len(history)

TypeOK ==
    /\ history \in Seq(KeySets)
    /\ configured \in BOOLEAN
    /\ jwks \in Nat /\ lastFetch \in Nat
    /\ pc \in [Threads -> {"idle"} \cup InCall \cup Ended]
    /\ kid \in [Threads -> Keys \cup {NoKid}]
    /\ now \in [Threads -> Nat]
    /\ response \in [Threads -> Nat]
    /\ fellBack \in [Threads -> BOOLEAN]

\* CognitoJWTValidator(), when the API process starts.
Init ==
    /\ \E ks \in KeySets : history = <<ks>>
    /\ configured \in BOOLEAN
    /\ jwks = 0
    /\ lastFetch = 0
    /\ pc = [t \in Threads |-> "idle"]
    /\ kid = [t \in Threads |-> NoKid]
    /\ now = [t \in Threads |-> 0]
    /\ response = [t \in Threads |-> 0]
    /\ fellBack = [t \in Threads |-> FALSE]

Goto(t, where) == pc' = [pc EXCEPT ![t] = where]

-----------------------------------------------------------------------------
\* Time passes, no call longer than CallTime, and the issuer may rotate keys.
Tick ==
    /\ Now < MaxTime
    /\ \A t \in Threads : pc[t] \in InCall => Now - now[t] < CallTime
    /\ \E ks \in KeySets : history' = Append(history, ks)
    /\ UNCHANGED <<configured, jwks, lastFetch, threadVars>>

\* validate_token, up to the first line of _get_jwks.  Without a user pool any
\* token passes; a header that cannot be read is an InvalidTokenError.
ValidateToken(t) ==
    /\ pc[t] = "idle"
    /\ \E k \in Keys \cup {NoKid} :
         /\ kid' = [kid EXCEPT ![t] = k]
         /\ Goto(t, IF ~configured THEN "accepted" ELSE IF k = NoKid THEN "invalid" ELSE "check")
    /\ now' = [now EXCEPT ![t] = Now]
    /\ UNCHANGED <<history, configured, jwks, lastFetch, response, fellBack>>

\* Mutant of NeedsFetch: what is cached is never too old.
NeedsFetchOnce(t) == jwks = 0

\* The cached set is missing, or older than the time to live.
NeedsFetch(t) == jwks = 0 \/ lastFetch = 0 \/ now[t] - lastFetch > TTL

CheckCache(t) ==
    /\ pc[t] = "check"
    /\ Goto(t, IF NeedsFetch(t) THEN "fetch" ELSE "lookup")
    /\ UNCHANGED <<history, configured, jwks, lastFetch, kid, now, response, fellBack>>

\* requests.get: the issuer answers with the key set of this instant.
FetchSucceeds(t) ==
    /\ pc[t] = "fetch"
    /\ response' = [response EXCEPT ![t] = Now]
    /\ Goto(t, "store")
    /\ UNCHANGED <<history, configured, jwks, lastFetch, kid, now, fellBack>>

\* Mutant of FetchFails: a failed fetch renews the cached set.
FetchFailsRenewing(t) ==
    /\ pc[t] = "fetch"
    /\ Goto(t, IF jwks # 0 THEN "lookup" ELSE "500")
    /\ fellBack' = [fellBack EXCEPT ![t] = jwks # 0]
    /\ lastFetch' = now[t]
    /\ UNCHANGED <<history, configured, jwks, kid, now, response>>

\* Mutant of FetchFails: what is cached is dropped when its renewal fails.
FetchFailsForgetting(t) ==
    /\ pc[t] = "fetch"
    /\ Goto(t, "500")
    /\ jwks' = 0
    /\ UNCHANGED <<history, configured, lastFetch, kid, now, response, fellBack>>

\* It does not, or with an error: fall back to what is cached, however old,
\* and try again with the next request.
FetchFails(t) ==
    /\ pc[t] = "fetch"
    /\ Goto(t, IF jwks # 0 THEN "lookup" ELSE "500")
    /\ fellBack' = [fellBack EXCEPT ![t] = jwks # 0]
    /\ UNCHANGED <<history, configured, jwks, lastFetch, kid, now, response>>

\* Two assignments, between which other threads run.
StoreJwks(t) ==
    /\ pc[t] = "store"
    /\ jwks' = response[t]
    /\ Goto(t, "stamp")
    /\ UNCHANGED <<history, configured, lastFetch, kid, now, response, fellBack>>

StampFetch(t) ==
    /\ pc[t] = "stamp"
    /\ lastFetch' = now[t]
    /\ Goto(t, "lookup")
    /\ UNCHANGED <<history, configured, jwks, kid, now, response, fellBack>>

\* _get_jwks returns what self._jwks is by now.  An unknown key id is refused
\* with 401 and triggers no fetch; so are a bad signature and bad claims.
LookupKey(t) ==
    /\ pc[t] = "lookup"
    /\ IF kid[t] \in history[jwks]
       THEN Goto(t, "accepted") \/ Goto(t, "invalid")
       ELSE Goto(t, "unknown_key")
    /\ UNCHANGED <<history, configured, jwks, lastFetch, kid, now, response, fellBack>>

\* get_current_user returns or raises; the thread is free for another request.
Respond(t) ==
    /\ pc[t] \in Ended
    /\ Goto(t, "idle")
    /\ kid' = [kid EXCEPT ![t] = NoKid]
    /\ now' = [now EXCEPT ![t] = 0]
    /\ response' = [response EXCEPT ![t] = 0]
    /\ fellBack' = [fellBack EXCEPT ![t] = FALSE]
    /\ UNCHANGED <<history, configured, jwks, lastFetch>>

Step(t) == \/ ValidateToken(t) \/ CheckCache(t) \/ FetchSucceeds(t) \/ FetchFails(t)
           \/ StoreJwks(t) \/ StampFetch(t) \/ LookupKey(t)
           \/ Respond(t)

Next == Tick \/ (\E t \in Threads : Step(t))

Spec == Init /\ [][Next]_vars

-----------------------------------------------------------------------------
(* Properties *)

\* How old a key set may be when a token is judged by it: the time to live,
\* the call that fetched it and the call that uses it.
Bound == TTL + 2 * CallTime

Window == {n \in 1 .. Now : Now - n <= Bound}

\* The judgement of t is made by this step, on a cache it could refresh.
Judges(t, verdict) ==
    pc[t] = "lookup" /\ pc'[t] = verdict /\ ~fellBack[t]

\* Unless its own fetch failed, no request is let in with a key the issuer
\* withdrew longer ago than Bound, however the unlocked check, fetch and two
\* assignments of the threads interleave (_get_jwks).
WithdrawnKeysExpire ==
    [][\A t \in Threads : Judges(t, "accepted") =>
         \E n \in Window : kid[t] \in history[n]]_vars

\* And no token is refused as unknown whose key the issuer has published
\* for longer than Bound, although an unknown key id triggers no fetch.
PublishedKeysAreKnown ==
    [][\A t \in Threads : Judges(t, "unknown_key") =>
         \E n \in Window : kid[t] \notin history[n]]_vars

\* A slow thread may overwrite the set, or the stamp, that a faster one has
\* brought since, but takes the cache back by one call at most; and once there
\* is a set, there is one for ever, so that an issuer out of reach stops no
\* request any more (the two assignments and the fallback of _get_jwks).
CacheGoesForward ==
    [][/\ jwks' >= jwks - CallTime
       /\ lastFetch' >= lastFetch - CallTime
       /\ jwks > 0 => jwks' > 0]_vars

\* Why: the time stamp is never later than the call that published the cached
\* set could explain, whichever thread assigned which of the two.
CallInv(t) ==
    /\ pc[t] \in InCall => now[t] >= 1 /\ now[t] <= Now /\ Now - now[t] <= CallTime
    /\ pc[t] = "store"  => now[t] <= response[t] /\ response[t] <= Now
    /\ pc[t] = "stamp"  => jwks > 0 /\ now[t] <= jwks + CallTime
    /\ pc[t] = "lookup" => jwks > 0 /\ (fellBack[t] \/ now[t] <= jwks + TTL + CallTime)

IndInv ==
    /\ TypeOK
    /\ Now >= 1
    /\ jwks <= Now
    /\ lastFetch <= Now
    /\ lastFetch > 0 => jwks > 0
    /\ jwks > 0 => lastFetch <= jwks + CallTime
    /\ \A t \in Threads : CallInv(t)
=============================================================================
