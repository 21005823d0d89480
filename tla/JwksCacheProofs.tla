-------------------------- MODULE JwksCacheProofs --------------------------
(***************************************************************************)
(* Proofs about JwksCache: the age of the key set a token is judged by is  *)
(* bounded, for any number of threads and keys and any time to live, and   *)
(* although nothing orders the threads' accesses to the cache.             *)
(***************************************************************************)
EXTENDS JwksCache, TLAPS

\* A call of a thread is not disturbed when another one stores the key set its
\* fetch brought: that set was published during a call that still goes on, so
\* it is at most CallTime old (StoreJwks).
LEMMA StoreKeepsCalls ==
    ASSUME NEW t \in Threads, NEW u \in Threads, u # t,
           IndInv, StoreJwks(t)
    PROVE  CallInv(u)'
  <1>1. pc'[u] = pc[u]
    BY DEF StoreJwks, Goto, IndInv, TypeOK
  <1>2. /\ jwks' = response[t] /\ jwks' \in Nat /\ jwks' > 0
        /\ Now <= jwks' + CallTime /\ Now \in Nat /\ CallTime \in Nat /\ TTL \in Nat
    BY TimeAssumption DEF StoreJwks, IndInv, TypeOK, CallInv, InCall, Now
  <1>3. /\ now[u] \in Nat /\ Now' = Now /\ now' = now /\ response' = response
        /\ fellBack' = fellBack /\ CallInv(u)
    BY DEF StoreJwks, IndInv, TypeOK, Now
  <1> QED BY <1>1, <1>2, <1>3 DEF CallInv, InCall

\* The initial states satisfy the invariant.
LEMMA IndInvInit == Init => IndInv
  <1> SUFFICES ASSUME Init PROVE IndInv OBVIOUS
  <1>1. PICK ks \in KeySets : history = <<ks>>
    BY DEF Init
  <1>2. history \in Seq(KeySets) /\ Len(history) = 1
    BY <1>1
  <1> QED BY <1>2 DEF Init, IndInv, TypeOK, CallInv, InCall, Now

\* Time does not go on while a call has used up CallTime (Tick).
LEMMA TickStep == IndInv /\ Tick => IndInv'
  <1> SUFFICES ASSUME IndInv, Tick PROVE IndInv' OBVIOUS
  <1>1. PICK ks \in KeySets : history' = Append(history, ks)
    BY DEF Tick
  <1>2. history' \in Seq(KeySets) /\ Now' = Now + 1 /\ Now \in Nat
    BY <1>1 DEF IndInv, TypeOK, Now
  <1>3. TypeOK'
    BY <1>2 DEF Tick, IndInv, TypeOK, threadVars
  <1>4. ASSUME NEW t \in Threads PROVE CallInv(t)'
    BY <1>2, TimeAssumption DEF Tick, IndInv, TypeOK, CallInv, InCall, threadVars
  <1> QED BY <1>2, <1>3, <1>4, TimeAssumption DEF Tick, IndInv, TypeOK, threadVars

\* Every step of a thread keeps the invariant.
LEMMA ThreadStep == ASSUME NEW t \in Threads, IndInv, Step(t) PROVE IndInv'
  <1>0. /\ TimeAssumption /\ TypeOK /\ CallInv(t)
        /\ \A u \in Threads : CallInv(u)
    BY TimeAssumption DEF IndInv
  <1>1. CASE ValidateToken(t)
    <2>1. PICK k \in Keys \cup {NoKid} :
             /\ kid' = [kid EXCEPT ![t] = k]
             /\ Goto(t, IF ~configured THEN "accepted" ELSE IF k = NoKid THEN "invalid" ELSE "check")
      BY <1>1 DEF ValidateToken
    <2>2. TypeOK' /\ Now' = Now
      BY <1>0, <1>1, <2>1 DEF ValidateToken, Goto, TypeOK, InCall, Ended, Now
    <2>3. ASSUME NEW u \in Threads PROVE CallInv(u)'
      BY <1>0, <1>1, <2>1, <2>2 DEF ValidateToken, Goto, TypeOK, CallInv, InCall, IndInv, Now, TimeAssumption
    <2> QED BY <1>1, <2>2, <2>3 DEF ValidateToken, IndInv
  <1>2. CASE CheckCache(t)
    <2>1. TypeOK' /\ Now' = Now
      BY <1>0, <1>2 DEF CheckCache, Goto, TypeOK, InCall, Now
    <2>2. ASSUME NEW u \in Threads PROVE CallInv(u)'
      BY <1>0, <1>2, <2>1 DEF CheckCache, NeedsFetch, Goto, TypeOK, CallInv, InCall, IndInv, TimeAssumption
    <2> QED BY <1>2, <2>1, <2>2 DEF CheckCache, IndInv
  <1>3. CASE FetchSucceeds(t)
    <2>1. TypeOK' /\ Now' = Now
      BY <1>0, <1>3 DEF FetchSucceeds, Goto, TypeOK, InCall, Now
    <2>2. ASSUME NEW u \in Threads PROVE CallInv(u)'
      BY <1>0, <1>3, <2>1 DEF FetchSucceeds, Goto, TypeOK, CallInv, InCall, IndInv, Now, TimeAssumption
    <2> QED BY <1>3, <2>1, <2>2 DEF FetchSucceeds, IndInv
  <1>4. CASE FetchFails(t)
    <2>1. TypeOK' /\ Now' = Now
      BY <1>0, <1>4 DEF FetchFails, Goto, TypeOK, InCall, Ended, Now
    <2>2. ASSUME NEW u \in Threads PROVE CallInv(u)'
      <3>1. CASE u = t
        <4>1. pc'[t] \in {"lookup", "500"} /\ (pc'[t] = "lookup" => jwks # 0)
          BY <1>0, <1>4 DEF FetchFails, Goto, TypeOK
        <4>2. fellBack'[t] = (jwks # 0)
          BY <1>0, <1>4 DEF FetchFails, TypeOK
        <4>3. jwks' = jwks /\ now' = now /\ jwks \in Nat /\ now[t] \in Nat
          BY <1>0, <1>4 DEF FetchFails, TypeOK
        <4>4. now[t] >= 1 /\ now[t] <= Now /\ Now - now[t] <= CallTime
          BY <1>0, <1>4 DEF FetchFails, CallInv, InCall
        <4>5. pc'[t] = "lookup" => jwks' > 0
          BY <4>1, <4>3
        <4>6. pc'[t] = "lookup" => fellBack'[t]
          BY <4>1, <4>2
        <4>7. pc'[t] # "store" /\ pc'[t] # "stamp"
          BY <4>1
        <4>8. now'[t] >= 1 /\ now'[t] <= Now' /\ Now' - now'[t] <= CallTime
          BY <2>1, <4>3, <4>4
        <4> QED BY <3>1, <4>5, <4>6, <4>7, <4>8 DEF CallInv
      <3>2. CASE u # t
        <4>1. pc'[u] = pc[u] /\ fellBack'[u] = fellBack[u]
          BY <1>0, <1>4, <3>2 DEF FetchFails, Goto, TypeOK
        <4> QED BY <1>0, <1>4, <2>1, <4>1 DEF FetchFails, CallInv
      <3> QED BY <3>1, <3>2
    <2> QED BY <1>4, <2>1, <2>2 DEF FetchFails, IndInv
  <1>5. CASE StoreJwks(t)
    <2>1. TypeOK' /\ Now' = Now
      BY <1>0, <1>5 DEF StoreJwks, Goto, TypeOK, InCall, Now
    <2>2. /\ jwks' > 0 /\ jwks' <= Now /\ Now <= jwks' + CallTime
          /\ jwks' \in Nat /\ Now \in Nat /\ now[t] \in Nat /\ now[t] <= Now
      BY <1>0, <1>5 DEF StoreJwks, TypeOK, CallInv, InCall, Now, TimeAssumption
    <2>3. CallInv(t)'
      BY <1>0, <1>5, <2>1, <2>2 DEF StoreJwks, Goto, TypeOK, CallInv, InCall, TimeAssumption
    <2>4. ASSUME NEW u \in Threads PROVE CallInv(u)'
      BY <1>5, <2>3, StoreKeepsCalls
    <2> QED BY <1>0, <1>5, <2>1, <2>2, <2>4 DEF StoreJwks, IndInv, TypeOK, TimeAssumption
  <1>6. CASE StampFetch(t)
    <2>1. TypeOK' /\ Now' = Now
      BY <1>0, <1>6 DEF StampFetch, Goto, TypeOK, InCall, Now
    <2>2. ASSUME NEW u \in Threads PROVE CallInv(u)'
      BY <1>0, <1>6, <2>1 DEF StampFetch, Goto, TypeOK, CallInv, InCall, IndInv, TimeAssumption
    <2> QED BY <1>0, <1>6, <2>1, <2>2 DEF StampFetch, IndInv, CallInv, InCall
  <1>7. CASE LookupKey(t)
    <2>1. PICK q \in Ended : pc' = [pc EXCEPT ![t] = q]
      BY <1>7 DEF LookupKey, Goto, Ended
    <2>2. TypeOK' /\ Now' = Now
      BY <1>0, <1>7, <2>1 DEF LookupKey, TypeOK, Now
    <2>3. ASSUME NEW u \in Threads PROVE CallInv(u)'
      BY <1>0, <1>7, <2>1, <2>2 DEF LookupKey, TypeOK, CallInv, InCall, Ended
    <2> QED BY <1>7, <2>2, <2>3 DEF LookupKey, IndInv
  <1>8. CASE Respond(t)
    <2>1. TypeOK' /\ Now' = Now
      BY <1>0, <1>8 DEF Respond, Goto, TypeOK, Now
    <2>2. ASSUME NEW u \in Threads PROVE CallInv(u)'
      BY <1>0, <1>8, <2>1 DEF Respond, Goto, TypeOK, CallInv, InCall
    <2> QED BY <1>8, <2>1, <2>2 DEF Respond, IndInv
  <1> QED BY <1>1, <1>2, <1>3, <1>4, <1>5, <1>6, <1>7, <1>8 DEF Step

LEMMA IndInvStep == IndInv /\ [Next]_vars => IndInv'
  <1> SUFFICES ASSUME IndInv, [Next]_vars PROVE IndInv' OBVIOUS
  <1>1. CASE Tick BY <1>1, TickStep
  <1>2. CASE \E t \in Threads : Step(t) BY <1>2, ThreadStep
  <1>3. CASE UNCHANGED vars
    BY <1>3 DEF vars, threadVars, IndInv, TypeOK, CallInv, InCall, Now
  <1> QED BY <1>1, <1>2, <1>3 DEF Next

\* The inductive invariant: the time stamp of the cached key set is at most
\* one call later than its publication, whichever threads wrote the two
\* (auth.py, the assignments of _get_jwks).
THEOREM CacheInvariant == Spec => []IndInv
  <1> QED BY IndInvInit, IndInvStep, PTL DEF Spec

\* A token is judged by a key set of the window, unless the call's fetch failed.
LEMMA JudgedInWindow ==
    ASSUME NEW t \in Threads, IndInv, pc[t] = "lookup", ~fellBack[t]
    PROVE  jwks \in Window
  BY TimeAssumption DEF IndInv, TypeOK, CallInv, InCall, Window, Bound, Now

\* Only LookupKey judges, by the key set cached at that moment.
LEMMA JudgedByCachedSet ==
    ASSUME NEW t \in Threads, NEW verdict \in {"accepted", "unknown_key"},
           IndInv, [Next]_vars, Judges(t, verdict)
    PROVE  (kid[t] \in history[jwks]) <=> (verdict = "accepted")
  <1>1. pc[t] = "lookup" /\ pc'[t] = verdict /\ pc'[t] # pc[t]
    BY DEF Judges
  <1>2. pc \in [Threads -> {"idle"} \cup InCall \cup Ended]
    BY DEF IndInv, TypeOK
  <1>3. CASE Tick
    BY <1>1, <1>3 DEF Tick, threadVars
  <1>4. ASSUME NEW u \in Threads, Step(u) PROVE u = t /\ LookupKey(t)
    BY <1>1, <1>2, <1>4 DEF Step, ValidateToken, CheckCache, FetchSucceeds, FetchFails,
         StoreJwks, StampFetch, LookupKey, Respond, Goto, Ended
  <1>5. CASE LookupKey(t)
    BY <1>1, <1>2, <1>5 DEF LookupKey, Goto
  <1>6. CASE UNCHANGED vars
    BY <1>1, <1>6 DEF vars, threadVars
  <1> QED BY <1>3, <1>4, <1>5, <1>6 DEF Next

\* No request is let in with a key withdrawn longer ago than Bound, unless the
\* fetch of that very call failed (validate_token, _get_jwks).
THEOREM WithdrawnKeysDoExpire == Spec => WithdrawnKeysExpire
  <1>1. IndInv /\ [Next]_vars => (\A t \in Threads : Judges(t, "accepted") =>
           \E n \in Window : kid[t] \in history[n])
    BY JudgedInWindow, JudgedByCachedSet DEF Judges
  <1> QED BY <1>1, CacheInvariant, PTL DEF Spec, WithdrawnKeysExpire

\* No token is refused as unknown whose key has been published for longer than
\* Bound, unless the fetch of that very call failed.
THEOREM PublishedKeysBecomeKnown == Spec => PublishedKeysAreKnown
  <1>1. IndInv /\ [Next]_vars => (\A t \in Threads : Judges(t, "unknown_key") =>
           \E n \in Window : kid[t] \notin history[n])
    BY JudgedInWindow, JudgedByCachedSet DEF Judges
  <1> QED BY <1>1, CacheInvariant, PTL DEF Spec, PublishedKeysAreKnown

\* However unfairly the threads are scheduled between the two assignments, each
\* of them takes the set, or the stamp, back by the time of one call at most, and
\* a set once there stays there (_get_jwks).
THEOREM CacheMovesForward == Spec => CacheGoesForward
  <1> DEFINE Forward == /\ jwks' >= jwks - CallTime
                        /\ lastFetch' >= lastFetch - CallTime
                        /\ jwks > 0 => jwks' > 0
  <1>1. IndInv /\ [Next]_vars => Forward
    <2> SUFFICES ASSUME IndInv, [Next]_vars PROVE Forward OBVIOUS
    <2>1. /\ jwks \in Nat /\ lastFetch \in Nat /\ CallTime \in Nat /\ Now \in Nat
          /\ jwks <= Now /\ lastFetch <= Now
      BY TimeAssumption DEF IndInv, TypeOK, Now
    <2>2. CASE UNCHANGED <<jwks, lastFetch>>
      BY <2>1, <2>2
    <2>3. ASSUME NEW t \in Threads, StoreJwks(t) PROVE Forward
      <3>1. /\ now[t] \in Nat /\ response[t] \in Nat /\ now[t] >= 1
            /\ Now - now[t] <= CallTime /\ now[t] <= response[t]
        BY <2>3 DEF StoreJwks, IndInv, TypeOK, CallInv, InCall
      <3> QED BY <2>1, <2>3, <3>1 DEF StoreJwks
    <2>4. ASSUME NEW t \in Threads, StampFetch(t) PROVE Forward
      <3>1. now[t] \in Nat /\ Now - now[t] <= CallTime
        BY <2>4 DEF StampFetch, IndInv, TypeOK, CallInv, InCall
      <3> QED BY <2>1, <2>4, <3>1 DEF StampFetch
    <2>5. ASSUME NEW t \in Threads,
                 \/ ValidateToken(t) \/ CheckCache(t) \/ FetchSucceeds(t) \/ FetchFails(t)
                 \/ LookupKey(t) \/ Respond(t)
          PROVE  UNCHANGED <<jwks, lastFetch>>
      BY <2>5 DEF ValidateToken, CheckCache, FetchSucceeds, FetchFails, LookupKey, Respond
    <2>6. Tick \/ UNCHANGED vars => UNCHANGED <<jwks, lastFetch>>
      BY DEF Tick, vars
    <2> QED BY <2>2, <2>3, <2>4, <2>5, <2>6 DEF Next, Step
  <1> QED BY <1>1, CacheInvariant, PTL DEF Spec, CacheGoesForward
=============================================================================
