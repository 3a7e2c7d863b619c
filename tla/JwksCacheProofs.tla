--------------------------- MODULE JwksCacheProofs ---------------------------
(***************************************************************************)
(* Proofs about JwksCache, for any number of concurrent requests, any      *)
(* sequence of key sets and any cooldown.                                  *)
(***************************************************************************)
EXTENDS JwksCache, TLAPS

\* The invariant holds initially.
LEMMA IInvInit == Init => IInv
  <1> SUFFICES ASSUME Init PROVE IInv
    OBVIOUS
  <1>1. TypeOK
    BY JwksAssumption DEF Init, TypeOK, Versions, Stages, Inside
  <1>2. HolderInv /\ MissInv /\ FetchesSpaced
    BY JwksAssumption DEF Init, HolderInv, MissInv, FetchesSpaced, Versions
  <1> QED BY <1>1, <1>2 DEF IInv

\* One request at a time is between Lock and unlock.
LEMMA Mutex ==
  ASSUME TypeOK, NEW r \in Requests, NEW q \in Requests, pc[r] \in Inside, pc[q] \in Inside
  PROVE  q = r
  BY DEF TypeOK

\* A request that returns, or moves between stages, keeps the types and the mutex's owner.
LEMMA ReturnType ==
  ASSUME TypeOK, NEW r \in Requests, NEW x \in {"key", "unknown", "error"}, Return(r, x),
         \/ pc[r] \in Inside /\ fetchMu' = NoReq
         \/ pc[r] \notin Inside /\ fetchMu' = fetchMu,
         cache' \in Versions, UNCHANGED <<now, served, lastFetch, prevFetch>>
  PROVE  TypeOK'
  <1>1. pc' = [pc EXCEPT ![r] = "idle"] /\ pc \in [Requests -> Stages]
    BY DEF Return, Goto, TypeOK
  <1>2. \A q \in Requests : pc'[q] \in Inside <=> fetchMu' = q
    BY <1>1, Mutex, JwksAssumption DEF TypeOK, Inside
  <1>3. answer' = [answer EXCEPT ![r] = x] /\ kid' = [kid EXCEPT ![r] = NoKid] /\ resp' = [resp EXCEPT ![r] = 0]
    BY DEF Return
  <1> QED BY <1>1, <1>2, <1>3, JwksAssumption DEF TypeOK, Stages, Versions

\* Moving to a stage keeps the types of the stages and the mutex.
LEMMA GotoType ==
  ASSUME TypeOK, NEW r \in Requests, NEW e \in Stages, Goto(r, e),
         \/ pc[r] \in Inside /\ e \in Inside /\ fetchMu' = fetchMu
         \/ pc[r] \notin Inside /\ e \notin Inside /\ fetchMu' = fetchMu
         \/ pc[r] \notin Inside /\ e \in Inside /\ fetchMu = NoReq /\ fetchMu' = r
  PROVE  /\ pc' \in [Requests -> Stages]
         /\ fetchMu' \in Requests \union {NoReq}
         /\ \A q \in Requests : pc'[q] \in Inside <=> fetchMu' = q
  <1>1. pc' = [pc EXCEPT ![r] = e] /\ pc \in [Requests -> Stages]
    BY DEF Goto, TypeOK
  <1> QED BY <1>1, JwksAssumption DEF TypeOK

\* Every step keeps the types.
LEMMA TypeStep == IInv /\ [Next]_vars => TypeOK'
  <1> SUFFICES ASSUME IInv, [Next]_vars PROVE TypeOK'
    OBVIOUS
  <1>0. TypeOK
    BY DEF IInv
  <1>1. CASE Tick
    BY <1>0, <1>1, JwksAssumption DEF Tick, TypeOK
  <1>2. CASE Rotate
    BY <1>0, <1>2, JwksAssumption DEF Rotate, TypeOK, Versions
  <1>3. ASSUME NEW r \in Requests, NEW k \in Kids, validate(r, k) PROVE TypeOK'
    <2>1. /\ pc' \in [Requests -> Stages]
          /\ fetchMu' \in Requests \union {NoReq}
          /\ \A q \in Requests : pc'[q] \in Inside <=> fetchMu' = q
      BY <1>0, <1>3, GotoType DEF validate, Stages, Inside
    <2> QED BY <1>0, <1>3, <2>1 DEF validate, TypeOK
  <1>4. ASSUME NEW r \in Requests, getKey(r) PROVE TypeOK'
    <2>1. ASSUME NEW e \in Stages, Goto(r, e), UNCHANGED <<now, served, kid, answer>>,
                 cache' \in Versions, resp' \in [Requests -> Versions],
                 lastFetch' \in -Cooldown..MaxTime, prevFetch' \in (-2 * Cooldown)..MaxTime,
                 \/ pc[r] \in Inside /\ e \in Inside /\ fetchMu' = fetchMu
                 \/ pc[r] \notin Inside /\ e \notin Inside /\ fetchMu' = fetchMu
                 \/ pc[r] \notin Inside /\ e \in Inside /\ fetchMu = NoReq /\ fetchMu' = r
          PROVE  TypeOK'
      <3>1. /\ pc' \in [Requests -> Stages]
            /\ fetchMu' \in Requests \union {NoReq}
            /\ \A q \in Requests : pc'[q] \in Inside <=> fetchMu' = q
        BY <1>0, <2>1, GotoType
      <3> QED BY <1>0, <2>1, <3>1 DEF TypeOK
    <2>0. ASSUME NEW x \in {"key", "unknown", "error"}, Return(r, x), pc[r] \in Inside,
                 fetchMu' = NoReq, UNCHANGED <<now, served, cache, lastFetch, prevFetch>>
          PROVE  TypeOK'
      <3>1. cache' \in Versions
        BY <1>0, <2>0 DEF TypeOK
      <3> QED BY <1>0, <2>0, <3>1, ReturnType
    <2>2. CASE Look(r)
      <3>1. CASE Hit(r)
        <4>1. cache' \in Versions
          BY <1>0, <2>2 DEF Look, TypeOK
        <4> QED BY <1>0, <2>2, <3>1, <4>1, ReturnType DEF Look, Inside
      <3>2. CASE ~Hit(r)
        BY <1>0, <2>1, <2>2, <3>2 DEF Look, Stages, Inside, TypeOK
      <3> QED BY <3>1, <3>2
    <2>3. CASE Lock(r)
      BY <1>0, <2>1, <2>3 DEF Lock, Stages, Inside, TypeOK
    <2>4. CASE LookAgain(r)
      <3>1. CASE Hit(r)
        BY <2>0, <2>4, <3>1 DEF LookAgain, Inside
      <3>2. CASE ~Hit(r)
        BY <1>0, <2>1, <2>4, <3>2 DEF LookAgain, Stages, Inside, TypeOK
      <3> QED BY <3>1, <3>2
    <2>5. CASE Check(r)
      <3>1. CASE now - lastFetch < Cooldown
        BY <2>0, <2>5, <3>1 DEF Check, Inside
      <3>2. CASE ~(now - lastFetch < Cooldown)
        BY <1>0, <2>1, <2>5, <3>2 DEF Check, Stages, Inside, TypeOK
      <3> QED BY <3>1, <3>2
    <2>6. CASE Stamp(r)
      <3>1. lastFetch' \in -Cooldown..MaxTime /\ prevFetch' \in (-2 * Cooldown)..MaxTime
        BY <1>0, <2>6, JwksAssumption DEF Stamp, TypeOK
      <3> QED BY <1>0, <2>1, <2>6, <3>1 DEF Stamp, Stages, Inside, TypeOK
    <2>7. CASE FetchKeys(r)
      BY <1>0, <2>1, <2>7 DEF FetchKeys, Stages, Inside, TypeOK
    <2>8. CASE FetchFails(r)
      BY <2>0, <2>8 DEF FetchFails, Inside
    <2>9. CASE StoreKeys(r)
      BY <1>0, <2>1, <2>9 DEF StoreKeys, Stages, Inside, TypeOK
    <2>10. CASE Final(r)
      <3>1. PICK x \in {"key", "unknown"} : Return(r, x)
        BY <2>10 DEF Final
      <3> QED BY <2>0, <2>10, <3>1 DEF Final, Inside
    <2>11. CASE CloseFails(r)
      <3>1. cache' \in Versions
        BY <1>0, <2>11 DEF CloseFails, TypeOK
      <3> QED BY <1>0, <2>11, <3>1, ReturnType DEF CloseFails, Inside
    <2> QED BY <1>4, <2>2, <2>3, <2>4, <2>5, <2>6, <2>7, <2>8, <2>9, <2>10, <2>11 DEF getKey
  <1>5. CASE UNCHANGED vars
    BY <1>0, <1>5 DEF vars, TypeOK
  <1> QED BY <1>1, <1>2, <1>3, <1>4, <1>5 DEF Next

\* The holder of fetchMu is not disturbed.
LEMMA HolderStep == IInv /\ [Next]_vars => HolderInv'
  <1> SUFFICES ASSUME IInv, [Next]_vars PROVE HolderInv'
    OBVIOUS
  <1> USE JwksAssumption DEF Versions
  <1>0. /\ TypeOK /\ HolderInv
        /\ now \in Int /\ lastFetch \in Int /\ served \in Int /\ cache \in Int /\ Cooldown \in Int
        /\ \A q \in Requests : resp[q] \in Int
    BY DEF IInv, TypeOK
  <1>1. CASE Tick
    BY <1>0, <1>1 DEF Tick, HolderInv
  <1>2. CASE Rotate
    BY <1>0, <1>2 DEF Rotate, HolderInv
  <1>3. ASSUME NEW r \in Requests, NEW k \in Kids, validate(r, k) PROVE HolderInv'
    BY <1>0, <1>3 DEF validate, Goto, HolderInv, TypeOK
  <1>4. ASSUME NEW r \in Requests, getKey(r) PROVE HolderInv'
    <2>0. pc \in [Requests -> Stages] /\ resp \in [Requests -> Versions]
      BY <1>0 DEF TypeOK
    <2>1. ASSUME pc[r] \in Inside, NEW q \in Requests \ {r} PROVE pc[q] \notin Inside
      BY <1>0, <2>1, Mutex
    <2>2. ASSUME NEW e \in Stages \ {"stamp", "store", "final"}, pc' = [pc EXCEPT ![r] = e],
                 \A q \in Requests \ {r} : resp'[q] = resp[q],
                 UNCHANGED <<now, served, cache, lastFetch>>
          PROVE  HolderInv'
      <3>1. \A q \in Requests : pc'[q] \in {"stamp", "store", "final"} => q # r /\ pc'[q] = pc[q]
        BY <2>0, <2>2
      <3> QED BY <1>0, <2>2, <3>1 DEF HolderInv
    <2>3. CASE Look(r)
      BY <2>0, <2>2, <2>3 DEF Look, Return, Goto, Stages
    <2>4. CASE Lock(r)
      BY <2>2, <2>4 DEF Lock, Goto, Stages
    <2>5. CASE LookAgain(r)
      BY <2>0, <2>2, <2>5 DEF LookAgain, Return, Goto, Stages
    <2>6. CASE Check(r)
      <3>1. CASE now - lastFetch < Cooldown
        BY <2>0, <2>2, <2>6, <3>1 DEF Check, Return, Goto, Stages
      <3>2. CASE ~(now - lastFetch < Cooldown)
        BY <1>0, <2>0, <2>6, <3>2 DEF Check, Goto, HolderInv
      <3> QED BY <3>1, <3>2
    <2>7. CASE Stamp(r)
      <3>1. \A q \in Requests : pc'[q] # "stamp"
        BY <2>0, <2>1, <2>7 DEF Stamp, Goto, Inside
      <3>2. \A q \in Requests : pc'[q] \in {"store", "final"} => pc'[q] = pc[q]
        BY <2>0, <2>7 DEF Stamp, Goto
      <3> QED BY <1>0, <2>7, <3>1, <3>2 DEF Stamp, HolderInv
    <2>8. CASE FetchKeys(r)
      <3>1. resp'[r] = served /\ \A q \in Requests \ {r} : resp'[q] = resp[q] /\ pc'[q] = pc[q]
        BY <2>0, <2>8 DEF FetchKeys, Goto
      <3>2. pc'[r] = "store"
        BY <2>0, <2>8 DEF FetchKeys, Goto
      <3> QED BY <1>0, <2>8, <3>1, <3>2 DEF FetchKeys, HolderInv
    <2>9. CASE FetchFails(r)
      BY <2>0, <2>2, <2>9 DEF FetchFails, Return, Goto, Stages
    <2>10. CASE StoreKeys(r)
      <3>1. pc'[r] = "final" /\ \A q \in Requests \ {r} : pc'[q] = pc[q] /\ pc[q] \notin Inside
        BY <2>0, <2>1, <2>10 DEF StoreKeys, Goto, Inside
      <3>2. cache' = resp[r] /\ resp' = resp /\ resp[r] <= served
        BY <1>0, <2>10 DEF StoreKeys, HolderInv
      <3> QED BY <1>0, <2>10, <3>1, <3>2 DEF StoreKeys, HolderInv, Inside
    <2>11. CASE Final(r)
      BY <2>0, <2>2, <2>11 DEF Final, Return, Goto, Stages
    <2>12. CASE CloseFails(r)
      <3>1. pc'[r] = "idle" /\ \A q \in Requests \ {r} : pc'[q] = pc[q] /\ pc[q] \notin Inside
        BY <2>0, <2>1, <2>12 DEF CloseFails, Return, Goto, Inside
      <3>2. cache' = resp[r] /\ resp[r] <= served
        BY <1>0, <2>12 DEF CloseFails, HolderInv
      <3> QED BY <1>0, <2>12, <3>1, <3>2 DEF CloseFails, HolderInv, Inside
    <2> QED BY <1>4, <2>3, <2>4, <2>5, <2>6, <2>7, <2>8, <2>9, <2>10, <2>11, <2>12 DEF getKey
  <1>5. CASE UNCHANGED vars
    BY <1>0, <1>5 DEF vars, HolderInv
  <1> QED BY <1>1, <1>2, <1>3, <1>4, <1>5 DEF Next

\* No step makes a hit of the miss that a request has seen under fetchMu.
LEMMA MissStep == IInv /\ [Next]_vars => MissInv'
  <1> SUFFICES ASSUME IInv, [Next]_vars, NEW r \in Requests, pc'[r] = "check" PROVE ~Hit(r)'
    BY DEF MissInv
  <1>0. TypeOK /\ MissInv /\ pc \in [Requests -> Stages] /\ kid \in [Requests -> Kids \union {NoKid}]
    BY DEF IInv, TypeOK
  <1>1. CASE pc[r] = "check"
    <2>1. ASSUME NEW q \in Requests, StoreKeys(q) \/ CloseFails(q) PROVE FALSE
      <3>1. pc[q] = "store"
        BY <2>1 DEF StoreKeys, CloseFails
      <3>2. q = r
        BY <1>0, <1>1, <3>1, Mutex DEF Inside
      <3> QED BY <1>1, <3>1, <3>2
    <2>2. cache' = cache
      BY <2>1 DEF Next, Tick, Rotate, validate, getKey, Look, Lock, LookAgain, Check, Stamp,
                  FetchKeys, FetchFails, Final, vars
    <2>3. kid'[r] = kid[r]
      <3>1. ASSUME NEW q \in Requests, getKey(q), kid' # kid PROVE kid'[r] = kid[r]
        <4>1. PICK x : Return(q, x)
          BY <3>1 DEF getKey, Look, Lock, LookAgain, Check, Stamp, FetchKeys, FetchFails,
                      StoreKeys, CloseFails, Final
        <4>2. q # r
          BY <1>0, <4>1 DEF Return, Goto
        <4> QED BY <1>0, <4>1, <4>2 DEF Return
      <3>2. ASSUME NEW q \in Requests, NEW k \in Kids, validate(q, k) PROVE kid'[r] = kid[r]
        BY <1>0, <1>1, <3>2 DEF validate
      <3>3. CASE kid' = kid
        BY <3>3
      <3> QED BY <3>1, <3>2, <3>3 DEF Next, Tick, Rotate, vars
    <2> QED BY <1>0, <1>1, <2>2, <2>3 DEF MissInv, Hit
  <1>2. CASE pc[r] # "check"
    <2>1. PICK q \in Requests : getKey(q) \/ \E k \in Kids : validate(q, k)
      BY <1>2 DEF Next, Tick, Rotate, vars
    <2>2. LookAgain(r) /\ ~Hit(r)
      BY <1>0, <1>2, <2>1 DEF getKey, validate, Look, Lock, LookAgain, Check, Stamp, FetchKeys,
         FetchFails, StoreKeys, CloseFails, Final, Return, Goto
    <2> QED BY <2>2 DEF LookAgain, Hit
  <1> QED BY <1>1, <1>2

\* Fetches stay a cooldown apart.
LEMMA SpacedStep == IInv /\ [Next]_vars => FetchesSpaced'
  <1> SUFFICES ASSUME IInv, [Next]_vars PROVE FetchesSpaced'
    OBVIOUS
  <1>1. ASSUME NEW r \in Requests, Stamp(r) PROVE FetchesSpaced'
    BY <1>1 DEF Stamp, IInv, HolderInv, FetchesSpaced
  <1>2. CASE UNCHANGED <<lastFetch, prevFetch>>
    BY <1>2 DEF IInv, FetchesSpaced
  <1> QED BY <1>1, <1>2
          DEF Next, Tick, Rotate, validate, getKey, Look, Lock, LookAgain, Check, FetchKeys,
              FetchFails, StoreKeys, CloseFails, Final, vars

\* The invariant of the key cache holds in every reachable state.
THEOREM Invariant == Spec => []IInv
  <1>1. IInv /\ [Next]_vars => IInv'
    BY TypeStep, HolderStep, MissStep, SpacedStep DEF IInv
  <1> QED BY <1>1, IInvInit, PTL DEF Spec

\* The types hold, and fetchMu is held by exactly the request inside the critical section.
THEOREM TypeCorrect == Spec => []TypeOK
  <1>1. IInv => TypeOK
    BY DEF IInv
  <1> QED BY <1>1, Invariant, PTL

\* However many requests miss at once, fetches start at least a cooldown apart.
THEOREM SpacedCorrect == Spec => []FetchesSpaced
  <1>1. IInv => FetchesSpaced
    BY DEF IInv
  <1> QED BY <1>1, Invariant, PTL

\* The cache never returns to an older key set.
THEOREM NeverGoesBackCorrect == Spec => CacheNeverGoesBack
  <1>1. IInv /\ [Next]_vars => [cache' >= cache]_vars
    <2> SUFFICES ASSUME IInv, [Next]_vars PROVE cache' >= cache
      OBVIOUS
    <2>0. cache \in Int
      BY JwksAssumption DEF IInv, TypeOK, Versions
    <2>1. ASSUME NEW r \in Requests, StoreKeys(r) \/ CloseFails(r) PROVE cache' >= cache
      <3>1. resp[r] \in Int /\ cache <= resp[r] /\ cache' = resp[r]
        BY <2>1, JwksAssumption DEF StoreKeys, CloseFails, IInv, TypeOK, HolderInv, Versions
      <3> QED BY <2>0, <3>1
    <2>2. CASE cache' = cache
      BY <2>0, <2>2
    <2> QED BY <2>1, <2>2
            DEF Next, Tick, Rotate, validate, getKey, Look, Lock, LookAgain, Check, Stamp,
                FetchKeys, FetchFails, Final, vars
  <1> QED BY <1>1, Invariant, PTL DEF Spec, CacheNeverGoesBack

\* A request is told that a key id is unknown only by a cache that lacks it, and outside the cooldown
\* only by the key set that its own fetch has just stored.
THEOREM RefusalCorrect == Spec => RefusalJustified
  <1> DEFINE Justified(r) ==
        (answer[r] = "none" /\ answer'[r] = "unknown") =>
            /\ kid[r] \notin KeySet[cache]
            /\ now - lastFetch < Cooldown \/ cache = resp[r]
  <1>1. IInv /\ [Next]_vars => [\A r \in Requests : Justified(r)]_vars
    <2> SUFFICES ASSUME IInv, [Next]_vars, NEW r \in Requests,
                        answer[r] = "none", answer'[r] = "unknown"
                 PROVE  /\ kid[r] \notin KeySet[cache]
                        /\ now - lastFetch < Cooldown \/ cache = resp[r]
      OBVIOUS
    <2>0. answer \in [Requests -> {"none", "key", "unknown", "error"}] /\ HolderInv /\ MissInv
      BY DEF IInv, TypeOK
    <2>1. answer # answer'
      OBVIOUS
    <2>2. PICK q \in Requests :
             getKey(q) \/ \E k \in Kids : validate(q, k)
      BY <2>1 DEF Next, Tick, Rotate, vars
    <2>3. CASE LookAgain(q) \/ Look(q)
      BY <2>0, <2>3 DEF LookAgain, Look, Return
    <2>4. CASE Check(q)
      BY <2>0, <2>4 DEF Check, Return, MissInv, Hit
    <2>5. CASE Final(q)
      BY <2>0, <2>5 DEF Final, Return, Hit, HolderInv
    <2>6. CASE FetchFails(q) \/ CloseFails(q) \/ \E k \in Kids : validate(q, k)
      BY <2>0, <2>6 DEF FetchFails, CloseFails, validate, Return
    <2> QED BY <2>1, <2>2, <2>3, <2>4, <2>5, <2>6 DEF getKey, Lock, Stamp, FetchKeys, StoreKeys
  <1> QED BY <1>1, Invariant, PTL DEF Spec, RefusalJustified
=============================================================================
