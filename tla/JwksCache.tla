------------------------------ MODULE JwksCache ------------------------------
(***************************************************************************)
(* The key cache of the JWT validator (concrete/iam/validator.go): many    *)
(* requests look up key ids concurrently; a miss refetches the whole key   *)
(* set from the JWKS endpoint, one request at a time (fetchMu) and at most *)
(* once per cooldown (lastFetch), while the identity provider rotates its  *)
(* keys.                                                                   *)
(*                                                                         *)
(* The endpoint serves a numbered sequence of key sets; the cache is       *)
(* represented by the version it was filled from (0 when empty).           *)
(***************************************************************************)
EXTENDS Integers

CONSTANTS
    Requests,     \* goroutines that validate tokens
    Kids,         \* key ids
    MaxVersion,   \* bound: versions of the key set the endpoint goes through
    KeySet,       \* KeySet[v]: usable (RSA) key ids of version v; KeySet[0] = {}
    Broken,       \* versions with a key that does not decode
    Cooldown,     \* options.jwksCooldown, in ticks
    MaxTime,      \* bound: ticks
    NoReq, NoKid  \* fetchMu is free; the request has no key id

Versions == 0..MaxVersion

ASSUME JwksAssumption ==
    /\ MaxVersion \in Nat
    /\ KeySet \in [Versions -> SUBSET Kids]
    /\ KeySet[0] = {}
    /\ Broken \subseteq Versions
    /\ Cooldown \in Nat
    /\ MaxTime \in Nat
    /\ NoReq \notin Requests
    /\ NoKid \notin Kids

VARIABLES
    now,          \* clock
    served,       \* version the endpoint serves
    cache,        \* version the validator's key map was built from
    fetchMu,      \* the request holding fetchMu, or NoReq
    lastFetch,    \* start of the last fetch; -Cooldown stands for the zero time
    prevFetch,    \* history: start of the fetch before it
    pc,           \* where a request is in getKey
    kid,          \* the key id it looks up
    resp,         \* version a fetch brought back, not stored yet
    answer        \* what getKey last returned to a request

vars == <<now, served, cache, fetchMu, lastFetch, prevFetch, pc, kid, resp, answer>>

Stages == {"idle", "look", "lock", "again", "check", "stamp", "fetch", "store", "final"}

\* The stages of getKey between fetchMu.Lock and its unlock.
Inside == {"again", "check", "stamp", "fetch", "store", "final"}

\* The types of the cache and of the requests in getKey; fetchMu is held by exactly the request
\* between its Lock and its unlock.
TypeOK ==
    /\ now \in 0..MaxTime
    /\ served \in Versions
    /\ cache \in Versions
    /\ fetchMu \in Requests \union {NoReq}
    /\ lastFetch \in -Cooldown..MaxTime
    /\ prevFetch \in (-2 * Cooldown)..MaxTime
    /\ pc \in [Requests -> Stages]
    /\ kid \in [Requests -> Kids \union {NoKid}]
    /\ resp \in [Requests -> Versions]
    /\ answer \in [Requests -> {"none", "key", "unknown", "error"}]
    /\ \A r \in Requests : pc[r] \in Inside <=> fetchMu = r

Init ==
    /\ now = 0
    /\ served \in Versions \ {0}
    /\ cache = 0
    /\ fetchMu = NoReq
    /\ lastFetch = -Cooldown
    /\ prevFetch = -2 * Cooldown
    /\ pc = [r \in Requests |-> "idle"]
    /\ kid = [r \in Requests |-> NoKid]
    /\ resp = [r \in Requests |-> 0]
    /\ answer = [r \in Requests |-> "none"]

Goto(r, stage) == pc' = [pc EXCEPT ![r] = stage]

\* getKey returns to request r.
Return(r, a) ==
    /\ Goto(r, "idle")
    /\ answer' = [answer EXCEPT ![r] = a]
    /\ kid' = [kid EXCEPT ![r] = NoKid]
    /\ resp' = [resp EXCEPT ![r] = 0]

Hit(r) == kid[r] \in KeySet[cache]

-----------------------------------------------------------------------------
Tick ==
    /\ now < MaxTime
    /\ now' = now + 1
    /\ UNCHANGED <<served, cache, fetchMu, lastFetch, prevFetch, pc, kid, resp, answer>>

\* The identity provider publishes its next key set.
Rotate ==
    /\ served < MaxVersion
    /\ served' = served + 1
    /\ UNCHANGED <<now, cache, fetchMu, lastFetch, prevFetch, pc, kid, resp, answer>>

\* validate reaches getKey with the kid of the token's header.
validate(r, k) ==
    /\ pc[r] = "idle"
    /\ Goto(r, "look")
    /\ kid' = [kid EXCEPT ![r] = k]
    /\ answer' = [answer EXCEPT ![r] = "none"]
    /\ UNCHANGED <<now, served, cache, fetchMu, lastFetch, prevFetch, resp>>

\* The first look, under mu.RLock only.
Look(r) ==
    /\ pc[r] = "look"
    /\ IF Hit(r)
       THEN Return(r, "key")
       ELSE Goto(r, "lock") /\ UNCHANGED <<kid, resp, answer>>
    /\ UNCHANGED <<now, served, cache, fetchMu, lastFetch, prevFetch>>

LockSkipped(r) ==
    /\ pc[r] = "lock"
    /\ fetchMu' = r
    /\ Goto(r, "again")
    /\ UNCHANGED <<now, served, cache, lastFetch, prevFetch, kid, resp, answer>>

Lock(r) ==
    /\ pc[r] = "lock"
    /\ fetchMu = NoReq
    /\ fetchMu' = r
    /\ Goto(r, "again")
    /\ UNCHANGED <<now, served, cache, lastFetch, prevFetch, kid, resp, answer>>

\* The second look: another request may have fetched while this one waited.
LookAgain(r) ==
    /\ pc[r] = "again"
    /\ IF Hit(r)
       THEN Return(r, "key") /\ fetchMu' = NoReq
       ELSE Goto(r, "check") /\ UNCHANGED <<fetchMu, kid, resp, answer>>
    /\ UNCHANGED <<now, served, cache, lastFetch, prevFetch>>

CheckSkipped(r) ==
    /\ pc[r] = "check"
    /\ Goto(r, "stamp")
    /\ UNCHANGED <<fetchMu, kid, resp, answer, now, served, cache, lastFetch, prevFetch>>

\* The cooldown: within it, an unknown kid is refused without a fetch.
Check(r) ==
    /\ pc[r] = "check"
    /\ IF now - lastFetch < Cooldown
       THEN Return(r, "unknown") /\ fetchMu' = NoReq
       ELSE Goto(r, "stamp") /\ UNCHANGED <<fetchMu, kid, resp, answer>>
    /\ UNCHANGED <<now, served, cache, lastFetch, prevFetch>>

\* lastFetch is set before the fetch: a failed fetch uses up the cooldown too.
Stamp(r) ==
    /\ pc[r] = "stamp"
    /\ lastFetch' = now
    /\ prevFetch' = lastFetch
    /\ Goto(r, "fetch")
    /\ UNCHANGED <<now, served, cache, fetchMu, kid, resp, answer>>

\* fetchKeys: the endpoint answers with the version it serves at that moment, and all keys decode.
FetchKeys(r) ==
    /\ pc[r] = "fetch"
    /\ served \notin Broken
    /\ resp' = [resp EXCEPT ![r] = served]
    /\ Goto(r, "store")
    /\ UNCHANGED <<now, served, cache, fetchMu, lastFetch, prevFetch, kid, answer>>

\* fetchKeys fails: no answer, a bad status, a key that does not decode, or the context of the one
\* request that fetches is cancelled.  The cache keeps its old keys.
FetchFails(r) ==
    /\ pc[r] = "fetch"
    /\ Return(r, "error")
    /\ fetchMu' = NoReq
    /\ UNCHANGED <<now, served, cache, lastFetch, prevFetch>>

StoreMerged(r) ==
    /\ pc[r] = "store"
    /\ cache' = IF kid[r] \in KeySet[resp[r]] THEN resp[r] ELSE cache
    /\ Goto(r, "final")
    /\ UNCHANGED <<now, served, fetchMu, lastFetch, prevFetch, kid, resp, answer>>

\* The key map is replaced as a whole, under mu.Lock.
StoreKeys(r) ==
    /\ pc[r] = "store"
    /\ cache' = resp[r]
    /\ Goto(r, "final")
    /\ UNCHANGED <<now, served, fetchMu, lastFetch, prevFetch, kid, resp, answer>>

\* fetchKeys stores the keys but closing the response body fails: the request gets an error, later
\* ones the new keys.
CloseFails(r) ==
    /\ pc[r] = "store"
    /\ cache' = resp[r]
    /\ Return(r, "error")
    /\ fetchMu' = NoReq
    /\ UNCHANGED <<now, served, lastFetch, prevFetch>>

FinalForgetsUnlock(r) ==
    /\ pc[r] = "final"
    /\ Return(r, IF Hit(r) THEN "key" ELSE "unknown")
    /\ fetchMu' = IF Hit(r) THEN NoReq ELSE fetchMu
    /\ UNCHANGED <<now, served, cache, lastFetch, prevFetch>>

Final(r) ==
    /\ pc[r] = "final"
    /\ Return(r, IF Hit(r) THEN "key" ELSE "unknown")
    /\ fetchMu' = NoReq
    /\ UNCHANGED <<now, served, cache, lastFetch, prevFetch>>

\* A step of request r inside getKey.
getKey(r) ==
    \/ Look(r)
    \/ Lock(r)
    \/ LookAgain(r)
    \/ Check(r)
    \/ Stamp(r)
    \/ FetchKeys(r)
    \/ FetchFails(r)
    \/ StoreKeys(r)
    \/ CloseFails(r)
    \/ Final(r)

Next ==
    \/ Tick
    \/ Rotate
    \/ \E r \in Requests : getKey(r) \/ \E k \in Kids : validate(r, k)

Spec == Init /\ [][Next]_vars

\* A mutex is granted to a waiting request eventually (sync.Mutex has a starvation mode), and a
\* request inside getKey keeps running: the HTTP call returns.
Fairness == \A r \in Requests : WF_vars(getKey(r)) /\ SF_vars(Lock(r))

FairSpec == Spec /\ Fairness

-----------------------------------------------------------------------------
(* Properties.                                                             *)

\* Tokens with unknown key ids, however many at once, start at most one fetch per cooldown.
FetchesSpaced == lastFetch - prevFetch >= Cooldown

\* The cache never goes back to an older key set: a slow fetch cannot overwrite a newer one.
CacheNeverGoesBack == [][cache' >= cache]_vars

\* An answer is never older than the cache: when a request is told a key id is unknown outside the
\* cooldown, the cache holds what the endpoint served at the last fetch, and it lacks the key.
RefusalJustified ==
    [][\A r \in Requests :
         (answer[r] = "none" /\ answer'[r] = "unknown") =>
            /\ kid[r] \notin KeySet[cache]
            /\ now - lastFetch < Cooldown \/ cache = resp[r]]_vars

-----------------------------------------------------------------------------
(* The inductive invariant behind the safety properties.                   *)

\* The holder of fetchMu works with a lastFetch and a cache nobody else changes.
HolderInv ==
    /\ lastFetch <= now
    /\ cache <= served
    /\ \A r \in Requests :
          /\ pc[r] = "stamp" => now - lastFetch >= Cooldown
          /\ pc[r] = "store" => cache <= resp[r] /\ resp[r] <= served
          /\ pc[r] = "final" => cache = resp[r]

\* The second look stays true until the cooldown is checked: only the holder of fetchMu stores keys.
MissInv == \A r \in Requests : pc[r] = "check" => ~Hit(r)

\* Holds initially, is preserved by every step, and implies the safety properties.
IInv == TypeOK /\ HolderInv /\ MissInv /\ FetchesSpaced

-----------------------------------------------------------------------------
\* Every lookup returns: fetchMu is released on every path out of getKey.
LookupsReturn == \A r \in Requests : pc[r] # "idle" ~> pc[r] = "idle"
=============================================================================
