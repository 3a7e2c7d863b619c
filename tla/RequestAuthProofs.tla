-------------------------- MODULE RequestAuthProofs --------------------------
(***************************************************************************)
(* Proofs about RequestAuth, for any users, roles, scopes, routes and      *)
(* numbers of requests: guards hold, restricted tokens stay restricted,    *)
(* and a request has one principal.                                        *)
(***************************************************************************)
EXTENDS RequestAuth, TLAPS

\* The invariant holds initially.
LEMMA IInvInit == Init => IInv
  <1> SUFFICES ASSUME Init PROVE IInv
    OBVIOUS
  <1>1. TypeOK
    BY AuthAssumption DEF Init, TypeOK, Stages, Actors, NoActor
  <1>2. PathInv /\ OnePrincipal /\ ActorInv /\ GuardInv /\ AuthorizedInv
    BY AuthAssumption DEF Init, PathInv, OnePrincipal, ActorInv, GuardInv, AuthorizedInv,
       Served, NoActor
  <1> QED BY <1>1, <1>2 DEF IInv

\* A guard answers with one of three statuses, and lets only callers with its right pass.
LEMMA RequireMeans ==
  ASSUME NEW r \in Reqs, route[r] \in Routes
  PROVE  /\ Require(r) \in {200, 401, 403}
         /\ Require(r) = 200 =>
               /\ route[r].guard # "none" => actor[r].type # "none"
               /\ route[r].guard = "admin" => actor[r].isAdmin
               /\ route[r].guard = "service" => actor[r].type = "service"
  <1>1. route[r].guard \in Guards
    BY AuthAssumption
  <1>2. requireActor(r) \in {200, 401} /\ (requireActor(r) = 200 => actor[r].type # "none")
    BY DEF requireActor
  <1>3. /\ RequireAdmin(r) \in {200, 401, 403}
        /\ RequireAdmin(r) = 200 => actor[r].type # "none" /\ actor[r].isAdmin
    BY <1>2 DEF RequireAdmin
  <1>4. /\ RequireService(r) \in {200, 401, 403}
        /\ RequireService(r) = 200 => actor[r].type # "none" /\ actor[r].type = "service"
    BY <1>2 DEF RequireService
  <1> QED BY <1>1, <1>2, <1>3, <1>4 DEF Require, Guards

\* Replacing the roles of an actor gives an actor.
LEMMA CompleteType ==
  ASSUME TypeOK, NEW r \in Reqs, NEW R \in RoleSets, Complete(r, R)
  PROVE  /\ actor' \in [Reqs -> Actors]
         /\ \A q \in Reqs \ {r} : actor'[q] = actor[q]
         /\ actor'[r].type = actor[r].type
         /\ actor'[r].id = actor[r].id
         /\ actor'[r].scopes = actor[r].scopes
         /\ actor'[r].permissions = R
         /\ actor'[r].isAdmin <=> adminRole \in R
  <1>0. actor \in [Reqs -> Actors]
    BY DEF TypeOK
  <1>1. actor[r] \in Actors
    BY <1>0
  <1> DEFINE flag == adminRole \in R
             new == [[actor[r] EXCEPT !.permissions = R] EXCEPT !.isAdmin = flag]
  <1>2. flag \in BOOLEAN
    OBVIOUS
  <1>3. actor' = [actor EXCEPT ![r] = new]
    BY <1>0 DEF Complete
  <1> HIDE DEF flag
  <1>4. /\ new \in Actors /\ new.type = actor[r].type /\ new.id = actor[r].id
        /\ new.scopes = actor[r].scopes /\ new.permissions = R /\ new.isAdmin = flag
    BY <1>1, <1>2 DEF Actors
  <1> HIDE DEF new
  <1>5. /\ actor' \in [Reqs -> Actors]
        /\ \A q \in Reqs \ {r} : actor'[q] = actor[q]
        /\ actor'[r] = new
    BY <1>0, <1>3, <1>4
  <1> QED BY <1>4, <1>5 DEF flag

\* The actors that Authenticate builds.
LEMMA ActorTypes ==
  ASSUME TypeOK, NEW r \in Reqs, tok[r] \in TokenShapes, tok[r].sub # BadSub
  PROVE  serviceActor(r) \in Actors /\ userActor(r) \in Actors
  <1> DEFINE flag == adminRole \in claimed[r]
  <1>1. flag \in BOOLEAN
    OBVIOUS
  <1>2. tok[r].sub \in Users /\ tok[r].scopes \in ScopeSets /\ claimed[r] \in RoleSets
    BY DEF TokenShapes, TypeOK
  <1>3. serviceActor(r) \in Actors
    BY <1>2, AuthAssumption DEF serviceActor, Actors
  <1>4. userActor(r) = [type |-> "user", id |-> tok[r].sub, scopes |-> tok[r].scopes,
                        permissions |-> claimed[r], isAdmin |-> flag]
    BY DEF userActor
  <1> HIDE DEF flag
  <1>5. userActor(r) \in Actors
    BY <1>1, <1>2, <1>4 DEF Actors
  <1> QED BY <1>3, <1>5

\* Every step keeps the types.
LEMMA TypeStep ==
  ASSUME TypeOK, PathInv, [Next]_vars
  PROVE  TypeOK'
  <1> USE AuthAssumption DEF TypeOK, PathInv, Stages, TokenShapes
  <1>1. ASSUME NEW r \in Reqs, NEW t \in TokenShapes, Issue(r, t) PROVE TypeOK'
    BY <1>1 DEF Issue, RolesOf, ctxVars
  <1>2. ASSUME NEW u \in Users, NEW R \in RoleSets, ChangeRoles(u, R) PROVE TypeOK'
    BY <1>2 DEF ChangeRoles, ctxVars
  <1>3. ASSUME NEW r \in Reqs, Expire(r) PROVE TypeOK'
    BY <1>3 DEF Expire, ctxVars
  <1>4. ASSUME NEW r \in Reqs, NEW rt \in Routes, Receive(r, rt) PROVE TypeOK'
    BY <1>4 DEF Receive, Goto, idpVars, ctxVars
  <1>5. ASSUME NEW r \in Reqs, NEW sub \in Users \union {None}, NEW R \in RoleSets, fetch(r, sub, R)
        PROVE  TypeOK'
    <2>1. actor' \in [Reqs -> Actors]
      BY <1>5, CompleteType DEF fetch
    <2>2. unnamed' \in [Reqs -> RoleSets]
      BY <1>5 DEF fetch, Noted
    <2>3. held' \in [Reqs -> SUBSET UNION RoleSets]
      <3>1. CASE sub = None
        BY <1>5, <3>1 DEF fetch, Noted
      <3>2. CASE sub # None
        <4>1. roles[sub] \in SUBSET UNION RoleSets /\ actor[r].id = sub
          BY <1>5, <3>2 DEF fetch
        <4>2. held[r] \union roles[sub] \in SUBSET UNION RoleSets
          BY <4>1
        <4> QED BY <1>5, <3>2, <4>1, <4>2 DEF fetch, Noted
      <3> QED BY <3>1, <3>2
    <2>4. pc[r] \notin {"new", "done"} /\ pc' = [pc EXCEPT ![r] = "guard"]
      BY <1>5 DEF fetch, Goto
    <2> QED BY <1>5, <2>1, <2>2, <2>3, <2>4 DEF fetch, idpVars
  <1>6. ASSUME NEW r \in Reqs, Handle(r),
               ~\E sub \in Users \union {None}, R \in RoleSets : fetch(r, sub, R)
        PROVE  TypeOK'
    <2>1. CASE BearerToken(r)
      BY <2>1 DEF BearerToken, Goto, idpVars, ctxVars
    <2>2. CASE validateKey(r)
      BY <2>2 DEF validateKey, Goto, idpVars, ctxVars
    <2>3. CASE AuthenticateFails(r)
      BY <2>3 DEF AuthenticateFails, Goto, idpVars, ctxVars
    <2>4. CASE validateClaims(r)
      BY <2>4 DEF validateClaims, Goto, idpVars, ctxVars
    <2>5. CASE Authenticate(r)
      <3>1. CASE tok[r].sub = BadSub
        BY <2>5, <3>1 DEF Authenticate, Goto, idpVars, ctxVars
      <3>2. CASE tok[r].sub /= BadSub
        <4>1. tok[r] \in TokenShapes /\ tok[r].sub \in Users
          BY <2>5, <3>2 DEF Authenticate
        <4>2. serviceActor(r) \in Actors /\ userActor(r) \in Actors
          BY <3>2, <4>1, ActorTypes
        <4>3. actor' \in [Reqs -> Actors] /\ user' \in [Reqs -> Users \union {None}]
          <5>1. actor \in [Reqs -> Actors] /\ user \in [Reqs -> Users \union {None}]
            OBVIOUS
          <5> HIDE DEF TypeOK, PathInv, TokenShapes
          <5>2. /\ \/ actor' = [actor EXCEPT ![r] = serviceActor(r)]
                   \/ actor' = [actor EXCEPT ![r] = userActor(r)]
                /\ \/ user' = [user EXCEPT ![r] = None]
                   \/ user' = [user EXCEPT ![r] = tok[r].sub]
            BY <2>5, <3>2 DEF Authenticate
          <5> QED BY <4>1, <4>2, <5>1, <5>2
        <4> QED BY <2>5, <3>2, <4>3 DEF Authenticate, Goto, idpVars
      <3> QED BY <3>1, <3>2
    <2>6. CASE EnsureRoles(r)
      BY <2>6 DEF EnsureRoles, Goto, AfterMiddleware, NeedsFetch, idpVars, ctxVars
    <2>7. CASE fetchFails(r)
      BY <2>7 DEF fetchFails, Finish, Goto, AfterMiddleware, NeedsFetch, idpVars, ctxVars
    <2>8. CASE Guard(r)
      <3>1. Require(r) \in {200, 401, 403}
        BY <2>8, RequireMeans DEF Guard
      <3>2. CASE Require(r) = 200 /\ route[r].authorize
        BY <2>8, <3>2 DEF Guard, Goto, idpVars, ctxVars
      <3>3. CASE ~(Require(r) = 200 /\ route[r].authorize)
        BY <2>8, <3>1, <3>3 DEF Guard, Finish, Goto, idpVars, ctxVars
      <3> QED BY <3>2, <3>3
    <2>9. CASE UseCase(r)
      BY <2>9 DEF UseCase, Finish, Goto, idpVars, ctxVars, Authorize
    <2> QED BY <1>6, <2>1, <2>2, <2>3, <2>4, <2>5, <2>6, <2>7, <2>8, <2>9 DEF Handle
  <1>7. CASE UNCHANGED vars
    BY <1>7 DEF vars, idpVars, ctxVars
  <1> QED BY <1>1, <1>2, <1>3, <1>4, <1>5, <1>6, <1>7 DEF Next, Provider

\* Every step keeps what is known of the token at each stage.
LEMMA PathStep ==
  ASSUME TypeOK, TypeOK', PathInv, [Next]_vars
  PROVE  PathInv'
  <1> USE AuthAssumption DEF TypeOK, PathInv, TokenShapes
  <1>1. ASSUME NEW r \in Reqs, NEW t \in TokenShapes, Issue(r, t) PROVE PathInv'
    BY <1>1 DEF Issue, RolesOf, ctxVars
  <1>2. ASSUME NEW u \in Users, NEW R \in RoleSets, ChangeRoles(u, R) PROVE PathInv'
    BY <1>2 DEF ChangeRoles, ctxVars
  <1>3. ASSUME NEW r \in Reqs, Expire(r) PROVE PathInv'
    BY <1>3 DEF Expire, ctxVars
  <1>4. ASSUME NEW r \in Reqs, NEW rt \in Routes, Receive(r, rt) PROVE PathInv'
    BY <1>4 DEF Receive, Goto, idpVars, ctxVars
  <1>5. ASSUME NEW r \in Reqs, NEW sub \in Users \union {None}, NEW R \in RoleSets, fetch(r, sub, R)
        PROVE  PathInv'
    BY <1>5 DEF fetch, Noted, Goto, Complete, idpVars
  <1>6. ASSUME NEW r \in Reqs, Handle(r),
               ~\E sub \in Users \union {None}, R \in RoleSets : fetch(r, sub, R)
        PROVE  PathInv'
    <2>1. CASE BearerToken(r)
      BY <2>1 DEF BearerToken, Goto, idpVars, ctxVars
    <2>2. CASE validateKey(r)
      BY <2>2 DEF validateKey, Goto, idpVars, ctxVars
    <2>3. CASE AuthenticateFails(r)
      BY <2>3 DEF AuthenticateFails, Goto, idpVars, ctxVars
    <2>4. CASE validateClaims(r)
      BY <2>4 DEF validateClaims, Goto, idpVars, ctxVars
    <2>5. CASE Authenticate(r)
      BY <2>5 DEF Authenticate, Goto, serviceActor, userActor, idpVars, ctxVars
    <2>6. CASE EnsureRoles(r)
      BY <2>6 DEF EnsureRoles, Goto, AfterMiddleware, NeedsFetch, idpVars, ctxVars
    <2>7. CASE fetchFails(r)
      BY <2>7 DEF fetchFails, Finish, Goto, AfterMiddleware, NeedsFetch, idpVars, ctxVars
    <2>8. CASE Guard(r)
      BY <2>8 DEF Guard, Finish, Goto, idpVars, ctxVars
    <2>9. CASE UseCase(r)
      BY <2>9 DEF UseCase, Finish, Goto, idpVars, ctxVars
    <2> QED BY <1>6, <2>1, <2>2, <2>3, <2>4, <2>5, <2>6, <2>7, <2>8, <2>9 DEF Handle
  <1>7. CASE UNCHANGED vars
    BY <1>7 DEF vars, idpVars, ctxVars
  <1> QED BY <1>1, <1>2, <1>3, <1>4, <1>5, <1>6, <1>7 DEF Next, Provider

\* Every step keeps actor and user entity together.
LEMMA PrincipalStep ==
  ASSUME TypeOK, PathInv, ActorInv, OnePrincipal, [Next]_vars
  PROVE  OnePrincipal'
  <1> USE AuthAssumption DEF TypeOK, PathInv, ActorInv, OnePrincipal, Vouched, TokenShapes, Actors
  <1>1. ASSUME NEW r \in Reqs, NEW t \in TokenShapes, Issue(r, t) PROVE OnePrincipal'
    BY <1>1 DEF Issue, RolesOf, ctxVars
  <1>2. ASSUME NEW u \in Users, NEW R \in RoleSets, ChangeRoles(u, R) PROVE OnePrincipal'
    BY <1>2 DEF ChangeRoles, ctxVars
  <1>3. ASSUME NEW r \in Reqs, Expire(r) PROVE OnePrincipal'
    BY <1>3 DEF Expire, ctxVars
  <1>4. ASSUME NEW r \in Reqs, NEW rt \in Routes, Receive(r, rt) PROVE OnePrincipal'
    BY <1>4 DEF Receive, Goto, idpVars, ctxVars
  <1>5. ASSUME NEW r \in Reqs, NEW sub \in Users \union {None}, NEW R \in RoleSets, fetch(r, sub, R)
        PROVE  OnePrincipal'
    BY <1>5 DEF fetch, Noted, Goto, Complete, idpVars
  <1>6. ASSUME NEW r \in Reqs, Handle(r),
               ~\E sub \in Users \union {None}, R \in RoleSets : fetch(r, sub, R)
        PROVE  OnePrincipal'
    <2>1. CASE BearerToken(r)
      BY <2>1 DEF BearerToken, Goto, idpVars, ctxVars
    <2>2. CASE validateKey(r)
      BY <2>2 DEF validateKey, Goto, idpVars, ctxVars
    <2>3. CASE AuthenticateFails(r)
      BY <2>3 DEF AuthenticateFails, Goto, idpVars, ctxVars
    <2>4. CASE validateClaims(r)
      BY <2>4 DEF validateClaims, Goto, idpVars, ctxVars
    <2>5. CASE Authenticate(r)
      <3>1. CASE tok[r].sub = BadSub
        BY <2>5, <3>1 DEF Authenticate, Goto, idpVars, ctxVars
      <3>2. CASE tok[r].sub /= BadSub
        <4>1. tok[r] \in TokenShapes /\ tok[r].sub \in Users /\ tok[r] /= None
          BY <2>5, <3>2 DEF Authenticate
        <4>2. Vouched(r)'
          BY <2>5, <3>2, <4>1 DEF Authenticate, idpVars
        <4>3. \A q \in Reqs \ {r} : actor'[q] = actor[q] /\ user'[q] = user[q]
          BY <2>5, <3>2 DEF Authenticate
        <4>4. CASE tok[r].service
          <5>1. actor'[r].type = "service" /\ actor'[r].id = tok[r].sub /\ user'[r] = None
            BY <2>5, <3>2, <4>4 DEF Authenticate, serviceActor
          <5> QED BY <2>5, <4>1, <4>2, <4>3, <5>1 DEF Authenticate, idpVars
        <4>5. CASE ~tok[r].service
          <5>1. actor'[r].type = "user" /\ actor'[r].id = tok[r].sub /\ user'[r] = tok[r].sub
            BY <2>5, <3>2, <4>5 DEF Authenticate, userActor
          <5> QED BY <2>5, <4>1, <4>2, <4>3, <5>1 DEF Authenticate, idpVars
        <4> QED BY <4>4, <4>5
      <3> QED BY <3>1, <3>2
    <2>6. CASE EnsureRoles(r)
      BY <2>6 DEF EnsureRoles, Goto, AfterMiddleware, NeedsFetch, idpVars, ctxVars
    <2>7. CASE fetchFails(r)
      BY <2>7 DEF fetchFails, Finish, Goto, AfterMiddleware, NeedsFetch, idpVars, ctxVars
    <2>8. CASE Guard(r)
      BY <2>8 DEF Guard, Finish, Goto, idpVars, ctxVars
    <2>9. CASE UseCase(r)
      BY <2>9 DEF UseCase, Finish, Goto, idpVars, ctxVars
    <2> QED BY <1>6, <2>1, <2>2, <2>3, <2>4, <2>5, <2>6, <2>7, <2>8, <2>9 DEF Handle
  <1>7. CASE UNCHANGED vars
    BY <1>7 DEF vars, idpVars, ctxVars
  <1> QED BY <1>1, <1>2, <1>3, <1>4, <1>5, <1>6, <1>7 DEF Next, Provider

\* Every step keeps the actor within the rights of its subject.
LEMMA ActorStep ==
  ASSUME TypeOK, PathInv, ActorInv, [Next]_vars
  PROVE  ActorInv'
  <1> USE AuthAssumption DEF TypeOK, PathInv, ActorInv, Given, TokenShapes, Actors
  <1>1. ASSUME NEW r \in Reqs, NEW t \in TokenShapes, Issue(r, t) PROVE ActorInv'
    BY <1>1 DEF Issue, RolesOf, ctxVars
  <1>2. ASSUME NEW u \in Users, NEW R \in RoleSets, ChangeRoles(u, R) PROVE ActorInv'
    BY <1>2 DEF ChangeRoles, ctxVars
  <1>3. ASSUME NEW r \in Reqs, Expire(r) PROVE ActorInv'
    BY <1>3 DEF Expire, ctxVars
  <1>4. ASSUME NEW r \in Reqs, NEW rt \in Routes, Receive(r, rt) PROVE ActorInv'
    BY <1>4 DEF Receive, Goto, idpVars, ctxVars
  <1>5. ASSUME NEW r \in Reqs, NEW sub \in Users \union {None}, NEW R \in RoleSets, fetch(r, sub, R)
        PROVE  ActorInv'
    <2>1. /\ tok' = tok
          /\ \A q \in Reqs \ {r} : /\ actor'[q] = actor[q] /\ pc'[q] = pc[q]
                                    /\ held'[q] = held[q] /\ unnamed'[q] = unnamed[q]
      BY <1>5 DEF fetch, Noted, Goto, Complete, idpVars
    <2>2. /\ pc'[r] = "guard" /\ actor[r].type = "user"
          /\ actor'[r].type = actor[r].type /\ actor'[r].scopes = actor[r].scopes
          /\ actor'[r].permissions = R /\ actor'[r].isAdmin = (adminRole \in R)
      BY <1>5 DEF fetch, Goto, Complete
    <2>3. R \subseteq Given(r)'
      <3>1. CASE sub = None
        BY <1>5, <3>1 DEF fetch, Noted
      <3>2. CASE sub \in Users
        BY <1>5, <3>2 DEF fetch, Noted, Answer
      <3> QED BY <3>1, <3>2
    <2>4. ASSUME NEW q \in Reqs \ {r} PROVE ActorInv!(q)'
      BY <2>1
    <2>5. ActorInv!(r)'
      <3> HIDE DEF Given
      <3> QED BY <2>1, <2>2, <2>3
    <2> QED BY <2>4, <2>5
  <1>6. ASSUME NEW r \in Reqs, Handle(r),
               ~\E sub \in Users \union {None}, R \in RoleSets : fetch(r, sub, R)
        PROVE  ActorInv'
    <2>1. CASE BearerToken(r)
      BY <2>1 DEF BearerToken, Goto, idpVars, ctxVars
    <2>2. CASE validateKey(r)
      BY <2>2 DEF validateKey, Goto, idpVars, ctxVars
    <2>3. CASE AuthenticateFails(r)
      BY <2>3 DEF AuthenticateFails, Goto, idpVars, ctxVars
    <2>4. CASE validateClaims(r)
      BY <2>4 DEF validateClaims, Goto, idpVars, ctxVars
    <2>5. CASE Authenticate(r)
      <3>1. CASE tok[r].sub = BadSub
        BY <2>5, <3>1 DEF Authenticate, Goto, idpVars, ctxVars
      <3>2. CASE tok[r].sub /= BadSub
        <4>1. \A q \in Reqs \ {r} : actor'[q] = actor[q] /\ pc'[q] = pc[q]
          BY <2>5, <3>2 DEF Authenticate, Goto
        <4>2. pc'[r] = "context" /\ UNCHANGED <<tok, held, unnamed>> /\ claimed[r] \subseteq held[r]
          BY <2>5, <3>2 DEF Authenticate, Goto, idpVars
        <4>3. CASE tok[r].service
          <5>1. /\ actor'[r].type = "service" /\ actor'[r].scopes = tok[r].scopes
                /\ actor'[r].permissions = {} /\ actor'[r].isAdmin = FALSE
            BY <2>5, <3>2, <4>3 DEF Authenticate, serviceActor
          <5> QED BY <4>1, <4>2, <4>3, <5>1
        <4>4. CASE ~tok[r].service
          <5>1. /\ actor'[r].type = "user" /\ actor'[r].scopes = tok[r].scopes
                /\ actor'[r].permissions = claimed[r]
                /\ actor'[r].isAdmin = (adminRole \in claimed[r])
            BY <2>5, <3>2, <4>4 DEF Authenticate, userActor
          <5>2. ActorInv!(r)'
            <6>1. actor'[r].isAdmin => adminRole \in actor'[r].permissions
              BY <5>1
            <6>2. actor'[r].permissions \subseteq Given(r)'
              BY <4>2, <5>1 DEF Given
            <6>3. ~tok'[r].service /\ actor'[r].scopes = tok'[r].scopes
              BY <4>2, <4>4, <5>1
            <6> HIDE DEF TypeOK, PathInv
            <6> QED BY <4>2, <5>1, <6>1, <6>2, <6>3
          <5>3. ASSUME NEW q \in Reqs \ {r} PROVE ActorInv!(q)'
            BY <4>1, <4>2
          <5> QED BY <5>2, <5>3
        <4> QED BY <4>3, <4>4
      <3> QED BY <3>1, <3>2
    <2>6. CASE EnsureRoles(r)
      BY <2>6 DEF EnsureRoles, Goto, AfterMiddleware, NeedsFetch, idpVars, ctxVars
    <2>7. CASE fetchFails(r)
      BY <2>7 DEF fetchFails, Finish, Goto, AfterMiddleware, NeedsFetch, idpVars, ctxVars
    <2>8. CASE Guard(r)
      BY <2>8 DEF Guard, Finish, Goto, idpVars, ctxVars
    <2>9. CASE UseCase(r)
      BY <2>9 DEF UseCase, Finish, Goto, idpVars, ctxVars
    <2> QED BY <1>6, <2>1, <2>2, <2>3, <2>4, <2>5, <2>6, <2>7, <2>8, <2>9 DEF Handle
  <1>7. CASE UNCHANGED vars
    BY <1>7 DEF vars, idpVars, ctxVars
  <1> QED BY <1>1, <1>2, <1>3, <1>4, <1>5, <1>6, <1>7 DEF Next, Provider

\* No step lets a request past its guard without the rights it asks for.
LEMMA GuardStep ==
  ASSUME TypeOK, PathInv, GuardInv, [Next]_vars
  PROVE  GuardInv'
  <1> USE AuthAssumption DEF TypeOK, PathInv, GuardInv, Served, Actors
  <1>1. ASSUME NEW r \in Reqs, NEW t \in TokenShapes, Issue(r, t) PROVE GuardInv'
    BY <1>1 DEF Issue, RolesOf, ctxVars
  <1>2. ASSUME NEW u \in Users, NEW R \in RoleSets, ChangeRoles(u, R) PROVE GuardInv'
    BY <1>2 DEF ChangeRoles, ctxVars
  <1>3. ASSUME NEW r \in Reqs, Expire(r) PROVE GuardInv'
    BY <1>3 DEF Expire, ctxVars
  <1>4. ASSUME NEW r \in Reqs, NEW rt \in Routes, Receive(r, rt) PROVE GuardInv'
    BY <1>4 DEF Receive, Goto, idpVars, ctxVars
  <1>5. ASSUME NEW r \in Reqs, NEW sub \in Users \union {None}, NEW R \in RoleSets, fetch(r, sub, R)
        PROVE  GuardInv'
    BY <1>5 DEF fetch, Noted, Goto, Complete, idpVars
  <1>6. ASSUME NEW r \in Reqs, Handle(r),
               ~\E sub \in Users \union {None}, R \in RoleSets : fetch(r, sub, R)
        PROVE  GuardInv'
    <2>1. CASE BearerToken(r)
      BY <2>1 DEF BearerToken, Goto, idpVars, ctxVars
    <2>2. CASE validateKey(r)
      BY <2>2 DEF validateKey, Goto, idpVars, ctxVars
    <2>3. CASE AuthenticateFails(r)
      BY <2>3 DEF AuthenticateFails, Goto, idpVars, ctxVars
    <2>4. CASE validateClaims(r)
      BY <2>4 DEF validateClaims, Goto, idpVars, ctxVars
    <2>5. CASE Authenticate(r)
      BY <2>5 DEF Authenticate, Goto, serviceActor, userActor, idpVars, ctxVars
    <2>6. CASE EnsureRoles(r)
      BY <2>6 DEF EnsureRoles, Goto, AfterMiddleware, NeedsFetch, idpVars, ctxVars
    <2>7. CASE fetchFails(r)
      BY <2>7 DEF fetchFails, Finish, Goto, AfterMiddleware, NeedsFetch, idpVars, ctxVars
    <2>8. CASE Guard(r)
      <3>1. route[r] \in Routes
        BY <2>8 DEF Guard
      <3> QED BY <2>8, <3>1, RequireMeans DEF Guard, Finish, Goto, idpVars, ctxVars
    <2>9. CASE UseCase(r)
      BY <2>9 DEF UseCase, Finish, Goto, idpVars, ctxVars
    <2> QED BY <1>6, <2>1, <2>2, <2>3, <2>4, <2>5, <2>6, <2>7, <2>8, <2>9 DEF Handle
  <1>7. CASE UNCHANGED vars
    BY <1>7 DEF vars, idpVars, ctxVars
  <1> QED BY <1>1, <1>2, <1>3, <1>4, <1>5, <1>6, <1>7 DEF Next, Provider

\* No step serves a use case that Authorize refuses.
LEMMA AuthorizedStep ==
  ASSUME TypeOK, AuthorizedInv, [Next]_vars
  PROVE  AuthorizedInv'
  <1> USE AuthAssumption DEF TypeOK, AuthorizedInv, Served, Actors
  <1>1. ASSUME NEW r \in Reqs, NEW t \in TokenShapes, Issue(r, t) PROVE AuthorizedInv'
    BY <1>1 DEF Issue, RolesOf, ctxVars
  <1>2. ASSUME NEW u \in Users, NEW R \in RoleSets, ChangeRoles(u, R) PROVE AuthorizedInv'
    BY <1>2 DEF ChangeRoles, ctxVars
  <1>3. ASSUME NEW r \in Reqs, Expire(r) PROVE AuthorizedInv'
    BY <1>3 DEF Expire, ctxVars
  <1>4. ASSUME NEW r \in Reqs, NEW rt \in Routes, Receive(r, rt) PROVE AuthorizedInv'
    BY <1>4 DEF Receive, Goto, idpVars, ctxVars
  <1>5. ASSUME NEW r \in Reqs, NEW sub \in Users \union {None}, NEW R \in RoleSets, fetch(r, sub, R)
        PROVE  AuthorizedInv'
    BY <1>5 DEF fetch, Noted, Goto, Complete, idpVars
  <1>6. ASSUME NEW r \in Reqs, Handle(r),
               ~\E sub \in Users \union {None}, R \in RoleSets : fetch(r, sub, R)
        PROVE  AuthorizedInv'
    <2>1. CASE BearerToken(r)
      BY <2>1 DEF BearerToken, Goto, idpVars, ctxVars
    <2>2. CASE validateKey(r)
      BY <2>2 DEF validateKey, Goto, idpVars, ctxVars
    <2>3. CASE AuthenticateFails(r)
      BY <2>3 DEF AuthenticateFails, Goto, idpVars, ctxVars
    <2>4. CASE validateClaims(r)
      BY <2>4 DEF validateClaims, Goto, idpVars, ctxVars
    <2>5. CASE Authenticate(r)
      <3>1. /\ status' = status /\ route' = route /\ status[r] = 0
            /\ \A q \in Reqs \ {r} : actor'[q] = actor[q]
        BY <2>5 DEF Authenticate, Goto, ctxVars
      <3> QED BY <3>1
    <2>6. CASE EnsureRoles(r)
      BY <2>6 DEF EnsureRoles, Goto, AfterMiddleware, NeedsFetch, idpVars, ctxVars
    <2>7. CASE fetchFails(r)
      BY <2>7 DEF fetchFails, Finish, Goto, AfterMiddleware, NeedsFetch, idpVars, ctxVars
    <2>8. CASE Guard(r)
      BY <2>8 DEF Guard, Finish, Goto, idpVars, ctxVars
    <2>9. CASE UseCase(r)
      BY <2>9 DEF UseCase, Finish, Goto, idpVars, ctxVars
    <2> QED BY <1>6, <2>1, <2>2, <2>3, <2>4, <2>5, <2>6, <2>7, <2>8, <2>9 DEF Handle
  <1>7. CASE UNCHANGED vars
    BY <1>7 DEF vars, idpVars, ctxVars
  <1> QED BY <1>1, <1>2, <1>3, <1>4, <1>5, <1>6, <1>7 DEF Next, Provider

\* The invariant is inductive.
LEMMA IInvStep == IInv /\ [Next]_vars => IInv'
  BY TypeStep, PathStep, PrincipalStep, ActorStep, GuardStep, AuthorizedStep DEF IInv

\* Every reachable state of the pipeline satisfies the inductive invariant.
THEOREM Invariant == Spec => []IInv
  BY IInvInit, IInvStep, PTL DEF Spec

\* Type correctness of the requests' state.
THEOREM TypeCorrect == Spec => []TypeOK
  <1>1. IInv => TypeOK BY DEF IInv
  <1> QED BY Invariant, <1>1, PTL

\* RequireUser, RequireAdmin and RequireService serve only whom the identity provider vouches for
\* with the right they are named for, in the token or in an answer that names no other user.
THEOREM GuardsHoldCorrect == Spec => []GuardsHold
  <1>1. IInv => GuardsHold
    BY DEF IInv, GuardsHold, GuardInv, ActorInv, OnePrincipal
  <1> QED BY Invariant, <1>1, PTL

\* Authorize serves a restricted user token only within its scopes and the roles given for it.
THEOREM RestrictedStaysRestrictedCorrect == Spec => []RestrictedStaysRestricted
  <1>1. ASSUME IInv PROVE RestrictedStaysRestricted
    <2> SUFFICES ASSUME NEW r \in Reqs, Served(r), route[r].authorize
                 PROVE  /\ Vouched(r)
                        /\ \/ tok[r].service
                           \/ DefaultScopes \subseteq tok[r].scopes
                           \/ \A p \in route[r].perms :
                                 hasValidScope(tok[r].scopes, p) /\ hasValidScope(Given(r), p)
      BY DEF RestrictedStaysRestricted
    <2>1. Authorize(actor[r], route[r].perms) = 200
      BY <1>1 DEF IInv, AuthorizedInv
    <2>2. actor[r].type # "none"
      BY <2>1 DEF Authorize
    <2>3. /\ Vouched(r)
          /\ actor[r].type = "service" <=> tok[r].service
          /\ actor[r].scopes = tok[r].scopes
          /\ actor[r].permissions \subseteq Given(r)
      BY <1>1, <2>2 DEF IInv, OnePrincipal, ActorInv
    <2>4. \/ actor[r].type = "service"
          \/ DefaultScopes \subseteq actor[r].scopes
          \/ \A p \in route[r].perms :
                hasValidScope(actor[r].scopes, p) /\ hasValidScope(actor[r].permissions, p)
      BY <2>1 DEF Authorize, isForStandardFlow
    <2>5. \A p : hasValidScope(actor[r].permissions, p) => hasValidScope(Given(r), p)
      BY <2>3 DEF hasValidScope
    <2> QED BY <2>3, <2>4, <2>5
  <1> QED BY Invariant, <1>1, PTL

\* The actor and the user entity that Authenticate puts into the context belong together.
THEOREM OnePrincipalCorrect == Spec => []OnePrincipal
  <1>1. IInv => OnePrincipal BY DEF IInv
  <1> QED BY Invariant, <1>1, PTL
=============================================================================
