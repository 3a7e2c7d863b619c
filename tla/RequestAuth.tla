----------------------------- MODULE RequestAuth -----------------------------
(***************************************************************************)
(* An HTTP request from its bearer token to its use case: the middleware   *)
(* (concrete/echo/authenticator.go), the IAM authenticator (concrete/iam), *)
(* the route guards (concrete/echo/guards.go), the token authorizer        *)
(* (concrete/token_authorizer) and the status of a refusal (echo.go).      *)
(*                                                                         *)
(* The identity provider issues tokens, changes the realm roles of its     *)
(* users meanwhile and answers userinfo calls; it and the user provisioner *)
(* of the service are modelled from how the code uses them.  A token's     *)
(* signature, issuer and format are one Boolean, since validate treats     *)
(* them alike.  The key lookup is the subject of JwksCache.                *)
(***************************************************************************)
EXTENDS Integers, FiniteSets

CONSTANTS
    Reqs,            \* requests
    Users,           \* subjects that parse as a UUID
    BadSub,          \* a subject that does not
    None,            \* no user
    Own,             \* name of this service
    Wildcard,        \* the * of a role or scope
    DefaultScopes,   \* the scopes of the standard sign-in flow
    ScopeSets,       \* scope sets a token may carry
    RoleSets,        \* realm role sets a user may have
    Routes,          \* routes of the service
    UserInfo,        \* whether a userinfo endpoint is configured (an issuer is set)
    MaxChanges       \* bound: changes of roles at the identity provider

\* A role or scope "[admin:]service:name", and the permission "service:name" a use case asks for.
Entry(admin, service, name) == [admin |-> admin, service |-> service, name |-> name]

adminRole == Entry(TRUE, Own, Wildcard)

Guards == {"none", "user", "admin", "service"}

\* What a credential says: whether it passes the stateless checks, whether it has an expiry, whether
\* it is a service account's, and whether it leaves out the realm roles.
TokenShapes ==
    [sound : BOOLEAN, timed : BOOLEAN, service : BOOLEAN, omits : BOOLEAN,
     sub : Users \union {BadSub}, scopes : ScopeSets]

ASSUME AuthAssumption ==
    /\ BadSub \notin Users
    /\ None \notin Users /\ None \notin TokenShapes /\ None \notin Routes
    /\ {} \in RoleSets
    /\ UserInfo \in BOOLEAN
    /\ MaxChanges \in Nat
    /\ \A rt \in Routes : rt.guard \in Guards /\ rt.hydrate \in BOOLEAN /\ rt.authorize \in BOOLEAN

VARIABLES
    roles,           \* roles[u]: realm roles of u at the identity provider, now
    changes,
    pc,              \* pc[r]: where request r is
    tok,             \* tok[r]: its token
    claimed,         \* claimed[r]: realm roles in the token
    expired,         \* requests whose token has expired
    route,           \* route[r]
    actor, user,     \* actor[r], user[r]: what the request context carries
    status,          \* status[r]: HTTP status, 0 while it runs
    stale, held,     \* history: token expired on arrival; roles its subject had when asked
    unnamed          \* history: unnamed[r]: roles of a userinfo answer that named no subject

idpVars == <<roles, changes, tok, claimed, expired>>
ctxVars == <<actor, user>>
vars == <<idpVars, pc, route, ctxVars, status, stale, held, unnamed>>

NoActor ==
    [type |-> "none", id |-> None, scopes |-> {}, permissions |-> {}, isAdmin |-> FALSE]

Stages == {"new", "sent", "lookup", "claims", "actor", "context", "mwEnsure", "ensure", "guard",
           "authorize", "done"}

Actors ==
    [type : {"none", "user", "service"}, id : Users \union {None}, scopes : ScopeSets \union {{}},
     permissions : RoleSets, isAdmin : BOOLEAN]

\* The types of the provider's and the requests' state; a request has a status exactly when done.
TypeOK ==
    /\ roles \in [Users -> RoleSets]
    /\ changes \in 0..MaxChanges
    /\ pc \in [Reqs -> Stages]
    /\ tok \in [Reqs -> TokenShapes \union {None}]
    /\ claimed \in [Reqs -> RoleSets]
    /\ expired \in SUBSET Reqs
    /\ route \in [Reqs -> Routes \union {None}]
    /\ actor \in [Reqs -> Actors]
    /\ user \in [Reqs -> Users \union {None}]
    /\ status \in [Reqs -> {0, 200, 401, 403, 499, 500}]
    /\ stale \in SUBSET Reqs
    /\ held \in [Reqs -> SUBSET UNION RoleSets]
    /\ unnamed \in [Reqs -> RoleSets]
    /\ \A r \in Reqs : pc[r] = "done" <=> status[r] # 0

Init ==
    /\ roles \in [Users -> RoleSets]
    /\ changes = 0
    /\ pc = [r \in Reqs |-> "new"]
    /\ tok = [r \in Reqs |-> None]
    /\ claimed = [r \in Reqs |-> {}]
    /\ expired = {}
    /\ route = [r \in Reqs |-> None]
    /\ actor = [r \in Reqs |-> NoActor]
    /\ user = [r \in Reqs |-> None]
    /\ status = [r \in Reqs |-> 0]
    /\ stale = {}
    /\ held = [r \in Reqs |-> {}]
    /\ unnamed = [r \in Reqs |-> {}]

-----------------------------------------------------------------------------
(* The identity provider.                                                  *)

RolesOf(t) == IF t.sub \in Users THEN roles[t.sub] ELSE {}

\* The provider issues a token, with or without the roles its subject has at that time.
Issue(r, t) ==
    /\ pc[r] = "new"
    /\ tok[r] = None
    /\ tok' = [tok EXCEPT ![r] = t]
    /\ claimed' = [claimed EXCEPT ![r] = IF t.omits \/ t.service THEN {} ELSE RolesOf(t)]
    /\ held' = [held EXCEPT ![r] = RolesOf(t)]
    /\ UNCHANGED <<roles, changes, expired, pc, route, ctxVars, status, stale, unnamed>>

ChangeRoles(u, R) ==
    /\ changes < MaxChanges
    /\ R # roles[u]
    /\ changes' = changes + 1
    /\ roles' = [roles EXCEPT ![u] = R]
    /\ UNCHANGED <<tok, claimed, expired, pc, route, ctxVars, status, stale, held, unnamed>>

Expire(r) ==
    /\ r \notin expired
    /\ tok[r] # None
    /\ tok[r].timed
    /\ pc[r] # "done"
    /\ expired' = expired \union {r}
    /\ UNCHANGED <<roles, changes, tok, claimed, pc, route, ctxVars, status, stale, held, unnamed>>

-----------------------------------------------------------------------------
(* The middleware.                                                         *)

Goto(r, stage) == pc' = [pc EXCEPT ![r] = stage]

\* A request arrives, with a token or without one.
Receive(r, rt) ==
    /\ pc[r] = "new"
    /\ Goto(r, "sent")
    /\ route' = [route EXCEPT ![r] = rt]
    /\ stale' = IF r \in expired THEN stale \union {r} ELSE stale
    /\ UNCHANGED <<idpVars, ctxVars, status, held, unnamed>>

\* Authenticator: a request without a bearer token goes on as it is.
BearerToken(r) ==
    /\ pc[r] = "sent"
    /\ Goto(r, IF tok[r] = None THEN "guard" ELSE "lookup")
    /\ UNCHANGED <<idpVars, route, ctxVars, status, stale, held, unnamed>>

\* validate, up to the key lookup.
validateKey(r) ==
    /\ pc[r] = "lookup"
    /\ Goto(r, IF tok[r].sound THEN "claims" ELSE "guard")
    /\ UNCHANGED <<idpVars, route, ctxVars, status, stale, held, unnamed>>

\* validate: getKey may refuse a key; Authenticate: the provisioner of the service may fail.  The
\* error is dropped and the request goes on without an actor.
AuthenticateFails(r) ==
    /\ pc[r] = "lookup" \/ (pc[r] = "actor" /\ ~tok[r].service)
    /\ Goto(r, "guard")
    /\ UNCHANGED <<idpVars, route, ctxVars, status, stale, held, unnamed>>

\* validate, after the key lookup: expiry is looked at last.
validateClaims(r) ==
    /\ pc[r] = "claims"
    /\ Goto(r, IF r \in expired THEN "guard" ELSE "actor")
    /\ UNCHANGED <<idpVars, route, ctxVars, status, stale, held, unnamed>>

serviceActor(r) ==
    [type |-> "service", id |-> tok[r].sub, scopes |-> tok[r].scopes,
     permissions |-> {}, isAdmin |-> FALSE]

userActor(r) ==
    [type |-> "user", id |-> tok[r].sub, scopes |-> tok[r].scopes,
     permissions |-> claimed[r], isAdmin |-> adminRole \in claimed[r]]

AuthenticateUserFirst(r) ==
    /\ pc[r] = "actor"
    /\ IF tok[r].sub = BadSub
       THEN Goto(r, "guard") /\ UNCHANGED ctxVars
       ELSE /\ actor' = [actor EXCEPT ![r] = IF tok[r].service THEN serviceActor(r) ELSE userActor(r)]
            /\ user' = [user EXCEPT ![r] = tok[r].sub]
            /\ Goto(r, "context")
    /\ UNCHANGED <<idpVars, route, status, stale, held, unnamed>>

\* Authenticate: the actor and, for a user, the user entity; a subject that is no UUID is an error.
Authenticate(r) ==
    /\ pc[r] = "actor"
    /\ IF tok[r].sub = BadSub
       THEN Goto(r, "guard") /\ UNCHANGED ctxVars
       ELSE /\ actor' = [actor EXCEPT ![r] = IF tok[r].service THEN serviceActor(r) ELSE userActor(r)]
            /\ user' = [user EXCEPT ![r] = IF tok[r].service THEN None ELSE tok[r].sub]
            /\ Goto(r, "context")
    /\ UNCHANGED <<idpVars, route, status, stale, held, unnamed>>

\* EnsureRoles returns at once for a service, for an actor with roles and without an endpoint.
NeedsFetch(a) == UserInfo /\ a.type = "user" /\ a.permissions = {}

\* A route may call EnsureRoles itself, in front of its guard.
AfterMiddleware(r) == IF route[r].hydrate /\ NeedsFetch(actor[r]) THEN "ensure" ELSE "guard"

\* Authenticator: an admin's roles are completed, then the context is built.
EnsureRoles(r) ==
    /\ pc[r] = "context"
    /\ Goto(r, IF actor[r].isAdmin /\ NeedsFetch(actor[r]) THEN "mwEnsure" ELSE AfterMiddleware(r))
    /\ UNCHANGED <<idpVars, route, ctxVars, status, stale, held, unnamed>>

Finish(r, code) == Goto(r, "done") /\ status' = [status EXCEPT ![r] = code]

fetchFailsAndGoesOn(r) ==
    /\ pc[r] \in {"mwEnsure", "ensure"}
    /\ status' = [status EXCEPT ![r] = IF pc[r] = "ensure" THEN 500 ELSE @]
    /\ Goto(r, AfterMiddleware(r))
    /\ UNCHANGED <<idpVars, route, ctxVars, stale, held, unnamed>>

\* EnsureRoles: the userinfo call fails, or answers for another subject.  The middleware keeps the
\* actor it had; a route's own call fails the request, with 499 if the client is gone.
fetchFails(r) ==
    /\ pc[r] \in {"mwEnsure", "ensure"}
    /\ IF pc[r] = "ensure"
       THEN \E code \in {499, 500} : Finish(r, code)
       ELSE Goto(r, AfterMiddleware(r)) /\ UNCHANGED status
    /\ UNCHANGED <<idpVars, route, ctxVars, stale, held, unnamed>>

\* The actor is completed in place, so the context carries the new roles too.
Complete(r, R) ==
    actor' = [actor EXCEPT ![r].permissions = R, ![r].isAdmin = adminRole \in R]

\* What the userinfo call returns: the claims of a subject, with its roles of now, or claims with
\* some roles and no sub.
Answer(sub, R) == sub \in Users => R = roles[sub]

\* History: what the answer says of the actor's subject, or of nobody.
Noted(r, sub, R) ==
    /\ held' = IF sub = None THEN held ELSE [held EXCEPT ![r] = @ \union roles[actor[r].id]]
    /\ unnamed' = IF sub = None THEN [unnamed EXCEPT ![r] = R] ELSE unnamed

fetchAnySubject(r, sub, R) ==
    /\ pc[r] \in {"mwEnsure", "ensure"}
    /\ Answer(sub, R)
    /\ Complete(r, R)
    /\ Noted(r, sub, R)
    /\ Goto(r, "guard")
    /\ UNCHANGED <<idpVars, route, user, status, stale>>

\* EnsureRoles: the roles of the answer, unless it is about somebody else.
fetch(r, sub, R) ==
    /\ pc[r] \in {"mwEnsure", "ensure"}
    /\ Answer(sub, R)
    /\ sub # None => sub = actor[r].id
    /\ Complete(r, R)
    /\ Noted(r, sub, R)
    /\ Goto(r, "guard")
    /\ UNCHANGED <<idpVars, route, user, status, stale>>

-----------------------------------------------------------------------------
(* The guard of the route, and the use case.                               *)

requireActor(r) == IF actor[r].type = "none" THEN 401 ELSE 200

RequireAdmin(r) ==
    IF requireActor(r) # 200 THEN 401 ELSE IF actor[r].isAdmin THEN 200 ELSE 403

RequireService(r) ==
    IF requireActor(r) # 200 THEN 401 ELSE IF actor[r].type = "service" THEN 200 ELSE 403

\* The status with which the guard of the route lets r pass or refuses it.
Require(r) ==
    CASE route[r].guard = "none" -> 200
      [] route[r].guard = "user" -> requireActor(r)
      [] route[r].guard = "admin" -> RequireAdmin(r)
      [] route[r].guard = "service" -> RequireService(r)

Guard(r) ==
    /\ pc[r] = "guard"
    /\ IF Require(r) = 200 /\ route[r].authorize
       THEN Goto(r, "authorize") /\ UNCHANGED status
       ELSE Finish(r, Require(r))
    /\ UNCHANGED <<idpVars, route, ctxVars, stale, held, unnamed>>

\* hasValidScope: the permission, its admin form, or a wildcard of its service.
hasValidScope(list, p) ==
    \E admin \in BOOLEAN, name \in {p.name, Wildcard} : Entry(admin, p.service, name) \in list

isForStandardFlow(scopes) == DefaultScopes \subseteq scopes

AuthorizeEitherList(a, perms) ==
    IF a.type = "none" THEN 401
    ELSE IF a.type = "service" \/ isForStandardFlow(a.scopes) THEN 200
    ELSE IF \E p \in perms : ~hasValidScope(a.scopes \union a.permissions, p) THEN 403
    ELSE 200

\* TokenAuthorizer.Authorize, with the status of its error.
Authorize(a, perms) ==
    IF a.type = "none" THEN 401
    ELSE IF a.type = "service" \/ isForStandardFlow(a.scopes) THEN 200
    ELSE IF \E p \in perms : ~hasValidScope(a.scopes, p) THEN 401
    ELSE IF \E p \in perms : ~hasValidScope(a.permissions, p) THEN 403
    ELSE 200

UseCase(r) ==
    /\ pc[r] = "authorize"
    /\ Finish(r, Authorize(actor[r], route[r].perms))
    /\ UNCHANGED <<idpVars, route, ctxVars, stale, held, unnamed>>

-----------------------------------------------------------------------------
Provider ==
    \/ \E r \in Reqs, t \in TokenShapes : Issue(r, t)
    \/ \E u \in Users, R \in RoleSets : ChangeRoles(u, R)
    \/ \E r \in Reqs : Expire(r)

Handle(r) ==
    \/ BearerToken(r)
    \/ validateKey(r)
    \/ AuthenticateFails(r)
    \/ validateClaims(r)
    \/ Authenticate(r)
    \/ EnsureRoles(r)
    \/ fetchFails(r)
    \/ \E sub \in Users \union {None}, R \in RoleSets : fetch(r, sub, R)
    \/ Guard(r)
    \/ UseCase(r)

Next ==
    \/ Provider
    \/ \E r \in Reqs : (\E rt \in Routes : Receive(r, rt)) \/ Handle(r)

Spec == Init /\ [][Next]_vars

-----------------------------------------------------------------------------
(* Properties.                                                             *)

Served(r) == status[r] = 200

\* The provider vouches for the token of r.
Vouched(r) == tok[r] # None /\ tok[r].sound /\ r \notin stale /\ tok[r].sub # BadSub

\* The roles the provider gave for the token of r: those of its subject when the token was issued or
\* when userinfo was asked, and those of a userinfo answer that did not say whose they are, which
\* EnsureRoles takes for the subject's (iam.go:152).
Given(r) == held[r] \union unnamed[r]

\* A guarded route is served only to a caller with the rights its guard is named for, judged by
\* what the identity provider said when the token was issued or when it was last asked, whatever
\* failed, expired or changed in between; an answer about another user never counts, one that
\* names nobody does.
GuardsHold ==
    \A r \in Reqs : Served(r) =>
        /\ route[r].guard # "none" => Vouched(r)
        /\ route[r].guard = "admin" => ~tok[r].service /\ adminRole \in Given(r)
        /\ route[r].guard = "service" => tok[r].service

\* A use case that asks for permissions runs for a restricted user token only if both the token's
\* scopes and the roles given for it contain each of them.  docs/ARCHITECTURE.md:129 says so of
\* every caller; authorizer.go:37-46 exempts service accounts and the tokens of the standard
\* sign-in flow from both lists, and this states what is left of it.
RestrictedStaysRestricted ==
    \A r \in Reqs : Served(r) /\ route[r].authorize =>
        /\ Vouched(r)
        /\ tok[r].service \/ DefaultScopes \subseteq tok[r].scopes
             \/ \A p \in route[r].perms :
                   hasValidScope(tok[r].scopes, p) /\ hasValidScope(Given(r), p)

\* The actor and the user entity of a request belong together: both are the token's subject, a user
\* entity is there exactly for user actors, and a request that failed to authenticate has neither.
OnePrincipal ==
    \A r \in Reqs :
        /\ actor[r].type = "user" <=> user[r] # None
        /\ user[r] # None => user[r] = actor[r].id
        /\ actor[r].type # "none" => actor[r].id = tok[r].sub /\ Vouched(r)

\* contract/authentication/authenticator.go:12 says the roles of an actor are completed for admin
\* routes when the token omitted them: an admin is not refused for a token without roles
\* (stated while no role has changed, so that the roles of now are the roles of the token).
AdminRolesCompleted ==
    \A r \in Reqs :
        /\ status[r] = 403
        /\ route[r].guard = "admin"
        /\ UserInfo /\ actor[r].type = "user" /\ changes = 0
        => adminRole \notin roles[actor[r].id]

-----------------------------------------------------------------------------
(* The inductive invariant behind the safety properties.                   *)

\* How far a request has come: what holds of its token at each stage of the middleware.
PathInv ==
    \A r \in Reqs :
        /\ r \in stale => r \in expired
        /\ pc[r] # "new" => route[r] # None
        /\ pc[r] \in {"lookup", "claims", "actor", "context", "mwEnsure", "ensure"} => tok[r] # None
        /\ pc[r] \in {"claims", "actor"} => tok[r].sound
        /\ pc[r] = "actor" => r \notin stale
        /\ pc[r] \in {"context", "mwEnsure", "ensure"} => actor[r].type # "none"
        /\ pc[r] \in {"mwEnsure", "ensure"} => actor[r].type = "user"
        /\ tok[r] # None => claimed[r] \subseteq held[r]

\* What the actor of a request may claim: no more than its token and the roles given for it.
ActorInv ==
    \A r \in Reqs : actor[r].type # "none" =>
        /\ pc[r] \in {"context", "mwEnsure", "ensure", "guard", "authorize", "done"}
        /\ actor[r].type = "service" <=> tok[r].service
        /\ actor[r].scopes = tok[r].scopes
        /\ actor[r].permissions \subseteq Given(r)
        /\ actor[r].isAdmin => actor[r].type = "user" /\ adminRole \in actor[r].permissions

\* A request behind its guard satisfies it.
GuardInv ==
    \A r \in Reqs : pc[r] = "authorize" \/ Served(r) =>
        /\ route[r].guard # "none" => actor[r].type # "none"
        /\ route[r].guard = "admin" => actor[r].isAdmin
        /\ route[r].guard = "service" => actor[r].type = "service"

\* A request whose use case was authorized was so for the actor in its context.
AuthorizedInv ==
    \A r \in Reqs : Served(r) /\ route[r].authorize => Authorize(actor[r], route[r].perms) = 200

\* Holds initially, is preserved by every step, and implies the safety properties.
IInv == TypeOK /\ PathInv /\ OnePrincipal /\ ActorInv /\ GuardInv /\ AuthorizedInv
=============================================================================
