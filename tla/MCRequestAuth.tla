---------------------------- MODULE MCRequestAuth ----------------------------
(* Instances of RequestAuth for TLC: a service with a route per guard, one of  *)
(* which completes the roles itself, and one permission.                       *)
EXTENDS RequestAuth

CONSTANTS assets, write, openid, profile, r1, u1, u2

MCPerm == [service |-> assets, name |-> write]
MCUserRole == Entry(FALSE, assets, write)

MCRoleSets == {{}, {adminRole}, {MCUserRole}}
MCScopeSets == {{openid, profile}, {openid, MCUserRole}, {openid}}

MCRoute(guard, hydrate, authorize) ==
    [guard |-> guard, hydrate |-> hydrate, authorize |-> authorize, perms |-> {MCPerm}]

MCRoutes ==
    {MCRoute("none", FALSE, TRUE), MCRoute("user", TRUE, TRUE), MCRoute("admin", FALSE, FALSE),
     MCRoute("admin", TRUE, FALSE), MCRoute("service", FALSE, FALSE)}
=============================================================================
