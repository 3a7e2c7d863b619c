SPECIFICATION Spec
CONSTANTS
    assets = assets
    write = write
    openid = openid
    profile = profile
    r1 = r1
    u1 = u1
    u2 = u2
    Reqs = {r1}
    Users = {u1, u2}
    BadSub = BadSub
    None = None
    Own = assets
    Wildcard = Wildcard
    DefaultScopes = {openid, profile}
    ScopeSets <- MCScopeSets
    RoleSets <- MCRoleSets
    Routes <- MCRoutes
    UserInfo = TRUE
    MaxChanges = 1
INVARIANTS AdminRolesCompleted
CHECK_DEADLOCK FALSE
