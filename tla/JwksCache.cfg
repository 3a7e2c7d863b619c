SPECIFICATION FairSpec
CONSTANTS
    r1 = r1
    r2 = r2
    a = a
    b = b
    NoReq = NoReq
    NoKid = NoKid
    Requests = {r1, r2}
    Kids = {a, b}
    MaxVersion = 3
    KeySet <- MCKeySet
    Broken = {2}
    Cooldown = 2
    MaxTime = 5
INVARIANTS TypeOK FetchesSpaced
PROPERTIES CacheNeverGoesBack RefusalJustified LookupsReturn
