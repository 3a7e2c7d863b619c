SPECIFICATION FairSpec
CONSTANTS
    a = a
    b = b
    e1 = e1
    e2 = e2
    h1 = h1
    h2 = h2
    h3 = h3
    k1 = k1
    k2 = k2
    old = old
    new = new
    j1 = j1
    j2 = j2
    None = None
    NoObject = NoObject
    Jobs = {j1, j2}
    Movers = {j1, j2}
    Main = j2
    UseCases = {a, b}
    Events = {e1, e2}
    Handlers = {h1, h2, h3}
    Emits <- MCEmits
    Calls <- MCCalls
    Wired <- MCWired
    Late <- MCLate
    MaxDepth = 2
    MaxOpen = 3
    Keys = {k1, k2}
    Uploads = {new}
    Stored <- MCStored
    Services <- MCServices
INVARIANTS TypeOK UnitAtomic PoolAccounted MoveKeepsContent DrainedBeforeClose ConsoleReports NobodyBlocked
PROPERTIES CommandsReturn ProcessEnds
CHECK_DEADLOCK FALSE
