SPECIFICATION Spec
CONSTANTS
    s1 = s1
    s2 = s2
    r1 = r1
    r2 = r2
    Sessions = {s1, s2}
    Relays = {r1, r2}
    MaxId = 3
    BatchSize = 2
    Malformed = {2}
    MaxFaults = 2
    MaxExpiries = 1
SYMMETRY Perms
INVARIANTS TypeOK NoEventLost CausalOrder CopyBound
PROPERTY ImplementsContract
