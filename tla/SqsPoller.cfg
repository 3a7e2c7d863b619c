SPECIFICATION FairSpec
CONSTANTS
    m1 = m1
    m2 = m2
    None = None
    Msgs = {m1, m2}
    Body <- MCBody
    Garbage = {}
    Pollers = {p1, p2}
    MaxMessages = 2
    MaxFaults = 2
    MaxEarly = 1
INVARIANTS TypeOK NoRecordLost
PROPERTIES ImplementsContract EventuallyDeleted StopTerminates
