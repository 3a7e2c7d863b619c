SPECIFICATION FairSpec
CONSTANTS
    m1 = m1
    m2 = m2
    m3 = m3
    s1 = s1
    s2 = s2
    None = None
    Msgs = {m1, m3}
    Subs = {s1, s2}
    SubOf <- MCSubOf
    Malformed = {m3}
    MaxFaults = 2
    MaxLate = 1
INVARIANTS TypeOK RepeatsPaidFor
PROPERTIES ImplementsContract NeverAbandoned
CHECK_DEADLOCK FALSE
