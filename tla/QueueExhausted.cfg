SPECIFICATION Spec
CONSTANTS
    m1 = m1
    m2 = m2
    m3 = m3
    s1 = s1
    s2 = s2
    None = None
    Msgs = {m1, m2, m3}
    Subs = {s1, s2}
    SubOf <- MCSubOf
    MaxDeliver = 2
    Malformed = {}
    Unkeyed = {}
    NoMeta = {}
    MaxFaults = 1
INVARIANT ExhaustedHasRow
CHECK_DEADLOCK FALSE
