SPECIFICATION Spec
CONSTANTS
    m1 = m1
    m2 = m2
    m3 = m3
    s1 = s1
    s2 = s2
    None = None
    Msgs = {m1, m2, m3}
    Subs = {s1, s2}
    SubOf <- MCSubOf
    MaxDeliver = 2
    Malformed = {m2}
    Unkeyed = {m2}
    NoMeta = {}
    MaxFaults = 1
INVARIANT StoppedMeansDrained
CHECK_DEADLOCK FALSE
