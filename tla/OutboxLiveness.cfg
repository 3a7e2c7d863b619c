SPECIFICATION FairSpec
CONSTANTS
    s1 = s1
    s2 = s2
    r1 = r1
    Sessions = {s1, s2}
    Relays = {r1}
    MaxId = 3
    BatchSize = 2
    Malformed = {1}
    MaxFaults = 2
    MaxExpiries = 0
PROPERTIES ContractSettled StopTerminates
