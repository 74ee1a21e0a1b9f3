\* One person in two organizations with two numbers, two requests at once, one
\* request cut off.
CONSTANTS
    a1 = a1
    a2 = a2
    p = p
    Accounts = {a1, a2}
    UserOf <- MCUserOf
    Numbers = {n1, n2}
    Workers = {w1, w2}
    None = None
    MaxCodes = 2
    MaxRequests = 3
    MaxFaults = 1
SPECIFICATION Spec
SYMMETRY Symmetry
INVARIANTS NumberHasOneOwner AgreedForNumber ChangePauses StopStops
CHECK_DEADLOCK FALSE
