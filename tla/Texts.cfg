\* An account with one number, one request on its settings or one text; a question,
\* one link, three requests to open it, two faults.
CONSTANTS
    Accounts = {a1}
    Me = a1
    UserOf <- MCUserOf
    Numbers = {n1}
    Workers = {w1}
    None = None
    MaxCodes = 0
    MaxRequests = 1
    MaxFaults = 0
    MaxSlips = 2
    Questions = {q1}
    Links = {1}
    Browsers = {b1, b2}
    Phones = {k1}
    MaxAttempts = 2
    MaxPinFails = 1
    MaxReissues = 1
    MaxTries = 3
SPECIFICATION TextsSpec
SYMMETRY Symmetry
INVARIANTS AnsweredOnce UsedOnce
CHECK_DEADLOCK FALSE
