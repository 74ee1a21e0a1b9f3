SPECIFICATION ProvisionSpec
CONSTANTS
    Orgs = {o1, o2}
    Admins = {o1, o2}
    System = System
    None = None
    Names = {n1, n2}
    Reports = {s1}
    Gmails = {g1}
    Requests = {r1, r2}
    MaxFaults = 1
    \* there is no mail to list
    Accounts = {1}
    Msgs = {}
    Matching = {}
    Times = {1}
    Views = {"messages"}
    PageSize = 1
    Window = 1
    Limit = 1
    MaxScan = 1
    MaxFlips = 0
SYMMETRY Symmetry
INVARIANTS
    ListedIffOwned
    OneFirstMailbox
CHECK_DEADLOCK FALSE
