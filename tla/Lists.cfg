\* Two accounts, three messages of two dates, pages of one, slices of two
\* numbers, and two things done by others meanwhile.
CONSTANTS
    Accounts = {1, 2}
    Msgs = {m1, m2, m3}
    Matching = {m1, m2}
    Times = {1, 2}
    Views = {"messages", "trash"}
    PageSize = 1
    Window = 2
    Limit = 1
    MaxScan = 2
    MaxFlips = 2
SPECIFICATION Spec
SYMMETRY Symmetry
INVARIANTS ShownOnce NewestFirst LiveHasBody
CHECK_DEADLOCK FALSE
