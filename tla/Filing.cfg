\* One message, two folders, two sorts at once or one after the other and one
\* sorter cut off.
CONSTANTS
    Msgs = {m1}
    Folders = {f1, f2}
    NoFolder = nofolder
    Sorters = {s1, s2}
    All = all
    NoKey = nokey
    NoChoice = nochoice
    MaxSorts = 2
    MaxFaults = 1
SPECIFICATION Spec
INVARIANTS PersonWins DanglingAccounted MovedCanBeUndone
CHECK_DEADLOCK FALSE
SYMMETRY MCSymmetry
