\* Four messages in a thread and its alarm alone: High 2 and Budget 1 leave it over
\* the watermark after a run. Two messages at Gmail, the second unwanted, a page of
\* one in a catch-up, no import and one sign-in. Three rows in an index, one of them
\* sent, whose relief takes several alarms. A question, one link, one request to open
\* it, two faults. One failure of any kind elsewhere.
CONSTANTS
    Msgs = {1, 2, 3, 4}
    Legacy = {}
    Alarm = alarm
    Sweepers = {alarm}
    Readers = {}
    Purgers = {p1}
    High = 2
    Low = 0
    Budget = 1
    Batch = 1
    MaxFaults = 1
    Mail = {1, 2}
    Unwanted = {2}
    MaxEvents = 2
    MaxChanges = 1
    MaxTries = 1
    ListMax = 1
    MaxImports = 0
    MaxConnects = 1
    Rows = {1, 2, 3}
    Ours = {2}
    Chars <- ThreeSizes
    Floor = 1
    IndexHigh = 4
    IndexLow = 2
    IndexBudget = 1
    Questions = {q1}
    Links = {1}
    Browsers = {b1}
    Phones = {k1}
    MaxAttempts = 2
    MaxPinFails = 1
    MaxReissues = 1
    MaxOpens = 1
    MaxSlips = 2
SPECIFICATION WakeupsSpec
INVARIANTS SearchDepth
PROPERTIES SpaceRelieved CaughtUp QuestionSettles
CHECK_DEADLOCK FALSE
