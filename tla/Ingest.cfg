\* Three runs of ingest over a mail and its reply, one deletion of the whole
\* mailbox and one failure anywhere.
CONSTANTS
    Runs = {r1, r2, r3}
    m1 = m1
    m2 = m2
    Mails = {m1, m2}
    NoMail = nomail
    Parent <- MCParent
    NoThread = nothread
    User = user
    Wiper = wiper
    MaxSlips = 1
    MaxWipes = 1
    \* nothing is imported
    N = 1
    Targets = {1}
    PageSize = 1
    PagesPerRun = 1
    Batch = 1
    Workers = {w}
    MaxAttempts = 1
    SortBudget = 0
    Kinds <- MCKinds
    MaxCalls = 0
    MaxFaults = 0
SPECIFICATION IngestSpec
INVARIANTS ListedHasBody TwiceOnlyByOverlap AcceptedKept RepliesStayTogether
CHECK_DEADLOCK FALSE
SYMMETRY MCSymmetry
