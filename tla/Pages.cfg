\* Three requests on a draft, two runs of the backfill, two tabs on a folder that sort
\* mail of two windows,
\* and one death or failure.
CONSTANTS
    MaxFaults = 1
    Requests = {q1, q2, q3}
    Wiper = w
    MaxWipes = 1
    N = 3
    OldThread <- TwoThreads
    Runs = {b1, b2}
    None = none
    Tabs = {t1, t2}
    Mail = {1, 2}
    RuleTexts = {"a", "b"}
    Fits <- TwoRules
    Mine = 1
    Windows = {"short", "wide"}
    Covers <- TwoWindows
    SortWindow = "wide"
    ShortWindow = "short"
    MaxPosts = 3
    MaxEdits = 1
SYMMETRY Alike
SPECIFICATION Spec
INVARIANTS SentWithItsFiles UnsentKept LegacyKept MovedOnce
    ToldOfItsRule FolderFits
CHECK_DEADLOCK FALSE
