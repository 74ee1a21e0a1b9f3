\* One message, two changes of it at Gmail and one in Busta, one failure of any
\* kind, one import beside the sync, and the account connected again.
CONSTANTS
    Msgs = {1}
    Unwanted = {}
    MaxEvents = 2
    MaxChanges = 1
    MaxTries = 1
    ListMax = 1
    MaxFaults = 1
    MaxImports = 1
    MaxConnects = 2
SPECIFICATION Spec
INVARIANTS NothingSkipped SidesAgree
PROPERTIES ReconnectOnlyForCause
CHECK_DEADLOCK FALSE
