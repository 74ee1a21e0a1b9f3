\* Three messages, one of them old, the alarm and one operator, a reader and a
\* purger, and one fault anywhere. Batch 1 makes a relief run take two batches.
CONSTANTS
    Msgs = {1, 2, 3}
    Legacy = {1}
    Alarm = alarm
    Sweepers = {alarm, operator}
    Readers = {r1}
    Purgers = {p1}
    High = 2
    Low = 0
    Budget = 2
    Batch = 1
    MaxFaults = 1
SPECIFICATION Spec
CHECK_DEADLOCK FALSE
INVARIANTS BodyKept ReadFindsBody OrphanAccounted
