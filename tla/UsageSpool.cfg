CONSTANTS
    QueueCap = 2
    BatchSize = 2
    LineBytes = 2
    MaxSpoolBytes = 5
    MaxEvents = 5
    MaxRestarts = 1
    MaxFaults = 1
SPECIFICATION FairSpec
CHECK_DEADLOCK FALSE
INVARIANTS
    EventsAccounted
PROPERTIES
    EventsArrive
