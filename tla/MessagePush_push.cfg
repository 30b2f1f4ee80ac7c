\* Two messages of one task, two handlers that share a client; pushes may last
\* longer than nsqd waits, and the process may crash once.
CONSTANTS
    Tasks = {t1}
    Ids = {i1, i2}
    Handlers = {h1, h2}
    Timeouts = {x1}
    Settings <- OneTimeout
    Slow = TRUE
    MaxStops = 1
    None = None
SPECIFICATION FairSpec
INVARIANTS
    TypeOK
    LeavesForAReason
    OneClientPerTimeout
    BoundedPushes
    GivenUpIsReported
PROPERTIES
    ConfirmedIsLeftAlone
    MessagesLeave
CHECK_DEADLOCK FALSE
