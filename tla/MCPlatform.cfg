SPECIFICATION MCSpec
CONSTANTS
    NumContexts = 2
    NumDevices = 2
    MaxPrio = 2
    Harts = {{1, 2}}
    Routed = TRUE
    Settled = TRUE
    UartId = 1
    QueueSize = 2
    MaxBackoff = 3
    MaxTyped = 3
INVARIANTS
    PinsFollowLines
    LineIsTrue
    InputInOrder
PROPERTY
    InputIsRead
