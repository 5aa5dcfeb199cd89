SPECIFICATION Spec
CONSTANTS
    REQUEUE_INTERVAL = 30
    ERROR_REQUEUE = 6
    Imminent = 6
    FireRequeue = 1
    Interval = 33
    Latency = 2
    MaxFaults = 1
    MaxDeletes = 1
    Never = Never
INVARIANT TypeOK
INVARIANT NeverForgotten
INVARIANT ActedOnInTime
