SPECIFICATION Spec
CONSTANTS
    Replicas = {r1, r2, r3}
    LeaseDuration = 15
    RenewInterval = 5
    RetryInterval = 3
    Latency = 2
    FailoverLimit = 30
    MaxFaults = 1
    NoLease = NoLease
SYMMETRY ReplicaSymmetry
INVARIANT TypeOK
INVARIANT FailoverInTime
PROPERTY NoTakeoverFromLeader
