SPECIFICATION Spec
CONSTANTS
    Replicas = {r1, r2}
    LeaseDuration = 15
    RenewInterval = 5
    RetryInterval = 3
    Latency = 1
    FailoverLimit = 30
    MaxFaults = 0
    NoLease = NoLease
SYMMETRY ReplicaSymmetry
INVARIANT AtMostOneLeader
