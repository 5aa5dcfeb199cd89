SPECIFICATION Spec
CONSTANTS
    r1 = r1
    i1 = i1
    i2 = i2
    p1 = p1
    p2 = p2
    n1 = n1
    n2 = n2
    Replicas = {r1}
    Images = {i1, i2}
    Pods = {p1}
    Namespaces = {n1}
    None = None
    NoJob = NoJob
    PodNamespace <- MCPodNamespace
    PodImages <- MCPodImages
    Specs <- GoodOnly
    PodPhases <- RunningOnly
    BackoffLimit = 0
    Interval = 1
    CronPeriod = 2
    Jitter = 0
    TTL = 1
    StaleCache = FALSE
    Skew = 0
    MaxTime = 1
    MaxEdits = 0
    MaxFaults = 0
    MaxFailures = 0
SYMMETRY ImageSymmetry
INVARIANT CompletedCoversImages
