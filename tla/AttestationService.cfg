CONSTANTS
    r1 = r1
    r2 = r2
    r3 = r3
    w1 = w1
    w2 = w2
    None = None
    Torn = Torn
    Default = Default
    Policies = {p1, p2}
    Reqs = {r1, r2, r3}
    Workers = {w1, w2}
    WorkerOf <- MCWorkerOf
    Deployments <- MCDeployments
    PoolSize = 2
    MaxDrops = 1
    MaxCrashes = 1
SPECIFICATION LiveSpec
CHECK_DEADLOCK FALSE
INVARIANTS
    QueuesWork
    PoliciesWhole
PROPERTIES
    EveryRequestEnds
