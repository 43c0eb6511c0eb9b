SPECIFICATION Spec
CONSTANTS
    w1 = w1
    w2 = w2
    Workers = {w1, w2}
    Jobs = {2}
    MonitorJob = 1
    Registered = {2}
    Policies = {1, 2}
    JobOf <- VersionsJobOf
    Interval <- VersionsInterval
    Grace <- NoGrace
    Enabled <- AllEnabled
    ApprovalTimes = {0}
    WatchedJobs = {}
    MaxTime = 2
    MaxEnds = 1
    MaxFaults = 1
SYMMETRY WorkerSymmetry
INVARIANT OccurrenceExecutedOnce
