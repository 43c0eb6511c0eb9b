SPECIFICATION Spec
CONSTANTS
    w1 = w1
    w2 = w2
    Workers = {w1, w2}
    Jobs = {1, 2}
    MonitorJob = 1
    Registered = {1}
    Policies = {1, 2}
    JobOf <- MonitorJobOf
    Interval <- MonitorInterval
    Grace <- NoGrace
    Enabled <- AllEnabled
    ApprovalTimes = {0}
    WatchedJobs = {1}
    MaxTime = 2
    MaxEnds = 1
    MaxFaults = 1
SYMMETRY WorkerSymmetry
INVARIANTS TypeOK OneExecutorPerOccurrence NoLeakedLock OneSuccessPerWorker
PROPERTY AlertHistoryMonotone
