SPECIFICATION FairSpec
CONSTANTS
    w1 = w1
    w2 = w2
    Workers = {w1, w2}
    Jobs = {1, 2}
    MonitorJob = 3
    Registered = {2}
    Policies = {1, 2}
    JobOf <- MonitorJobOf
    Interval <- MonitorInterval
    Grace <- NoGrace
    Enabled <- AllEnabled
    ApprovalTimes = {0}
    WatchedJobs = {}
    MaxTime = 1
    MaxEnds = 2
    MaxFaults = 1
PROPERTY DueEventuallyExecuted
