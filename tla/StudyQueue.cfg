SPECIFICATION FairSpec
CONSTANTS
    w1 = w1
    w2 = w2
    NoOne = NoOne
    Workers = {w1, w2}
    Planned = 2
    BatchSize = 2
    Lease = 5
    MaxWork = 1
    MaxLatency = 1
    MaxMishaps = 1
    MaxRetries = 1
INVARIANTS TypeOK AttemptsAccounted ResultIsOfHolder LeaseOutlastsWork
PROPERTY StudySettles
