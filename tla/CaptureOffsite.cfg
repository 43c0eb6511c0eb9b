SPECIFICATION FairSpec

CONSTANTS
    Partitions <- TwoPartitions
    Bytes <- SumOfSizes
    Foreign <- TheLarger
    MaxFaults = 1
    Budget = 2
    BudgetWindow = 3
    Horizon = 0
    MaxUploads = 1
    Lifecycle = 2
    MaxLosses = 1
    MaxRun = 1
    MaxTime = 3

INVARIANTS
    TypeOK
    SealedStaysComplete
    LedgerNeverOverstates
    BucketWithinBudget

PROPERTIES
    NeverResent
    SealedEventuallySent

\* No action is left when the clock and the partitions are used up.
CHECK_DEADLOCK FALSE
