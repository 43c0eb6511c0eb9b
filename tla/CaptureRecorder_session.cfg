SPECIFICATION FairSpec

CONSTANTS
    DayLength = 3
    Steps <- BackByOne
    MaxTime = 3
    MaxSteps = 1
    MaxRecords = 2
    MaxSessions = 2
    MaxLosses = 1

INVARIANTS
    TypeOK
    SealedReplays
    HoleFree
    NeverBridged
    WriterNeverRefuses
    GapsAreTheHoles

PROPERTY RecordingResumes

\* No action is left when the sessions, or the clock, are used up.
CHECK_DEADLOCK FALSE
