SPECIFICATION FairSpec
CONSTANTS
    Timeout = 2
    Slack = 2
    ReadyLimit = 2
    MaxClock = 7
    Unreliable = TRUE
INVARIANTS
    TypeOK
    NoStray
    FinishedMeansTold
    PatientTimeout
    PeakIsOfProgram
PROPERTIES
    TestEnds
