SPECIFICATION FairSpec
CONSTANTS
    MaxSessions = 1
    MaxRejects = 1
    MaxOutages = 0
    MaxBreaks = 0
    MaxWorkers = 2
PROPERTY
    StreamResumes
CHECK_DEADLOCK FALSE
