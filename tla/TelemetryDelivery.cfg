SPECIFICATION FairSpec
CONSTANTS
    Flushers = {1, 2}
    OfflineDays = 0
    IdleDays = 1
    RetentionDays = 1
    Receipts = 1
    Durations = {0}
    QueueEvents = 2
    MaxSkew = 0
    NoBatch = noBatch
    Never = never
    MaxTime = 1
    MaxRecords = 2
    MaxFaults = 1
PROPERTIES Emptied
