SPECIFICATION Spec
CONSTANTS
    Flushers = {1}
    OfflineDays = 1
    IdleDays = 1
    RetentionDays = 3
    Receipts = 1
    Durations = {1}
    QueueEvents = 2
    MaxSkew = 1
    NoBatch = noBatch
    Never = never
    MaxTime = 4
    MaxRecords = 3
    MaxFaults = 1
INVARIANTS TypeOK DropsAccounted OneChain NoBrokenChain DeliveredIsStored
PROPERTIES StoredOnce
