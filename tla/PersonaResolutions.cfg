SPECIFICATION Spec
CONSTANTS
    A = A
    B = B
    none = none
    unsent = unsent
    one = one
    two = two
    Devices <- MCDevices
    FileCount = 1
    Locked = {1}
    Managed = {}
    Contents <- TwoTexts
    Absent = none
    Unsent = unsent
    MaxRevisions = 3
    MaxRows = 6
    MaxEdits = 3
    MaxFaults = 0
    MaxDecisions = 2
SYMMETRY Interchangeable
INVARIANTS OneOpenUpdate
PROPERTIES ConflictNeedsDecision RevisionMonotone NoSilentLoss NoBlindOverwrite
\* Both devices may wait for a decision of their owner, who has none left.
CHECK_DEADLOCK FALSE
