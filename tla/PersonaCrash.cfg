SPECIFICATION Spec
CONSTANTS
    A = A
    B = B
    none = none
    unsent = unsent
    one = one
    two = two
    Devices <- MCDevices
    FileCount = 2
    Locked = {2}
    Managed = {}
    Contents <- TwoTexts
    Absent = none
    Unsent = unsent
    MaxRevisions = 3
    MaxRows = 4
    MaxEdits = 3
    MaxFaults = 1
    MaxDecisions = 0
SYMMETRY Interchangeable
INVARIANTS BaselineIsHistory
PROPERTIES NoBlindOverwrite NoSilentLoss
