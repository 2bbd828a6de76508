SPECIFICATION FairSpec
CONSTANTS
    A = A
    B = B
    none = none
    unsent = unsent
    one = one
    two = two
    Devices <- MCDevices
    FileCount = 1
    Locked = {1}
    Managed = {A}
    Contents <- OneText
    Absent = none
    Unsent = unsent
    MaxRevisions = 4
    MaxRows = 5
    MaxEdits = 2
    MaxFaults = 1
    MaxDecisions = 1
INVARIANTS ReceiptsAgree
PROPERTIES ReportsAreComplete Settles
