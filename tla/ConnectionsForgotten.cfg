SPECIFICATION Spec
CONSTANTS
    Connection = {c}
    None = none
    MaxRequests = 3
    MaxGrants = 1
    MaxFaults = 2
INVARIANTS ForgottenStays
CHECK_DEADLOCK FALSE
