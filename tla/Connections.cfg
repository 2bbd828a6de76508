SPECIFICATION Spec
CONSTANTS
    Connection = {c}
    None = none
    MaxRequests = 4
    MaxGrants = 2
    MaxFaults = 2
INVARIANTS TypeOK Traceable BindingTested
CHECK_DEADLOCK FALSE
