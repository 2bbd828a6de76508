SPECIFICATION FairSpec
CONSTANTS
    Request = {1, 2}
    None = none
    MaxCalls = 2
    MaxBodies = 2
    Streaming = {1}
    MaxRequests = 2
    MaxConnections = 1
INVARIANTS AnswerRecorded Reconcilable Reported OneExecution
PROPERTIES Settled 
CHECK_DEADLOCK FALSE
