SPECIFICATION Spec
CONSTANTS
    q1 = q1
    q2 = q2
    q3 = q3
    g = g
    Requests <- MCRequests
    Birth <- MCBirth
    Generations = {g}
    NoGeneration = noGeneration
    Uncharged = uncharged
    Reservations = {2}
    Costs = {1, 3}
    Times = {0, 1, 2, 3}
    DayLength = 2
    MaxAge = 1
    FutureTolerance = 1
    Retention = 2
    MinAge = 1
    Budget = 3
    Slots = 1
    MaxRecords = 2
    PurgeBatch = 1
INVARIANTS TypeOK BudgetHeld CoverageHonest
PROPERTIES ImplementsLifecycle
