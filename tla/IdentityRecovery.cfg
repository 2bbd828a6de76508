SPECIFICATION FairSpec
CONSTANTS
    Commands = {c1, c2}
    Databases = {connections, telemetry}
    People = {alice, bob}
    Owner = alice
    Nobody = nobody
    NoData = noData
    MaxOperations = 2
    MaxDeaths = 2
INVARIANTS OneIdentity Resumable NothingLost
PROPERTIES Published ImplementsIdentity
