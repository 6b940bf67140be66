SPECIFICATION FairSpec
CONSTANTS
    Configs = {c1, c2}
    MaxCalls = 3
    MaxRestarts = 1
    MaxFaults = 1
INVARIANTS
    TypeOK
    RegistryBounded
    OwnBeforeRestart
PROPERTIES
    Settles
CHECK_DEADLOCK FALSE
