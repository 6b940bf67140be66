SPECIFICATION FairSpec
CONSTANTS
    t1 = t1
    t2 = t2
    Targets = {t1, t2}
    Refs0 <- TwoTargets
    Modes = {"Disabled", "FixedInterval", "WaitForApplied"}
    PollInterval = 1
    WaitAfterApplied = 1
    WaitInterval = 1
    Bad <- NoBad
    Lag = {"FixedInterval", "WaitForApplied"}
    FaultKinds = {"patch", "write", "render", "crash"}
    MaxFaults = 1
    MaxRender = 2
    MaxEdits = 0
    MaxDeletes = 0
    MaxUpsets = 0
PROPERTIES
    FixedIntervalStagger
    Completes
CHECK_DEADLOCK FALSE
