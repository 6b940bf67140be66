SPECIFICATION FairSpec
CONSTANTS
    t1 = t1
    t2 = t2
    Targets = {t1, t2}
    Refs0 <- TwoTargets
    Modes = {"WaitForApplied"}
    PollInterval = 1
    WaitAfterApplied = 1
    WaitInterval = 2
    Bad <- BadSecond
    Lag = {}
    FaultKinds = {}
    MaxFaults = 0
    MaxRender = 3
    MaxEdits = 0
    MaxDeletes = 0
    MaxUpsets = 0
PROPERTIES
    ResumesAfterRender
CHECK_DEADLOCK FALSE
