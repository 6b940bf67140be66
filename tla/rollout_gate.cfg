SPECIFICATION Spec
CONSTANTS
    t1 = t1
    t2 = t2
    Targets = {t1, t2}
    Refs0 <- TwoTargets
    Modes = {"WaitForApplied"}
    PollInterval = 1
    WaitAfterApplied = 1
    WaitInterval = 2
    Bad <- BadSecond
    Lag = {}
    FaultKinds = {"patch", "write", "render", "crash"}
    MaxFaults = 1
    MaxRender = 2
    MaxEdits = 1
    MaxDeletes = 1
    MaxUpsets = 1
INVARIANTS
    TypeOK
    AtMostOneUnverified
    UnverifiedIsFrontier
PROPERTIES
    ReadySound
CHECK_DEADLOCK FALSE
