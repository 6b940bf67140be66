SPECIFICATION Spec
CONSTANTS
    Provider = "daemon"
    MaxLag = 0
    Faults = {"agent", "operator"}
    MayHang = TRUE
    Legacy = TRUE
    MaxFaults = 1
    MaxGen = 1
    MaxUid = 1
    MaxBoots = 1
    MaxScripts = 5
INVARIANTS
    AppliedSound
CHECK_DEADLOCK FALSE
