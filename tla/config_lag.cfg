SPECIFICATION Spec
CONSTANTS
    Provider = "proxmox"
    MaxLag = 1
    Faults = {}
    MayHang = FALSE
    Legacy = FALSE
    MaxFaults = 0
    MaxGen = 2
    MaxUid = 2
    MaxBoots = 0
    MaxScripts = 4
INVARIANTS
    AppliedSound
    HandleMatchesGeneration
    TimeoutClockMatchesExec
PROPERTIES
    PatchSameIncarnation
    ObservedNeverRegresses
CHECK_DEADLOCK FALSE
