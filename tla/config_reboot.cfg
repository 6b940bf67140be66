SPECIFICATION FairSpec
CONSTANTS
    Provider = "proxmox"
    MaxLag = 0
    Faults = {"patch", "probe"}
    MayHang = TRUE
    Legacy = FALSE
    MaxFaults = 1
    MaxGen = 1
    MaxUid = 1
    MaxBoots = 1
    MaxScripts = 5
INVARIANTS
    OneApplyPerReboot
    CalmIsSerial
PROPERTIES
    Settles
CHECK_DEADLOCK FALSE
