SPECIFICATION Spec
CONSTANTS
    SyncInterval = 4
    Tolerance = 1
    CheckGuestUptime = TRUE
    BootDelay = 1
    PollDelay = 1
    Slack = 0
    Faults = {"fetch", "agent", "patch", "cluster", "operator"}
    MaxFaults = 1
    MaxBoots = 2
    MaxTime = 23
INVARIANTS
    TypeOK
    StampPerReboot
    RebootSeen
    NodeCleared
PROPERTIES
    RebootTimeAdvances
CHECK_DEADLOCK FALSE
