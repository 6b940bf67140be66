SPECIFICATION FairSpec
CONSTANTS
    Provider = "kubevirt"
    MaxLag = 0
    Faults = {"patch", "exec", "probe", "agent", "operator"}
    MayHang = TRUE
    Legacy = TRUE
    MaxFaults = 1
    MaxGen = 2
    MaxUid = 1
    MaxBoots = 0
    MaxScripts = 5
INVARIANTS
    TypeOK
    AppliedMatchesPhase
    CalmIsSerial
PROPERTIES
    ImplementsContract
    Settles
    InFlightBounded
CHECK_DEADLOCK FALSE
