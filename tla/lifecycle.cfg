SPECIFICATION FairSpec
CONSTANTS
    Targets = {"t1", "t2"}
    Rollouts = {TRUE, FALSE}
    Lagging = {"targets", "sources", "binding", "cfg"}
    MaxUid = 2
    MaxOps = 2
INVARIANTS
    TypeOK
    RefsExist
CHECK_DEADLOCK FALSE
PROPERTIES
    DeletionEnds
    OrphansGo
    ConfigsMade
