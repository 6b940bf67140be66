SPECIFICATION FairSpec
CONSTANTS
    Nodes = {"n1", "n2"}
    Endpoints = 2
    Faults = {"down", "lost", "late", "patch", "hang", "operator"}
    MaxFaults = 3
    MaxMoves = 2
    MaxCalls = 2
INVARIANTS
    TypeOK
    ExtraRunsUnanswered
    RunsOwnScript
PROPERTIES
    StatusSettles
    CallsReturn
CHECK_DEADLOCK FALSE
