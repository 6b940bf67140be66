SPECIFICATION Spec
CONSTANTS
    Configs = {c1, c2}
    MaxCalls = 4
    MaxRestarts = 1
    MaxFaults = 0
INVARIANTS
    ResultIsOwn
CHECK_DEADLOCK FALSE
