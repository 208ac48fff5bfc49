SPECIFICATION Spec
CONSTANTS
    Nodes = {"b", "v", "w", "x", "y"}
    Role <- Roles
    Accounts = {"faucet"}
    Invocations <- CommandLines
    MaxRuns = 3
    MaxStops = 1
INVARIANTS TypeOK NoLostKey NetworkIsConsistent FailureIsExplained
PROPERTY KeysAreForever
CHECK_DEADLOCK FALSE
