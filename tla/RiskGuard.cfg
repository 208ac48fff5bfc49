SPECIFICATION Spec
CONSTANTS
    Handlers = {h1, h2}
    Forms <- Clients
    Outcomes = {"claim_accepted", "cooldown_active"}
    IPThreshold = 2
    AddressThreshold = 2
    FingerprintThreshold = 1
    BurstThreshold = 3
    RotatingThreshold = 2
    ClusterThreshold = 2
    RejectScore = 3
    Window = 2
    BurstWindow = 1
    Retention = 2
    Past <- Earlier
    Blockable = {"a1"}
    Instants = {3, 6}
    MaxRequests = 2
    MaxFaults = 1
INVARIANTS TypeOK LockedOutStaysOut RejectedForOwnDeeds
SYMMETRY Symmetry
CHECK_DEADLOCK FALSE
