SPECIFICATION SenderSpec
CONSTANTS
    MaxTx = 2
    MaxFaults = 1
INVARIANT NoncesNotDuplicated
CHECK_DEADLOCK FALSE
