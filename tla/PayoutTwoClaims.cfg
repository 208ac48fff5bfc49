CONSTANTS
    Claims = {1, 2}
    BatchSize = 2
    MaxRetries = 2
    WatchLimit = 1
    MinConfirmations = 0
    MaxTx = 2
    MaxHeight = 0
    MaxFaults = 1
    MaxAdminRetries = 0
SPECIFICATION FairSpec
INVARIANTS AtMostOncePayout 
PROPERTY NoClaimIsForgotten
