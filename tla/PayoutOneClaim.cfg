CONSTANTS
    Claims = {1}
    BatchSize = 1
    MaxRetries = 2
    WatchLimit = 2
    MinConfirmations = 1
    MaxTx = 3
    MaxHeight = 2
    MaxFaults = 2
    MaxAdminRetries = 1
SPECIFICATION Spec
INVARIANTS TypeOK AttemptsBounded ConfirmedIsSettled 
PROPERTY KeepsPromise
