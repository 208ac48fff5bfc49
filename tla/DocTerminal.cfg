CONSTANTS
    Claims = {1}
    BatchSize = 1
    MaxRetries = 2
    WatchLimit = 2
    MinConfirmations = 0
    MaxTx = 2
    MaxHeight = 2
    MaxFaults = 1
    MaxAdminRetries = 1
SPECIFICATION Spec
PROPERTY TerminalIsFinal
