SPECIFICATION Spec
CONSTANTS
    Candidates = 2
    Migrations = 1
    Modes <- LiveAndDry
    MaxStarts = 3
    MaxTx = 2
    MaxFaults = 2
INVARIANTS
    TypeOK
    ServesWhatItValidated
    NoUseAfterClose
    NothingLeftOpen
    ReplacedOnlyAfterReseed
    GapsExplained
PROPERTY StopEnds
CHECK_DEADLOCK FALSE
