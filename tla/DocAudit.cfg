SPECIFICATION UninterruptedSpec
CONSTANTS
    a1 = a1
    a2 = a2
    camp = camp
    code = code
    entry = entry
    key = key
    clm = clm
    Admins = {a1, a2}
    Campaigns = {camp}
    Codes = {code}
    Entries = {entry}
    CampaignOf <- OneCampaign
    BlockKeys = {key}
    Claims = {clm}
    Policies = {"p1"}
    Definitions = {"d1"}
    MaxRequests = 3
    MaxFaults = 1
SYMMETRY Symmetry
INVARIANT UnauditedChangesNotActive
CHECK_DEADLOCK FALSE
