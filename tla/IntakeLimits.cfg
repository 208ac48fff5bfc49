CONSTANTS
    r1 = r1
    r2 = r2
    Requests = {r1, r2}
    Forms <- LimitForms
    DailyBudget = 1
    CampaignBudget = 1
    MaxUses = 0
    AddrPerDay = 1
    IPPerHour = 1
    Cooldown = 2
    DayLength = 2
    HourLength = 1
    MaxTime = 3
SYMMETRY Symmetry
SPECIFICATION Spec
INVARIANTS   AddressRateKept CooldownKept 
PROPERTY AnnouncedTimeStands
CHECK_DEADLOCK FALSE
