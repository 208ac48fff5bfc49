CONSTANTS
    r1 = r1
    r2 = r2
    r3 = r3
    Requests = {r1, r2, r3}
    Forms <- SharedForms
    DailyBudget = 0
    CampaignBudget = 0
    MaxUses = 1
    AddrPerDay = 0
    IPPerHour = 0
    Cooldown = 0
    DayLength = 1
    HourLength = 1
    MaxTime = 0
SYMMETRY Symmetry
SPECIFICATION Spec
INVARIANTS TypeOK IdempotentAnswers ChallengeOnce InvitesWithinUses
CHECK_DEADLOCK FALSE
