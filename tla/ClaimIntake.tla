----------------------------- MODULE ClaimIntake -----------------------------
(***************************************************************************)
(* The intake half of scavium-faucet: PersistentReadService.CreateClaim,   *)
(* run by one goroutine per HTTP request, against the SQLite tables it     *)
(* reads and writes.  Between any two SQL statements another handler, the  *)
(* payout pipeline or the operator may run, and the clock may advance.     *)
(*                                                                         *)
(* One token is modelled: cooldown, rate limits and daily budget are all   *)
(* scoped by token id.  Every claim on a token has the token's amount, so  *)
(* a budget is counted in claims.  Ticks of the clock are abstract.  A     *)
(* claim takes the name of the request that created it.  A crash of the    *)
(* process is every open handler giving up.                                *)
(***************************************************************************)
EXTENDS Integers, FiniteSets

CONSTANTS
    Requests,        \* the HTTP requests; generateClaimID gives each a fresh id
    Forms,           \* what a request can carry; "none" is an empty field
    DailyBudget,     \* claims per UTC day, 0 for no budget
    CampaignBudget,  \* claims per campaign, 0 for no budget
    MaxUses,         \* InvitationCode.MaxUses, 0 for no limit
    AddrPerDay,      \* RateLimitAddrPerDay, 0 for no limit
    IPPerHour,       \* RateLimitIPPerHour, of addresses and fingerprints too
    Cooldown,        \* CooldownSeconds, in ticks
    DayLength,       \* ticks in a UTC day
    HourLength,      \* ticks in an hour
    MaxTime          \* bound: the clock stops here

ASSUME FormsAssumption ==
    Forms \subseteq [addr : STRING, ip : STRING, fp : STRING, key : STRING,
                     campaign : STRING, challenge : STRING]
ASSUME IntakeLimitsAssumption ==
    /\ DailyBudget \in Nat
    /\ CampaignBudget \in Nat
    /\ MaxUses \in Nat
    /\ AddrPerDay \in Nat
    /\ IPPerHour \in Nat
    /\ Cooldown \in Nat
ASSUME ClockAssumption ==
    /\ DayLength \in Nat \ {0}
    /\ HourLength \in Nat \ {0}
    /\ MaxTime \in Nat
ASSUME RequestsAssumption == IsFiniteSet(Requests)

VARIABLES
    \* the handlers: next statement, request, stamps, claim answered with
    pc, form, created, window, answer,
    \* the tables: requests, wallet_challenges, invitation_codes, rate_limits
    status, challenge, uses, count,
    now,
    \* history: claims that left and re-entered the budget, claims a cooldown
    \* check has seen, the day an address limit was charged to
    revived, seen, rated

handlers == <<pc, form, created, window, answer>>
tables   == <<status, challenge, uses, count>>
ghosts   == <<revived, seen, rated>>
vars     == <<handlers, tables, now, ghosts>>

-----------------------------------------------------------------------------

\* requests.status; "queued" stands for queued, sending, sent and confirmed.
Status == {"absent", "received", "queued", "failed", "rejected"}

\* The statements of a handler up to the INSERT, and after it.
Before == {"lookup", "proof", "consume", "screen", "invitation", "usage", "cooldown",
           "ip", "addr", "fp", "stamp", "window", "insert"}
After == {"redeem", "enqueue"}

Kinds == {"ip", "addr", "fp"}
RateKey == {<<k, f[k]>> : f \in Forms, k \in Kinds}
Challenges == {f.challenge : f \in Forms}

\* An empty field, no claim; and a stamp not taken yet.
None == "none"
NoTime == -1

\* utcDayWindow
Day(t) == t \div DayLength

\* dailyBudgetStatuses
Counted(c) == status[c] \in {"received", "queued"}

Existing == {c \in Requests : status[c] # "absent"}

\* Mutant: a claim counts only once it is queued.
MutUsed(d) == Cardinality({c \in Existing : status[c] = "queued" /\ Day(created[c]) = d})

\* claimAmountWeiForToken, for the claims created on day d.
Used(d) == Cardinality({c \in Existing : Counted(c) /\ Day(created[c]) = d})

\* claimAmountWeiForCampaign
CampaignUsed(m) == Cardinality({c \in Existing : Counted(c) /\ form[c].campaign = m})

Init ==
    /\ pc = [r \in Requests |-> "new"]
    /\ form \in [Requests -> Forms]
    /\ created = [r \in Requests |-> NoTime]
    /\ window = [r \in Requests |-> NoTime]
    /\ answer = [r \in Requests |-> None]
    /\ status = [r \in Requests |-> "absent"]
    /\ challenge = [h \in Challenges |-> "none"]
    /\ uses = 0
    /\ count = [k \in RateKey |-> [w \in 0 .. MaxTime |-> 0]]
    /\ now = 0
    /\ revived = {}
    /\ seen = [r \in Requests |-> {}]
    /\ rated = [r \in Requests |-> NoTime]

Goto(r, l) == pc' = [pc EXCEPT ![r] = l]

\* The handler goes from statement l to statement m and writes nothing.
Pass(r, l, m) ==
    /\ pc[r] = l
    /\ Goto(r, m)
    /\ UNCHANGED <<form, created, window, answer, tables, now, ghosts>>

-----------------------------------------------------------------------------
\* CreateClaim, up to the INSERT.  A check that fails is a Refuse.

Arrive(r) == Pass(r, "new", "lookup")

\* The claim that carries the key of r, which is not empty.
SameKey(r, c) == form[r].key # None /\ c \in Existing /\ form[c].key = form[r].key

\* The handler returns claim c.
Return(r, c) ==
    /\ Goto(r, "done")
    /\ answer' = [answer EXCEPT ![r] = c]

GetClaimByIdempotencyKey(r) ==
    \/ \E c \in Requests :
        /\ pc[r] = "lookup" /\ SameKey(r, c)
        /\ Return(r, c)
        /\ UNCHANGED <<form, created, window, tables, now, ghosts>>
    \/ (\A c \in Requests : ~SameKey(r, c)) /\ Pass(r, "lookup", "proof")

\* A challenge is read, its signature is checked, and it is consumed in a
\* transaction of its own that checks it again.
GetWalletChallenge(r) ==
    \/ form[r].challenge = None /\ Pass(r, "proof", "screen")
    \/ /\ form[r].challenge # None /\ challenge[form[r].challenge] = "open"
       /\ Pass(r, "proof", "consume")

\* Mutant: the UPDATE trusts the earlier read.
MutConsume(r) ==
    /\ pc[r] = "consume"
    /\ challenge' = [challenge EXCEPT ![form[r].challenge] = "consumed"]
    /\ Goto(r, "screen")
    /\ UNCHANGED <<form, created, window, answer, status, uses, count, now, ghosts>>

ConsumeWalletChallenge(r) ==
    /\ pc[r] = "consume"
    /\ challenge[form[r].challenge] = "open"
    /\ challenge' = [challenge EXCEPT ![form[r].challenge] = "consumed"]
    /\ Goto(r, "screen")
    /\ UNCHANGED <<form, created, window, answer, status, uses, count, now, ghosts>>

\* Faucet mode, token and blocklist let the request through.
Screen(r) == Pass(r, "screen", IF form[r].campaign = None THEN "cooldown" ELSE "invitation")

\* enforceCampaign: the campaign "invite" has scope invite, any other is public
\* or has the address on its allowlist.
CheckInvitation(r) ==
    /\ form[r].campaign = "invite" /\ MaxUses > 0 => uses < MaxUses
    /\ Pass(r, "invitation", "usage")

\* Mutant: compares what is used before the claim is added.
MutWithinCampaign(r) ==
    CampaignBudget > 0 /\ form[r].campaign # None =>
        CampaignUsed(form[r].campaign) <= CampaignBudget

WithinCampaign(r) ==
    CampaignBudget > 0 /\ form[r].campaign # None =>
        CampaignUsed(form[r].campaign) + 1 <= CampaignBudget

\* The campaign's budget, read ahead of the INSERT; captcha and risk engine
\* let the request through.
CheckCampaignBudget(r) == WithinCampaign(r) /\ Pass(r, "usage", "cooldown")

\* Mutant: claims that came to nothing do not start a cooldown.
MutCooledDown(r) ==
    \A c \in Existing :
        Counted(c) /\ form[c].addr = form[r].addr => created[c] + Cooldown <= now

\* The newest claim of the address, of whatever status, is old enough.
CooledDown(r) ==
    \A c \in Existing : form[c].addr = form[r].addr => created[c] + Cooldown <= now

CheckCooldown(r) ==
    /\ pc[r] = "cooldown"
    /\ Cooldown > 0 => CooledDown(r)
    /\ Goto(r, "ip")
    /\ seen' = [seen EXCEPT ![r] = Existing]
    /\ UNCHANGED <<form, created, window, answer, tables, now, revived, rated>>

RateLimit == [ip |-> IPPerHour, addr |-> AddrPerDay, fp |-> IPPerHour]
RateWindow(k) == now \div (IF k = "addr" THEN DayLength ELSE HourLength)
AfterRate == [ip |-> "addr", addr |-> "fp", fp |-> "stamp"]

\* Mutant: compares the counter as it was.
MutAllowed(old, limit) == old <= limit

\* The decision on a counter that read old before it was incremented.
Allowed(old, limit) == old + 1 <= limit

\* One transaction of the rate limiter.  The counter of the fixed window goes up
\* whatever the decision.
Allow(r, k) ==
    /\ pc[r] = k
    /\ LET key == <<k, form[r][k]>>
           w == RateWindow(k)
       IN \/ /\ RateLimit[k] = 0 \/ form[r][k] = None
             /\ Goto(r, AfterRate[k])
             /\ UNCHANGED count
          \/ /\ RateLimit[k] > 0 /\ form[r][k] # None
             /\ count' = [count EXCEPT ![key][w] = @ + 1]
             /\ Goto(r, IF Allowed(count[key][w], RateLimit[k]) THEN AfterRate[k] ELSE "done")
    /\ rated' = [rated EXCEPT ![r] = IF k = "addr" THEN RateWindow(k) ELSE @]
    /\ UNCHANGED <<form, created, window, answer, status, challenge, uses, now, revived, seen>>

\* Mutant: CreatedAt is left to its zero value.
MutStamp(r) == Pass(r, "stamp", "window")

\* CreatedAt is taken from the clock here ...
Stamp(r) ==
    /\ pc[r] = "stamp"
    /\ created' = [created EXCEPT ![r] = now]
    /\ Goto(r, "window")
    /\ UNCHANGED <<form, window, answer, tables, now, ghosts>>

\* ... and the day of the budget from a later reading.
DayWindow(r) ==
    /\ pc[r] = "window"
    /\ window' = [window EXCEPT ![r] = Day(now)]
    /\ Goto(r, "insert")
    /\ UNCHANGED <<form, created, answer, tables, now, ghosts>>

WithinDay(r) == DailyBudget > 0 => Used(window[r]) + 1 <= DailyBudget

\* Mutant: relies on the look-up at the start of the handler.
MutCreate(r) ==
    /\ pc[r] = "insert"
    /\ WithinDay(r) /\ WithinCampaign(r)
    /\ status' = [status EXCEPT ![r] = "received"]
    /\ Goto(r, IF form[r].campaign = "invite" THEN "redeem" ELSE "enqueue")
    /\ UNCHANGED <<form, created, window, answer, challenge, uses, count, now, ghosts>>

\* One BEGIN IMMEDIATE transaction: the key again, both budgets, the INSERT.
\* Without budgets UNIQUE(idempotency_key) has the same effect.
CreateClaimWithIdempotencyAndBudgets(r) ==
    /\ pc[r] = "insert"
    /\ \/ \E c \in Requests :
            /\ SameKey(r, c)
            /\ Return(r, c)
            /\ UNCHANGED status
       \/ /\ \A c \in Requests : ~SameKey(r, c)
          /\ WithinDay(r) /\ WithinCampaign(r)
          /\ status' = [status EXCEPT ![r] = "received"]
          /\ Goto(r, IF form[r].campaign = "invite" THEN "redeem" ELSE "enqueue")
          /\ UNCHANGED answer
    /\ UNCHANGED <<form, created, window, challenge, uses, count, now, ghosts>>

\* A check fails, the store fails, or the client goes away: nothing is inserted.
Refuse(r) == \E l \in Before : Pass(r, l, "done")

-----------------------------------------------------------------------------
\* CreateClaim, after the INSERT.

\* Mutant: the UPDATE trusts CheckInvitation.
MutRedeem(r) ==
    /\ pc[r] = "redeem"
    /\ uses' = uses + 1
    /\ Goto(r, "enqueue")
    /\ UNCHANGED <<form, created, window, answer, status, challenge, count, now, ghosts>>

ConsumeInvitationCode(r) ==
    /\ pc[r] = "redeem"
    /\ MaxUses > 0 => uses < MaxUses
    /\ uses' = uses + 1
    /\ Goto(r, "enqueue")
    /\ UNCHANGED <<form, created, window, answer, status, challenge, count, now, ghosts>>

\* The UPDATE has no condition: it takes a cancelled claim back.
Enqueue(r) ==
    /\ pc[r] = "enqueue"
    /\ status' = [status EXCEPT ![r] = "queued"]
    /\ revived' = IF Counted(r) THEN revived ELSE revived \cup {r}
    /\ Return(r, r)
    /\ UNCHANGED <<form, created, window, challenge, uses, count, now, seen, rated>>

\* The code is used up or the store failed: the claim is rejected, whatever its
\* status.
RejectIntake(r) ==
    /\ pc[r] \in After
    /\ status' = [status EXCEPT ![r] = "rejected"]
    /\ Goto(r, "done")
    /\ UNCHANGED <<form, created, window, answer, challenge, uses, count, now, ghosts>>

\* That UPDATE failed too, and its error is ignored.
AbandonIntake(r) == \E l \in After : Pass(r, l, "done")

-----------------------------------------------------------------------------
\* The rest of the service, as the intake sees it.

CreateWalletChallenge(h) ==
    /\ h # None /\ challenge[h] = "none"
    /\ challenge' = [challenge EXCEPT ![h] = "open"]
    /\ UNCHANGED <<handlers, status, uses, count, now, ghosts>>

\* ExpiresAt passes.
ChallengeExpires(h) ==
    /\ challenge[h] = "open"
    /\ challenge' = [challenge EXCEPT ![h] = "expired"]
    /\ UNCHANGED <<handlers, status, uses, count, now, ghosts>>

\* Fail dead-letters a claim, or the watcher fails it.
PayoutFails(c) ==
    /\ status[c] = "queued"
    /\ status' = [status EXCEPT ![c] = "failed"]
    /\ UNCHANGED <<handlers, challenge, uses, count, now, ghosts>>

AdminRetryClaim(c) ==
    /\ status[c] \in {"failed", "rejected"}
    /\ status' = [status EXCEPT ![c] = "queued"]
    /\ revived' = revived \cup {c}
    /\ UNCHANGED <<handlers, challenge, uses, count, now, seen, rated>>

AdminCancelClaim(c) ==
    /\ status[c] \in {"received", "queued", "failed"}
    /\ status' = [status EXCEPT ![c] = "rejected"]
    /\ UNCHANGED <<handlers, challenge, uses, count, now, ghosts>>

Tick ==
    /\ now < MaxTime
    /\ now' = now + 1
    /\ UNCHANGED <<handlers, tables, ghosts>>

-----------------------------------------------------------------------------

Handler(r) ==
    \/ Arrive(r) \/ GetClaimByIdempotencyKey(r)
    \/ GetWalletChallenge(r) \/ ConsumeWalletChallenge(r)
    \/ Screen(r) \/ CheckInvitation(r) \/ CheckCampaignBudget(r)
    \/ CheckCooldown(r) \/ \E k \in Kinds : Allow(r, k)
    \/ Stamp(r) \/ DayWindow(r) \/ CreateClaimWithIdempotencyAndBudgets(r)
    \/ ConsumeInvitationCode(r) \/ Enqueue(r)
    \/ Refuse(r) \/ RejectIntake(r) \/ AbandonIntake(r)

Next ==
    \/ \E r \in Requests :
        Handler(r) \/ PayoutFails(r) \/ AdminRetryClaim(r) \/ AdminCancelClaim(r)
    \/ \E h \in Challenges : CreateWalletChallenge(h) \/ ChallengeExpires(h)
    \/ Tick

Spec == Init /\ [][Next]_vars

-----------------------------------------------------------------------------
\* GET /address/{addr}/status: what the service announces.  An address that is
\* not blocked; the budget is a multiple of the token's amount.

\* Mutant: the cooldown is added to the clock.
MutCooldown(a) ==
    IF \E c \in Existing : form[c].addr = a /\ created[c] + Cooldown > now
    THEN now + Cooldown ELSE 0

\* When the newest claim of the address, of whatever status, is a cooldown old.
cooldown(a) ==
    LET times == {created[c] + Cooldown : c \in {d \in Existing : form[d].addr = a}}
    IN  IF Cooldown = 0 \/ times = {} THEN 0 ELSE CHOOSE t \in times : \A u \in times : u <= t

\* Mutant: a claim counts only once it is queued.
MutDailyBudgetStatus ==
    IF MutUsed(Day(now)) > DailyBudget THEN 0 ELSE DailyBudget - MutUsed(Day(now))

\* What remains of today's budget.
dailyBudgetStatus == IF Used(Day(now)) > DailyBudget THEN 0 ELSE DailyBudget - Used(Day(now))

budgetExhausted == DailyBudget > 0 /\ dailyBudgetStatus = 0

\* An exhausted budget hides the time at which the cooldown ends.
tokenStatuses(a) ==
    [eligible |-> cooldown(a) <= now /\ ~budgetExhausted,
     next |-> IF cooldown(a) <= now \/ budgetExhausted THEN NoTime ELSE cooldown(a)]

\* The checks for the address as a whole are those of its token once more.
AddressStatus(a) == tokenStatuses(a)

-----------------------------------------------------------------------------

\* Every variable stays in its domain, and a claim in the table was stamped and
\* checked against a day before it got there.
TypeOK ==
    /\ pc \in [Requests -> Before \cup After \cup {"new", "done"}]
    /\ form \in [Requests -> Forms]
    /\ created \in [Requests -> Nat \cup {NoTime}]
    /\ window \in [Requests -> Nat \cup {NoTime}]
    /\ answer \in [Requests -> Requests \cup {None}]
    /\ status \in [Requests -> Status]
    /\ \A r \in Existing : created[r] \in Nat /\ window[r] \in Nat
    /\ challenge \in [Challenges -> {"none", "open", "expired", "consumed"}]
    /\ uses \in Nat
    /\ count \in [RateKey -> [0 .. MaxTime -> Nat]]
    /\ now \in 0 .. MaxTime
    /\ revived \subseteq Requests
    /\ seen \in [Requests -> SUBSET Requests]
    /\ rated \in [Requests -> Nat \cup {NoTime}]

\* api.md:341: all requests with one Idempotency-Key that are answered with a
\* claim are answered with the same one, and it carries that key, however many
\* handlers pass the first look-up together.
IdempotentAnswers ==
    \A r, s \in Requests :
        /\ form[r].key # None /\ form[s].key = form[r].key
        /\ answer[r] # None /\ answer[s] # None
        => answer[r] = answer[s] /\ form[answer[r]].key = form[r].key

\* A wallet challenge lets one claim in, at most, although it is read and
\* consumed in two statements.
ChallengeOnce ==
    \A c, d \in Existing :
        form[c].challenge = form[d].challenge /\ form[c].challenge # None => c = d

\* Claims that went straight through count against the budget of their day, and
\* stay within it.  The three ways around it are an operator's retry, an
\* Enqueue that takes a cancelled claim back, and a midnight between the
\* claim's CreatedAt and the budget's day.
Regular(d) ==
    {c \in Existing : Counted(c) /\ c \notin revived /\ Day(created[c]) = d /\ window[c] = d}

DailyBudgetKept ==
    DailyBudget > 0 => \A d \in 0 .. MaxTime : Cardinality(Regular(d)) <= DailyBudget

\* Claims that went straight through stay within their campaign's budget, on
\* whatever day they are made.
CampaignBudgetKept ==
    CampaignBudget > 0 => \A m \in {f.campaign : f \in Forms} \ {None} :
        Cardinality({c \in Existing : Counted(c) /\ c \notin revived /\ form[c].campaign = m})
            <= CampaignBudget

\* No more claims are queued on an invitation code than it has uses, although
\* the claim is inserted before the code is consumed; the operator can add some.
InvitesWithinUses ==
    MaxUses > 0 =>
        Cardinality({c \in Requests : /\ status[c] \in {"queued", "failed"}
                                      /\ c \notin revived
                                      /\ form[c].campaign = "invite"}) <= MaxUses

\* In one window of the rate limiter an address is let through AddrPerDay times,
\* however its requests interleave.
AddressRateKept ==
    AddrPerDay > 0 => \A f \in Forms, w \in 0 .. MaxTime :
        f.addr # None =>
            Cardinality({c \in Existing : form[c].addr = f.addr /\ rated[c] = w}) <= AddrPerDay

\* A claim is made a full cooldown after every claim of its address that was in
\* the table when its handler checked, of whatever status.
CooldownKept ==
    \A d \in Existing : \A c \in seen[d] :
        form[c].addr = form[d].addr => created[d] >= created[c] + Cooldown

\* Whom the status page calls eligible, the cooldown and the daily budget let
\* through: AddressStatus and CreateClaim compute both on their own, and agree
\* in every state of the table.
EligibleIsLetThrough ==
    \A r \in Requests : AddressStatus(form[r].addr).eligible =>
        /\ Cooldown > 0 => CooledDown(r)
        /\ window[r] = Day(now) => WithinDay(r)

\* The NextEligibleTime announced to an address stands until it comes, unless
\* the address makes another claim or the budget runs out: no retry, no
\* cancellation and no failure of its claims, nor anybody else's, moves it.
AnnouncedTimeStands ==
    [][\A a \in {f.addr : f \in Forms} :
        LET t == AddressStatus(a).next IN
        t # NoTime =>
            \/ AddressStatus(a)'.next = t
            \/ now' >= t \/ budgetExhausted'
            \/ \E c \in Existing' \ Existing : form[c].addr = a]_vars

=============================================================================
