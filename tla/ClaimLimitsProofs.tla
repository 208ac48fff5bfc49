-------------------------- MODULE ClaimLimitsProofs --------------------------
(***************************************************************************)
(* Proofs about the limits of ClaimIntake that are charged outside the     *)
(* transaction of the INSERT: the uses of an invitation code, the rate     *)
(* limit of an address, and the cooldown; and about what the status page   *)
(* announces of them.                                                      *)
(***************************************************************************)
EXTENDS ClaimIntakeProofs, WellFoundedInduction

\* The claims that have a use of the invitation code.
Redeemed ==
    {c \in Requests : /\ form[c].campaign = "invite"
                      /\ \/ pc[c] = "enqueue"
                         \/ status[c] \in {"queued", "failed"} /\ c \notin revived}

\* The handler of c is past the address's rate limit.
PastAddr(c) == status[c] # "absent" \/ pc[c] \in {"fp", "stamp", "window", "insert"}

\* The handler of d is past the cooldown; it has read CreatedAt.
PastCooldown(d) ==
    status[d] # "absent" \/ pc[d] \in {"ip", "addr", "fp", "stamp", "window", "insert"}
HasCreatedAt(d) == status[d] # "absent" \/ pc[d] \in {"window", "insert"}

\* A claim gets a use of the code by ConsumeInvitationCode only.
RedeemMoves ==
    \/ uses' = uses /\ Redeemed' \subseteq Redeemed
    \/ /\ uses' = uses + 1
       /\ MaxUses > 0 => uses < MaxUses
       /\ \E r \in Requests : Redeemed' \subseteq Redeemed \cup {r}

\* Handler r raises the counter of its address in window w and is let through.
LetThrough(r, w) ==
    /\ rated'[r] = w
    /\ AddrPerDay > 0 /\ form[r].addr # None =>
        LET key == <<"addr", form[r].addr>>
        IN /\ count' = [count EXCEPT ![key][w] = @ + 1]
           /\ count[key][w] + 1 <= AddrPerDay

\* A handler gets past the address's limit by raising its counter only.
RateMoves ==
    /\ \A key \in RateKey, w \in 0 .. MaxTime :
        count'[key][w] \in Nat /\ count'[key][w] >= count[key][w]
    /\ \/ \A c \in Requests : PastAddr(c)' => PastAddr(c) /\ rated'[c] = rated[c]
       \/ \E r \in Requests :
            /\ \E w \in Nat : LetThrough(r, w)
            /\ \A c \in Requests \ {r} : PastAddr(c)' => PastAddr(c) /\ rated'[c] = rated[c]

\* A handler passes the cooldown by looking at the table, and takes CreatedAt
\* from the clock after it.
CooldownMoves ==
    /\ now' \in Nat /\ now' >= now
    /\ \A d \in Requests :
        /\ PastCooldown(d)' =>
            \/ PastCooldown(d) /\ seen'[d] = seen[d]
            \/ seen'[d] = Existing /\ (Cooldown > 0 => CooledDown(d)) /\ ~HasCreatedAt(d)'
        /\ HasCreatedAt(d)' =>
            \/ HasCreatedAt(d) /\ created'[d] = created[d]
            \/ PastCooldown(d) /\ created'[d] = now

LimitFacts == RedeemMoves /\ RateMoves /\ CooldownMoves

\* Every step of the intake is of this kind.
LEMMA IntakeLimitFacts == TypeOK /\ HandlerInv /\ [Next]_vars => LimitFacts
<1> SUFFICES ASSUME TypeOK, HandlerInv, [Next]_vars PROVE LimitFacts
  OBVIOUS
<1> USE DEF LimitFacts, RedeemMoves, RateMoves, CooldownMoves, TypeOK, HandlerInv, handlers,
            tables, ghosts, Existing, Status, Before, After, Goto, Redeemed, PastAddr,
            PastCooldown, HasCreatedAt
<1> USE ClockAssumption
<1>1. ASSUME NEW r \in Requests, NEW l, NEW m, Pass(r, l, m),
             m \in {"lookup", "proof", "consume", "screen", "invitation", "usage", "cooldown", "done"}
      PROVE  LimitFacts
  BY <1>1 DEF Pass
<1>3. ASSUME NEW r \in Requests, Arrive(r) PROVE LimitFacts
  BY <1>1, <1>3, Zenon DEF Arrive
<1>4. ASSUME NEW r \in Requests, GetClaimByIdempotencyKey(r) PROVE LimitFacts
  <2>1. ASSUME NEW c \in Requests, pc[r] = "lookup", Return(r, c),
               UNCHANGED <<form, created, window, tables, now, ghosts>>
        PROVE  LimitFacts
    BY <2>1 DEF Return
  <2> QED
    BY <1>1, <1>4, <2>1, Zenon DEF GetClaimByIdempotencyKey
<1>5. ASSUME NEW r \in Requests, GetWalletChallenge(r) PROVE LimitFacts
  BY <1>1, <1>5, Zenon DEF GetWalletChallenge
<1>6. ASSUME NEW r \in Requests, ConsumeWalletChallenge(r) PROVE LimitFacts
  BY <1>6 DEF ConsumeWalletChallenge
<1>7. ASSUME NEW r \in Requests, Screen(r) PROVE LimitFacts
  BY <1>1, <1>7, Zenon DEF Screen
<1>8. ASSUME NEW r \in Requests, CheckInvitation(r) \/ CheckCampaignBudget(r) PROVE LimitFacts
  BY <1>1, <1>8, Zenon DEF CheckInvitation, CheckCampaignBudget
<1>9. ASSUME NEW r \in Requests, CheckCooldown(r) PROVE LimitFacts
  BY <1>9 DEF CheckCooldown
<1>11. ASSUME NEW r \in Requests, Stamp(r) PROVE LimitFacts
  BY <1>11 DEF Stamp
<1>12. ASSUME NEW r \in Requests, DayWindow(r) PROVE LimitFacts
  BY <1>12 DEF DayWindow
<1>13. ASSUME NEW r \in Requests, CreateClaimWithIdempotencyAndBudgets(r) PROVE LimitFacts
  <2>1. /\ pc[r] = "insert" /\ status[r] = "absent"
        /\ UNCHANGED <<form, created, window, challenge, uses, count, now, ghosts>>
    BY <1>13 DEF CreateClaimWithIdempotencyAndBudgets
  <2>2. ASSUME NEW c \in Requests, Return(r, c), UNCHANGED status PROVE LimitFacts
    BY <2>1, <2>2 DEF Return
  <2>3. ASSUME status' = [status EXCEPT ![r] = "received"],
               Goto(r, IF form[r].campaign = "invite" THEN "redeem" ELSE "enqueue")
        PROVE  LimitFacts
    BY <2>1, <2>3
  <2> QED
    BY <1>13, <2>2, <2>3, Zenon DEF CreateClaimWithIdempotencyAndBudgets
<1>14. ASSUME NEW r \in Requests, ConsumeInvitationCode(r) PROVE LimitFacts
  BY <1>14 DEF ConsumeInvitationCode
<1>15. ASSUME NEW r \in Requests, Enqueue(r) PROVE LimitFacts
  BY <1>15 DEF Enqueue, Return
<1>16. ASSUME NEW r \in Requests, Refuse(r) \/ AbandonIntake(r) PROVE LimitFacts
  BY <1>1, <1>16, Zenon DEF Refuse, AbandonIntake
<1>17. ASSUME NEW r \in Requests, RejectIntake(r) PROVE LimitFacts
  BY <1>17 DEF RejectIntake
<1>18. ASSUME NEW r \in Requests, PayoutFails(r) \/ AdminRetryClaim(r) \/ AdminCancelClaim(r)
       PROVE  LimitFacts
  BY <1>18 DEF PayoutFails, AdminRetryClaim, AdminCancelClaim
<1>19. ASSUME NEW h \in Challenges, CreateWalletChallenge(h) \/ ChallengeExpires(h)
       PROVE  LimitFacts
  BY <1>19 DEF CreateWalletChallenge, ChallengeExpires
<1>20. CASE Tick
  BY <1>20 DEF Tick
<1>21. CASE UNCHANGED vars
  BY <1>21 DEF vars
<1>10. ASSUME NEW r \in Requests, NEW k \in Kinds, Allow(r, k) PROVE LimitFacts
  <2> DEFINE key == <<k, form[r][k]>>
             w == RateWindow(k)
  <2>1. /\ pc[r] = k
        /\ UNCHANGED <<form, created, status, uses, now, revived, seen>>
        /\ rated' = [rated EXCEPT ![r] = IF k = "addr" THEN w ELSE @]
    BY <1>10 DEF Allow
  <2>2. w \in Nat /\ key \in RateKey
    <3>1. now \in Nat
      OBVIOUS
    <3>2. w \in Nat
      BY <3>1, WindowNat, Zenon DEF RateWindow
    <3> QED
      BY <3>2, FormKeys
  <2>3. \/ pc' = [pc EXCEPT ![r] = AfterRate[k]]
        \/ pc' = [pc EXCEPT ![r] = "done"]
    BY <1>10 DEF Allow
  <2>4. AfterRate[k] = CASE k = "ip" -> "addr" [] k = "addr" -> "fp" [] k = "fp" -> "stamp"
    BY DEF AfterRate, Kinds
  <2>5. \A j \in RateKey, v \in 0 .. MaxTime :
          count'[j][v] \in Nat /\ count'[j][v] >= count[j][v]
    <3>1. CASE count' = [count EXCEPT ![key][w] = @ + 1]
      <4>1. ASSUME NEW j \in RateKey, NEW v \in 0 .. MaxTime
            PROVE  count'[j][v] \in Nat /\ count'[j][v] >= count[j][v]
        <5>1. count[j] \in [0 .. MaxTime -> Nat] /\ count[j][v] \in Nat
          OBVIOUS
        <5>2. count' = [count EXCEPT ![key] = [count[key] EXCEPT ![w] = @ + 1]]
          BY <3>1
        <5> HIDE DEF key, w
        <5>3. count'[j] = IF j = key THEN [count[j] EXCEPT ![w] = @ + 1] ELSE count[j]
          BY <5>2
        <5>4. count'[j][v] = IF j = key /\ v = w THEN count[j][v] + 1 ELSE count[j][v]
          BY <5>1, <5>3
        <5> QED
          BY <5>1, <5>4
      <4> QED
        BY <4>1
    <3>2. CASE count' = count
      <4>1. \A j \in RateKey, v \in 0 .. MaxTime : count[j][v] \in Nat
        OBVIOUS
      <4> QED
        BY <3>2, <4>1
    <3> QED
      BY <1>10, <3>1, <3>2, Zenon DEF Allow
  <2>6. CASE k = "addr" /\ pc' = [pc EXCEPT ![r] = "fp"]
    <3>1. LetThrough(r, w)
      <4>1. rated'[r] = w
        BY <2>1, <2>6
      <4>2. ASSUME AddrPerDay > 0, form[r].addr # None
            PROVE  /\ count' = [count EXCEPT ![key][w] = @ + 1]
                   /\ count[key][w] + 1 <= AddrPerDay
        <5>1. RateLimit[k] = AddrPerDay /\ RateLimit[k] # 0 /\ form[r][k] # None
          BY <2>6, <4>2, IntakeLimitsAssumption DEF RateLimit
        <5>2. /\ count' = [count EXCEPT ![key][w] = @ + 1]
              /\ pc' = [pc EXCEPT ![r] = IF Allowed(count[key][w], AddrPerDay)
                                         THEN AfterRate[k] ELSE "done"]
          BY <1>10, <5>1 DEF Allow
        <5>3. pc[r] \in DOMAIN AfterRate /\ pc'[r] = "fp"
          BY <1>10, <2>6 DEF Allow, AfterRate
        <5> HIDE DEF key, w
        <5>4. Allowed(count[key][w], AddrPerDay)
          BY <5>2, <5>3
        <5> QED
          BY <5>2, <5>4 DEF Allowed
      <4> QED
        BY <2>6, <4>1, <4>2, Zenon DEF LetThrough
    <3>2. \A c \in Requests \ {r} : PastAddr(c)' => PastAddr(c) /\ rated'[c] = rated[c]
      BY <2>1, <2>6
    <3>3. RateMoves
      BY <2>2, <2>5, <3>1, <3>2, Zenon
    <3>4. RedeemMoves /\ CooldownMoves
      BY <2>1, <2>6
    <3> QED
      BY <3>3, <3>4, Zenon
  <2>7. CASE ~(k = "addr" /\ pc' = [pc EXCEPT ![r] = "fp"])
    <3>1. \A c \in Requests : PastAddr(c)' => PastAddr(c) /\ rated'[c] = rated[c]
      BY <2>1, <2>3, <2>4, <2>7 DEF Kinds
    <3>2. RedeemMoves /\ CooldownMoves
      BY <2>1, <2>3, <2>4 DEF Kinds
    <3> QED
      BY <2>5, <3>1, <3>2, Zenon
  <2> QED
    BY <2>6, <2>7, Zenon
<1> QED
  BY <1>3, <1>4, <1>5, <1>6, <1>7, <1>8, <1>9, <1>10, <1>11, <1>12, <1>13, <1>14, <1>15, <1>16,
     <1>17, <1>18, <1>19, <1>20, <1>21, Zenon DEF Next, Handler

\* TypeOK and the facts about limits, for the theorems that follow.
LEMMA AlwaysLimitFacts == Spec => []TypeOK /\ [][StepFacts /\ LimitFacts]_vars
BY AlwaysFacts, IntakeLimitFacts, PTL DEF Spec

-----------------------------------------------------------------------------

\* InvitesWithinUses made inductive: every claim that has a use was counted.
InviteInv ==
    /\ Cardinality(Redeemed) <= uses
    /\ MaxUses > 0 => uses <= MaxUses

\* ConsumeInvitationCode counts the use it gives, and gives the last one once.
LEMMA InviteStep == TypeOK /\ InviteInv /\ [StepFacts /\ LimitFacts]_vars => InviteInv'
<1> SUFFICES ASSUME TypeOK, InviteInv, [StepFacts /\ LimitFacts]_vars PROVE InviteInv'
  OBVIOUS
<1>1. /\ IsFiniteSet(Redeemed) /\ Cardinality(Redeemed) \in Nat
      /\ uses \in Nat /\ MaxUses \in Nat
  <2>1. Redeemed \subseteq Requests
    BY DEF Redeemed
  <2> QED
    BY <2>1, RequestsAssumption, IntakeLimitsAssumption, FS_Subset, FS_CardinalityType DEF TypeOK
<1>2. CASE uses' = uses /\ Redeemed' \subseteq Redeemed
  <2>1. Cardinality(Redeemed') <= Cardinality(Redeemed) /\ Cardinality(Redeemed') \in Nat
    BY <1>1, <1>2, FS_Subset, FS_CardinalityType
  <2> QED
    BY <1>1, <1>2, <2>1 DEF InviteInv
<1>3. ASSUME uses' = uses + 1, MaxUses > 0 => uses < MaxUses,
             NEW r \in Requests, Redeemed' \subseteq Redeemed \cup {r}
      PROVE  InviteInv'
  <2>1. IsFiniteSet(Redeemed') /\ Cardinality(Redeemed') <= Cardinality(Redeemed) + 1
    BY <1>1, <1>3, OneMore, Zenon
  <2>2. Cardinality(Redeemed') \in Nat
    BY <2>1, FS_CardinalityType
  <2> QED
    BY <1>1, <1>3, <2>1, <2>2 DEF InviteInv
<1>4. CASE UNCHANGED vars
  <2>1. Redeemed' = Redeemed /\ uses' = uses
    BY <1>4 DEF Redeemed, vars, handlers, tables, ghosts
  <2> QED
    BY <2>1 DEF InviteInv
<1> QED
  BY <1>2, <1>3, <1>4 DEF LimitFacts, RedeemMoves

\* An invitation code never puts more claims in the queue than it has uses,
\* although CreateClaim inserts the claim before it consumes the code.
THEOREM InvitesAreWithinUses == Spec => []InvitesWithinUses
<1>1. Init => InviteInv
  <2> SUFFICES ASSUME Init PROVE InviteInv
    OBVIOUS
  <2>1. Redeemed = {}
    BY DEF Init, Redeemed
  <2> QED
    BY <2>1, FS_EmptySet, IntakeLimitsAssumption DEF Init, InviteInv
<1>2. TypeOK /\ InviteInv => InvitesWithinUses
  <2> SUFFICES ASSUME TypeOK, InviteInv, MaxUses > 0 PROVE InvitesWithinUses
    BY DEF InvitesWithinUses
  <2> DEFINE Q == {c \in Requests : /\ status[c] \in {"queued", "failed"}
                                    /\ c \notin revived
                                    /\ form[c].campaign = "invite"}
  <2>1. Q \subseteq Redeemed /\ Redeemed \subseteq Requests
    BY DEF Redeemed
  <2>2. IsFiniteSet(Redeemed)
    BY <2>1, RequestsAssumption, FS_Subset
  <2>3. /\ Cardinality(Q) <= Cardinality(Redeemed)
        /\ Cardinality(Q) \in Nat /\ Cardinality(Redeemed) \in Nat
    BY <2>1, <2>2, FS_Subset, FS_CardinalityType
  <2>4. Cardinality(Q) <= MaxUses
    BY <2>3, IntakeLimitsAssumption DEF InviteInv, TypeOK
  <2> QED
    BY <2>4 DEF InvitesWithinUses
<1> QED
  BY <1>1, <1>2, InviteStep, AlwaysLimitFacts, PTL DEF Spec

-----------------------------------------------------------------------------

\* The clock is never behind a CreatedAt, and a handler that is past the cooldown
\* saw claims that are a cooldown old, or older than its own CreatedAt by one.
CooldownInv ==
    /\ \A d \in Requests : HasCreatedAt(d) => created[d] \in Nat /\ created[d] <= now
    /\ \A d \in Requests : PastCooldown(d) =>
        \A c \in seen[d] :
            /\ c \in Existing
            /\ form[c].addr = form[d].addr =>
                /\ created[c] + Cooldown <= now
                /\ HasCreatedAt(d) => created[d] >= created[c] + Cooldown

\* CreatedAt is read after the cooldown was checked, and time does not go back.
LEMMA CooldownStep == TypeOK /\ CooldownInv /\ [StepFacts /\ LimitFacts]_vars => CooldownInv'
<1> SUFFICES ASSUME TypeOK, CooldownInv, [StepFacts /\ LimitFacts]_vars PROVE CooldownInv'
  OBVIOUS
<1>1. CASE StepFacts /\ LimitFacts
  <2>0. now' \in Nat /\ now' >= now
    BY <1>1 DEF LimitFacts, CooldownMoves
  <2>1. /\ now \in Nat /\ now' >= now /\ form' = form /\ Cooldown \in Nat
    <3>1. now \in Nat
      BY ClockAssumption DEF TypeOK
    <3>2. form' = form
      BY <1>1 DEF StepFacts, ClaimsStay
    <3>3. Cooldown \in Nat
      BY IntakeLimitsAssumption
    <3> QED
      BY <2>0, <3>1, <3>2, <3>3
  <2>2. \A c \in Existing : c \in Existing' /\ created'[c] = created[c] /\ created[c] \in Nat
    BY <1>1 DEF TypeOK, StepFacts, ClaimsStay, Existing
  <2>3. now' \in Int /\ now' >= now
    BY <2>0
  <2>4. ASSUME NEW d \in Requests, HasCreatedAt(d)'
        PROVE  created'[d] \in Nat /\ created'[d] <= now'
    <3>1. \/ HasCreatedAt(d) /\ created'[d] = created[d]
          \/ created'[d] = now
      BY <1>1, <2>4, Zenon DEF LimitFacts, CooldownMoves
    <3>2. HasCreatedAt(d) => created[d] \in Nat /\ created[d] <= now
      BY DEF CooldownInv
    <3> QED
      BY <2>1, <2>3, <3>1, <3>2
  <2>5. ASSUME NEW d \in Requests, PastCooldown(d)', NEW c \in seen'[d]
        PROVE  /\ c \in Existing'
               /\ form'[c].addr = form'[d].addr =>
                   /\ created'[c] + Cooldown <= now'
                   /\ HasCreatedAt(d)' => created'[d] >= created'[c] + Cooldown
    <3>1. CASE PastCooldown(d) /\ seen'[d] = seen[d]
      <4>1. c \in Existing /\ c \in seen[d]
        BY <2>5, <3>1 DEF CooldownInv
      <4>2. ASSUME form[c].addr = form[d].addr
            PROVE  /\ created[c] + Cooldown <= now'
                   /\ HasCreatedAt(d)' => created'[d] >= created[c] + Cooldown
        <5>1. created[c] + Cooldown <= now /\ created[c] \in Nat
          BY <2>2, <3>1, <4>1, <4>2 DEF CooldownInv
        <5>2. HasCreatedAt(d) => created[d] >= created[c] + Cooldown
          BY <3>1, <4>1, <4>2 DEF CooldownInv
        <5>3. HasCreatedAt(d)' =>
                \/ HasCreatedAt(d) /\ created'[d] = created[d]
                \/ created'[d] = now
          BY <1>1 DEF LimitFacts, CooldownMoves
        <5> QED
          BY <2>1, <2>3, <5>1, <5>2, <5>3
      <4> QED
        BY <2>1, <2>2, <4>1, <4>2, Zenon
    <3>2. CASE seen'[d] = Existing /\ (Cooldown > 0 => CooledDown(d)) /\ ~HasCreatedAt(d)'
      <4>1. c \in Existing /\ c \in Requests /\ created[c] \in Nat
        BY <2>2, <2>5, <3>2 DEF Existing
      <4>2. created[c] <= now
        BY <4>1 DEF CooldownInv, HasCreatedAt, Existing
      <4>3. form[c].addr = form[d].addr => created[c] + Cooldown <= now
        BY <2>1, <3>2, <4>1, <4>2 DEF CooledDown
      <4> QED
        BY <2>1, <2>2, <2>3, <3>2, <4>1, <4>3
    <3> QED
      BY <1>1, <2>5, <3>1, <3>2, Zenon DEF LimitFacts, CooldownMoves
  <2> QED
    BY <2>4, <2>5 DEF CooldownInv
<1>2. CASE UNCHANGED vars
  BY <1>2 DEF CooldownInv, HasCreatedAt, PastCooldown, Existing, vars, handlers, tables, ghosts
<1> QED
  BY <1>1, <1>2

\* A claim is created a full cooldown after every claim of its address that was in
\* the table when its handler ran the cooldown check.
THEOREM CooldownHolds == Spec => []CooldownKept
<1>1. Init => CooldownInv
  BY DEF Init, CooldownInv, HasCreatedAt, PastCooldown
<1>2. CooldownInv => CooldownKept
  BY DEF CooldownInv, CooldownKept, HasCreatedAt, PastCooldown, Existing
<1> QED
  BY <1>1, <1>2, CooldownStep, AlwaysLimitFacts, PTL DEF Spec

-----------------------------------------------------------------------------

\* The handlers that were let through in window w of address a.
Admitted(a, w) == {c \in Requests : form[c].addr = a /\ rated[c] = w /\ PastAddr(c)}

\* AddressRateKept made inductive: the counter has counted all that were let
\* through, and was below the limit when the last one was.
RateInv ==
    AddrPerDay > 0 => \A f \in Forms, w \in 0 .. MaxTime :
        f.addr # None =>
            /\ Cardinality(Admitted(f.addr, w)) <= count[<<"addr", f.addr>>][w]
            /\ Cardinality(Admitted(f.addr, w)) <= AddrPerDay

\* Allow reads and raises the counter in one transaction.
LEMMA RateStep == TypeOK /\ RateInv /\ [StepFacts /\ LimitFacts]_vars => RateInv'
<1> SUFFICES ASSUME TypeOK, RateInv, [StepFacts /\ LimitFacts]_vars, AddrPerDay > 0,
                    NEW f \in Forms, NEW w \in 0 .. MaxTime, f.addr # None
             PROVE  /\ Cardinality(Admitted(f.addr, w)') <= count'[<<"addr", f.addr>>][w]
                    /\ Cardinality(Admitted(f.addr, w)') <= AddrPerDay
  BY DEF RateInv
<1> DEFINE key == <<"addr", f.addr>>
           A == Admitted(f.addr, w)
<1>1. key \in RateKey /\ count[key] \in [0 .. MaxTime -> Nat] /\ count[key][w] \in Nat
  <2>1. key \in RateKey
    BY DEF RateKey, Kinds
  <2> QED
    BY <2>1, Zenon DEF TypeOK
<1>2. IsFiniteSet(A) /\ Cardinality(A) \in Nat /\ AddrPerDay \in Nat
  <2>1. A \subseteq Requests
    BY DEF Admitted
  <2> QED
    BY <2>1, RequestsAssumption, IntakeLimitsAssumption, FS_Subset, FS_CardinalityType
<1>3. Cardinality(A) <= count[key][w] /\ Cardinality(A) <= AddrPerDay
  BY DEF RateInv
<1>4. CASE StepFacts /\ LimitFacts
  <2>1. form' = form /\ count'[key][w] \in Nat /\ count'[key][w] >= count[key][w]
    BY <1>1, <1>4, Zenon DEF StepFacts, ClaimsStay, LimitFacts, RateMoves
  <2>2. CASE A' \subseteq A
    <3>1. Cardinality(A') <= Cardinality(A) /\ Cardinality(A') \in Nat
      BY <1>2, <2>2, FS_Subset, FS_CardinalityType
    <3> HIDE DEF key, A
    <3>2. Cardinality(A) <= count'[key][w]
      BY <1>1, <1>2, <1>3, <2>1
    <3>3. Cardinality(A') <= count'[key][w]
      BY <1>2, <2>1, <3>1, <3>2
    <3>4. Cardinality(A') <= AddrPerDay
      BY <1>2, <1>3, <3>1
    <3> QED
      BY <3>3, <3>4 DEF key, A
  <2>3. ASSUME NEW r \in Requests, LetThrough(r, w), form[r].addr = f.addr, A' \subseteq A \cup {r}
        PROVE  Cardinality(A') <= count'[key][w] /\ Cardinality(A') <= AddrPerDay
    <3>1. count' = [count EXCEPT ![key][w] = @ + 1] /\ count[key][w] + 1 <= AddrPerDay
      BY <2>3 DEF LetThrough
    <3>2. count'[key][w] = count[key][w] + 1
      BY <1>1, <3>1, Zenon DEF TypeOK
    <3>3. IsFiniteSet(A') /\ Cardinality(A') <= Cardinality(A) + 1
      BY <1>2, <2>3, OneMore, Zenon
    <3>4. Cardinality(A') \in Nat
      BY <3>3, FS_CardinalityType
    <3> QED
      BY <1>1, <1>2, <1>3, <3>1, <3>2, <3>3, <3>4, SMTT(30)
  <2>4. CASE \A c \in Requests : PastAddr(c)' => PastAddr(c) /\ rated'[c] = rated[c]
    BY <2>1, <2>2, <2>4, Zenon DEF Admitted
  <2>5. ASSUME NEW r \in Requests, NEW v \in Nat, LetThrough(r, v),
               \A c \in Requests \ {r} : PastAddr(c)' => PastAddr(c) /\ rated'[c] = rated[c]
        PROVE  Cardinality(A') <= count'[key][w] /\ Cardinality(A') <= AddrPerDay
    <3>1. CASE form[r].addr = f.addr /\ v = w
      <4>1. A' \subseteq A \cup {r}
        BY <2>1, <2>5, Zenon DEF Admitted
      <4> QED
        BY <2>3, <2>5, <3>1, <4>1, Zenon
    <3>2. CASE ~(form[r].addr = f.addr /\ v = w)
      <4>1. A' \subseteq A
        BY <2>1, <2>5, <3>2 DEF Admitted, LetThrough
      <4> QED
        BY <2>2, <4>1, Zenon
    <3> QED
      BY <3>1, <3>2, Zenon
  <2> QED
    BY <1>4, <2>4, <2>5, Zenon DEF LimitFacts, RateMoves
<1>5. CASE UNCHANGED vars
  <2>1. A' = A /\ count' = count
    BY <1>5, Zenon DEF Admitted, PastAddr, vars, handlers, tables, ghosts
  <2> QED
    BY <1>3, <2>1, Zenon
<1> QED
  BY <1>4, <1>5

\* In one window of the rate limiter no more claims of an address are let through
\* than RateLimitAddrPerDay, however its handlers interleave.
THEOREM AddressRateHolds == Spec => []AddressRateKept
<1>1. Init => RateInv
  <2> SUFFICES ASSUME Init, AddrPerDay > 0, NEW f \in Forms, NEW w \in 0 .. MaxTime
               PROVE  /\ Cardinality(Admitted(f.addr, w)) <= count[<<"addr", f.addr>>][w]
                      /\ Cardinality(Admitted(f.addr, w)) <= AddrPerDay
    BY DEF RateInv
  <2>1. Admitted(f.addr, w) = {}
    BY DEF Init, Admitted, PastAddr
  <2>2. <<"addr", f.addr>> \in RateKey
    BY DEF RateKey, Kinds
  <2>3. count[<<"addr", f.addr>>][w] = 0
    BY <2>2 DEF Init
  <2> QED
    BY <2>1, <2>3, FS_EmptySet, IntakeLimitsAssumption
<1>2. TypeOK /\ RateInv => AddressRateKept
  <2> SUFFICES ASSUME RateInv, AddrPerDay > 0, NEW f \in Forms, NEW w \in 0 .. MaxTime,
                      f.addr # None
               PROVE  Cardinality({c \in Existing : form[c].addr = f.addr /\ rated[c] = w})
                        <= AddrPerDay
    BY DEF AddressRateKept
  <2> DEFINE A == Admitted(f.addr, w)
             B == {c \in Existing : form[c].addr = f.addr /\ rated[c] = w}
  <2>1. B \subseteq A /\ A \subseteq Requests
    BY DEF Admitted, PastAddr, Existing
  <2>2. IsFiniteSet(A)
    BY <2>1, RequestsAssumption, FS_Subset
  <2>3. /\ Cardinality(B) <= Cardinality(A)
        /\ Cardinality(B) \in Nat /\ Cardinality(A) \in Nat
    BY <2>1, <2>2, FS_Subset, FS_CardinalityType
  <2>4. Cardinality(A) <= AddrPerDay
    BY Zenon DEF RateInv
  <2> QED
    BY <2>3, <2>4, IntakeLimitsAssumption
<1> QED
  BY <1>1, <1>2, RateStep, AlwaysLimitFacts, PTL DEF Spec

-----------------------------------------------------------------------------

\* A non-empty set of naturals has a least element.
LEMMA LeastOf ==
  ASSUME NEW T \in SUBSET Nat, T # {}
  PROVE  \E x \in T : \A y \in T : x <= y
<1> DEFINE R == {p \in Nat \X Nat : p[1] < p[2]}
<1>1. IsWellFoundedOn(R, Nat)
  BY NatLessThanWellFounded, Zenon DEF OpToRel
<1> HIDE DEF R
<1>2. PICK x \in T : \A y \in T : ~ (<<y, x>> \in R)
  BY <1>1, WFMin, Zenon
<1>3. \A y \in T : x <= y
  <2> SUFFICES ASSUME NEW y \in T, y < x PROVE FALSE
    OBVIOUS
  <2>1. <<y, x>> \in Nat \X Nat /\ <<y, x>>[1] < <<y, x>>[2]
    OBVIOUS
  <2>2. <<y, x>> \in R
    BY <2>1 DEF R
  <2> QED
    BY <1>2, <2>2
<1> QED
  BY <1>3

\* One that is bounded has a greatest element: its least bound.
LEMMA GreatestOf ==
  ASSUME NEW T \in SUBSET Nat, T # {}, NEW b \in Nat, \A t \in T : t <= b
  PROVE  \E x \in T : \A y \in T : y <= x
<1> DEFINE Bounds == {m \in Nat : \A t \in T : t <= m}
<1>1. PICK m \in Bounds : \A y \in Bounds : m <= y
  <2>1. b \in Bounds /\ Bounds \in SUBSET Nat
    OBVIOUS
  <2> HIDE DEF Bounds
  <2> QED
    BY <2>1, LeastOf
<1>2. m \in Nat /\ \A t \in T : t <= m
  OBVIOUS
<1>3. m \in T
  <2> SUFFICES ASSUME m \notin T PROVE FALSE
    OBVIOUS
  <2>1. \A t \in T : t <= m - 1
    BY <1>2
  <2>2. m - 1 \in Nat
    <3>1. PICK t \in T : TRUE
      BY Zenon
    <3>2. t \in Nat /\ t <= m - 1 /\ m \in Nat
      BY <1>2, <2>1, <3>1
    <3> QED
      BY <3>2
  <2>3. m - 1 \in Bounds
    BY <2>1, <2>2
  <2> QED
    BY <1>1, <1>2, <2>3
<1> QED
  BY <1>2, <1>3

\* When the claims of address a are a cooldown old.
Times(a) == {created[c] + Cooldown : c \in {d \in Existing : form[d].addr = a}}

LastOf(T) == IF Cooldown = 0 \/ T = {} THEN 0 ELSE CHOOSE t \in T : \A u \in T : u <= t

\* The status page's cooldown ends when the last of them is, or is none.
LEMMA CooldownIsLast ==
  ASSUME TypeOK, CooldownInv, Cooldown > 0, NEW a
  PROVE  /\ cooldown(a) \in Nat
         /\ \A t \in Times(a) : t \in Nat /\ t <= cooldown(a)
<1>1. \A c \in Existing : created[c] \in Nat /\ created[c] <= now
  BY DEF CooldownInv, HasCreatedAt, Existing
<1>2. now \in Nat /\ Cooldown \in Nat
  BY ClockAssumption, IntakeLimitsAssumption DEF TypeOK
<1>3. Times(a) \in SUBSET Nat /\ \A t \in Times(a) : t <= now + Cooldown
  BY <1>1, <1>2 DEF Times
<1>4. CASE Times(a) = {}
  BY <1>4 DEF cooldown, Times
<1>5. CASE Times(a) # {}
  <2>1. now + Cooldown \in Nat
    BY <1>2
  <2>2. \E x \in Times(a) : \A y \in Times(a) : y <= x
    BY <1>3, <1>5, <2>1, GreatestOf, Zenon
  <2>3. Cooldown # 0
    BY <1>2
  <2>4. cooldown(a) = CHOOSE t \in Times(a) : \A u \in Times(a) : u <= t
    BY <1>5, <2>3, Zenon DEF cooldown, Times
  <2>5. cooldown(a) \in Times(a) /\ \A u \in Times(a) : u <= cooldown(a)
    BY <2>2, <2>4, Zenon
  <2> QED
    BY <1>3, <2>5
<1> QED
  BY <1>4, <1>5

\* The budget of a day is a number.
LEMMA UsedNat ==
  ASSUME NEW d
  PROVE  Used(d) \in Nat
<1> DEFINE S == {c \in Existing : Counted(c) /\ Day(created[c]) = d}
<1>1. S \subseteq Requests
  BY DEF Existing
<1>2. IsFiniteSet(S)
  BY <1>1, RequestsAssumption, FS_Subset
<1> QED
  BY <1>2, FS_CardinalityType DEF Used

\* Who is eligible has cooled down, and finds room in the day's budget.
LEMMA EligibleFits ==
  ASSUME TypeOK, CooldownInv
  PROVE  EligibleIsLetThrough
<1> SUFFICES ASSUME NEW r \in Requests, AddressStatus(form[r].addr).eligible
             PROVE  /\ Cooldown > 0 => CooledDown(r)
                    /\ window[r] = Day(now) => WithinDay(r)
  BY Zenon DEF EligibleIsLetThrough
<1>1. cooldown(form[r].addr) <= now /\ ~budgetExhausted
  BY Zenon DEF AddressStatus, tokenStatuses
<1>2. now \in Nat
  BY ClockAssumption DEF TypeOK
<1>3. ASSUME Cooldown > 0 PROVE CooledDown(r)
  <2>1. /\ cooldown(form[r].addr) \in Nat
        /\ \A t \in Times(form[r].addr) : t \in Nat /\ t <= cooldown(form[r].addr)
    BY <1>3, CooldownIsLast
  <2>2. \A t \in Times(form[r].addr) : t <= now
    BY <1>1, <1>2, <2>1
  <2> QED
    BY <2>2 DEF CooledDown, Times
<1>4. ASSUME window[r] = Day(now) PROVE WithinDay(r)
  <2>1. Used(Day(now)) \in Nat /\ DailyBudget \in Nat
    BY UsedNat, IntakeLimitsAssumption
  <2> QED
    BY <1>1, <1>4, <2>1 DEF budgetExhausted, dailyBudgetStatus, WithinDay
<1> QED
  BY <1>3, <1>4

\* Whom the status page calls eligible, the cooldown and the daily budget let
\* through: the two computations of AddressStatus and CreateClaim agree.
THEOREM EligibleHolds == Spec => []EligibleIsLetThrough
<1>1. Init => CooldownInv
  BY DEF Init, CooldownInv, PastCooldown, HasCreatedAt
<1>2. TypeOK /\ CooldownInv => EligibleIsLetThrough
  BY EligibleFits
<1> QED
  BY <1>1, <1>2, CooldownStep, AlwaysLimitFacts, PTL DEF Spec

\* No step but a claim of the address itself changes what it has to wait for.
LEMMA TimesStay ==
  ASSUME StepFacts, NEW a, ~ \E c \in Existing' \ Existing : form[c].addr = a
  PROVE  cooldown(a)' = cooldown(a)
<1>1. /\ form' = form
      /\ \A c \in Existing : c \in Existing' /\ created'[c] = created[c]
  BY DEF StepFacts, ClaimsStay, Existing
<1>2. {d \in Existing' : form'[d].addr = a} = {d \in Existing : form[d].addr = a}
  BY <1>1
<1>3. Times(a)' = Times(a)
  BY <1>1, <1>2 DEF Times
<1>4. cooldown(a) = LastOf(Times(a)) /\ cooldown(a)' = LastOf(Times(a)')
  BY Zenon DEF cooldown, Times, LastOf
<1> QED
  BY <1>3, <1>4

\* The announced time stands.
LEMMA AnnouncedStep ==
  ASSUME TypeOK, TypeOK', CooldownInv, StepFacts, NEW a,
         AddressStatus(a).next # NoTime,
         ~(now' >= AddressStatus(a).next), ~budgetExhausted',
         ~ \E c \in Existing' \ Existing : form[c].addr = a
  PROVE  AddressStatus(a)'.next = AddressStatus(a).next
<1>1. /\ AddressStatus(a).next = cooldown(a)
  BY DEF AddressStatus, tokenStatuses
<1>2. cooldown(a)' = cooldown(a)
  BY TimesStay
<1>3. cooldown(a) \in Nat
  <2>1. CASE Cooldown > 0
    BY <2>1, CooldownIsLast
  <2>2. CASE ~(Cooldown > 0)
    BY <2>2, IntakeLimitsAssumption DEF cooldown
  <2> QED
    BY <2>1, <2>2
<1>4. now' \in Nat
  BY ClockAssumption DEF TypeOK
<1>5. ~(cooldown(a)' <= now')
  BY <1>1, <1>2, <1>3, <1>4
<1>6. AddressStatus(a)'.next = cooldown(a)'
  BY <1>5 DEF AddressStatus, tokenStatuses
<1> QED
  BY <1>1, <1>2, <1>6

\* The NextEligibleTime that an address was told stands until it comes, unless
\* the address claims again or the budget runs out.
THEOREM AnnouncedTimesStand == Spec => AnnouncedTimeStands
<1>1. Init => CooldownInv
  BY DEF Init, CooldownInv, PastCooldown, HasCreatedAt
<1> DEFINE Stands ==
        \A a \in {f.addr : f \in Forms} :
            LET t == AddressStatus(a).next IN
            t # NoTime =>
                \/ AddressStatus(a)'.next = t
                \/ now' >= t \/ budgetExhausted'
                \/ \E c \in Existing' \ Existing : form[c].addr = a
<1>2. TypeOK /\ TypeOK' /\ CooldownInv /\ StepFacts => Stands
  <2> SUFFICES ASSUME TypeOK, TypeOK', CooldownInv, StepFacts, NEW a,
                      AddressStatus(a).next # NoTime,
                      AddressStatus(a)'.next # AddressStatus(a).next,
                      ~(now' >= AddressStatus(a).next), ~budgetExhausted',
                      ~ \E c \in Existing' \ Existing : form[c].addr = a
               PROVE  FALSE
    BY Zenon
  <2> QED
    BY AnnouncedStep
<1> QED
  BY <1>1, <1>2, CooldownStep, AlwaysLimitFacts, PTL DEF Spec, AnnouncedTimeStands

=============================================================================
