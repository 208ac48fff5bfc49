-------------------------- MODULE ClaimIntakeProofs --------------------------
(***************************************************************************)
(* Proofs about ClaimIntake for every finite set of requests, every set of *)
(* forms, and every limit, budget and length of the day.                   *)
(***************************************************************************)
EXTENDS ClaimIntake, FiniteSetTheorems, TLAPS

\* Both readings of the clock are taken before the INSERT, and a handler has a
\* claim in the table exactly after it.
HandlerInv ==
    \A r \in Requests :
        /\ pc[r] \in {"window", "insert"} => created[r] \in Nat
        /\ pc[r] = "insert" => window[r] \in Nat
        /\ pc[r] \in Before \cup {"new"} => status[r] = "absent"
        /\ pc[r] \in After => status[r] # "absent"

\* The fields of a request are keys of the tables they are looked up in.
LEMMA FormKeys ==
  ASSUME NEW f \in Forms
  PROVE  f.challenge \in Challenges /\ \A k \in Kinds : <<k, f[k]>> \in RateKey
BY DEF Challenges, RateKey

\* utcDayWindow and the rate limiter's windows number the windows from 0 on.
LEMMA WindowNat ==
  ASSUME NEW t \in Nat, NEW n \in Nat \ {0}
  PROVE  t \div n \in Nat
OBVIOUS

\* A counter that goes up stays a counter.
LEMMA CountUp ==
  ASSUME NEW S, NEW f \in [S -> Nat], NEW w
  PROVE  [f EXCEPT ![w] = @ + 1] \in [S -> Nat]
<1> DEFINE g == [f EXCEPT ![w] = @ + 1]
<1>1. g = [s \in S |-> IF s = w THEN f[s] + 1 ELSE f[s]]
  BY Zenon
<1>2. ASSUME NEW s \in S PROVE (IF s = w THEN f[s] + 1 ELSE f[s]) \in Nat
  <2>1. f[s] \in Nat
    BY Zenon
  <2> QED
    BY <2>1
<1> HIDE DEF g
<1>3. g \in [S -> Nat]
  BY <1>1, <1>2, Zenon
<1> QED
  BY <1>3, Zenon DEF g

\* No step takes a variable out of its domain, or a handler past the INSERT
\* without its claim.
LEMMA TypeStep == TypeOK /\ HandlerInv /\ [Next]_vars => TypeOK' /\ HandlerInv'
<1> SUFFICES ASSUME TypeOK, HandlerInv, [Next]_vars PROVE TypeOK' /\ HandlerInv'
  BY Zenon
<1> USE DEF TypeOK, HandlerInv, handlers, tables, ghosts, Existing, Status, Before, After, Goto
<1> USE IntakeLimitsAssumption, ClockAssumption
<1>1. ASSUME NEW r \in Requests, NEW l, NEW m \in {"lookup", "proof", "consume", "screen",
             "invitation", "usage", "cooldown"}, l \in Before \cup {"new"}, Pass(r, l, m)
      PROVE  TypeOK' /\ HandlerInv'
  BY <1>1 DEF Pass
<1>2. ASSUME NEW r \in Requests, NEW l, Pass(r, l, "done") PROVE TypeOK' /\ HandlerInv'
  BY <1>2, Zenon DEF Pass
<1>3. ASSUME NEW r \in Requests, Arrive(r) PROVE TypeOK' /\ HandlerInv'
  BY <1>1, <1>3, Zenon DEF Arrive
<1>4. ASSUME NEW r \in Requests, GetClaimByIdempotencyKey(r) PROVE TypeOK' /\ HandlerInv'
  <2>1. ASSUME NEW c \in Requests, pc[r] = "lookup", Return(r, c),
               UNCHANGED <<form, created, window, tables, now, ghosts>>
        PROVE  TypeOK' /\ HandlerInv'
    BY <2>1 DEF Return
  <2> QED
    BY <1>1, <1>4, <2>1, Zenon DEF GetClaimByIdempotencyKey
<1>5. ASSUME NEW r \in Requests, GetWalletChallenge(r) PROVE TypeOK' /\ HandlerInv'
  BY <1>1, <1>5, Zenon DEF GetWalletChallenge
<1>6. ASSUME NEW r \in Requests, ConsumeWalletChallenge(r) PROVE TypeOK' /\ HandlerInv'
  BY <1>6, FormKeys DEF ConsumeWalletChallenge
<1>7. ASSUME NEW r \in Requests, Screen(r) PROVE TypeOK' /\ HandlerInv'
  BY <1>1, <1>7, Zenon DEF Screen
<1>8. ASSUME NEW r \in Requests, CheckInvitation(r) \/ CheckCampaignBudget(r)
      PROVE  TypeOK' /\ HandlerInv'
  BY <1>1, <1>8, Zenon DEF CheckInvitation, CheckCampaignBudget
<1>9. ASSUME NEW r \in Requests, CheckCooldown(r) PROVE TypeOK' /\ HandlerInv'
  BY <1>9 DEF CheckCooldown
<1>10. ASSUME NEW r \in Requests, NEW k \in Kinds, Allow(r, k) PROVE TypeOK' /\ HandlerInv'
  <2>1. RateWindow(k) \in Nat
    <3>1. now \in Nat
      OBVIOUS
    <3> QED
      BY <3>1, WindowNat, Zenon DEF RateWindow
  <2>2. count' \in [RateKey -> [0 .. MaxTime -> Nat]]
    <3> DEFINE key == <<k, form[r][k]>>
               w == RateWindow(k)
    <3>1. CASE count' = [count EXCEPT ![key][w] = @ + 1]
      <4>1. key \in RateKey
        BY FormKeys, Zenon
      <4>2. count[key] \in [0 .. MaxTime -> Nat]
        BY <4>1, Zenon
      <4>3. [count[key] EXCEPT ![w] = @ + 1] \in [0 .. MaxTime -> Nat]
        BY <4>2, CountUp, Zenon
      <4>4. count' = [count EXCEPT ![key] = [count[key] EXCEPT ![w] = @ + 1]]
        BY <3>1, Zenon
      <4> HIDE DEF key, w
      <4> QED
        BY <4>1, <4>3, <4>4, Zenon
    <3> QED
      BY <1>10, <3>1, Zenon DEF Allow
  <2>3. pc' \in [Requests -> Before \cup After \cup {"new", "done"}]
    <3>1. AfterRate[k] \in {"addr", "fp", "stamp"}
      BY DEF AfterRate, Kinds
    <3>2. \/ pc' = [pc EXCEPT ![r] = AfterRate[k]]
          \/ pc' = [pc EXCEPT ![r] = "done"]
      BY <1>10, Zenon DEF Allow
    <3>3. PICK p \in {AfterRate[k], "done"} : pc' = [pc EXCEPT ![r] = p]
      BY <3>2, Zenon
    <3>4. p \in Before \cup After \cup {"new", "done"}
      BY <3>1, Zenon DEF Before, After
    <3> QED
      BY <3>3, <3>4, Zenon
  <2>4. rated' \in [Requests -> Nat \cup {NoTime}]
    BY <1>10, <2>1, Zenon DEF Allow
  <2>5. UNCHANGED <<form, created, window, answer, status, challenge, uses, now, revived, seen>>
    BY <1>10, Zenon DEF Allow
  <2>6. HandlerInv'
    BY <1>10, <2>5, SMTT(30) DEF Allow, AfterRate, Kinds
  <2> QED
    BY <2>2, <2>3, <2>4, <2>5, <2>6, Zenon
<1>11. ASSUME NEW r \in Requests, Stamp(r) PROVE TypeOK' /\ HandlerInv'
  BY <1>11 DEF Stamp
<1>12. ASSUME NEW r \in Requests, DayWindow(r) PROVE TypeOK' /\ HandlerInv'
  <2>1. now \in Nat
    OBVIOUS
  <2>2. Day(now) \in Nat
    BY <2>1, WindowNat, Zenon DEF Day
  <2> QED
    BY <1>12, <2>2, Zenon DEF DayWindow
<1>13. ASSUME NEW r \in Requests, CreateClaimWithIdempotencyAndBudgets(r)
       PROVE  TypeOK' /\ HandlerInv'
  <2>1. pc[r] = "insert" /\ UNCHANGED <<form, created, window, challenge, uses, count, now, ghosts>>
    BY <1>13, Zenon DEF CreateClaimWithIdempotencyAndBudgets
  <2>2. ASSUME NEW c \in Requests, Return(r, c), UNCHANGED status PROVE TypeOK' /\ HandlerInv'
    BY <2>1, <2>2, Zenon DEF Return
  <2>3. ASSUME NEW m \in After, Goto(r, m), status' = [status EXCEPT ![r] = "received"],
               UNCHANGED answer
        PROVE  TypeOK' /\ HandlerInv'
    BY <2>1, <2>3, Zenon
  <2> QED
    BY <1>13, <2>2, <2>3, Zenon DEF CreateClaimWithIdempotencyAndBudgets
<1>14. ASSUME NEW r \in Requests, ConsumeInvitationCode(r) PROVE TypeOK' /\ HandlerInv'
  BY <1>14 DEF ConsumeInvitationCode
<1>15. ASSUME NEW r \in Requests, Enqueue(r) PROVE TypeOK' /\ HandlerInv'
  BY <1>15 DEF Enqueue, Return
<1>16. ASSUME NEW r \in Requests, Refuse(r) \/ AbandonIntake(r) PROVE TypeOK' /\ HandlerInv'
  BY <1>2, <1>16, Zenon DEF Refuse, AbandonIntake
<1>17. ASSUME NEW r \in Requests, RejectIntake(r) PROVE TypeOK' /\ HandlerInv'
  BY <1>17, Zenon DEF RejectIntake
<1>18. ASSUME NEW r \in Requests, PayoutFails(r) \/ AdminRetryClaim(r) \/ AdminCancelClaim(r)
       PROVE  TypeOK' /\ HandlerInv'
  <2>1. /\ status[r] # "absent"
        /\ \E s \in Status \ {"absent"} : status' = [status EXCEPT ![r] = s]
        /\ revived' \subseteq Requests
        /\ UNCHANGED <<handlers, challenge, uses, count, now, seen, rated>>
    BY <1>18, Zenon DEF PayoutFails, AdminRetryClaim, AdminCancelClaim
  <2> QED
    BY <2>1
<1>19. ASSUME NEW h \in Challenges, CreateWalletChallenge(h) \/ ChallengeExpires(h)
       PROVE  TypeOK' /\ HandlerInv'
  <2>1. /\ \E x \in {"open", "expired"} : challenge' = [challenge EXCEPT ![h] = x]
        /\ UNCHANGED <<handlers, status, uses, count, now, ghosts>>
    BY <1>19, Zenon DEF CreateWalletChallenge, ChallengeExpires
  <2>2. challenge' \in [Challenges -> {"none", "open", "consumed", "expired"}]
    BY <2>1, Zenon
  <2> QED
    BY <2>1, <2>2, Zenon
<1>20. CASE Tick
  BY <1>20 DEF Tick
<1>21. CASE UNCHANGED vars
  BY <1>21, Zenon DEF vars
<1> QED
  BY <1>3, <1>4, <1>5, <1>6, <1>7, <1>8, <1>9, <1>10, <1>11, <1>12, <1>13, <1>14, <1>15, <1>16,
     <1>17, <1>18, <1>19, <1>20, <1>21, Zenon DEF Next, Handler

\* Every variable of the intake keeps its domain, and no claim reaches the table
\* without CreatedAt and a budget day, whatever handlers, operator and clock do.
THEOREM IntakeTypeCorrect == Spec => []TypeOK
<1>1. Init => TypeOK /\ HandlerInv
  BY ClockAssumption DEF Init, TypeOK, HandlerInv, Existing, Before, After, Status, NoTime, None
<1> QED
  BY <1>1, TypeStep, PTL DEF Spec

-----------------------------------------------------------------------------

\* Handler r inserts its claim, having looked at keys and budgets.
Inserts(r) ==
    /\ status[r] = "absent"
    /\ \A c \in Requests : ~SameKey(r, c)
    /\ WithinDay(r) /\ WithinCampaign(r)
    /\ created[r] \in Nat /\ window[r] \in Nat
    /\ status' = [status EXCEPT ![r] = "received"]
    /\ UNCHANGED <<created, window, revived>>

\* Handler r is past its wallet challenge.
Past(r) == status[r] # "absent" \/ pc[r] \in Before \ {"lookup", "proof", "consume"}

\* What a request asks for, and a claim in the table with its stamps, stay.
ClaimsStay ==
    /\ form' = form
    /\ \A c \in Existing :
        status'[c] # "absent" /\ created'[c] = created[c] /\ window'[c] = window[c]

\* A claim appears by the INSERT only.
OnlyInserts ==
    \/ \A c \in Requests : status[c] = "absent" => status'[c] = "absent"
    \/ \E r \in Requests : Inserts(r)

\* A request is answered with its own claim or with the one that has its key.
AnswersMatch ==
    \A r \in Requests :
        \/ answer'[r] = answer[r]
        \/ answer'[r] \in Existing /\ (answer'[r] = r \/ SameKey(r, answer'[r]))

\* A handler gets past a challenge by consuming it.
ChallengeMoves ==
    /\ \A h \in Challenges : challenge[h] = "consumed" => challenge'[h] = "consumed"
    /\ \/ \A r \in Requests : Past(r)' => Past(r) \/ form[r].challenge = None
       \/ \E r \in Requests :
            /\ challenge[form[r].challenge] = "open"
            /\ challenge'[form[r].challenge] = "consumed"
            /\ \A s \in Requests \ {r} : Past(s)' => Past(s)

\* A claim starts to count by its INSERT, or is marked as revived.
StaysCounted ==
    \A c \in Requests :
        Counted(c)' /\ c \notin revived' => Inserts(c) \/ (Counted(c) /\ c \notin revived)

StepFacts == ClaimsStay /\ OnlyInserts /\ AnswersMatch /\ ChallengeMoves /\ StaysCounted

\* Every step of the intake is of this kind.
LEMMA IntakeFacts == TypeOK /\ HandlerInv /\ [Next]_vars => StepFacts
<1> SUFFICES ASSUME TypeOK, HandlerInv, [Next]_vars PROVE StepFacts
  BY Zenon
<1> USE DEF StepFacts, ClaimsStay, OnlyInserts, AnswersMatch, ChallengeMoves, StaysCounted,
            TypeOK, HandlerInv, handlers, tables, ghosts, Existing, Status, Before, After, Goto,
            Past, Counted
<1>1. ASSUME NEW r \in Requests, NEW l, NEW m, Pass(r, l, m),
             \/ m = "done"
             \/ l \in {"new", "lookup", "proof"} /\ m \in {"lookup", "proof", "consume"}
             \/ l = "proof" /\ form[r].challenge = None
             \/ l \in Before \ {"lookup", "proof", "consume"}
      PROVE  StepFacts
  BY <1>1 DEF Pass
<1>3. ASSUME NEW r \in Requests, Arrive(r) PROVE StepFacts
  BY <1>1, <1>3, Zenon DEF Arrive
<1>4. ASSUME NEW r \in Requests, GetClaimByIdempotencyKey(r) PROVE StepFacts
  <2>1. ASSUME NEW c \in Requests, pc[r] = "lookup", SameKey(r, c), Return(r, c),
               UNCHANGED <<form, created, window, tables, now, ghosts>>
        PROVE  StepFacts
    BY <2>1 DEF Return, SameKey
  <2> QED
    BY <1>1, <1>4, <2>1, Zenon DEF GetClaimByIdempotencyKey
<1>5. ASSUME NEW r \in Requests, GetWalletChallenge(r) PROVE StepFacts
  BY <1>1, <1>5, Zenon DEF GetWalletChallenge
<1>6. ASSUME NEW r \in Requests, ConsumeWalletChallenge(r) PROVE StepFacts
  <2>1. form[r].challenge \in Challenges
    BY FormKeys, Zenon
  <2>2. /\ challenge[form[r].challenge] = "open"
        /\ challenge' = [challenge EXCEPT ![form[r].challenge] = "consumed"]
        /\ pc' = [pc EXCEPT ![r] = "screen"]
        /\ UNCHANGED <<form, created, window, answer, status, uses, count, now, ghosts>>
    BY <1>6, Zenon DEF ConsumeWalletChallenge
  <2>3. ChallengeMoves
    <3>1. challenge'[form[r].challenge] = "consumed"
      BY <2>1, <2>2, Zenon
    <3>2. \A h \in Challenges : challenge[h] = "consumed" => challenge'[h] = "consumed"
      BY <2>2
    <3>3. \A s \in Requests \ {r} : Past(s)' => Past(s)
      BY <2>2
    <3> QED
      BY <2>2, <3>1, <3>2, <3>3
  <2>4. ClaimsStay /\ OnlyInserts /\ AnswersMatch /\ StaysCounted
    BY <2>2, Zenon
  <2> QED
    BY <2>3, <2>4, Zenon
<1>7. ASSUME NEW r \in Requests, Screen(r) PROVE StepFacts
  BY <1>1, <1>7, Zenon DEF Screen
<1>8. ASSUME NEW r \in Requests, CheckInvitation(r) \/ CheckCampaignBudget(r) PROVE StepFacts
  BY <1>1, <1>8, Zenon DEF CheckInvitation, CheckCampaignBudget
<1>9. ASSUME NEW r \in Requests, CheckCooldown(r) PROVE StepFacts
  BY <1>9 DEF CheckCooldown
<1>10. ASSUME NEW r \in Requests, NEW k \in Kinds, Allow(r, k) PROVE StepFacts
  <2>1. \E m : pc[r] = k /\ pc' = [pc EXCEPT ![r] = m]
    BY <1>10, Zenon DEF Allow
  <2>2. UNCHANGED <<form, created, window, answer, status, challenge, revived>>
    BY <1>10, Zenon DEF Allow
  <2> QED
    BY <2>1, <2>2 DEF Kinds
<1>11. ASSUME NEW r \in Requests, Stamp(r) PROVE StepFacts
  BY <1>11 DEF Stamp
<1>12. ASSUME NEW r \in Requests, DayWindow(r) PROVE StepFacts
  BY <1>12 DEF DayWindow
<1>13. ASSUME NEW r \in Requests, CreateClaimWithIdempotencyAndBudgets(r) PROVE StepFacts
  <2>1. /\ pc[r] = "insert" /\ status[r] = "absent" /\ created[r] \in Nat /\ window[r] \in Nat
        /\ UNCHANGED <<form, created, window, challenge, uses, count, now, ghosts>>
    BY <1>13, Zenon DEF CreateClaimWithIdempotencyAndBudgets
  <2>2. ASSUME NEW c \in Requests, SameKey(r, c), Return(r, c), UNCHANGED status PROVE StepFacts
    BY <2>1, <2>2, Zenon DEF Return, SameKey
  <2>3. ASSUME \A c \in Requests : ~SameKey(r, c), WithinDay(r), WithinCampaign(r),
               status' = [status EXCEPT ![r] = "received"], UNCHANGED answer,
               NEW m \in After, Goto(r, m)
        PROVE  StepFacts
    <3>1. Inserts(r)
      BY <2>1, <2>3, Zenon DEF Inserts
    <3> QED
      BY <2>1, <2>3, <3>1, SMTT(30)
  <2> QED
    BY <1>13, <2>2, <2>3, Zenon DEF CreateClaimWithIdempotencyAndBudgets
<1>14. ASSUME NEW r \in Requests, ConsumeInvitationCode(r) PROVE StepFacts
  BY <1>14, Zenon DEF ConsumeInvitationCode
<1>15. ASSUME NEW r \in Requests, Enqueue(r) PROVE StepFacts
  <2>1. ClaimsStay /\ OnlyInserts
    BY <1>15, Zenon DEF Enqueue, Return
  <2>2. AnswersMatch
    BY <1>15, Zenon DEF Enqueue, Return
  <2>3. ChallengeMoves
    BY <1>15 DEF Enqueue, Return
  <2>4. StaysCounted
    BY <1>15, Zenon DEF Enqueue, Return
  <2> QED
    BY <2>1, <2>2, <2>3, <2>4, Zenon
<1>16. ASSUME NEW r \in Requests, Refuse(r) \/ AbandonIntake(r) PROVE StepFacts
  BY <1>1, <1>16, Zenon DEF Refuse, AbandonIntake
<1>17. ASSUME NEW r \in Requests, RejectIntake(r) PROVE StepFacts
  <2>1. ClaimsStay /\ OnlyInserts /\ AnswersMatch
    BY <1>17, Zenon DEF RejectIntake
  <2>2. ChallengeMoves /\ StaysCounted
    BY <1>17 DEF RejectIntake
  <2> QED
    BY <2>1, <2>2, Zenon
<1>18. ASSUME NEW r \in Requests, PayoutFails(r) \/ AdminRetryClaim(r) \/ AdminCancelClaim(r)
       PROVE  StepFacts
  <2>1. UNCHANGED <<pc, form, created, window, answer, challenge>>
    BY <1>18, Zenon DEF PayoutFails, AdminRetryClaim, AdminCancelClaim
  <2>2. /\ status[r] # "absent" /\ status'[r] # "absent"
        /\ \A c \in Requests : c # r => status'[c] = status[c]
        /\ revived \subseteq revived' /\ revived' \subseteq revived \cup {r}
    BY <1>18 DEF PayoutFails, AdminRetryClaim, AdminCancelClaim
  <2>3. Counted(r)' => r \in revived'
    BY <1>18 DEF PayoutFails, AdminRetryClaim, AdminCancelClaim
  <2>4. ClaimsStay /\ OnlyInserts
    BY <2>1, <2>2, Zenon
  <2>5. AnswersMatch /\ ChallengeMoves
    BY <2>1, <2>2, Zenon
  <2>6. StaysCounted
    BY <2>2, <2>3, Zenon
  <2> QED
    BY <2>4, <2>5, <2>6, Zenon
<1>19. ASSUME NEW h \in Challenges, CreateWalletChallenge(h) \/ ChallengeExpires(h)
       PROVE  StepFacts
  BY <1>19, Zenon DEF CreateWalletChallenge, ChallengeExpires
<1>20. CASE Tick
  BY <1>20, Zenon DEF Tick
<1>21. CASE UNCHANGED vars
  BY <1>21, Zenon DEF vars
<1> QED
  BY <1>3, <1>4, <1>5, <1>6, <1>7, <1>8, <1>9, <1>10, <1>11, <1>12, <1>13, <1>14, <1>15, <1>16,
     <1>17, <1>18, <1>19, <1>20, <1>21, Zenon DEF Next, Handler

\* TypeOK, HandlerInv and the facts about steps, for the theorems that follow.
LEMMA AlwaysFacts == Spec => []TypeOK /\ []HandlerInv /\ [][StepFacts]_vars
<1>1. Init => TypeOK /\ HandlerInv
  BY ClockAssumption DEF Init, TypeOK, HandlerInv, Existing, Before, After, Status, NoTime, None
<1> QED
  BY <1>1, TypeStep, IntakeFacts, PTL DEF Spec

-----------------------------------------------------------------------------

\* IdempotentAnswers made inductive: one claim has a key, and every answer is a
\* claim in the table with the key asked for.
KeyInv ==
    /\ \A c, d \in Existing : form[c].key # None /\ form[d].key = form[c].key => c = d
    /\ \A r \in Requests : answer[r] # None =>
        answer[r] \in Existing /\ (form[r].key # None => form[answer[r]].key = form[r].key)

\* The key is looked up again in the transaction of the INSERT, so no step makes
\* a second claim with it.
LEMMA KeyStep == TypeOK /\ KeyInv /\ [StepFacts]_vars => KeyInv'
<1> SUFFICES ASSUME TypeOK, KeyInv, [StepFacts]_vars PROVE KeyInv'
  BY Zenon
<1>1. CASE StepFacts
  <2> USE <1>1 DEF StepFacts, ClaimsStay
  <2>1. \A c, d \in Existing' : form'[c].key # None /\ form'[d].key = form'[c].key => c = d
    <3>1. CASE \A c \in Requests : status[c] = "absent" => status'[c] = "absent"
      BY <3>1 DEF KeyInv, Existing
    <3>2. ASSUME NEW r \in Requests, Inserts(r)
          PROVE  \A c, d \in Existing' : form'[c].key # None /\ form'[d].key = form'[c].key => c = d
      <4>1. Existing' = Existing \cup {r}
        BY <3>2 DEF Inserts, Existing, TypeOK
      <4>2. \A c \in Existing : form[r].key # None => form[c].key # form[r].key
        BY <3>2, Zenon DEF Inserts, SameKey, Existing
      <4> QED
        BY <4>1, <4>2 DEF KeyInv
    <3> QED
      BY <3>1, <3>2, Zenon DEF OnlyInserts
  <2>2. ASSUME NEW r \in Requests, answer'[r] # None
        PROVE  /\ answer'[r] \in Existing'
               /\ form'[r].key # None => form'[answer'[r]].key = form'[r].key
    <3>1. /\ answer'[r] \in Existing
          /\ form[r].key # None => form[answer'[r]].key = form[r].key
      BY <2>2, Zenon DEF KeyInv, AnswersMatch, SameKey
    <3> QED
      BY <3>1, Zenon DEF Existing
  <2> QED
    BY <2>1, <2>2, Zenon DEF KeyInv
<1>2. CASE UNCHANGED vars
  BY <1>2, Zenon DEF KeyInv, Existing, vars, handlers, tables
<1> QED
  BY <1>1, <1>2, Zenon

\* CreateClaim answers all requests with one Idempotency-Key with the same claim,
\* for any number of handlers.
THEOREM KeysAreIdempotent == Spec => []IdempotentAnswers
<1>1. Init => KeyInv
  BY DEF Init, KeyInv, Existing
<1>2. KeyInv => IdempotentAnswers
  <2> SUFFICES ASSUME KeyInv, NEW r \in Requests, NEW s \in Requests,
                      form[r].key # None, form[s].key = form[r].key,
                      answer[r] # None, answer[s] # None
               PROVE  answer[r] = answer[s] /\ form[answer[r]].key = form[r].key
    BY Zenon DEF IdempotentAnswers
  <2>1. answer[r] \in Existing /\ form[answer[r]].key = form[r].key
    BY Zenon DEF KeyInv
  <2>2. answer[s] \in Existing /\ form[answer[s]].key = form[r].key
    BY Zenon DEF KeyInv
  <2> QED
    BY <2>1, <2>2 DEF KeyInv
<1> QED
  BY <1>1, <1>2, KeyStep, AlwaysFacts, PTL DEF Spec

-----------------------------------------------------------------------------

\* ChallengeOnce made inductive: who is past a challenge consumed it, alone.
ChallengeInv ==
    \A r \in Requests : Past(r) /\ form[r].challenge # None =>
        /\ challenge[form[r].challenge] = "consumed"
        /\ \A s \in Requests : Past(s) /\ form[s].challenge = form[r].challenge => s = r

\* ConsumeWalletChallenge takes a challenge that is open, so nobody is past it.
LEMMA ChallengeStep == TypeOK /\ ChallengeInv /\ [StepFacts]_vars => ChallengeInv'
<1> SUFFICES ASSUME TypeOK, ChallengeInv, [StepFacts]_vars PROVE ChallengeInv'
  BY Zenon
<1>1. CASE StepFacts
  <2>1. form' = form /\ form \in [Requests -> Forms]
    BY <1>1, Zenon DEF StepFacts, ClaimsStay, TypeOK
  <2>2. \A r \in Requests : form[r].challenge \in Challenges
    BY <2>1, FormKeys, Zenon
  <2>3. \A h \in Challenges : challenge[h] = "consumed" => challenge'[h] = "consumed"
    BY <1>1, Zenon DEF StepFacts, ChallengeMoves
  <2>4. CASE \A r \in Requests : Past(r)' => Past(r) \/ form[r].challenge = None
    BY <2>1, <2>2, <2>3, <2>4, Zenon DEF ChallengeInv
  <2>5. ASSUME NEW r \in Requests, challenge[form[r].challenge] = "open",
               challenge'[form[r].challenge] = "consumed",
               \A s \in Requests \ {r} : Past(s)' => Past(s)
        PROVE  ChallengeInv'
    <3>1. \A s \in Requests \ {r} :
            Past(s)' /\ form[s].challenge # None => form[s].challenge # form[r].challenge
      BY <2>5, Zenon DEF ChallengeInv
    <3> QED
      BY <2>1, <2>2, <2>3, <2>5, <3>1, Zenon DEF ChallengeInv
  <2> QED
    BY <1>1, <2>4, <2>5, Zenon DEF StepFacts, ChallengeMoves
<1>2. CASE UNCHANGED vars
  BY <1>2, Zenon DEF ChallengeInv, Past, vars, handlers, tables
<1> QED
  BY <1>1, <1>2, Zenon

\* One claim at most gets in on a wallet challenge, although GetWalletChallenge
\* and ConsumeWalletChallenge are separate statements.
THEOREM ChallengesAreUsedOnce == Spec => []ChallengeOnce
<1>1. Init => ChallengeInv
  BY DEF Init, ChallengeInv, Past, Before
<1>2. ChallengeInv => ChallengeOnce
  BY Zenon DEF ChallengeInv, ChallengeOnce, Past, Existing
<1> QED
  BY <1>1, <1>2, ChallengeStep, AlwaysFacts, PTL DEF Spec

-----------------------------------------------------------------------------

\* A finite set that gains one element at most.
LEMMA OneMore ==
  ASSUME NEW S, IsFiniteSet(S), NEW T, NEW x, T \subseteq S \cup {x}
  PROVE  IsFiniteSet(T) /\ Cardinality(T) <= Cardinality(S) + 1
<1>1. IsFiniteSet(S \cup {x}) /\ Cardinality(S \cup {x}) <= Cardinality(S) + 1
  <2>1. Cardinality(S) \in Nat
    BY FS_CardinalityType, Zenon
  <2>2. /\ IsFiniteSet(S \cup {x})
        /\ Cardinality(S \cup {x}) = IF x \in S THEN Cardinality(S) ELSE Cardinality(S) + 1
    BY FS_AddElement, Zenon
  <2> QED
    BY <2>1, <2>2
<1>2. IsFiniteSet(T) /\ Cardinality(T) <= Cardinality(S \cup {x})
  BY <1>1, FS_Subset, Zenon
<1> QED
  BY <1>1, <1>2, FS_CardinalityType

\* The sum of the budget and the INSERT are one transaction, so the claim that is
\* added found room, and no other step adds to the claims of a day.
LEMMA DailyStep == TypeOK /\ DailyBudgetKept /\ [StepFacts]_vars => DailyBudgetKept'
<1> SUFFICES ASSUME TypeOK, DailyBudgetKept, [StepFacts]_vars, DailyBudget > 0,
                    NEW d \in 0 .. MaxTime
             PROVE  Cardinality(Regular(d)') <= DailyBudget
  BY Zenon DEF DailyBudgetKept
<1> DEFINE Charged == {c \in Existing : Counted(c) /\ Day(created[c]) = d}
<1>1. IsFiniteSet(Charged) /\ IsFiniteSet(Regular(d))
      /\ Cardinality(Regular(d)) <= Cardinality(Charged)
  <2>1. Regular(d) \subseteq Charged /\ Charged \subseteq Requests
    BY Zenon DEF Regular, Existing
  <2> QED
    BY <2>1, RequestsAssumption, FS_Subset, Zenon
<1>2. CASE StepFacts
  <2>1. ASSUME NEW c \in Regular(d)' PROVE c \in Regular(d) \/ (Inserts(c) /\ window[c] = d)
    <3>1. /\ c \in Requests /\ Counted(c)' /\ c \notin revived'
          /\ Day(created'[c]) = d /\ window'[c] = d
      BY <2>1, Zenon DEF Regular, Existing, Day
    <3>2. CASE Inserts(c)
      BY <3>1, <3>2, Zenon DEF Inserts
    <3>3. CASE Counted(c) /\ c \notin revived
      <4>1. c \in Existing
        BY <3>1, <3>3, Zenon DEF Counted, Existing
      <4> QED
        BY <1>2, <3>1, <3>3, <4>1, Zenon DEF StepFacts, ClaimsStay, Regular
    <3> QED
      BY <1>2, <3>1, <3>2, <3>3, Zenon DEF StepFacts, StaysCounted
  <2>2. ASSUME NEW r \in Requests, Inserts(r), window[r] = d
        PROVE  Cardinality(Regular(d)') <= DailyBudget
    <3>1. \A c \in Requests : Inserts(c) => c = r
      BY <2>2, Zenon DEF Inserts, TypeOK
    <3>2. Regular(d)' \subseteq Regular(d) \cup {r}
      BY <2>1, <3>1, Zenon DEF Regular, Existing
    <3>3. Cardinality(Charged) + 1 <= DailyBudget
      BY <2>2, Zenon DEF Inserts, WithinDay, Used
    <3>4. IsFiniteSet(Regular(d)') /\ Cardinality(Regular(d)') <= Cardinality(Regular(d)) + 1
      BY <1>1, <3>2, OneMore, Zenon
    <3>5. /\ Cardinality(Regular(d)') \in Nat /\ Cardinality(Regular(d)) \in Nat
          /\ Cardinality(Charged) \in Nat
      BY <1>1, <3>4, FS_CardinalityType, Zenon
    <3> QED
      BY <1>1, <3>3, <3>4, <3>5, IntakeLimitsAssumption
  <2>3. CASE \A r \in Requests : ~(Inserts(r) /\ window[r] = d)
    <3>1. Regular(d)' \subseteq Regular(d)
      BY <2>1, <2>3, Zenon DEF Regular, Existing
    <3> QED
      BY <1>1, <3>1, FS_Subset, FS_CardinalityType, IntakeLimitsAssumption DEF DailyBudgetKept
  <2> QED
    BY <2>2, <2>3, Zenon
<1>3. CASE UNCHANGED vars
  BY <1>3, Zenon
  DEF DailyBudgetKept, Regular, Existing, Counted, Day, vars, handlers, tables, ghosts
<1> QED
  BY <1>2, <1>3, Zenon

\* However many handlers read the budget together, the claims that are created
\* and checked on one UTC day stay within SCAVIUM_FAUCET_DAILY_BUDGET_WEI, if no
\* operator's command or late Enqueue brings one back.
THEOREM DailyBudgetHolds == Spec => []DailyBudgetKept
<1>1. Init => DailyBudgetKept
  <2> SUFFICES ASSUME Init, DailyBudget > 0, NEW d \in 0 .. MaxTime
               PROVE  Cardinality(Regular(d)) <= DailyBudget
    BY Zenon DEF DailyBudgetKept
  <2>1. Regular(d) = {}
    BY Zenon DEF Init, Regular, Existing
  <2> QED
    BY <2>1, FS_EmptySet, IntakeLimitsAssumption
<1> QED
  BY <1>1, DailyStep, AlwaysFacts, PTL DEF Spec

-----------------------------------------------------------------------------

\* The claims that count against campaign m, but for the revived.
Live(m) == {c \in Existing : Counted(c) /\ c \notin revived /\ form[c].campaign = m}

\* The campaign's budget is summed again in the transaction of the INSERT.
LEMMA CampaignStep == TypeOK /\ CampaignBudgetKept /\ [StepFacts]_vars => CampaignBudgetKept'
<1> SUFFICES ASSUME TypeOK, CampaignBudgetKept, [StepFacts]_vars, CampaignBudget > 0,
                    NEW m \in {f.campaign : f \in Forms} \ {None}
             PROVE  Cardinality(Live(m)') <= CampaignBudget
  BY Zenon DEF CampaignBudgetKept, Live
<1> DEFINE Charged == {c \in Existing : Counted(c) /\ form[c].campaign = m}
<1>1. IsFiniteSet(Charged) /\ IsFiniteSet(Live(m)) /\ Cardinality(Live(m)) <= Cardinality(Charged)
  <2>1. Live(m) \subseteq Charged /\ Charged \subseteq Requests
    BY Zenon DEF Live, Existing
  <2> QED
    BY <2>1, RequestsAssumption, FS_Subset, Zenon
<1>2. CASE StepFacts
  <2>1. ASSUME NEW c \in Live(m)' PROVE c \in Live(m) \/ (Inserts(c) /\ form[c].campaign = m)
    BY <1>2, <2>1, Zenon DEF Live, Existing, Counted, StepFacts, ClaimsStay, StaysCounted
  <2>2. ASSUME NEW r \in Requests, Inserts(r), form[r].campaign = m
        PROVE  Cardinality(Live(m)') <= CampaignBudget
    <3>1. \A c \in Requests : Inserts(c) => c = r
      BY <2>2, Zenon DEF Inserts, TypeOK
    <3>2. Live(m)' \subseteq Live(m) \cup {r}
      BY <2>1, <3>1, Zenon DEF Live, Existing
    <3>3. Cardinality(Charged) + 1 <= CampaignBudget
      BY <2>2, Zenon DEF Inserts, WithinCampaign, CampaignUsed
    <3>4. IsFiniteSet(Live(m)') /\ Cardinality(Live(m)') <= Cardinality(Live(m)) + 1
      BY <1>1, <3>2, OneMore, Zenon
    <3>5. /\ Cardinality(Live(m)') \in Nat /\ Cardinality(Live(m)) \in Nat
          /\ Cardinality(Charged) \in Nat
      BY <1>1, <3>4, FS_CardinalityType, Zenon
    <3>6. CampaignBudget \in Nat
      BY IntakeLimitsAssumption, Zenon
    <3> HIDE DEF Charged
    <3> QED
      BY <1>1, <3>3, <3>4, <3>5, <3>6, SMTT(30)
  <2>3. CASE \A r \in Requests : ~(Inserts(r) /\ form[r].campaign = m)
    <3>1. Live(m)' \subseteq Live(m)
      BY <2>1, <2>3, Zenon DEF Live, Existing
    <3>2. Cardinality(Live(m)) <= CampaignBudget
      BY Zenon DEF CampaignBudgetKept, Live
    <3>3. IsFiniteSet(Live(m)') /\ Cardinality(Live(m)') <= Cardinality(Live(m))
      BY <1>1, <3>1, FS_Subset, Zenon
    <3>4. /\ Cardinality(Live(m)') \in Nat /\ Cardinality(Live(m)) \in Nat
          /\ CampaignBudget \in Nat
      BY <1>1, <3>3, FS_CardinalityType, IntakeLimitsAssumption, Zenon
    <3> QED
      BY <3>2, <3>3, <3>4
  <2> QED
    BY <2>2, <2>3, Zenon
<1>3. CASE UNCHANGED vars
  <2>1. Live(m)' = Live(m)
    BY <1>3, Zenon DEF Live, Existing, Counted, vars, handlers, tables, ghosts
  <2> QED
    BY <2>1, Zenon DEF CampaignBudgetKept, Live
<1> QED
  BY <1>2, <1>3, Zenon

\* The claims of a campaign stay within its budget, although enforceCampaign
\* reads it long before the INSERT, if none is brought back.
THEOREM CampaignBudgetHolds == Spec => []CampaignBudgetKept
<1>1. Init => CampaignBudgetKept
  <2> SUFFICES ASSUME Init, CampaignBudget > 0, NEW m \in {f.campaign : f \in Forms} \ {None}
               PROVE  Cardinality(Live(m)) <= CampaignBudget
    BY Zenon DEF CampaignBudgetKept, Live
  <2>1. Live(m) = {}
    BY Zenon DEF Init, Live, Existing
  <2> QED
    BY <2>1, FS_EmptySet, IntakeLimitsAssumption
<1> QED
  BY <1>1, CampaignStep, AlwaysFacts, PTL DEF Spec
=============================================================================
