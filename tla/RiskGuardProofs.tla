---------------------------- MODULE RiskGuardProofs ----------------------------
(***************************************************************************)
(* The screening of a claim, for any number of requests, thresholds,       *)
(* windows and signals: who is at a threshold stays out, and nobody is     *)
(* turned away for what strangers did or for what is past.                 *)
(***************************************************************************)
EXTENDS RiskGuard, FiniteSetTheorems, TLAPS

\* The signal of kind k that request h leaves now.
Signal(h, k) ==
    [n |-> Cardinality(ledger) + 1, by |-> id[h], kind |-> k, at |-> now,
     ip |-> req[h].ip, addr |-> req[h].addr, fp |-> req[h].fp]

\* The calls between the captcha and the decision.
Evaluating == {"risk", "ip", "address", "fingerprint", "heuristics", "burst", "rotating", "cluster",
               "decide"}

\* The calls after each of the scopes.
AfterFP == {"heuristics", "burst", "rotating", "cluster", "decide", "review", "limits"}
AfterAddress == AfterFP \cup {"fingerprint"}
AfterIP == AfterAddress \cup {"address"}

\* The scores that a request can have when call p is next.
Scores(p) ==
    IF p = "rotating" THEN {0, 2}
    ELSE IF p = "cluster" THEN {0, 2, 4}
    ELSE IF p \in {"decide", "rejected", "review", "limits"} THEN {0, 2, 4, 6}
    ELSE {0}

LedgerOK ==
    /\ IsFiniteSet(ledger)
    /\ {s.n : s \in ledger} = 1..Cardinality(ledger)
    /\ rows \subseteq ledger
    /\ \A s \in ledger :
        s.kind \in phase27ClaimIntakeKinds /\ s.at \in 0..now /\ s.by \in 0..requests

GuardTypes ==
    /\ now \in Instants \cup {0}
    /\ id \in [Handlers -> 0..requests] /\ pc \in [Handlers -> Calls]
    /\ req \in [Handlers -> Forms \cup {NoRequest}]
    /\ t \in [Handlers -> 0..now] /\ score \in [Handlers -> {0, 2, 4, 6}]
    /\ seen \in [Handlers -> 0..Cardinality(ledger)]
    /\ requests \in 0..MaxRequests /\ faults \in 0..MaxFaults

\* A request has a number of its own and, until its score is decided, left no
\* signal but that of the captcha it passed.
Own(h) == {s \in ledger : s.by = id[h]}
OwnFits(h) ==
    /\ pc[h] # "idle" => id[h] # 0
    /\ \A g \in Handlers : pc[h] # "idle" /\ id[g] = id[h] => g = h
    /\ pc[h] \in {"bad_token", "blocklist", "captcha"} => Own(h) = {}
    /\ pc[h] \in Evaluating =>
        \A s, u \in Own(h) : s = u /\ s.kind = "captcha_passed"

GuardInv ==
    /\ LedgerOK /\ GuardTypes
    /\ \A h \in Handlers : score[h] \in Scores(pc[h]) /\ OwnFits(h)

\* What pruning has deleted, the window has left behind.
PrunedIsPast == \A s \in ledger \ rows : Second(s.at) <= Second(now - 2 * Window)

\* The known negative signals that name the same field as h.
KnownOf(h, field) == {s \in Known(h) : req[h][field] # Empty /\ s[field] = req[h][field]}
Below(h, field, threshold) == threshold > 0 => Cardinality(KnownOf(h, field)) < threshold

ScopeInv ==
    /\ PrunedIsPast
    /\ \A h \in Handlers :
        /\ pc[h] \in AfterIP => Below(h, "ip", IPThreshold)
        /\ pc[h] \in AfterAddress => Below(h, "addr", AddressThreshold)
        /\ pc[h] \in AfterFP => Below(h, "fp", FingerprintThreshold)

\* Another request's signal that counts against h.
Evidence(h) ==
    \E s \in ledger :
        /\ s.by # id[h] /\ Related(s, req[h])
        /\ \/ Second(s.at) >= Second(t[h] - 2 * Window)
           \/ Second(s.at) >= Second(t[h] - 2 * BurstWindow)

EvidenceInv == \A h \in Handlers : pc[h] = "rejected" \/ score[h] > 0 => Evidence(h)

-----------------------------------------------------------------------------
\* Times and counts.

\* formatTime orders the texts of two seconds as the seconds, and a text that
\* does not sort before another is not of an earlier second.
LEMMA TextOrder ==
    ASSUME NEW x \in Int, NEW y \in Int
    PROVE  /\ Second(x) > Second(y) => formatTime(x) >= formatTime(y)
           /\ formatTime(x) >= formatTime(y) => Second(x) >= Second(y)
           /\ ~(formatTime(x) >= formatTime(y)) => Second(x) <= Second(y)
           /\ x <= y => Second(x) <= Second(y)
           /\ Second(x) \in Int /\ formatTime(x) \in Int
BY DEF Second, formatTime

\* A window that ends later does not begin in an earlier second.
LEMMA WindowMoves ==
    ASSUME NEW x \in Int, NEW y \in Int, NEW w \in Int, x <= y
    PROVE  /\ Second(x - 2 * w) \in Int /\ Second(y - 2 * w) \in Int
           /\ Second(x - 2 * w) <= Second(y - 2 * w)
BY DEF Second

\* A count of at least one has counted something.
LEMMA OneOrMore ==
    ASSUME NEW S, Cardinality(S) >= 1
    PROVE  \E x \in S : TRUE
BY FS_EmptySet

\* A count of at least two has counted something besides x.
LEMMA TwoOrMore ==
    ASSUME NEW S, Cardinality(S) >= 2, NEW x
    PROVE  \E y \in S : y # x
<1> SUFFICES ASSUME S \subseteq {x}
             PROVE  FALSE
    BY Zenon
<1>1. IsFiniteSet({x}) /\ Cardinality({x}) = 1
    BY FS_Singleton, Zenon
<1>2. IsFiniteSet(S) /\ Cardinality(S) <= 1
    BY <1>1, FS_Subset
<1>3. Cardinality(S) \in Nat
    BY <1>2, FS_CardinalityType, Zenon
<1> QED
    BY <1>2, <1>3

\* A part of a finite set counts no more than the set.
LEMMA PartCountsLess ==
    ASSUME NEW S, NEW T, IsFiniteSet(T), S \subseteq T
    PROVE  /\ IsFiniteSet(S) /\ Cardinality(S) \in Nat /\ Cardinality(T) \in Nat
           /\ Cardinality(S) <= Cardinality(T)
<1>1. IsFiniteSet(S) /\ Cardinality(S) <= Cardinality(T)
    BY FS_Subset, Zenon
<1> QED
    BY <1>1, FS_CardinalityType, Zenon

-----------------------------------------------------------------------------
\* The kinds of steps.

\* A signal of h of one of these kinds is recorded, or none.
Recorded(h, kinds) ==
    \/ rows' = rows /\ ledger' = ledger
    \/ \E k \in kinds : rows' = rows \cup {Signal(h, k)} /\ ledger' = ledger \cup {Signal(h, k)}

\* A step of request h that changes the row of no other request.
Works(h, kinds) ==
    /\ pc[h] # "idle" /\ Recorded(h, kinds)
    /\ now' = now /\ requests' = requests /\ faults' \in 0..MaxFaults
    /\ id' = [id EXCEPT ![h] = id'[h]] /\ pc' = [pc EXCEPT ![h] = pc'[h]]
    /\ req' = [req EXCEPT ![h] = req'[h]] /\ t' = [t EXCEPT ![h] = t'[h]]
    /\ score' = [score EXCEPT ![h] = score'[h]] /\ seen' = [seen EXCEPT ![h] = seen'[h]]

Ends(h) ==
    /\ Works(h, phase27ClaimIntakeKinds)
    /\ pc'[h] = "idle" /\ id'[h] = 0 /\ req'[h] = NoRequest
    /\ t'[h] = 0 /\ score'[h] = 0 /\ seen'[h] = 0

Goes(h, from, to, kinds) ==
    /\ pc[h] = from /\ Works(h, kinds)
    /\ pc'[h] = to /\ id'[h] = id[h] /\ req'[h] = req[h]
    /\ t'[h] = t[h] /\ score'[h] = score[h] /\ seen'[h] = seen[h]

\* On to a call that nothing is claimed about, or that no count decides.
Proceeds(h) ==
    \/ Goes(h, "blocklist", "captcha", {})
    \/ Goes(h, "captcha", "risk", {"captcha_passed"})
    \/ Goes(h, "risk", "honeypot", {"manual_review"})
    \/ Goes(h, "decide", "review", phase27ClaimIntakeKinds)
    \/ Goes(h, "decide", "limits", phase27ClaimIntakeKinds)
    \/ Goes(h, "review", "limits", phase27ClaimIntakeKinds)

OverIP(h) == scopeScore(req[h].ip, IPThreshold, Negative(h, req[h].ip, Empty, Empty))
OverAddress(h) == scopeScore(req[h].addr, AddressThreshold, Negative(h, Empty, req[h].addr, Empty))
OverFP(h) == scopeScore(req[h].fp, FingerprintThreshold, Negative(h, Empty, Empty, req[h].fp))

\* A scope lets the request through.
LetsThrough(h) ==
    \/ Goes(h, "ip", "address", {}) /\ ~OverIP(h)
    \/ Goes(h, "address", "fingerprint", {}) /\ ~OverAddress(h)
    \/ Goes(h, "fingerprint", "heuristics", {}) /\ ~OverFP(h)

\* A scope or the score rejects it.
Rejects(h) ==
    \/ Goes(h, "ip", "rejected", {"manual_review"}) /\ OverIP(h)
    \/ Goes(h, "address", "rejected", {"manual_review"}) /\ OverAddress(h)
    \/ Goes(h, "fingerprint", "rejected", {"manual_review"}) /\ OverFP(h)
    \/ Goes(h, "decide", "rejected", {"manual_review"}) /\ score[h] >= RejectScore

\* The clock is read.
ReadsClock(h) ==
    /\ Works(h, {})
    /\ \/ pc[h] = "risk" /\ pc'[h] = "ip" /\ seen'[h] = Cardinality(ledger)
       \/ pc[h] = "heuristics" /\ pc'[h] = "burst" /\ seen'[h] = seen[h]
    /\ t'[h] = now /\ id'[h] = id[h] /\ req'[h] = req[h] /\ score'[h] = score[h]

BurstApplies(h) ==
    /\ BurstThreshold > 0 /\ req[h].ip # Empty
    /\ CountRecentAbuseSignals(phase27ClaimIntakeKinds, t[h] - 2 * BurstWindow, req[h].ip, Empty, Empty)
           >= BurstThreshold
RotatingApplies(h) ==
    /\ RotatingThreshold > 0 /\ req[h].fp # Empty
    /\ CountDistinctRecentAbuseSignalValues(
           phase27ClaimIntakeKinds, t[h] - 2 * Window, Empty, req[h].fp, "ip") >= RotatingThreshold
ClusterApplies(h) ==
    /\ ClusterThreshold > 0
    /\ CountDistinctRecentAbuseSignalValues(
           phase27ClaimIntakeKinds, t[h] - 2 * Window,
           IF req[h].fp = Empty THEN req[h].ip ELSE Empty, req[h].fp, "addr") >= ClusterThreshold

\* A heuristic is evaluated; only one that applies changes the score.
Judges(h) ==
    /\ Works(h, {})
    /\ \/ pc[h] = "burst" /\ pc'[h] = "rotating" /\ (BurstApplies(h) \/ score'[h] = score[h])
       \/ pc[h] = "rotating" /\ pc'[h] = "cluster" /\ (RotatingApplies(h) \/ score'[h] = score[h])
       \/ pc[h] = "cluster" /\ pc'[h] = "decide" /\ (ClusterApplies(h) \/ score'[h] = score[h])
    /\ score'[h] \in {score[h], score[h] + 2}
    /\ id'[h] = id[h] /\ req'[h] = req[h] /\ t'[h] = t[h] /\ seen'[h] = seen[h]

\* An INSERT that the request makes records the signal or fails.
LEMMA SignalRecorded ==
    ASSUME NEW h, NEW k, GuardTypes, recordAbuseSignal(h, k)
    PROVE  Recorded(h, {k}) /\ faults' \in 0..MaxFaults
BY GuardBoundsAssumption DEF recordAbuseSignal, Recorded, Signal, Fault, GuardTypes

\* A return is an end, whatever the request records.
LEMMA ReturnEnds ==
    ASSUME GuardTypes, NEW h \in Handlers, pc[h] # "idle", Return(h), Keep,
           Recorded(h, phase27ClaimIntakeKinds), faults' \in 0..MaxFaults
    PROVE  Ends(h)
BY Zenon DEF GuardTypes, Return, Keep, Ends, Works

\* A Goto is a step to that call.
LEMMA GotoGoes ==
    ASSUME GuardTypes, NEW h \in Handlers, NEW to, NEW kinds, pc[h] # "idle", Goto(h, to), Keep,
           Recorded(h, kinds), faults' \in 0..MaxFaults
    PROVE  Goes(h, pc[h], to, kinds)
BY Zenon DEF GuardTypes, Goto, Keep, Goes, Works

\* Every step of a request but its arrival is of one of the kinds above.
LEMMA ScreenForms ==
    ASSUME GuardTypes, NEW h \in Handlers, Screen(h)
    PROVE  \/ Arrive(h) \/ Ends(h) \/ Proceeds(h) \/ LetsThrough(h) \/ Rejects(h)
           \/ ReadsClock(h) \/ Judges(h)
<1>a. ASSUME NEW k \in phase27ClaimIntakeKinds, recordAbuseSignal(h, k)
      PROVE  /\ Recorded(h, phase27ClaimIntakeKinds) /\ Recorded(h, {k})
             /\ faults' \in 0..MaxFaults
    <2>1. Recorded(h, {k}) /\ faults' \in 0..MaxFaults
        BY <1>a, SignalRecorded, Zenon
    <2> QED
        BY <2>1, Zenon DEF Recorded
<1>b. ASSUME NoSignal
      PROVE  (\A K : Recorded(h, K)) /\ faults' \in 0..MaxFaults
    BY <1>b, Zenon DEF NoSignal, Recorded, GuardTypes
<1>c. {"invalid_token", "risk_rejected", "captcha_passed", "captcha_failed", "manual_review",
       "risk_allowed"} \subseteq phase27ClaimIntakeKinds
    BY Zenon DEF phase27ClaimIntakeKinds, NegativeKinds
<1>1. CASE InvalidToken(h)
    BY <1>1, <1>a, <1>c, ReturnEnds, Zenon DEF InvalidToken
<1>2. CASE enforceBlocklist(h)
    <2>1. CASE recordAbuseSignal(h, "risk_rejected") /\ Return(h)
        BY <1>2, <2>1, <1>a, <1>c, ReturnEnds, Zenon DEF enforceBlocklist
    <2>2. CASE Goto(h, "captcha") /\ NoSignal
        <3>1. Goes(h, "blocklist", "captcha", {})
            BY <1>2, <2>2, <1>b, GotoGoes, Zenon DEF enforceBlocklist
        <3> QED
            BY <3>1, Zenon DEF Proceeds
    <2> QED
        BY <1>2, <2>1, <2>2, Zenon DEF enforceBlocklist
<1>3. CASE verifyCaptcha(h)
    <2>1. CASE recordAbuseSignal(h, "captcha_failed") /\ Return(h)
        BY <1>3, <2>1, <1>a, <1>c, ReturnEnds, Zenon DEF verifyCaptcha
    <2>2. CASE recordAbuseSignal(h, "captcha_passed") /\ Goto(h, "risk")
        <3>1. Goes(h, "captcha", "risk", {"captcha_passed"})
            BY <1>3, <2>2, <1>a, <1>c, GotoGoes, Zenon DEF verifyCaptcha
        <3> QED
            BY <3>1, Zenon DEF Proceeds
    <2> QED
        BY <1>3, <2>1, <2>2, Zenon DEF verifyCaptcha
<1>4. CASE Evaluate(h)
    <2>1. CASE Reject(h, "honeypot")
        <3>1. Goes(h, "risk", "honeypot", {"manual_review"})
            BY <1>4, <2>1, <1>a, <1>c, GotoGoes DEF Evaluate, Reject
        <3> QED
            BY <3>1, Zenon DEF Proceeds
    <2>2. CASE ~Reject(h, "honeypot")
        <3>1. Recorded(h, {}) /\ faults' \in 0..MaxFaults
            BY <1>4, <2>2, <1>b, Zenon DEF Evaluate
        <3>2. ReadsClock(h)
            BY <1>4, <2>2, <3>1 DEF Evaluate, ReadsClock, Works, Keep, GuardTypes
        <3> QED
            BY <3>2, Zenon
    <2> QED
        BY <2>1, <2>2, Zenon
<1>5. CASE RejectionRecorded(h)
    BY <1>5, <1>a, <1>c, ReturnEnds, Zenon DEF RejectionRecorded
<1>6. CASE Scopes(h)
    <2>a. ASSUME NEW call, NEW over, NEW next, call # "idle", Scope(h, call, over, next)
          PROVE  \/ Goes(h, call, "rejected", {"manual_review"}) /\ over
                 \/ Goes(h, call, next, {}) /\ ~over
        <3>1. CASE over /\ Reject(h, "rejected")
            BY <2>a, <3>1, <1>a, <1>c, GotoGoes, Zenon DEF Scope, Reject
        <3>2. CASE ~over /\ Goto(h, next) /\ NoSignal
            BY <2>a, <3>2, <1>b, GotoGoes, Zenon DEF Scope
        <3> QED
            BY <2>a, <3>1, <3>2, Zenon DEF Scope
    <2>1. CASE Scope(h, "ip", OverIP(h), "address")
        BY <2>1, <2>a, Zenon DEF LetsThrough, Rejects
    <2>2. CASE Scope(h, "address", OverAddress(h), "fingerprint")
        BY <2>2, <2>a, Zenon DEF LetsThrough, Rejects
    <2>3. CASE Scope(h, "fingerprint", OverFP(h), "heuristics")
        BY <2>3, <2>a, Zenon DEF LetsThrough, Rejects
    <2> QED
        BY <1>6, <2>1, <2>2, <2>3, Zenon DEF Scopes, OverIP, OverAddress, OverFP
<1>7. CASE advancedScore(h)
    <2>1. Recorded(h, {}) /\ faults' \in 0..MaxFaults
        BY <1>7, <1>b, Zenon DEF advancedScore
    <2> QED
        BY <1>7, <2>1, Zenon DEF advancedScore, ReadsClock, Works, Keep, GuardTypes
<1>8. ASSUME NEW call \in {"burst", "rotating", "cluster"}, NEW applies, NEW next,
             Heuristic(h, call, applies, next)
      PROVE  /\ Works(h, {}) /\ pc[h] = call /\ pc'[h] = next
             /\ applies \/ score'[h] = score[h]
             /\ score'[h] \in {score[h], score[h] + 2}
             /\ id'[h] = id[h] /\ req'[h] = req[h] /\ t'[h] = t[h] /\ seen'[h] = seen[h]
    <2>1. Recorded(h, {}) /\ faults' \in 0..MaxFaults
        BY <1>8, <1>b, Zenon DEF Heuristic
    <2> QED
        BY <1>8, <2>1, Zenon DEF Heuristic, Works, Keep, GuardTypes
<1>9. CASE Burst(h)
    <2>1. Heuristic(h, "burst", BurstApplies(h), "rotating")
        BY <1>9, Zenon DEF Burst, BurstApplies
    <2> QED
        BY <2>1, <1>8 DEF Judges
<1>10. CASE RotatingIP(h)
    <2>1. Heuristic(h, "rotating", RotatingApplies(h), "cluster")
        BY <1>10, Zenon DEF RotatingIP, RotatingApplies
    <2> QED
        BY <2>1, <1>8 DEF Judges
<1>11. CASE AddressCluster(h)
    <2>1. Heuristic(h, "cluster", ClusterApplies(h), "decide")
        BY <1>11, Zenon DEF AddressCluster, ClusterApplies
    <2> QED
        BY <2>1, <1>8 DEF Judges
<1>12. CASE evaluateRisk(h)
    <2>1. CASE score[h] >= RejectScore /\ Reject(h, "rejected")
        <3>1. Goes(h, "decide", "rejected", {"manual_review"})
            BY <1>12, <2>1, <1>a, <1>c, GotoGoes DEF evaluateRisk, Reject
        <3> QED
            BY <2>1, <3>1, Zenon DEF Rejects
    <2>2. CASE ~(score[h] >= RejectScore /\ Reject(h, "rejected"))
        <3>1. PICK to \in {"review", "limits"} : Goto(h, to)
            BY <1>12, <2>2, Zenon DEF evaluateRisk
        <3>2. Goes(h, "decide", to, phase27ClaimIntakeKinds)
            BY <1>12, <2>2, <3>1, <1>a, <1>c, GotoGoes, Zenon DEF evaluateRisk
        <3> QED
            BY <3>1, <3>2, Zenon DEF Proceeds
    <2> QED
        BY <2>1, <2>2, Zenon
<1>13. CASE ReviewRecorded(h)
    <2>1. Goes(h, "review", "limits", phase27ClaimIntakeKinds)
        BY <1>13, <1>a, <1>c, GotoGoes, Zenon DEF ReviewRecorded
    <2> QED
        BY <2>1, Zenon DEF Proceeds
<1>14. CASE Limits(h)
    BY <1>14, <1>a, OutcomesAssumption, ReturnEnds, Zenon DEF Limits
<1>15. CASE QueryFails(h)
    <2>1. Recorded(h, phase27ClaimIntakeKinds) /\ faults' \in 0..MaxFaults /\ pc[h] # "idle"
        BY <1>15, GuardBoundsAssumption DEF QueryFails, Recorded, Fault, GuardTypes
    <2> QED
        BY <1>15, <2>1, ReturnEnds, Zenon DEF QueryFails
<1> QED
    BY <1>1, <1>2, <1>3, <1>4, <1>5, <1>6, <1>7, <1>9, <1>10, <1>11, <1>12, <1>13, <1>14, <1>15, Zenon
    DEF Screen

-----------------------------------------------------------------------------
\* Types, the ledger and each request's own signals.

\* What a step of h does to the ledger: it grows by at most one signal, of h, that
\* has a number of its own and is in the table too.
Grows(h, kinds) ==
    /\ LedgerOK' /\ ledger \subseteq ledger'
    /\ Cardinality(ledger) \in Nat /\ Cardinality(ledger') \in Nat
    /\ Cardinality(ledger) <= Cardinality(ledger')
    /\ ledger' \ rows' \subseteq ledger \ rows
    /\ \A s \in ledger' \ ledger :
        s.n \in Nat /\ s.n > Cardinality(ledger) /\ s.by = id[h] /\ s.kind \in kinds
    /\ \A s, u \in ledger' \ ledger : s = u

\* Recording a signal lets the ledger grow in that way.
LEMMA LedgerGrows ==
    ASSUME LedgerOK, GuardTypes, NEW h \in Handlers, NEW kinds \in SUBSET phase27ClaimIntakeKinds,
           Recorded(h, kinds), now' = now, requests' \in Nat, requests <= requests'
    PROVE  Grows(h, kinds)
<1>1. Cardinality(ledger) \in Nat /\ now \in Nat /\ requests \in Nat /\ id[h] \in 0..requests
    BY FS_CardinalityType, GuardBoundsAssumption DEF LedgerOK, GuardTypes
<1>3. CASE rows' = rows /\ ledger' = ledger
    <2>1. LedgerOK'
        BY <1>1, <1>3 DEF LedgerOK
    <2> QED
        BY <1>1, <1>3, <2>1 DEF Grows
<1>4. ASSUME NEW k \in kinds,
             rows' = rows \cup {Signal(h, k)}, ledger' = ledger \cup {Signal(h, k)}
      PROVE  Grows(h, kinds)
    <2> DEFINE x == Signal(h, k)
    <2>1. x.n = Cardinality(ledger) + 1 /\ x.by = id[h] /\ x.kind = k /\ x.at = now
        BY Zenon DEF Signal
    <2>2. \A s \in ledger : s.n \in 1..Cardinality(ledger)
        BY Zenon DEF LedgerOK
    <2>3. x \notin ledger
        BY <1>1, <2>1, <2>2
    <2>4. IsFiniteSet(ledger') /\ Cardinality(ledger') = Cardinality(ledger) + 1
        BY <1>4, <2>3, FS_AddElement, Zenon DEF LedgerOK
    <2> HIDE DEF x
    <2>5. {s.n : s \in ledger'} = 1..Cardinality(ledger')
        <3>1. \A s \in ledger' : s.n \in 1..Cardinality(ledger')
            BY <1>1, <1>4, <2>1, <2>2, <2>4 DEF x
        <3>2. ASSUME NEW i \in 1..Cardinality(ledger')
              PROVE  \E s \in ledger' : s.n = i
            <4>1. CASE i = Cardinality(ledger) + 1
                BY <1>4, <2>1, <4>1, Zenon DEF x
            <4>2. CASE i # Cardinality(ledger) + 1
                <5>1. i \in 1..Cardinality(ledger)
                    BY <1>1, <2>4, <4>2
                <5>2. PICK s \in ledger : s.n = i
                    BY <5>1, Zenon DEF LedgerOK
                <5> QED
                    BY <1>4, <5>2, Zenon
            <4> QED
                BY <4>1, <4>2, Zenon
        <3> QED
            BY <3>1, <3>2, Zenon
    <2>6. \A s \in ledger' :
            s.kind \in phase27ClaimIntakeKinds /\ s.at \in 0..now' /\ s.by \in 0..requests'
        BY <1>1, <1>4, <2>1 DEF LedgerOK, x
    <2>7. rows' \subseteq ledger'
        BY <1>4, Zenon DEF LedgerOK, x
    <2>8. LedgerOK'
        BY <2>4, <2>5, <2>6, <2>7, Zenon DEF LedgerOK
    <2>9. ledger' = ledger \cup {x} /\ rows' = rows \cup {x}
        BY <1>4, Zenon DEF x
    <2> QED
        BY <1>1, <2>1, <2>4, <2>8, <2>9 DEF Grows
<1> QED
    BY <1>3, <1>4, Zenon DEF Recorded

\* The part of the invariant about request h.
Fits(h) == score[h] \in Scores(pc[h]) /\ OwnFits(h)

\* Instants and the numbers of requests are natural numbers.
LEMMA NaturalClock == ASSUME GuardTypes PROVE now \in Nat /\ requests \in Nat
BY GuardBoundsAssumption DEF GuardTypes

\* A step of h keeps the invariant if its own row does.
LEMMA GuardWorks ==
    ASSUME GuardInv, NEW h \in Handlers, NEW kinds \in SUBSET phase27ClaimIntakeKinds,
           Works(h, kinds),
           pc'[h] \in Calls, id'[h] \in {0, id[h]}, req'[h] \in {req[h], NoRequest},
           t'[h] \in 0..now, score'[h] \in Scores(pc'[h]),
           seen'[h] \in {0, seen[h], Cardinality(ledger)},
           id'[h] = 0 => pc'[h] = "idle",
           pc'[h] \in {"bad_token", "blocklist", "captcha"} =>
               Own(h) = {} /\ ledger' = ledger,
           pc'[h] \in Evaluating =>
               \A s, u \in {v \in ledger' : v.by = id[h]} : s = u /\ s.kind = "captcha_passed"
    PROVE  GuardInv' /\ Grows(h, kinds)
<1>1. now \in Nat /\ requests \in Nat /\ requests' = requests /\ now' = now
    BY NaturalClock, Zenon DEF GuardInv, Works
<1>2. Grows(h, kinds)
    BY <1>1, LedgerGrows DEF GuardInv, Works
<1>3. Cardinality(ledger) \in Nat /\ Cardinality(ledger') \in Nat
      /\ Cardinality(ledger) <= Cardinality(ledger')
    BY <1>2, Zenon DEF Grows
<1>4. Scores(pc'[h]) \subseteq {0, 2, 4, 6}
    BY Zenon DEF Scores
<1>5. GuardTypes'
    <2>1. seen' \in [Handlers -> 0..Cardinality(ledger')]
        BY <1>3 DEF GuardInv, GuardTypes, Works
    <2>2. /\ now' \in Instants \cup {0} /\ requests' \in 0..MaxRequests /\ faults' \in 0..MaxFaults
          /\ id' \in [Handlers -> 0..requests'] /\ pc' \in [Handlers -> Calls]
        BY <1>1 DEF GuardInv, GuardTypes, Works
    <2>3. /\ req' \in [Handlers -> Forms \cup {NoRequest}] /\ t' \in [Handlers -> 0..now']
          /\ score' \in [Handlers -> {0, 2, 4, 6}]
        BY <1>1, <1>4 DEF GuardInv, GuardTypes, Works
    <2> QED
        BY <2>1, <2>2, <2>3, Zenon DEF GuardTypes
<1>6. /\ pc[h] # "idle" /\ id[h] # 0
      /\ \A k \in Handlers : id[k] = id[h] => k = h
    BY Zenon DEF GuardInv, OwnFits, Works
<1>7. \A k \in Handlers : k # h => id'[k] = id[k] /\ pc'[k] = pc[k] /\ score'[k] = score[k]
    BY DEF GuardInv, GuardTypes, Works
<1>8. ASSUME NEW g \in Handlers
      PROVE  Fits(g)'
    <2>1. CASE g = h
        <3>1. score'[h] \in Scores(pc'[h])
            BY Zenon
        <3>2. pc'[h] # "idle" => id'[h] = id[h] /\ id'[h] # 0
            BY <1>6, Zenon
        <3>3. \A k \in Handlers : pc'[h] # "idle" /\ id'[k] = id'[h] => k = h
            BY <1>6, <1>7, <3>2
        <3>4. pc'[h] \in {"bad_token", "blocklist", "captcha"} => {s \in ledger' : s.by = id'[h]} = {}
            BY <3>2, Zenon DEF Own
        <3>5. pc'[h] \in Evaluating =>
                \A s, u \in {v \in ledger' : v.by = id'[h]} : s = u /\ s.kind = "captcha_passed"
            BY <3>2, Zenon DEF Evaluating
        <3> QED
            BY <2>1, <3>1, <3>2, <3>3, <3>4, <3>5 DEF Fits, OwnFits, Own
    <2>2. CASE g # h
        <3>1. score'[g] \in Scores(pc'[g]) /\ id'[g] = id[g] /\ pc'[g] = pc[g] /\ id[g] # id[h]
            BY <1>6, <1>7, <2>2, Zenon DEF GuardInv
        <3>2. {s \in ledger' : s.by = id'[g]} = Own(g)
            BY <1>2, <3>1 DEF Grows, Own
        <3>3. OwnFits(g)
            BY Zenon DEF GuardInv
        <3>4. \A k \in Handlers : pc'[g] # "idle" /\ id'[k] = id'[g] => k = g
            BY <1>7, <3>1, <3>3 DEF OwnFits
        <3> QED
            BY <3>1, <3>2, <3>3, <3>4 DEF Fits, OwnFits, Own
    <2> QED
        BY <2>1, <2>2, Zenon
<1> QED
    BY <1>2, <1>5, <1>8, Zenon DEF GuardInv, Fits, Grows

\* A step of a request other than its arrival keeps the invariant.
LEMMA GuardServe ==
    ASSUME GuardInv, NEW h \in Handlers, Screen(h), ~Arrive(h)
    PROVE  GuardInv' /\ Grows(h, phase27ClaimIntakeKinds)
<1> DEFINE Seconds(L) == \A s, u \in {v \in L : v.by = id[h]} : s = u /\ s.kind = "captcha_passed"
<1>0. GuardTypes /\ LedgerOK /\ OwnFits(h) /\ score[h] \in Scores(pc[h])
    BY Zenon DEF GuardInv
<1>a. /\ t[h] \in 0..now /\ 0 \in 0..now /\ now \in 0..now
    BY <1>0, GuardBoundsAssumption DEF GuardTypes
<1>b. pc[h] # "idle" => id[h] # 0
    BY <1>0, Zenon DEF OwnFits
<1>c. pc[h] \in Evaluating => Seconds(ledger)
    BY <1>0, Zenon DEF OwnFits, Own
<1>d. pc[h] \in {"blocklist", "captcha"} => Own(h) = {}
    BY <1>0, Zenon DEF OwnFits
<1>e. {"captcha_passed", "manual_review"} \subseteq phase27ClaimIntakeKinds
    BY Zenon DEF phase27ClaimIntakeKinds
<1>f. ASSUME NEW kinds \in SUBSET phase27ClaimIntakeKinds, Grows(h, kinds)
      PROVE  Grows(h, phase27ClaimIntakeKinds)
    BY <1>f, Zenon DEF Grows
<1>g. ASSUME Recorded(h, {})
      PROVE  ledger' = ledger
    BY <1>g, Zenon DEF Recorded
<1> HIDE DEF Seconds
<1>1. CASE Ends(h)
    <2>1. Works(h, phase27ClaimIntakeKinds) /\ pc'[h] = "idle" /\ score'[h] \in Scores(pc'[h])
        BY <1>1, Zenon DEF Ends, Scores
    <2>2. /\ pc'[h] \in Calls /\ pc'[h] \notin Evaluating
          /\ pc'[h] \notin {"bad_token", "blocklist", "captcha"}
        BY <2>1, Zenon DEF Calls, Evaluating
    <2> QED
        BY <1>1, <1>a, <2>1, <2>2, GuardWorks DEF Ends
<1>2. CASE Proceeds(h)
    <2>1. CASE Goes(h, "blocklist", "captcha", {})
        <3>1. /\ Works(h, {}) /\ ledger' = ledger /\ pc'[h] \in Calls /\ pc'[h] \notin Evaluating
              /\ score'[h] \in Scores(pc'[h])
            BY <2>1, <1>0, <1>g, Zenon DEF Goes, Works, Calls, Evaluating, Scores
        <3> QED
            BY <2>1, <3>1, <1>a, <1>b, <1>d, <1>f, GuardWorks, Zenon DEF Goes
    <2>2. CASE Goes(h, "captcha", "risk", {"captcha_passed"})
        <3>1. /\ Works(h, {"captcha_passed"}) /\ pc'[h] \in Calls
              /\ score'[h] \in Scores(pc'[h])
            BY <2>2, <1>0, Zenon DEF Goes, Calls, Scores
        <3>2. Grows(h, {"captcha_passed"})
            BY <3>1, <1>0, <1>e, LedgerGrows, GuardBoundsAssumption DEF Works, GuardTypes
        <3>3. \A s, u \in {v \in ledger' : v.by = id[h]} : s = u /\ s.kind = "captcha_passed"
            BY <2>2, <3>2, <1>d, Zenon DEF Goes, Grows, Own
        <3>4. /\ id'[h] = id[h] /\ id[h] # 0 /\ req'[h] = req[h] /\ t'[h] = t[h] /\ seen'[h] = seen[h]
              /\ pc'[h] \notin {"bad_token", "blocklist", "captcha"}
            BY <2>2, <1>b, Zenon DEF Goes
        <3>5. GuardInv' /\ Grows(h, {"captcha_passed"})
            BY <3>1, <3>3, <3>4, <1>a, <1>e, GuardWorks, Zenon
        <3> QED
            BY <3>5, <1>e, <1>f, Zenon
    <2>3. ASSUME NEW from \in {"risk", "decide", "review"}, NEW to \in {"honeypot", "review", "limits"},
                 <<from, to>> \in {<<"risk", "honeypot">>, <<"decide", "review">>,
                                   <<"decide", "limits">>, <<"review", "limits">>},
                 NEW kinds \in SUBSET phase27ClaimIntakeKinds, Goes(h, from, to, kinds)
          PROVE  GuardInv' /\ Grows(h, phase27ClaimIntakeKinds)
        <3>1. /\ Works(h, kinds) /\ pc'[h] \in Calls /\ pc'[h] \notin Evaluating
              /\ pc'[h] \notin {"bad_token", "blocklist", "captcha"}
            BY <2>3, Zenon DEF Goes, Calls, Evaluating
        <3>2. score'[h] \in Scores(pc'[h])
            BY <2>3, <1>0, Zenon DEF Goes, Scores
        <3> QED
            BY <2>3, <3>1, <3>2, <1>a, <1>b, <1>f, GuardWorks, Zenon DEF Goes
    <2> QED
        BY <1>2, <2>1, <2>2, <2>3, <1>e DEF Proceeds
<1>3. ASSUME NEW from \in {"ip", "address", "fingerprint"}, NEW to \in {"address", "fingerprint", "heuristics"},
             Goes(h, from, to, {})
      PROVE  GuardInv' /\ Grows(h, phase27ClaimIntakeKinds)
    <2>1. /\ Works(h, {}) /\ ledger' = ledger /\ pc'[h] \in Calls
          /\ pc[h] \in Evaluating /\ pc'[h] \notin {"bad_token", "blocklist", "captcha"}
        BY <1>3, <1>g, Zenon DEF Goes, Works, Calls, Evaluating
    <2>2. score'[h] \in Scores(pc'[h])
        BY <1>3, <1>0, Zenon DEF Goes, Scores
    <2>3. /\ id'[h] = id[h] /\ id[h] # 0 /\ req'[h] = req[h] /\ t'[h] = t[h] /\ seen'[h] = seen[h]
          /\ Seconds(ledger')
        BY <1>3, <2>1, <1>b, <1>c, Zenon DEF Goes
    <2>4. GuardInv' /\ Grows(h, {})
        BY <2>1, <2>2, <2>3, <1>a, GuardWorks, Zenon DEF Seconds
    <2> QED
        BY <2>4, <1>f, Zenon
<1>4. ASSUME NEW from \in {"ip", "address", "fingerprint", "decide"},
             Goes(h, from, "rejected", {"manual_review"})
      PROVE  GuardInv' /\ Grows(h, phase27ClaimIntakeKinds)
    <2>1. /\ Works(h, {"manual_review"}) /\ pc'[h] \in Calls /\ pc'[h] \notin Evaluating
          /\ pc'[h] \notin {"bad_token", "blocklist", "captcha"}
        BY <1>4, Zenon DEF Goes, Calls, Evaluating
    <2>2. score'[h] \in Scores(pc'[h])
        BY <1>4, <1>0, Zenon DEF Goes, Scores
    <2> QED
        BY <1>4, <2>1, <2>2, <1>a, <1>b, <1>e, <1>f, GuardWorks, Zenon DEF Goes
<1>5. CASE ReadsClock(h)
    <2>1. /\ Works(h, {}) /\ ledger' = ledger /\ pc'[h] \in Calls
          /\ pc[h] \in Evaluating /\ pc'[h] \notin {"bad_token", "blocklist", "captcha"}
        BY <1>5, <1>g, Zenon DEF ReadsClock, Works, Calls, Evaluating
    <2>2. score'[h] \in Scores(pc'[h])
        BY <1>5, <1>0, Zenon DEF ReadsClock, Scores
    <2> QED
        BY <1>5, <2>1, <2>2, <1>a, <1>b, <1>c, <1>f, GuardWorks, Zenon DEF ReadsClock, Seconds
<1>6. CASE Judges(h)
    <2>1. /\ Works(h, {}) /\ ledger' = ledger /\ pc'[h] \in Calls
          /\ pc[h] \in Evaluating /\ pc'[h] \notin {"bad_token", "blocklist", "captcha"}
        BY <1>6, <1>g, Zenon DEF Judges, Works, Calls, Evaluating
    <2>2. score'[h] \in Scores(pc'[h])
        BY <1>6, <1>0 DEF Judges, Scores
    <2>3. /\ id'[h] = id[h] /\ id[h] # 0 /\ req'[h] = req[h] /\ t'[h] = t[h] /\ seen'[h] = seen[h]
          /\ Seconds(ledger')
        BY <1>6, <2>1, <1>b, <1>c, Zenon DEF Judges
    <2>4. GuardInv' /\ Grows(h, {})
        BY <2>1, <2>2, <2>3, <1>a, GuardWorks, Zenon DEF Seconds
    <2> QED
        BY <2>4, <1>f, Zenon
<1> QED
    BY <1>0, <1>1, <1>2, <1>3, <1>4, <1>5, <1>6, ScreenForms, Zenon DEF LetsThrough, Rejects

\* So do the arrival of a request and the steps of the environment.
LEMMA GuardArrive ==
    ASSUME GuardInv, NEW h \in Handlers, Arrive(h)
    PROVE  GuardInv'
<1>1. GuardTypes /\ LedgerOK /\ requests \in Nat /\ requests' = requests + 1 /\ now' = now
      /\ ledger' = ledger /\ rows' = rows
    BY GuardBoundsAssumption DEF GuardInv, GuardTypes, Arrive, NoSignal
<1>2. PICK f \in Forms : /\ req' = [req EXCEPT ![h] = f]
                         /\ pc' = [pc EXCEPT ![h] = IF f.token THEN "blocklist" ELSE "bad_token"]
    BY Zenon DEF Arrive
<1>3. LedgerOK'
    BY <1>1 DEF LedgerOK
<1>4. GuardTypes'
    <2>1. id' \in [Handlers -> 0..requests'] /\ requests' \in 0..MaxRequests
        BY <1>1, GuardBoundsAssumption DEF Arrive, GuardTypes
    <2>2. pc' \in [Handlers -> Calls] /\ req' \in [Handlers -> Forms \cup {NoRequest}]
        BY <1>1, <1>2, Zenon DEF GuardTypes, Calls
    <2> QED
        BY <1>1, <2>1, <2>2, Zenon DEF Arrive, NoSignal, GuardTypes
<1>5. /\ id' = [id EXCEPT ![h] = requests + 1] /\ score' = score
      /\ pc'[h] \in {"blocklist", "bad_token"} /\ pc[h] = "idle"
      /\ id \in [Handlers -> 0..requests] /\ pc \in [Handlers -> Calls]
      /\ \A k \in Handlers : k # h => pc'[k] = pc[k]
    BY <1>1, <1>2, Zenon DEF Arrive, GuardTypes
<1>6. ASSUME NEW g \in Handlers
      PROVE  Fits(g)'
    <2>0. OwnFits(g) /\ score[g] \in Scores(pc[g])
        BY Zenon DEF GuardInv
    <2>1. CASE g = h
        <3>1. score'[h] \in Scores(pc'[h])
            BY <1>5, <2>0, <2>1, Zenon DEF Scores
        <3>2. id'[h] = requests + 1 /\ id'[h] # 0
            BY <1>1, <1>5
        <3>3. \A k \in Handlers : id'[k] = id'[h] => k = h
            BY <1>1, <1>5
        <3>4. {s \in ledger' : s.by = id'[h]} = {}
            BY <1>1, <3>2 DEF LedgerOK
        <3>5. pc'[h] \notin Evaluating
            BY <1>5, Zenon DEF Evaluating
        <3> QED
            BY <2>1, <3>1, <3>2, <3>3, <3>4, <3>5, Zenon DEF Fits, OwnFits, Own
    <2>2. CASE g # h
        <3>1. id'[g] = id[g] /\ pc'[g] = pc[g] /\ id[g] \in 0..requests /\ id'[h] = requests + 1
            BY <1>5, <2>2, Zenon
        <3>2. \A k \in Handlers : pc'[g] # "idle" /\ id'[k] = id'[g] => k = g
            BY <1>1, <1>5, <2>0, <2>2, <3>1 DEF OwnFits
        <3> QED
            BY <1>1, <1>5, <2>0, <3>1, <3>2 DEF Fits, OwnFits, Own
    <2> QED
        BY <2>1, <2>2, Zenon
<1> QED
    BY <1>3, <1>4, <1>6, Zenon DEF GuardInv, Fits

\* The clock, the admins and a restart keep the invariant.
LEMMA GuardEnvironment ==
    ASSUME GuardInv, Tick \/ AdminBlocks \/ Restart \/ UNCHANGED vars
    PROVE  GuardInv'
<1>0. GuardTypes /\ LedgerOK /\ now \in Nat /\ requests \in Nat /\ faults \in Nat
    BY GuardBoundsAssumption DEF GuardInv, GuardTypes
<1>1. CASE Tick
    <2>1. now' \in Instants /\ now' \in Nat /\ now < now'
        BY <1>1, GuardBoundsAssumption, Zenon DEF Tick
    <2>2. /\ rows' = rows /\ ledger' = ledger /\ requests' = requests /\ faults' = faults
          /\ id' = id /\ pc' = pc /\ req' = req /\ t' = t /\ score' = score /\ seen' = seen
        BY <1>1, Zenon DEF Tick, request
    <2>3. LedgerOK'
        BY <1>0, <2>1, <2>2 DEF LedgerOK
    <2>4. GuardTypes'
        BY <1>0, <2>1, <2>2 DEF GuardTypes
    <2> QED
        BY <2>2, <2>3, <2>4 DEF GuardInv, OwnFits, Own
<1>2. CASE AdminBlocks \/ UNCHANGED vars
    <2>1. /\ rows' = rows /\ ledger' = ledger /\ requests' = requests /\ now' = now
          /\ id' = id /\ pc' = pc /\ req' = req /\ t' = t /\ score' = score /\ seen' = seen
        BY <1>2, Zenon DEF AdminBlocks, vars, request
    <2>2. faults' \in 0..MaxFaults
        BY <1>0, <1>2, GuardBoundsAssumption DEF AdminBlocks, Fault, vars, GuardTypes
    <2>3. GuardTypes' /\ LedgerOK'
        BY <1>0, <2>1, <2>2, Zenon DEF GuardTypes, LedgerOK
    <2> QED
        BY <2>1, <2>3 DEF GuardInv, OwnFits, Own
<1>3. CASE Restart
    <2>1. LedgerOK'
        BY <1>0, <1>3, Zenon DEF Restart, PruneSignalsByRetention, LedgerOK
    <2>2. faults' \in 0..MaxFaults /\ Cardinality(ledger') \in Nat
        BY <1>0, <1>3, GuardBoundsAssumption, FS_CardinalityType
        DEF Restart, Fault, GuardTypes, LedgerOK
    <2>3. GuardTypes'
        BY <1>0, <1>3, <2>2 DEF Restart, GuardTypes, Calls
    <2>4. \A h \in Handlers : pc'[h] = "idle" /\ score'[h] = 0
        BY <1>3, Zenon DEF Restart
    <2>5. \A h \in Handlers : score'[h] \in Scores(pc'[h])
        BY <2>4, Zenon DEF Scores
    <2>6. \A h \in Handlers : OwnFits(h)'
        BY <2>4, Zenon DEF OwnFits, Evaluating
    <2> QED
        BY <2>1, <2>3, <2>5, <2>6, Zenon DEF GuardInv
<1> QED
    BY <1>1, <1>2, <1>3, Zenon

\* It holds at the start, with any signals of the past.
LEMMA GuardInit == Init => GuardInv
<1> SUFFICES ASSUME Init
             PROVE  GuardInv
    BY Zenon
<1>1. LedgerOK
    BY PastAssumption, FS_CardinalityType DEF Init, LedgerOK
<1>2. Cardinality(ledger) \in Nat
    BY <1>1, FS_CardinalityType, Zenon DEF LedgerOK
<1>3. GuardTypes
    BY <1>2, GuardBoundsAssumption DEF Init, GuardTypes, Calls
<1>4. \A h \in Handlers : pc[h] = "idle" /\ score[h] = 0
    BY Zenon DEF Init
<1>5. \A h \in Handlers : score[h] \in Scores(pc[h]) /\ OwnFits(h)
    BY <1>4, Zenon DEF Scores, OwnFits, Evaluating
<1> QED
    BY <1>1, <1>3, <1>5, Zenon DEF GuardInv

\* Every step keeps the invariant.
LEMMA GuardInvariant == Spec => []GuardInv
<1>1. GuardInv /\ [Next]_vars => GuardInv'
    BY GuardServe, GuardArrive, GuardEnvironment, Zenon DEF Next
<1> QED
    BY <1>1, GuardInit, PTL DEF Spec

\* Whatever requests run at the same time, each variable has its type, the table
\* holds only signals of the ledger and no two signals of the ledger have the
\* same number (recordAbuseSignal, PruneSignalsByRetention).
THEOREM GuardTypeCorrect == Spec => []TypeOK
<1>1. GuardInv => TypeOK
    BY Zenon DEF GuardInv, GuardTypes, LedgerOK, TypeOK
<1> QED
    BY <1>1, GuardInvariant, PTL

-----------------------------------------------------------------------------
\* Who is at a threshold stays out.

\* While a request is evaluated, what it must have counted only becomes less: new
\* signals are not among those it began with, and the window moves on.
LEMMA KnownShrinks ==
    ASSUME GuardInv, NEW g \in Handlers, NEW field, NEW threshold \in Nat,
           \A s \in ledger' \ ledger : s.n \in Int /\ s.n > Cardinality(ledger),
           now' \in Nat, now <= now', seen'[g] = seen[g], req'[g] = req[g],
           Below(g, field, threshold)
    PROVE  Below(g, field, threshold)'
<1>1. now \in Nat /\ seen[g] \in 0..Cardinality(ledger) /\ Cardinality(ledger) \in Nat
    BY GuardBoundsAssumption, FS_CardinalityType DEF GuardInv, GuardTypes, LedgerOK
<1>2. now \in Int /\ now' \in Int /\ Window \in Int
    BY <1>1, WindowAssumption
<1>3. /\ Second(now - 2 * Window) <= Second(now' - 2 * Window)
      /\ Second(now - 2 * Window) \in Int /\ Second(now' - 2 * Window) \in Int
    BY <1>2, WindowMoves, Zenon
<1>4. ASSUME NEW s \in KnownOf(g, field)'
      PROVE  s \in KnownOf(g, field)
    <2>1. /\ s \in ledger' /\ s.n <= seen[g] /\ s.kind \in NegativeKinds
          /\ Second(s.at) > Second(now' - 2 * Window)
          /\ req[g][field] # Empty /\ s[field] = req[g][field]
        BY <1>4, Zenon DEF KnownOf, Known, Second
    <2>2. s \in ledger
        <3> SUFFICES ASSUME s \notin ledger
                     PROVE  FALSE
            BY Zenon
        <3>1. s.n \in Int /\ s.n > Cardinality(ledger)
            BY <2>1, Zenon
        <3> QED
            BY <1>1, <2>1, <3>1
    <2>3. s.at \in Int
        BY <2>2, <1>1 DEF GuardInv, LedgerOK
    <2>4. Second(s.at) \in Int
        BY <2>3, TextOrder, Zenon
    <2> QED
        BY <1>3, <2>1, <2>2, <2>4 DEF KnownOf, Known
<1>5. IsFiniteSet(KnownOf(g, field))
    BY FS_Subset, Zenon DEF KnownOf, Known, GuardInv, LedgerOK
<1>6. /\ Cardinality(KnownOf(g, field)') <= Cardinality(KnownOf(g, field))
      /\ Cardinality(KnownOf(g, field)') \in Nat /\ Cardinality(KnownOf(g, field)) \in Nat
    BY <1>4, <1>5, PartCountsLess, Zenon
<1> QED
    BY <1>6 DEF Below

\* A scope counts every signal that the request has to answer for: none of them
\* was pruned, and each sorts after the start of the window.
LEMMA ScopeCounts ==
    ASSUME GuardInv, PrunedIsPast, NEW h \in Handlers
    PROVE  /\ ~OverIP(h) => Below(h, "ip", IPThreshold)
           /\ ~OverAddress(h) => Below(h, "addr", AddressThreshold)
           /\ ~OverFP(h) => Below(h, "fp", FingerprintThreshold)
<1> DEFINE since == t[h] - 2 * Window
<1>1. now \in Nat /\ t[h] \in 0..now /\ Window \in Nat /\ since \in Int /\ now - 2 * Window \in Int
      /\ since <= now - 2 * Window
    BY GuardBoundsAssumption, WindowAssumption DEF GuardInv, GuardTypes
<1> HIDE DEF since
<1>2. ASSUME NEW s \in Known(h)
      PROVE  s \in rows /\ s.kind \in NegativeKinds /\ formatTime(s.at) >= formatTime(since)
    <2>1. /\ s \in ledger /\ s.kind \in NegativeKinds
          /\ Second(s.at) > Second(now - 2 * Window)
        BY <1>2, Zenon DEF Known
    <2>2. s.at \in Int
        BY <1>1, <2>1 DEF GuardInv, LedgerOK
    <2>3. Second(s.at) \in Int /\ Second(now - 2 * Window) \in Int /\ Second(since) \in Int
          /\ Second(since) <= Second(now - 2 * Window)
        BY <1>1, <2>2, TextOrder, Zenon
    <2>4. s \in rows
        BY <2>1, <2>3 DEF PrunedIsPast
    <2>5. Second(s.at) > Second(since)
        BY <2>1, <2>3
    <2> QED
        BY <1>1, <2>1, <2>2, <2>4, <2>5, TextOrder, Zenon
<1>3. ASSUME NEW field, NEW threshold \in Nat, NEW W, W \subseteq rows,
             KnownOf(h, field) \subseteq W,
             ~scopeScore(req[h][field], threshold, Cardinality(W))
      PROVE  Below(h, field, threshold)
    <2>1. IsFiniteSet(W)
        BY <1>3, FS_Subset, Zenon DEF GuardInv, LedgerOK
    <2>2. /\ Cardinality(KnownOf(h, field)) <= Cardinality(W)
          /\ Cardinality(KnownOf(h, field)) \in Nat /\ Cardinality(W) \in Nat
        BY <1>3, <2>1, PartCountsLess, Zenon
    <2>3. CASE req[h][field] = Empty
        <3>1. KnownOf(h, field) = {}
            BY <2>3, Zenon DEF KnownOf
        <3> QED
            BY <3>1, FS_EmptySet, Zenon DEF Below
    <2>4. CASE req[h][field] # Empty
        BY <1>3, <2>2, <2>4 DEF scopeScore, Below
    <2> QED
        BY <2>3, <2>4, Zenon
<1>4. ASSUME ~OverIP(h)
      PROVE  Below(h, "ip", IPThreshold)
    <2> DEFINE W == abuseSignalWhere(NegativeKinds, since, req[h].ip, Empty, Empty)
    <2>1. W \subseteq rows /\ KnownOf(h, "ip") \subseteq W
        BY <1>2, Zenon DEF abuseSignalWhere, KnownOf
    <2>2. ~scopeScore(req[h]["ip"], IPThreshold, Cardinality(W))
        BY <1>4, Zenon DEF OverIP, Negative, CountRecentAbuseSignals, since
    <2> QED
        BY <2>1, <2>2, <1>3, ThresholdAssumption, Zenon
<1>5. ASSUME ~OverAddress(h)
      PROVE  Below(h, "addr", AddressThreshold)
    <2> DEFINE W == abuseSignalWhere(NegativeKinds, since, Empty, req[h].addr, Empty)
    <2>1. W \subseteq rows /\ KnownOf(h, "addr") \subseteq W
        BY <1>2, Zenon DEF abuseSignalWhere, KnownOf
    <2>2. ~scopeScore(req[h]["addr"], AddressThreshold, Cardinality(W))
        BY <1>5, Zenon DEF OverAddress, Negative, CountRecentAbuseSignals, since
    <2> QED
        BY <2>1, <2>2, <1>3, ThresholdAssumption
<1>6. ASSUME ~OverFP(h)
      PROVE  Below(h, "fp", FingerprintThreshold)
    <2> DEFINE W == abuseSignalWhere(NegativeKinds, since, Empty, Empty, req[h].fp)
    <2>1. W \subseteq rows /\ KnownOf(h, "fp") \subseteq W
        BY <1>2, Zenon DEF abuseSignalWhere, KnownOf
    <2>2. ~scopeScore(req[h]["fp"], FingerprintThreshold, Cardinality(W))
        BY <1>6, Zenon DEF OverFP, Negative, CountRecentAbuseSignals, since
    <2> QED
        BY <2>1, <2>2, <1>3, ThresholdAssumption
<1> QED
    BY <1>4, <1>5, <1>6, Zenon

\* The part of the invariant about request h.
Screened(h) ==
    /\ pc[h] \in AfterIP => Below(h, "ip", IPThreshold)
    /\ pc[h] \in AfterAddress => Below(h, "addr", AddressThreshold)
    /\ pc[h] \in AfterFP => Below(h, "fp", FingerprintThreshold)

\* A request keeps what its scopes have shown while it does not begin again.
LEMMA ScreenedStays ==
    ASSUME GuardInv, NEW g \in Handlers, Screened(g),
           \A s \in ledger' \ ledger : s.n \in Int /\ s.n > Cardinality(ledger),
           now' \in Nat, now <= now', seen'[g] = seen[g], req'[g] = req[g],
           pc'[g] \in AfterIP => pc[g] \in AfterIP \/ Below(g, "ip", IPThreshold),
           pc'[g] \in AfterAddress => pc[g] \in AfterAddress \/ Below(g, "addr", AddressThreshold),
           pc'[g] \in AfterFP => pc[g] \in AfterFP \/ Below(g, "fp", FingerprintThreshold)
    PROVE  Screened(g)'
<1>1. pc'[g] \in AfterIP => Below(g, "ip", IPThreshold)'
    <2>1. SUFFICES ASSUME pc'[g] \in AfterIP
                   PROVE  Below(g, "ip", IPThreshold)'
        BY Zenon
    <2>2. Below(g, "ip", IPThreshold)
        BY <2>1, Zenon DEF Screened
    <2> QED
        BY <2>2, KnownShrinks, ThresholdAssumption, Zenon
<1>2. pc'[g] \in AfterAddress => Below(g, "addr", AddressThreshold)'
    <2>1. SUFFICES ASSUME pc'[g] \in AfterAddress
                   PROVE  Below(g, "addr", AddressThreshold)'
        BY Zenon
    <2>2. Below(g, "addr", AddressThreshold)
        BY <2>1, Zenon DEF Screened
    <2> QED
        BY <2>2, KnownShrinks, ThresholdAssumption, Zenon
<1>3. pc'[g] \in AfterFP => Below(g, "fp", FingerprintThreshold)'
    <2>1. SUFFICES ASSUME pc'[g] \in AfterFP
                   PROVE  Below(g, "fp", FingerprintThreshold)'
        BY Zenon
    <2>2. Below(g, "fp", FingerprintThreshold)
        BY <2>1, Zenon DEF Screened
    <2> QED
        BY <2>2, KnownShrinks, ThresholdAssumption
<1> QED
    BY <1>1, <1>2, <1>3, Zenon DEF Screened

\* A request that is not past its first scope has shown nothing yet.
LEMMA NotScreened ==
    ASSUME NEW g \in Handlers, pc'[g] \notin AfterIP
    PROVE  Screened(g)'
BY Zenon DEF Screened, AfterIP, AfterAddress

\* Steps of requests keep the invariant.
LEMMA ScopeServe ==
    ASSUME GuardInv, ScopeInv, NEW h \in Handlers, Screen(h)
    PROVE  ScopeInv'
<1>0. GuardTypes /\ PrunedIsPast /\ now \in Nat /\ \A g \in Handlers : Screened(g)
    BY GuardBoundsAssumption DEF GuardInv, GuardTypes, ScopeInv, Screened
<1>1. CASE Arrive(h)
    <2>1. /\ ledger' = ledger /\ rows' = rows /\ now' = now /\ seen' = seen
          /\ pc'[h] \in {"blocklist", "bad_token"}
          /\ \A g \in Handlers : g # h => pc'[g] = pc[g] /\ req'[g] = req[g]
        BY <1>0, <1>1, Zenon DEF Arrive, NoSignal, GuardTypes
    <2>2. PrunedIsPast'
        BY <1>0, <2>1, Zenon DEF PrunedIsPast
    <2>3. ASSUME NEW g \in Handlers
          PROVE  Screened(g)'
        <3>1. CASE g = h
            BY <2>1, <3>1, NotScreened, Zenon DEF AfterIP, AfterAddress, AfterFP
        <3>2. CASE g # h
            BY <1>0, <2>1, <3>2, ScreenedStays
        <3> QED
            BY <3>1, <3>2, Zenon
    <2> QED
        BY <2>2, <2>3, Zenon DEF ScopeInv, Screened
<1>2. CASE ~Arrive(h)
    <2>1. Grows(h, phase27ClaimIntakeKinds)
        BY <1>2, GuardServe, Zenon
    <2>2. /\ \A s \in ledger' \ ledger : s.n \in Int /\ s.n > Cardinality(ledger)
          /\ ledger' \ rows' \subseteq ledger \ rows
        BY <2>1 DEF Grows
    <2>3. PICK kinds : Works(h, kinds)
        BY <1>0, <1>2, ScreenForms, Zenon
        DEF Ends, Proceeds, LetsThrough, Rejects, ReadsClock, Judges, Goes
    <2>4. now' = now /\ \A g \in Handlers : g # h =>
                            pc'[g] = pc[g] /\ req'[g] = req[g] /\ seen'[g] = seen[g]
        BY <1>0, <2>3 DEF Works, GuardTypes
    <2>5. PrunedIsPast'
        BY <1>0, <2>2, <2>4, Zenon DEF PrunedIsPast
    <2>6. Screened(h)'
        <3>1. CASE Ends(h) \/ Rejects(h)
            BY <3>1, NotScreened, Zenon DEF Ends, Rejects, Goes, AfterIP, AfterAddress, AfterFP
        <3>2. CASE Proceeds(h)
            <4>1. /\ pc'[h] \notin AfterIP \/ pc[h] \in AfterFP
                  /\ seen'[h] = seen[h] /\ req'[h] = req[h]
                BY <3>2, Zenon DEF Proceeds, Goes, AfterIP, AfterAddress, AfterFP
            <4>2. AfterFP \subseteq AfterAddress /\ AfterAddress \subseteq AfterIP
                BY Zenon DEF AfterAddress, AfterIP
            <4> QED
                BY <1>0, <2>2, <2>4, <4>1, <4>2, ScreenedStays
        <3>3. CASE LetsThrough(h)
            <4>1. seen'[h] = seen[h] /\ req'[h] = req[h]
                BY <3>3, Zenon DEF LetsThrough, Goes
            <4>2. /\ pc'[h] \in AfterIP => pc[h] \in AfterIP \/ ~OverIP(h)
                  /\ pc'[h] \in AfterAddress => pc[h] \in AfterAddress \/ ~OverAddress(h)
                  /\ pc'[h] \in AfterFP => pc[h] \in AfterFP \/ ~OverFP(h)
                BY <3>3, Zenon DEF LetsThrough, Goes, AfterIP, AfterAddress, AfterFP
            <4> QED
                BY <1>0, <2>2, <2>4, <4>1, <4>2, ScopeCounts, ScreenedStays
        <3>4. CASE ReadsClock(h) \/ Judges(h)
            <4>1. \/ pc'[h] \notin AfterIP
                  \/ pc[h] \in AfterFP /\ seen'[h] = seen[h] /\ req'[h] = req[h]
                BY <3>4, Zenon DEF ReadsClock, Judges, AfterIP, AfterAddress, AfterFP
            <4>2. AfterFP \subseteq AfterAddress /\ AfterAddress \subseteq AfterIP
                BY Zenon DEF AfterAddress, AfterIP
            <4> QED
                BY <1>0, <2>2, <2>4, <4>1, <4>2, ScreenedStays, NotScreened
        <3> QED
            BY <1>0, <1>2, <3>1, <3>2, <3>3, <3>4, ScreenForms, Zenon
    <2>7. \A g \in Handlers : g # h => Screened(g)'
        BY <1>0, <2>2, <2>4, ScreenedStays
    <2> QED
        BY <2>5, <2>6, <2>7, Zenon DEF ScopeInv, Screened
<1> QED
    BY <1>1, <1>2, Zenon

\* So do the clock and a restart, which prunes only what the window has left behind.
LEMMA ScopeEnvironment ==
    ASSUME GuardInv, ScopeInv, Tick \/ AdminBlocks \/ Restart \/ UNCHANGED vars
    PROVE  ScopeInv'
<1>0. GuardTypes /\ LedgerOK /\ PrunedIsPast /\ now \in Nat /\ \A g \in Handlers : Screened(g)
    BY GuardBoundsAssumption DEF GuardInv, GuardTypes, ScopeInv, Screened
<1>1. Window \in Int /\ Retention \in Nat /\ now \in Int /\ \A s \in ledger : s.at \in Int
    BY <1>0, WindowAssumption DEF LedgerOK
<1>2. CASE Tick \/ AdminBlocks \/ UNCHANGED vars
    <2>1. /\ ledger' = ledger /\ rows' = rows /\ now' \in Nat /\ now <= now'
          /\ seen' = seen /\ req' = req /\ pc' = pc
        <3>1. CASE Tick
            BY <1>0, <3>1, GuardBoundsAssumption DEF Tick, request
        <3>2. CASE AdminBlocks
            BY <1>0, <3>2 DEF AdminBlocks, request
        <3>3. CASE UNCHANGED vars
            BY <1>0, <3>3 DEF vars, request
        <3> QED
            BY <1>2, <3>1, <3>2, <3>3
    <2>2. /\ Second(now - 2 * Window) \in Int /\ Second(now' - 2 * Window) \in Int
          /\ Second(now - 2 * Window) <= Second(now' - 2 * Window)
        BY <1>1, <2>1, WindowMoves
    <2>3. \A s \in ledger : Second(s.at) \in Int
        BY <1>1, TextOrder, Zenon
    <2>4. PrunedIsPast'
        BY <1>0, <2>1, <2>2, <2>3 DEF PrunedIsPast, Second
    <2>5. \A g \in Handlers : Screened(g)'
        BY <1>0, <2>1, ScreenedStays, Zenon
    <2> QED
        BY <2>4, <2>5, Zenon DEF ScopeInv, Screened
<1>3. CASE Restart
    <2>1. /\ ledger' = ledger /\ now' = now /\ \A g \in Handlers : pc'[g] \notin AfterIP
          /\ rows' = {s \in rows : Retention = 0 \/ formatTime(s.at) >= formatTime(now - 2 * Retention)}
        BY <1>3, Zenon DEF Restart, PruneSignalsByRetention, AfterIP, AfterAddress, AfterFP
    <2>2. ASSUME NEW s \in ledger \ rows'
          PROVE  Second(s.at) <= Second(now - 2 * Window)
        <3>1. CASE s \notin rows
            BY <1>0, <2>2, <3>1, Zenon DEF PrunedIsPast
        <3>2. CASE s \in rows
            <4>1. Retention # 0 /\ ~(formatTime(s.at) >= formatTime(now - 2 * Retention))
                BY <2>1, <2>2, <3>2, Zenon
            <4>2. Retention >= Window /\ Retention \in Int
                BY <4>1, WindowAssumption
            <4>3. now - 2 * Retention \in Int /\ now - 2 * Window \in Int
                  /\ now - 2 * Retention <= now - 2 * Window
                BY <1>1, <4>2
            <4>4. /\ Second(s.at) <= Second(now - 2 * Retention)
                  /\ Second(now - 2 * Retention) <= Second(now - 2 * Window)
                  /\ Second(s.at) \in Int /\ Second(now - 2 * Retention) \in Int
                  /\ Second(now - 2 * Window) \in Int
                BY <1>1, <2>2, <4>1, <4>3, TextOrder
            <4> QED
                BY <4>4
        <3> QED
            BY <3>1, <3>2, Zenon
    <2>3. PrunedIsPast'
        BY <2>1, <2>2, Zenon DEF PrunedIsPast, Second
    <2>4. \A g \in Handlers : Screened(g)'
        BY <2>1, NotScreened, Zenon
    <2> QED
        BY <2>3, <2>4, Zenon DEF ScopeInv, Screened
<1> QED
    BY <1>2, <1>3, Zenon

\* Who is at a threshold stays out until signals leave the window: whatever runs at
\* the same time, however long the queries take and whatever a restart has pruned,
\* a request that Evaluate lets pass is below every threshold.
THEOREM GuardLocksOut == Spec => []LockedOutStaysOut
<1>1. Init => ScopeInv
    <2> SUFFICES ASSUME Init
                 PROVE  ScopeInv
        BY Zenon
    <2>1. ledger = rows /\ \A h \in Handlers : pc[h] = "idle"
        BY Zenon DEF Init
    <2> QED
        BY <2>1, Zenon DEF ScopeInv, PrunedIsPast, AfterIP, AfterAddress, AfterFP
<1>2. GuardInv /\ ScopeInv /\ [Next]_vars => ScopeInv'
    BY ScopeServe, ScopeEnvironment, Zenon DEF Next
<1>3. ScopeInv => LockedOutStaysOut
    <2> SUFFICES ASSUME ScopeInv, NEW h \in Handlers, pc[h] \in {"review", "limits"}
                 PROVE  /\ Below(h, "ip", IPThreshold) /\ Below(h, "addr", AddressThreshold)
                        /\ Below(h, "fp", FingerprintThreshold)
        BY Zenon DEF LockedOutStaysOut, Below, KnownOf
    <2> QED
        BY Zenon DEF ScopeInv, AfterIP, AfterAddress, AfterFP
<1> QED
    BY <1>1, <1>2, <1>3, GuardInvariant, PTL DEF Spec

-----------------------------------------------------------------------------
\* Nobody is rejected for what strangers did, or for what is past.

\* What a query of the table returns is in the ledger, of the kinds and the fields
\* asked for, and not of a second before the start of the window.
LEMMA WhereReturns ==
    ASSUME GuardInv, NEW kinds, NEW since \in Int, NEW ip, NEW addr, NEW fp,
           NEW s \in abuseSignalWhere(kinds, since, ip, addr, fp)
    PROVE  /\ s \in ledger /\ s.kind \in kinds /\ Second(s.at) >= Second(since)
           /\ ip = Empty \/ s.ip = ip
           /\ addr = Empty \/ s.addr = addr
           /\ fp = Empty \/ s.fp = fp
           /\ ip # Empty \/ addr # Empty \/ fp # Empty
<1>1. /\ s \in ledger /\ s.kind \in kinds /\ formatTime(s.at) >= formatTime(since)
      /\ ip = Empty \/ s.ip = ip
      /\ addr = Empty \/ s.addr = addr
      /\ fp = Empty \/ s.fp = fp
      /\ ip # Empty \/ addr # Empty \/ fp # Empty
    BY Zenon DEF abuseSignalWhere, GuardInv, LedgerOK
<1>2. s.at \in Int
    BY <1>1, GuardBoundsAssumption DEF GuardInv, GuardTypes, LedgerOK
<1> QED
    BY <1>1, <1>2, TextOrder, Zenon

\* A query counts finitely many signals.
LEMMA WhereFinite ==
    ASSUME GuardInv, NEW kinds, NEW since, NEW ip, NEW addr, NEW fp
    PROVE  Cardinality(abuseSignalWhere(kinds, since, ip, addr, fp)) \in Nat
<1>1. abuseSignalWhere(kinds, since, ip, addr, fp) \subseteq ledger /\ IsFiniteSet(ledger)
    BY Zenon DEF abuseSignalWhere, GuardInv, LedgerOK
<1> QED
    BY <1>1, PartCountsLess, Zenon

\* A scope at its threshold has counted a negative signal, and the request's own
\* are not negative.
LEMMA ScopeEvidence ==
    ASSUME GuardInv, NEW h \in Handlers, pc[h] \in Evaluating,
           OverIP(h) \/ OverAddress(h) \/ OverFP(h)
    PROVE  Evidence(h)
<1> DEFINE since == t[h] - 2 * Window
<1>1. since \in Int
    BY GuardBoundsAssumption, WindowAssumption DEF GuardInv, GuardTypes
<1>2. \A s \in ledger : s.by = id[h] => s.kind = "captcha_passed"
    BY Zenon DEF GuardInv, OwnFits, Own
<1>3. "captcha_passed" \notin NegativeKinds
    BY Zenon DEF NegativeKinds
<1> HIDE DEF since
<1>4. PICK ip, addr, fp :
        /\ Cardinality(abuseSignalWhere(NegativeKinds, since, ip, addr, fp)) >= 1
        /\ ip = Empty \/ ip = req[h].ip
        /\ addr = Empty \/ addr = req[h].addr
        /\ fp = Empty \/ fp = req[h].fp
    <2> DEFINE Count(i, a, f) == Cardinality(abuseSignalWhere(NegativeKinds, since, i, a, f))
    <2>a. ASSUME NEW threshold \in Nat, NEW n \in Nat, NEW value, scopeScore(value, threshold, n)
          PROVE  n >= 1
        BY <2>a DEF scopeScore
    <2>b. \A i, a, f : Count(i, a, f) \in Nat
        BY WhereFinite, Zenon
    <2>c. /\ OverIP(h) => scopeScore(req[h].ip, IPThreshold, Count(req[h].ip, Empty, Empty))
          /\ OverAddress(h) =>
                scopeScore(req[h].addr, AddressThreshold, Count(Empty, req[h].addr, Empty))
          /\ OverFP(h) => scopeScore(req[h].fp, FingerprintThreshold, Count(Empty, Empty, req[h].fp))
        BY Zenon DEF OverIP, OverAddress, OverFP, Negative, CountRecentAbuseSignals, since
    <2> HIDE DEF Count
    <2>1. CASE OverIP(h)
        <3>1. Count(req[h].ip, Empty, Empty) >= 1
            BY <2>1, <2>a, <2>b, <2>c, ThresholdAssumption, Zenon
        <3> QED
            BY <3>1, Zenon DEF Count
    <2>2. CASE OverAddress(h)
        <3>1. Count(Empty, req[h].addr, Empty) >= 1
            BY <2>2, <2>a, <2>b, <2>c, ThresholdAssumption, Zenon
        <3> QED
            BY <3>1, Zenon DEF Count
    <2>3. CASE OverFP(h)
        <3>1. Count(Empty, Empty, req[h].fp) >= 1
            BY <2>3, <2>a, <2>b, <2>c, ThresholdAssumption, Zenon
        <3> QED
            BY <3>1, Zenon DEF Count
    <2> QED
        BY <2>1, <2>2, <2>3, Zenon
<1>5. PICK s : s \in abuseSignalWhere(NegativeKinds, since, ip, addr, fp)
    BY <1>4, OneOrMore, Zenon
<1>6. /\ s \in ledger /\ s.kind \in NegativeKinds /\ Second(s.at) >= Second(since)
      /\ ip = Empty \/ s.ip = ip
      /\ addr = Empty \/ s.addr = addr
      /\ fp = Empty \/ s.fp = fp
      /\ ip # Empty \/ addr # Empty \/ fp # Empty
    BY <1>1, <1>5, WhereReturns, Zenon
<1>7. Related(s, req[h])
    BY <1>4, <1>6, Zenon DEF Related
<1> QED
    BY <1>2, <1>3, <1>6, <1>7, Zenon DEF Evidence, since

\* Finitely many signals have finitely many different values.
LEMMA DistinctFinite ==
    ASSUME NEW W, NEW L, IsFiniteSet(L), W \subseteq L, NEW column
    PROVE  Cardinality({s[column] : s \in W} \ {Empty}) \in Nat
<1> DEFINE V == {s[column] : s \in W}
           f == [s \in W |-> s[column]]
<1>1. IsFiniteSet(W)
    BY FS_Subset, Zenon
<1>2. f \in Surjection(W, V)
    BY Zenon DEF Surjection
<1> HIDE DEF f, V
<1>3. IsFiniteSet(V)
    BY <1>1, <1>2, FS_Surjection, Zenon
<1> QED
    BY <1>3, PartCountsLess, Zenon DEF V

\* Two signals, or two different values of a column, cannot all be the request's
\* own: it has left one signal at most.
LEMMA AnotherCounted ==
    ASSUME GuardInv, NEW h \in Handlers, pc[h] \in Evaluating, NEW W, W \subseteq ledger, NEW column,
           \/ Cardinality(W) >= 2
           \/ Cardinality({s[column] : s \in W} \ {Empty}) >= 2
    PROVE  \E s \in W : s.by # id[h]
<1>0. \A s, u \in ledger : s.by = id[h] /\ u.by = id[h] => s = u
    BY DEF GuardInv, OwnFits, Own
<1>1. CASE Cardinality(W) >= 2
    <2>1. PICK x \in W : x # Empty
        BY <1>1, TwoOrMore
    <2>2. PICK y \in W : y # x
        BY <1>1, TwoOrMore
    <2> QED
        BY <1>0, <2>1, <2>2, Zenon
<1>2. CASE Cardinality({s[column] : s \in W} \ {Empty}) >= 2
    <2> DEFINE V == {s[column] : s \in W} \ {Empty}
    <2>1. PICK v \in V : v # Empty
        BY <1>2, TwoOrMore
    <2>2. PICK w \in V : w # v
        BY <1>2, TwoOrMore, Zenon
    <2>3. PICK x \in W : x[column] = v
        BY <2>1, Zenon
    <2>4. PICK y \in W : y[column] = w
        BY <2>2, Zenon
    <2> QED
        BY <1>0, <2>2, <2>3, <2>4
<1> QED
    BY <1>1, <1>2, Zenon

\* A heuristic that is on asks for two signals or more.
LEMMA Thresholds ==
    ASSUME NEW n \in {BurstThreshold, RotatingThreshold, ClusterThreshold}, n > 0
    PROVE  n \in Nat \ {0, 1}
BY HeuristicAssumption

\* A heuristic that applies has counted another request's signal.
LEMMA JudgeEvidence ==
    ASSUME GuardInv, NEW h \in Handlers, pc[h] \in Evaluating,
           BurstApplies(h) \/ RotatingApplies(h) \/ ClusterApplies(h)
    PROVE  Evidence(h)
<1> DEFINE Where(since, ip, fp) == abuseSignalWhere(phase27ClaimIntakeKinds, since, ip, Empty, fp)
<1>1. t[h] - 2 * Window \in Int /\ t[h] - 2 * BurstWindow \in Int
    BY GuardBoundsAssumption, WindowAssumption DEF GuardInv, GuardTypes
<1>2. \A since, ip, fp : Where(since, ip, fp) \subseteq ledger
    BY Zenon DEF abuseSignalWhere, GuardInv, LedgerOK
<1>3. ASSUME NEW since \in {t[h] - 2 * Window, t[h] - 2 * BurstWindow}, NEW ip, NEW fp,
             ip = Empty \/ ip = req[h].ip, fp = Empty \/ fp = req[h].fp,
             NEW s \in Where(since, ip, fp), s.by # id[h]
      PROVE  Evidence(h)
    <2>1. /\ s \in ledger /\ Second(s.at) >= Second(since)
          /\ ip = Empty \/ s.ip = ip
          /\ fp = Empty \/ s.fp = fp
          /\ ip # Empty \/ fp # Empty
        BY <1>1, <1>3, WhereReturns
    <2>2. Related(s, req[h])
        BY <1>3, <2>1, Zenon DEF Related
    <2> QED
        BY <1>3, <2>1, <2>2, Zenon DEF Evidence
<1>4. CASE BurstApplies(h)
    <2> DEFINE W == Where(t[h] - 2 * BurstWindow, req[h].ip, Empty)
    <2>1. Cardinality(W) \in Nat
        BY WhereFinite, Zenon
    <2>2. Cardinality(W) >= BurstThreshold /\ BurstThreshold \in Nat \ {0, 1}
        BY <1>4, Thresholds, Zenon DEF BurstApplies, CountRecentAbuseSignals
    <2>3. Cardinality(W) >= 2 /\ W \subseteq ledger
        BY <1>2, <2>1, <2>2
    <2> HIDE DEF Where
    <2>4. PICK s \in W : s.by # id[h]
        BY <2>3, AnotherCounted, Zenon
    <2> QED
        BY <1>3, <2>4, Zenon
<1>5. ASSUME NEW ip, ip = Empty \/ ip = req[h].ip, NEW column, NEW threshold \in Nat \ {0, 1},
             CountDistinctRecentAbuseSignalValues(
                 phase27ClaimIntakeKinds, t[h] - 2 * Window, ip, req[h].fp, column) >= threshold
      PROVE  Evidence(h)
    <2> DEFINE W == Where(t[h] - 2 * Window, ip, req[h].fp)
               V == {s[column] : s \in W} \ {Empty}
    <2>1. Cardinality(V) >= threshold
        BY <1>5, Zenon DEF CountDistinctRecentAbuseSignalValues
    <2>2. W \subseteq ledger
        BY <1>2, Zenon
    <2>3. Cardinality(V) \in Nat
        <3>1. IsFiniteSet(ledger)
            BY Zenon DEF GuardInv, LedgerOK
        <3> HIDE DEF W
        <3> QED
            BY <2>2, <3>1, DistinctFinite
    <2>4. Cardinality(V) >= 2
        BY <2>1, <2>3, <1>5
    <2> HIDE DEF Where
    <2>5. PICK s \in W : s.by # id[h]
        BY <2>2, <2>4, AnotherCounted, Zenon
    <2> QED
        BY <1>3, <1>5, <2>5, Zenon
<1>6. CASE RotatingApplies(h)
    <2>1. RotatingThreshold \in Nat \ {0, 1}
        BY <1>6, Thresholds, Zenon DEF RotatingApplies
    <2> QED
        BY <1>5, <1>6, <2>1, Zenon DEF RotatingApplies
<1>7. CASE ClusterApplies(h)
    <2>1. ClusterThreshold \in Nat \ {0, 1}
        BY <1>7, Thresholds, Zenon DEF ClusterApplies
    <2>2. PICK ip : /\ ip = Empty \/ ip = req[h].ip
                    /\ CountDistinctRecentAbuseSignalValues(
                           phase27ClaimIntakeKinds, t[h] - 2 * Window, ip, req[h].fp, "addr")
                       >= ClusterThreshold
        BY <1>7 DEF ClusterApplies
    <2> QED
        BY <1>5, <2>1, <2>2
<1> QED
    BY <1>4, <1>6, <1>7

\* Evidence stays in the ledger.
LEMMA EvidenceStays ==
    ASSUME NEW g \in Handlers, Evidence(g), ledger \subseteq ledger',
           id'[g] = id[g], req'[g] = req[g], t'[g] = t[g]
    PROVE  Evidence(g)'
<1>1. PICK s \in ledger :
        /\ s.by # id[g] /\ Related(s, req[g])
        /\ \/ Second(s.at) >= Second(t[g] - 2 * Window)
           \/ Second(s.at) >= Second(t[g] - 2 * BurstWindow)
    BY Zenon DEF Evidence
<1>2. s \in ledger' /\ s.by # id'[g] /\ Related(s, req'[g])
    BY <1>1, Zenon
<1>3. \/ Second(s.at) >= Second(t'[g] - 2 * Window)
      \/ Second(s.at) >= Second(t'[g] - 2 * BurstWindow)
    BY <1>1
<1> QED
    BY <1>2, <1>3 DEF Evidence, Related, Second

\* Steps of requests keep the invariant.
LEMMA EvidenceServe ==
    ASSUME GuardInv, EvidenceInv, NEW h \in Handlers, Screen(h)
    PROVE  EvidenceInv'
<1>0. GuardTypes /\ score[h] \in Scores(pc[h])
    BY Zenon DEF GuardInv
<1>1. CASE Arrive(h)
    <2>1. /\ ledger' = ledger /\ score' = score /\ t' = t
          /\ pc'[h] \in {"blocklist", "bad_token"} /\ pc[h] = "idle"
          /\ \A g \in Handlers : g # h => pc'[g] = pc[g] /\ req'[g] = req[g] /\ id'[g] = id[g]
        BY <1>0, <1>1 DEF Arrive, NoSignal, GuardTypes
    <2>2. score'[h] = 0
        BY <1>0, <2>1, Zenon DEF Scores
    <2>3. ASSUME NEW g \in Handlers, pc'[g] = "rejected" \/ score'[g] > 0
          PROVE  Evidence(g)'
        <3>1. g # h
            BY <2>1, <2>2, <2>3
        <3>2. Evidence(g)
            BY <2>1, <2>3, <3>1 DEF EvidenceInv
        <3> QED
            BY <2>1, <3>1, <3>2, EvidenceStays, Zenon
    <2> QED
        BY <2>3, Zenon DEF EvidenceInv
<1>2. CASE ~Arrive(h)
    <2>1. ledger \subseteq ledger'
        BY <1>2, GuardServe, Zenon DEF Grows
    <2>2. PICK kinds : Works(h, kinds)
        BY <1>0, <1>2, ScreenForms, Zenon
        DEF Ends, Proceeds, LetsThrough, Rejects, ReadsClock, Judges, Goes
    <2>3. \A g \in Handlers : g # h =>
            /\ pc'[g] = pc[g] /\ req'[g] = req[g] /\ id'[g] = id[g]
            /\ t'[g] = t[g] /\ score'[g] = score[g]
        BY <1>0, <2>2 DEF Works, GuardTypes
    <2>4. ASSUME NEW g \in Handlers, g # h, pc'[g] = "rejected" \/ score'[g] > 0
          PROVE  Evidence(g)'
        <3>1. Evidence(g)
            BY <2>3, <2>4 DEF EvidenceInv
        <3> QED
            BY <2>1, <2>3, <2>4, <3>1, EvidenceStays, Zenon
    <2>5. ASSUME pc'[h] = "rejected" \/ score'[h] > 0
          PROVE  Evidence(h)'
        <3>1. ~Ends(h)
            <4>1. Ends(h) => pc'[h] = "idle" /\ score'[h] = 0
                BY Zenon DEF Ends
            <4> QED
                BY <2>5, <4>1
        <3>2. CASE Proceeds(h) \/ LetsThrough(h)
            <4>1. /\ pc'[h] # "rejected" /\ score'[h] = score[h]
                  /\ id'[h] = id[h] /\ req'[h] = req[h] /\ t'[h] = t[h]
                BY <3>2, Zenon DEF Proceeds, LetsThrough, Goes
            <4>2. Evidence(h)
                BY <2>5, <4>1, Zenon DEF EvidenceInv
            <4> QED
                BY <2>1, <4>1, <4>2, EvidenceStays, Zenon
        <3>3. CASE Rejects(h)
            <4>1. /\ pc[h] \in Evaluating
                  /\ id'[h] = id[h] /\ req'[h] = req[h] /\ t'[h] = t[h]
                  /\ OverIP(h) \/ OverAddress(h) \/ OverFP(h) \/ score[h] >= RejectScore
                BY <3>3, Zenon DEF Rejects, Goes, Evaluating
            <4>2. score[h] \in Nat
                BY <1>0 DEF GuardTypes
            <4>3. Evidence(h)
                <5>1. CASE score[h] >= RejectScore
                    <6>1. score[h] > 0
                        BY <4>2, <5>1, ThresholdAssumption
                    <6> QED
                        BY <6>1, Zenon DEF EvidenceInv
                <5>2. CASE OverIP(h) \/ OverAddress(h) \/ OverFP(h)
                    BY <4>1, <5>2, ScopeEvidence, Zenon
                <5> QED
                    BY <4>1, <5>1, <5>2, Zenon
            <4> QED
                BY <2>1, <4>1, <4>3, EvidenceStays, Zenon
        <3>4. ~ReadsClock(h)
            <4> SUFFICES ASSUME ReadsClock(h)
                         PROVE  FALSE
                BY Zenon
            <4>1. /\ pc[h] \in {"risk", "heuristics"} /\ pc'[h] # "rejected"
                  /\ score'[h] = score[h]
                BY Zenon DEF ReadsClock
            <4>2. score[h] = 0
                BY <1>0, <4>1 DEF Scores
            <4> QED
                BY <2>5, <4>1, <4>2
        <3>5. CASE Judges(h)
            <4>1. /\ pc[h] \in Evaluating /\ pc'[h] # "rejected"
                  /\ id'[h] = id[h] /\ req'[h] = req[h] /\ t'[h] = t[h]
                  /\ \/ score'[h] = score[h]
                     \/ BurstApplies(h) \/ RotatingApplies(h) \/ ClusterApplies(h)
                BY <3>5, Zenon DEF Judges, Evaluating
            <4>2. Evidence(h)
                <5>1. CASE score'[h] = score[h]
                    BY <2>5, <4>1, <5>1, Zenon DEF EvidenceInv
                <5>2. CASE BurstApplies(h) \/ RotatingApplies(h) \/ ClusterApplies(h)
                    BY <4>1, <5>2, JudgeEvidence, Zenon
                <5> QED
                    BY <4>1, <5>1, <5>2, Zenon
            <4> QED
                BY <2>1, <4>1, <4>2, EvidenceStays, Zenon
        <3> QED
            BY <1>0, <1>2, <3>1, <3>2, <3>3, <3>4, <3>5, ScreenForms, Zenon
    <2> QED
        BY <2>4, <2>5 DEF EvidenceInv
<1> QED
    BY <1>1, <1>2, Zenon

\* The risk engine rejects nobody for what strangers did, nor for what is past: a
\* request that a threshold or its score rejects shares a key with another
\* request's signal that is not older than the longer window, whatever runs at
\* the same time (Evaluate, advancedScore).
THEOREM GuardRejectsForDeeds == Spec => []RejectedForOwnDeeds
<1>1. Init => EvidenceInv
    <2> SUFFICES ASSUME Init, NEW h \in Handlers
                 PROVE  ~(pc[h] = "rejected" \/ score[h] > 0)
        BY Zenon DEF EvidenceInv
    <2> QED
        BY DEF Init
<1>2. GuardInv /\ EvidenceInv /\ [Next]_vars => EvidenceInv'
    <2> SUFFICES ASSUME GuardInv, EvidenceInv, [Next]_vars
                 PROVE  EvidenceInv'
        BY Zenon
    <2>1. CASE Tick \/ AdminBlocks \/ UNCHANGED vars
        <3>1. /\ ledger' = ledger /\ id' = id /\ req' = req /\ t' = t /\ pc' = pc
              /\ score' = score
            BY <2>1, Zenon DEF Tick, AdminBlocks, vars, request
        <3> QED
            BY <3>1, EvidenceStays, Zenon DEF EvidenceInv
    <2>2. CASE Restart
        <3>1. \A h \in Handlers : pc'[h] = "idle" /\ score'[h] = 0
            BY <2>2, Zenon DEF Restart
        <3> QED
            BY <3>1 DEF EvidenceInv
    <2> QED
        BY <2>1, <2>2, EvidenceServe DEF Next
<1>3. EvidenceInv => RejectedForOwnDeeds
    BY Zenon DEF EvidenceInv, RejectedForOwnDeeds, Evidence
<1> QED
    BY <1>1, <1>2, <1>3, GuardInvariant, PTL DEF Spec

=============================================================================
