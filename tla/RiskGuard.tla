------------------------------ MODULE RiskGuard ------------------------------
(***************************************************************************)
(* The screening of a claim before the limits: token, blocklist, captcha   *)
(* and ProgressiveEnforcer.Evaluate, which counts the abuse signals that   *)
(* earlier requests left in the database.  Every count is a query of its   *)
(* own and every signal an INSERT that may fail unnoticed, so concurrent   *)
(* requests see each other's signals or not, time passes between the       *)
(* queries, and a restart deletes what is older than the retention.        *)
(***************************************************************************)
EXTENDS Integers, FiniteSets

CONSTANTS
    Handlers,          \* requests in flight
    Forms,             \* requests that may arrive: who sends them
    Outcomes,          \* signals of the steps after the screening
    IPThreshold,       \* AbuseEnforcementIPThreshold; 0 switches a scope off
    AddressThreshold,
    FingerprintThreshold,
    BurstThreshold, RotatingThreshold, ClusterThreshold,
    RejectScore,       \* AbuseRiskScoreRejectThreshold
    Window,            \* AbuseEnforcementWindowSeconds
    BurstWindow,
    Retention,         \* AbuseSignalRetentionDays, in seconds; 0: no pruning
    Past,              \* sets of signals that earlier requests may have left
    Blockable,         \* keys the admins may block
    Instants,          \* bound: the times the clock shows after 0, in half seconds
    MaxRequests,       \* bound: requests
    MaxFaults          \* bound: store errors, restarts and admin changes

NegativeKinds ==
    {"captcha_failed", "risk_rejected", "rate_limited", "cooldown_active",
     "daily_budget_exceeded"}

phase27ClaimIntakeKinds ==
    NegativeKinds \cup {"captcha_passed", "risk_allowed", "manual_review", "claim_accepted",
                        "invalid_token"}

\* A field left empty, as a fingerprint may be.
Empty == ""

ASSUME FormsAssumption ==
    \A f \in Forms : DOMAIN f = {"ip", "addr", "fp", "honeypot", "token"}
ASSUME OutcomesAssumption == Outcomes \subseteq phase27ClaimIntakeKinds
ASSUME ThresholdAssumption ==
    /\ IPThreshold \in Nat /\ AddressThreshold \in Nat /\ FingerprintThreshold \in Nat
    /\ RejectScore \in Nat \ {0}
\* At 1 a heuristic would already count the signal of the request's own captcha.
ASSUME HeuristicAssumption ==
    {BurstThreshold, RotatingThreshold, ClusterThreshold} \subseteq Nat \ {1}
\* The retention is counted in days and the windows in seconds; the configuration
\* does not compare them, and a retention below a window would cut it short.
ASSUME WindowAssumption ==
    /\ Window \in Nat \ {0} /\ BurstWindow \in Nat \ {0} /\ Retention \in Nat
    /\ Retention = 0 \/ Retention >= Window
\* A signal is the n-th, left at a time by a request, whose number is 0 in the past.
ASSUME PastAssumption ==
    \A p \in Past :
        /\ IsFiniteSet(p) /\ {s.n : s \in p} = 1..Cardinality(p)
        /\ \A s \in p : s.by = 0 /\ s.at = 0 /\ s.kind \in phase27ClaimIntakeKinds
ASSUME GuardBoundsAssumption ==
    /\ Instants \subseteq Nat
    /\ MaxRequests \in Nat /\ MaxFaults \in Nat

VARIABLES
    now,               \* the clock, in half seconds
    rows,              \* abuse_signals
    ledger,            \* every signal ever inserted
    blocked,           \* admin_blocklist
    \* the requests: number, next call, sender, the clock read for its queries,
    \* the score so far, the size of the ledger when Evaluate began
    id, pc, req, t, score, seen,
    requests, faults

request == <<id, pc, req, t, score, seen>>
vars == <<now, rows, ledger, blocked, request, requests, faults>>

NoRequest == [ip |-> Empty, addr |-> Empty, fp |-> Empty, honeypot |-> FALSE, token |-> TRUE]

Init ==
    /\ now = 0
    /\ rows \in Past /\ ledger = rows
    /\ blocked = {}
    /\ id = [h \in Handlers |-> 0]
    /\ pc = [h \in Handlers |-> "idle"]
    /\ req = [h \in Handlers |-> NoRequest]
    /\ t = [h \in Handlers |-> 0]
    /\ score = [h \in Handlers |-> 0]
    /\ seen = [h \in Handlers |-> 0]
    /\ requests = 0 /\ faults = 0

Fault == faults < MaxFaults /\ faults' = faults + 1

-----------------------------------------------------------------------------
\* The store.

\* formatTime writes RFC3339Nano, which drops trailing zeros, and SQLite compares
\* the texts: ".5Z" sorts before "Z", so within a second the half comes first.
formatTime(time) == 2 * (time \div 2) + (1 - (time % 2))

\* Mutant: the signals of all time are counted.
MutWhere(kinds, since, ip, addr, fp) ==
    {s \in rows :
        /\ s.kind \in kinds
        /\ <<ip, addr, fp>> # <<Empty, Empty, Empty>>
        /\ ip \in {Empty, s.ip}
        /\ addr \in {Empty, s.addr}
        /\ fp \in {Empty, s.fp}}

\* An empty field is no condition; without any condition the answer is empty.
abuseSignalWhere(kinds, since, ip, addr, fp) ==
    {s \in rows :
        /\ s.kind \in kinds
        /\ formatTime(s.at) >= formatTime(since)
        /\ <<ip, addr, fp>> # <<Empty, Empty, Empty>>
        /\ ip \in {Empty, s.ip}
        /\ addr \in {Empty, s.addr}
        /\ fp \in {Empty, s.fp}}

CountRecentAbuseSignals(kinds, since, ip, addr, fp) ==
    Cardinality(abuseSignalWhere(kinds, since, ip, addr, fp))

\* Distinct values of a column that are not empty.
CountDistinctRecentAbuseSignalValues(kinds, since, ip, fp, column) ==
    Cardinality({s[column] : s \in abuseSignalWhere(kinds, since, ip, Empty, fp)} \ {Empty})

\* recordAbuseSignal: the caller does not notice that an INSERT failed.
recordAbuseSignal(h, kind) ==
    LET signal == [n |-> Cardinality(ledger) + 1, by |-> id[h], kind |-> kind, at |-> now,
                   ip |-> req[h].ip, addr |-> req[h].addr, fp |-> req[h].fp]
    IN  \/ /\ rows' = rows \cup {signal}
           /\ ledger' = ledger \cup {signal}
           /\ UNCHANGED faults
        \/ Fault /\ UNCHANGED <<rows, ledger>>

-----------------------------------------------------------------------------
\* CreateClaim, as far as the risk engine.

Keep == UNCHANGED <<now, blocked, requests>>
NoSignal == UNCHANGED <<rows, ledger, faults>>

\* The request goes on to its next call.
Goto(h, call) ==
    /\ pc' = [pc EXCEPT ![h] = call]
    /\ UNCHANGED <<id, req, t, score, seen>>

\* CreateClaim returns.
Return(h) ==
    /\ pc' = [pc EXCEPT ![h] = "idle"]
    /\ id' = [id EXCEPT ![h] = 0] /\ req' = [req EXCEPT ![h] = NoRequest]
    /\ t' = [t EXCEPT ![h] = 0] /\ score' = [score EXCEPT ![h] = 0]
    /\ seen' = [seen EXCEPT ![h] = 0]

Arrive(h) ==
    /\ pc[h] = "idle" /\ requests < MaxRequests
    /\ requests' = requests + 1
    /\ id' = [id EXCEPT ![h] = requests + 1]
    /\ \E f \in Forms :
        /\ req' = [req EXCEPT ![h] = f]
        /\ pc' = [pc EXCEPT ![h] = IF f.token THEN "blocklist" ELSE "bad_token"]
    /\ NoSignal /\ UNCHANGED <<now, blocked, t, score, seen>>

InvalidToken(h) ==
    /\ pc[h] = "bad_token"
    /\ recordAbuseSignal(h, "invalid_token")
    /\ Return(h)
    /\ Keep

\* IsBlocked; an empty value is not looked up.
IsBlocked(value) == value # Empty /\ value \in blocked

\* The three lookups in one step: an admin change to one key between them is an
\* admin change before or after them all.
enforceBlocklist(h) ==
    /\ pc[h] = "blocklist"
    /\ LET hit == \E value \in {req[h].ip, req[h].addr, req[h].fp} : IsBlocked(value)
       IN  \/ ~hit /\ Goto(h, "captcha") /\ NoSignal
           \/ hit /\ recordAbuseSignal(h, "risk_rejected") /\ Return(h)
    /\ Keep

\* The verifier's answer decides.
verifyCaptcha(h) ==
    /\ pc[h] = "captcha"
    /\ \/ recordAbuseSignal(h, "captcha_passed") /\ Goto(h, "risk")
       \/ recordAbuseSignal(h, "captcha_failed") /\ Return(h)
    /\ Keep

-----------------------------------------------------------------------------
\* ProgressiveEnforcer.Evaluate and evaluateRisk.

\* evaluateRisk on a rejection: manual_review now and risk_rejected next.
Reject(h, why) ==
    /\ recordAbuseSignal(h, "manual_review")
    /\ Goto(h, why)

RejectionRecorded(h) ==
    /\ pc[h] \in {"honeypot", "rejected"}
    /\ recordAbuseSignal(h, "risk_rejected")
    /\ Return(h)
    /\ Keep

\* The honeypot, and the clock for the window of the three scopes.
Evaluate(h) ==
    /\ pc[h] = "risk"
    /\ \/ req[h].honeypot /\ Reject(h, "honeypot")
       \/ /\ ~req[h].honeypot
          /\ pc' = [pc EXCEPT ![h] = "ip"]
          /\ t' = [t EXCEPT ![h] = now]
          /\ seen' = [seen EXCEPT ![h] = Cardinality(ledger)]
          /\ NoSignal /\ UNCHANGED <<id, req, score>>
    /\ Keep

\* Mutant: the threshold itself is still let through.
MutScopeScore(value, threshold, count) == threshold > 0 /\ value # Empty /\ count > threshold

\* A scope that is switched on is at its threshold.
scopeScore(value, threshold, count) == threshold > 0 /\ value # Empty /\ count >= threshold

Negative(h, ip, addr, fp) ==
    CountRecentAbuseSignals(NegativeKinds, t[h] - 2 * Window, ip, addr, fp)

\* One of the three scopes: at its threshold the request is rejected.
Scope(h, call, over, next) ==
    /\ pc[h] = call
    /\ \/ over /\ Reject(h, "rejected")
       \/ ~over /\ Goto(h, next) /\ NoSignal
    /\ Keep

Scopes(h) ==
    LET r == req[h]
    IN  \/ Scope(h, "ip", scopeScore(r.ip, IPThreshold, Negative(h, r.ip, Empty, Empty)), "address")
        \/ Scope(h, "address", scopeScore(r.addr, AddressThreshold, Negative(h, Empty, r.addr, Empty)),
                 "fingerprint")
        \/ Scope(h, "fingerprint",
                 scopeScore(r.fp, FingerprintThreshold, Negative(h, Empty, Empty, r.fp)), "heuristics")

\* advancedScore reads the clock again.
advancedScore(h) ==
    /\ pc[h] = "heuristics"
    /\ t' = [t EXCEPT ![h] = now]
    /\ pc' = [pc EXCEPT ![h] = "burst"]
    /\ NoSignal /\ Keep /\ UNCHANGED <<id, req, score, seen>>

\* Mutant: a heuristic that applies adds one.
MutHeuristic(h, call, applies, next) ==
    /\ pc[h] = call
    /\ score' = [score EXCEPT ![h] = IF applies THEN @ + 1 ELSE @]
    /\ pc' = [pc EXCEPT ![h] = next]
    /\ NoSignal /\ Keep /\ UNCHANGED <<id, req, t, seen>>

\* A heuristic that applies adds two.
Heuristic(h, call, applies, next) ==
    /\ pc[h] = call
    /\ score' = [score EXCEPT ![h] = IF applies THEN @ + 2 ELSE @]
    /\ pc' = [pc EXCEPT ![h] = next]
    /\ NoSignal /\ Keep /\ UNCHANGED <<id, req, t, seen>>

Burst(h) ==
    Heuristic(h, "burst",
        /\ BurstThreshold > 0 /\ req[h].ip # Empty
        /\ CountRecentAbuseSignals(phase27ClaimIntakeKinds, t[h] - 2 * BurstWindow, req[h].ip, Empty, Empty)
               >= BurstThreshold,
        "rotating")

RotatingIP(h) ==
    Heuristic(h, "rotating",
        /\ RotatingThreshold > 0 /\ req[h].fp # Empty
        /\ CountDistinctRecentAbuseSignalValues(
               phase27ClaimIntakeKinds, t[h] - 2 * Window, Empty, req[h].fp, "ip") >= RotatingThreshold,
        "cluster")

\* By fingerprint or, without one, by IP.
AddressCluster(h) ==
    Heuristic(h, "cluster",
        /\ ClusterThreshold > 0
        /\ CountDistinctRecentAbuseSignalValues(
               phase27ClaimIntakeKinds, t[h] - 2 * Window,
               IF req[h].fp = Empty THEN req[h].ip ELSE Empty, req[h].fp, "addr") >= ClusterThreshold,
        "decide")

\* The score decides; one that is close is recorded for review as well.
evaluateRisk(h) ==
    /\ pc[h] = "decide"
    /\ \/ score[h] >= RejectScore /\ Reject(h, "rejected")
       \/ /\ score[h] < RejectScore
          /\ recordAbuseSignal(h, "risk_allowed")
          /\ Goto(h, IF score[h] > 0 /\ score[h] >= RejectScore - 1 THEN "review" ELSE "limits")
    /\ Keep

ReviewRecorded(h) ==
    /\ pc[h] = "review"
    /\ recordAbuseSignal(h, "manual_review")
    /\ Goto(h, "limits")
    /\ Keep

\* Cooldown, rate limits, budget, or the claim is accepted.
Limits(h) ==
    /\ pc[h] = "limits"
    /\ \E kind \in Outcomes : recordAbuseSignal(h, kind)
    /\ Return(h)
    /\ Keep

\* A query or the verifier fails: the claim is answered with an error and
\* leaves no signal.
QueryFails(h) ==
    /\ pc[h] \in {"blocklist", "captcha", "ip", "address",
                  "fingerprint", "burst", "rotating", "cluster", "limits"}
    /\ Fault
    /\ Return(h)
    /\ Keep /\ UNCHANGED <<rows, ledger>>

-----------------------------------------------------------------------------
\* The environment.

Tick ==
    /\ now' \in {i \in Instants : i > now}
    /\ UNCHANGED <<rows, ledger, blocked, request, requests, faults>>

\* An admin blocks a key, or takes the block back.
AdminBlocks ==
    /\ \E value \in Blockable :
        blocked' = IF value \in blocked THEN blocked \ {value} ELSE blocked \cup {value}
    /\ Fault
    /\ UNCHANGED <<now, rows, ledger, request, requests>>

\* A retention of 0 prunes nothing.
PruneSignalsByRetention ==
    rows' = {s \in rows : Retention = 0 \/ formatTime(s.at) >= formatTime(now - 2 * Retention)}

\* The process starts again: the requests are lost and old signals pruned.
Restart ==
    /\ Fault
    /\ PruneSignalsByRetention
    /\ pc' = [h \in Handlers |-> "idle"]
    /\ id' = [h \in Handlers |-> 0] /\ req' = [h \in Handlers |-> NoRequest]
    /\ t' = [h \in Handlers |-> 0] /\ score' = [h \in Handlers |-> 0]
    /\ seen' = [h \in Handlers |-> 0]
    /\ UNCHANGED <<now, ledger, blocked, requests>>

Screen(h) ==
    \/ Arrive(h) \/ InvalidToken(h) \/ enforceBlocklist(h) \/ verifyCaptcha(h)
    \/ Evaluate(h) \/ RejectionRecorded(h) \/ Scopes(h)
    \/ advancedScore(h) \/ Burst(h) \/ RotatingIP(h) \/ AddressCluster(h)
    \/ evaluateRisk(h) \/ ReviewRecorded(h) \/ Limits(h) \/ QueryFails(h)

Next == (\E h \in Handlers : Screen(h)) \/ Tick \/ AdminBlocks \/ Restart

Spec == Init /\ [][Next]_vars

-----------------------------------------------------------------------------
\* Properties.

Calls == {"idle", "bad_token", "blocklist", "captcha", "risk",
          "ip", "address", "fingerprint", "heuristics", "burst", "rotating", "cluster", "decide",
          "honeypot", "rejected", "review", "limits"}

\* Every variable has its type, the table holds only signals of the ledger, and
\* each signal has a number of its own.
TypeOK ==
    /\ now \in Instants \cup {0} /\ rows \subseteq ledger
    /\ \A s \in ledger : s.kind \in phase27ClaimIntakeKinds /\ s.at \in 0..now
    /\ {s.n : s \in ledger} = 1..Cardinality(ledger)
    /\ id \in [Handlers -> 0..requests] /\ pc \in [Handlers -> Calls] /\ req \in [Handlers -> Forms \cup {NoRequest}]
    /\ t \in [Handlers -> 0..now] /\ score \in [Handlers -> {0, 2, 4, 6}]
    /\ seen \in [Handlers -> 0..Cardinality(ledger)]
    /\ requests \in 0..MaxRequests /\ faults \in 0..MaxFaults

Second(time) == time \div 2

\* Negative signals that were recorded when h's evaluation began and that the
\* window, to the second, has not left behind since.
Known(h) ==
    {s \in ledger : /\ s.n <= seen[h] /\ s.kind \in NegativeKinds
                    /\ Second(s.at) > Second(now - 2 * Window)}

\* Who is at a threshold stays out until signals leave the window: a request
\* that passes the risk engine has, on each of its scopes, fewer negative
\* signals than the threshold, whatever ran at the same time, however long its
\* queries took, although times are compared as texts, and although a restart
\* may have pruned the table in between.
LockedOutStaysOut ==
    \A h \in Handlers : pc[h] \in {"review", "limits"} =>
        LET of(field) == {s \in Known(h) : req[h][field] # Empty /\ s[field] = req[h][field]}
        IN  /\ IPThreshold > 0 => Cardinality(of("ip")) < IPThreshold
            /\ AddressThreshold > 0 => Cardinality(of("addr")) < AddressThreshold
            /\ FingerprintThreshold > 0 => Cardinality(of("fp")) < FingerprintThreshold

\* A field that is not empty is the same.
Related(s, q) == \E field \in {"ip", "addr", "fp"} : s[field] # Empty /\ s[field] = q[field]

\* The risk engine turns away nobody for what strangers did, nor for what is
\* past: a request rejected by a threshold or by its score is related to another
\* request's signal that is not older than the longer window.
\* A client who lets the windows pass in silence is let in again, and one who
\* shares no key with anybody is never rejected.
RejectedForOwnDeeds ==
    \A h \in Handlers : pc[h] = "rejected" =>
        \E s \in ledger :
            /\ s.by # id[h] /\ Related(s, req[h])
            /\ \/ Second(s.at) >= Second(t[h] - 2 * Window)
               \/ Second(s.at) >= Second(t[h] - 2 * BurstWindow)

=============================================================================
