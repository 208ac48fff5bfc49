---------------------------- MODULE FaucetAppProofs ----------------------------
(***************************************************************************)
(* The life of the faucet process, for every number of RPC candidates,     *)
(* migrations, starts, broadcasts and faults: what it serves with, what    *)
(* its goroutines hold, what it leaves behind, and the nonces of its       *)
(* payments.  StopEnds, which needs fairness, is left to TLC.              *)
(***************************************************************************)
EXTENDS FaucetApp, TLAPS

-----------------------------------------------------------------------------
\* Between two seedings of the nonce manager no nonce is given twice, and no nonce
\* is skipped but those a failed signature or an eviction lost.  The lemmas are
\* about one step of EthSender.Send or of the node each.

\* The nonce in hand was given by the nonce manager and is not used up yet.
InHand == wpc \in {"sign", "broadcast"}

\* SenderTypeOK, but for the faults.
NonceTypeOK ==
    /\ wpc \in {"idle", "prepare", "nonce", "sign", "broadcast"}
    /\ hand \in Nat /\ next \in Nat /\ mined \in Nat /\ seeded \in BOOLEAN
    /\ pool \subseteq [nonce : Nat, tx : Tx]
    /\ sent \in 0..MaxTx /\ fate \in [Tx -> Fates]
    /\ exposed \subseteq Tx /\ lost \subseteq Nat

\* A Send under way has a broadcast left, and its nonce is the last one given.
SendUnderWay ==
    /\ wpc # "idle" => sent < MaxTx
    /\ InHand => seeded /\ next = hand + 1

\* A transaction that entered the pool since the seeding has a nonce below the
\* counter, and not the one in hand.
FreshNonces ==
    seeded => \A p \in pool : p.tx \notin exposed =>
        p.nonce < next /\ (InHand => p.nonce < hand)

\* A nonce that no transaction has, for a reason that is known.
Covered(m) == m \in lost \/ \E q \in pool : q.nonce = m

\* From the chain's nonce to the counter no nonce is missing but the one in hand.
NoGapBelow ==
    seeded => \A m \in Nat : mined <= m /\ m < next =>
        Covered(m) \/ (InHand /\ m = hand)

\* GapsExplained, with the range written out.
NoGapInPool ==
    \A p \in pool : \A m \in Nat : mined <= m /\ m <= p.nonce => Covered(m)

NonceInv ==
    /\ NonceTypeOK
    /\ SendUnderWay
    /\ FreshNonces
    /\ NoGapBelow
    /\ NoGapInPool
    /\ ReplacedOnlyAfterReseed

-----------------------------------------------------------------------------

\* The invariant holds before the first Send.
LEMMA NonceInit == SenderInit => NonceInv
<1> SUFFICES ASSUME SenderInit PROVE NonceInv
  OBVIOUS
<1>1. NonceTypeOK
  <2>1. sent \in 0..MaxTx /\ hand \in Nat /\ next \in Nat /\ mined \in Nat
    BY SenderBoundsAssumption DEF SenderInit
  <2>2. fate \in [Tx -> Fates]
    BY DEF SenderInit, Fates
  <2> QED BY <2>1, <2>2, Zenon DEF SenderInit, NonceTypeOK
<1>2. SendUnderWay /\ FreshNonces /\ NoGapBelow /\ NoGapInPool
  BY DEF SenderInit, SendUnderWay, FreshNonces, NoGapBelow, NoGapInPool, InHand
<1>3. ReplacedOnlyAfterReseed
  BY DEF SenderInit, ReplacedOnlyAfterReseed
<1> QED BY <1>1, <1>2, <1>3 DEF NonceInv

\* It says nothing about the faults.
LEMMA NonceUnchanged ==
  ASSUME NonceInv, UNCHANGED <<sender, node, sent, fate, exposed, lost>>
  PROVE  NonceInv'
  BY DEF NonceInv, NonceTypeOK, SendUnderWay, FreshNonces, NoGapBelow, NoGapInPool, Covered,
         ReplacedOnlyAfterReseed, InHand, sender, node

\* A step of Send that ends before NonceManager.Next, or begins one.
LEMMA BeforeNonce ==
  ASSUME NonceInv, ~InHand, ~InHand',
         wpc' \in {"idle", "prepare", "nonce"}, wpc' # "idle" => sent < MaxTx,
         UNCHANGED <<hand, seeded, next, node, sent, fate, exposed, lost>>
  PROVE  NonceInv'
  BY DEF NonceInv, NonceTypeOK, SendUnderWay, FreshNonces, NoGapBelow, NoGapInPool, Covered,
         ReplacedOnlyAfterReseed, InHand, node

\* A new Send, and the calls before the nonce.
LEMMA PrepareInv ==
  ASSUME NonceInv, SendBegins \/ Prepare \/ NonceAtFails
  PROVE  NonceInv'
  BY BeforeNonce DEF SendBegins, Prepare, NonceAtFails, InHand, NonceInv, SendUnderWay

\* The nonce manager gives the counter, or the chain's nonce once it has asked.
LEMMA NextNonceInv ==
  ASSUME NonceInv, NextNonce
  PROVE  NonceInv'
<1> USE DEF NextNonce, node
<1>1. NonceTypeOK'
  BY DEF NonceInv, NonceTypeOK
<1>2. SendUnderWay'
  BY DEF NonceInv, SendUnderWay, InHand
<1>3. FreshNonces'
  BY <1>1 DEF NonceInv, NonceTypeOK, FreshNonces, InHand
<1>4. NoGapBelow'
  BY <1>1 DEF NonceInv, NonceTypeOK, NoGapBelow, InHand, Covered
<1>5. NoGapInPool'
  BY DEF NonceInv, NoGapInPool, Covered
<1>6. ReplacedOnlyAfterReseed'
  BY DEF NonceInv, ReplacedOnlyAfterReseed
<1> QED BY <1>1, <1>2, <1>3, <1>4, <1>5, <1>6 DEF NonceInv

\* A failed signature loses the nonce in hand.
LEMMA SignInv ==
  ASSUME NonceInv, Sign
  PROVE  NonceInv'
<1> USE DEF Sign, node
<1>1. NonceTypeOK'
  BY Zenon DEF NonceInv, NonceTypeOK
<1>2. SendUnderWay'
  BY DEF NonceInv, SendUnderWay, InHand
<1>3. FreshNonces'
  BY DEF NonceInv, FreshNonces, InHand
<1>4. NoGapBelow'
  BY DEF NonceInv, NoGapBelow, InHand, Covered
<1>5. NoGapInPool'
  BY DEF NonceInv, NoGapInPool, Covered
<1>6. ReplacedOnlyAfterReseed'
  BY DEF NonceInv, ReplacedOnlyAfterReseed
<1> QED BY <1>1, <1>2, <1>3, <1>4, <1>5, <1>6 DEF NonceInv

\* SendTransaction put the transaction into the pool; the nonce manager keeps
\* its counter or is reset.  A rival that it replaces was exposed.
LEMMA PooledInv ==
  ASSUME NonceInv, wpc = "broadcast", Pooled,
         sent' = sent + 1, wpc' = "idle", seeded' \in {seeded, FALSE},
         UNCHANGED <<hand, next, mined, exposed, lost>>
  PROVE  NonceInv'
<1>1. sent < MaxTx /\ seeded /\ next = hand + 1 /\ hand \in Nat /\ sent \in Nat
  BY DEF NonceInv, SendUnderWay, InHand, NonceTypeOK
<1>2. sent + 1 \in Tx /\ sent + 1 \in 0..MaxTx
  BY <1>1, SenderBoundsAssumption DEF Tx
<1> DEFINE new == [nonce |-> hand, tx |-> sent + 1]
<1>3. new \in [nonce : Nat, tx : Tx] /\ pool' = (pool \ Rivals) \cup {new}
  BY <1>1, <1>2 DEF Pooled
<1> HIDE DEF new
<1>4. new.nonce = hand /\ new \in pool'
  BY <1>3 DEF new
<1>5. NonceTypeOK'
  <2>1. pool' \subseteq [nonce : Nat, tx : Tx]
    BY <1>3 DEF NonceInv, NonceTypeOK
  <2>2. fate' \in [Tx -> Fates]
    BY DEF NonceInv, NonceTypeOK, Pooled, Fates
  <2>3. seeded' \in BOOLEAN
    BY Zenon DEF NonceInv, NonceTypeOK
  <2> QED BY <1>2, <2>1, <2>2, <2>3 DEF NonceInv, NonceTypeOK
<1>6. SendUnderWay'
  BY DEF SendUnderWay, InHand
<1>7. FreshNonces'
  BY <1>1, <1>3, <1>4 DEF NonceInv, NonceTypeOK, FreshNonces, InHand
<1>8. ASSUME NEW m \in Nat, Covered(m) \/ m = hand
      PROVE  Covered(m)'
  BY <1>3, <1>4, <1>8 DEF Covered, Rivals
<1>9. NoGapBelow'
  BY <1>1, <1>8 DEF NonceInv, NoGapBelow
<1>10. NoGapInPool'
  <2> SUFFICES ASSUME NEW p \in pool', NEW m \in Nat, mined <= m, m <= p.nonce
               PROVE  Covered(m)'
    BY DEF NoGapInPool
  <2>1. CASE p \in pool
    BY <2>1, <1>8 DEF NonceInv, NoGapInPool
  <2>2. CASE p = new
    BY <2>2, <1>1, <1>4, <1>8 DEF NonceInv, NonceTypeOK, NoGapBelow
  <2> QED BY <2>1, <2>2, <1>3
<1>11. ReplacedOnlyAfterReseed'
  <2> SUFFICES ASSUME NEW t \in Tx, fate'[t] = "replaced" PROVE t \in exposed
    BY DEF ReplacedOnlyAfterReseed
  <2>1. \/ \E p \in Rivals : p.tx = t
        \/ fate[t] = "replaced"
    BY DEF Pooled
  <2>2. CASE \E p \in Rivals : p.tx = t
    BY <1>1, <2>2 DEF Rivals, NonceInv, NonceTypeOK, FreshNonces, InHand
  <2> QED BY <2>1, <2>2 DEF NonceInv, ReplacedOnlyAfterReseed
<1> QED BY <1>5, <1>6, <1>7, <1>9, <1>10, <1>11 DEF NonceInv

\* A transaction that did not reach the pool resets the nonce manager.
LEMMA NotPooledInv ==
  ASSUME NonceInv, InHand, NotPooled, Reset,
         sent' = sent + 1, wpc' = "idle",
         UNCHANGED <<hand, next, mined, exposed, lost>>
  PROVE  NonceInv'
<1>1. sent + 1 \in Tx /\ sent + 1 \in 0..MaxTx
  BY SenderBoundsAssumption DEF NonceInv, SendUnderWay, InHand, NonceTypeOK, Tx
<1>2. fate' \in [Tx -> Fates] /\ pool' = pool
  BY Zenon DEF NonceInv, NonceTypeOK, NotPooled, Fates
<1>3. NonceTypeOK'
  BY <1>1, <1>2, Zenon DEF NonceInv, NonceTypeOK, Reset
<1>4. SendUnderWay' /\ FreshNonces' /\ NoGapBelow'
  BY DEF SendUnderWay, FreshNonces, NoGapBelow, InHand, Reset
<1>5. NoGapInPool'
  BY <1>2 DEF NonceInv, NoGapInPool, Covered
<1>6. ReplacedOnlyAfterReseed'
  BY DEF NonceInv, NonceTypeOK, ReplacedOnlyAfterReseed, NotPooled
<1> QED BY <1>3, <1>4, <1>5, <1>6 DEF NonceInv

\* Every step of EthSender.Send keeps the invariant.
LEMMA SendInv ==
  ASSUME NonceInv, SendBegins \/ Send
  PROVE  NonceInv'
<1>1. CASE SendBegins \/ Prepare \/ NonceAtFails
  BY <1>1, PrepareInv
<1>2. CASE NextNonce
  BY <1>2, NextNonceInv
<1>3. CASE Sign
  BY <1>3, SignInv
<1>4. CASE SendTransaction
  BY <1>4, PooledInv DEF SendTransaction
<1>5. CASE SendTransactionFails
  <2>1. CASE Pooled
    BY <1>5, <2>1, PooledInv, Zenon DEF SendTransactionFails, Reset
  <2>2. CASE NotPooled
    BY <1>5, <2>2, NotPooledInv DEF SendTransactionFails, InHand
  <2> QED BY <1>5, <2>1, <2>2 DEF SendTransactionFails
<1> QED BY <1>1, <1>2, <1>3, <1>4, <1>5 DEF Send

\* A block takes the transaction with the chain's nonce out of the pool; an
\* evicted one leaves its nonce among the lost.
LEMMA NodeInv ==
  ASSUME NonceInv, Mine \/ Evict
  PROVE  NonceInv'
<1>1. CASE Mine
  <2> PICK p \in pool :
        /\ p.nonce = mined
        /\ mined' = mined + 1
        /\ pool' = pool \ {p}
        /\ fate' = [fate EXCEPT ![p.tx] = "mined"]
        /\ UNCHANGED <<sender, sent, exposed, lost, faults>>
    BY <1>1, Zenon DEF Mine
  <2>1. NonceTypeOK'
    BY DEF NonceInv, NonceTypeOK, sender, Fates
  <2>2. SendUnderWay' /\ FreshNonces'
    BY DEF NonceInv, SendUnderWay, FreshNonces, InHand, sender
  <2>3. ASSUME NEW m \in Nat, mined' <= m, Covered(m) PROVE Covered(m)'
    BY <2>3 DEF Covered, NonceInv, NonceTypeOK
  <2>4. NoGapBelow' /\ NoGapInPool'
    BY <2>3 DEF NonceInv, NonceTypeOK, NoGapBelow, NoGapInPool, InHand, sender
  <2>5. ReplacedOnlyAfterReseed'
    BY DEF NonceInv, NonceTypeOK, ReplacedOnlyAfterReseed
  <2> QED BY <2>1, <2>2, <2>4, <2>5 DEF NonceInv
<1>2. CASE Evict
  <2> PICK p \in pool :
        /\ pool' = pool \ {p}
        /\ fate' = [fate EXCEPT ![p.tx] = "evicted"]
        /\ lost' = lost \cup {p.nonce}
        /\ UNCHANGED <<sender, mined, sent, exposed>>
    BY <1>2, Zenon DEF Evict
  <2>1. NonceTypeOK'
    BY Zenon DEF NonceInv, NonceTypeOK, sender, Fates
  <2>2. SendUnderWay' /\ FreshNonces'
    BY DEF NonceInv, SendUnderWay, FreshNonces, InHand, sender
  <2>3. ASSUME NEW m \in Nat, Covered(m) PROVE Covered(m)'
    BY <2>3 DEF Covered
  <2>4. NoGapBelow' /\ NoGapInPool'
    BY <2>3 DEF NonceInv, NoGapBelow, NoGapInPool, InHand, sender
  <2>5. ReplacedOnlyAfterReseed'
    BY DEF NonceInv, NonceTypeOK, ReplacedOnlyAfterReseed
  <2> QED BY <2>1, <2>2, <2>4, <2>5 DEF NonceInv
<1> QED BY <1>1, <1>2

\* A new process knows no nonce.
LEMMA ForgetInv ==
  ASSUME NonceInv, Forget
  PROVE  NonceInv'
  BY Zenon DEF NonceInv, Forget, NonceTypeOK, SendUnderWay, FreshNonces, NoGapBelow, NoGapInPool,
         Covered, ReplacedOnlyAfterReseed, InHand, node

-----------------------------------------------------------------------------

\* NonceInv is an invariant of the sender and the node.
THEOREM SenderNonces == SenderSpec => []NonceInv
<1>1. NonceInv /\ [SenderNext]_senderVars => NonceInv'
  <2> SUFFICES ASSUME NonceInv, [SenderNext]_senderVars PROVE NonceInv'
    OBVIOUS
  <2>1. CASE SendBegins \/ Send
    BY <2>1, SendInv
  <2>2. CASE Mine \/ Evict
    BY <2>2, NodeInv
  <2>3. CASE Forget
    BY <2>3, ForgetInv
  <2>4. CASE UNCHANGED senderVars
    BY <2>4, NonceUnchanged DEF senderVars
  <2> QED BY <2>1, <2>2, <2>3, <2>4 DEF SenderNext
<1> QED BY <1>1, NonceInit, PTL DEF SenderSpec

\* The invariant's account of the gaps is the property's.
LEMMA NonceInvGaps == NonceInv => GapsExplained
  BY DEF NonceInv, NonceTypeOK, NoGapInPool, Covered, GapsExplained

-----------------------------------------------------------------------------
\* The life of the process.

\* Nothing runs, and no stop is under way.
Quiet ==
    /\ worker = "off" /\ watcher = "off" /\ handling = FALSE /\ wpc = "idle"
    /\ cancelled = FALSE /\ expired = FALSE /\ cut = FALSE

Bare == store = FALSE /\ open = {}

\* The resources the faucet serves with.
Wired ==
    /\ store = TRUE /\ schema = Migrations
    /\ cfg.dry => open = {}
    /\ ~cfg.dry => ours = TRUE /\ open = {cand}

AppTypeOK ==
    /\ faults \in 0..MaxFaults
    /\ phase \in Phases /\ cfg \in Modes
    /\ store \in BOOLEAN /\ open \subseteq 1..Candidates
    /\ cand \in 1..Candidates /\ ours \in BOOLEAN
    /\ worker \in {"off", "idle", "busy"} /\ watcher \in {"off", "idle", "busy"}
    /\ handling \in BOOLEAN
    /\ cancelled \in BOOLEAN /\ expired \in BOOLEAN /\ cut \in BOOLEAN
    /\ schema \in 0..Migrations /\ starts \in 0..MaxStarts

\* What NewWithLogger holds at each of its steps.
StartInv ==
    /\ phase \in {"down", "open", "migrate", "dial", "validate", "signer", "captcha", "refused"}
           => Quiet
    /\ phase \in {"down", "open", "refused"} => Bare
    /\ phase = "migrate" => store = TRUE /\ open = {}
    /\ phase = "dial" => store = TRUE /\ open = {} /\ schema = Migrations /\ ~cfg.dry
    /\ phase = "validate" => store = TRUE /\ open = {cand} /\ schema = Migrations /\ ~cfg.dry
    /\ phase = "signer" => ~cfg.dry
    /\ phase \in {"signer", "captcha", "serving", "draining", "closing"} => Wired

\* The goroutines keep what they use, and Close gives up only what nobody uses.
StopInv ==
    /\ worker # "off" \/ watcher # "off" => Wired
    /\ wpc # "idle" => worker = "busy" /\ ~cfg.dry
    /\ phase \in {"serving", "draining"} =>
           cancelled = FALSE /\ expired = FALSE /\ cut = FALSE
    /\ phase \in {"closing", "releasing", "stopped"} =>
           cancelled = TRUE /\ (handling = TRUE => cut = TRUE)
    /\ phase = "closing" => expired = FALSE
    /\ phase \in {"releasing", "stopped"} /\ expired = FALSE => worker = "off" /\ watcher = "off"
    /\ phase = "releasing" /\ store = FALSE => open = {}
    /\ phase = "stopped" /\ expired = FALSE => Bare

AppInv == AppTypeOK /\ StartInv /\ StopInv

-----------------------------------------------------------------------------
\* The invariant of the process.

\* One more fault is within the bound.
LEMMA FaultBound ==
  ASSUME faults \in 0..MaxFaults, Fault
  PROVE  faults' \in 0..MaxFaults
  BY SenderBoundsAssumption DEF Fault

\* A process that is down holds nothing.
LEMMA AppInit == Init => AppInv
<1> SUFFICES ASSUME Init PROVE AppInv
  OBVIOUS
<1> USE DEF Init, SenderInit
<1>1. AppTypeOK
  <2>1. faults \in 0..MaxFaults /\ schema \in 0..Migrations /\ starts \in 0..MaxStarts
    BY AppAssumption, SenderBoundsAssumption
  <2>2. cand \in 1..Candidates
    BY AppAssumption
  <2> QED BY <2>1, <2>2, Zenon DEF AppTypeOK, Phases
<1>2. StartInv
  BY DEF StartInv, Quiet, Bare
<1>3. StopInv
  BY DEF StopInv
<1> QED BY <1>1, <1>2, <1>3 DEF AppInv

\* A failed step of NewWithLogger gives everything back.
LEMMA RefuseInv ==
  ASSUME AppInv, Refuse, Quiet
  PROVE  AppInv'
<1> USE DEF Refuse, tasks, stops, dialled, sender
<1>1. AppTypeOK'
  BY FaultBound, Zenon DEF AppInv, AppTypeOK, Phases
<1>2. StartInv'
  BY DEF AppInv, StartInv, Quiet, Bare
<1>3. StopInv'
  BY DEF AppInv, StopInv, Quiet, Bare
<1> QED BY <1>1, <1>2, <1>3 DEF AppInv

\* Each step of NewWithLogger holds what it should.
LEMMA StartingInv ==
  ASSUME AppInv, NewWithLogger
  PROVE  AppInv'
<1>1. Quiet
  BY DEF AppInv, StartInv, NewWithLogger, openStore, applyMigration, PruneSignals, NewClient,
         ValidateChainID, NewSigner, newCaptchaVerifier
<1>2. CASE Refuse
  BY <1>1, <1>2, RefuseInv
<1>3. CASE ~Refuse
  <2> USE <1>1, <1>3 DEF Starting, tasks, stops, dialled, held, senderVars, sender, AppInv,
                         Quiet, Bare, Wired
  <2>1. CASE openStore
    BY <2>1, Zenon DEF openStore, AppTypeOK, Phases, StartInv, StopInv
  <2>2. CASE applyMigration
    <3>1. schema' \in 0..Migrations
      BY <2>2, AppAssumption DEF applyMigration, AppTypeOK
    <3> QED BY <2>2, <3>1, Zenon DEF applyMigration, AppTypeOK, Phases, StartInv, StopInv
  <2>3. CASE PruneSignals
    <3>1. cand' \in 1..Candidates
      BY <2>3, AppAssumption DEF PruneSignals
    <3> QED BY <2>3, <3>1, Zenon DEF PruneSignals, AppTypeOK, Phases, StartInv, StopInv
  <2>4. CASE NewClient
    <3>1. cand' \in 1..Candidates
      BY <2>4, AppAssumption DEF NewClient, NextCandidate, AppTypeOK
    <3> QED BY <2>4, <3>1, Zenon DEF NewClient, NextCandidate, AppTypeOK, Phases, StartInv, StopInv
  <2>5. CASE ValidateChainID
    <3>1. cand' \in 1..Candidates
      BY <2>5, AppAssumption DEF ValidateChainID, NextCandidate, AppTypeOK
    <3> QED BY <2>5, <3>1, Zenon
               DEF ValidateChainID, NextCandidate, AppTypeOK, Phases, StartInv, StopInv
  <2>6. CASE NewSigner
    BY <2>6, Zenon DEF NewSigner, AppTypeOK, Phases, StartInv, StopInv
  <2>7. CASE newCaptchaVerifier
    BY <2>7, Zenon DEF newCaptchaVerifier, AppTypeOK, Phases, StartInv, StopInv
  <2> QED BY <2>1, <2>2, <2>3, <2>4, <2>5, <2>6, <2>7 DEF NewWithLogger
<1> QED BY <1>2, <1>3

\* A step of Send changes, of what the invariant speaks of, at most its own
\* progress and the faults.
LEMMA SendFrame ==
  ASSUME faults \in 0..MaxFaults, SendBegins \/ Send \/ Mine \/ Evict
  PROVE  faults' \in 0..MaxFaults
  BY FaultBound DEF SendBegins, Send, Prepare, NextNonce, NonceAtFails, Sign, SendTransaction,
                    SendTransactionFails, Mine, Evict

\* A step of requests and goroutines keeps the types when its own do.
LEMMA RunningTypes ==
  ASSUME AppTypeOK, Running, faults' = faults,
         worker' \in {"off", "idle", "busy"}, watcher' \in {"off", "idle", "busy"},
         handling' \in BOOLEAN
  PROVE  AppTypeOK'
BY Zenon DEF AppTypeOK, Running, held, dialled, stops

\* So does a step of Close.
LEMMA StoppingTypes ==
  ASSUME AppTypeOK, Stopping, phase' \in Phases, store' \in BOOLEAN, open' \subseteq 1..Candidates,
         cancelled' \in BOOLEAN, expired' \in BOOLEAN, cut' \in BOOLEAN
  PROVE  AppTypeOK'
BY Zenon DEF AppTypeOK, Stopping, dialled, tasks, senderVars

\* Requests, the worker and the watcher keep within what the faucet holds.
LEMMA BackgroundInv ==
  ASSUME AppInv, Background
  PROVE  AppInv'
<1> USE DEF Running, tasks, stops, dialled, held, senderVars, sender, AppInv, Quiet, Bare, Wired
<1>1. CASE HandlerBegins \/ HandlerEnds
  <2>1. AppTypeOK'
    <3>1. /\ Running /\ faults' = faults
          /\ worker' \in {"off", "idle", "busy"} /\ watcher' \in {"off", "idle", "busy"}
          /\ handling' \in BOOLEAN
      BY <1>1, Zenon DEF HandlerBegins, HandlerEnds, AppTypeOK
    <3> QED BY <3>1, RunningTypes, Zenon
  <2>2. StartInv'
    BY <1>1, Zenon DEF HandlerBegins, HandlerEnds, StartInv, StopInv
  <2>3. StopInv'
    BY <1>1, Zenon DEF HandlerBegins, HandlerEnds, StartInv, StopInv
  <2> QED BY <2>1, <2>2, <2>3, Zenon
<1>2. CASE BatchBegins \/ BatchEnds
  <2>1. AppTypeOK'
    <3>1. /\ Running /\ faults' = faults
          /\ worker' \in {"off", "idle", "busy"} /\ watcher' \in {"off", "idle", "busy"}
          /\ handling' \in BOOLEAN
      BY <1>2, Zenon DEF BatchBegins, BatchEnds, AppTypeOK
    <3> QED BY <3>1, RunningTypes, Zenon
  <2>2. StartInv'
    BY <1>2, Zenon DEF BatchBegins, BatchEnds, StartInv, StopInv
  <2>3. StopInv'
    BY <1>2, Zenon DEF BatchBegins, BatchEnds, StartInv, StopInv
  <2> QED BY <2>1, <2>2, <2>3, Zenon
<1>3. CASE WatchBegins \/ WatchEnds
  <2>1. AppTypeOK'
    <3>1. /\ Running /\ faults' = faults
          /\ worker' \in {"off", "idle", "busy"} /\ watcher' \in {"off", "idle", "busy"}
          /\ handling' \in BOOLEAN
      BY <1>3, Zenon DEF WatchBegins, WatchEnds, AppTypeOK
    <3> QED BY <3>1, RunningTypes, Zenon
  <2>2. StartInv'
    BY <1>3, Zenon DEF WatchBegins, WatchEnds, StartInv, StopInv
  <2>3. StopInv'
    BY <1>3, Zenon DEF WatchBegins, WatchEnds, StartInv, StopInv
  <2> QED BY <2>1, <2>2, <2>3, Zenon
<1>4. CASE RunReturns
  BY <1>4 DEF RunReturns, AppTypeOK, Phases, StartInv, StopInv
<1>5. CASE ClaimTaken \/ ClaimSent \/ ClaimCancelled
  <2>1. faults' \in 0..MaxFaults
    BY <1>5, SendFrame
    DEF ClaimTaken, ClaimSent, ClaimCancelled, SendInterrupted, NextNonce, AppTypeOK
  <2>2. /\ worker = "busy" /\ UNCHANGED tasks
        /\ UNCHANGED <<phase, cfg, held, dialled, stops, schema, starts>>
    BY <1>5 DEF ClaimTaken, ClaimSent, ClaimCancelled
  <2>3. ~cfg.dry
    BY <1>5 DEF ClaimTaken, ClaimSent, ClaimCancelled, StopInv, Send, Prepare, NextNonce,
                NonceAtFails, Sign, SendTransaction, SendTransactionFails
  <2> QED BY <2>1, <2>2, <2>3 DEF AppTypeOK, StartInv, StopInv
<1> QED BY <1>1, <1>2, <1>3, <1>4, <1>5 DEF Background

\* The end of a process leaves nothing.
LEMMA GoneInv ==
  ASSUME AppInv, Gone, faults' \in 0..MaxFaults
  PROVE  AppInv'
<1> USE DEF Gone, Forget, AppInv
<1>1. AppTypeOK'
  <2>1. cand' \in 1..Candidates
    BY AppAssumption
  <2> QED BY <2>1, Zenon DEF AppTypeOK, Phases
<1>2. StartInv'
  BY DEF StartInv, Quiet, Bare
<1>3. StopInv'
  BY DEF StopInv
<1> QED BY <1>1, <1>2, <1>3

\* main starts the process and stops it; the wait for the goroutines, or its
\* deadline, comes before the first close function.
LEMMA MainInv ==
  ASSUME AppInv, Boot \/ Signal \/ ListenFails \/ Expire \/ Main \/ Crash
  PROVE  AppInv'
<1> USE DEF Stopping, CloseBegins, tasks, stops, dialled, held, senderVars, sender, AppInv,
            Quiet, Bare, Wired
<1>1. CASE Boot
  <2>1. starts' \in 0..MaxStarts
    BY <1>1, AppAssumption DEF Boot, AppTypeOK
  <2> QED BY <1>1, <2>1 DEF Boot, AppTypeOK, Phases, StartInv, StopInv
<1>2. CASE Signal
  BY <1>2 DEF Signal, AppTypeOK, Phases, StartInv, StopInv
<1>3. CASE ListenFails \/ Shutdown
  <2>1. AppTypeOK'
    <3>1. /\ Stopping /\ phase' \in Phases /\ store' \in BOOLEAN /\ open' \subseteq 1..Candidates
          /\ cancelled' \in BOOLEAN /\ expired' \in BOOLEAN /\ cut' \in BOOLEAN
      BY <1>3, Zenon DEF ListenFails, Shutdown, AppTypeOK, Phases
    <3> QED BY <3>1, StoppingTypes, Zenon
  <2>2. StartInv'
    BY <1>3, Zenon DEF ListenFails, Shutdown, StartInv, StopInv
  <2>3. StopInv'
    BY <1>3, Zenon DEF ListenFails, Shutdown, StartInv, StopInv
  <2> QED BY <2>1, <2>2, <2>3, Zenon
<1>4. CASE AwaitTasks
  <2>1. AppTypeOK'
    <3>1. /\ Stopping /\ phase' \in Phases /\ store' \in BOOLEAN /\ open' \subseteq 1..Candidates
          /\ cancelled' \in BOOLEAN /\ expired' \in BOOLEAN /\ cut' \in BOOLEAN
      BY <1>4, Zenon DEF AwaitTasks, AppTypeOK, Phases
    <3> QED BY <3>1, StoppingTypes, Zenon
  <2>2. StartInv'
    BY <1>4, Zenon DEF AwaitTasks, StartInv, StopInv
  <2>3. StopInv'
    BY <1>4, Zenon DEF AwaitTasks, StartInv, StopInv
  <2> QED BY <2>1, <2>2, <2>3, Zenon
<1>5. CASE Expire
  BY <1>5 DEF Expire, AppTypeOK, Phases, StartInv, StopInv
<1>6. CASE Release
  <2>1. AppTypeOK'
    <3>1. /\ Stopping /\ phase' \in Phases /\ store' \in BOOLEAN /\ open' \subseteq 1..Candidates
          /\ cancelled' \in BOOLEAN /\ expired' \in BOOLEAN /\ cut' \in BOOLEAN
      BY <1>6, Zenon DEF Release, AppTypeOK, Phases
    <3> QED BY <3>1, StoppingTypes, Zenon
  <2>2. StartInv'
    BY <1>6, Zenon DEF Release, StartInv, StopInv
  <2>3. StopInv'
    BY <1>6, Zenon DEF Release, AppTypeOK, StartInv, StopInv
  <2> QED BY <2>1, <2>2, <2>3, Zenon
<1>7. CASE Exit \/ Crash
  BY <1>7, GoneInv, FaultBound DEF Exit, Crash, AppTypeOK
<1> QED BY <1>1, <1>2, <1>3, <1>4, <1>5, <1>6, <1>7 DEF Main

\* AppInv is an invariant of the process.
LEMMA AppInvariant == Spec => []AppInv
<1>1. AppInv /\ [Next]_vars => AppInv'
  <2> SUFFICES ASSUME AppInv, [Next]_vars PROVE AppInv'
    OBVIOUS
  <2>1. CASE NewWithLogger
    BY <2>1, StartingInv
  <2>2. CASE Background
    BY <2>2, BackgroundInv
  <2>3. CASE Boot \/ Signal \/ ListenFails \/ Expire \/ Main \/ Crash
    BY <2>3, MainInv
  <2>4. CASE Chain
    <3>1. faults' \in 0..MaxFaults
      BY <2>4, SendFrame DEF Chain, AppInv, AppTypeOK
    <3>2. wpc' = wpc
      BY <2>4 DEF Chain, Mine, Evict, sender
    <3> QED BY <2>4, <3>1, <3>2 DEF Chain, tasks, stops, dialled, held, AppInv, AppTypeOK,
                                    StartInv, StopInv, Quiet, Bare, Wired
  <2>5. CASE UNCHANGED vars
    <3> USE <2>5 DEF vars, tasks, stops, dialled, held, senderVars, sender, AppInv
    <3>1. AppTypeOK'
      BY Zenon DEF AppTypeOK
    <3>2. StartInv' /\ StopInv'
      BY Zenon DEF StartInv, StopInv, Quiet, Bare, Wired
    <3> QED BY <3>1, <3>2
  <2> QED BY <2>1, <2>2, <2>3, <2>4, <2>5 DEF Next
<1> QED BY <1>1, AppInit, PTL DEF Spec

-----------------------------------------------------------------------------
\* The nonces, in a process that may be stopped at any point of Send.

\* Send under a cancelled context goes on as Send does, or gives up.
LEMMA CancelledInv ==
  ASSUME NonceInv, ClaimCancelled
  PROVE  NonceInv'
<1>1. CASE /\ wpc = "prepare" \/ (wpc = "nonce" /\ ~seeded)
           /\ wpc' = "idle"
           /\ UNCHANGED <<hand, seeded, next, node, sent, fate, exposed, lost, faults>>
  BY <1>1, BeforeNonce DEF InHand
<1>2. CASE seeded /\ NextNonce
  BY <1>2, NextNonceInv
<1>3. CASE wpc \in {"sign", "broadcast"} /\ NotPooled /\ SendInterrupted
  BY <1>3, NotPooledInv DEF SendInterrupted, InHand
<1>4. CASE wpc = "broadcast" /\ Pooled /\ SendInterrupted
  BY <1>4, PooledInv, Zenon DEF SendInterrupted, Reset
<1> QED BY <1>1, <1>2, <1>3, <1>4 DEF ClaimCancelled

\* A step that is not one of Send, of the node or of the end of the process
\* leaves the sender alone.
LEMMA SenderIdle ==
  ASSUME \/ NewWithLogger \/ HandlerBegins \/ HandlerEnds \/ BatchBegins \/ BatchEnds
         \/ WatchBegins \/ WatchEnds \/ RunReturns
         \/ Boot \/ Signal \/ ListenFails \/ Expire \/ Shutdown \/ AwaitTasks \/ Release
         \/ UNCHANGED vars
  PROVE  UNCHANGED <<sender, node, sent, fate, exposed, lost>>
<1> USE DEF senderVars
<1>1. CASE NewWithLogger
  BY <1>1, Zenon
  DEF NewWithLogger, openStore, applyMigration, PruneSignals, NewClient, NextCandidate,
              ValidateChainID, NewSigner, newCaptchaVerifier, Refuse, Starting
<1>2. CASE \/ HandlerBegins \/ HandlerEnds \/ BatchBegins \/ BatchEnds
           \/ WatchBegins \/ WatchEnds \/ RunReturns
  BY <1>2 DEF HandlerBegins, HandlerEnds, BatchBegins, BatchEnds, WatchBegins, WatchEnds,
              RunReturns
<1>3. CASE Boot \/ Signal \/ ListenFails \/ Expire \/ Shutdown \/ AwaitTasks \/ Release
  BY <1>3, Zenon DEF Boot, Signal, ListenFails, Expire, Shutdown, AwaitTasks, Release, Stopping
<1>4. CASE UNCHANGED vars
  BY <1>4 DEF vars
<1> QED BY <1>1, <1>2, <1>3, <1>4

\* NonceInv is an invariant of the whole process.
LEMMA AppNonces == Spec => []NonceInv
<1>1. NonceInv /\ [Next]_vars => NonceInv'
  <2> SUFFICES ASSUME NonceInv, [Next]_vars PROVE NonceInv'
    OBVIOUS
  <2>1. CASE UNCHANGED <<sender, node, sent, fate, exposed, lost>>
    BY <2>1, NonceUnchanged
  <2>2. CASE ClaimTaken \/ ClaimSent
    BY <2>2, SendInv DEF ClaimTaken, ClaimSent
  <2>3. CASE ClaimCancelled
    BY <2>3, CancelledInv
  <2>4. CASE Chain
    BY <2>4, NodeInv DEF Chain
  <2>5. CASE Exit \/ Crash
    BY <2>5, ForgetInv DEF Exit, Crash, Gone
  <2> QED BY <2>1, <2>2, <2>3, <2>4, <2>5, SenderIdle DEF Next, Background, Main
<1>2. Init => NonceInv
  BY NonceInit DEF Init
<1> QED BY <1>1, <1>2, PTL DEF Spec

-----------------------------------------------------------------------------
\* The theorems.

\* Every variable keeps its type, the schema's version and the broadcasts
\* within their bounds, through any number of starts, stops and crashes.
THEOREM AppTypes == Spec => []TypeOK
<1>1. AppInv /\ NonceInv => TypeOK
  BY DEF AppInv, NonceInv, AppTypeOK, NonceTypeOK, TypeOK, SenderTypeOK
<1> QED BY <1>1, AppInvariant, AppNonces, PTL

\* NewWithLogger lets the faucet serve, and Send pay, only with the whole schema
\* and with one client on the configured chain, whatever candidates failed and
\* whenever an earlier process was stopped.
THEOREM AppServes == Spec => []ServesWhatItValidated
<1>1. AppInv => ServesWhatItValidated
  BY DEF AppInv, StartInv, StopInv, Wired, ServesWhatItValidated
<1> QED BY <1>1, AppInvariant, PTL

\* App.close takes neither the database nor the client from the worker or the
\* watcher, wherever in a batch the stop finds them; nor the database from a
\* request that Shutdown has waited for.
THEOREM AppCloses == Spec => []NoUseAfterClose
<1>1. AppInv => NoUseAfterClose
  <2> SUFFICES ASSUME AppInv PROVE NoUseAfterClose
    OBVIOUS
  <2>1. worker = "busy" \/ watcher = "busy" => store /\ (cfg.dry \/ open # {})
    BY DEF AppInv, StopInv, Wired
  <2>2. handling /\ ~cut => store
    BY DEF AppInv, AppTypeOK, Phases, StartInv, StopInv, Wired, Quiet
  <2> QED BY <2>1, <2>2 DEF NoUseAfterClose
<1> QED BY <1>1, AppInvariant, PTL

\* A refused start and a Close in time leave nothing behind.
THEOREM AppLeavesNothing == Spec => []NothingLeftOpen
<1>1. AppInv => NothingLeftOpen
  BY DEF AppInv, AppTypeOK, StartInv, StopInv, Bare, Quiet, NothingLeftOpen
<1> QED BY <1>1, AppInvariant, PTL

\* A payment of the faucet replaces another only if that one was pending when
\* the nonce manager was seeded, through any failures of Send and any stops.
THEOREM AppReplaces == Spec => []ReplacedOnlyAfterReseed
<1>1. NonceInv => ReplacedOnlyAfterReseed
  BY DEF NonceInv
<1> QED BY <1>1, AppNonces, PTL

\* Every nonce that holds up a pending payment went to a transaction that could
\* not be signed or that the node evicted.
THEOREM AppGaps == Spec => []GapsExplained
BY NonceInvGaps, AppNonces, PTL

=============================================================================
