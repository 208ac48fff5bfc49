---------------------------- MODULE FaucetSender ----------------------------
(***************************************************************************)
(* EthSender.Send and its NonceManager against a node: the one wallet of   *)
(* the faucet, the transaction pool and the account's nonce on chain.  The *)
(* worker is the only caller, so one Send is under way at a time, but the  *)
(* chain moves between its calls, any call may fail, and an error of       *)
(* SendTransaction does not tell whether the node has the transaction.     *)
(***************************************************************************)
EXTENDS Naturals

CONSTANTS
    MaxTx,       \* bound: broadcasts
    MaxFaults    \* bound: failed calls, evictions and, in FaucetApp, stops

ASSUME SenderBoundsAssumption == MaxTx \in Nat /\ MaxFaults \in Nat

VARIABLES
    \* Send: its next call, and the nonce in hand
    wpc, hand,
    \* NonceManager
    seeded, next,
    \* the node: nonces used on chain, and the pool
    mined, pool,
    \* broadcasts made, and what became of each
    sent, fate,
    \* history: transactions in the pool when NonceAt was asked; nonces given
    \* to a transaction that was never signed, or evicted with theirs
    exposed, lost,
    faults

sender == <<wpc, hand, seeded, next>>
node == <<mined, pool>>
senderVars == <<sender, node, sent, fate, exposed, lost, faults>>

Tx == 1 .. MaxTx

Fault == faults < MaxFaults /\ faults' = faults + 1

SenderInit ==
    /\ wpc = "idle" /\ hand = 0
    /\ seeded = FALSE /\ next = 0
    /\ mined = 0 /\ pool = {}
    /\ sent = 0 /\ fate = [t \in Tx |-> "none"]
    /\ exposed = {} /\ lost = {} /\ faults = 0

-----------------------------------------------------------------------------
\* Send.

\* The worker hands a claim to Send.
SendBegins ==
    /\ wpc = "idle" /\ sent < MaxTx
    /\ wpc' = "prepare"
    /\ UNCHANGED <<hand, seeded, next, node, sent, fate, exposed, lost, faults>>

\* SuggestGasPrice, the token's address, BalanceAt and the balance guard.
Prepare ==
    /\ wpc = "prepare"
    /\ \/ wpc' = "nonce" /\ UNCHANGED faults
       \/ wpc' = "idle" /\ Fault
    /\ UNCHANGED <<hand, seeded, next, node, sent, fate, exposed, lost>>

\* Mutant: the counter is not advanced.
MutNextNonce ==
    /\ wpc = "nonce"
    /\ hand' = IF seeded THEN next ELSE mined
    /\ next' = hand'
    /\ seeded' = TRUE
    /\ exposed' = IF seeded THEN exposed ELSE exposed \cup {p.tx : p \in pool}
    /\ wpc' = "sign"
    /\ UNCHANGED <<node, sent, fate, lost, faults>>

\* NonceManager.Next.  NonceAt(nil) is the nonce after the mined transactions;
\* the ones still in the pool are not counted.
NextNonce ==
    /\ wpc = "nonce"
    /\ hand' = IF seeded THEN next ELSE mined
    /\ next' = hand' + 1
    /\ seeded' = TRUE
    /\ exposed' = IF seeded THEN exposed ELSE exposed \cup {p.tx : p \in pool}
    /\ wpc' = "sign"
    /\ UNCHANGED <<node, sent, fate, lost, faults>>

\* NonceAt fails: nothing is given.
NonceAtFails ==
    /\ wpc = "nonce" /\ ~seeded /\ Fault
    /\ wpc' = "idle"
    /\ UNCHANGED <<hand, seeded, next, node, sent, fate, exposed, lost>>

\* Signing: an error returns without Reset, and the nonce in hand is gone.
Sign ==
    /\ wpc = "sign"
    /\ \/ wpc' = "broadcast" /\ UNCHANGED <<lost, faults>>
       \/ wpc' = "idle" /\ lost' = lost \cup {hand} /\ Fault
    /\ UNCHANGED <<hand, seeded, next, node, sent, fate, exposed>>

\* Pending transactions with the nonce in hand.
Rivals == {p \in pool : p.nonce = hand}

\* The node takes the transaction: a rival with a lower gas price is replaced.
Pooled ==
    /\ hand >= mined
    /\ pool' = (pool \ Rivals) \cup {[nonce |-> hand, tx |-> sent + 1]}
    /\ fate' = [t \in Tx |-> IF t = sent + 1 THEN "pending"
                             ELSE IF \E p \in Rivals : p.tx = t THEN "replaced" ELSE fate[t]]

\* The node does not: nonce too low, replacement underpriced, or it never got it.
NotPooled ==
    /\ fate' = [fate EXCEPT ![sent + 1] = "refused"]
    /\ UNCHANGED pool

\* NonceManager.Reset.
Reset == seeded' = FALSE

\* SendTransaction returns nil.
SendTransaction ==
    /\ wpc = "broadcast"
    /\ Pooled
    /\ sent' = sent + 1 /\ wpc' = "idle"
    /\ UNCHANGED <<hand, seeded, next, mined, exposed, lost, faults>>

\* Mutant: the nonce manager is not reset.
MutSendTransactionFails ==
    /\ wpc = "broadcast"
    /\ NotPooled
    /\ sent' = sent + 1 /\ wpc' = "idle"
    /\ Fault
    /\ UNCHANGED <<hand, seeded, next, mined, exposed, lost>>

\* SendTransaction returns an error: a refusal, which needs a mined or pending
\* transaction with this nonce, or another error (a full pool, a broken connection)
\* after which the node may have the transaction all the same.
SendTransactionFails ==
    /\ wpc = "broadcast"
    /\ \/ (hand < mined \/ Rivals # {}) /\ NotPooled /\ UNCHANGED faults
       \/ (Pooled \/ NotPooled) /\ Fault
    /\ Reset
    /\ sent' = sent + 1 /\ wpc' = "idle"
    /\ UNCHANGED <<hand, next, mined, exposed, lost>>

Send ==
    \/ Prepare \/ NextNonce \/ NonceAtFails \/ Sign \/ SendTransaction \/ SendTransactionFails

-----------------------------------------------------------------------------
\* The node.

\* Transactions are mined in the order of their nonces.
Mine ==
    \E p \in pool :
        /\ p.nonce = mined
        /\ mined' = mined + 1
        /\ pool' = pool \ {p}
        /\ fate' = [fate EXCEPT ![p.tx] = "mined"]
        /\ UNCHANGED <<sender, sent, exposed, lost, faults>>

\* The node evicts a transaction.
Evict ==
    /\ Fault
    /\ \E p \in pool :
        /\ pool' = pool \ {p}
        /\ fate' = [fate EXCEPT ![p.tx] = "evicted"]
        /\ lost' = lost \cup {p.nonce}
    /\ UNCHANGED <<sender, mined, sent, exposed>>

\* The process is replaced by a new one: the counter is gone.
Forget ==
    /\ wpc' = "idle" /\ hand' = 0 /\ seeded' = FALSE /\ next' = 0
    /\ UNCHANGED <<node, sent, fate, exposed, lost>>

SenderNext == SendBegins \/ Send \/ Mine \/ Evict \/ (Fault /\ Forget)

SenderSpec == SenderInit /\ [][SenderNext]_senderVars

-----------------------------------------------------------------------------
\* Properties.

Fates == {"none", "pending", "mined", "replaced", "refused", "evicted"}

\* Every variable has its type.
SenderTypeOK ==
    /\ wpc \in {"idle", "prepare", "nonce", "sign", "broadcast"}
    /\ hand \in Nat /\ next \in Nat /\ mined \in Nat /\ seeded \in BOOLEAN
    /\ pool \subseteq [nonce : Nat, tx : Tx]
    /\ sent \in 0..MaxTx /\ fate \in [Tx -> Fates]
    /\ exposed \subseteq Tx /\ lost \subseteq Nat
    /\ faults \in 0..MaxFaults

\* A payment that the node has accepted is replaced by another of the faucet's
\* own only if it was still pending when the nonce manager asked the node again,
\* after a failed send or a restart: between two seedings no nonce is given
\* twice.
ReplacedOnlyAfterReseed ==
    \A t \in Tx : fate[t] = "replaced" => t \in exposed

\* A pending payment waits behind a nonce that no transaction has only if that
\* nonce went to a transaction that could not be signed or that the node
\* evicted: a failed send, or a restart between Next and SendTransaction, leaves
\* no gap.
GapsExplained ==
    \A p \in pool : \A m \in mined .. p.nonce :
        m \in lost \/ \E q \in pool : q.nonce = m

\* "Nonce manager robusto: evita nonces duplicados": no accepted payment is
\* replaced by another one with its nonce.
NoncesNotDuplicated ==
    \A t \in Tx : fate[t] # "replaced"

=============================================================================
