-------------------------- MODULE PayoutWatcherProofs --------------------------
(***************************************************************************)
(* Proofs about what the watcher sees and shows: a confirmed claim is      *)
(* settled on chain, a sent one has a row that the watcher finds, and the  *)
(* pipeline implements PayoutPromise.                                      *)
(***************************************************************************)
EXTENDS PayoutPipelineProofs

\* ConfirmedIsSettled made inductive: the watcher's snapshot names recorded
\* transactions only, its block number is not ahead of the chain, and a hash that
\* was never broadcast is not on the chain, so that no later Send disturbs one
\* that is.
SnapshotInv ==
    /\ \A t \in listed : rows[t] # "none"
    /\ seenBlock <= height
    /\ \A c \in Claims, k \in 1 .. MaxTx : k > broadcast[c] => chain[<<c, k>>] = "none"

\* What no step undoes: a row, a successful receipt, its block, the height.
Kept ==
    /\ \A t \in Tx : rows[t] # "none" => rows'[t] # "none"
    /\ \A t \in Tx : chain[t] = "success" => chain'[t] = "success" /\ minedAt'[t] = minedAt[t]
    /\ height' >= height

\* Only the watcher makes a claim confirmed.
WatcherConfirms ==
    \A c \in Claims : status'[c] = "confirmed" =>
        status[c] = "confirmed" \/ \E t \in Tx : t[1] = c /\ ReceiptConfirmed(t)

SettledStepFacts == SnapshotInv' /\ Kept /\ WatcherConfirms

\* Broadcasting touches a dropped hash or a new one, never one that was mined.
LEMMA BroadcastKeeps ==
  ASSUME TypeOK, SnapshotInv, NEW c \in Claims, NEW k \in 1 .. MaxTx, Broadcast(c, k)
  PROVE  /\ \A t \in Tx : chain[t] = "success" => chain'[t] = "success"
         /\ \A d \in Claims, j \in 1 .. MaxTx : j > broadcast'[d] => chain'[<<d, j>>] = "none"
<1> USE BoundsAssumption
<1>1. /\ <<c, k>> \in Tx
      /\ chain' = [chain EXCEPT ![<<c, k>>] = "pool"]
      /\ chain \in [Tx -> TxState]
      /\ broadcast \in [Claims -> Nat]
  BY Zenon DEF Broadcast, Tx, TypeOK
<1>2. chain[<<c, k>>] # "success" /\ k <= broadcast'[c]
  BY <1>1 DEF Broadcast, SnapshotInv
<1>3. \A t \in Tx : t # <<c, k>> => chain'[t] = chain[t]
  BY <1>1, Zenon
<1>4. ASSUME NEW d \in Claims, NEW j \in 1 .. MaxTx, j > broadcast'[d]
      PROVE  chain'[<<d, j>>] = "none"
  <2>1. <<d, j>> \in Tx /\ <<d, j>> # <<c, k>>
    BY <1>1, <1>2, <1>4 DEF Tx, Broadcast
  <2>2. j > broadcast[d]
    BY <1>1, <1>4 DEF Broadcast
  <2> QED
    BY <1>3, <2>1, <2>2, Zenon DEF SnapshotInv
<1> QED
  BY <1>2, <1>3, <1>4, Zenon

\* What every action leaves alone on chain and in the watcher's snapshot, and that
\* only the watcher's ReceiptConfirmed shows a claim as confirmed.
LEMMA SettledFacts == TypeOK /\ SnapshotInv /\ [Next]_vars => SettledStepFacts
<1> SUFFICES ASSUME TypeOK, SnapshotInv, [Next]_vars PROVE SettledStepFacts
  BY Zenon
<1> USE DEF SetStatus, Fault, table, worker, watcher, network, history
<1>t. /\ status \in [Claims -> ClaimStatus] /\ rows \in [Tx -> RowStatus]
      /\ listed \subseteq Tx /\ seenBlock \in Nat /\ height \in Nat
      /\ chain \in [Tx -> TxState] /\ minedAt \in [Tx -> Nat]
  BY Zenon DEF TypeOK
<1>a. ASSUME UNCHANGED <<chain, minedAt, height, broadcast>>, listed' \subseteq listed,
             seenBlock' = seenBlock \/ seenBlock' = 0,
             \A t \in Tx : rows[t] # "none" => rows'[t] # "none", WatcherConfirms
      PROVE  SettledStepFacts
  <2>1. SnapshotInv'
    <3>1. \A t \in listed' : rows'[t] # "none"
      BY <1>t, <1>a, Zenon DEF SnapshotInv
    <3>2. seenBlock' <= height'
      BY <1>t, <1>a DEF SnapshotInv
    <3> QED
      BY <1>a, <3>1, <3>2, Zenon DEF SnapshotInv
  <2>2. Kept
    BY <1>t, <1>a DEF Kept
  <2> QED
    BY <1>a, <2>1, <2>2, Zenon DEF SettledStepFacts
<1>b. ASSUME UNCHANGED <<status, rows, chain, minedAt, height, broadcast>>, listed' \subseteq listed,
             seenBlock' = seenBlock \/ seenBlock' = 0
      PROVE  SettledStepFacts
  BY <1>a, <1>b, Zenon DEF WatcherConfirms
<1>c. ASSUME NEW c \in Claims, NEW x, x # "confirmed", status' = [status EXCEPT ![c] = x],
             UNCHANGED <<rows, chain, minedAt, height, broadcast, listed, seenBlock>>
      PROVE  SettledStepFacts
  <2>1. WatcherConfirms
    BY <1>t, <1>c, Zenon DEF WatcherConfirms
  <2> QED
    BY <1>a, <1>c, <2>1, Zenon
<1>d. ASSUME NEW c \in Claims, FailTransaction(c), UNCHANGED <<chain, minedAt, height, broadcast>>,
             listed' \subseteq listed, seenBlock' = seenBlock \/ seenBlock' = 0
      PROVE  SettledStepFacts
  <2>1. WatcherConfirms
    BY <1>t, <1>d, Zenon DEF WatcherConfirms, FailTransaction
  <2>2. \A t \in Tx : rows[t] # "none" => rows'[t] # "none"
    BY <1>d, Zenon DEF FailTransaction
  <2> QED
    BY <1>a, <1>d, <2>1, <2>2, Zenon
<1>1. ASSUME NEW c \in Claims, CreateClaim(c) PROVE SettledStepFacts
  BY <1>c, <1>1, Zenon DEF CreateClaim
<1>2. ASSUME NEW c \in Claims, Enqueue(c) PROVE SettledStepFacts
  BY <1>c, <1>2, Zenon DEF Enqueue
<1>3. ASSUME NEW c \in Claims, RejectIntake(c) PROVE SettledStepFacts
  BY <1>c, <1>3, Zenon DEF RejectIntake
<1>4. ASSUME NEW c \in Claims, AbandonIntake(c) PROVE SettledStepFacts
  BY <1>b, <1>4, Zenon DEF AbandonIntake
<1>5. ASSUME NEW c \in Claims, AdminRetryClaim(c) PROVE SettledStepFacts
  BY <1>c, <1>5, Zenon DEF AdminRetryClaim
<1>6. ASSUME NEW c \in Claims, AdminCancelClaim(c) PROVE SettledStepFacts
  BY <1>c, <1>6, Zenon DEF AdminCancelClaim
<1>7. ASSUME NEW c \in Claims, BackoffEnds(c) PROVE SettledStepFacts
  BY <1>b, <1>7, Zenon DEF BackoffEnds
<1>8. ASSUME NEW c \in Claims, StuckTimeout(c) PROVE SettledStepFacts
  BY <1>b, <1>8, Zenon DEF StuckTimeout
<1>9. CASE DequeueBatch
  <2>1. PICK B \in SUBSET Ready :
          status' = [c \in Claims |-> IF c \in B THEN "sending" ELSE status[c]]
    BY <1>9, Zenon DEF DequeueBatch
  <2>2. WatcherConfirms
    BY <2>1, Zenon DEF WatcherConfirms
  <2>3. UNCHANGED <<rows, chain, minedAt, height, broadcast, listed, seenBlock>>
    BY <1>9, Zenon DEF DequeueBatch
  <2> QED
    BY <1>a, <2>2, <2>3, Zenon
<1>10. ASSUME NEW c \in Claims, NEW k \in 1 .. MaxTx, SendOK(c, k) PROVE SettledStepFacts
  <2>1. Broadcast(c, k)
    BY <1>10, Zenon DEF SendOK
  <2>2. /\ \A t \in Tx : chain[t] = "success" => chain'[t] = "success"
        /\ \A d \in Claims, j \in 1 .. MaxTx : j > broadcast'[d] => chain'[<<d, j>>] = "none"
    BY <2>1, BroadcastKeeps, Zenon
  <2>3. UNCHANGED <<status, rows, listed, seenBlock, minedAt, height>>
    BY <1>10, Zenon DEF SendOK, Broadcast
  <2>4. SnapshotInv'
    BY <2>2, <2>3, Zenon DEF SnapshotInv
  <2>5. Kept
    BY <1>t, <2>2, <2>3 DEF Kept
  <2>6. WatcherConfirms
    BY <2>3, Zenon DEF WatcherConfirms
  <2> QED
    BY <2>4, <2>5, <2>6, Zenon DEF SettledStepFacts
<1>11. ASSUME NEW c \in Claims, SendError(c) PROVE SettledStepFacts
  BY <1>b, <1>11, Zenon DEF SendError
<1>12. ASSUME NEW c \in Claims, NEW k \in 1 .. MaxTx, SendAmbiguous(c, k) PROVE SettledStepFacts
  <2>1. Broadcast(c, k)
    BY <1>12, Zenon DEF SendAmbiguous
  <2>2. /\ \A t \in Tx : chain[t] = "success" => chain'[t] = "success"
        /\ \A d \in Claims, j \in 1 .. MaxTx : j > broadcast'[d] => chain'[<<d, j>>] = "none"
    BY <2>1, BroadcastKeeps, Zenon
  <2>3. UNCHANGED <<status, rows, listed, seenBlock, minedAt, height>>
    BY <1>12, Zenon DEF SendAmbiguous, Broadcast
  <2>4. SnapshotInv'
    BY <2>2, <2>3, Zenon DEF SnapshotInv
  <2>5. Kept
    BY <1>t, <2>2, <2>3 DEF Kept
  <2>6. WatcherConfirms
    BY <2>3, Zenon DEF WatcherConfirms
  <2> QED
    BY <2>4, <2>5, <2>6, Zenon DEF SettledStepFacts
<1>13. CASE Ack
  <2>1. UNCHANGED <<chain, minedAt, height, broadcast, listed, seenBlock>>
    BY <1>13, Zenon DEF Ack
  <2>2. CASE UNCHANGED <<status, rows>>
    BY <1>b, <2>1, <2>2, Zenon
  <2>3. CASE /\ SetStatus(wclaim, "sent")
             /\ rows' = [rows EXCEPT ![<<wclaim, wtx>>] = "sent"]
    <3>1. WatcherConfirms
      BY <1>t, <2>3, Zenon DEF WatcherConfirms
    <3>2. \A t \in Tx : rows[t] # "none" => rows'[t] # "none"
      BY <1>t, <2>3, Zenon
    <3> QED
      BY <1>a, <2>1, <3>1, <3>2, Zenon
  <2> QED
    BY <1>13, <2>2, <2>3, Zenon DEF Ack
<1>14. CASE FailSelect
  BY <1>b, <1>14, Zenon DEF FailSelect
<1>15. CASE FailUpdate
  <2>1. UNCHANGED <<rows, chain, minedAt, height, broadcast, listed, seenBlock>>
    BY <1>15, Zenon DEF FailUpdate
  <2>2. WatcherConfirms
    BY <1>t, <1>15, Zenon DEF FailUpdate, WatcherConfirms
  <2> QED
    BY <1>a, <2>1, <2>2, Zenon
<1>16. CASE SettleError
  BY <1>b, <1>16, Zenon DEF SettleError
<1>17. CASE ListPendingTransactions
  <2>1. UNCHANGED <<status, rows, chain, minedAt, height, broadcast, seenBlock>>
    BY <1>17, Zenon DEF ListPendingTransactions
  <2>2. \A t \in listed' : rows[t] # "none"
    BY <1>17, Zenon DEF ListPendingTransactions, Page, Pending
  <2>3. SnapshotInv'
    BY <2>1, <2>2, Zenon DEF SnapshotInv
  <2>4. Kept /\ WatcherConfirms
    BY <1>t, <2>1 DEF Kept, WatcherConfirms
  <2> QED
    BY <2>3, <2>4, Zenon DEF SettledStepFacts
<1>18. CASE BlockNumber
  <2>1. UNCHANGED <<status, rows, chain, minedAt, height, broadcast, listed>> /\ seenBlock' <= height
    BY <1>t, <1>18 DEF BlockNumber
  <2>2. SnapshotInv'
    BY <2>1, Zenon DEF SnapshotInv
  <2>3. Kept /\ WatcherConfirms
    BY <1>t, <2>1 DEF Kept, WatcherConfirms
  <2> QED
    BY <2>2, <2>3, Zenon DEF SettledStepFacts
<1>19. CASE ListStuckSending
  BY <1>b, <1>19, Zenon DEF ListStuckSending
<1>20. CASE ListError
  BY <1>b, <1>20, Zenon DEF ListError
<1>21. ASSUME NEW t \in Tx, ReceiptReverted(t) PROVE SettledStepFacts
  <2>1. t[1] \in Claims
    BY Zenon DEF Tx
  <2> QED
    BY <1>d, <1>21, <2>1, Zenon DEF ReceiptReverted, NextReceipt
<1>22. ASSUME NEW t \in Tx, ReceiptConfirmed(t) PROVE SettledStepFacts
  <2>1. /\ UNCHANGED <<chain, minedAt, height, broadcast>> /\ listed' \subseteq listed
        /\ seenBlock' = seenBlock \/ seenBlock' = 0
        /\ ConfirmTransaction(t[1])
    BY <1>22, Zenon DEF ReceiptConfirmed, NextReceipt
  <2>2. \A u \in Tx : rows[u] # "none" => rows'[u] # "none"
    BY <2>1, Zenon DEF ConfirmTransaction
  <2>3. \A c \in Claims : c # t[1] => status'[c] = status[c]
    BY <1>t, <2>1, Zenon DEF ConfirmTransaction
  <2>4. WatcherConfirms
    BY <1>22, <2>3, Zenon DEF WatcherConfirms
  <2> QED
    BY <1>a, <2>1, <2>2, <2>4, Zenon
<1>23. ASSUME NEW t \in Tx, ReceiptSkipped(t) PROVE SettledStepFacts
  BY <1>b, <1>23, Zenon DEF ReceiptSkipped, NextReceipt
<1>24. ASSUME NEW t \in Tx, ReceiptError(t) PROVE SettledStepFacts
  BY <1>b, <1>24, Zenon DEF ReceiptError, NextReceipt
<1>25. ASSUME NEW c \in Claims, ReconcileStuck(c) PROVE SettledStepFacts
  BY <1>d, <1>25, Zenon DEF ReconcileStuck, NextStuck
<1>26. ASSUME NEW c \in Claims, ReconcileError(c) PROVE SettledStepFacts
  BY <1>b, <1>26, Zenon DEF ReconcileError, NextStuck
<1>27. ASSUME NEW t \in Tx, Mine(t) PROVE SettledStepFacts
  <2>1. UNCHANGED <<status, rows, listed, seenBlock, broadcast>> /\ height' = height + 1
    BY <1>27, Zenon DEF Mine
  <2>2. /\ chain[t] = "pool"
        /\ \A u \in Tx : u # t => chain'[u] = chain[u] /\ minedAt'[u] = minedAt[u]
    BY <1>t, <1>27, Zenon DEF Mine
  <2>3. Kept
    <3>1. \A u \in Tx : chain[u] = "success" => chain'[u] = "success" /\ minedAt'[u] = minedAt[u]
      BY <2>2, Zenon
    <3>2. height' >= height
      BY <1>t, <2>1
    <3> QED
      BY <2>1, <3>1, <3>2, Zenon DEF Kept
  <2>4. ASSUME NEW c \in Claims, NEW k \in 1 .. MaxTx, k > broadcast[c]
        PROVE  chain'[<<c, k>>] = "none"
    <3>1. <<c, k>> \in Tx /\ chain[<<c, k>>] = "none"
      BY <2>4, Zenon DEF SnapshotInv, Tx
    <3> QED
      BY <2>2, <3>1, Zenon
  <2>5. seenBlock' <= height'
    BY <1>t, <2>1 DEF SnapshotInv
  <2>6. SnapshotInv'
    BY <2>1, <2>4, <2>5, Zenon DEF SnapshotInv
  <2> QED
    BY <2>1, <2>3, <2>6, Zenon DEF SettledStepFacts, WatcherConfirms
<1>28. ASSUME NEW t \in Tx, Drop(t) PROVE SettledStepFacts
  <2>1. UNCHANGED <<status, rows, listed, seenBlock, minedAt, height, broadcast>>
    BY <1>28, Zenon DEF Drop
  <2>2. /\ chain[t] = "pool"
        /\ \A u \in Tx : u # t => chain'[u] = chain[u] /\ minedAt'[u] = minedAt[u]
    BY <1>t, <1>28, Zenon DEF Drop
  <2>3. Kept
    BY <1>t, <2>1, <2>2 DEF Kept
  <2>4. ASSUME NEW c \in Claims, NEW k \in 1 .. MaxTx, k > broadcast[c]
        PROVE  chain'[<<c, k>>] = "none"
    <3>1. <<c, k>> \in Tx /\ chain[<<c, k>>] = "none"
      BY <2>4, Zenon DEF SnapshotInv, Tx
    <3> QED
      BY <2>2, <3>1, Zenon
  <2>5. seenBlock' <= height'
    BY <1>t, <2>1, Zenon DEF SnapshotInv
  <2>6. SnapshotInv'
    BY <2>1, <2>4, <2>5, Zenon DEF SnapshotInv
  <2> QED
    BY <2>1, <2>3, <2>6, Zenon DEF SettledStepFacts, WatcherConfirms
<1>29. CASE EmptyBlock
  <2>1. /\ UNCHANGED <<status, rows, listed, seenBlock, chain, minedAt, broadcast>>
        /\ height' = height + 1
    BY <1>29, Zenon DEF EmptyBlock
  <2>2. seenBlock' <= height' /\ height' >= height
    BY <1>t, <2>1 DEF SnapshotInv
  <2>3. SnapshotInv'
    BY <2>1, <2>2, Zenon DEF SnapshotInv
  <2>4. Kept
    BY <2>1, <2>2, Zenon DEF Kept
  <2> QED
    BY <2>1, <2>3, <2>4, Zenon DEF SettledStepFacts, WatcherConfirms
<1>30. CASE Restart
  BY <1>b, <1>30, Zenon DEF Restart
<1>31. CASE UNCHANGED vars
  BY <1>b, <1>31, Zenon DEF vars
<1> QED
  BY <1>1, <1>2, <1>3, <1>4, <1>5, <1>6, <1>7, <1>8, <1>9, <1>10, <1>11, <1>12, <1>13, <1>14,
     <1>15, <1>16, <1>17, <1>18, <1>19, <1>20, <1>21, <1>22, <1>23, <1>24, <1>25, <1>26, <1>27,
     <1>28, <1>29, <1>30, <1>31, Zenon
     DEF Next, WorkerStep, WatcherStep

\* ConfirmedIsSettled is kept: a mined success stays mined, rows stay, the height
\* grows, and a new confirmation has just been checked by the watcher.
LEMMA SettledStep ==
  TypeOK /\ TypeOK' /\ SnapshotInv /\ ConfirmedIsSettled /\ [Next]_vars => ConfirmedIsSettled'
<1> SUFFICES ASSUME TypeOK, TypeOK', SnapshotInv, ConfirmedIsSettled, [Next]_vars,
                    NEW c \in Claims, status'[c] = "confirmed"
             PROVE  \E k \in 1 .. MaxTx :
                      /\ rows'[<<c, k>>] # "none"
                      /\ chain'[<<c, k>>] = "success"
                      /\ height' >= minedAt'[<<c, k>>] + MinConfirmations
  BY Zenon DEF ConfirmedIsSettled
<1> USE LimitsAssumption
<1>1. Kept /\ WatcherConfirms
  BY SettledFacts, Zenon DEF SettledStepFacts
<1>2. \A t \in Tx : minedAt[t] \in Nat /\ height \in Nat /\ height' \in Nat
  BY Zenon DEF TypeOK
<1>3. CASE status[c] = "confirmed"
  <2>1. PICK k \in 1 .. MaxTx :
          /\ rows[<<c, k>>] # "none"
          /\ chain[<<c, k>>] = "success"
          /\ height >= minedAt[<<c, k>>] + MinConfirmations
    BY <1>3, Zenon DEF ConfirmedIsSettled
  <2>2. <<c, k>> \in Tx
    BY Zenon DEF Tx
  <2>3. /\ rows'[<<c, k>>] # "none" /\ chain'[<<c, k>>] = "success"
        /\ minedAt'[<<c, k>>] = minedAt[<<c, k>>] /\ height' >= height
    BY <1>1, <2>1, <2>2, Zenon DEF Kept
  <2>4. height' >= minedAt'[<<c, k>>] + MinConfirmations
    <3>1. minedAt[<<c, k>>] \in Nat /\ height \in Nat /\ height' \in Nat
      BY <1>2, <2>2, Zenon
    <3> QED
      BY <2>1, <2>3, <3>1
  <2> QED
    BY <2>3, <2>4, Zenon
<1>4. CASE status[c] # "confirmed"
  <2>1. PICK t \in Tx : t[1] = c /\ ReceiptConfirmed(t)
    BY <1>1, <1>4, Zenon DEF WatcherConfirms
  <2>2. t[2] \in 1 .. MaxTx /\ t = <<c, t[2]>>
    BY <2>1 DEF Tx
  <2>3. rows[t] # "none" /\ chain[t] = "success" /\ height >= minedAt[t] + MinConfirmations
    <3>1. /\ t \in listed /\ chain[t] = "success"
          /\ seenBlock >= minedAt[t] + MinConfirmations
      BY <2>1, Zenon DEF ReceiptConfirmed, NextReceipt, Confirmed
    <3>2. rows[t] # "none" /\ seenBlock <= height
      BY <3>1, Zenon DEF SnapshotInv
    <3>3. seenBlock \in Nat /\ height \in Nat /\ minedAt[t] \in Nat
      BY <1>2, <2>1, Zenon DEF TypeOK
    <3> QED
      BY <3>1, <3>2, <3>3
  <2>4. /\ rows'[t] # "none" /\ chain'[t] = "success"
        /\ minedAt'[t] = minedAt[t] /\ height' >= height
    BY <1>1, <2>3, Zenon DEF Kept
  <2>5. height' >= minedAt'[t] + MinConfirmations
    <3>1. minedAt[t] \in Nat /\ height \in Nat /\ height' \in Nat /\ MinConfirmations \in Nat
      BY <1>2, <2>1, LimitsAssumption, Zenon
    <3>2. height >= minedAt[t] + MinConfirmations
      BY <2>3, Zenon
    <3>3. height' >= height
      BY <2>4, Zenon
    <3>4. height' >= minedAt[t] + MinConfirmations
      BY <3>1, <3>2, <3>3
    <3> QED
      BY <2>4, <3>4, Zenon
  <2> QED
    BY <2>2, <2>4, <2>5, Zenon
<1> QED
  BY <1>3, <1>4, Zenon

-----------------------------------------------------------------------------

\* A claim that is sent after a step was sent before and kept its rows, or was
\* acknowledged by the step, which wrote its row too.
SentKeepsRow ==
    \A c \in Claims : status'[c] = "sent" =>
        \/ status[c] = "sent" /\ \A k \in 1 .. MaxTx : rows'[<<c, k>>] = rows[<<c, k>>]
        \/ \E k \in 1 .. MaxTx : rows'[<<c, k>>] = "sent"

\* Every action either leaves the rows of a claim that is sent alone or, for Ack,
\* has just written one.
LEMMA SentKeepsRowStep == TypeOK /\ [Next]_vars => SentKeepsRow
<1> SUFFICES ASSUME TypeOK, [Next]_vars PROVE SentKeepsRow
  BY Zenon
<1> USE ClaimsAssumption, LimitsAssumption, BoundsAssumption
    DEF TypeOK, SentKeepsRow, Tx, SetStatus, Fault, table, worker, watcher, network, history
<1>1. ASSUME NEW c \in Claims, CreateClaim(c) PROVE SentKeepsRow
  BY <1>1, Zenon DEF CreateClaim
<1>2. ASSUME NEW c \in Claims, Enqueue(c) PROVE SentKeepsRow
  BY <1>2, Zenon DEF Enqueue
<1>3. ASSUME NEW c \in Claims, RejectIntake(c) PROVE SentKeepsRow
  BY <1>3, Zenon DEF RejectIntake
<1>4. ASSUME NEW c \in Claims, AbandonIntake(c) PROVE SentKeepsRow
  BY <1>4, Zenon DEF AbandonIntake
<1>5. ASSUME NEW c \in Claims, AdminRetryClaim(c) PROVE SentKeepsRow
  BY <1>5, Zenon DEF AdminRetryClaim
<1>6. ASSUME NEW c \in Claims, AdminCancelClaim(c) PROVE SentKeepsRow
  BY <1>6, Zenon DEF AdminCancelClaim
<1>7. ASSUME NEW c \in Claims, BackoffEnds(c) PROVE SentKeepsRow
  BY <1>7, Zenon DEF BackoffEnds
<1>8. ASSUME NEW c \in Claims, StuckTimeout(c) PROVE SentKeepsRow
  BY <1>8, Zenon DEF StuckTimeout
<1>9. CASE DequeueBatch
  BY <1>9, Zenon DEF DequeueBatch, Ready
<1>10. ASSUME NEW c \in Claims, NEW k \in 1 .. MaxTx, SendOK(c, k) PROVE SentKeepsRow
  BY <1>10, Zenon DEF SendOK, Broadcast, Current
<1>11. ASSUME NEW c \in Claims, SendError(c) PROVE SentKeepsRow
  BY <1>11, Zenon DEF SendError, Current
<1>12. ASSUME NEW c \in Claims, NEW k \in 1 .. MaxTx, SendAmbiguous(c, k) PROVE SentKeepsRow
  BY <1>12, Zenon DEF SendAmbiguous, Broadcast, Current
<1>13. CASE Ack
  BY <1>13, Zenon DEF Ack, Ackable, NextClaim
<1>14. CASE FailSelect
  BY <1>14, Zenon DEF FailSelect
<1>15. CASE FailUpdate
  BY <1>15, Zenon DEF FailUpdate, NextClaim
<1>16. CASE SettleError
  BY <1>16, Zenon DEF SettleError, NextClaim
<1>17. CASE ListPendingTransactions
  BY <1>17, Zenon DEF ListPendingTransactions
<1>18. CASE BlockNumber
  BY <1>18, Zenon DEF BlockNumber
<1>19. CASE ListStuckSending
  BY <1>19, Zenon DEF ListStuckSending
<1>20. CASE ListError
  BY <1>20, Zenon DEF ListError
<1>21. ASSUME NEW t \in Tx, ReceiptReverted(t) PROVE SentKeepsRow
  <2>1. FailTransaction(t[1])
    BY <1>21, Zenon DEF ReceiptReverted
  <2> QED
    BY <2>1, Zenon DEF FailTransaction
<1>22. ASSUME NEW t \in Tx, ReceiptConfirmed(t) PROVE SentKeepsRow
  <2>1. ConfirmTransaction(t[1])
    BY <1>22, Zenon DEF ReceiptConfirmed
  <2> QED
    BY <2>1 DEF ConfirmTransaction
<1>23. ASSUME NEW t \in Tx, ReceiptSkipped(t) PROVE SentKeepsRow
  BY <1>23, Zenon DEF ReceiptSkipped
<1>24. ASSUME NEW t \in Tx, ReceiptError(t) PROVE SentKeepsRow
  BY <1>24, Zenon DEF ReceiptError
<1>25. ASSUME NEW c \in Claims, ReconcileStuck(c) PROVE SentKeepsRow
  BY <1>25, Zenon DEF ReconcileStuck, FailTransaction
<1>26. ASSUME NEW c \in Claims, ReconcileError(c) PROVE SentKeepsRow
  BY <1>26, Zenon DEF ReconcileError
<1>27. ASSUME NEW t \in Tx, Mine(t) PROVE SentKeepsRow
  BY <1>27, Zenon DEF Mine
<1>28. ASSUME NEW t \in Tx, Drop(t) PROVE SentKeepsRow
  BY <1>28, Zenon DEF Drop
<1>29. CASE EmptyBlock
  BY <1>29, Zenon DEF EmptyBlock
<1>30. CASE Restart
  BY <1>30, Zenon DEF Restart
<1>31. CASE UNCHANGED vars
  BY <1>31, Zenon DEF vars
<1> QED
  BY <1>1, <1>2, <1>3, <1>4, <1>5, <1>6, <1>7, <1>8, <1>9, <1>10, <1>11, <1>12, <1>13, <1>14,
     <1>15, <1>16, <1>17, <1>18, <1>19, <1>20, <1>21, <1>22, <1>23, <1>24, <1>25, <1>26, <1>27,
     <1>28, <1>29, <1>30, <1>31, Zenon
     DEF Next, WorkerStep, WatcherStep

\* SentHasOpenRow is kept by every action.
LEMMA SentStep == TypeOK /\ SentHasOpenRow /\ [Next]_vars => SentHasOpenRow'
<1> SUFFICES ASSUME TypeOK, SentHasOpenRow, [Next]_vars PROVE SentHasOpenRow'
  BY Zenon
<1>1. SentKeepsRow
  BY SentKeepsRowStep, Zenon
<1> QED
  BY <1>1, Zenon DEF SentKeepsRow, SentHasOpenRow

-----------------------------------------------------------------------------

\* The watcher shows a claim as confirmed only when a recorded transaction of it
\* has succeeded and has the configured number of confirmations.
THEOREM ConfirmedOnlyIfSettled == Spec => []ConfirmedIsSettled
<1>1. Init => SnapshotInv /\ ConfirmedIsSettled
  BY DEF Init, SnapshotInv, ConfirmedIsSettled, Tx
<1>2. TypeOK /\ SnapshotInv /\ [Next]_vars => SnapshotInv'
  BY SettledFacts, Zenon DEF SettledStepFacts
<1> QED
  BY <1>1, <1>2, TypeCorrect, SettledStep, PTL DEF Spec

\* A claim that is sent has an open transaction row, so the watcher's join finds
\* it: Ack writes both or neither.
THEOREM SentIsVisible == Spec => []SentHasOpenRow
<1>1. Init => SentHasOpenRow
  BY Zenon DEF Init, SentHasOpenRow
<1> QED
  BY <1>1, TypeCorrect, SentStep, PTL DEF Spec

-----------------------------------------------------------------------------
\* PayoutPipeline implements PayoutPromise: every step of the handler, the worker,
\* the watcher, the operator or the environment is a step of the promise about
\* grants and payments, or leaves them alone.

\* One step of the promise, or a stutter of it.
PromiseStep == [Promise!Next]_(Promise!vars)

\* A write of one claim's status that does not confirm it.
LEMMA WriteHides ==
  ASSUME NEW c \in Claims, NEW s, s # "confirmed", status \in [Claims -> ClaimStatus],
         status' = [status EXCEPT ![c] = s], UNCHANGED <<broadcast, retries, ambiguous>>
  PROVE  PromiseStep
<1>1. Promise!Hide(c)
  BY Zenon DEF Promise!Hide
<1> QED
  BY <1>1, Zenon DEF PromiseStep, Promise!Next

\* A retry, or a broadcast in doubt, adds one to what the claim was granted.
LEMMA GrantedUp ==
  ASSUME NEW c \in Claims, retries \in [Claims -> Nat], ambiguous \in [Claims -> Nat],
         \/ retries' = [retries EXCEPT ![c] = @ + 1] /\ UNCHANGED ambiguous
         \/ ambiguous' = [ambiguous EXCEPT ![c] = @ + 1] /\ UNCHANGED retries
  PROVE  [d \in Claims |-> 1 + retries'[d] + ambiguous'[d]]
           = [[d \in Claims |-> 1 + retries[d] + ambiguous[d]] EXCEPT ![c] = @ + 1]
<1> DEFINE G == [d \in Claims |-> 1 + retries[d] + ambiguous[d]]
           H == [d \in Claims |-> 1 + retries'[d] + ambiguous'[d]]
<1>1. ASSUME NEW d \in Claims PROVE H[d] = [G EXCEPT ![c] = @ + 1][d]
  <2>1. CASE d = c
    <3>1. [G EXCEPT ![c] = @ + 1][d] = 1 + retries[c] + ambiguous[c] + 1
      BY <2>1, Zenon
    <3>2. H[d] = 1 + retries'[c] + ambiguous'[c]
      BY <2>1, Zenon
    <3>3. retries'[c] + ambiguous'[c] = retries[c] + ambiguous[c] + 1
      OBVIOUS
    <3> QED
      BY <3>1, <3>2, <3>3
  <2>2. CASE d # c
    BY <2>2, Zenon
  <2> QED
    BY <2>1, <2>2, Zenon
<1> QED
  BY <1>1, Zenon

\* Every action of the pipeline is a step of the promise or changes nothing the
\* promise speaks of: SendOK pays, SendAmbiguous pays in doubt, the operator's
\* retry grants, and the watcher shows and hides.
LEMMA PromiseSteps == TypeOK /\ PayoutInv /\ SnapshotInv /\ [Next]_vars => PromiseStep
<1> SUFFICES ASSUME TypeOK, PayoutInv, SnapshotInv, [Next]_vars PROVE PromiseStep
  BY Zenon
<1> USE ClaimsAssumption, LimitsAssumption, BoundsAssumption
    DEF TypeOK, PromiseStep, Promise!vars, SetStatus, Fault, table, worker, watcher, network,
        history
<1>1. ASSUME NEW c \in Claims, CreateClaim(c) PROVE PromiseStep
  BY <1>1, Zenon DEF CreateClaim
<1>2. ASSUME NEW c \in Claims, Enqueue(c) PROVE PromiseStep
  <2>1. /\ status' = [status EXCEPT ![c] = "queued"]
        /\ UNCHANGED <<broadcast, retries, ambiguous>>
    BY <1>2, Zenon DEF Enqueue
  <2> QED
    BY <2>1, WriteHides, Zenon
<1>3. ASSUME NEW c \in Claims, RejectIntake(c) PROVE PromiseStep
  <2>1. /\ status' = [status EXCEPT ![c] = "rejected"]
        /\ UNCHANGED <<broadcast, retries, ambiguous>>
    BY <1>3, Zenon DEF RejectIntake
  <2> QED
    BY <2>1, WriteHides, Zenon
<1>4. ASSUME NEW c \in Claims, AbandonIntake(c) PROVE PromiseStep
  BY <1>4, Zenon DEF AbandonIntake
<1>5. ASSUME NEW c \in Claims, AdminRetryClaim(c) PROVE PromiseStep
  <2>1. Promise!Grant(c)
    BY <1>5, GrantedUp, Zenon DEF AdminRetryClaim, Promise!Grant
  <2> QED
    BY <2>1, Zenon DEF Promise!Next
<1>6. ASSUME NEW c \in Claims, AdminCancelClaim(c) PROVE PromiseStep
  BY <1>6, Zenon DEF AdminCancelClaim
<1>7. ASSUME NEW c \in Claims, BackoffEnds(c) PROVE PromiseStep
  BY <1>7, Zenon DEF BackoffEnds
<1>8. ASSUME NEW c \in Claims, StuckTimeout(c) PROVE PromiseStep
  BY <1>8, Zenon DEF StuckTimeout
<1>9. CASE DequeueBatch
  <2>1. \A c \in Claims : status'[c] = "confirmed" <=> status[c] = "confirmed"
    BY <1>9 DEF DequeueBatch, Ready
  <2>2. UNCHANGED <<broadcast, retries, ambiguous>>
    BY <1>9, Zenon DEF DequeueBatch
  <2> QED
    BY <2>1, <2>2, Zenon
<1>10. ASSUME NEW c \in Claims, NEW k \in 1 .. MaxTx, SendOK(c, k) PROVE PromiseStep
  <2>1. CASE broadcast' = [broadcast EXCEPT ![c] = broadcast[c] + 1]
    <3>1. broadcast[c] < 1 + retries[c] + ambiguous[c]
      BY <1>10 DEF SendOK, Current, PayoutInv, InFlight, One
    <3>2. Promise!Pay(c)
      BY <1>10, <2>1, <3>1, Zenon DEF SendOK, Promise!Pay
    <3> QED
      BY <3>2, Zenon DEF Promise!Next
  <2>2. CASE UNCHANGED broadcast
    BY <1>10, <2>2, Zenon DEF SendOK
  <2> QED
    BY <1>10, <2>1, <2>2, Zenon DEF SendOK, Broadcast
<1>11. ASSUME NEW c \in Claims, SendError(c) PROVE PromiseStep
  BY <1>11, Zenon DEF SendError, Current
<1>12. ASSUME NEW c \in Claims, NEW k \in 1 .. MaxTx, SendAmbiguous(c, k) PROVE PromiseStep
  <2>1. CASE broadcast' = [broadcast EXCEPT ![c] = broadcast[c] + 1]
    <3>1. broadcast[c] < 1 + retries[c] + ambiguous[c]
      BY <1>12 DEF SendAmbiguous, Current, PayoutInv, InFlight, One
    <3>2. Promise!PayInDoubt(c)
      BY <1>12, <2>1, <3>1, GrantedUp, Zenon DEF SendAmbiguous, Promise!PayInDoubt
    <3> QED
      BY <3>2, Zenon DEF Promise!Next
  <2>2. CASE UNCHANGED broadcast
    <3>1. Promise!Grant(c)
      BY <1>12, <2>2, GrantedUp, Zenon DEF SendAmbiguous, Promise!Grant
    <3> QED
      BY <3>1, Zenon DEF Promise!Next
  <2> QED
    BY <1>12, <2>1, <2>2, Zenon DEF SendAmbiguous, Broadcast
<1>13. CASE Ack
  <2>1. UNCHANGED <<broadcast, retries, ambiguous>>
    BY <1>13, Zenon DEF Ack
  <2>2. CASE SetStatus(wclaim, "sent")
    <3>1. status' = [status EXCEPT ![wclaim] = "sent"]
      BY <2>2, Zenon DEF SetStatus
    <3>2. CASE wclaim \in Claims
      BY <2>1, <3>1, <3>2, WriteHides, Zenon
    <3>3. CASE wclaim \notin Claims
      <4>1. status' = status
        BY <3>1, <3>3
      <4> QED
        BY <2>1, <4>1, Zenon
    <3> QED
      BY <3>2, <3>3, Zenon
  <2>3. CASE UNCHANGED status
    BY <2>1, <2>3, Zenon
  <2> QED
    BY <1>13, <2>2, <2>3, Zenon DEF Ack
<1>14. CASE FailSelect
  BY <1>14, Zenon DEF FailSelect
<1>15. CASE FailUpdate
  <2>1. wclaim \in Claims /\ UNCHANGED <<broadcast, retries, ambiguous>>
    BY <1>15, Zenon DEF FailUpdate
  <2>2. PICK s \in {"failed", "queued"} : status' = [status EXCEPT ![wclaim] = s]
    BY <1>15, Zenon DEF FailUpdate
  <2> QED
    BY <2>1, <2>2, WriteHides, Zenon
<1>16. CASE SettleError
  BY <1>16, Zenon DEF SettleError, NextClaim
<1>17. CASE ListPendingTransactions
  BY <1>17, Zenon DEF ListPendingTransactions
<1>18. CASE BlockNumber
  BY <1>18, Zenon DEF BlockNumber
<1>19. CASE ListStuckSending
  BY <1>19, Zenon DEF ListStuckSending
<1>20. CASE ListError
  BY <1>20, Zenon DEF ListError
<1>21. ASSUME NEW t \in Tx, ReceiptReverted(t) PROVE PromiseStep
  <2>1. /\ t[1] \in Claims
        /\ status' = [status EXCEPT ![t[1]] = "failed"]
        /\ UNCHANGED <<broadcast, retries, ambiguous>>
    BY <1>21, Zenon DEF ReceiptReverted, FailTransaction, Tx
  <2> QED
    BY <2>1, WriteHides, Zenon
<1>22. ASSUME NEW t \in Tx, ReceiptConfirmed(t) PROVE PromiseStep
  <2>1. t[1] \in Claims /\ t[2] \in 1 .. MaxTx /\ t = <<t[1], t[2]>>
    BY DEF Tx
  <2>2. CASE status' = [status EXCEPT ![t[1]] = "confirmed"]
    <3>1. broadcast[t[1]] > 0
      BY <1>22, <2>1 DEF ReceiptConfirmed, Confirmed, SnapshotInv
    <3>2. Promise!Show(t[1])
      BY <1>22, <2>1, <2>2, <3>1, Zenon DEF ReceiptConfirmed, Promise!Show
    <3> QED
      BY <2>1, <3>2, Zenon DEF Promise!Next
  <2>3. CASE UNCHANGED status
    BY <1>22, <2>3, Zenon DEF ReceiptConfirmed
  <2> QED
    BY <1>22, <2>2, <2>3, Zenon DEF ReceiptConfirmed, ConfirmTransaction
<1>23. ASSUME NEW t \in Tx, ReceiptSkipped(t) PROVE PromiseStep
  BY <1>23, Zenon DEF ReceiptSkipped
<1>24. ASSUME NEW t \in Tx, ReceiptError(t) PROVE PromiseStep
  BY <1>24, Zenon DEF ReceiptError
<1>25. ASSUME NEW c \in Claims, ReconcileStuck(c) PROVE PromiseStep
  <2>1. /\ status' = [status EXCEPT ![c] = "failed"]
        /\ UNCHANGED <<broadcast, retries, ambiguous>>
    BY <1>25, Zenon DEF ReconcileStuck, FailTransaction
  <2> QED
    BY <2>1, WriteHides, Zenon
<1>26. ASSUME NEW c \in Claims, ReconcileError(c) PROVE PromiseStep
  BY <1>26, Zenon DEF ReconcileError
<1>27. ASSUME NEW t \in Tx, Mine(t) PROVE PromiseStep
  BY <1>27, Zenon DEF Mine
<1>28. ASSUME NEW t \in Tx, Drop(t) PROVE PromiseStep
  BY <1>28, Zenon DEF Drop
<1>29. CASE EmptyBlock
  BY <1>29, Zenon DEF EmptyBlock
<1>30. CASE Restart
  BY <1>30, Zenon DEF Restart
<1>31. CASE UNCHANGED vars
  BY <1>31, Zenon DEF vars
<1> QED
  BY <1>1, <1>2, <1>3, <1>4, <1>5, <1>6, <1>7, <1>8, <1>9, <1>10, <1>11, <1>12, <1>13, <1>14,
     <1>15, <1>16, <1>17, <1>18, <1>19, <1>20, <1>21, <1>22, <1>23, <1>24, <1>25, <1>26, <1>27,
     <1>28, <1>29, <1>30, <1>31, Zenon
     DEF Next, WorkerStep, WatcherStep

\* The pipeline implements the promise: whatever the queue, the worker, the watcher,
\* the operator and crashes do, every payment uses up a grant.
THEOREM PipelineKeepsPromise == Spec => KeepsPromise
<1>1. Init => Promise!Init
  BY DEF Init, Promise!Init
<1>2. Init => PayoutInv /\ SnapshotInv
  BY DEF Init, PayoutInv, InFlight, One, SnapshotInv, Tx
<1>3. TypeOK /\ SnapshotInv /\ [Next]_vars => SnapshotInv'
  BY SettledFacts, Zenon DEF SettledStepFacts
<1> QED
  BY <1>1, <1>2, <1>3, TypeCorrect, PayoutStep, PromiseSteps, PTL
     DEF Spec, KeepsPromise, Promise!Spec, PromiseStep

=============================================================================
