------------------------- MODULE PayoutPipelineProofs -------------------------
(***************************************************************************)
(* Proofs about PayoutPipeline for every set of claims, every batch size,  *)
(* retry limit and number of confirmations, and every value of the bounds. *)
(***************************************************************************)
EXTENDS PayoutPipeline, TLAPS

\* Every variable of the pipeline keeps its type, over every action of the
\* claim handler, the worker, the watcher, the operator and the environment.
THEOREM TypeCorrect == Spec => []TypeOK
<1> USE ClaimsAssumption, LimitsAssumption, BoundsAssumption
<1>1. Init => TypeOK
  BY DEF Init, TypeOK, ClaimStatus, RowStatus, TxState
<1>2. TypeOK /\ [Next]_vars => TypeOK'
  <2> SUFFICES ASSUME TypeOK, [Next]_vars PROVE TypeOK'
    OBVIOUS
  <2> USE DEF TypeOK, SetStatus, Fault, table, worker, watcher, network, history
  <2>1. ASSUME NEW c \in Claims, CreateClaim(c) PROVE TypeOK'
    BY <2>1 DEF CreateClaim, ClaimStatus
  <2>2. ASSUME NEW c \in Claims, Enqueue(c) PROVE TypeOK'
    BY <2>2 DEF Enqueue, ClaimStatus
  <2>3. ASSUME NEW c \in Claims, RejectIntake(c) PROVE TypeOK'
    BY <2>3 DEF RejectIntake, ClaimStatus
  <2>4. ASSUME NEW c \in Claims, AbandonIntake(c) PROVE TypeOK'
    BY <2>4 DEF AbandonIntake
  <2>5. ASSUME NEW c \in Claims, AdminRetryClaim(c) PROVE TypeOK'
    BY <2>5 DEF AdminRetryClaim, ClaimStatus
  <2>6. ASSUME NEW c \in Claims, AdminCancelClaim(c) PROVE TypeOK'
    BY <2>6 DEF AdminCancelClaim, ClaimStatus
  <2>7. ASSUME NEW c \in Claims, BackoffEnds(c) PROVE TypeOK'
    BY <2>7 DEF BackoffEnds
  <2>8. ASSUME NEW c \in Claims, StuckTimeout(c) PROVE TypeOK'
    BY <2>8 DEF StuckTimeout
  <2>9. CASE DequeueBatch
    <3>1. PICK B \in SUBSET Ready :
            /\ batch' = B
            /\ status' = [c \in Claims |-> IF c \in B THEN "sending" ELSE status[c]]
            /\ aged' = [c \in Claims |-> IF c \in B THEN FALSE ELSE aged[c]]
      BY <2>9, Zenon DEF DequeueBatch
    <3>2. B \subseteq Claims
      BY DEF Ready
    <3>3. aged' \in [Claims -> BOOLEAN]
      <4>1. ASSUME NEW c \in Claims PROVE (IF c \in B THEN FALSE ELSE aged[c]) \in BOOLEAN
        BY Zenon
      <4> QED
        BY <3>1, <4>1, Zenon
    <3>4. status' \in [Claims -> ClaimStatus]
      BY <3>1 DEF ClaimStatus
    <3> QED
      BY <2>9, <3>1, <3>2, <3>3, <3>4, Zenon DEF DequeueBatch
  <2>10. ASSUME NEW c \in Claims, NEW k \in 1 .. MaxTx, SendOK(c, k) PROVE TypeOK'
    BY <2>10 DEF SendOK, Broadcast, Current, Tx, TxState
  <2>11. ASSUME NEW c \in Claims, SendError(c) PROVE TypeOK'
    BY <2>11 DEF SendError, Current
  <2>12. ASSUME NEW c \in Claims, NEW k \in 1 .. MaxTx, SendAmbiguous(c, k) PROVE TypeOK'
    BY <2>12 DEF SendAmbiguous, Broadcast, Current, Tx, TxState
  <2>13. CASE Ack
    <3>1. wclaim \in Claims /\ <<wclaim, wtx>> \in Tx
      BY <2>13 DEF Ack, Tx
    <3>2. CASE Ackable /\ SetStatus(wclaim, "sent")
                 /\ rows' = [rows EXCEPT ![<<wclaim, wtx>>] = "sent"]
      BY <2>13, <3>1, <3>2 DEF Ack, NextClaim, RowStatus, ClaimStatus
    <3>3. CASE UNCHANGED <<status, aged, rows>>
      BY <2>13, <3>3 DEF Ack, NextClaim
    <3> QED
      BY <2>13, <3>2, <3>3 DEF Ack
  <2>14. CASE FailSelect
    <3>1. wclaim \in Claims
      BY <2>14 DEF FailSelect
    <3>2. retryCount[wclaim] + 1 \in Nat
      BY <3>1
    <3>3. /\ wcount' \in Nat /\ wpc' = "update" /\ UNCHANGED <<batch, wclaim, wtx>>
          /\ UNCHANGED <<status, retryCount, waiting, aged, rows, intake>>
          /\ UNCHANGED <<watcher, network, history>>
      BY <2>14, <3>2 DEF FailSelect
    <3> QED
      BY <3>1, <3>3
  <2>15. CASE FailUpdate
    BY <2>15, Zenon DEF FailUpdate, NextClaim, ClaimStatus
  <2>16. CASE SettleError
    BY <2>16 DEF SettleError, NextClaim
  <2>17. CASE ListPendingTransactions
    BY <2>17 DEF ListPendingTransactions, Page, Pending
  <2>18. CASE BlockNumber
    BY <2>18 DEF BlockNumber
  <2>19. CASE ListStuckSending
    BY <2>19 DEF ListStuckSending, Page, Stuck
  <2>20. CASE ListError
    BY <2>20 DEF ListError
  <2>21. ASSUME NEW t \in Tx, ReceiptReverted(t) PROVE TypeOK'
    BY <2>21 DEF ReceiptReverted, NextReceipt, FailTransaction, Tx, RowStatus, ClaimStatus
  <2>22. ASSUME NEW t \in Tx, ReceiptConfirmed(t) PROVE TypeOK'
    <3>1. t[1] \in Claims
      BY DEF Tx
    <3>2. CASE UNCHANGED <<status, aged, rows>>
      BY <2>22, <3>2 DEF ReceiptConfirmed, NextReceipt
    <3>3. CASE /\ SetStatus(t[1], "confirmed")
               /\ rows' = [u \in Tx |-> IF u[1] = t[1] /\ rows[u] # "none" THEN "confirmed"
                                        ELSE rows[u]]
      BY <2>22, <3>1, <3>3 DEF ReceiptConfirmed, NextReceipt, RowStatus, ClaimStatus
    <3> QED
      BY <2>22, <3>2, <3>3 DEF ReceiptConfirmed, ConfirmTransaction
  <2>23. ASSUME NEW t \in Tx, ReceiptSkipped(t) PROVE TypeOK'
    BY <2>23 DEF ReceiptSkipped, NextReceipt
  <2>24. ASSUME NEW t \in Tx, ReceiptError(t) PROVE TypeOK'
    BY <2>24 DEF ReceiptError, NextReceipt
  <2>25. ASSUME NEW c \in Claims, ReconcileStuck(c) PROVE TypeOK'
    BY <2>25 DEF ReconcileStuck, NextStuck, FailTransaction, RowStatus, ClaimStatus
  <2>26. ASSUME NEW c \in Claims, ReconcileError(c) PROVE TypeOK'
    BY <2>26 DEF ReconcileError, NextStuck
  <2>27. ASSUME NEW t \in Tx, Mine(t) PROVE TypeOK'
    BY <2>27 DEF Mine, TxState
  <2>28. ASSUME NEW t \in Tx, Drop(t) PROVE TypeOK'
    BY <2>28 DEF Drop, TxState
  <2>29. CASE EmptyBlock
    BY <2>29 DEF EmptyBlock
  <2>30. CASE Restart
    BY <2>30 DEF Restart
  <2>31. CASE UNCHANGED vars
    BY <2>31 DEF vars
  <2> QED
    BY <2>1, <2>2, <2>3, <2>4, <2>5, <2>6, <2>7, <2>8, <2>9, <2>10, <2>11, <2>12, <2>13,
       <2>14, <2>15, <2>16, <2>17, <2>18, <2>19, <2>20, <2>21, <2>22, <2>23, <2>24, <2>25,
       <2>26, <2>27, <2>28, <2>29, <2>30, <2>31, Zenon
       DEF Next, WorkerStep, WatcherStep
<1> QED
  BY <1>1, <1>2, PTL DEF Spec

-----------------------------------------------------------------------------

One(p) == IF p THEN 1 ELSE 0

\* The sends of claim c that may still follow without a new licence: its handler
\* has yet to enqueue it, it is queued, it waits in the worker's batch, or the
\* worker is about to Fail an attempt.
InFlight(c) ==
    One(intake[c] # "closed") + One(status[c] = "queued") + One(c \in batch)
      + One(wpc \in {"fail", "update"} /\ wclaim = c)

\* AtMostOncePayout made inductive: what is in flight counts against the bound.
PayoutInv ==
    /\ wpc = "idle" => batch = {}
    /\ \A c \in Claims : status[c] = "absent" => intake[c] = "none"
    /\ \A c \in Claims : broadcast[c] + InFlight(c) <= 1 + retries[c] + ambiguous[c]

\* No action of the handler, the worker, the watcher, the operator or the
\* environment breaks PayoutInv: a send moves one unit from in flight to paid.
LEMMA PayoutStep == TypeOK /\ PayoutInv /\ [Next]_vars => PayoutInv'
<1> SUFFICES ASSUME TypeOK, PayoutInv, [Next]_vars PROVE PayoutInv'
  OBVIOUS
<1> USE ClaimsAssumption, LimitsAssumption, BoundsAssumption
    DEF TypeOK, PayoutInv, InFlight, One, SetStatus, Fault, table, worker, watcher, network, history
<1>1. ASSUME NEW c \in Claims, CreateClaim(c) PROVE PayoutInv'
  BY <1>1 DEF CreateClaim
<1>2. ASSUME NEW c \in Claims, Enqueue(c) PROVE PayoutInv'
  BY <1>2 DEF Enqueue
<1>3. ASSUME NEW c \in Claims, RejectIntake(c) PROVE PayoutInv'
  BY <1>3 DEF RejectIntake
<1>4. ASSUME NEW c \in Claims, AbandonIntake(c) PROVE PayoutInv'
  BY <1>4 DEF AbandonIntake
<1>5. ASSUME NEW c \in Claims, AdminRetryClaim(c) PROVE PayoutInv'
  BY <1>5 DEF AdminRetryClaim
<1>6. ASSUME NEW c \in Claims, AdminCancelClaim(c) PROVE PayoutInv'
  BY <1>6 DEF AdminCancelClaim
<1>7. ASSUME NEW c \in Claims, BackoffEnds(c) PROVE PayoutInv'
  BY <1>7 DEF BackoffEnds
<1>8. ASSUME NEW c \in Claims, StuckTimeout(c) PROVE PayoutInv'
  BY <1>8 DEF StuckTimeout
<1>9. CASE DequeueBatch
  BY <1>9 DEF DequeueBatch, Ready
<1>10. ASSUME NEW c \in Claims, NEW k \in 1 .. MaxTx, SendOK(c, k) PROVE PayoutInv'
  BY <1>10 DEF SendOK, Broadcast, Current
<1>11. ASSUME NEW c \in Claims, SendError(c) PROVE PayoutInv'
  BY <1>11 DEF SendError, Current
<1>12. ASSUME NEW c \in Claims, NEW k \in 1 .. MaxTx, SendAmbiguous(c, k) PROVE PayoutInv'
  BY <1>12 DEF SendAmbiguous, Broadcast, Current
<1>13. CASE Ack
  BY <1>13 DEF Ack, Ackable, NextClaim
<1>14. CASE FailSelect
  BY <1>14 DEF FailSelect
<1>15. CASE FailUpdate
  BY <1>15 DEF FailUpdate, NextClaim
<1>16. CASE SettleError
  BY <1>16 DEF SettleError, NextClaim
<1>17. CASE ListPendingTransactions
  BY <1>17 DEF ListPendingTransactions
<1>18. CASE BlockNumber
  BY <1>18 DEF BlockNumber
<1>19. CASE ListStuckSending
  BY <1>19 DEF ListStuckSending
<1>20. CASE ListError
  BY <1>20 DEF ListError
<1>21. ASSUME NEW t \in Tx, ReceiptReverted(t) PROVE PayoutInv'
  BY <1>21 DEF ReceiptReverted, FailTransaction
<1>22. ASSUME NEW t \in Tx, ReceiptConfirmed(t) PROVE PayoutInv'
  BY <1>22 DEF ReceiptConfirmed, ConfirmTransaction
<1>23. ASSUME NEW t \in Tx, ReceiptSkipped(t) PROVE PayoutInv'
  BY <1>23 DEF ReceiptSkipped
<1>24. ASSUME NEW t \in Tx, ReceiptError(t) PROVE PayoutInv'
  BY <1>24 DEF ReceiptError
<1>25. ASSUME NEW c \in Claims, ReconcileStuck(c) PROVE PayoutInv'
  BY <1>25 DEF ReconcileStuck, FailTransaction
<1>26. ASSUME NEW c \in Claims, ReconcileError(c) PROVE PayoutInv'
  BY <1>26 DEF ReconcileError
<1>27. ASSUME NEW t \in Tx, Mine(t) PROVE PayoutInv'
  BY <1>27 DEF Mine
<1>28. ASSUME NEW t \in Tx, Drop(t) PROVE PayoutInv'
  BY <1>28 DEF Drop
<1>29. CASE EmptyBlock
  BY <1>29 DEF EmptyBlock
<1>30. CASE Restart
  BY <1>30 DEF Restart
<1>31. CASE UNCHANGED vars
  BY <1>31 DEF vars
<1> QED
  BY <1>1, <1>2, <1>3, <1>4, <1>5, <1>6, <1>7, <1>8, <1>9, <1>10, <1>11, <1>12, <1>13, <1>14,
     <1>15, <1>16, <1>17, <1>18, <1>19, <1>20, <1>21, <1>22, <1>23, <1>24, <1>25, <1>26, <1>27,
     <1>28, <1>29, <1>30, <1>31, Zenon
     DEF Next, WorkerStep, WatcherStep

\* Fail's retry counter, as far as it can still lead to a re-queue.
Requeues(c) == IF retryCount[c] < MaxRetries THEN retryCount[c] ELSE MaxRetries - 1

\* The hand-overs of claim c to the sender that may still follow.
ToSend(c) == One(intake[c] # "closed") + One(status[c] = "queued") + One(c \in batch)

\* AttemptsBounded made inductive: every re-queue by Fail is paid for by the
\* retry counter, which Fail reads and writes back in two statements.
AttemptsInv ==
    /\ wpc = "idle" => batch = {}
    /\ wpc = "update" => wcount = retryCount[wclaim] + 1
    /\ \A c \in Claims : status[c] = "absent" => intake[c] = "none"
    /\ \A c \in Claims : attempts[c] + ToSend(c) <= 1 + retries[c] + Requeues(c)

\* No action breaks AttemptsInv: an attempt is used up by SendOK or SendError, and
\* only Fail and the operator's retry give a claim another one.
LEMMA AttemptsStep == TypeOK /\ AttemptsInv /\ [Next]_vars => AttemptsInv'
<1> SUFFICES ASSUME TypeOK, AttemptsInv, [Next]_vars PROVE AttemptsInv'
  OBVIOUS
<1> USE ClaimsAssumption, LimitsAssumption, BoundsAssumption
    DEF TypeOK, AttemptsInv, ToSend, Requeues, One, SetStatus, Fault, table, worker, watcher, network, history
<1>1. ASSUME NEW c \in Claims, CreateClaim(c) PROVE AttemptsInv'
  BY <1>1 DEF CreateClaim
<1>2. ASSUME NEW c \in Claims, Enqueue(c) PROVE AttemptsInv'
  BY <1>2 DEF Enqueue
<1>3. ASSUME NEW c \in Claims, RejectIntake(c) PROVE AttemptsInv'
  BY <1>3 DEF RejectIntake
<1>4. ASSUME NEW c \in Claims, AbandonIntake(c) PROVE AttemptsInv'
  BY <1>4 DEF AbandonIntake
<1>5. ASSUME NEW c \in Claims, AdminRetryClaim(c) PROVE AttemptsInv'
  BY <1>5 DEF AdminRetryClaim
<1>6. ASSUME NEW c \in Claims, AdminCancelClaim(c) PROVE AttemptsInv'
  BY <1>6 DEF AdminCancelClaim
<1>7. ASSUME NEW c \in Claims, BackoffEnds(c) PROVE AttemptsInv'
  BY <1>7 DEF BackoffEnds
<1>8. ASSUME NEW c \in Claims, StuckTimeout(c) PROVE AttemptsInv'
  BY <1>8 DEF StuckTimeout
<1>9. CASE DequeueBatch
  BY <1>9 DEF DequeueBatch, Ready
<1>10. ASSUME NEW c \in Claims, NEW k \in 1 .. MaxTx, SendOK(c, k) PROVE AttemptsInv'
  BY <1>10 DEF SendOK, Broadcast, Current
<1>11. ASSUME NEW c \in Claims, SendError(c) PROVE AttemptsInv'
  BY <1>11 DEF SendError, Current
<1>12. ASSUME NEW c \in Claims, NEW k \in 1 .. MaxTx, SendAmbiguous(c, k) PROVE AttemptsInv'
  BY <1>12 DEF SendAmbiguous, Broadcast, Current
<1>13. CASE Ack
  BY <1>13 DEF Ack, Ackable, NextClaim
<1>14. CASE FailSelect
  BY <1>14 DEF FailSelect
<1>15. CASE FailUpdate
  BY <1>15 DEF FailUpdate, NextClaim
<1>16. CASE SettleError
  BY <1>16 DEF SettleError, NextClaim
<1>17. CASE ListPendingTransactions
  BY <1>17 DEF ListPendingTransactions
<1>18. CASE BlockNumber
  BY <1>18 DEF BlockNumber
<1>19. CASE ListStuckSending
  BY <1>19 DEF ListStuckSending
<1>20. CASE ListError
  BY <1>20 DEF ListError
<1>21. ASSUME NEW t \in Tx, ReceiptReverted(t) PROVE AttemptsInv'
  BY <1>21 DEF ReceiptReverted, FailTransaction
<1>22. ASSUME NEW t \in Tx, ReceiptConfirmed(t) PROVE AttemptsInv'
  BY <1>22 DEF ReceiptConfirmed, ConfirmTransaction
<1>23. ASSUME NEW t \in Tx, ReceiptSkipped(t) PROVE AttemptsInv'
  BY <1>23 DEF ReceiptSkipped
<1>24. ASSUME NEW t \in Tx, ReceiptError(t) PROVE AttemptsInv'
  BY <1>24 DEF ReceiptError
<1>25. ASSUME NEW c \in Claims, ReconcileStuck(c) PROVE AttemptsInv'
  BY <1>25 DEF ReconcileStuck, FailTransaction
<1>26. ASSUME NEW c \in Claims, ReconcileError(c) PROVE AttemptsInv'
  BY <1>26 DEF ReconcileError
<1>27. ASSUME NEW t \in Tx, Mine(t) PROVE AttemptsInv'
  BY <1>27 DEF Mine
<1>28. ASSUME NEW t \in Tx, Drop(t) PROVE AttemptsInv'
  BY <1>28 DEF Drop
<1>29. CASE EmptyBlock
  BY <1>29 DEF EmptyBlock
<1>30. CASE Restart
  BY <1>30 DEF Restart
<1>31. CASE UNCHANGED vars
  BY <1>31 DEF vars
<1> QED
  BY <1>1, <1>2, <1>3, <1>4, <1>5, <1>6, <1>7, <1>8, <1>9, <1>10, <1>11, <1>12, <1>13, <1>14,
     <1>15, <1>16, <1>17, <1>18, <1>19, <1>20, <1>21, <1>22, <1>23, <1>24, <1>25, <1>26, <1>27,
     <1>28, <1>29, <1>30, <1>31, Zenon
     DEF Next, WorkerStep, WatcherStep

-----------------------------------------------------------------------------

\* A claim is paid at most once per licence: its first enqueueing, an operator's
\* retry, or a broadcast the sender was told had failed.
THEOREM PaidAtMostOnce == Spec => []AtMostOncePayout
<1>1. Init => PayoutInv
  <2> SUFFICES ASSUME Init PROVE PayoutInv
    OBVIOUS
  <2>1. \A c \in Claims : InFlight(c) = 1
    BY DEF Init, InFlight, One
  <2> QED
    BY <2>1 DEF Init, PayoutInv
<1>2. TypeOK /\ PayoutInv => AtMostOncePayout
  <2> SUFFICES ASSUME TypeOK, PayoutInv, NEW c \in Claims
               PROVE  broadcast[c] <= 1 + retries[c] + ambiguous[c]
    BY DEF AtMostOncePayout
  <2>1. broadcast[c] \in Nat /\ retries[c] \in Nat /\ ambiguous[c] \in Nat
    BY DEF TypeOK
  <2>2. InFlight(c) \in Nat
    BY DEF InFlight, One
  <2>3. broadcast[c] + InFlight(c) <= 1 + retries[c] + ambiguous[c]
    BY DEF PayoutInv
  <2> QED
    BY <2>1, <2>2, <2>3
<1> QED
  BY <1>1, <1>2, TypeCorrect, PayoutStep, PTL DEF Spec

\* A claim is handed to the sender at most MaxRetries times, plus once for each
\* of the operator's retries.
THEOREM AttemptsAreBounded == Spec => []AttemptsBounded
<1> USE LimitsAssumption
<1>1. Init => AttemptsInv
  <2> SUFFICES ASSUME Init PROVE AttemptsInv
    OBVIOUS
  <2>1. \A c \in Claims : ToSend(c) = 1 /\ Requeues(c) = 0
    BY DEF Init, ToSend, Requeues, One
  <2> QED
    BY <2>1 DEF Init, AttemptsInv
<1>2. TypeOK /\ AttemptsInv => AttemptsBounded
  <2> SUFFICES ASSUME TypeOK, AttemptsInv, NEW c \in Claims
               PROVE  attempts[c] <= MaxRetries + retries[c]
    BY DEF AttemptsBounded
  <2>1. attempts[c] \in Nat /\ retries[c] \in Nat /\ retryCount[c] \in Nat
    BY DEF TypeOK
  <2>2. ToSend(c) \in Nat
    BY DEF ToSend, One
  <2>3. Requeues(c) \in Nat /\ Requeues(c) <= MaxRetries - 1
    BY <2>1 DEF Requeues
  <2>4. attempts[c] + ToSend(c) <= 1 + retries[c] + Requeues(c)
    BY DEF AttemptsInv
  <2> QED
    BY <2>1, <2>2, <2>3, <2>4
<1> QED
  BY <1>1, <1>2, TypeCorrect, AttemptsStep, PTL DEF Spec

=============================================================================
